------------------------------ MODULE VenueFeeds ------------------------------
(***************************************************************************)
(* A venue client's streams (subscribe_*, subscribe_derivatives,           *)
(* subscribe_user_data and poll_events of exchanges/*.rs), for the ten     *)
(* venues: which socket a subscription is sent on, what the client keeps   *)
(* to replay and to name what arrives, and what it tells of each frame.    *)
(*                                                                         *)
(* A poll is one step here.  MarketStream has its steps, with the frames   *)
(* and the drops that arrive between them; this module has the tables that *)
(* a poll uses, and up to three sockets whose drops it meets.              *)
(*                                                                         *)
(* A definition named X_Fault precedes X and is X with a plausible fault   *)
(* in the code: the properties are tested with it.                         *)
(***************************************************************************)
EXTENDS FeedFrames, FiniteSets

CONSTANTS
  Clients,     \* the clients: records of a venue and a market
  Symbols,     \* the symbols a caller may ask for
  Watched,     \* the symbol whose derivatives the caller folds into a tick
  MaxCalls,    \* bound: subscriptions the caller makes
  MaxFrames,   \* bound: frames and pings the venue sends
  MaxTroubles  \* bound: drops, and calls that fail

ASSUME FeedsAssumption ==
  /\ Clients \subseteq [venue : {"binance", "bitget", "bybit", "coinbase", "gate",
                                 "htx", "kraken", "kucoin", "okx", "upbit"},
                        market : {"spot", "linear"}]
  /\ \A c \in Clients : c.venue \in {"coinbase", "upbit"} => c.market = "spot"
  /\ Watched \in Symbols
  /\ Symbols \cap {"all", "base", "dropped", "none"} = {}  \* words of these modules
  /\ {MaxCalls, MaxFrames, MaxTroubles} \subseteq Nat

VARIABLES
  client,
  public,         \* connection: a socket, or None
  notice,         \* notification_connection, HTX's swaps only
  private,        \* user_data_connection, or private_connection
  sub_messages,   \* what a reconnect replays: the subscriptions, as asked
  subscriptions,  \* the wire names the client can turn into symbols
  channels,       \* derivatives_channels: wire names with a channel
  active,         \* user_data_active
  listen_key,     \* user_data_listen_key, Binance only: 0 before the first
  granted,        \* history: the subscriptions whose call returned Ok
  told,           \* history: the frames of the poll just made, each with its events
  tick,           \* the caller's DerivativesTickBuilder, for Watched
  calls, frames, troubles, keys

sockets == <<public, notice, private>>
tables  == <<sub_messages, subscriptions, channels, listen_key, active>>
history == <<granted, tick>>
bounds  == <<calls, frames, troubles, keys>>
feedsVars == <<client, sockets, tables, history, told, bounds>>

None == [host |-> "none"]

(***************************************************************************)
(* Sockets.  The venue sends what a socket's subscriptions asked for, and  *)
(* sends nothing when they were sent to the host of another market.        *)
(* `polled` tells a socket that poll_events opened.                        *)
(***************************************************************************)
Open(host, carries, polled) ==
  [host |-> host, up |-> TRUE, carries |-> carries, inbound |-> <<>>, pings |-> 0,
   polled |-> polled, key |-> 0]

Connected(socket) == socket # None /\ socket.up
Dropped(socket)   == socket # None /\ ~socket.up

\* What the venue takes of subscriptions that are sent to a host.
Taken(host, asked) ==
  {a \in asked : IF a.host = "notice" THEN host = "notice" ELSE host \in {"any", client.market}}

FeedsInit ==
  /\ client \in Clients
  /\ public = None /\ notice = None /\ private = None
  /\ sub_messages = {} /\ subscriptions = {} /\ channels = {}
  /\ active = FALSE /\ listen_key = 0
  /\ granted = {} /\ told = <<>> /\ tick = NoTick
  /\ calls = 0 /\ frames = 0 /\ troubles = 0 /\ keys = 0

(***************************************************************************)
(* Subscriptions.  A call fails where the connect fails or, on a socket    *)
(* that is down already or goes down now, where the send does.             *)
(***************************************************************************)
Outcomes(socket) ==
  CASE socket = None     -> {"ok", "connect", "send"}
    [] Connected(socket) -> {"ok", "send"}
    [] Dropped(socket)   -> {"send"}

Sent(socket, host, asked, outcome) ==
  LET at == IF socket = None THEN Open(host, {}, FALSE) ELSE socket
  IN  CASE outcome = "connect" -> None
        [] outcome = "send"    -> [at EXCEPT !.up = FALSE]
        [] outcome = "ok"      -> [at EXCEPT !.carries = @ \cup asked]

Trouble(outcome) ==
  /\ outcome # "ok" => troubles < MaxTroubles
  /\ troubles' = IF outcome = "ok" THEN troubles ELSE troubles + 1

Registered(ch, s, outcome) ==
  LET a == Asked(client, ch, s)
  IN  /\ sub_messages'  = IF outcome = "ok" THEN sub_messages \cup {a} ELSE sub_messages
      /\ subscriptions' = IF outcome = "ok" /\ a.named
                          THEN subscriptions \cup {[wire |-> a.wire, symbol |-> s]} ELSE subscriptions
      /\ granted'       = IF outcome = "ok" THEN granted \cup {<<s, ch>>} ELSE granted

Counted == calls < MaxCalls /\ calls' = calls + 1

SentAs(socket, ch, s, outcome) ==
  LET a    == Asked(client, ch, s)
      host == IF socket = None THEN a.host ELSE socket.host
  IN  Sent(socket, host, Taken(host, {a}), outcome)

\* subscribe_trades, subscribe_book, subscribe_ticker.
Subscribe(ch, s) ==
  /\ Counted
  /\ \E outcome \in Outcomes(public) :
       /\ Trouble(outcome)
       /\ public' = SentAs(public, ch, s, outcome) /\ Registered(ch, s, outcome)
  /\ UNCHANGED <<client, notice, private, channels, active, listen_key, tick, frames, keys>>

\* subscribe_derivatives, where the client does not refuse the channel (then
\* nothing changes).  The channel is noted before the subscription is tried.
SubscribeDerivatives(ch, s) ==
  /\ Counted
  /\ Topic(client, ch) # "none" /\ client.venue # "htx"
  /\ \E outcome \in Outcomes(public) :
       /\ Trouble(outcome)
       /\ public' = SentAs(public, ch, s, outcome) /\ Registered(ch, s, outcome)
       /\ channels' = channels \cup {<<Wire(client, s), ch>>}
  /\ UNCHANGED <<client, notice, private, active, listen_key, tick, frames, keys>>

\* HTX's, on a socket of its own, with the channel noted last.
SubscribeNotice(ch, s) ==
  /\ Counted
  /\ Topic(client, ch) # "none" /\ client.venue = "htx"
  /\ \E outcome \in Outcomes(notice) :
       /\ Trouble(outcome)
       /\ notice' = SentAs(notice, ch, s, outcome)
       /\ channels' = IF outcome = "ok" THEN channels \cup {<<Wire(client, s), ch>>} ELSE channels
       /\ Registered(ch, s, outcome)
  /\ UNCHANGED <<client, public, private, active, listen_key, tick, frames, keys>>

(***************************************************************************)
(* The private stream, whose handshake may fail at any step: then whatever *)
(* was held stays.                                                         *)
(***************************************************************************)
PrivateOutcomes(c) == {"ok"} \cup Range(Handshake(c))

\* The key the account has after the call, and the key the client keeps.
Minted(outcome) == IF client.venue = "binance" /\ outcome # "rest" THEN keys + 1 ELSE keys
KeyKept(outcome) == IF outcome = "ok" THEN Minted(outcome) ELSE listen_key

PrivateStream(held, outcome, polled) ==
  /\ private' = IF outcome = "ok"
                THEN [Open("private", {"order", "balance"}, polled) EXCEPT !.key = Minted(outcome)]
                ELSE held
  /\ keys' = Minted(outcome)
  /\ listen_key' = IF client.venue = "binance" THEN KeyKept(outcome) ELSE listen_key
  /\ active' = (active \/ outcome = "ok")

SubscribeUserData ==
  /\ Counted
  /\ Handshake(client) # <<>>
  /\ \E outcome \in PrivateOutcomes(client) :
       Trouble(outcome) /\ PrivateStream(private, outcome, FALSE)
  /\ UNCHANGED <<client, public, notice, sub_messages, subscriptions, channels, history, frames>>

(***************************************************************************)
(* The venue: it sends prints and, on HTX, pings, and drops sockets.       *)
(***************************************************************************)
Carries(socket, p) ==
  \E a \in socket.carries : a.topic = p.topic /\ a.wire \in {Wire(client, p.market), Every}

Ping == PrintOf("ping", "none", "none", {})

Received(socket, p) ==
  [socket EXCEPT !.inbound = Append(@, p), !.pings = IF p = Ping THEN @ + 1 ELSE @]

Sends == frames < MaxFrames /\ frames' = frames + 1
Unsent == UNCHANGED <<client, tables, history, calls, troubles, keys>>

\* A frame of OKX's forced orders is of any contract.
PublicPrint ==
  /\ Sends /\ Unsent
  /\ \E s \in Symbols : \E p \in Prints(client, s) :
       \/ Connected(public) /\ Carries(public, p) /\ public' = Received(public, p) /\ UNCHANGED <<notice, private>>
       \/ Connected(notice) /\ Carries(notice, p) /\ notice' = Received(notice, p) /\ UNCHANGED <<public, private>>

PrivatePrint ==
  /\ Sends /\ Unsent
  /\ Connected(private)
  /\ \E p \in {Order, Balance} : private' = Received(private, p)
  /\ UNCHANGED <<public, notice>>

Heartbeat ==
  /\ Sends /\ Unsent
  /\ client.venue = "htx"
  /\ \/ Connected(public)  /\ public'  = Received(public, Ping)  /\ UNCHANGED <<notice, private>>
     \/ Connected(notice)  /\ notice'  = Received(notice, Ping)  /\ UNCHANGED <<public, private>>
     \/ Connected(private) /\ private' = Received(private, Ping) /\ UNCHANGED <<public, notice>>

Drop ==
  /\ troubles < MaxTroubles /\ troubles' = troubles + 1
  /\ \/ Connected(public)  /\ public'  = [public EXCEPT !.up = FALSE]  /\ UNCHANGED <<notice, private>>
     \/ Connected(notice)  /\ notice'  = [notice EXCEPT !.up = FALSE]  /\ UNCHANGED <<public, private>>
     \/ Connected(private) /\ private' = [private EXCEPT !.up = FALSE] /\ UNCHANGED <<public, notice>>
  /\ UNCHANGED <<client, tables, history, calls, frames, keys>>

(***************************************************************************)
(* poll_events: drain the sockets, then reopen the private one and the     *)
(* public one where they are down.  The notification socket is not         *)
(* reopened.                                                               *)
(***************************************************************************)
\* The shapes of a ping that pong_for knows, and the one of each socket.
PongFor_Fault(shape) == shape \in {"ping", "action"}
PongFor(shape) == shape \in {"ping", "op", "action"}
Shape(socket) ==
  CASE socket.host = "notice" \/ (socket.host = "private" /\ Swap(client)) -> "op"
    [] socket.host = "private" /\ ~Swap(client) -> "action"
    [] OTHER -> "ping"

Pongs(socket) == socket.up /\ PongFor(Shape(socket))
Drained(socket) ==
  IF socket = None THEN None
  ELSE [socket EXCEPT !.inbound = <<>>, !.pings = IF Pongs(socket) THEN 0 ELSE @]

Waiting(socket) == IF socket = None THEN <<>> ELSE socket.inbound

AskedFor(wire) == {ch \in Derived : <<wire, ch>> \in channels}

Read(p) ==
  LET f == Frame(client, p)
  IN  [print  |-> p,
       asked  |-> AskedFor(f.wire),
       events |-> CASE p = Ping -> <<>>
                    [] p \in {Order, Balance} -> AccountEvents(f)
                    [] OTHER -> Events(client, f, Resolve(client, f.wire, subscriptions), AskedFor(f.wire))]

Tale == LET prints == Waiting(public) \o Waiting(notice) \o Waiting(private)
        IN  [i \in DOMAIN prints |-> Read(prints[i])]

\* The caller applies what it is told of the symbol it watches.
Applied(held, e)  == IF e.symbol = Watched THEN ApplyFeed(held, e) ELSE held
Followed(held, t) == FoldLeft(Applied, held, t.events)

\* The public socket after reconnect_if_dropped.  Coinbase's subscriptions
\* are replayed with the tokens they were first sent with, which expire.
Reopened(outcome) ==
  CASE outcome = "ok"      -> Open(PollOf(client).reopens, Taken(PollOf(client).reopens, sub_messages), TRUE)
    [] outcome = "expired" -> Open(PollOf(client).reopens, {}, TRUE)
    [] OTHER               -> None
ReopenOutcomes ==
  IF ~Dropped(public) \/ sub_messages = {} THEN {"none"}
  ELSE {"ok", "connect", "send"} \cup (IF client.venue = "coinbase" THEN {"expired"} ELSE {})

Poll ==
  /\ LET tale == Tale
     IN told' = tale /\ tick' = FoldLeft(Followed, tick, tale)
  /\ notice' = Drained(notice)
  /\ \E first \in IF active /\ Dropped(private) THEN PrivateOutcomes(client) ELSE {"none"},
        second \in ReopenOutcomes :
       /\ troubles' = troubles + (IF first \in {"ok", "none"} THEN 0 ELSE 1)
                                + (IF second \in {"ok", "none"} THEN 0 ELSE 1)
       /\ troubles' <= MaxTroubles
       /\ IF first = "none"
          THEN private' = Drained(private) /\ UNCHANGED <<keys, listen_key, active>>
          ELSE PrivateStream(None, first, TRUE)
       /\ public' = IF second = "none" THEN Drained(public) ELSE Reopened(second)
  /\ UNCHANGED <<client, sub_messages, subscriptions, channels, granted, calls, frames>>

FeedsNext ==
  \/ /\ \/ \E ch \in Channels \ Derived, s \in Symbols : Subscribe(ch, s)
        \/ \E ch \in Derived, s \in Symbols : SubscribeDerivatives(ch, s) \/ SubscribeNotice(ch, s)
        \/ SubscribeUserData
        \/ PublicPrint \/ PrivatePrint \/ Heartbeat \/ Drop
     /\ told' = <<>>
  \/ Poll

FeedsSpec == FeedsInit /\ [][FeedsNext]_feedsVars

(***************************************************************************)
(* Properties.                                                             *)
(***************************************************************************)

\* What a drained frame was told as: the types of its events, whether their
\* sides and prices are the print's, and the types that it may be told as.
Types(t) == [i \in DOMAIN t.events |-> t.events[i].type]

RightSide(t) ==
  \A e \in Range(t.events) : e.type \in {"Trade", "Liquidation"} => e.side = t.print.side
RightPrices(t) ==
  \A e \in Range(t.events) :
    /\ e.type = "Funding" =>
         "rate" \in t.print.has /\ (e.mark = "given" => "mark" \in t.print.has)
    /\ e.type = "MarkIndex" => e.mark = "given" /\ {"mark", "index"} \subseteq t.print.has
Owed(t) ==
  CASE t.print.topic = "trades"  -> {{"Trade"}}
    [] t.print.topic = "book"    -> IF "whole" \in t.print.has THEN {{"BookSnapshot"}, {"BookDelta"}}
                                                               ELSE {{"BookDelta"}}
    [] t.print.topic = "forced"  -> IF "Liquidations" \in t.asked THEN {{"Liquidation"}} ELSE {{}}
    [] t.print.topic = "order"   -> {{"OrderUpdate"}}
    [] t.print.topic = "balance" -> {{"BalanceUpdate"}}
    [] t.print.topic = "ping"    -> {{}}
    [] OTHER ->
         {kinds \in SUBSET ({"Ticker"} \cup t.asked) :
            /\ ("Ticker" \in kinds) <=> (t.print.topic = "ticker" /\ "last" \in t.print.has)
            /\ Figures \subseteq t.print.has => t.asked \cap {"Funding", "MarkIndex"} \subseteq kinds}

\* A drained frame is told as what happened, once, under the caller's own
\* symbol: the side of the trade or of the forced order is the taker's, a diff
\* is not taken for a whole book, a rate and a price are told to the caller
\* that asked for them, and never with a price that the frame does not have.
\* Ten parsers (parse_ws_message, parse_derivatives_message,
\* parse_notification, parse_futures_frame) and the tables that a failed or a
\* repeated subscription leaves must get this right together.
EventsAreTrue ==
  \A i \in DOMAIN told :
    LET t == told[i]
    IN  /\ Range(Types(t)) \in Owed(t) /\ Len(t.events) = Cardinality(Range(Types(t)))
        /\ \A e \in Range(t.events) : e.symbol = t.print.market
        /\ RightSide(t) /\ RightPrices(t)

\* After the public socket was lost and reopened (reconnect_if_dropped), the
\* venue sends every feed whose subscription the caller was granted, on the
\* host of the client's market.  It does not hold for the swaps of Gate, HTX,
\* Kraken and KuCoin, whose reconnect goes to the spot host; for Coinbase,
\* whose replayed tokens expire; nor for the notification socket.  The listen
\* key that keepalive_user_data refreshes is that of the private stream held,
\* whatever came of the attempts to open another (Binance).
FeedsResume ==
  /\ client.venue = "binance" /\ private # None => listen_key = private.key
  /\ Connected(public) /\ public.polled =>
       \/ client.venue = "coinbase"
       \/ client.venue \in {"gate", "htx", "kraken", "kucoin"} /\ Swap(client)
       \/ \A g \in granted : LET a == Asked(client, g[2], g[1]) IN a.host = "notice" \/ a \in public.carries

\* After a poll HTX is owed no answer on a live socket, in any of the three
\* shapes of its pings: unanswered, the venue would close the stream.
PingsAreAnswered ==
  \A socket \in {public, notice, private} :
    Connected(socket) =>
      socket.pings = Cardinality({i \in DOMAIN socket.inbound : socket.inbound[i] = Ping})

\* Once a caller that folds what it is told into a tick can build it, it can
\* go on building it, whatever diffs arrive (DerivativesTickBuilder.build).
\* It does not hold for KuCoin, whose rate comes without a price: the mark is
\* set to zero until the next mark and index.
TickStays == [][client.venue # "kucoin" /\ Buildable(tick) => Buildable(tick')]_tick
=============================================================================
