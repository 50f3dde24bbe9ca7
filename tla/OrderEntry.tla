----------------------------- MODULE OrderEntry -----------------------------
(***************************************************************************)
(* Order entry from the request to the position: a caller says an order in *)
(* its language and places it by one of the ways a client offers, another  *)
(* one closes the position meanwhile, and the venue arms, executes and     *)
(* liquidates in any order.  What each of the ten clients puts on the wire *)
(* is in the modules named after their venues.                             *)
(*                                                                         *)
(* A definition named X_Fault precedes X and is X with a plausible fault   *)
(* in the code: the properties are tested with it.                         *)
(***************************************************************************)
EXTENDS OrderBuilders

CONSTANTS Clients,     \* clients as they were built
          Requests,    \* what the caller may ask for
          Contended    \* the requests during which a position is closed, too

\* Coinbase and Upbit serve spot only.
ASSUME ClientAssumption ==
  /\ Clients \subseteq Client
  /\ \A c \in Clients : c.venue \in {"coinbase", "upbit"} => ~Futures(c)
ASSUME RequestAssumption == Requests \subseteq Request /\ Contended \subseteq Requests

Binance  == INSTANCE BinanceOrders
Bitget   == INSTANCE BitgetOrders
Bybit    == INSTANCE BybitOrders
Coinbase == INSTANCE CoinbaseOrders
Gate     == INSTANCE GateOrders
Htx      == INSTANCE HtxOrders
Kraken   == INSTANCE KrakenOrders
KuCoin   == INSTANCE KuCoinOrders
Okx      == INSTANCE OkxOrders
Upbit    == INSTANCE UpbitOrders

PlaceOrder(c, r) ==
  CASE c.venue = "binance"  -> Binance!PlaceOrder(c, r)
    [] c.venue = "bitget"   -> Bitget!PlaceOrder(c, r)
    [] c.venue = "bybit"    -> Bybit!PlaceOrder(c, r)
    [] c.venue = "coinbase" -> Coinbase!PlaceOrder(c, r)
    [] c.venue = "gate"     -> Gate!PlaceOrder(c, r)
    [] c.venue = "htx"      -> Htx!PlaceOrder(c, r)
    [] c.venue = "kraken"   -> Kraken!PlaceOrder(c, r)
    [] c.venue = "kucoin"   -> KuCoin!PlaceOrder(c, r)
    [] c.venue = "okx"      -> Okx!PlaceOrder(c, r)
    [] c.venue = "upbit"    -> Upbit!PlaceOrder(c, r)

PlaceOrderWs(c, r) ==
  CASE c.venue = "binance" -> Binance!PlaceOrderWs(c, r)
    [] c.venue = "bybit"   -> Bybit!PlaceOrderWs(c, r)
    [] c.venue = "gate"    -> Gate!PlaceOrderWs(c, r)
    [] c.venue = "kraken"  -> Kraken!PlaceOrderWs(c, r)
    [] c.venue = "okx"     -> Okx!PlaceOrderWs(c, r)
    [] OTHER -> Refused

PlaceBatch(c, r) ==
  CASE c.venue = "binance" -> Binance!PlaceBatch(c, r)
    [] c.venue = "bitget"  -> Bitget!PlaceBatch(c, r)
    [] c.venue = "bybit"   -> Bybit!PlaceBatch(c, r)
    [] c.venue = "gate"    -> Gate!PlaceBatch(c, r)
    [] c.venue = "htx"     -> Htx!PlaceBatch(c, r)
    [] c.venue = "kraken"  -> Kraken!PlaceBatch(c, r)
    [] c.venue = "kucoin"  -> KuCoin!PlaceBatch(c, r)
    [] c.venue = "okx"     -> Okx!PlaceBatch(c, r)
    [] OTHER -> Refused

PlaceOco(c, r) ==
  CASE c.venue = "binance" -> Binance!PlaceOco(c, r)
    [] c.venue = "kucoin"  -> KuCoin!PlaceOco(c, r)
    [] c.venue = "okx"     -> Okx!PlaceOco(c, r)
    [] OTHER -> Refused

Sent(c, path, r) ==
  CASE path = "rest"  -> PlaceOrder(c, r)
    [] path = "ws"    -> PlaceOrderWs(c, r)
    [] path = "batch" -> PlaceBatch(c, r)
    [] path = "oco"   -> PlaceOco(c, r)

Close(c, s) ==
  CASE c.venue = "binance" -> Binance!ClosePosition(c, s)
    [] c.venue = "bitget"  -> Bitget!ClosePosition(c, s)
    [] c.venue = "bybit"   -> Bybit!ClosePosition(c, s)
    [] c.venue = "gate"    -> Gate!ClosePosition(c, s)
    [] c.venue = "htx"     -> Htx!ClosePosition(c, s)
    [] c.venue = "kraken"  -> Kraken!ClosePosition(c, s)
    [] c.venue = "kucoin"  -> KuCoin!ClosePosition(c, s)
    [] c.venue = "okx"     -> Okx!ClosePosition(c, s)

VARIABLES client,    \* the client; never changes
          held,      \* the position of each side; one side only unless hedged
          asked,     \* what the caller asked for, and by which path
          found,     \* the position that close_position found
          orders,    \* the orders on their way, by who sent them
          moved      \* where the price has gone since the order was placed

vars == <<client, held, asked, found, orders, moved>>

NoCall     == [path |-> "none"]
NoPosition == [side |-> "none"]
NoOrder    == [pc |-> "none"]

\* An HTX swap account always tells the two sides apart.
TwoSided(c) == Hedged(c) \/ c.venue = "htx"

Positions(c) ==
  CASE ~Futures(c) -> {[long |-> 0, short |-> 0]}
    [] Futures(c) /\ TwoSided(c) -> [long : {0, 2}, short : {0, 1}]
    [] OTHER -> {[long |-> 0, short |-> 0], [long |-> 2, short |-> 0], [long |-> 0, short |-> 1]}

Init ==
  /\ client \in Clients
  /\ held \in Positions(client)
  /\ asked = NoCall
  /\ found = NoPosition
  /\ orders = [o \in {"placed", "closing"} |-> NoOrder]
  /\ moved = "nowhere"

Order(w, quantity) ==
  IF w = Refused THEN [pc |-> "refused"] ELSE [pc |-> "open", wire |-> w, quantity |-> quantity]

(***************************************************************************)
(* The callers.                                                            *)
(***************************************************************************)
Place(path, r) ==
  /\ asked = NoCall
  /\ found # NoPosition => r \in Contended
  /\ asked' = [path |-> path, request |-> r]
  /\ \E q \in Said(path, r) :
       orders' = [orders EXCEPT !["placed"] = Order(Sent(client, path, q), 1)]
  /\ moved' = "nowhere"
  /\ UNCHANGED <<client, held, found>>

\* close_position reads the positions and takes the first one of the market ...
FindPosition(s) ==
  /\ found = NoPosition /\ held[s] > 0
  /\ asked # NoCall => asked.request \in Contended
  /\ found' = [side |-> s, quantity |-> held[s]]
  /\ UNCHANGED <<client, held, asked, orders, moved>>

\* ... and places an order of its size: what it read may have changed since.
ClosePosition ==
  /\ found # NoPosition /\ orders["closing"] = NoOrder
  /\ orders' = [orders EXCEPT !["closing"] =
       Order(Close(client, found.side), found.quantity)]
  /\ UNCHANGED <<client, held, asked, found, moved>>

(***************************************************************************)
(* The venue.                                                              *)
(***************************************************************************)
Adverse(side) == IF side = "sell" THEN "falls" ELSE "rises"

\* An order type that is a stop of the venue's fires on the side it protects.
Fires(w, m) ==
  \/ w.trigger = "none"
  \/ m # "nowhere" /\ w.trigger \in {"either", m}
  \/ m = Adverse(w.side) /\ w.trigger = "own"

Least(a, b) == IF a < b THEN a ELSE b

\* The side whose position an order takes from, and the one it adds to.
Own(w)   == IF w.side = "buy" THEN "long" ELSE "short"
Other(w) == IF w.side = "buy" THEN "short" ELSE "long"

Reduced(w, q) ==
  [held EXCEPT ![Other(w)] = IF w.sized THEN @ - Least(q, @) ELSE 0]

Added(w, q) == [held EXCEPT ![Own(w)] = @ + q]

Netted(w, q) ==
  [held EXCEPT ![Other(w)] = @ - Least(q, @), ![Own(w)] = @ + q - Least(q, held[Other(w)])]

Executed(w, q) ==
  CASE w.market # "linear" -> held
    [] w.market = "linear" /\ TwoSided(client) /\ w.acts_on = Other(w) -> Reduced(w, q)
    [] w.market = "linear" /\ TwoSided(client) /\ w.acts_on # Other(w) -> Added(w, q)
    [] OTHER -> IF w.reduce THEN Reduced(w, q) ELSE Netted(w, q)

Execute(o) ==
  /\ orders[o].pc = "open" /\ Fires(orders[o].wire, moved)
  /\ held' = Executed(orders[o].wire, orders[o].quantity)
  /\ orders' = [orders EXCEPT ![o].pc = "executed"]
  /\ UNCHANGED <<client, asked, found, moved>>

PriceMoves ==
  /\ orders["placed"].pc = "open" /\ moved = "nowhere"
  /\ moved' \in {"falls", "rises"}
  /\ UNCHANGED <<client, held, asked, found, orders>>

\* A liquidation, or a trader elsewhere.
Liquidate(s) ==
  /\ held[s] > 0 /\ found # NoPosition
  /\ held' = [held EXCEPT ![s] = 0]
  /\ UNCHANGED <<client, asked, found, orders, moved>>

Next ==
  \/ \E path \in Paths, r \in Requests : Place(path, r)
  \/ \E s \in {"long", "short"} : FindPosition(s) \/ Liquidate(s)
  \/ ClosePosition
  \/ \E o \in {"placed", "closing"} : Execute(o)
  \/ PriceMoves

Spec == Init /\ [][Next]_vars
-----------------------------------------------------------------------------
(* Properties *)

Placed  == orders["placed"].pc \in {"open", "executed"}
Wired   == orders["placed"].wire

(***************************************************************************)
(* The state has its types: what a client sends is an order, and only a    *)
(* two-sided account holds both sides.                                     *)
(***************************************************************************)
TypeOK ==
  /\ client \in Clients
  /\ held \in [long : Nat, short : Nat]
  /\ ~TwoSided(client) => held.long = 0 \/ held.short = 0
  /\ asked # NoCall => asked.path \in Paths /\ asked.request \in Requests
  /\ found # NoPosition => found.side \in {"long", "short"} /\ found.quantity \in Nat \ {0}
  /\ \A o \in DOMAIN orders :
       \/ orders[o].pc \in {"none", "refused"}
       \/ orders[o].pc \in {"open", "executed"} /\ orders[o].wire \in Wire
  /\ moved \in {"nowhere", "falls", "rises"}

(***************************************************************************)
(* A stop waits, in whatever language it was said and on whichever path it *)
(* was sent: for the market to move against its side, and for nothing      *)
(* else.  A sell stop that fires on the way up, or at once, executes "at   *)
(* the price it was meant to protect against" (error.rs:97-100).  A        *)
(* bracket waits for either move, and never executes at once.              *)
(***************************************************************************)
StopsProtect ==
  Placed /\ asked.request.valid =>
    \A m \in {"nowhere", "falls", "rises"} :
      Fires(Wired, m) <=>
        \/ ~IsTrigger(asked.request)
        \/ IF asked.path = "oco" THEN m # "nowhere" ELSE m = Adverse(asked.request.side)

(***************************************************************************)
(* A plain limit order that reaches the venue rests, or does not, as it    *)
(* was asked to: its time in force and its post-only flag survive every    *)
(* language and every path of every client, though most venues say the two *)
(* in one word (gate.rs:1391-1398).  And no limit turns into a market      *)
(* order on the way, "which is the order that takes whatever the book      *)
(* offers" (bindings/go/wickra.go:851-853), nor the other way around: but  *)
(* for KuCoin's brackets, whose stop leg always has a limit price.         *)
(***************************************************************************)
LimitsKeepTheirTerms ==
  Placed =>
    /\ asked.request.type = "limit" =>
         Wired.tif = asked.request.tif /\ Wired.post = asked.request.post
    /\ ~(client.venue = "kucoin" /\ asked.path = "oco") =>
         (Wired.kind = "limit" <=> RequiresPrice(asked.request))

\* Batches that go to a market other than the client's.
Misrouted == client.venue \in {"gate", "kraken"} /\ Futures(client) /\ asked.path = "batch"

(***************************************************************************)
(* The paths of a client do not drift apart: what a valid order says over  *)
(* the socket or in a batch is what it would have said over REST, but for  *)
(* a client id generated on the way (binance.rs:238-244 tells of two that  *)
(* did drift).  The batches of Gate and Kraken Futures, which go to the    *)
(* spot endpoint, are left out, and brackets, which are orders of their    *)
(* own.                                                                    *)
(***************************************************************************)
PathsAgree ==
  Placed /\ asked.request.valid /\ asked.path # "oco" /\ ~Misrouted =>
    LET rest == PlaceOrder(client, asked.request)
    IN  rest # Refused /\ Wired = [rest EXCEPT !.named = Wired.named]

\* "OcoRequest carries no reduce_only because a bracket is always one"
\* (okx.rs:1967-1968): of a hedged account, where the side says so.
Protects == asked.path = "oco" /\ (client.venue = "okx" => Hedged(client))

\* The trigger orders of Gate Futures do not say that they reduce.
Reduces(o) ==
  \/ o = "closing"
  \/ /\ o = "placed" /\ (asked.request.reduce \/ Protects)
     /\ ~(client.venue = "gate" /\ IsTrigger(asked.request)) /\ ~Misrouted

Executes(o) == orders[o].pc = "open" /\ orders'[o].pc = "executed"

(***************************************************************************)
(* An order that may only reduce never adds to a position of either side,  *)
(* nor turns one around: not when the position it was meant for is gone or *)
(* smaller than when close_position read it, and not in a hedged account,  *)
(* where most venues are told a side instead.  So does a bracket on a      *)
(* hedged account.  Any other order on a hedged account leaves the         *)
(* opposite side alone (positions.rs:36-56).                               *)
(***************************************************************************)
OrdersActOnTheirSide ==
  [][\A o \in DOMAIN orders : Executes(o) =>
       /\ Reduces(o) => held'.long <= held.long /\ held'.short <= held.short
       /\ o = "placed" /\ ~asked.request.reduce /\ ~Protects /\ TwoSided(client) =>
            held'.long >= held.long /\ held'.short >= held.short]_vars
=============================================================================
