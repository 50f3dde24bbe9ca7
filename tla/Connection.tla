----------------------------- MODULE Connection ------------------------------
(***************************************************************************)
(* Which client a program gets for the options it names, in any language,  *)
(* and which market and network of the venue each of the client's contacts *)
(* then addresses: a public or a signed request, a subscription and its    *)
(* resumption, the private stream, the socket for orders.  The options     *)
(* pass a binding, which has words or codes of its own for them, the       *)
(* factory, and the client's constructor; each may refuse, leave out or    *)
(* replace one.                                                            *)
(*                                                                         *)
(* A definition named X_Fault precedes X and is X with a plausible fault   *)
(* in the code: the properties are tested with it.                         *)
(***************************************************************************)
CONSTANT Programs     \* what programs ask for

VARIABLES asked,      \* what the program asks for; never changes
          linked,     \* its client, or that it has none yet, or was refused
          stream,     \* the public stream: "none", "open" or "dropped"
          contact     \* the client's last contact with the venue

linkVars == <<asked, linked, stream, contact>>

Networks == {"main", "test"}
Markets  == {"spot", "linear", "inverse", "margin"}
Margins  == {"cross", "isolated"}
PositionModes == {"one_way", "hedge"}
Doors    == {"exchange", "derivatives", "advanced", "user_data", "ws_execution"}

\* A program may name a margin and a position mode that do not exist.
Asked == [language : {"rust", "c", "go", "r", "node", "python"}, door : Doors \cup {"built"},
          venue : {"binance", "bitget", "bybit", "coinbase", "gate", "htx", "kraken",
                   "kucoin", "okx", "upbit", "unknown"},
          market : Markets, network : Networks,
          margin : Margins \cup {"other"}, position : PositionModes \cup {"other"}]

ASSUME ConnectionAssumption == Programs \subseteq Asked

NotYet  == [is |-> "none"]
Refused == [is |-> "refused"]

(***************************************************************************)
(* The options as each language says them.  Rust's types have no other     *)
(* words, and Rust alone may build a client without the factory.  Where a  *)
(* door has one market, or a flag for futures, no other can be asked for.  *)
(***************************************************************************)
Options(a) ==
  [market |-> a.market, testnet |-> a.network = "test", margin |-> a.margin, position |-> a.position]

Expressible(a) ==
  /\ a.language = "rust" => a.margin \in Margins /\ a.position \in PositionModes
  /\ a.door = "built" => a.language = "rust" /\ a.venue # "unknown"
  /\ a.language # "rust" /\ a.door = "derivatives" => a.market = "linear"
  /\ a.language # "rust" /\ a.door \notin {"exchange", "derivatives"} => a.market \in {"spot", "linear"}

MarketOffered(market) == market \in {"spot", "linear"}

\* C's codes: a market or a margin mode that it does not know is refused, and
\* any position mode but a hedge is one way.
PositionModeFromCode(position) == IF position = "hedge" THEN "hedge" ELSE "one_way"

COptions(a) ==
  IF MarketOffered(a.market) /\ a.margin \in Margins
    THEN [Options(a) EXCEPT !.position = PositionModeFromCode(a.position)]
    ELSE Refused

\* Go hands the modes on for an exchange, and the defaults for other clients;
\* R does too, but refuses an exchange by words that it does not know.
Defaults(a) == [a EXCEPT !.margin = "cross", !.position = "one_way"]
GoOptions(a) == COptions(IF a.door = "exchange" THEN a ELSE Defaults(a))
ROptions(a) ==
  IF a.door = "exchange" /\ ~(a.margin \in Margins /\ a.position \in PositionModes)
    THEN Refused
    ELSE GoOptions(a)

\* Node and Python take the modes for two of their clients, as words that they
\* know or refuse; the others have a flag for futures and take no modes.
NodeWords(a) ==
  IF MarketOffered(a.market) /\ a.margin \in Margins /\ a.position \in PositionModes
    THEN Options(a)
    ELSE Refused
NodeFlag(a) == Options(Defaults(a))

PythonMarket(market) == MarketOffered(market)
PythonPosition(position) == position \in PositionModes
PythonMargin(margin) == margin \in Margins
PythonOptions(a) ==
  IF a.door \in {"exchange", "derivatives"}
    THEN IF PythonMarket(a.market) /\ PythonMargin(a.margin) /\ PythonPosition(a.position)
           THEN Options(a)
           ELSE Refused
    ELSE Options(Defaults(a))

OptionsOf(a) ==
  CASE a.language = "rust"   -> Options(a)
    [] a.language = "c"      -> COptions(a)
    [] a.language = "go"     -> GoOptions(a)
    [] a.language = "r"      -> ROptions(a)
    [] a.language = "node"   -> IF a.door \in {"exchange", "derivatives"} THEN NodeWords(a) ELSE NodeFlag(a)
    [] a.language = "python" -> PythonOptions(a)

\* Which of the modes a program can say at a door.
Sayable(a) ==
  IF \/ a.language \in {"rust", "c"} \/ a.door = "exchange"
     \/ a.language \in {"node", "python"} /\ a.door = "derivatives"
  THEN {"margin", "position"} ELSE {}

(***************************************************************************)
(* The venues' hosts (external): which market they serve, unless the       *)
(* request names one, and on which network, unless a header does.          *)
(***************************************************************************)
SpotHosts ==
  {"api.binance.com", "testnet.binance.vision", "stream.binance.com", "ws-api.binance.com",
   "ws-api.testnet.binance.vision", "api.huobi.pro", "api.kraken.com", "ws.kraken.com",
   "ws-auth.kraken.com", "api.kucoin.com", "ws-api-spot.kucoin.com", "api.gateio.ws/ws",
   "api.coinbase.com", "advanced-trade-ws.coinbase.com", "api.upbit.com"}
LinearHosts ==
  {"fapi.binance.com", "testnet.binancefuture.com", "fstream.binance.com",
   "stream.binancefuture.com", "ws-fapi.binance.com", "api.hbdm.com", "futures.kraken.com",
   "api-futures.kucoin.com", "ws-api-futures.kucoin.com", "fx-ws.gateio.ws"}
TestHosts ==
  {"testnet.binance.vision", "testnet.binancefuture.com", "stream.binancefuture.com",
   "ws-api.testnet.binance.vision", "api-testnet.bybit.com", "stream-testnet.bybit.com",
   "wspap.okx.com"}

MarketAt(c) ==
  IF c.host \in SpotHosts THEN "spot" ELSE IF c.host \in LinearHosts THEN "linear" ELSE c.names
NetworkAt(c) == IF c.host \in TestHosts \/ c.simulated THEN "test" ELSE "main"

\* A contact through a seam of the client: the host, the market that the
\* message names, and whether its header asks for simulated trading.
Contact(seam, host, names) == [seam |-> seam, host |-> host, names |-> names, simulated |-> FALSE]
NoContact == Contact("none", "none", "none")

(***************************************************************************)
(* What the clients' constructors keep of the options: the host of their   *)
(* requests, the market that these name, whether they were asked for the   *)
(* testnet, and the modes that they put on orders.                         *)
(***************************************************************************)
Derivative(market) == market \in {"linear", "inverse"}

Built(rest, o, names, testnet, modes) ==
  [is |-> "client", rest |-> rest, market |-> o.market, names |-> names, testnet |-> testnet,
   modes |-> modes]

HedgeMode(o) == [position |-> o.position]
ByPath(o) == IF Derivative(o.market) THEN "linear" ELSE "spot"

BinanceRest(market, testnet) ==
  CASE market = "linear" /\ ~testnet -> "fapi.binance.com"
    [] market = "linear" /\ testnet  -> "testnet.binancefuture.com"
    [] market # "linear" /\ testnet  -> "testnet.binance.vision"
    [] market # "linear" /\ ~testnet -> "api.binance.com"
BinanceBuild(o) ==
  Built(BinanceRest(o.market, o.testnet), o, "none", o.testnet, HedgeMode(o))

BitgetBuild(o) ==
  Built("api.bitget.com", o, ByPath(o), FALSE, [position |-> o.position, margin |-> o.margin])

Category(market) == IF market = "margin" THEN "spot" ELSE market
BybitBuild(o) ==
  Built(IF o.testnet THEN "api-testnet.bybit.com" ELSE "api.bybit.com",
        o, Category(o.market), o.testnet, HedgeMode(o))

GateBuild(o) == Built("api.gateio.ws", o, ByPath(o), FALSE, HedgeMode(o))

HtxBuild(o) ==
  Built(IF Derivative(o.market) THEN "api.hbdm.com" ELSE "api.huobi.pro", o, "none", FALSE, <<>>)

KrakenBuild(o) ==
  Built(IF Derivative(o.market) THEN "futures.kraken.com" ELSE "api.kraken.com",
        o, "none", FALSE, HedgeMode(o))

KuCoinBuild(o) ==
  Built(IF Derivative(o.market) THEN "api-futures.kucoin.com" ELSE "api.kucoin.com",
        o, "none", FALSE, HedgeMode(o))

InstType(market) == IF Derivative(market) THEN "linear" ELSE "spot"
TdMode(o) == IF o.market = "spot" THEN HedgeMode(o) ELSE [position |-> o.position, margin |-> o.margin]
OkxBuild(o) == Built("www.okx.com", o, InstType(o.market), o.testnet, TdMode(o))

CoinbaseBuild(o) == Built("api.coinbase.com", o, "none", FALSE, <<>>)
UpbitBuild(o) == Built("api.upbit.com", o, "none", FALSE, <<>>)

Build(venue, o) ==
  CASE venue = "binance"  -> BinanceBuild(o)
    [] venue = "bitget"   -> BitgetBuild(o)
    [] venue = "bybit"    -> BybitBuild(o)
    [] venue = "coinbase" -> CoinbaseBuild(o)
    [] venue = "gate"     -> GateBuild(o)
    [] venue = "htx"      -> HtxBuild(o)
    [] venue = "kraken"   -> KrakenBuild(o)
    [] venue = "kucoin"   -> KuCoinBuild(o)
    [] venue = "okx"      -> OkxBuild(o)
    [] venue = "upbit"    -> UpbitBuild(o)

SpotOnly == {"coinbase", "upbit"}

\* The factory lets the inverse contracts of two venues through, which their
\* clients then refuse.
EnsureMarketSupported(venue, market) ==
  CASE market = "spot"    -> TRUE
    [] market = "linear"  -> venue \notin SpotOnly
    [] market = "inverse" -> venue \in {"bybit", "okx"}
    [] market = "margin"  -> FALSE

Factory(a, o) ==
  IF /\ EnsureMarketSupported(a.venue, o.market)
     /\ a.venue # "unknown"
     /\ a.door # "exchange" => a.venue \notin SpotOnly
  THEN Build(a.venue, o)
  ELSE Refused

Opened(a) ==
  IF OptionsOf(a) = Refused THEN Refused
  ELSE IF a.door = "built" THEN Build(a.venue, OptionsOf(a))
  ELSE Factory(a, OptionsOf(a))

(***************************************************************************)
(* The sockets.                                                            *)
(***************************************************************************)
IsFutures == Derivative(linked.market)

BinanceStream_Fault(market, testnet) ==
  IF market = "linear" THEN "fstream.binance.com" ELSE "stream.binance.com"
BinanceStream(market, testnet) ==
  CASE market = "linear" /\ ~testnet -> "fstream.binance.com"
    [] market = "linear" /\ testnet  -> "stream.binancefuture.com"
    [] market # "linear" /\ testnet  -> "testnet.binance.vision"
    [] market # "linear" /\ ~testnet -> "stream.binance.com"

BinanceOrderApi(market, testnet) ==
  CASE market = "linear" /\ ~testnet -> "ws-fapi.binance.com"
    [] market = "linear" /\ testnet  -> "testnet.binancefuture.com"
    [] market # "linear" /\ testnet  -> "ws-api.testnet.binance.vision"
    [] market # "linear" /\ ~testnet -> "ws-api.binance.com"

BybitStream(testnet) == IF testnet THEN "stream-testnet.bybit.com" ELSE "stream.bybit.com"
OkxStream(testnet)   == IF testnet THEN "wspap.okx.com" ELSE "ws.okx.com"
GateStream   == IF IsFutures THEN "fx-ws.gateio.ws" ELSE "api.gateio.ws/ws"
HtxStream    == IF IsFutures THEN "api.hbdm.com" ELSE "api.huobi.pro"
KrakenStream == IF IsFutures THEN "futures.kraken.com" ELSE "ws.kraken.com"
KuCoinStream == IF IsFutures THEN "ws-api-futures.kucoin.com" ELSE "ws-api-spot.kucoin.com"

StreamHost ==
  CASE asked.venue = "binance"  -> BinanceStream(linked.market, linked.testnet)
    [] asked.venue = "bitget"   -> "ws.bitget.com"
    [] asked.venue = "bybit"    -> BybitStream(linked.testnet)
    [] asked.venue = "coinbase" -> "advanced-trade-ws.coinbase.com"
    [] asked.venue = "gate"     -> GateStream
    [] asked.venue = "htx"      -> HtxStream
    [] asked.venue = "kraken"   -> KrakenStream
    [] asked.venue = "kucoin"   -> KuCoinStream
    [] asked.venue = "okx"      -> OkxStream(linked.testnet)
    [] asked.venue = "upbit"    -> "api.upbit.com"

\* Four clients name the spot host when they reconnect, whatever their market.
ResumedHost ==
  CASE asked.venue = "gate"   -> "api.gateio.ws/ws"
    [] asked.venue = "htx"    -> "api.huobi.pro"
    [] asked.venue = "kraken" -> "ws.kraken.com"
    [] asked.venue = "kucoin" -> "ws-api-spot.kucoin.com"
    [] OTHER                  -> StreamHost

\* The host that grants KuCoin's token names the socket to use it on, and the
\* private stream of Bybit carries the account's orders of every market.
PrivateHost ==
  CASE asked.venue = "kraken" -> IF IsFutures THEN "futures.kraken.com" ELSE "ws-auth.kraken.com"
    [] asked.venue = "kucoin" -> linked.rest
    [] OTHER                  -> StreamHost
PrivateNames == IF asked.venue = "bybit" THEN asked.market ELSE linked.names

\* Gate and Kraken take orders over a socket for spot only, three venues none.
HasOrderApi ==
  \/ asked.venue \in {"binance", "bybit", "okx"}
  \/ asked.venue \in {"gate", "kraken"} /\ ~IsFutures

OrderApiHost ==
  CASE asked.venue = "binance" -> BinanceOrderApi(linked.market, linked.testnet)
    [] asked.venue = "bybit"   -> BybitStream(linked.testnet)
    [] asked.venue = "okx"     -> OkxStream(linked.testnet)
    [] asked.venue = "gate"    -> "api.gateio.ws/ws"
    [] asked.venue = "kraken"  -> "ws-auth.kraken.com"

(***************************************************************************)
(* The contacts.  Each is refused, before anything is sent, for a market   *)
(* that the client does not route.                                         *)
(***************************************************************************)
EnsureMarketIsRouted ==
  linked.market \in IF asked.venue \in SpotOnly THEN {"spot"} ELSE {"spot", "linear"}

Through(doors) == linked.is = "client" /\ asked.door \in doors \cup {"built"}

Reach(seam, host, names) ==
  /\ EnsureMarketIsRouted
  /\ contact' = Contact(seam, host, names)
  /\ UNCHANGED <<asked, linked>>

LinkInit ==
  /\ asked \in {a \in Programs : Expressible(a)}
  /\ linked = NotYet /\ stream = "none" /\ contact = NoContact

Connect ==
  /\ linked = NotYet
  /\ linked' = Opened(asked)
  /\ UNCHANGED <<asked, stream, contact>>

PublicRequest ==
  /\ Through({"exchange", "derivatives"})
  /\ Reach("public", linked.rest, linked.names)
  /\ UNCHANGED stream

SignedRequest ==
  /\ Through({"exchange", "derivatives", "advanced"})
  /\ EnsureMarketIsRouted
  /\ contact' = [Contact("signed", linked.rest, linked.names)
                   EXCEPT !.simulated = asked.venue = "okx" /\ linked.testnet]
  /\ UNCHANGED <<asked, linked, stream>>

SubscribePublic ==
  /\ Through({"exchange"}) /\ stream = "none"
  /\ Reach("stream", StreamHost, linked.names)
  /\ stream' = "open"

StreamDrops ==
  /\ stream = "open"
  /\ stream' = "dropped"
  /\ UNCHANGED <<asked, linked, contact>>

ResumePublic ==
  /\ stream = "dropped"
  /\ Reach("resume", ResumedHost, linked.names)
  /\ stream' = "open"

SubscribePrivate ==
  /\ Through({"user_data"}) /\ asked.venue \notin SpotOnly
  /\ Reach("private", PrivateHost, PrivateNames)
  /\ UNCHANGED stream

OrderOverSocket ==
  /\ Through({"ws_execution"}) /\ HasOrderApi
  /\ Reach("order", OrderApiHost, linked.names)
  /\ UNCHANGED stream

LinkNext ==
  \/ Connect \/ PublicRequest \/ SignedRequest
  \/ SubscribePublic \/ StreamDrops \/ ResumePublic
  \/ SubscribePrivate \/ OrderOverSocket

LinkSpec == LinkInit /\ [][LinkNext]_linkVars
-----------------------------------------------------------------------------
(* Properties *)

KnowsTestnet == {"binance", "bybit", "okx"}

(***************************************************************************)
(* Whatever language and door a program opened its client by, a contact is *)
(* with the market it asked for, so that a program that asks for one that  *)
(* the client does not route makes none (exchanges/mod.rs:19-46); with the *)
(* network it asked for (options.rs:83), if the venue is one of the three  *)
(* whose client tells them apart, and the request not a public one to OKX; *)
(* and the modes that the client puts on its orders are those that the     *)
(* program could say and said, but that C takes any other position mode    *)
(* for one way.  The swaps of the four clients that resume on the spot     *)
(* host are left out there.                                                *)
(***************************************************************************)
ContactsAreAsAsked ==
  /\ contact # NoContact =>
       /\ \/ MarketAt(contact) = asked.market
          \/ contact.seam = "resume" /\ asked.venue \in {"gate", "htx", "kraken", "kucoin"}
       /\ \/ NetworkAt(contact) = asked.network
          \/ asked.venue \notin KnowsTestnet
          \/ asked.venue = "okx" /\ contact.seam = "public"
  /\ linked.is = "client" =>
       \A m \in DOMAIN linked.modes \cap Sayable(asked) :
         linked.modes[m] = asked[m] \/ (asked.language \in {"c", "go"} /\ asked[m] = "other")
=============================================================================
