---------------------------- MODULE MCVenueCalls ----------------------------
(***************************************************************************)
(* Four more machines of a venue's client for TLC, in one run: the book it *)
(* keeps from snapshots and diffs, the market it reads over REST, the      *)
(* requests it sends over its order socket, and two batches of orders side *)
(* by side.  They share no state, so that the behaviours of the run are    *)
(* those of each while the others rest; every venue has its profile, its   *)
(* handshake and its reader.                                               *)
(***************************************************************************)
EXTENDS OrderBook, MarketReads, WsOrderApi, OrderBatches

CONSTANTS a, b

Venues == {"binance", "bitget", "bybit", "coinbase", "gate", "htx", "kraken", "kucoin", "okx", "upbit"}

\* The reads of these clients differ by market only in what spot refuses.
MCReaders == {c \in [venue : Venues, market : {"spot", "linear"}] :
                /\ c.venue \in {"coinbase", "upbit"} => c.market = "spot"
                /\ c.venue \in {"bitget", "bybit", "htx", "okx"} => c.market = "linear"}
MCHtx == [venue : {"htx"}, market : {"spot", "linear"}]

MCProfiles == {BinanceSpot, BinanceFutures, Bitget, Bybit, Gate, Htx, Kraken, KuCoin, Okx}
MCBitget == {Bitget}

MCOrder(n) == [name |-> n, expressible |-> TRUE]

\* A batch may repeat a name, of its own or of the other call's, mix named and
\* unnamed orders, or hold an order that cannot be expressed.
MCBatches ==
  {<<MCOrder(a)>>, <<MCOrder(a), MCOrder(b)>>, <<MCOrder(a), MCOrder(a)>>,
   <<MCOrder(NoName), MCOrder(a)>>, <<MCOrder(NoName), MCOrder(NoName)>>,
   <<[name |-> NoName, expressible |-> FALSE], MCOrder(b)>>}
MCUnnamed == {<<MCOrder(NoName), MCOrder(a)>>}

NobodysReader == [venue |-> "none", market |-> "none"]
NobodysProfile == [one_call |-> FALSE, generates |-> FALSE, keyed |-> TRUE]

BookRests ==
  /\ venue = <<>> /\ levels = <<>> /\ last_update_id = 0 /\ initialized = FALSE /\ seen = {}

MarketRests ==
  /\ reader = NobodysReader /\ interval = "none"
  /\ candles = <<>> /\ bid = 0 /\ book_id = MaxTrades + 1
  /\ reading = NoReading /\ reads = MaxReads /\ history = <<>> /\ got = NoGot

RequestsRest ==
  /\ handshake = "none" /\ ws_api_connection = NoConnection /\ token = "none" /\ abandoned = {}
  /\ request = MaxRequests /\ pc = "idle"
  /\ verdict = [f \in Frames |-> "none"] /\ result = <<>>

BatchesRest ==
  /\ profile = NobodysProfile /\ counter = 0
  /\ stage = [c \in Calls |-> "done"] /\ batch = [c \in Calls |-> <<>>]
  /\ ids = [c \in Calls |-> <<>>] /\ frames = {} /\ reply = [c \in Calls |-> NoReply]
  /\ orders = {} /\ outer = [c \in Calls |-> "none"] /\ results = [c \in Calls |-> <<>>]

CallsInit ==
  \/ BookInit /\ MarketRests /\ RequestsRest /\ BatchesRest
  \/ BookRests /\ MarketInit /\ RequestsRest /\ BatchesRest
  \/ BookRests /\ MarketRests /\ Init /\ BatchesRest
  \/ BookRests /\ MarketRests /\ RequestsRest /\ BatchInit

CallsNext ==
  \/ venue # <<>> /\ BookNext /\ UNCHANGED <<marketVars, vars, batchVars>>
  \/ reader # NobodysReader /\ MarketNext /\ UNCHANGED <<bookVars, vars, batchVars>>
  \/ handshake # "none" /\ Next /\ UNCHANGED <<bookVars, marketVars, batchVars>>
  \/ profile # NobodysProfile /\ BatchNext /\ UNCHANGED <<bookVars, marketVars, vars>>

CallsSpec == CallsInit /\ [][CallsNext]_<<bookVars, marketVars, vars, batchVars>>
=============================================================================
