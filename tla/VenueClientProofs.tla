------------------------- MODULE VenueClientProofs -------------------------
(***************************************************************************)
(* What a client of a venue tells its caller is so: of the orders it       *)
(* manages, of the futures account behind it and of the contacts it makes. *)
(***************************************************************************)
EXTENDS OrderLife, FuturesAccount, Connection, SumTheorems, FiniteSetTheorems, TLAPS

(***************************************************************************)
(* Orders at a venue and the client that manages them, for any of the ten  *)
(* clients, any two quantities and any number of calls and unread frames:  *)
(* what the client last showed of an order is so, an amend never makes the *)
(* caller trade more than it asked for, every live order has a handle that *)
(* the caller was or will be told, and what a finished call says is so.    *)
(*                                                                         *)
(* None of it is inductive.  A frame that waits on the private stream must *)
(* still be true when it is read, so that the same is asked of the frames  *)
(* and every step must keep what they say (Grows); an order that has been  *)
(* replaced must stay cancelled (ReplacedFit); and what a call has reached *)
(* at each of its requests must be known, also of one whose answer is lost *)
(* (AmendFits, CancelFits).                                                *)
(***************************************************************************)


OrderRec ==
  [phase : Phases, quantity : Nat, filled : Nat, price : Nat, trigger : BOOLEAN,
   ending : BOOLEAN, of : {0, 1, 2}]

Books == [Handles -> {NoOrder} \cup OrderRec]

Ops == {"cancel", "cancel_ws", "cancel_batch", "amend", "query", "open_orders"}

CallRec ==
  [op : Ops \cup {"none"}, pc : {"over", "send", "answered"}, ids : Seq(Handles), step : Nat,
   did : SUBSET Handles, refused : SUBSET Handles, answer : {"none", "done", "error"},
   outcome : {"none", "ok", "err"}]

FrameRec ==
  [handle : Handles, total : Int, held : Nat,
   order : {NoView} \cup Views]

Types ==
  /\ client \in Clients /\ orders \in Books /\ call \in CallRec /\ known \subseteq Handles
  /\ seen \in [Handles -> {NoView} \cup Views] /\ frames \in Seq(FrameRec)

\* What an order of the venue can be, at a client's.
OrderFits(c, o) ==
  /\ o.quantity > 0 /\ o.filled <= o.quantity
  /\ o.phase = "filled" <=> o.filled = o.quantity
  /\ o.phase \in {"canceled", "canceling", "expired"} => o.ending
  /\ o.phase = "canceling" => TellsCanceling(c)
  /\ o.phase = "expired" => TellsExpiry(c)
  /\ o.phase = "fired" => o.trigger /\ SeparateTriggers(c)
  /\ o.phase = "waiting" => o.trigger /\ o.filled = 0

OrdersFit ==
  /\ \A h \in Placed : Exists(h) /\ orders[h].of = 0
  /\ \A h \in Handles : Exists(h) => OrderFits(client, orders[h])

HtxSwaps(c) == c.venue = "htx" /\ Swap(c)

\* A view that was given, or that waits to be read, is true of the orders.
SaidTrue(c, os, h, v) ==
  v # NoView => os[h].phase # "none" /\ (~HtxSwaps(c) => ShownTruly(os[h], v))

ViewsTrue ==
  /\ \A h \in Handles : SaidTrue(client, orders, h, seen[h])
  /\ \A i \in DOMAIN frames : SaidTrue(client, orders, frames[i].handle, frames[i].order)

ReplacedFit ==
  \A h \in Placed : Replaced(h) =>
    /\ orders[h].phase = "canceled"
    /\ client.venue \in {"binance", "kraken"} /\ ~Swap(client)
    /\ LET most == orders[h].filled + orders[Replacement].quantity
       IN  IF client.venue = "binance" THEN most < 2 * orders[h].quantity
           ELSE most <= orders[h].quantity

Told ==
  /\ Placed \subseteq known
  /\ Exists(Replacement) =>
       \/ Replacement \in known
       \/ \E i \in DOMAIN frames : frames[i].handle = Replacement /\ frames[i].order # NoView

CallFits ==
  /\ call.pc # "over" => call.op \in Ops
  /\ call.op \in {"cancel", "cancel_ws", "amend", "query"} => Len(call.ids) = 1
  /\ call.op = "cancel_batch" => HasBatch(client) /\ Len(call.ids) = 2 /\ call.ids[1] # call.ids[2]
  /\ call.op = "amend" => HasAmend(client)
  /\ call.op \in Ops => call.step \in DOMAIN Requests(client, call.op, call.ids)

Amended ==
  LET h == AmendedHandle(client, call.ids[1]) IN Exists(h) /\ orders[h].price = 2

AmendFits ==
  call.op = "amend" =>
    /\ call.pc = "answered" /\ call.answer = "done" /\ Current.op # "query" => Amended
    /\ call.step = 2 /\ client.venue # "binance" => Amended
    /\ call.pc = "over" /\ call.outcome = "ok" =>
         Amended /\ AmendedHandle(client, call.ids[1]) \in known
    /\ call.step = 1 => /\ call.pc = "send" => call.did = {} /\ call.refused = {}
                        /\ call.did = {} \/ call.refused = {}

\* A cancellation whose refusals are told as errors: one request for each order.
Plain ==
  /\ call.op \in {"cancel", "cancel_ws", "cancel_batch"}
  /\ LET reqs == Requests(client, call.op, call.ids)
     IN  \A i \in DOMAIN reqs : ~TellsInBody(client, reqs[i])

Ended(i) ==
  LET h == call.ids[i] IN Exists(h) /\ orders[h].ending /\ h \in call.did

CancelFits ==
  Plain =>
    /\ \A i \in DOMAIN call.ids : i < call.step => Ended(i)
    /\ \A i \in DOMAIN call.ids : call.ids[i] \in call.did => i <= call.step
    /\ call.pc = "send" => \A i \in DOMAIN call.ids : call.ids[i] \in call.did => i < call.step
    /\ call.pc = "answered" /\ call.answer = "done" => Ended(call.step)
    /\ call.pc = "over" /\ call.outcome = "ok" => call.step = Len(call.ids) /\ Ended(call.step)

IInv ==
  /\ Types /\ OrdersFit /\ ViewsTrue /\ ReplacedFit /\ Told
  /\ CallFits /\ AmendFits /\ CancelFits
-----------------------------------------------------------------------------
\* What the clients make of the venues' words, word by word.
Common == {"open", "partial", "filled", "canceled", "cut"}

StatusFits(at, s) ==
  /\ s = "Filled" => at = "filled"
  /\ s \in {"Canceled", "Expired"} => at \in {"canceled", "cut", "canceling", "expired"}
  /\ s = "PartiallyFilled" => at = "partial"
  /\ s \in {"New", "PartiallyFilled", "Filled", "Canceled", "Expired"}

LEMMA BinanceTable ==
  \A at \in Common \cup {"waiting", "canceling", "expired"} : StatusFits(at, BinanceStatus(BinanceWord[at]))
<1>1. /\ BinanceWord["waiting"] = "NEW"
      /\ BinanceWord["open"] = "NEW"
      /\ BinanceWord["partial"] = "PARTIALLY_FILLED"
      /\ BinanceWord["filled"] = "FILLED"
      /\ BinanceWord["canceled"] = "CANCELED"
      /\ BinanceWord["cut"] = "CANCELED"
      /\ BinanceWord["canceling"] = "PENDING_CANCEL"
      /\ BinanceWord["expired"] = "EXPIRED"
  BY DEF BinanceWord, Most
<1> QED
  BY <1>1 DEF StatusFits, Common, BinanceStatus

LEMMA BitgetTable == \A at \in Common : StatusFits(at, BitgetStatus(BitgetWord[at]))
BY DEF StatusFits, Common, BitgetStatus, BitgetWord, Most

LEMMA BybitTable ==
  \A at \in Common \cup {"waiting"} : StatusFits(at, BybitStatus(BybitWord[at]))
BY DEF StatusFits, Common, BybitStatus, BybitWord, Most

LEMMA CoinbaseTable ==
  \A at \in Common \cup {"waiting", "canceling", "expired"} : StatusFits(at, CoinbaseStatus(CoinbaseWord[at]))
<1>1. /\ CoinbaseWord["waiting"] = "PENDING"
      /\ CoinbaseWord["open"] = "OPEN"
      /\ CoinbaseWord["partial"] = "OPEN"
      /\ CoinbaseWord["filled"] = "FILLED"
      /\ CoinbaseWord["canceled"] = "CANCELLED"
      /\ CoinbaseWord["cut"] = "CANCELLED"
      /\ CoinbaseWord["canceling"] = "CANCEL_QUEUED"
      /\ CoinbaseWord["expired"] = "EXPIRED"
  BY DEF CoinbaseWord, Most
<1> QED
  BY <1>1 DEF StatusFits, Common, CoinbaseStatus

LEMMA HtxTable == \A at \in Common \cup {"canceling"} : StatusFits(at, HtxStatus(HtxWord[at]))
BY DEF StatusFits, Common, HtxStatus, HtxWord, Most

LEMMA KrakenTable ==
  \A at \in Common \cup {"waiting", "canceling", "expired"} :
    /\ StatusFits(at, KrakenStatus(KrakenWord[at]))
    /\ StatusFits(at, KrakenStreamStatus(KrakenStreamWord[at]))
BY DEF StatusFits, Common, KrakenStatus, KrakenWord, KrakenStreamStatus, KrakenStreamWord, Most

LEMMA KrakenFuturesTable ==
  \A at \in Common \cup {"waiting"} : StatusFits(at, KrakenFuturesStatus(KrakenFuturesWord[at]))
BY DEF StatusFits, Common, KrakenFuturesStatus, KrakenFuturesWord, Most

LEMMA OkxTable == \A at \in Common : StatusFits(at, OkxStatus(OkxWord[at]))
BY DEF StatusFits, Common, OkxStatus, OkxWord, Most

LEMMA UpbitTable ==
  \A at \in Common \cup {"waiting"} : StatusFits(at, UpbitStatus(UpbitWord[at]))
BY DEF StatusFits, Common, UpbitStatus, UpbitWord, Most

LEMMA GateTable ==
  ASSUME NEW at \in Common, NEW filled \in Nat,
         at = "open" => filled = 0, at = "partial" => filled > 0
  PROVE  /\ StatusFits(at, GateStatus(GateWord[at], filled))
         /\ StatusFits(at, GateFuturesStatus(GateFuturesWord[at], filled))
         /\ StatusFits(at, GateFuturesStreamStatus(GateFuturesWord[at], filled))
<1>1. StatusFits(at, GateStatus(GateWord[at], filled))
  BY DEF StatusFits, Common, GateStatus, GateWord, Most, ByFill
<1>2. /\ GateFuturesWord["open"][1] = "open" /\ GateFuturesWord["partial"][1] = "open"
      /\ \A w \in {"filled", "canceled", "cut"} : GateFuturesWord[w][1] = "finished"
      /\ GateFuturesWord["filled"][2] = "filled"
      /\ \A w \in {"canceled", "cut"} : GateFuturesWord[w][2] = "cancelled"
  BY DEF GateFuturesWord, Most
<1>3. /\ StatusFits(at, GateFuturesStatus(GateFuturesWord[at], filled))
      /\ StatusFits(at, GateFuturesStreamStatus(GateFuturesWord[at], filled))
  BY <1>2 DEF StatusFits, Common, GateFuturesStatus, GateFuturesStreamStatus, ByFill
<1> QED
  BY <1>1, <1>3

LEMMA HtxSwapTable ==
  \A at : /\ HtxSwapStatus(HtxSwapWord[at]) \in {"New", "PartiallyFilled", "Filled", "Canceled"}
          /\ HtxSwapStreamStatus(HtxSwapWord[at]) \in {"New", "PartiallyFilled", "Filled", "Canceled"}
BY DEF HtxSwapStatus, HtxSwapStreamStatus

-----------------------------------------------------------------------------
\* An order that the client can be told of, by itself or on the stream.
Viewable(c, o) ==
  o \in OrderRec /\ OrderFits(c, o) /\ o.phase # "fired" /\ (o.phase = "waiting" => ~SeparateTriggers(c))

LEMMA WhereItIs ==
  ASSUME NEW c, NEW o, Viewable(c, o)
  PROVE  /\ At(o) \in Common \cup {"waiting", "canceling", "expired"}
         /\ At(o) = "waiting" => ~SeparateTriggers(c)
         /\ At(o) = "canceling" => TellsCanceling(c)
         /\ At(o) = "expired" => TellsExpiry(c)
         /\ At(o) = "filled" <=> o.phase = "filled"
         /\ At(o) \in {"canceled", "cut", "canceling", "expired"} => o.ending
         /\ At(o) = "partial" => o.filled > 0
         /\ At(o) = "open" => o.filled = 0
BY DEF Viewable, OrderFits, OrderRec, Phases, At, Common

Truly(c, o, v) ==
  v \in Views /\ (~(c.venue = "htx" /\ Swap(c)) => ShownTruly(o, v))

LEMMA FitsIsTrue ==
  ASSUME NEW c, NEW o, Viewable(c, o), NEW s, StatusFits(At(o), s)
  PROVE  Truly(c, o, Shown(s, o.filled))
<1>1. /\ s \in {"New", "PartiallyFilled", "Filled", "Canceled", "Expired"}
      /\ s = "Filled" => o.phase = "filled"
      /\ s \in {"Canceled", "Expired"} => o.ending
      /\ s = "PartiallyFilled" => o.filled > 0
  BY WhereItIs DEF StatusFits
<1>2. o.filled \in Nat /\ o.quantity \in Nat /\ (o.phase = "filled" => o.filled = o.quantity)
  BY DEF Viewable, OrderFits, OrderRec
<1> QED
  BY <1>1, <1>2 DEF Truly, Views, ShownTruly, Shown

LEMMA KuCoinViews ==
  ASSUME NEW c, NEW o, Viewable(c, o), c.venue = "kucoin"
  PROVE  /\ Truly(c, o, KuCoinOrder(o))
         /\ o.phase # "waiting" => /\ Truly(c, o, KuCoinStreamOrder(o))
                                   /\ Truly(c, o, KuCoinFuturesStreamOrder(o))
<1>1. /\ o.phase \in {"waiting", "open", "canceled", "filled"}
      /\ o.filled \in Nat /\ o.quantity \in Nat /\ (o.phase = "filled" => o.filled = o.quantity)
      /\ o.phase = "canceled" => o.ending
  BY DEF Viewable, OrderFits, OrderRec, Phases, TellsCanceling, TellsExpiry
<1>2. Truly(c, o, KuCoinOrder(o))
  BY <1>1 DEF KuCoinOrder, KuCoinStatus, ByFill, Truly, Views, ShownTruly, Shown
<1>3. ASSUME o.phase # "waiting"
      PROVE  Truly(c, o, KuCoinStreamOrder(o)) /\ Truly(c, o, KuCoinFuturesStreamOrder(o))
  <2>1. /\ KuCoinWord(o) \in {"match", "open", "done"}
        /\ KuCoinWord(o) = "match" => o.filled > 0
        /\ KuCoinWord(o) = "done" /\ KuCoinType(o) # "canceled" => o.phase = "filled"
        /\ KuCoinType(o) = "canceled" => o.phase = "canceled"
        /\ KuCoinType(o) \in {"canceled", "other"} /\ (o.phase = "filled" => KuCoinWord(o) = "done")
    BY <1>1, <1>3 DEF KuCoinWord, KuCoinType
  <2>2. Truly(c, o, KuCoinStreamOrder(o))
    <3> DEFINE s == KuCoinStreamStatus(KuCoinWord(o), KuCoinType(o))
    <3>1. \/ s = "New"
          \/ s = "PartiallyFilled" /\ o.filled > 0
          \/ s = "Filled" /\ o.phase = "filled"
          \/ s = "Canceled" /\ o.ending
      BY <1>1, <2>1 DEF KuCoinStreamStatus
    <3> HIDE DEF s
    <3>2. Shown(s, o.filled) \in Views /\ ShownTruly(o, Shown(s, o.filled))
      BY <1>1, <3>1 DEF Views, ShownTruly, Shown
    <3> QED
      BY <3>2 DEF KuCoinStreamOrder, Truly, s
  <2>3. Truly(c, o, KuCoinFuturesStreamOrder(o))
    <3> DEFINE s == KuCoinFuturesStreamStatus(KuCoinWord(o), KuCoinType(o))
    <3>1. \/ s = "New"
          \/ s = "PartiallyFilled" /\ o.filled > 0
          \/ s = "Filled" /\ o.phase = "filled"
          \/ s = "Canceled" /\ o.ending
      BY <1>1, <2>1 DEF KuCoinFuturesStreamStatus
    <3> HIDE DEF s
    <3>2. Shown(s, o.filled) \in Views /\ ShownTruly(o, Shown(s, o.filled))
      BY <1>1, <3>1 DEF Views, ShownTruly, Shown
    <3> QED
      BY <3>2 DEF KuCoinFuturesStreamOrder, Truly, s
  <2> QED
    BY <2>2, <2>3
<1> QED
  BY <1>2, <1>3

LEMMA GateViews ==
  ASSUME NEW c, NEW o, Viewable(c, o), c.venue = "gate"
  PROVE  /\ Truly(c, o, GateOrder(o, "rest")) /\ Truly(c, o, GateOrder(o, "stream"))
         /\ Truly(c, o, GateFuturesOrder(o)) /\ Truly(c, o, GateFuturesStreamOrder(o))
<1>1. /\ At(o) \in Common /\ o.filled \in Nat /\ o.quantity \in Nat
      /\ At(o) = "open" => o.filled = 0
      /\ At(o) = "partial" => o.filled > 0
  BY WhereItIs DEF Viewable, OrderRec, SeparateTriggers, TellsCanceling, TellsExpiry
<1>2. /\ StatusFits(At(o), GateStatus(GateWord[At(o)], o.filled))
      /\ StatusFits(At(o), GateFuturesStatus(GateFuturesWord[At(o)], o.filled))
      /\ StatusFits(At(o), GateFuturesStreamStatus(GateFuturesWord[At(o)], o.filled))
  BY <1>1, GateTable
<1>3. /\ GateFilled(o, GateRaw(o, "rest")) = o.filled
      /\ GateFilled(o, GateRaw(o, "stream")) = o.filled
      /\ GateFuturesFilled(o) = o.filled
  BY <1>1 DEF GateFilled, GateRaw, GateFuturesFilled
<1> QED
  BY <1>2, <1>3, FitsIsTrue DEF GateOrder, GateFuturesOrder, GateFuturesStreamOrder

LEMMA HtxSwapViews ==
  ASSUME NEW c, NEW o, Viewable(c, o), c.venue = "htx", Swap(c)
  PROVE  Truly(c, o, HtxSwapOrder(o)) /\ Truly(c, o, HtxSwapStreamOrder(o))
BY HtxSwapTable DEF Truly, Views, Shown, HtxSwapOrder, HtxSwapStreamOrder, Viewable, OrderRec

\* Whatever a client is told of an order, by itself or on the stream, is so.
LEMMA QueryIsTrue ==
  ASSUME NEW c \in Clients, NEW o, Viewable(c, o)
  PROVE  Truly(c, o, Query(c, o))
<1> DEFINE at == At(o)
<1>1. /\ at \in Common \cup {"waiting", "canceling", "expired"}
      /\ at = "waiting" => ~SeparateTriggers(c)
      /\ at = "canceling" => TellsCanceling(c)
      /\ at = "expired" => TellsExpiry(c)
  BY WhereItIs
<1> HIDE DEF at
<1>2. CASE c.venue = "binance"
  <2>1. StatusFits(at, BinanceStatus(BinanceWord[at]))
    BY <1>1, BinanceTable
  <2> QED
    BY <1>2, <2>1, FitsIsTrue DEF Query, BinanceOrder, at
<1>3. CASE c.venue = "bitget"
  <2>1. StatusFits(at, BitgetStatus(BitgetWord[at]))
    BY <1>1, <1>3, BitgetTable DEF SeparateTriggers, TellsCanceling, TellsExpiry
  <2> QED
    BY <1>3, <2>1, FitsIsTrue DEF Query, BitgetOrder, at
<1>4. CASE c.venue = "bybit"
  <2>1. StatusFits(at, BybitStatus(BybitWord[at]))
    BY <1>1, <1>4, BybitTable DEF TellsCanceling, TellsExpiry
  <2> QED
    BY <1>4, <2>1, FitsIsTrue DEF Query, BybitOrder, at
<1>5. CASE c.venue = "coinbase"
  <2>1. StatusFits(at, CoinbaseStatus(CoinbaseWord[at]))
    BY <1>1, CoinbaseTable
  <2> QED
    BY <1>5, <2>1, FitsIsTrue DEF Query, CoinbaseOrder, at
<1>6. CASE c.venue = "gate"
  BY <1>6, GateViews DEF Query
<1>7. CASE c.venue = "htx"
  <2>1. CASE Swap(c)
    BY <1>7, <2>1, HtxSwapViews DEF Query
  <2>2. CASE ~Swap(c)
    <3>1. StatusFits(at, HtxStatus(HtxWord[at]))
      BY <1>1, <1>7, HtxTable DEF SeparateTriggers, TellsExpiry
    <3> QED
      BY <1>7, <2>2, <3>1, FitsIsTrue DEF Query, HtxOrder, at
  <2> QED
    BY <2>1, <2>2
<1>8. CASE c.venue = "kraken"
  <2>1. CASE Swap(c)
    <3>1. StatusFits(at, KrakenFuturesStatus(KrakenFuturesWord[at]))
      BY <1>1, <1>8, <2>1, KrakenFuturesTable DEF TellsCanceling, TellsExpiry
    <3> QED
      BY <1>8, <2>1, <3>1, FitsIsTrue DEF Query, KrakenFuturesOrder, at
  <2>2. CASE ~Swap(c)
    <3>1. StatusFits(at, KrakenStatus(KrakenWord[at]))
      BY <1>1, KrakenTable
    <3> QED
      BY <1>8, <2>2, <3>1, FitsIsTrue DEF Query, KrakenOrder, at
  <2> QED
    BY <2>1, <2>2
<1>9. CASE c.venue = "kucoin"
  BY <1>9, KuCoinViews DEF Query
<1>10. CASE c.venue = "okx"
  <2>1. StatusFits(at, OkxStatus(OkxWord[at]))
    BY <1>1, <1>10, OkxTable DEF SeparateTriggers, TellsCanceling, TellsExpiry
  <2> QED
    BY <1>10, <2>1, FitsIsTrue DEF Query, OkxOrder, at
<1>11. CASE c.venue = "upbit"
  <2>1. StatusFits(at, UpbitStatus(UpbitWord[at]))
    BY <1>1, <1>11, UpbitTable DEF TellsCanceling, TellsExpiry
  <2> QED
    BY <1>11, <2>1, FitsIsTrue DEF Query, UpbitOrder, at
<1> QED
  BY <1>2, <1>3, <1>4, <1>5, <1>6, <1>7, <1>8, <1>9, <1>10, <1>11, LifeAssumption

Streamed(c, o) == Viewable(c, o) /\ (o.phase = "waiting" => HasAmend(c))

LEMMA UpdateIsTrue ==
  ASSUME NEW c \in Clients, NEW o, Streamed(c, o), Streams(c)
  PROVE  Truly(c, o, Update(c, o))
<1> DEFINE at == At(o)
<1>1. /\ Viewable(c, o)
      /\ at \in Common \cup {"waiting", "canceling", "expired"}
      /\ at = "waiting" => ~SeparateTriggers(c)
      /\ at = "canceling" => TellsCanceling(c)
      /\ at = "expired" => TellsExpiry(c)
  BY WhereItIs DEF Streamed
<1> HIDE DEF at
<1>2. CASE c.venue = "binance"
  <2>1. StatusFits(at, BinanceStatus(BinanceWord[at]))
    BY <1>1, BinanceTable
  <2> QED
    BY <1>1, <1>2, <2>1, FitsIsTrue DEF Update, BinanceStreamOrder, at
<1>3. CASE c.venue = "bitget"
  <2>1. StatusFits(at, BitgetStatus(BitgetWord[at]))
    BY <1>1, <1>3, BitgetTable DEF SeparateTriggers, TellsCanceling, TellsExpiry
  <2> QED
    BY <1>1, <1>3, <2>1, FitsIsTrue DEF Update, BitgetOrder, at
<1>4. CASE c.venue = "bybit"
  <2>1. StatusFits(at, BybitStatus(BybitWord[at]))
    BY <1>1, <1>4, BybitTable DEF TellsCanceling, TellsExpiry
  <2> QED
    BY <1>1, <1>4, <2>1, FitsIsTrue DEF Update, BybitOrder, at
<1>5. CASE c.venue = "gate"
  BY <1>1, <1>5, GateViews DEF Update
<1>6. CASE c.venue = "htx"
  <2>1. CASE Swap(c)
    BY <1>1, <1>6, <2>1, HtxSwapViews DEF Update
  <2>2. CASE ~Swap(c)
    <3>1. StatusFits(at, HtxStatus(HtxWord[at]))
      BY <1>1, <1>6, HtxTable DEF SeparateTriggers, TellsExpiry
    <3> QED
      BY <1>1, <1>6, <2>2, <3>1, FitsIsTrue DEF Update, HtxStreamOrder, at
  <2> QED
    BY <2>1, <2>2
<1>7. CASE c.venue = "kraken"
  <2>1. CASE Swap(c)
    <3>1. /\ o.phase \in Phases /\ o.filled \in Nat /\ o.quantity \in Nat
          /\ o.phase = "canceled" => o.ending
      BY <1>1 DEF Viewable, OrderFits, OrderRec
    <3>2. KrakenFeedOrder(o) \in Views /\ ShownTruly(o, KrakenFeedOrder(o))
      BY <3>1 DEF KrakenFeedOrder, KrakenFeedStatus, Shown, Views, ShownTruly
    <3> QED
      BY <1>7, <2>1, <3>2 DEF Update, Truly
  <2>2. CASE ~Swap(c)
    <3>1. StatusFits(at, KrakenStreamStatus(KrakenStreamWord[at]))
      BY <1>1, KrakenTable
    <3> QED
      BY <1>1, <1>7, <2>2, <3>1, FitsIsTrue DEF Update, KrakenStreamOrder, at
  <2> QED
    BY <2>1, <2>2
<1>8. CASE c.venue = "kucoin"
  <2>1. o.phase # "waiting"
    BY <1>8 DEF Streamed, HasAmend
  <2> QED
    BY <1>1, <1>8, <2>1, KuCoinViews DEF Update
<1>9. CASE c.venue = "okx"
  <2>1. StatusFits(at, OkxStatus(OkxWord[at]))
    BY <1>1, <1>9, OkxTable DEF SeparateTriggers, TellsCanceling, TellsExpiry
  <2> QED
    BY <1>1, <1>9, <2>1, FitsIsTrue DEF Update, OkxOrder, at
<1> QED
  BY <1>2, <1>3, <1>4, <1>5, <1>6, <1>7, <1>8, <1>9, LifeAssumption DEF Streams
-----------------------------------------------------------------------------
(* The requests of a call. *)

CallOf(c, op, ids) ==
  /\ op \in Ops /\ ids \in Seq(Handles)
  /\ op \in {"cancel", "cancel_ws", "amend", "query"} => Len(ids) = 1
  /\ op = "cancel_batch" => HasBatch(c) /\ Len(ids) = 2 /\ ids[1] # ids[2]
  /\ op = "amend" => HasAmend(c)

RequestsFit(c, op, ids, reqs) ==
  /\ DOMAIN reqs = 1..Len(reqs) /\ Len(reqs) \in {1, 2}
  /\ \A i \in DOMAIN reqs : reqs[i].ids \subseteq Handles
  /\ op # "amend" => \A i \in DOMAIN reqs : reqs[i].op \notin {"amend", "edit", "replace"}
  /\ op \notin {"cancel", "cancel_ws", "cancel_batch"} =>
       \A i \in DOMAIN reqs : reqs[i].op \notin {"cancel", "cancel_all"}
  /\ op = "amend" =>
       /\ Len(reqs) = 1 \/ c.venue = "binance" => reqs[Len(reqs)].op # "query"
       /\ Len(reqs) = 2 /\ c.venue # "binance" => reqs[1].op # "query"
       /\ \A i \in DOMAIN reqs :
            /\ reqs[i].op \in {"query", "amend", "edit", "replace"}
            /\ reqs[i].op # "query" => reqs[i].ids = {ids[1]}
            /\ reqs[i].op = "amend" => Swap(c) \/ c.venue \notin {"binance", "kraken"}
            /\ reqs[i].op = "edit" => ~Swap(c) /\ c.venue = "kraken"
            /\ reqs[i].op = "replace" => ~Swap(c) /\ c.venue = "binance"

LEMMA CallShape ==
  ASSUME NEW c, NEW op, NEW ids, CallOf(c, op, ids)
  PROVE  /\ ids \in Seq(Handles) /\ Len(ids) \in Nat /\ DOMAIN ids = 1..Len(ids)
         /\ \A i \in DOMAIN ids : ids[i] \in Handles
         /\ op \in {"cancel", "cancel_ws", "amend", "query"} => Len(ids) = 1 /\ ids[1] \in Handles
         /\ op = "cancel_batch" =>
              /\ HasBatch(c) /\ Len(ids) = 2 /\ ids[1] \in Handles /\ ids[2] \in Handles
              /\ ids[1] # ids[2]
<1>1. ids \in Seq(Handles)
  BY DEF CallOf
<1>2. Len(ids) \in Nat /\ DOMAIN ids = 1..Len(ids) /\ \A i \in DOMAIN ids : ids[i] \in Handles
  BY <1>1
<1>3. /\ op \in {"cancel", "cancel_ws", "amend", "query"} => Len(ids) = 1
      /\ op = "cancel_batch" => HasBatch(c) /\ Len(ids) = 2 /\ ids[1] # ids[2]
  BY DEF CallOf
<1> QED
  BY <1>1, <1>2, <1>3

LEMMA AmendsAreFit ==
  ASSUME NEW c \in Clients, NEW ids, CallOf(c, "amend", ids)
  PROVE  RequestsFit(c, "amend", ids, Requests(c, "amend", ids))
<1>1. ids[1] \in Handles /\ Replacement \in Handles /\ HasAmend(c)
  BY CallShape DEF CallOf, Handles
<1>2. Requests(c, "amend", ids) = AmendOrder(c, ids[1])
  BY DEF Requests
<1>3. CASE c.venue = "binance"
  <2>1. AmendOrder(c, ids[1]) =
          IF Swap(c) THEN <<Op("query", {ids[1]}), Op("amend", {ids[1]})>>
          ELSE <<Op("query", {ids[1]}), Op("replace", {ids[1]})>>
    BY <1>3 DEF AmendOrder, BinanceAmend
  <2> DEFINE reqs == Requests(c, "amend", ids)
             second == IF Swap(c) THEN "amend" ELSE "replace"
  <2>2. reqs = <<Op("query", {ids[1]}), Op(second, {ids[1]})>>
    BY <1>2, <2>1
  <2> HIDE DEF reqs, second
  <2>3. /\ Len(reqs) = 2 /\ DOMAIN reqs = 1..2
        /\ reqs[1].op = "query" /\ reqs[1].ids = {ids[1]}
        /\ reqs[2].op = second /\ reqs[2].ids = {ids[1]}
    BY <2>2 DEF Op
  <2>4. IF Swap(c) THEN second = "amend" ELSE second = "replace"
    BY DEF second
  <2>5. RequestsFit(c, "amend", ids, reqs)
    BY <1>1, <1>3, <2>3, <2>4 DEF RequestsFit
  <2> QED
    BY <2>5 DEF reqs
<1>4. CASE c.venue = "bybit"
  BY <1>1, <1>2, <1>4 DEF AmendOrder, BybitAmend, Op, RequestsFit
<1>5. CASE c.venue = "gate"
  BY <1>1, <1>2, <1>5 DEF AmendOrder, GateAmend, Op, RequestsFit
<1>6. CASE c.venue = "kraken"
  BY <1>1, <1>2, <1>6 DEF AmendOrder, KrakenAmend, Op, RequestsFit, HasAmend
<1>7. CASE c.venue = "okx"
  BY <1>1, <1>2, <1>7 DEF AmendOrder, OkxAmend, Op, RequestsFit
<1> QED
  BY <1>1, <1>3, <1>4, <1>5, <1>6, <1>7 DEF HasAmend

LEMMA BatchesAreFit ==
  ASSUME NEW c \in Clients, NEW ids, CallOf(c, "cancel_batch", ids)
  PROVE  /\ RequestsFit(c, "cancel_batch", ids, Requests(c, "cancel_batch", ids))
         /\ \/ Requests(c, "cancel_batch", ids) = OneByOne(ids)
            \/ Requests(c, "cancel_batch", ids) = AtOnce(ids)
<1>1. /\ ids \in Seq(Handles) /\ Len(ids) = 2 /\ DOMAIN ids = 1..2 /\ ids[1] \in Handles /\ ids[2] \in Handles
      /\ HasBatch(c)
  BY CallShape
<1>2. Requests(c, "cancel_batch", ids) = CancelBatch(c, ids)
  BY DEF Requests
<1>3. CancelBatch(c, ids) = OneByOne(ids) \/ CancelBatch(c, ids) = AtOnce(ids)
  BY <1>1, LifeAssumption DEF CancelBatch, HasBatch, BinanceCancelBatch, BitgetCancelBatch, BybitCancelBatch,
     GateCancelBatch, HtxCancelBatch, KrakenCancelBatch, KuCoinCancelBatch, OkxCancelBatch
<1>4. RequestsFit(c, "cancel_batch", ids, AtOnce(ids))
  BY <1>1 DEF RequestsFit, AtOnce, Op
<1>5. RequestsFit(c, "cancel_batch", ids, OneByOne(ids))
  BY <1>1 DEF RequestsFit, OneByOne, Op
<1> QED
  BY <1>2, <1>3, <1>4, <1>5

LEMMA RequestsAreFit ==
  ASSUME NEW c \in Clients, NEW op, NEW ids, CallOf(c, op, ids)
  PROVE  RequestsFit(c, op, ids, Requests(c, op, ids))
<1>1. CASE op \in {"cancel", "cancel_ws"}
  <2>1. Requests(c, op, ids) = <<Op("cancel", {ids[1]})>> /\ ids[1] \in Handles
    BY <1>1, CallShape DEF Requests
  <2> QED
    BY <1>1, <2>1 DEF RequestsFit, Op
<1>2. CASE op = "cancel_batch"
  BY <1>2, BatchesAreFit
<1>3. CASE op = "amend"
  BY <1>3, AmendsAreFit
<1>4. CASE op = "query"
  <2>1. Requests(c, op, ids) = <<Op("query", {ids[1]})>> /\ ids[1] \in Handles
    BY <1>4, CallShape DEF Requests
  <2> QED
    BY <1>4, <2>1 DEF RequestsFit, Op
<1>5. CASE op = "open_orders"
  <2>1. \/ Requests(c, op, ids) = <<Op("list", {})>>
        \/ Requests(c, op, ids) = <<Op("account", {}), Op("list", {})>>
    BY <1>5 DEF Requests, OpenOrders, HtxOpenOrders
  <2>2. RequestsFit(c, op, ids, <<Op("list", {})>>)
    BY <1>5 DEF RequestsFit, Op
  <2>3. RequestsFit(c, op, ids, <<Op("account", {}), Op("list", {})>>)
    BY <1>5 DEF RequestsFit, Op
  <2> QED
    BY <2>1, <2>2, <2>3
<1> QED
  BY <1>1, <1>2, <1>3, <1>4, <1>5 DEF CallOf, Ops

LEMMA TheCallIsFit ==
  ASSUME Types, CallFits, call.op \in Ops
  PROVE  /\ CallOf(client, call.op, call.ids)
         /\ RequestsFit(client, call.op, call.ids, Requests(client, call.op, call.ids))
         /\ call.step \in {1, 2} /\ call.step <= Len(Requests(client, call.op, call.ids))
<1>1. client \in Clients /\ CallOf(client, call.op, call.ids)
  BY DEF Types, CallRec, CallFits, CallOf
<1>2. RequestsFit(client, call.op, call.ids, Requests(client, call.op, call.ids))
  BY <1>1, RequestsAreFit
<1> QED
  BY <1>1, <1>2 DEF CallFits, RequestsFit

LEMMA PlainShape ==
  ASSUME Types, CallFits, Plain
  PROVE  /\ Len(Requests(client, call.op, call.ids)) = Len(call.ids)
         /\ Len(call.ids) \in {1, 2} /\ DOMAIN call.ids = 1..Len(call.ids)
         /\ Len(call.ids) = 2 => call.ids[1] # call.ids[2]
         /\ \A i \in DOMAIN call.ids :
              Requests(client, call.op, call.ids)[i] = Op("cancel", {call.ids[i]})
<1>1. CallOf(client, call.op, call.ids) /\ client \in Clients
  BY TheCallIsFit DEF Plain, Ops, Types
<1>2. call.ids \in Seq(Handles) /\ Len(call.ids) \in Nat /\ DOMAIN call.ids = 1..Len(call.ids)
  BY <1>1, CallShape
<1>3. CASE call.op \in {"cancel", "cancel_ws"}
  <2>1. Len(call.ids) = 1 /\ Requests(client, call.op, call.ids) = <<Op("cancel", {call.ids[1]})>>
    BY <1>1, <1>3, CallShape DEF Requests
  <2> QED
    BY <1>2, <2>1
<1>4. CASE call.op = "cancel_batch"
  <2>1. Requests(client, call.op, call.ids) # AtOnce(call.ids)
    <3>1. /\ 1 \in DOMAIN AtOnce(call.ids) /\ AtOnce(call.ids)[1].op = "cancel_all"
      BY DEF AtOnce, Op
    <3> QED
      BY <3>1 DEF Plain, TellsInBody
  <2>2. Requests(client, call.op, call.ids) = OneByOne(call.ids)
    BY <1>1, <1>4, <2>1, BatchesAreFit
  <2> QED
    BY <1>1, <1>2, <1>4, <2>2 DEF OneByOne, CallOf
<1> QED
  BY <1>3, <1>4 DEF Plain
-----------------------------------------------------------------------------
(* What every step keeps of an order, and so of what was said of it. *)

Later(o, p) ==
  /\ p.quantity = o.quantity /\ o.filled <= p.filled /\ p.of = o.of
  /\ o.ending => p.ending
  /\ o.price = 2 => p.price = 2
  /\ o.phase = "filled" => p.phase = "filled"
  /\ o.phase = "canceled" => p.phase = "canceled" /\ p.filled = o.filled

Grows(os) ==
  \A h \in Handles : Exists(h) => os[h].phase # "none" /\ Later(orders[h], os[h])

\* The orders that a step leaves fit, and only the replacement is new.
Leaves(os) ==
  /\ os \in Books /\ Grows(os)
  /\ \A h \in Handles : os[h].phase # "none" => OrderFits(client, os[h])

LEMMA OrderTypes ==
  ASSUME NEW os \in Books, NEW h \in Handles
  PROVE  /\ os[h] = NoOrder \/ os[h] \in OrderRec
         /\ os[h].phase # "none" <=> os[h] \in OrderRec
BY DEF Books, OrderRec, NoOrder, Phases

LEMMA ShownLasts ==
  ASSUME NEW o \in OrderRec, NEW p \in OrderRec, NEW v \in Views,
         OrderFits(client, o), OrderFits(client, p), Later(o, p), ShownTruly(o, v)
  PROVE  ShownTruly(p, v)
BY DEF OrderRec, Views, OrderFits, Later, ShownTruly

LEMMA ViewsLast ==
  ASSUME Types, OrdersFit, NEW os, Leaves(os),
         NEW h \in Handles, NEW v \in {NoView} \cup Views, SaidTrue(client, orders, h, v)
  PROVE  SaidTrue(client, os, h, v)
<1> SUFFICES ASSUME v # NoView
             PROVE  os[h].phase # "none" /\ (~HtxSwaps(client) => ShownTruly(os[h], v))
  BY DEF SaidTrue
<1>1. Exists(h) /\ v \in Views /\ (~HtxSwaps(client) => ShownTruly(orders[h], v))
  BY DEF SaidTrue, Exists
<1>2. os[h].phase # "none" /\ Later(orders[h], os[h])
  BY <1>1 DEF Leaves, Grows
<1>3. orders[h] \in OrderRec /\ os[h] \in OrderRec
  BY <1>1, <1>2, OrderTypes DEF Types, Leaves, Exists
<1>4. OrderFits(client, orders[h]) /\ OrderFits(client, os[h])
  BY <1>1, <1>2 DEF OrdersFit, Leaves
<1> QED
  BY <1>1, <1>2, <1>3, <1>4, ShownLasts

LEMMA OrdersFitNext ==
  ASSUME OrdersFit, Leaves(orders'), client' = client
  PROVE  OrdersFit'
BY DEF OrdersFit, Leaves, Grows, Later, Exists, Handles

\* What an account has and what its live orders bind are amounts.
LEMMA AccountOf ==
  ASSUME NEW os \in Books,
         \A h \in Handles : os[h].phase # "none" => os[h].filled <= os[h].quantity
  PROVE  Total(os) \in Int /\ Held(os) \in Nat
<1> DEFINE live == {h \in Orders(os) : Live(os[h])}
           filled == [h \in Orders(os) |-> os[h].filled]
           left   == [h \in live |-> Left(os[h])]
<1>1. \A h \in Orders(os) :
        /\ os[h] \in OrderRec /\ os[h].filled \in Int
        /\ Left(os[h]) \in Nat
  <2> SUFFICES ASSUME NEW h \in Orders(os)
               PROVE  os[h] \in OrderRec /\ os[h].filled \in Int /\ Left(os[h]) \in Nat
    OBVIOUS
  <2>1. h \in Handles /\ os[h].phase # "none" /\ os[h] \in {NoOrder} \cup OrderRec
    BY DEF Orders, Books
  <2>2. os[h] \in OrderRec /\ os[h].filled <= os[h].quantity
    BY <2>1 DEF NoOrder
  <2> QED
    BY <2>2 DEF OrderRec, Left
<1>2. IsFiniteSet(Orders(os)) /\ IsFiniteSet(live)
  <2>1. IsFiniteSet({1, 2, 3})
    <3>1. IsFiniteSet(1..3)
      BY FS_Interval, 1 \in Int, 3 \in Int, Zenon
    <3>2. 1..3 = {1, 2, 3}
      OBVIOUS
    <3> QED
      BY <3>1, <3>2
  <2>2. Orders(os) \subseteq {1, 2, 3} /\ live \subseteq {1, 2, 3}
    BY DEF Orders, Handles, Placed, Replacement
  <2> QED
    BY <2>1, <2>2, FS_Subset
<1>3. /\ \A h \in Orders(os) : filled[h] \in Int
      /\ \A h \in live : left[h] \in Nat
      /\ DOMAIN filled = Orders(os) /\ DOMAIN left = live
  BY <1>1
<1>4. SumFunction(filled) \in Int
  <2> HIDE DEF filled
  <2> QED
    BY <1>2, <1>3, SumType DEF SumFunction
<1>5. SumFunction(left) \in Nat
  <2> HIDE DEF left, live
  <2> QED
    BY <1>2, <1>3, SumIsNatural DEF SumFunction
<1> QED
  BY <1>4, <1>5, LifeAssumption DEF Total, Held

LEMMA AccountOfLeaves ==
  ASSUME NEW os, Leaves(os)
  PROVE  Total(os) \in Int /\ Held(os) \in Nat
<1>1. os \in Books /\ \A h \in Handles : os[h].phase # "none" => os[h].filled <= os[h].quantity
  BY DEF Leaves, OrderFits
<1> QED
  BY <1>1, AccountOf

LEMMA ReplacedLasts ==
  ASSUME Types, OrdersFit, ReplacedFit, Leaves(orders'), client' = client,
         Exists(Replacement) \/ orders'[Replacement].phase = "none" \/ orders'[Replacement].of = 0
  PROVE  ReplacedFit'
<1> SUFFICES ASSUME NEW h \in Placed, Replaced(h)'
             PROVE  /\ orders'[h].phase = "canceled"
                    /\ client.venue \in {"binance", "kraken"} /\ ~Swap(client)
                    /\ LET most == orders'[h].filled + orders'[Replacement].quantity
                       IN  IF client.venue = "binance" THEN most < 2 * orders'[h].quantity
                           ELSE most <= orders'[h].quantity
  BY DEF ReplacedFit
<1>1. h # 0 /\ h \in Handles /\ Replacement \in Handles
  BY DEF Placed, Handles
<1>2. Exists(Replacement) /\ Exists(h)
  BY <1>1 DEF Replaced, Exists, OrdersFit
<1>3. Later(orders[h], orders'[h]) /\ Later(orders[Replacement], orders'[Replacement])
  BY <1>1, <1>2 DEF Leaves, Grows
<1>4. Replaced(h)
  BY <1>2, <1>3 DEF Replaced, Later
<1> QED
  BY <1>3, <1>4 DEF ReplacedFit, Later

Joined(s, t) == s \o t

LEMMA JoinedIsBoth ==
  ASSUME NEW S, NEW s \in Seq(S), NEW t \in Seq(S)
  PROVE  /\ Joined(s, t) \in Seq(S) /\ Len(Joined(s, t)) = Len(s) + Len(t)
         /\ \A i \in 1..Len(Joined(s, t)) : Joined(s, t)[i] = IF i <= Len(s) THEN s[i] ELSE t[i - Len(s)]
BY DEF Joined

(***************************************************************************)
(* A change of the orders and the frames that tell of it.                  *)
(***************************************************************************)
LEMMA BecomeTells ==
  ASSUME Types, OrdersFit, ViewsTrue, Told, NEW os, NEW hs \in Seq(Handles), Become(os, hs),
         Leaves(os), client' = client, seen' = seen, known' = known,
         \A i \in DOMAIN hs : os[hs[i]].phase # "none" /\ Streamed(client, os[hs[i]]),
         os[Replacement].phase # "none" /\ ~Exists(Replacement) =>
           Streams(client) /\ Surfaces(client, os[Replacement])
           /\ \E i \in DOMAIN hs : hs[i] = Replacement
  PROVE  /\ frames' \in Seq(FrameRec) /\ orders' = os
         /\ ViewsTrue' /\ Told'
<1> DEFINE new == [i \in DOMAIN hs |-> Frame(os, hs[i])]
<1>1. /\ orders' = os /\ os \in Books /\ client \in Clients
      /\ frames' = IF Streams(client) THEN frames \o new ELSE frames
      /\ DOMAIN hs = 1..Len(hs) /\ Len(hs) \in Nat
      /\ frames \in Seq(FrameRec) /\ DOMAIN frames = 1..Len(frames) /\ Len(frames) \in Nat
  BY DEF Become, Types, Leaves
<1>2. ASSUME Streams(client), NEW i \in DOMAIN hs
      PROVE  /\ Frame(os, hs[i]) \in FrameRec /\ Frame(os, hs[i]).handle = hs[i]
             /\ Frame(os, hs[i]).order =
                  IF Surfaces(client, os[hs[i]]) THEN Update(client, os[hs[i]]) ELSE NoView
             /\ SaidTrue(client, os, hs[i], Frame(os, hs[i]).order)
  <2> DEFINE h == hs[i]
             f == Frame(os, h)
  <2>1. h \in Handles /\ os[h].phase # "none" /\ Truly(client, os[h], Update(client, os[h]))
    BY <1>1, <1>2, UpdateIsTrue
  <2>2. /\ f.handle = h /\ f.total = Total(os) /\ f.held = Held(os)
        /\ f.order = IF Surfaces(client, os[h]) THEN Update(client, os[h]) ELSE NoView
        /\ f = [handle |-> h, total |-> f.total, held |-> f.held, order |-> f.order]
    BY DEF Frame
  <2> HIDE DEF f, h
  <2>3. f.order \in {NoView} \cup Views
    BY <2>1, <2>2 DEF Truly
  <2>4. f \in FrameRec
    <3>1. f.total \in Int /\ f.held \in Nat
      BY <2>2, AccountOfLeaves
    <3> QED
      BY <1>1, <2>1, <2>2, <2>3, <3>1 DEF FrameRec
  <2>5. SaidTrue(client, os, h, f.order)
    BY <2>1, <2>2 DEF Truly, SaidTrue, HtxSwaps
  <2> QED
    BY <2>2, <2>4, <2>5 DEF f, h
<1>3. /\ frames' \in Seq(FrameRec) /\ DOMAIN frames' = 1..Len(frames')
      /\ \A i \in DOMAIN frames : i \in DOMAIN frames' /\ frames'[i] = frames[i]
      /\ \A i \in DOMAIN frames' :
           i \in DOMAIN frames \/ (Streams(client) /\ \E j \in DOMAIN hs : frames'[i] = Frame(os, hs[j]))
      /\ Streams(client) => \A j \in DOMAIN hs : \E i \in DOMAIN frames' : frames'[i] = Frame(os, hs[j])
  <2>1. CASE ~Streams(client)
    BY <1>1, <2>1
  <2>2. CASE Streams(client)
    <3>1. new \in Seq(FrameRec) /\ Len(new) = Len(hs) /\ DOMAIN new = DOMAIN hs
          /\ \A j \in DOMAIN hs : new[j] = Frame(os, hs[j])
      <4>1. \A j \in 1..Len(hs) : Frame(os, hs[j]) \in FrameRec
        BY <1>1, <1>2, <2>2
      <4>2. new \in [1..Len(hs) -> FrameRec] /\ \A j \in 1..Len(hs) : new[j] = Frame(os, hs[j])
        BY <1>1, <4>1
      <4> QED
        BY <1>1, <4>2
    <3>2. frames' = frames \o new
      BY <1>1, <2>2
    <3> HIDE DEF new
    <3>3. /\ frames' \in Seq(FrameRec) /\ Len(frames') = Len(frames) + Len(hs)
          /\ DOMAIN frames' = 1..Len(frames')
          /\ \A i \in 1..Len(frames') :
               frames'[i] = IF i <= Len(frames) THEN frames[i] ELSE new[i - Len(frames)]
      <4>1. frames \in Seq(FrameRec) /\ new \in Seq(FrameRec) /\ Len(new) = Len(hs)
        BY <1>1, <3>1
      <4>2. frames' = Joined(frames, new)
        BY <3>2 DEF Joined
      <4> QED
        BY <4>1, <4>2, JoinedIsBoth
    <3>4. \A i \in DOMAIN frames : i \in DOMAIN frames' /\ frames'[i] = frames[i]
      BY <1>1, <3>3
    <3>5. ASSUME NEW i \in DOMAIN frames', i \notin DOMAIN frames
          PROVE  \E j \in DOMAIN hs : frames'[i] = Frame(os, hs[j])
      <4>1. i - Len(frames) \in DOMAIN hs /\ frames'[i] = new[i - Len(frames)]
        BY <1>1, <3>3, <3>5
      <4> QED
        BY <3>1, <4>1
    <3>6. ASSUME NEW j \in DOMAIN hs
          PROVE  \E i \in DOMAIN frames' : frames'[i] = Frame(os, hs[j])
      <4>1. j + Len(frames) \in DOMAIN frames' /\ frames'[j + Len(frames)] = new[j]
        BY <1>1, <3>3
      <4> QED
        BY <3>1, <4>1
    <3> QED
      BY <2>2, <3>3, <3>4, <3>5, <3>6
  <2> QED
    BY <2>1, <2>2
<1> HIDE DEF new
<1>4. \A h \in Handles, v \in {NoView} \cup Views :
        SaidTrue(client, orders, h, v) => SaidTrue(client, os, h, v)
  BY ViewsLast
<1>5. \A h \in Handles : SaidTrue(client, os, h, seen[h])
  <2>1. \A h \in Handles : seen[h] \in {NoView} \cup Views
    BY DEF Types
  <2> QED
    BY <1>4, <2>1 DEF ViewsTrue
<1>6. ASSUME NEW i \in DOMAIN frames'
      PROVE  SaidTrue(client, os, frames'[i].handle, frames'[i].order)
  <2>1. CASE i \in DOMAIN frames
    <3>1. frames[i] \in FrameRec /\ SaidTrue(client, orders, frames[i].handle, frames[i].order)
      BY <1>1, <2>1 DEF ViewsTrue
    <3>2. frames[i].handle \in Handles /\ frames[i].order \in {NoView} \cup Views
      BY <3>1 DEF FrameRec
    <3> QED
      BY <1>3, <1>4, <2>1, <3>1, <3>2
  <2>2. CASE i \notin DOMAIN frames
    BY <1>2, <1>3, <2>2
  <2> QED
    BY <2>1, <2>2
<1>7. ViewsTrue'
  BY <1>1, <1>5, <1>6 DEF ViewsTrue
<1>8. Told'
  <2>1. CASE ~Exists(Replacement)' \/ Exists(Replacement)
    BY <1>3, <2>1 DEF Told
  <2>2. CASE Exists(Replacement)' /\ ~Exists(Replacement)
    <3>1. /\ Streams(client) /\ Surfaces(client, os[Replacement])
          /\ \E i \in DOMAIN hs : hs[i] = Replacement
      BY <1>1, <2>2 DEF Exists
    <3>2. PICK j \in DOMAIN hs : hs[j] = Replacement
      BY <3>1
    <3>3. PICK i \in DOMAIN frames' : frames'[i] = Frame(os, hs[j])
      BY <1>3, <3>1
    <3>4. Update(client, os[Replacement]) # NoView
      <4>1. Update(client, os[Replacement]) \in Views
        BY <1>1, <3>1, <3>2, UpdateIsTrue DEF Truly
      <4> QED
        BY <4>1 DEF Views, NoView
    <3>5. frames'[i].handle = Replacement /\ frames'[i].order # NoView
      BY <1>2, <3>1, <3>2, <3>3, <3>4
    <3> QED
      BY <3>5 DEF Told
  <2> QED
    BY <2>1, <2>2
<1> QED
  BY <1>1, <1>3, <1>7, <1>8
-----------------------------------------------------------------------------
(* The steps that leave the call as it is. *)

LEMMA AmendedHandles ==
  ASSUME Types, CallFits, call.op = "amend"
  PROVE  /\ call.ids[1] \in Handles /\ AmendedHandle(client, call.ids[1]) \in Handles
         /\ Len(call.ids) = 1 /\ HasAmend(client)
<1>1. CallOf(client, call.op, call.ids)
  BY TheCallIsFit DEF Ops
<1> QED
  BY <1>1, CallShape DEF CallOf, AmendedHandle, Handles

LEMMA AmendedLasts ==
  ASSUME Types, CallFits, call.op = "amend", Amended, Leaves(orders'),
         client' = client, call'.ids = call.ids
  PROVE  Amended'
<1> DEFINE h == AmendedHandle(client, call.ids[1])
<1>1. h \in Handles /\ Exists(h) /\ orders[h].price = 2
  BY AmendedHandles DEF Amended
<1>2. orders'[h].phase # "none" /\ orders'[h].price = 2
  BY <1>1 DEF Leaves, Grows, Later
<1>3. AmendedHandle(client', call'.ids[1]) = h
  OBVIOUS
<1> HIDE DEF h
<1> QED
  BY <1>2, <1>3 DEF Amended, Exists

LEMMA EndedLasts ==
  ASSUME Leaves(orders'), call'.ids = call.ids, call.did \subseteq call'.did,
         NEW i, call.ids[i] \in Handles, Ended(i)
  PROVE  Ended(i)'
BY DEF Ended, Leaves, Grows, Later, Exists

LEMMA CallLasts ==
  ASSUME Types, CallFits, AmendFits, CancelFits, Leaves(orders'),
         client' = client, call' = call, known \subseteq known'
  PROVE  CallFits' /\ AmendFits' /\ CancelFits'
<1>1. CallFits'
  BY DEF CallFits
<1>2. AmendFits'
  <2>1. call.op = "amend" /\ Amended => Amended'
    BY AmendedLasts
  <2> QED
    BY <2>1 DEF AmendFits, Current
<1>3. CancelFits'
  <2> SUFFICES ASSUME Plain
               PROVE  CancelFits'
    BY DEF CancelFits, Plain, TellsInBody
  <2>1. /\ Len(call.ids) \in {1, 2} /\ DOMAIN call.ids = 1..Len(call.ids)
        /\ \A i \in DOMAIN call.ids : call.ids[i] \in Handles
        /\ call.step \in 1..Len(call.ids)
    <3>1. CallOf(client, call.op, call.ids) /\ call.step \in {1, 2}
          /\ call.step <= Len(Requests(client, call.op, call.ids))
      BY TheCallIsFit DEF Plain, Ops
    <3> QED
      BY <3>1, PlainShape, CallShape
  <2>2. \A i \in DOMAIN call.ids : Ended(i) => Ended(i)'
    BY <2>1, EndedLasts
  <2> QED
    BY <2>1, <2>2 DEF CancelFits
<1> QED
  BY <1>1, <1>2, <1>3

\* What the venue does by itself: its orders change, and the stream tells.
LEMMA VenueKeeps ==
  ASSUME IInv, NEW os, NEW hs \in Seq(Handles), Become(os, hs), Leaves(os),
         UNCHANGED <<client, call, calls, known, seen, money>>,
         \A i \in DOMAIN hs : os[hs[i]].phase # "none" /\ Streamed(client, os[hs[i]]),
         os[Replacement].phase # "none" /\ ~Exists(Replacement) =>
           Streams(client) /\ Surfaces(client, os[Replacement])
           /\ \E i \in DOMAIN hs : hs[i] = Replacement,
         Exists(Replacement) \/ os[Replacement].phase = "none" \/ os[Replacement].of = 0
  PROVE  IInv'
<1>1. orders' = os /\ Leaves(orders') /\ os \in Books
  BY DEF Become, Leaves
<1>2. frames' \in Seq(FrameRec) /\ ViewsTrue' /\ Told'
  BY BecomeTells DEF IInv
<1>3. Types'
  BY <1>1, <1>2 DEF IInv, Types
<1>4. OrdersFit' /\ ReplacedFit'
  BY <1>1, OrdersFitNext, ReplacedLasts DEF IInv
<1>5. CallFits' /\ AmendFits' /\ CancelFits'
  BY <1>1, CallLasts DEF IInv
<1> QED
  BY <1>2, <1>3, <1>4, <1>5 DEF IInv

LEMMA OneChangeLeaves ==
  ASSUME IInv, NEW h \in Handles, Exists(h), NEW o \in OrderRec,
         Later(orders[h], o), OrderFits(client, o)
  PROVE  Leaves([orders EXCEPT ![h] = o])
<1> DEFINE os == [orders EXCEPT ![h] = o]
<1>1. os \in Books /\ os[h] = o /\ \A k \in Handles \ {h} : os[k] = orders[k]
  BY DEF IInv, Types, Books
<1>2. o.phase # "none"
  BY DEF OrderRec, Phases
<1>3. ASSUME NEW k \in Handles, Exists(k)
      PROVE  Later(orders[k], orders[k])
  <2>1. orders[k] \in OrderRec
    BY <1>3, OrderTypes DEF IInv, Types, Exists
  <2> QED
    BY <2>1 DEF Later, OrderRec
<1> HIDE DEF os
<1>4. Grows(os)
  BY <1>1, <1>2, <1>3 DEF Grows, Exists
<1>5. \A k \in Handles : os[k].phase # "none" => OrderFits(client, os[k])
  BY <1>1 DEF IInv, OrdersFit, Exists
<1>6. Leaves(os)
  BY <1>1, <1>4, <1>5 DEF Leaves
<1> QED
  BY <1>6 DEF os

LEMMA VenueStepKeeps ==
  ASSUME IInv, NEW h \in Handles, Exists(h), NEW o \in OrderRec,
         Later(orders[h], o), OrderFits(client, o), Streamed(client, o), VenueStep(h, o)
  PROVE  IInv'
<1> DEFINE os == [orders EXCEPT ![h] = o]
           hs == <<h>>
<1>1. os[h] = o /\ (Replacement # h => os[Replacement] = orders[Replacement]) /\ o.phase # "none"
  BY DEF IInv, Types, Books, OrderRec, Phases, Handles
<1>2. hs \in Seq(Handles) /\ DOMAIN hs = {1} /\ hs[1] = h
  OBVIOUS
<1>3. Become(os, hs) /\ UNCHANGED <<client, call, calls, known, seen, money>>
  BY DEF VenueStep
<1>4. Leaves(os)
  BY OneChangeLeaves
<1> HIDE DEF os, hs
<1>5. Exists(Replacement) \/ os[Replacement].phase = "none"
  BY <1>1 DEF Exists
<1>6. \A i \in DOMAIN hs : os[hs[i]].phase # "none" /\ Streamed(client, os[hs[i]])
  BY <1>1, <1>2
<1> QED
  BY <1>2, <1>3, <1>4, <1>5, <1>6, VenueKeeps

LEMMA FireKeeps ==
  ASSUME IInv, NEW h \in Handles, Fire(h)
  PROVE  IInv'
<1> DEFINE o == [orders[h] EXCEPT !.phase = "open"]
<1>1. orders[h].phase = "waiting" /\ Exists(h)
  BY DEF Fire, Exists
<1>2. orders[h] \in OrderRec /\ OrderFits(client, orders[h])
  BY <1>1, OrderTypes DEF IInv, Types, OrdersFit, Exists
<1>3. o \in OrderRec /\ Later(orders[h], o) /\ OrderFits(client, o) /\ Streamed(client, o)
  BY <1>1, <1>2 DEF OrderRec, Phases, Later, OrderFits, Streamed, Viewable
<1> QED
  BY <1>1, <1>3, VenueStepKeeps DEF Fire

LEMMA FillKeeps ==
  ASSUME IInv, NEW h \in Handles, Fill(h)
  PROVE  IInv'
<1> DEFINE p == orders[h]
           o == [p EXCEPT !.filled = @ + 1, !.phase = IF Left(p) = 1 THEN "filled" ELSE @]
<1>1. p.phase \in {"open", "canceling"} /\ Exists(h)
  BY DEF Fill, Exists
<1>2. p \in OrderRec /\ OrderFits(client, p)
  BY <1>1, OrderTypes DEF IInv, Types, OrdersFit, Exists
<1>3. /\ o \in OrderRec /\ o.filled = p.filled + 1 /\ o.quantity = p.quantity /\ o.of = p.of
      /\ o.price = p.price /\ o.ending = p.ending /\ o.trigger = p.trigger
      /\ o.phase = IF p.quantity - p.filled = 1 THEN "filled" ELSE p.phase
  <2> DEFINE more  == p.filled + 1
             phase == IF Left(p) = 1 THEN "filled" ELSE p.phase
  <2>1. more \in Nat /\ phase \in Phases
    BY <1>1, <1>2 DEF OrderRec, Phases
  <2>2. o = [p EXCEPT !.filled = more, !.phase = phase]
    OBVIOUS
  <2>3. phase = IF p.quantity - p.filled = 1 THEN "filled" ELSE p.phase
    BY DEF Left
  <2> HIDE DEF more, phase, p, o
  <2>4. /\ o \in OrderRec /\ o.filled = more /\ o.quantity = p.quantity /\ o.of = p.of
        /\ o.price = p.price /\ o.ending = p.ending /\ o.trigger = p.trigger /\ o.phase = phase
    BY <1>2, <2>1, <2>2 DEF OrderRec
  <2> QED
    BY <2>3, <2>4 DEF more
<1>4. VenueStep(h, o)
  BY DEF Fill
<1> HIDE DEF o, p
<1>5. p.filled \in Nat /\ p.quantity \in Nat /\ p.phase # "filled"
  BY <1>1, <1>2 DEF OrderRec
<1>6. p.filled < p.quantity
  BY <1>2, <1>5 DEF OrderFits
<1>7. Later(p, o) /\ OrderFits(client, o) /\ Streamed(client, o)
  BY <1>1, <1>2, <1>3, <1>5, <1>6 DEF Later, OrderFits, Streamed, Viewable
<1> QED
  BY <1>1, <1>3, <1>4, <1>7, VenueStepKeeps DEF p

LEMMA EndKeeps ==
  ASSUME IInv, NEW h \in Handles, End(h)
  PROVE  IInv'
<1>1. PICK phase \in {"canceled"} \cup IF TellsExpiry(client) THEN {"expired"} ELSE {} :
        VenueStep(h, [orders[h] EXCEPT !.phase = phase, !.ending = TRUE])
  BY DEF End
<1> DEFINE p == orders[h]
           o == [p EXCEPT !.phase = phase, !.ending = TRUE]
<1>2. p.phase \in {"waiting", "open", "canceling"} /\ Exists(h)
  BY DEF End, Live, Exists
<1>3. p \in OrderRec /\ OrderFits(client, p)
  BY <1>2, OrderTypes DEF IInv, Types, OrdersFit, Exists
<1>4. phase \in {"canceled", "expired"} /\ (phase = "expired" => TellsExpiry(client))
  OBVIOUS
<1>5. o \in OrderRec /\ o.filled = p.filled /\ o.quantity = p.quantity /\ o.of = p.of
      /\ o.price = p.price /\ o.ending = TRUE /\ o.trigger = p.trigger /\ o.phase = phase
  BY <1>3, <1>4 DEF OrderRec, Phases
<1> HIDE DEF o, p
<1>6. p.filled \in Nat /\ p.quantity \in Nat /\ p.phase # "filled"
  BY <1>2, <1>3 DEF OrderRec
<1>7. Later(p, o) /\ OrderFits(client, o) /\ Streamed(client, o)
  BY <1>2, <1>3, <1>4, <1>5, <1>6 DEF Later, OrderFits, Streamed, Viewable
<1> QED
  BY <1>1, <1>2, <1>5, <1>7, VenueStepKeeps DEF p, o

LEMMA FireSeparatelyKeeps ==
  ASSUME IInv, NEW h \in Handles, FireSeparately(h)
  PROVE  IInv'
<1> DEFINE p  == orders[h]
           o  == Order("open", p.quantity, FALSE)
           os == [orders EXCEPT ![h].phase = "fired", ![Replacement] = o]
           hs == <<Replacement>>
<1>1. /\ p.phase = "waiting" /\ p.trigger /\ SeparateTriggers(client) /\ Exists(h)
      /\ ~Exists(Replacement) /\ h # Replacement /\ Replacement \in Handles
  BY DEF FireSeparately, Exists, Handles
<1>2. p \in OrderRec /\ OrderFits(client, p)
  BY <1>1, OrderTypes DEF IInv, Types, OrdersFit, Exists
<1>3. /\ o \in OrderRec /\ o.of = 0 /\ o.phase = "open" /\ o.filled = 0 /\ o.quantity = p.quantity
      /\ OrderFits(client, o)
  BY <1>2 DEF OrderRec, Phases, Order, OrderFits
<1>4. LET q == [p EXCEPT !.phase = "fired"]
      IN  q \in OrderRec /\ Later(p, q) /\ OrderFits(client, q)
  BY <1>1, <1>2 DEF OrderRec, Phases, Later, OrderFits
<1>5. /\ os \in Books /\ os[Replacement] = o /\ os[h] = [p EXCEPT !.phase = "fired"]
      /\ \A k \in Handles \ {h, Replacement} : os[k] = orders[k]
  <2>1. orders \in [Handles -> {NoOrder} \cup OrderRec]
    BY DEF IInv, Types, Books
  <2> QED
    BY <1>1, <1>3, <1>4, <2>1 DEF Books
<1>6. Become(os, hs) /\ UNCHANGED <<client, call, calls, known, seen, money>>
  BY DEF FireSeparately
<1>7. hs \in Seq(Handles) /\ DOMAIN hs = {1} /\ hs[1] = Replacement
  BY <1>1
<1> HIDE DEF os, hs, o
<1>8. Leaves(os)
  <2>1. ASSUME NEW k \in Handles, Exists(k)
        PROVE  os[k].phase # "none" /\ Later(orders[k], os[k])
    <3>1. CASE k = h
      BY <1>4, <1>5, <3>1 DEF OrderRec, Phases
    <3>2. CASE k # h
      <4>1. orders[k] \in OrderRec /\ os[k] = orders[k]
        BY <1>1, <1>5, <2>1, <3>2, OrderTypes DEF IInv, Types, Exists
      <4> QED
        BY <2>1, <4>1 DEF Later, OrderRec, Exists
    <3> QED
      BY <3>1, <3>2
  <2>2. \A k \in Handles : os[k].phase # "none" => OrderFits(client, os[k])
    BY <1>3, <1>4, <1>5 DEF IInv, OrdersFit, Exists
  <2> QED
    BY <1>5, <2>1, <2>2 DEF Leaves, Grows
<1>9. os[Replacement].phase # "none" /\ Streamed(client, os[Replacement])
      /\ os[Replacement].of = 0
  BY <1>3, <1>5 DEF Streamed, Viewable
<1>10. Streams(client) /\ Surfaces(client, os[Replacement])
  BY <1>1 DEF Streams, Surfaces, SeparateTriggers
<1> QED
  BY <1>6, <1>7, <1>8, <1>9, <1>10, VenueKeeps
-----------------------------------------------------------------------------
(* The venue answers a request. *)

LEMMA SameLeaves ==
  ASSUME IInv
  PROVE  Leaves(orders)
<1>1. \A h \in Handles : Exists(h) => orders[h] \in OrderRec
  BY OrderTypes DEF IInv, Types, Exists
<1>2. \A h \in Handles : Exists(h) => Later(orders[h], orders[h])
  BY <1>1 DEF Later, OrderRec
<1> QED
  BY <1>2 DEF Leaves, Grows, IInv, Types, OrdersFit, Exists

\* What an answer must have done to the call's orders.
AnswerFits(answer, did, refused, os) ==
  /\ answer \in {"done", "error"} /\ did \subseteq Handles /\ refused \subseteq Handles
  /\ call.op = "amend" =>
       /\ answer = "done" /\ Current.op # "query" =>
            LET h == AmendedHandle(client, call.ids[1]) IN os[h].phase # "none" /\ os[h].price = 2
       /\ call.step = 1 => call.did \cup did = {} \/ call.refused \cup refused = {}
  /\ Plain =>
       LET h == call.ids[call.step]
       IN  /\ did \subseteq {h}
           /\ answer = "done" =>
                os[h].phase # "none" /\ os[h].ending /\ h \in call.did \cup did

LEMMA CallAnswered ==
  ASSUME IInv, call.pc # "over", NEW answer, NEW did, NEW refused, Answered(answer, did, refused),
         AnswerFits(answer, did, refused, orders'), Leaves(orders'), client' = client
  PROVE  call' \in CallRec /\ CallFits' /\ AmendFits' /\ CancelFits'
<1>1. /\ call' \in CallRec
      /\ call'.op = call.op /\ call'.pc = "answered" /\ call'.ids = call.ids /\ call'.step = call.step
      /\ call'.did = call.did \cup did /\ call'.refused = call.refused \cup refused
      /\ call'.answer = answer /\ call'.outcome = call.outcome
  BY DEF Answered, AnswerFits, IInv, Types, CallRec
<1>2. CallFits'
  BY <1>1 DEF CallFits, IInv
<1>3. AmendFits'
  <2> SUFFICES ASSUME call.op = "amend"
               PROVE  AmendFits'
    BY <1>1 DEF AmendFits
  <2>1. Amended => Amended'
    BY <1>1, AmendedLasts DEF IInv
  <2>2. Current' = Current
    BY <1>1 DEF Current
  <2>3. call'.answer = "done" /\ Current.op # "query" => Amended'
    BY <1>1 DEF AnswerFits, Amended, Exists
  <2> QED
    BY <1>1, <2>1, <2>2, <2>3 DEF AmendFits, AnswerFits, IInv
<1>4. CancelFits'
  <2>1. Plain' <=> Plain
    BY <1>1 DEF Plain, TellsInBody
  <2> SUFFICES ASSUME Plain
               PROVE  CancelFits'
    BY <2>1 DEF CancelFits
  <2>2. /\ Len(call.ids) \in {1, 2} /\ DOMAIN call.ids = 1..Len(call.ids)
        /\ \A i \in DOMAIN call.ids : call.ids[i] \in Handles
        /\ call.step \in DOMAIN call.ids
        /\ Len(call.ids) = 2 => call.ids[1] # call.ids[2]
    <3>1. CallOf(client, call.op, call.ids) /\ call.step \in {1, 2}
          /\ call.step <= Len(Requests(client, call.op, call.ids))
      BY TheCallIsFit DEF Plain, Ops, IInv
    <3> QED
      BY <3>1, PlainShape, CallShape DEF IInv
  <2>3. \A i \in DOMAIN call.ids : Ended(i) => Ended(i)'
    BY <1>1, <2>2, EndedLasts
  <2>4. \A i \in DOMAIN call'.ids : i < call'.step => Ended(i)'
    BY <1>1, <2>3 DEF IInv, CancelFits
  <2>5. \A i \in DOMAIN call'.ids : call'.ids[i] \in call'.did => i <= call'.step
    <3> SUFFICES ASSUME NEW i \in DOMAIN call.ids, call.ids[i] \in call.did \cup did
                 PROVE  i <= call.step
      BY <1>1
    <3>1. CASE call.ids[i] \in call.did
      BY <3>1 DEF IInv, CancelFits
    <3>2. CASE call.ids[i] \in did
      <4>1. call.ids[i] = call.ids[call.step]
        BY <3>2 DEF AnswerFits
      <4> QED
        BY <2>2, <4>1
    <3> QED
      BY <3>1, <3>2
  <2>6. call'.answer = "done" => Ended(call.step)'
    BY <1>1 DEF AnswerFits, Ended, Exists
  <2> QED
    BY <1>1, <2>4, <2>5, <2>6 DEF CancelFits
<1> QED
  BY <1>1, <1>2, <1>3, <1>4

\* An answer to which no order changes.
LEMMA AnswerKeeps ==
  ASSUME IInv, call.pc # "over", NEW answer, NEW did, NEW refused, Answered(answer, did, refused),
         AnswerFits(answer, did, refused, orders),
         UNCHANGED <<client, orders, calls, known, seen, frames, money>>
  PROVE  IInv'
<1>1. call' \in CallRec /\ CallFits' /\ AmendFits' /\ CancelFits'
  BY SameLeaves, CallAnswered
<1>2. Types' /\ OrdersFit' /\ ViewsTrue'
  BY <1>1 DEF IInv, Types, OrdersFit, ViewsTrue, Exists
<1>3. ReplacedFit' /\ Told'
  BY DEF IInv, ReplacedFit, Replaced, Told, Exists
<1> QED
  BY <1>1, <1>2, <1>3 DEF IInv

LEMMA AtARequest ==
  ASSUME IInv, call.pc # "over"
  PROVE  /\ call.op \in Ops /\ client \in Clients /\ call.step \in {1, 2}
         /\ CallOf(client, call.op, call.ids)
         /\ RequestsFit(client, call.op, call.ids, Requests(client, call.op, call.ids))
         /\ call.step \in DOMAIN Requests(client, call.op, call.ids)
         /\ Current.ids \subseteq Handles
         /\ Plain => Current = Op("cancel", {call.ids[call.step]}) /\ ~TellsInBody(client, Current)
<1>1. call.op \in Ops /\ client \in Clients
  BY DEF IInv, CallFits, Types
<1>2. /\ CallOf(client, call.op, call.ids) /\ call.step \in {1, 2}
      /\ RequestsFit(client, call.op, call.ids, Requests(client, call.op, call.ids))
      /\ call.step \in DOMAIN Requests(client, call.op, call.ids)
  BY <1>1, TheCallIsFit DEF IInv, CallFits
<1>3. Current.ids \subseteq Handles
  BY <1>2 DEF RequestsFit, Current
<1>4. ASSUME Plain
      PROVE  Current = Op("cancel", {call.ids[call.step]}) /\ ~TellsInBody(client, Current)
  <2>1. call.step \in DOMAIN call.ids
    BY <1>2, <1>4, PlainShape DEF IInv, RequestsFit
  <2> QED
    BY <1>2, <1>4, <2>1, PlainShape DEF IInv, Current, Plain
<1> QED
  BY <1>1, <1>2, <1>3, <1>4

LEMMA VenueTellsAccountKeeps ==
  ASSUME IInv, VenueTellsAccount
  PROVE  IInv'
<1>1. call.pc # "over" /\ Answered("done", {}, {}) /\ Current.op = "account"
  BY DEF VenueTellsAccount
<1>2. ~Plain /\ call.op # "amend"
  BY <1>1, AtARequest DEF RequestsFit, Current, Op
<1>3. AnswerFits("done", {}, {}, orders)
  BY <1>2 DEF AnswerFits
<1> QED
  BY <1>1, <1>3, AnswerKeeps DEF VenueTellsAccount

LEMMA VenueRefusesKeeps ==
  ASSUME IInv, VenueRefuses
  PROVE  IInv'
<1>1. call.pc = "send" /\ Answered("error", {}, Current.ids)
  BY DEF VenueRefuses
<1>2. AnswerFits("error", {}, Current.ids, orders)
  BY <1>1, AtARequest DEF AnswerFits, IInv, AmendFits
<1> QED
  BY <1>1, <1>2, AnswerKeeps DEF VenueRefuses

LEMMA RequestLostKeeps ==
  ASSUME IInv, RequestLost
  PROVE  IInv'
<1>1. call.pc = "send" /\ Answered("error", {}, {})
  BY DEF RequestLost
<1>2. AnswerFits("error", {}, {}, orders)
  BY <1>1 DEF AnswerFits, IInv, AmendFits
<1> QED
  BY <1>1, <1>2, AnswerKeeps DEF RequestLost

LEMMA AnswerLostKeeps ==
  ASSUME IInv, AnswerLost
  PROVE  IInv'
<1>1. call.pc = "answered" /\ Answered("error", {}, {})
  BY DEF AnswerLost
<1>2. AnswerFits("error", {}, {}, orders)
  BY <1>1 DEF AnswerFits, IInv, AmendFits
<1> QED
  BY <1>1, <1>2, AnswerKeeps DEF AnswerLost

LEMMA ReachedIsViewable ==
  ASSUME IInv, NEW h \in Handles, Reaches(client, orders[h])
  PROVE  /\ Exists(h) /\ orders[h] \in OrderRec /\ Viewable(client, orders[h])
         /\ Query(client, orders[h]) \in Views
         /\ SaidTrue(client, orders, h, Query(client, orders[h]))
<1>1. Exists(h) /\ orders[h] \in OrderRec /\ OrderFits(client, orders[h])
  BY OrderTypes DEF Reaches, Exists, IInv, Types, OrdersFit
<1>2. Viewable(client, orders[h])
  BY <1>1 DEF Viewable, OrderFits, Reaches
<1>3. Truly(client, orders[h], Query(client, orders[h]))
  BY <1>2, QueryIsTrue DEF IInv, Types
<1> QED
  BY <1>1, <1>2, <1>3 DEF Truly, SaidTrue, HtxSwaps, Exists

\* An answer that shows the client some orders.
LEMMA ShowingKeeps ==
  ASSUME IInv, call.pc # "over", Answered("done", {}, {}), Current.op \in {"query", "list"},
         NEW showing \in SUBSET Handles, \A h \in showing : Reaches(client, orders[h]),
         seen' = [h \in Handles |-> IF h \in showing THEN Query(client, orders[h]) ELSE seen[h]],
         known \subseteq known', known' \subseteq Handles,
         UNCHANGED <<client, orders, calls, frames>>
  PROVE  IInv'
<1>1. ~Plain /\ (call.op = "amend" => Current.op = "query")
  BY AtARequest DEF RequestsFit, Current, Op
<1>2. AnswerFits("done", {}, {}, orders)
  BY <1>1 DEF AnswerFits, IInv, AmendFits
<1>3. call' \in CallRec /\ CallFits' /\ AmendFits' /\ CancelFits'
  BY <1>2, SameLeaves, CallAnswered
<1>4. \A h \in Handles : seen'[h] \in {NoView} \cup Views /\ SaidTrue(client, orders, h, seen'[h])
  <2> TAKE h \in Handles
  <2>1. CASE h \in showing
    BY <2>1, ReachedIsViewable
  <2>2. CASE h \notin showing
    BY <2>2 DEF IInv, Types, ViewsTrue
  <2> QED
    BY <2>1, <2>2
<1>5. Types'
  <2>1. seen' \in [Handles -> {NoView} \cup Views]
    BY <1>4
  <2> QED
    BY <1>3, <2>1 DEF IInv, Types
<1>6. ViewsTrue'
  BY <1>4 DEF IInv, ViewsTrue
<1>7. OrdersFit' /\ ReplacedFit' /\ Told'
  BY DEF IInv, OrdersFit, ReplacedFit, Replaced, Told, Exists
<1> QED
  BY <1>3, <1>5, <1>6, <1>7 DEF IInv

LEMMA VenueShowsKeeps ==
  ASSUME IInv, NEW h \in Handles, VenueShows(h)
  PROVE  IInv'
<1>1. /\ call.pc # "over" /\ Current.op \in {"query", "list"} /\ Answered("done", {}, {})
      /\ Reaches(client, orders[h]) /\ UNCHANGED <<client, orders, calls, known, frames>>
      /\ seen' = [seen EXCEPT ![h] = Query(client, orders[h])]
  BY DEF VenueShows, Op
<1>2. seen \in [Handles -> {NoView} \cup Views] /\ known \subseteq Handles
  BY DEF IInv, Types
<1>3. seen' = [k \in Handles |-> IF k \in {h} THEN Query(client, orders[k]) ELSE seen[k]]
  BY <1>1, <1>2
<1> QED
  BY <1>1, <1>2, <1>3, ShowingKeeps

LEMMA VenueListsKeeps ==
  ASSUME IInv, VenueLists
  PROVE  IInv'
<1> DEFINE listed == {h \in Handles : Listed(client, orders[h])}
<1>1. /\ call.pc # "over" /\ Current.op \in {"query", "list"} /\ Answered("done", {}, {})
      /\ UNCHANGED <<client, orders, calls, frames>>
      /\ seen' = [h \in Handles |-> IF h \in listed THEN Query(client, orders[h]) ELSE seen[h]]
      /\ known' = known \cup listed
  BY DEF VenueLists
<1>2. listed \in SUBSET Handles /\ \A h \in listed : Reaches(client, orders[h])
  BY DEF Listed
<1>3. known \subseteq known' /\ known' \subseteq Handles
  BY <1>1, <1>2 DEF IInv, Types
<1> HIDE DEF listed
<1> QED
  BY <1>1, <1>2, <1>3, ShowingKeeps

LEMMA BeginKeeps ==
  ASSUME IInv, NEW op \in Ops, NEW ids, CallOf(client, op, ids), Begin(op, ids)
  PROVE  IInv'
<1>1. /\ call'.op = op /\ call'.pc = "send" /\ call'.ids = ids /\ call'.step = 1
      /\ call'.did = {} /\ call'.refused = {} /\ call'.answer = "none" /\ call'.outcome = "none"
      /\ call' \in CallRec /\ UNCHANGED <<client, orders, known, seen, frames>>
  BY DEF Begin, NoCall, CallRec, CallOf
<1>2. RequestsFit(client, op, ids, Requests(client, op, ids))
  BY RequestsAreFit DEF IInv, Types
<1>3. CallFits'
  BY <1>1, <1>2 DEF CallFits, CallOf, RequestsFit
<1>4. AmendFits'
  BY <1>1 DEF AmendFits
<1>5. CancelFits'
  <2>1. DOMAIN ids = 1..Len(ids) /\ Len(ids) \in Nat
    BY CallShape
  <2> QED
    BY <1>1, <2>1 DEF CancelFits
<1>6. Types' /\ OrdersFit' /\ ViewsTrue'
  BY <1>1 DEF IInv, Types, OrdersFit, ViewsTrue, Exists
<1>7. ReplacedFit' /\ Told'
  BY <1>1 DEF IInv, ReplacedFit, Replaced, Told, Exists
<1> QED
  BY <1>3, <1>4, <1>5, <1>6, <1>7 DEF IInv

LEMMA CallsKeep ==
  ASSUME IInv, NEW h \in Handles
  PROVE  /\ CancelOrder(h) => IInv'
         /\ CancelOrderWs(h) => IInv'
         /\ Amend(h) => IInv'
         /\ QueryOrder(h) => IInv'
         /\ \A h2 \in Handles : CancelOrders(h, h2) => IInv'
         /\ \A symbol \in BOOLEAN : AllOrders(symbol) => IInv'
<1>1. <<h>> \in Seq(Handles) /\ Len(<<h>>) = 1
  OBVIOUS
<1>2. CancelOrder(h) => IInv'
  BY <1>1, BeginKeeps DEF CancelOrder, CallOf, Ops
<1>3. CancelOrderWs(h) => IInv'
  BY <1>1, BeginKeeps DEF CancelOrderWs, CallOf, Ops
<1>4. Amend(h) => IInv'
  BY <1>1, BeginKeeps DEF Amend, CallOf, Ops
<1>5. QueryOrder(h) => IInv'
  BY <1>1, BeginKeeps DEF QueryOrder, CallOf, Ops
<1>6. ASSUME NEW h2 \in Handles, CancelOrders(h, h2)
      PROVE  IInv'
  <2> DEFINE ids == <<h, h2>>
  <2>1. ids \in Seq(Handles) /\ Len(ids) = 2 /\ ids[1] # ids[2] /\ HasBatch(client)
        /\ Begin("cancel_batch", ids)
    BY <1>6 DEF CancelOrders
  <2> HIDE DEF ids
  <2> QED
    BY <2>1, BeginKeeps DEF CallOf, Ops
<1>7. ASSUME NEW symbol \in BOOLEAN, AllOrders(symbol)
      PROVE  IInv'
  <2>1. <<>> \in Seq(Handles) /\ Begin("open_orders", <<>>)
    BY <1>7 DEF AllOrders
  <2> QED
    BY <2>1, BeginKeeps DEF CallOf, Ops
<1> QED
  BY <1>2, <1>3, <1>4, <1>5, <1>6, <1>7

LEMMA SetToSeqIsOfIts ==
  ASSUME NEW S \in SUBSET Handles
  PROVE  /\ SetToSeq(S) \in Seq(Handles)
         /\ \A i \in DOMAIN SetToSeq(S) : SetToSeq(S)[i] \in S
<1>1. IsFiniteSet(Handles)
  <2>1. IsFiniteSet({1} \cup {2})
    BY ZenonT(40), FS_Singleton, FS_AddElement
  <2>2. IsFiniteSet(({1} \cup {2}) \cup {3})
    BY <2>1, FS_AddElement
  <2>3. Handles = ({1} \cup {2}) \cup {3}
    BY DEF Handles, Placed, Replacement
  <2> QED
    BY <2>2, <2>3, Zenon
<1>2. IsFiniteSet(S)
  BY <1>1, FS_Subset
<1>3. PICK n \in Nat : ExistsBijection(1..n, S)
  BY <1>2, FS_NatBijection
<1>4. Cardinality(S) = n
  BY <1>3, FS_CountingElements
<1>5. \E f \in [1..Cardinality(S) -> S] : IsInjective(f)
  BY <1>3, <1>4 DEF ExistsBijection, Bijection, Injection, IsInjective
<1>6. SetToSeq(S) \in [1..Cardinality(S) -> S]
  BY <1>5 DEF SetToSeq
<1>7. SetToSeq(S) \in [1..n -> Handles]
  BY <1>4, <1>6
<1> QED
  BY <1>6, <1>7

\* An answer that changes orders, none of them an amended one's replacement.
LEMMA ChangeKeeps ==
  ASSUME IInv, call.pc # "over", NEW answer, NEW did, NEW refused, Answered(answer, did, refused),
         NEW os, NEW hs \in Seq(Handles), Become(os, hs), Leaves(os),
         AnswerFits(answer, did, refused, os),
         UNCHANGED <<client, calls, known, seen, money>>,
         \A i \in DOMAIN hs : os[hs[i]].phase # "none" /\ Streamed(client, os[hs[i]]),
         os[Replacement].phase # "none" /\ ~Exists(Replacement) =>
           Streams(client) /\ Surfaces(client, os[Replacement])
           /\ \E i \in DOMAIN hs : hs[i] = Replacement
  PROVE  /\ Types' /\ OrdersFit' /\ ViewsTrue' /\ Told' /\ CallFits' /\ AmendFits' /\ CancelFits'
         /\ Exists(Replacement) \/ os[Replacement].phase = "none" \/ os[Replacement].of = 0 => ReplacedFit'
<1>1. orders' = os /\ Leaves(orders') /\ os \in Books
  BY DEF Become, Leaves
<1>2. frames' \in Seq(FrameRec) /\ ViewsTrue' /\ Told'
  BY BecomeTells DEF IInv
<1>3. call' \in CallRec /\ CallFits' /\ AmendFits' /\ CancelFits'
  BY <1>1, CallAnswered
<1>4. Types'
  BY <1>1, <1>2, <1>3 DEF IInv, Types
<1>5. OrdersFit'
  BY <1>1, OrdersFitNext DEF IInv
<1>6. Exists(Replacement) \/ os[Replacement].phase = "none" \/ os[Replacement].of = 0 => ReplacedFit'
  BY <1>1, ReplacedLasts DEF IInv
<1> QED
  BY <1>2, <1>3, <1>4, <1>5, <1>6

LEMMA VenueCancelsKeeps ==
  ASSUME IInv, NEW gone \in SUBSET Handles, VenueCancels(gone)
  PROVE  IInv'
<1> DEFINE to(phase) ==
             [h \in Handles |->
                IF h \in gone THEN [orders[h] EXCEPT !.phase = phase, !.ending = TRUE] ELSE orders[h]]
           answer == IF gone = Current.ids \/ TellsInBody(client, Current) THEN "done" ELSE "error"
           hs == SetToSeq(gone)
<1>1. /\ call.pc = "send" /\ Current.op \in {"cancel", "cancel_all"}
      /\ gone \subseteq Current.ids /\ \A h \in gone : Workable(h)
      /\ Answered(answer, gone, Current.ids \ gone)
      /\ UNCHANGED <<client, calls, known, seen, money>>
  BY DEF VenueCancels
<1>2. PICK phase \in {"canceled"} \cup IF TellsCanceling(client) THEN {"canceling"} ELSE {} :
        Become(to(phase), hs)
  BY DEF VenueCancels
<1>3. phase \in {"canceled", "canceling"} /\ (phase = "canceling" => TellsCanceling(client))
  OBVIOUS
<1> DEFINE os == to(phase)
<1>4. hs \in Seq(Handles) /\ \A i \in DOMAIN hs : hs[i] \in gone
  BY SetToSeqIsOfIts
<1>5. ASSUME NEW h \in gone
      PROVE  /\ Exists(h) /\ os[h] \in OrderRec /\ os[h].phase # "none" /\ os[h].ending
             /\ Later(orders[h], os[h]) /\ OrderFits(client, os[h]) /\ Streamed(client, os[h])
  <2> DEFINE p == orders[h]
             o == [p EXCEPT !.phase = phase, !.ending = TRUE]
  <2>0. os[h] = o
    BY <1>5
  <2>1. p.phase \in {"waiting", "open"} /\ Exists(h)
    BY <1>1, <1>5 DEF Workable, Exists
  <2>2. p \in OrderRec /\ OrderFits(client, p)
    BY <2>1, OrderTypes DEF IInv, Types, OrdersFit, Exists
  <2>3. o \in OrderRec /\ o.filled = p.filled /\ o.quantity = p.quantity /\ o.of = p.of
        /\ o.price = p.price /\ o.ending = TRUE /\ o.trigger = p.trigger /\ o.phase = phase
    BY <1>3, <2>2 DEF OrderRec, Phases
  <2> HIDE DEF o, p
  <2>4. p.filled \in Nat /\ p.quantity \in Nat /\ p.phase # "filled"
    BY <2>1, <2>2 DEF OrderRec
  <2>5. Later(p, o)
    BY <2>1, <2>3, <2>4 DEF Later
  <2>6. OrderFits(client, o)
    BY <1>3, <2>2, <2>3, <2>4 DEF OrderFits
  <2>7. Streamed(client, o)
    BY <1>3, <2>3, <2>6 DEF Streamed, Viewable
  <2> QED
    BY <1>3, <2>0, <2>1, <2>3, <2>5, <2>6, <2>7 DEF p
<1>6. \A h \in Handles \ gone : os[h] = orders[h]
  OBVIOUS
<1>7. DOMAIN os = Handles /\ os = [h \in Handles |-> os[h]]
  OBVIOUS
<1> HIDE DEF os, hs
<1>8. Leaves(os)
  <2>1. os \in Books
    BY <1>5, <1>6, <1>7 DEF IInv, Types, Books
  <2>2. \A h \in Handles : Exists(h) => Later(orders[h], orders[h])
    BY SameLeaves DEF Leaves, Grows
  <2>3. Grows(os)
    BY <1>5, <1>6, <2>2 DEF Grows, Exists
  <2>4. \A h \in Handles : os[h].phase # "none" => OrderFits(client, os[h])
    BY <1>5, <1>6 DEF IInv, OrdersFit, Exists
  <2> QED
    BY <2>1, <2>3, <2>4 DEF Leaves
<1>9. AnswerFits(answer, gone, Current.ids \ gone, os)
  <2>1. call.op # "amend"
    BY <1>1, AtARequest DEF RequestsFit, Current
  <2>2. ASSUME Plain
        PROVE  LET h == call.ids[call.step]
               IN  /\ gone \subseteq {h}
                   /\ answer = "done" => os[h].phase # "none" /\ os[h].ending /\ h \in call.did \cup gone
    <3>1. Current.ids = {call.ids[call.step]} /\ ~TellsInBody(client, Current)
      BY <1>1, <2>2, AtARequest DEF Op
    <3> QED
      BY <1>1, <1>5, <3>1
  <2>3. Current.ids \subseteq Handles
    BY <1>1, AtARequest
  <2> QED
    BY <2>1, <2>2, <2>3 DEF AnswerFits
<1>10. \A i \in DOMAIN hs : os[hs[i]].phase # "none" /\ Streamed(client, os[hs[i]])
  BY <1>4, <1>5
<1>11. Exists(Replacement) \/ os[Replacement].phase = "none"
  BY <1>5, <1>6 DEF Exists, Handles
<1>12. Become(os, hs)
  BY <1>2 DEF os, hs
<1> HIDE DEF answer
<1> QED
  BY <1>1, <1>4, <1>8, <1>9, <1>10, <1>11, <1>12, ChangeKeeps DEF IInv

LEMMA VenueAmendsKeeps ==
  ASSUME IInv, NEW h \in Handles, VenueAmends(h)
  PROVE  IInv'
<1> DEFINE p == orders[h]
           o == [p EXCEPT !.price = 2]
           os == [orders EXCEPT ![h] = o]
           hs == <<h>>
<1>1. /\ call.pc = "send" /\ Current = Op("amend", {h}) /\ Workable(h)
      /\ Become(os, hs) /\ Answered("done", {h}, {})
      /\ UNCHANGED <<client, calls, known, seen, money>>
  BY DEF VenueAmends
<1>2. p.phase \in {"waiting", "open"} /\ Exists(h) /\ Reaches(client, p)
  BY <1>1 DEF Workable, Exists
<1>3. p \in OrderRec /\ OrderFits(client, p)
  BY <1>2, OrderTypes DEF IInv, Types, OrdersFit, Exists
<1>4. o \in OrderRec /\ o.filled = p.filled /\ o.quantity = p.quantity /\ o.of = p.of
      /\ o.price = 2 /\ o.ending = p.ending /\ o.trigger = p.trigger /\ o.phase = p.phase
  BY <1>3 DEF OrderRec
<1>5. /\ call.op = "amend" /\ HasAmend(client) /\ client \in Clients
      /\ h = call.ids[1] /\ AmendedHandle(client, call.ids[1]) = h
  <2>1. Current.op = "amend" /\ Current.ids = {h}
    BY <1>1 DEF Op
  <2> QED
    BY <1>1, <2>1, AtARequest DEF RequestsFit, Current, CallOf, AmendedHandle
<1>6. os[h] = o /\ (Replacement # h => os[Replacement] = orders[Replacement])
  BY DEF IInv, Types, Books, Handles
<1> HIDE DEF os, hs, o, p
<1>7. Later(p, o) /\ OrderFits(client, o) /\ Streamed(client, o)
  <2>1. p.filled \in Nat
    BY <1>3 DEF OrderRec
  <2> QED
    BY <1>2, <1>3, <1>4, <1>5, <2>1 DEF Later, OrderFits, Streamed, Viewable, Reaches
<1>8. Leaves(os)
  BY <1>2, <1>4, <1>7, OneChangeLeaves DEF os, p
<1>9. AnswerFits("done", {h}, {}, os)
  <2>1. ~Plain
    BY <1>5 DEF Plain
  <2>2. call.step = 1 => call.refused = {}
    BY <1>1, <1>5 DEF IInv, AmendFits
  <2>3. os[h].phase # "none" /\ os[h].price = 2
    BY <1>2, <1>4, <1>6
  <2> QED
    BY <1>5, <2>1, <2>2, <2>3 DEF AnswerFits
<1>10. hs \in Seq(Handles) /\ \A i \in DOMAIN hs : hs[i] = h
  BY DEF hs
<1>11. \A i \in DOMAIN hs : os[hs[i]].phase # "none" /\ Streamed(client, os[hs[i]])
  BY <1>2, <1>4, <1>6, <1>7, <1>10
<1>12. Exists(Replacement) \/ os[Replacement].phase = "none"
  BY <1>2, <1>6 DEF Exists
<1> QED
  BY <1>1, <1>8, <1>9, <1>10, <1>11, <1>12, ChangeKeeps DEF IInv

\* Another order takes the place of one that is amended.
LEMMA ReplacesKeeps ==
  ASSUME IInv, NEW h \in Handles, NEW o \in OrderRec, NEW placed \in BOOLEAN, Replaces(h, o, placed),
         call.pc = "send", Current.op \in {"edit", "replace"}, Current.ids = {h},
         o.of = h, o.price = 2, o.filled = 0, OrderFits(client, o), o.phase \in {"waiting", "open"},
         IF Current.op = "replace" THEN o.quantity = orders[h].quantity
         ELSE o.quantity = orders[h].quantity - orders[h].filled
  PROVE  IInv'
<1> DEFINE p == orders[h]
           q == [p EXCEPT !.phase = "canceled", !.ending = TRUE]
           os == [orders EXCEPT ![h].phase = "canceled", ![h].ending = TRUE,
                                ![Replacement] = IF placed THEN o ELSE NoOrder]
           hs == IF placed THEN <<h, Replacement>> ELSE <<h>>
           answer == IF placed THEN "done" ELSE "error"
<1>1. /\ Workable(h) /\ ~Exists(Replacement) /\ Become(os, hs) /\ Answered(answer, {h}, {})
      /\ UNCHANGED <<client, calls, known, seen, money>>
  BY DEF Replaces
<1>2. /\ p.phase \in {"waiting", "open"} /\ Exists(h) /\ h # Replacement
      /\ Replacement \in Handles /\ h \in Placed
  BY <1>1 DEF Workable, Exists, Handles
<1>3. p \in OrderRec /\ OrderFits(client, p) /\ orders \in [Handles -> {NoOrder} \cup OrderRec]
  BY <1>2, OrderTypes DEF IInv, Types, OrdersFit, Exists, Books
<1>4. /\ call.op = "amend" /\ HasAmend(client) /\ client \in Clients /\ h = call.ids[1]
      /\ client.venue \in {"binance", "kraken"} /\ ~Swap(client)
      /\ client.venue = "binance" <=> Current.op = "replace"
  BY AtARequest DEF RequestsFit, Current, CallOf
<1>5. q \in OrderRec /\ q.filled = p.filled /\ q.quantity = p.quantity /\ q.of = p.of
      /\ q.price = p.price /\ q.ending = TRUE /\ q.trigger = p.trigger /\ q.phase = "canceled"
  BY <1>3 DEF OrderRec, Phases
<1>6. /\ os \in Books /\ os[h] = q /\ os[Replacement] = IF placed THEN o ELSE NoOrder
      /\ \A k \in Handles \ {h, Replacement} : os[k] = orders[k]
  <2> DEFINE third == IF placed THEN o ELSE NoOrder
  <2>1. os = [orders EXCEPT ![h] = q, ![Replacement] = third]
    BY <1>2, <1>3
  <2>2. third \in {NoOrder} \cup OrderRec
    OBVIOUS
  <2> HIDE DEF q, third, os
  <2>3. /\ os \in [Handles -> {NoOrder} \cup OrderRec] /\ os[h] = q /\ os[Replacement] = third
        /\ \A k \in Handles \ {h, Replacement} : os[k] = orders[k]
    BY <1>2, <1>3, <1>5, <2>1, <2>2
  <2> QED
    BY <2>3 DEF Books, third
<1>7. /\ hs \in Seq(Handles) /\ \A i \in DOMAIN hs : hs[i] = h \/ (hs[i] = Replacement /\ placed)
      /\ placed => \E i \in DOMAIN hs : hs[i] = Replacement
  <2>1. CASE placed
    <3>1. hs = <<h, Replacement>>
      BY <2>1
    <3> HIDE DEF hs
    <3>2. hs \in Seq(Handles) /\ DOMAIN hs = {1, 2} /\ hs[1] = h /\ hs[2] = Replacement
      BY <1>2, <3>1
    <3> QED
      BY <2>1, <3>2
  <2>2. CASE ~placed
    BY <2>2
  <2> QED
    BY <2>1, <2>2
<1> HIDE DEF os, hs, p, q
<1>8. p.filled \in Nat /\ p.quantity \in Nat /\ p.filled < p.quantity /\ o.quantity \in Nat
  BY <1>2, <1>3 DEF OrderRec, OrderFits
<1>9. Later(p, q) /\ OrderFits(client, q) /\ Streamed(client, q)
  <2>1. Later(p, q)
    BY <1>2, <1>5, <1>8 DEF Later
  <2>2. OrderFits(client, q)
    BY <1>3, <1>5, <1>8 DEF OrderFits
  <2> QED
    BY <1>5, <2>1, <2>2 DEF Streamed, Viewable
<1>10. Streamed(client, o)
  BY <1>4 DEF Streamed, Viewable, SeparateTriggers
<1>11. Leaves(os)
  <2>1. ASSUME NEW k \in Handles, Exists(k)
        PROVE  os[k].phase # "none" /\ Later(orders[k], os[k])
    <3>1. CASE k = h
      BY <1>5, <1>6, <1>9, <3>1 DEF p
    <3>2. CASE k # h
      <4>1. os[k] = orders[k] /\ Later(orders[k], orders[k])
        BY <1>1, <1>6, <2>1, <3>2, SameLeaves DEF Leaves, Grows
      <4> QED
        BY <2>1, <4>1 DEF Exists
    <3> QED
      BY <3>1, <3>2
  <2>2. ASSUME NEW k \in Handles, os[k].phase # "none"
        PROVE  OrderFits(client, os[k])
    <3>1. CASE k = h
      BY <1>6, <1>9, <3>1
    <3>2. CASE k = Replacement
      BY <1>6, <2>2, <3>2 DEF NoOrder
    <3>3. CASE k \notin {h, Replacement}
      BY <1>6, <2>2, <3>3 DEF IInv, OrdersFit, Exists
    <3> QED
      BY <3>1, <3>2, <3>3
  <2> QED
    BY <1>6, <2>1, <2>2 DEF Leaves, Grows
<1>12. AnswerFits(answer, {h}, {}, os)
  <2>1. ~Plain
    BY <1>4 DEF Plain
  <2>2. call.step = 1 => call.refused = {}
    BY <1>4 DEF IInv, AmendFits
  <2>3. AmendedHandle(client, call.ids[1]) = Replacement
    BY <1>4 DEF AmendedHandle
  <2>4. answer = "done" => os[Replacement].phase # "none" /\ os[Replacement].price = 2
    BY <1>6
  <2> QED
    BY <2>1, <2>2, <2>3, <2>4 DEF AnswerFits
<1>13. \A i \in DOMAIN hs : os[hs[i]].phase # "none" /\ Streamed(client, os[hs[i]])
  BY <1>5, <1>6, <1>7, <1>9, <1>10
<1>14. os[Replacement].phase # "none" => Streams(client) /\ Surfaces(client, os[Replacement]) /\ placed
  <2>1. CASE placed
    <3>1. Streams(client) /\ o.phase # "filled" /\ At(o) # "partial"
      BY <1>4 DEF Streams, At
    <3> QED
      BY <1>6, <2>1, <3>1 DEF Surfaces
  <2>2. CASE ~placed
    BY <1>6, <2>2 DEF NoOrder
  <2> QED
    BY <2>1, <2>2
<1> HIDE DEF answer
<1>15. Types' /\ OrdersFit' /\ ViewsTrue' /\ Told' /\ CallFits' /\ AmendFits' /\ CancelFits'
  BY <1>1, <1>7, <1>11, <1>12, <1>13, <1>14, ChangeKeeps
<1>16. ReplacedFit'
  <2>1. orders' = os /\ client' = client
    BY <1>1 DEF Become
  <2> SUFFICES ASSUME NEW k \in Placed, os[Replacement].phase # "none", os[Replacement].of = k
               PROVE  /\ os[k].phase = "canceled"
                      /\ LET most == os[k].filled + os[Replacement].quantity
                         IN  IF client.venue = "binance" THEN most < 2 * os[k].quantity
                             ELSE most <= os[k].quantity
    BY <1>4, <2>1 DEF ReplacedFit, Replaced, Exists
  <2>2. os[Replacement] = o /\ k = h
    BY <1>6, <1>14
  <2>3. os[k] = q
    BY <1>6, <2>2
  <2>4. IF client.venue = "binance" THEN o.quantity = p.quantity ELSE o.quantity = p.quantity - p.filled
    BY <1>4 DEF p
  <2> QED
    BY <1>5, <1>8, <2>2, <2>3, <2>4
<1> QED
  BY <1>15, <1>16 DEF IInv

LEMMA VenueEditsKeeps ==
  ASSUME IInv, NEW h \in Handles, VenueEdits(h)
  PROVE  IInv'
<1> DEFINE p == orders[h]
           o == [p EXCEPT !.price = 2, !.quantity = Left(p), !.filled = 0, !.of = h]
<1>1. call.pc = "send" /\ Current.op = "edit" /\ Current.ids = {h} /\ Replaces(h, o, TRUE)
  BY DEF VenueEdits, Op
<1>2. p.phase \in {"waiting", "open"} /\ Exists(h) /\ h \in {1, 2}
  BY <1>1 DEF Replaces, Workable, Exists, Handles, Placed
<1>3. p \in OrderRec /\ OrderFits(client, p)
  BY <1>2, OrderTypes DEF IInv, Types, OrdersFit, Exists
<1>4. Left(p) = p.quantity - p.filled /\ Left(p) \in Nat /\ Left(p) > 0
  BY <1>2, <1>3 DEF Left, OrderRec, OrderFits
<1>5. /\ o \in OrderRec /\ o.of = h /\ o.price = 2 /\ o.filled = 0 /\ o.quantity = Left(p)
      /\ o.phase = p.phase /\ o.trigger = p.trigger /\ o.ending = p.ending
  <2> HIDE DEF p
  <2> QED
    BY <1>2, <1>3, <1>4 DEF OrderRec
<1> HIDE DEF o, p
<1>6. OrderFits(client, o)
  BY <1>2, <1>3, <1>4, <1>5 DEF OrderFits
<1> QED
  BY <1>1, <1>2, <1>4, <1>5, <1>6, ReplacesKeeps DEF p

LEMMA VenueReplacesKeeps ==
  ASSUME IInv, NEW h \in Handles, NEW placed \in BOOLEAN, VenueReplaces(h, placed)
  PROVE  IInv'
<1> DEFINE p == orders[h]
           o == [Order("open", p.quantity, FALSE) EXCEPT !.price = 2, !.of = h]
<1>1. call.pc = "send" /\ Current.op = "replace" /\ Current.ids = {h} /\ Replaces(h, o, placed)
  BY DEF VenueReplaces, Op
<1>2. p.phase \in {"waiting", "open"} /\ Exists(h) /\ h \in {1, 2}
  BY <1>1 DEF Replaces, Workable, Exists, Handles, Placed
<1>3. p \in OrderRec /\ OrderFits(client, p)
  BY <1>2, OrderTypes DEF IInv, Types, OrdersFit, Exists
<1>4. p.quantity \in Nat /\ p.quantity > 0
  BY <1>3 DEF OrderRec, OrderFits
<1>5. /\ o \in OrderRec /\ o.of = h /\ o.price = 2 /\ o.filled = 0 /\ o.quantity = p.quantity
      /\ o.phase = "open" /\ o.trigger = FALSE /\ o.ending = FALSE
  <2> HIDE DEF p
  <2> QED
    BY <1>2, <1>4 DEF OrderRec, Order, Phases
<1> HIDE DEF o, p
<1>6. OrderFits(client, o)
  BY <1>4, <1>5 DEF OrderFits
<1> QED
  BY <1>1, <1>5, <1>6, ReplacesKeeps DEF p
-----------------------------------------------------------------------------
(* The client reads. *)

LEMMA SameOrdersKeep ==
  ASSUME IInv, client' = client, orders' = orders
  PROVE  OrdersFit' /\ ReplacedFit'
BY DEF IInv, OrdersFit, ReplacedFit, Replaced, Exists

\* The call goes on to its next request.
LEMMA NextRequestKeeps ==
  ASSUME IInv, call.pc = "answered", call.answer = "done",
         call.step # Len(Requests(client, call.op, call.ids)),
         call' = [call EXCEPT !.pc = "send", !.step = @ + 1, !.answer = "none"],
         UNCHANGED <<client, orders, known, seen, frames, money>>
  PROVE  IInv'
<1> DEFINE reqs == Requests(client, call.op, call.ids)
<1>1. /\ call'.op = call.op /\ call'.pc = "send" /\ call'.ids = call.ids /\ call'.step = call.step + 1
      /\ call'.did = call.did /\ call'.refused = call.refused /\ call'.answer = "none"
      /\ call'.outcome = call.outcome /\ call' \in CallRec
  <2> DEFINE next == call.step + 1
  <2>1. call \in CallRec /\ next \in Nat
    BY DEF IInv, Types, CallRec
  <2>2. call' = [call EXCEPT !.pc = "send", !.step = next, !.answer = "none"]
    OBVIOUS
  <2> HIDE DEF next
  <2>3. /\ call'.op = call.op /\ call'.pc = "send" /\ call'.ids = call.ids /\ call'.step = next
        /\ call'.did = call.did /\ call'.refused = call.refused /\ call'.answer = "none"
        /\ call'.outcome = call.outcome /\ call' \in CallRec
    BY <2>1, <2>2 DEF CallRec
  <2> QED
    BY <2>3 DEF next
<1>2. RequestsFit(client, call.op, call.ids, reqs) /\ call.step \in {1, 2} /\ call.step \in DOMAIN reqs
  BY AtARequest
<1>3. call.step # Len(reqs)
  OBVIOUS
<1>4. Requests(client', call'.op, call'.ids) = reqs
  BY <1>1
<1> HIDE DEF reqs
<1>5. call.step = 1 /\ Len(reqs) = 2 /\ DOMAIN reqs = 1..2
  BY <1>2, <1>3 DEF RequestsFit
<1>6. CallFits'
  BY <1>1, <1>5, <1>4 DEF IInv, CallFits
<1>7. AmendFits'
  <2> SUFFICES ASSUME call.op = "amend", client.venue # "binance"
               PROVE  Amended'
    BY <1>1, <1>5 DEF AmendFits
  <2>1. Current.op # "query"
    BY <1>2, <1>5 DEF RequestsFit, Current, reqs
  <2>2. Amended
    BY <2>1 DEF IInv, AmendFits
  <2> QED
    BY <1>1, <2>2 DEF Amended, Exists
<1>8. CancelFits'
  <2> SUFFICES ASSUME Plain
               PROVE  CancelFits'
    BY <1>1 DEF CancelFits, Plain, TellsInBody
  <2>1. Len(call.ids) = 2 /\ DOMAIN call.ids = 1..2
    BY <1>5, PlainShape DEF IInv, reqs
  <2>2. Ended(1) /\ ~(call.ids[2] \in call.did)
    BY <1>5, <2>1 DEF IInv, CancelFits
  <2>3. Ended(1)'
    BY <1>1, <2>2 DEF Ended, Exists
  <2> QED
    BY <1>1, <1>5, <2>1, <2>2, <2>3 DEF CancelFits
<1>9. Types' /\ ViewsTrue' /\ Told'
  BY <1>1 DEF IInv, Types, ViewsTrue, Told, Exists
<1> QED
  BY <1>6, <1>7, <1>8, <1>9, SameOrdersKeep DEF IInv

\* The call returns.
LEMMA ReturnKeeps ==
  ASSUME IInv, call.pc = "answered",
         call.answer = "done" => call.step = Len(Requests(client, call.op, call.ids)),
         call' = [call EXCEPT !.pc = "over", !.outcome = IF call.answer = "done" THEN "ok" ELSE "err"],
         known' = IF call.answer = "done" /\ call.op = "amend"
                  THEN known \cup {AmendedHandle(client, call.ids[1])} ELSE known,
         UNCHANGED <<client, orders, seen, frames, money>>
  PROVE  IInv'
<1> DEFINE reqs == Requests(client, call.op, call.ids)
<1>1. /\ call'.op = call.op /\ call'.pc = "over" /\ call'.ids = call.ids /\ call'.step = call.step
      /\ call'.did = call.did /\ call'.refused = call.refused /\ call'.answer = call.answer
      /\ call'.outcome = (IF call.answer = "done" THEN "ok" ELSE "err") /\ call' \in CallRec
  BY DEF IInv, Types, CallRec
<1>2. RequestsFit(client, call.op, call.ids, reqs) /\ call.step \in {1, 2}
  BY AtARequest
<1>3. CallFits'
  BY <1>1 DEF IInv, CallFits
<1>4. AmendFits'
  <2> SUFFICES ASSUME call.op = "amend"
               PROVE  AmendFits'
    BY <1>1 DEF AmendFits
  <2>1. Amended' <=> Amended
    BY <1>1 DEF Amended, Exists
  <2>2. ASSUME call.answer = "done"
        PROVE  Amended
    <3>1. CASE Current.op # "query"
      BY <2>2, <3>1 DEF IInv, AmendFits
    <3>2. CASE Current.op = "query"
      <4>1. ~(Len(reqs) = 1 \/ client.venue = "binance") /\ call.step = Len(reqs)
        BY <1>2, <2>2, <3>2 DEF RequestsFit, Current
      <4>2. call.step = 2
        BY <1>2, <4>1
      <4> QED
        BY <4>1, <4>2 DEF IInv, AmendFits
    <3> QED
      BY <3>1, <3>2
  <2>3. call.answer = "done" => AmendedHandle(client, call.ids[1]) \in known'
    OBVIOUS
  <2>4. call.step = 2 /\ client.venue # "binance" => Amended
    BY DEF IInv, AmendFits
  <2>5. call.step = 1 => call.did = {} \/ call.refused = {}
    BY DEF IInv, AmendFits
  <2> QED
    BY <1>1, <2>1, <2>2, <2>3, <2>4, <2>5 DEF AmendFits
<1>5. CancelFits'
  <2> SUFFICES ASSUME Plain
               PROVE  CancelFits'
    BY <1>1 DEF CancelFits, Plain, TellsInBody
  <2>1. DOMAIN call.ids = 1..Len(call.ids) /\ Len(reqs) = Len(call.ids)
    BY PlainShape DEF IInv
  <2>2. \A i : Ended(i)' <=> Ended(i)
    BY <1>1 DEF Ended, Exists
  <2> QED
    BY <1>1, <2>1, <2>2 DEF IInv, CancelFits
<1>6. known \subseteq known' /\ known' \subseteq Handles
  BY AmendedHandles DEF IInv, Types
<1>7. Types' /\ ViewsTrue' /\ Told'
  BY <1>1, <1>6 DEF IInv, Types, ViewsTrue, Told, Exists
<1> QED
  BY <1>3, <1>4, <1>5, <1>7, SameOrdersKeep DEF IInv

LEMMA ReadAnswerKeeps ==
  ASSUME IInv, ReadAnswer
  PROVE  IInv'
<1> DEFINE reqs == Requests(client, call.op, call.ids)
<1>1. /\ call.pc = "answered"
      /\ UNCHANGED <<client, orders, calls, seen, frames, money>>
  BY DEF ReadAnswer
<1>2. CASE call.answer = "done" /\ call.step # Len(reqs)
  <2>1. /\ call' = [call EXCEPT !.pc = "send", !.step = @ + 1, !.answer = "none"]
        /\ known' = known
    BY <1>2 DEF ReadAnswer
  <2> QED
    BY <1>1, <1>2, <2>1, NextRequestKeeps
<1>3. CASE ~(call.answer = "done" /\ call.step # Len(reqs))
  <2>1. /\ call' = [call EXCEPT !.pc = "over", !.outcome = IF call.answer = "done" THEN "ok" ELSE "err"]
        /\ known' = IF call.answer = "done" /\ call.op = "amend"
                    THEN known \cup {AmendedHandle(client, call.ids[1])} ELSE known
    BY <1>3 DEF ReadAnswer
  <2> QED
    BY <1>1, <1>3, <2>1, ReturnKeeps
<1> QED
  BY <1>2, <1>3

LEMMA ReadFrameKeeps ==
  ASSUME IInv, ReadFrame
  PROVE  IInv'
<1> DEFINE f == frames[1]
<1>1. frames \in Seq(FrameRec) /\ frames # <<>>
  BY DEF IInv, Types, ReadFrame
<1>2. /\ f = Head(frames) /\ 1 \in DOMAIN frames /\ f \in FrameRec
      /\ Tail(frames) \in Seq(FrameRec) /\ Len(frames) \in Nat
      /\ DOMAIN frames = 1..Len(frames) /\ DOMAIN Tail(frames) = 1..(Len(frames) - 1)
      /\ \A i \in DOMAIN Tail(frames) : Tail(frames)[i] = frames[i + 1]
  BY <1>1
<1>3. /\ seen' = IF f.order = NoView THEN seen ELSE [seen EXCEPT ![f.handle] = f.order]
      /\ known' = IF f.order = NoView THEN known ELSE known \cup {f.handle}
      /\ frames' = Tail(frames)
      /\ UNCHANGED <<client, orders, call, calls>>
  BY <1>2 DEF ReadFrame
<1>4. f.handle \in Handles /\ f.order \in {NoView} \cup Views
  BY <1>2 DEF FrameRec
<1>5. SaidTrue(client, orders, f.handle, f.order)
  BY <1>2 DEF IInv, ViewsTrue
<1> HIDE DEF f
<1>6. /\ seen' \in [Handles -> {NoView} \cup Views]
      /\ \A h \in Handles : SaidTrue(client, orders, h, seen'[h])
  BY <1>3, <1>4, <1>5 DEF IInv, Types, ViewsTrue
<1>7. \A i \in DOMAIN frames' : SaidTrue(client, orders, frames'[i].handle, frames'[i].order)
  <2> TAKE i \in DOMAIN frames'
  <2>1. i + 1 \in DOMAIN frames /\ frames'[i] = frames[i + 1]
    BY <1>2, <1>3
  <2> QED
    BY <2>1 DEF IInv, ViewsTrue
<1>8. Types' /\ ViewsTrue'
  BY <1>2, <1>3, <1>4, <1>6, <1>7 DEF IInv, Types, ViewsTrue
<1>9. Told'
  <2>1. Placed \subseteq known'
    BY <1>3 DEF IInv, Told
  <2>2. ASSUME Exists(Replacement), Replacement \notin known'
        PROVE  \E i \in DOMAIN frames' : frames'[i].handle = Replacement /\ frames'[i].order # NoView
    <3>1. Replacement \notin known /\ ~(f.handle = Replacement /\ f.order # NoView)
      BY <1>3, <2>2
    <3>2. PICK i \in DOMAIN frames : frames[i].handle = Replacement /\ frames[i].order # NoView
      BY <2>2, <3>1 DEF IInv, Told
    <3>3. i # 1
      BY <3>1, <3>2 DEF f
    <3>4. i - 1 \in DOMAIN frames' /\ frames'[i - 1] = frames[i]
      BY <1>2, <1>3, <3>3
    <3> QED
      BY <3>2, <3>4
  <2> QED
    BY <1>3, <2>1, <2>2 DEF Told, Exists
<1>10. CallFits' /\ AmendFits' /\ CancelFits'
  <2>1. known \subseteq known' /\ Leaves(orders')
    BY <1>3, SameLeaves
  <2> QED
    BY <1>3, <2>1, CallLasts DEF IInv
<1> QED
  BY <1>3, <1>8, <1>9, <1>10, SameOrdersKeep DEF IInv
-----------------------------------------------------------------------------
LEMMA InitHolds ==
  ASSUME Init
  PROVE  IInv
<1>1. PICK trigger \in BOOLEAN :
        orders = [h \in Handles |->
          CASE h = 1 -> Order(IF trigger THEN "waiting" ELSE "open", Quantity[1], trigger)
            [] h = 2 -> Order("open", Quantity[2], FALSE)
            [] h = 3 -> NoOrder]
  BY DEF Init
<1>2. /\ client \in Clients /\ call = NoCall /\ known = Placed /\ frames = <<>>
      /\ seen = [h \in Handles |-> NoView]
  BY DEF Init
<1>3. /\ Quantity[1] \in Nat /\ Quantity[1] > 0 /\ Quantity[2] \in Nat /\ Quantity[2] > 0
  BY LifeAssumption
<1>4. /\ orders[1] = Order(IF trigger THEN "waiting" ELSE "open", Quantity[1], trigger)
      /\ orders[2] = Order("open", Quantity[2], FALSE) /\ orders[3] = NoOrder
      /\ DOMAIN orders = Handles /\ orders = [h \in Handles |-> orders[h]]
  BY <1>1 DEF Handles, Placed, Replacement
<1>5. /\ orders[1] \in OrderRec /\ orders[1].of = 0 /\ OrderFits(client, orders[1])
      /\ orders[2] \in OrderRec /\ orders[2].of = 0 /\ OrderFits(client, orders[2])
  BY <1>3, <1>4 DEF Order, OrderRec, Phases, OrderFits
<1>6. \A h \in Handles : h = 1 \/ h = 2 \/ h = 3
  BY DEF Handles, Placed, Replacement
<1>7. orders \in Books
  BY <1>4, <1>5, <1>6 DEF Books
<1>8. NoCall \in CallRec
  BY DEF NoCall, CallRec
<1>9. Types
  BY <1>2, <1>7, <1>8 DEF Types, Handles
<1>10. ~Exists(Replacement) /\ orders[1].phase # "none" /\ orders[2].phase # "none"
  <2>1. orders[3].phase = "none"
    BY <1>4 DEF NoOrder
  <2>2. orders[1].phase \in Phases /\ orders[2].phase \in Phases
    BY <1>5 DEF OrderRec
  <2> QED
    BY <2>1, <2>2 DEF Exists, Replacement, Phases
<1>11. OrdersFit
  BY <1>4, <1>5, <1>6, <1>10 DEF OrdersFit, Exists, Placed, Replacement
<1>12. ViewsTrue /\ ReplacedFit /\ Told
  BY <1>2, <1>10 DEF ViewsTrue, SaidTrue, ReplacedFit, Replaced, Told
<1>13. CallFits /\ AmendFits /\ CancelFits
  BY <1>2 DEF NoCall, CallFits, AmendFits, CancelFits, Plain, Ops
<1> QED
  BY <1>9, <1>11, <1>12, <1>13 DEF IInv

LEMMA StutterKeeps ==
  ASSUME IInv, UNCHANGED vars
  PROVE  IInv'
<1>1. Types' /\ ViewsTrue' /\ Told'
  BY DEF vars, IInv, Types, ViewsTrue, Told, Exists
<1>2. CallFits' /\ AmendFits' /\ CancelFits'
  BY SameLeaves, CallLasts DEF vars, IInv
<1> QED
  BY <1>1, <1>2, SameOrdersKeep DEF vars, IInv

LEMMA NextKeeps ==
  ASSUME IInv, [Next]_vars
  PROVE  IInv'
<1>1. ASSUME NEW h \in Handles, Fire(h) \/ FireSeparately(h) \/ Fill(h) \/ End(h)
      PROVE  IInv'
  BY <1>1, FireKeeps, FireSeparatelyKeeps, FillKeeps, EndKeeps
<1>2. ASSUME NEW h \in Handles, CancelOrder(h) \/ CancelOrderWs(h) \/ Amend(h) \/ QueryOrder(h)
      PROVE  IInv'
  BY <1>2, CallsKeep
<1>3. ASSUME NEW h \in Handles, VenueAmends(h) \/ VenueEdits(h) \/ VenueShows(h)
      PROVE  IInv'
  BY <1>3, VenueAmendsKeeps, VenueEditsKeeps, VenueShowsKeeps
<1>4. ASSUME NEW h \in Handles, \E placed \in BOOLEAN : VenueReplaces(h, placed)
      PROVE  IInv'
  BY <1>4, VenueReplacesKeeps
<1>5. ASSUME NEW h \in Handles, \E h2 \in Handles : CancelOrders(h, h2)
      PROVE  IInv'
  BY <1>5, CallsKeep
<1>6. ASSUME \E gone \in SUBSET Handles : VenueCancels(gone)
      PROVE  IInv'
  BY <1>6, VenueCancelsKeeps
<1>7. ASSUME \E symbol \in BOOLEAN : AllOrders(symbol)
      PROVE  IInv'
  <2>1. 1 \in Handles
    BY DEF Handles, Placed
  <2> QED
    BY <1>7, <2>1, CallsKeep
<1>8. CASE VenueLists \/ VenueTellsAccount \/ VenueRefuses \/ RequestLost \/ AnswerLost
  BY <1>8, VenueListsKeeps, VenueTellsAccountKeeps, VenueRefusesKeeps, RequestLostKeeps, AnswerLostKeeps
<1>9. CASE ReadAnswer \/ ReadFrame
  BY <1>9, ReadAnswerKeeps, ReadFrameKeeps
<1>10. CASE UNCHANGED vars
  BY <1>10, StutterKeeps
<1> QED
  BY <1>1, <1>2, <1>3, <1>4, <1>5, <1>6, <1>7, <1>8, <1>9, <1>10 DEF Next

LEMMA Invariance == Spec => []IInv
BY InitHolds, NextKeeps, PTL DEF Spec
-----------------------------------------------------------------------------
(***************************************************************************)
(* Whichever client it is, and however the orders run while requests and   *)
(* answers get lost, what a query, a list or the private stream last       *)
(* showed of an order was so, and is so where it is final.                 *)
(***************************************************************************)
THEOREM ViewsAreTrue == Spec => []ShownIsTrue
<1>1. IInv => ShownIsTrue
  BY DEF IInv, ViewsTrue, SaidTrue, HtxSwaps, ShownIsTrue
<1> QED
  BY <1>1, Invariance, PTL

(***************************************************************************)
(* An amend that races fills never has more traded than was asked for, but *)
(* at Binance spot, whose cancel-replace asks for the whole quantity again *)
(* and stays below twice of it (binance.rs:951-990).                       *)
(***************************************************************************)
THEOREM AmendsNeverOverfill == Spec => []NeverOverfilled
<1>1. ASSUME IInv, NEW h \in Handles, Replaced(h)
      PROVE  h \in Placed
  <2>1. orders[Replacement] \in OrderRec
    BY <1>1, OrderTypes DEF Replaced, Exists, IInv, Types, Handles
  <2>2. h # 3
    BY <1>1, <2>1 DEF Replaced, OrderRec
  <2> QED
    BY <2>2 DEF Handles, Replacement
<1>2. IInv => NeverOverfilled
  BY <1>1 DEF IInv, ReplacedFit, NeverOverfilled
<1> QED
  BY <1>2, Invariance, PTL

(***************************************************************************)
(* The caller was told the handle of every live order, or will read it on  *)
(* the private stream, also of one that took another's place in a call     *)
(* whose answer was lost; and an amend that returned Ok returned it.       *)
(***************************************************************************)
THEOREM LiveOrdersAreTold == Spec => []HandlesAreTold
<1>1. ASSUME IInv
      PROVE  HandlesAreTold
  <2>1. ASSUME NEW h \in Handles, Live(orders[h])
        PROVE  h \in known \/ \E i \in DOMAIN frames : frames[i].handle = h /\ frames[i].order # NoView
    <3>1. CASE h \in Placed
      BY <1>1, <3>1 DEF IInv, Told
    <3>2. CASE h = Replacement
      BY <1>1, <2>1, <3>2 DEF IInv, Told, Live, Exists
    <3> QED
      BY <3>1, <3>2 DEF Handles
  <2>2. ASSUME call.pc = "over", call.op = "amend", call.outcome = "ok", Replaced(call.ids[1])
        PROVE  Replacement \in known
    <3>1. Amended /\ AmendedHandle(client, call.ids[1]) \in known /\ call.ids[1] \in Handles
      BY <1>1, <2>2, AmendedHandles DEF IInv, AmendFits
    <3>2. call.ids[1] \in Placed
      <4>1. orders[Replacement] \in OrderRec
        BY <1>1, <2>2, OrderTypes DEF Replaced, Exists, IInv, Types, Handles
      <4> QED
        BY <2>2, <3>1, <4>1 DEF Replaced, OrderRec, Handles, Replacement, Placed
    <3>3. client.venue \in {"binance", "kraken"} /\ ~Swap(client)
      BY <1>1, <2>2, <3>2 DEF IInv, ReplacedFit
    <3> QED
      BY <3>1, <3>3 DEF AmendedHandle
  <2> QED
    BY <2>1, <2>2 DEF HandlesAreTold
<1> QED
  BY <1>1, Invariance, PTL

(***************************************************************************)
(* What a finished call says is so: a cancel that returned Ok ended its    *)
(* orders, an amend that did gave its order the new price, a batch that    *)
(* failed ended nothing past the order that was refused, and a refused     *)
(* amend left its order as it was.                                         *)
(***************************************************************************)
THEOREM CallsTellTheTruth == Spec => []OutcomesAreTrue
<1>1. ASSUME IInv, call.pc = "over", call.op # "none",
             call.op \in {"cancel", "cancel_ws", "cancel_batch"},
             ~\E i \in DOMAIN Requests(client, call.op, call.ids) :
                TellsInBody(client, Requests(client, call.op, call.ids)[i])
      PROVE  /\ call.outcome = "ok" => \A h \in Ids : orders[h].ending
             /\ \A i, j \in DOMAIN call.ids :
                  i < j /\ call.ids[j] \in call.did => call.ids[i] \in call.did
  <2>1. Plain
    BY <1>1 DEF Plain
  <2>2. /\ Len(call.ids) \in {1, 2} /\ DOMAIN call.ids = 1..Len(call.ids) /\ call.step \in {1, 2}
    BY <1>1, <2>1, PlainShape, TheCallIsFit DEF IInv, Ops
  <2>3. /\ \A i \in DOMAIN call.ids : i < call.step => Ended(i)
        /\ \A i \in DOMAIN call.ids : call.ids[i] \in call.did => i <= call.step
        /\ call.outcome = "ok" => call.step = Len(call.ids) /\ Ended(call.step)
    BY <1>1, <2>1 DEF IInv, CancelFits
  <2>4. call.outcome = "ok" => \A i \in DOMAIN call.ids : Ended(i)
    BY <2>2, <2>3
  <2>5. \A i \in DOMAIN call.ids : Ended(i) => orders[call.ids[i]].ending /\ call.ids[i] \in call.did
    BY DEF Ended
  <2> QED
    BY <2>2, <2>3, <2>4, <2>5 DEF Ids
<1>2. ASSUME IInv, call.pc = "over", call.op = "amend"
      PROVE  /\ call.outcome = "ok" => orders[AmendedHandle(client, call.ids[1])].price = 2
             /\ call.refused # {} => call.did = {} \/ call.step = 2
  <2>1. call.step \in {1, 2}
    BY <1>2, TheCallIsFit DEF IInv, Ops
  <2> QED
    BY <1>2, <2>1 DEF IInv, AmendFits, Amended
<1>3. IInv => OutcomesAreTrue
  BY <1>1, <1>2 DEF OutcomesAreTrue
<1> QED
  BY <1>3, Invariance, PTL

-----------------------------------------------------------------------------
(***************************************************************************)
(* Balances.  A frame carries what the account had when it was sent, so    *)
(* that what is told of it can be judged by itself.                        *)
(***************************************************************************)
Split(total, held, parts) ==
  \/ parts.free = total - held /\ parts.locked = held
  \/ ~TellsHeld(client) /\ parts.free = total /\ parts.locked = 0

LEMMA GapIsHeld ==
  ASSUME NEW total \in Int, NEW held \in Nat
  PROVE  Gap(total, total - held) = held /\ total - (total - held) = held
BY DEF Gap

LEMMA BalancesSplit ==
  ASSUME client \in Clients, NEW total \in Int, NEW held \in Nat
  PROVE  Split(total, held, Balances(client, total, held))
<1>1. client.venue \in {"binance", "bitget", "bybit", "coinbase", "gate", "htx", "kraken", "kucoin", "okx", "upbit"}
  BY LifeAssumption
<1> QED
  BY <1>1, GapIsHeld
     DEF Balances, BinanceBalance, BitgetBalance, BybitBalance, CoinbaseBalance, GateBalance,
         HtxBalance, HtxSwapBalance, KrakenBalance, KrakenFuturesBalance, KuCoinBalance,
         OkxBalance, UpbitBalance, Parts, Split

LEMMA UpdatesSplit ==
  ASSUME client \in Clients, Streams(client), NEW total \in Int, NEW held \in Nat
  PROVE  Split(total, held, BalanceUpdate(client, total, held))
<1>1. client.venue \in {"binance", "bitget", "bybit", "gate", "htx", "kraken", "kucoin", "okx"}
  BY LifeAssumption DEF Streams
<1> QED
  BY <1>1, GapIsHeld
     DEF BalanceUpdate, BinanceStreamBalance, BitgetBalance, BybitBalance, GateFuturesStreamBalance,
         GateStreamBalance, HtxSwapBalance, HtxStreamBalance, KrakenFeedBalance, KrakenStreamBalance,
         KuCoinStreamBalance, OkxBalance, Parts, Split, TellsHeld

Silent == Streams(client) \/ frames = <<>>
MoneyInv == Silent /\ BalancesTellHeld

LEMMA GivenSplits ==
  ASSUME NEW total, NEW held, NEW parts, Split(total, held, parts),
         money' = Given(total, held, parts), client' = client
  PROVE  BalancesTellHeld'
BY DEF Split, Given, BalancesTellHeld, TellsHeld, Swap

LEMMA MoneyStep ==
  ASSUME IInv, MoneyInv, [Next]_vars
  PROVE  MoneyInv'
<1>1. ASSUME NEW os, NEW hs, Become(os, hs), UNCHANGED <<client, money>>
      PROVE  MoneyInv'
  BY <1>1 DEF Become, MoneyInv, Silent, Streams, BalancesTellHeld, TellsHeld, Swap
<1>2. ASSUME UNCHANGED <<client, frames, money>>
      PROVE  MoneyInv'
  BY <1>2 DEF MoneyInv, Silent, Streams, BalancesTellHeld, TellsHeld, Swap
<1>3. ASSUME NEW h \in Handles, Fire(h) \/ Fill(h) \/ End(h)
      PROVE  MoneyInv'
  <2>1. \E o : VenueStep(h, o)
    BY <1>3, Zenon DEF Fire, Fill, End
  <2> QED
    BY <1>1, <2>1 DEF VenueStep
<1>4. ASSUME NEW h \in Handles, FireSeparately(h) \/ VenueAmends(h)
      PROVE  MoneyInv'
  BY <1>1, <1>4 DEF FireSeparately, VenueAmends
<1>5. ASSUME NEW h \in Handles, VenueEdits(h) \/ \E placed \in BOOLEAN : VenueReplaces(h, placed)
      PROVE  MoneyInv'
  <2>1. \E o, placed : Replaces(h, o, placed)
    BY <1>5, Zenon DEF VenueEdits, VenueReplaces
  <2>2. \E os, hs : Become(os, hs) /\ UNCHANGED <<client, money>>
    BY <2>1, Zenon DEF Replaces
  <2> QED
    BY <1>1, <2>2
<1>6. ASSUME NEW gone, VenueCancels(gone)
      PROVE  MoneyInv'
  <2>1. \E os, hs : Become(os, hs) /\ UNCHANGED <<client, money>>
    BY <1>6, Zenon DEF VenueCancels
  <2> QED
    BY <1>1, <2>1
<1>7. ASSUME NEW h \in Handles, VenueShows(h)
      PROVE  MoneyInv'
  <2> DEFINE total == Total(orders)
             held  == Held(orders)
  <2>1. total \in Int /\ held \in Nat
    BY AccountOf DEF IInv, Types, OrdersFit, OrderFits, Exists
  <2>2. /\ money' = Given(total, held, Balances(client, total, held))
        /\ UNCHANGED <<client, frames>>
    BY <1>7 DEF VenueShows
  <2> HIDE DEF total, held
  <2>3. BalancesTellHeld'
    BY <2>1, <2>2, BalancesSplit, GivenSplits DEF IInv, Types
  <2> QED
    BY <2>2, <2>3 DEF MoneyInv, Silent, Streams
<1>8. CASE ReadFrame
  <2> DEFINE f == frames[1]
  <2>1. frames \in Seq(FrameRec) /\ frames # <<>>
    BY <1>8 DEF IInv, Types, ReadFrame
  <2>2. f = Head(frames) /\ f \in FrameRec
    BY <2>1
  <2>3. /\ money' = Given(f.total, f.held, BalanceUpdate(client, f.total, f.held))
        /\ UNCHANGED client
    BY <1>8, <2>2 DEF ReadFrame
  <2>4. f.total \in Int /\ f.held \in Nat /\ Streams(client)
    BY <2>1, <2>2 DEF FrameRec, MoneyInv, Silent
  <2> HIDE DEF f
  <2>5. BalancesTellHeld'
    BY <2>3, <2>4, UpdatesSplit, GivenSplits DEF IInv, Types
  <2> QED
    BY <2>3, <2>4, <2>5 DEF MoneyInv, Silent, Streams
<1>9. ASSUME NEW op, NEW ids, Begin(op, ids)
       PROVE  MoneyInv'
  BY <1>2, <1>9 DEF Begin
<1>10. ASSUME NEW h, CancelOrder(h) \/ CancelOrderWs(h) \/ Amend(h) \/ QueryOrder(h)
       PROVE  MoneyInv'
  BY <1>9, <1>10 DEF CancelOrder, CancelOrderWs, Amend, QueryOrder
<1>11. ASSUME NEW h, NEW h2, CancelOrders(h, h2)
       PROVE  MoneyInv'
  BY <1>9, <1>11 DEF CancelOrders
<1>12. ASSUME NEW symbol, AllOrders(symbol)
       PROVE  MoneyInv'
  BY <1>9, <1>12 DEF AllOrders
<1>13. CASE VenueLists \/ VenueTellsAccount \/ VenueRefuses \/ RequestLost \/ AnswerLost \/ ReadAnswer
  BY <1>2, <1>13 DEF VenueLists, VenueTellsAccount, VenueRefuses, RequestLost, AnswerLost, ReadAnswer
<1>14. CASE UNCHANGED vars
  BY <1>2, <1>14 DEF vars
<1> QED
  BY <1>3, <1>4, <1>5, <1>6, <1>7, <1>8, <1>10, <1>11, <1>12, <1>13, <1>14 DEF Next

(***************************************************************************)
(* However a venue puts a balance, in parts or as a total and one part,    *)
(* and over REST or the private stream, what the client gave last splits   *)
(* what the account had into what its open orders bound and what was free; *)
(* the streams that tell the total only are the ones that TellsHeld names. *)
(***************************************************************************)
THEOREM BalancesAreSplit == Spec => []BalancesTellHeld
<1>1. Init => MoneyInv
  BY DEF Init, MoneyInv, Silent, BalancesTellHeld
<1>2. MoneyInv => BalancesTellHeld
  BY DEF MoneyInv
<1> QED
  BY <1>1, <1>2, MoneyStep, Invariance, PTL DEF Spec

-----------------------------------------------------------------------------
(***************************************************************************)
(* The futures account of a client and the contacts that it makes, for any *)
(* of the eight and ten venues, any settings and any number of calls:      *)
(* positions gives what the account holds, an order runs on the terms that *)
(* the caller was told are set, and a contact is with the market and the   *)
(* network that the program asked for.                                     *)
(*                                                                         *)
(* The terms are said in one place and kept in three: the venue, the       *)
(* client and the answers on their way.  So the invariant tells what the   *)
(* call in progress will say, and that it fits (SaidFits), while a client  *)
(* that keeps the leverage at once is ahead of what it says (Keeping).     *)
(***************************************************************************)


(***************************************************************************)
(* Choosing rows goes through them one by one.                             *)
(***************************************************************************)
Chooses(g, rows, wanted) ==
  /\ g[0] = <<>>
  /\ \A i \in 1..Len(rows) :
       g[i] = IF i \in wanted THEN Append(g[i - 1], rows[i]) ELSE g[i - 1]

LEMMA ChosenSteps ==
  ASSUME NEW S, NEW rows \in Seq(S), NEW wanted
  PROVE  \E g \in [0..Len(rows) -> Seq(S)] :
            Chooses(g, rows, wanted) /\ Chosen(rows, wanted) = g[Len(rows)]
<1> DEFINE n == Len(rows)
           step == [x \in (1..n) \X Seq(S) |->
                      IF x[1] \in wanted THEN Append(x[2], rows[x[1]]) ELSE x[2]]
           Rule(g) == [i \in 0..n |->
                         IF i = 0 THEN <<>>
                         ELSE IF i \in wanted THEN Append(g[i - 1], rows[i]) ELSE g[i - 1]]
           g == CHOOSE h : h = Rule(h)
<1>1. n \in Nat /\ <<>> \in Seq(S) /\ \A i \in 1..n : rows[i] \in S
  OBVIOUS
<1>2. step \in [(1..n) \X Seq(S) -> Seq(S)]
  <2>1. \A x \in (1..n) \X Seq(S) : x[1] \in 1..n /\ x[2] \in Seq(S) /\ rows[x[1]] \in S
    BY <1>1
  <2>2. \A x \in (1..n) \X Seq(S) : Append(x[2], rows[x[1]]) \in Seq(S)
    BY <2>1
  <2> HIDE DEF n
  <2> QED
    BY <2>1, <2>2
<1>3. PICK h \in [0..n -> Seq(S)] :
        Follows(h, n, <<>>, step)
  <2> DEFINE V == Seq(S)
             base == <<>>
  <2>1. n \in Nat
    BY <1>1
  <2>2. base \in V
    BY <1>1
  <2>3. step \in [(1..n) \X V -> V]
    BY <1>2
  <2> HIDE DEF n, step, V, base
  <2>4. \E h \in [0..n -> V] : Follows(h, n, base, step)
    BY <2>1, <2>2, <2>3, StepsExist, Zenon
  <2> QED
    BY <2>4 DEF V, base
<1>4. h = Rule(h)
  <2>1. \A i \in 1..n : h[i - 1] \in Seq(S)
    BY <1>1
  <2>2. \A i \in 1..n : step[<<i, h[i - 1]>>] =
          IF i \in wanted THEN Append(h[i - 1], rows[i]) ELSE h[i - 1]
    BY <2>1
  <2>3. \A i \in 0..n : i # 0 => i \in 1..n
    BY <1>1
  <2> HIDE DEF n, step
  <2>4. \A i \in 0..n :
          h[i] = IF i = 0 THEN <<>>
                 ELSE IF i \in wanted THEN Append(h[i - 1], rows[i]) ELSE h[i - 1]
    BY <1>3, <2>2, <2>3 DEF Follows
  <2> QED
    BY <2>4
<1>5. g = Rule(g)
  BY <1>4, Zenon
<1>6. Chosen(rows, wanted) = g[n]
  BY DEF Chosen
<1> HIDE DEF g
<1>7. Chooses(g, rows, wanted)
  <2>1. 0 \in 0..n /\ \A i \in 1..n : i \in 0..n /\ i # 0
    BY <1>1
  <2> QED
    BY <1>5, <2>1 DEF Chooses
<1>8. \A i \in 0..n : g[i] \in Seq(S)
  <2> DEFINE Q == {i \in Nat : g[i] \in Seq(S)}
  <2>1. 0 \in Q
    BY <1>1, <1>7 DEF Chooses
  <2>2. ASSUME NEW i \in 1..n, i - 1 \in Q PROVE i \in Q
    <3>1. i \in Nat /\ g[i - 1] \in Seq(S) /\ rows[i] \in S
      BY <1>1, <2>2
    <3>2. Append(g[i - 1], rows[i]) \in Seq(S)
      BY <3>1
    <3>3. g[i] = IF i \in wanted THEN Append(g[i - 1], rows[i]) ELSE g[i - 1]
      BY <1>7 DEF Chooses
    <3> QED
      BY <3>1, <3>2, <3>3
  <2>3. \A i \in 0..n : i \in Q
    <3> HIDE DEF Q, n
    <3> QED
      BY <1>1, <2>1, <2>2, UpTo DEF Q
  <2> QED
    BY <2>3
<1>9. g = [i \in 0..n |-> g[i]]
  BY <1>5
<1>10. g \in [0..n -> Seq(S)]
  BY <1>8, <1>9
<1> QED
  BY <1>6, <1>7, <1>10

Places(n, wanted) == Chosen([i \in 1..n |-> i], wanted)

(***************************************************************************)
(* The chosen places are the wanted ones, each once.                       *)
(***************************************************************************)
LEMMA PlacesAre ==
  ASSUME NEW n \in Nat, NEW wanted
  PROVE  /\ Places(n, wanted) \in Seq(1..n)
         /\ \A k \in DOMAIN Places(n, wanted) : Places(n, wanted)[k] \in wanted
         /\ \A j \in 1..n : j \in wanted => \E k \in DOMAIN Places(n, wanted) : Places(n, wanted)[k] = j
         /\ \A k, l \in DOMAIN Places(n, wanted) :
              Places(n, wanted)[k] = Places(n, wanted)[l] => k = l
<1> DEFINE rows == [i \in 1..n |-> i]
           Fit(s, i) ==
             /\ \A k \in DOMAIN s : s[k] \in wanted /\ s[k] <= i
             /\ \A j \in 1..i : j \in wanted => \E k \in DOMAIN s : s[k] = j
             /\ \A k, l \in DOMAIN s : s[k] = s[l] => k = l
<1>1. rows \in Seq(1..n) /\ Len(rows) = n
  OBVIOUS
<1>2. PICK g \in [0..n -> Seq(1..n)] : Chooses(g, rows, wanted) /\ Places(n, wanted) = g[n]
  <2> HIDE DEF rows
  <2>1. \E g \in [0..Len(rows) -> Seq(1..n)] :
           Chooses(g, rows, wanted) /\ Chosen(rows, wanted) = g[Len(rows)]
    BY <1>1, ChosenSteps
  <2>2. Places(n, wanted) = Chosen(rows, wanted)
    BY DEF Places, rows
  <2> QED
    BY <1>1, <2>1, <2>2
<1> DEFINE Q == {i \in Nat : i <= n => Fit(g[i], i)}
<1>3. 0 \in Q
  BY <1>2 DEF Chooses
<1>4. ASSUME NEW i \in 1..n, i - 1 \in Q PROVE i \in Q
  <2> DEFINE s == g[i - 1]
             t == g[i]
  <2>1. /\ i \in Nat /\ s \in Seq(1..n) /\ Fit(s, i - 1)
        /\ DOMAIN s = 1..Len(s) /\ \A k \in DOMAIN s : s[k] \in Nat /\ s[k] <= i - 1
    BY <1>4
  <2>2. t = IF i \in wanted THEN Append(s, i) ELSE s
    BY <1>1, <1>2 DEF Chooses
  <2> HIDE DEF s, t
  <2>3. CASE i \notin wanted
    <3>1. \A j \in 1..i : j \in wanted => j \in 1..i - 1
      BY <2>1, <2>3
    <3>2. Fit(t, i)
      BY SMTT(40), <2>1, <2>2, <2>3, <3>1
    <3> QED
      BY <3>2 DEF t
  <2>4. CASE i \in wanted
    <3>1. /\ t = Append(s, i) /\ Len(t) = Len(s) + 1 /\ Len(s) \in Nat
          /\ DOMAIN t = 1..Len(s) + 1 /\ DOMAIN s = 1..Len(s)
          /\ t[Len(s) + 1] = i /\ \A k \in 1..Len(s) : t[k] = s[k]
      BY <2>1, <2>2, <2>4
    <3>2. \A k \in DOMAIN t : t[k] \in wanted /\ t[k] <= i
      <4> TAKE k \in DOMAIN t
      <4>1. CASE k = Len(s) + 1
        BY <2>1, <2>4, <3>1, <4>1
      <4>2. CASE k \in 1..Len(s)
        BY <2>1, <3>1, <4>2
      <4> QED
        BY <3>1, <4>1, <4>2
    <3>3. \A j \in 1..i : j \in wanted => \E k \in DOMAIN t : t[k] = j
      <4> TAKE j \in 1..i
      <4>1. CASE j = i
        <5>1. Len(s) + 1 \in DOMAIN t
          BY <3>1
        <5> QED
          BY <3>1, <4>1, <5>1
      <4>2. CASE j # i
        <5>1. j \in 1..i - 1
          BY <2>1, <4>2
        <5> QED
          BY <2>1, <3>1, <5>1
      <4> QED
        BY <4>1, <4>2
    <3>4. \A k, l \in DOMAIN t : t[k] = t[l] => k = l
      BY SMTT(40), <2>1, <3>1
    <3> QED
      BY <3>2, <3>3, <3>4 DEF t
  <2> QED
    BY <2>3, <2>4
<1>5. \A i \in 0..n : i \in Q
  <2> HIDE DEF Q
  <2> QED
    BY <1>3, <1>4, UpTo DEF Q
<1>6. Fit(g[n], n) /\ g[n] \in Seq(1..n)
  BY <1>5
<1> QED
  BY <1>2, <1>6

LEMMA ChosenByPlaces ==
  ASSUME NEW S, NEW rows \in Seq(S), NEW wanted
  PROVE  Chosen(rows, wanted) =
           [k \in DOMAIN Places(Len(rows), wanted) |-> rows[Places(Len(rows), wanted)[k]]]
<1> DEFINE n == Len(rows)
           Picked(s) == [k \in DOMAIN s |-> rows[s[k]]]
           all == [i \in 1..n |-> i]
<1>1. n \in Nat /\ all \in Seq(1..n) /\ Len(all) = n /\ \A i \in 1..n : all[i] = i
  OBVIOUS
<1>2. PICK g \in [0..n -> Seq(S)] : Chooses(g, rows, wanted) /\ Chosen(rows, wanted) = g[n]
  BY ChosenSteps
<1>3. PICK p \in [0..n -> Seq(1..n)] :
        Chooses(p, all, wanted) /\ Places(n, wanted) = p[n]
  <2> HIDE DEF all
  <2>1. \E p \in [0..Len(all) -> Seq(1..n)] :
           Chooses(p, all, wanted) /\ Chosen(all, wanted) = p[Len(all)]
    BY <1>1, ChosenSteps
  <2>2. Places(n, wanted) = Chosen(all, wanted)
    BY DEF Places, all
  <2> QED
    BY <1>1, <2>1, <2>2
<1>9. n = Len(rows) /\ \A x \in 1..n : rows[x] \in S
  OBVIOUS
<1> HIDE DEF all, n
<1> DEFINE Q == {i \in Nat : i <= n => g[i] = Picked(p[i])}
<1>4. 0 \in Q
  BY <1>2, <1>3 DEF Chooses
<1>5. ASSUME NEW i \in 1..n, i - 1 \in Q PROVE i \in Q
  <2>1. i \in Nat /\ i - 1 \in 0..n /\ g[i - 1] = Picked(p[i - 1]) /\ p[i - 1] \in Seq(1..n)
    <3>1. i \in Nat /\ i - 1 \in 0..n
      BY <1>1
    <3> QED
      BY <1>5, <3>1
  <2>2. /\ g[i] = IF i \in wanted THEN Append(g[i - 1], rows[i]) ELSE g[i - 1]
        /\ p[i] = IF i \in wanted THEN Append(p[i - 1], i) ELSE p[i - 1]
    BY <1>1, <1>2, <1>3, <1>9 DEF Chooses
  <2>3. PICK s \in Seq(1..n) : s = p[i - 1]
    BY <2>1
  <2>4. Append(Picked(s), rows[i]) = Picked(Append(s, i))
    <3>1. Len(s) \in Nat /\ DOMAIN s = 1..Len(s) /\ \A k \in 1..Len(s) : s[k] \in 1..n
      <4> DEFINE D == 1..n
      <4>1. s \in Seq(D)
        BY <2>3
      <4> HIDE DEF D
      <4>2. Len(s) \in Nat /\ DOMAIN s = 1..Len(s) /\ \A k \in 1..Len(s) : s[k] \in D
        BY <4>1
      <4> QED
        BY <4>2 DEF D
    <3>9. \A k \in 1..Len(s) : rows[s[k]] \in S
      BY <1>9, <3>1
    <3>2. Picked(s) \in Seq(S) /\ Len(Picked(s)) = Len(s)
      BY <3>1, <3>9
    <3>3. Append(s, i) \in Seq(1..n) /\ DOMAIN Append(s, i) = 1..Len(s) + 1
      BY <3>1
    <3>4. Append(Picked(s), rows[i]) = [k \in 1..Len(s) + 1 |-> IF k = Len(s) + 1 THEN rows[i] ELSE Picked(s)[k]]
      BY <3>1, <3>2
    <3>5. \A k \in 1..Len(s) + 1 :
            (IF k = Len(s) + 1 THEN rows[i] ELSE Picked(s)[k]) = rows[Append(s, i)[k]]
      BY <3>1
    <3> QED
      BY <3>3, <3>4, <3>5
  <2> QED
    BY <2>1, <2>2, <2>3, <2>4
<1>6. \A i \in 0..n : i \in Q
  <2> HIDE DEF Q
  <2> QED
    BY <1>1, <1>4, <1>5, UpTo DEF Q
<1>7. g[n] = Picked(p[n])
  BY SMTT(40), <1>1, <1>6
<1> QED
  BY <1>2, <1>3, <1>7, <1>9

Futures == {"binance", "bitget", "bybit", "gate", "htx", "kraken", "kucoin", "okx"}
Positive == Nat \ {0}

AccountTypes ==
  /\ trader \in Futures /\ hedged \in BOOLEAN
  /\ kept \in [leverage : Positive, mode : Modes]
  /\ terms \in [mode : Modes, leverage : [Modes -> Positive]]
  /\ legs \in [Sides -> Nat]
  /\ said \in [mode : Modes \cup {"none"}, leverage : [Modes -> Nat]]

TaskFits ==
  /\ task = [op |-> task.op, pc |-> task.pc, want |-> task.want, read |-> task.read, answer |-> task.answer]
  /\ task.op \in {"none", "positions", "leverage", "mode"}
  /\ task.pc \in {"over", "read", "send", "answered"}
  /\ task.op = "none" => task.pc = "over"
  /\ task.pc = "read" /\ task.op # "positions" => ReadsFirst(task.op)
  /\ task.pc = "answered" => task.answer \in {"done", "lost", "refused"}
  /\ task.op = "positions" => task.pc \in {"over", "read"} /\ task.want \in {"btc", "all"}
  /\ task.op = "leverage" => task.want \in Nat
  /\ task.op = "mode" => task.want \in Modes
  /\ task.read # <<>> => task.read[1].leverage \in Positive /\ task.read[1].margin_mode \in Modes

\* The leverage that an order of either mode runs on.
Runs(m) == IF trader \in {"htx", "kucoin"} THEN kept.leverage ELSE terms.leverage[m]

LeverageFits(s) == \A m \in Modes : s.leverage[m] # 0 => s.leverage[m] = Runs(m)
GateFits(s) ==
  trader = "gate" => /\ s.leverage["cross"] = 0
                     /\ s.leverage["isolated"] # 0 => s.leverage["isolated"] = kept.leverage
ModeFits(s) == ~ModeOnOrder => s.mode \in {"none", terms.mode}

\* These clients keep the leverage at once, whatever becomes of the call.
Keeping == task.op = "leverage" /\ task.pc = "send" /\ trader \in {"gate", "htx", "kraken", "kucoin"}

TermsFit ==
  /\ ModeOnOrder => said.mode = kept.mode
  /\ CrossOnly => terms.mode = "cross"
  /\ trader # "okx" => terms.leverage["cross"] = terms.leverage["isolated"]
  /\ trader = "bybit" /\ task.pc = "send" /\ task.read # <<>> =>
       task.read[1].leverage = terms.leverage["cross"]

SaidFits ==
  /\ task.pc # "answered" => /\ ModeFits(said)
                             /\ ~Keeping => LeverageFits(said) /\ GateFits(said)
  /\ Keeping => /\ kept.leverage = AtLeastOne(task.want)
                /\ trader = "gate" => said.leverage["cross"] = 0
  /\ task.pc = "answered" => ModeFits(Says) /\ LeverageFits(Says) /\ GateFits(Says)

AccountInv == AccountTypes /\ TaskFits /\ TermsFit /\ SaidFits /\ OrdersRunOnTheTerms

-----------------------------------------------------------------------------
ClientView(leg) ==
  CASE trader = "binance" -> BinancePosition(BinanceRow(leg))
    [] trader = "bitget"  -> BitgetPosition(BitgetRow(leg))
    [] trader = "bybit"   -> BybitPosition(BybitRow(leg))
    [] trader = "gate"    -> GatePosition(GateRow(leg))
    [] trader = "htx"     -> HtxPosition(HtxRow(leg))
    [] trader = "kraken"  -> KrakenPosition(KrakenRow(leg))
    [] trader = "kucoin"  -> KuCoinPosition(KuCoinRow(leg))
    [] trader = "okx"     -> OkxPosition(OkxRow(leg))

TrueView(leg) == Position(leg.symbol, leg.side, leg.size, leg.leverage, leg.mode)

Legs == [symbol : {"btc", "eth"}, side : Sides, size : Nat, mode : Modes, leverage : Positive]

Counted(leg, wanted) == Open(leg) /\ wanted \in {"all", leg.symbol}

\* given shows every leg that counts, and each once.
ShowsEach(given, wanted) ==
  \E n \in Nat : \E p \in [1..n -> DOMAIN AllLegs] :
    /\ IsInjective(p)
    /\ \A j \in DOMAIN AllLegs : Counted(AllLegs[j], wanted) <=> \E k \in 1..n : p[k] = j
    /\ given = [k \in 1..n |-> ClientView(AllLegs[p[k]])]

LEMMA TheLegs ==
  ASSUME AccountTypes
  PROVE  /\ OwnLegs \in Seq(Legs) /\ AllLegs \in Seq(Legs)
         /\ Len(AllLegs) = Len(OwnLegs) + 1
         /\ \A j \in DOMAIN OwnLegs : OwnLegs[j] = AllLegs[j] /\ OwnLegs[j].symbol = "btc"
                                      /\ OwnLegs[j].mode = terms.mode /\ OwnLegs[j].leverage = terms.leverage[terms.mode]
         /\ AllLegs[Len(OwnLegs) + 1].symbol = "eth" /\ AllLegs[Len(OwnLegs) + 1].mode = "cross"
         /\ \A i, j \in DOMAIN AllLegs :
              AllLegs[i].symbol = AllLegs[j].symbol /\ AllLegs[i].side = AllLegs[j].side => i = j
<1>1. /\ terms.mode \in Modes /\ terms.leverage[terms.mode] \in Positive
      /\ legs["long"] \in Nat /\ legs["short"] \in Nat /\ VenueDefault + 1 \in Positive
  BY AccountAssumption DEF AccountTypes, Positive, Sides
<1>2. \A side \in Sides, n \in Nat :
        /\ Leg("btc", side, n, terms.mode) \in Legs
        /\ Leg("btc", side, n, terms.mode) =
             [symbol |-> "btc", side |-> side, size |-> n, mode |-> terms.mode,
              leverage |-> terms.leverage[terms.mode]]
  BY <1>1 DEF Leg, Legs
<1>3. OtherLeg \in Legs /\ OtherLeg.symbol = "eth" /\ OtherLeg.mode = "cross"
  BY <1>1 DEF OtherLeg, Leg, Legs, Sides, Modes
<1>4. CASE hedged
  <2> DEFINE a == Leg("btc", "long", legs["long"], terms.mode)
             b == Leg("btc", "short", legs["short"], terms.mode)
  <2>1. /\ a \in Legs /\ a.symbol = "btc" /\ a.side = "long"
        /\ a.mode = terms.mode /\ a.leverage = terms.leverage[terms.mode]
        /\ b \in Legs /\ b.symbol = "btc" /\ b.side = "short"
        /\ b.mode = terms.mode /\ b.leverage = terms.leverage[terms.mode]
    BY <1>1 DEF Leg, Legs, Sides
  <2>2. OwnLegs = <<a, b>>
    BY <1>4 DEF OwnLegs
  <2> HIDE DEF a, b
  <2>3. /\ AllLegs \in Seq(Legs) /\ Len(AllLegs) = 3
        /\ AllLegs[1] = a /\ AllLegs[2] = b /\ AllLegs[3] = OtherLeg
    <3>1. <<a, b>> \in Seq(Legs)
      BY <2>1
    <3> QED
      BY <1>3, <2>2, <3>1 DEF AllLegs
  <2> QED
    BY <1>3, <2>1, <2>2, <2>3
<1>5. CASE ~hedged
  <2> DEFINE a == Leg("btc", IF legs["short"] > 0 THEN "short" ELSE "long",
                      legs["long"] + legs["short"], terms.mode)
  <2>1. /\ a \in Legs /\ a.symbol = "btc"
        /\ a.mode = terms.mode /\ a.leverage = terms.leverage[terms.mode]
    BY <1>1 DEF Leg, Legs, Sides
  <2>2. OwnLegs = <<a>>
    BY <1>5 DEF OwnLegs
  <2> HIDE DEF a
  <2>3. AllLegs \in Seq(Legs) /\ Len(AllLegs) = 2 /\ AllLegs[1] = a /\ AllLegs[2] = OtherLeg
    <3>1. <<a>> \in Seq(Legs)
      BY <2>1
    <3> QED
      BY <1>3, <2>2, <3>1 DEF AllLegs
  <2> QED
    BY <1>3, <2>1, <2>2, <2>3
<1> QED
  BY <1>4, <1>5

LEMMA ViewIsTrue ==
  ASSUME AccountTypes, CrossOnly => terms.mode = "cross", NEW leg \in Legs, Open(leg),
         leg.mode \in {"cross", terms.mode}
  PROVE  /\ ClientView(leg) = IF trader = "kraken" THEN [TrueView(leg) EXCEPT !.leverage = kept.leverage]
                              ELSE TrueView(leg)
<1>1. leg.size \in Nat /\ leg.size > 0 /\ leg.side \in {"long", "short"} /\ leg.mode \in {"cross", "isolated"}
      /\ leg.leverage \in Nat /\ leg.leverage # 0
  BY DEF Legs, Open, Sides, Modes, Positive
<1>2. Abs(Signed(leg)) = leg.size /\ Abs(leg.size) = leg.size /\ Signed(leg) \in Int /\ (Signed(leg) < 0 <=> leg.side = "short")
      /\ (Signed(leg) > 0 <=> leg.side = "long")
  BY <1>1 DEF Signed, Abs
<1>3. CASE trader = "binance"
  BY <1>1, <1>2, <1>3 DEF ClientView, TrueView, BinanceRow, BinancePosition, Position
<1>4. CASE trader = "bitget"
  BY <1>1, <1>2, <1>4 DEF ClientView, TrueView, BitgetRow, BitgetPosition, Position
<1>5. CASE trader = "bybit"
  BY <1>1, <1>2, <1>5 DEF ClientView, TrueView, BybitRow, BybitPosition, Position
<1>6. CASE trader = "gate"
  BY <1>1, <1>2, <1>6 DEF ClientView, TrueView, GateRow, GatePosition, Position
<1>7. CASE trader = "htx"
  BY <1>1, <1>2, <1>7 DEF ClientView, TrueView, HtxRow, HtxPosition, Position, CrossOnly
<1>8. CASE trader = "kraken"
  BY <1>1, <1>2, <1>8 DEF ClientView, TrueView, KrakenRow, KrakenPosition, Position, CrossOnly
<1>9. CASE trader = "kucoin"
  BY <1>1, <1>2, <1>9 DEF ClientView, TrueView, KuCoinRow, KuCoinPosition, Position
<1>10. CASE trader = "okx"
  BY <1>1, <1>2, <1>10 DEF ClientView, TrueView, OkxRow, OkxPosition, Position
<1> QED
  BY <1>3, <1>4, <1>5, <1>6, <1>7, <1>8, <1>9, <1>10 DEF AccountTypes, Futures

(***************************************************************************)
(* The rows that a venue lists, flat legs or not.                          *)
(***************************************************************************)
Lists(p, n, list, wanted) ==
  /\ n \in Nat /\ p \in [1..n -> DOMAIN AllLegs] /\ IsInjective(p)
  /\ \A j \in DOMAIN AllLegs : Counted(AllLegs[j], wanted) => \E k \in 1..n : p[k] = j
  /\ list = [k \in 1..n |-> AllLegs[p[k]]]

\* If the venue was wanted for the one market, no other is listed.
Narrow(p, n, list) == list = OwnLegs => \A k \in 1..n : AllLegs[p[k]].symbol = "btc"
OpenOnly(p, n) == \A k \in 1..n : Open(AllLegs[p[k]])
OpenOf(list) == Chosen(list, {i \in DOMAIN list : Open(list[i])})

LEMMA LegsListed ==
  ASSUME AccountTypes, NEW wanted \in {"btc", "all"}, NEW list \in {AllLegs, OwnLegs},
         wanted = "all" => list = AllLegs
  PROVE  /\ \E n, p : Lists(p, n, list, wanted) /\ Narrow(p, n, list)
         /\ \E n, p : Lists(p, n, OpenOf(list), wanted) /\ OpenOnly(p, n) /\ Narrow(p, n, list)
<1> DEFINE n == Len(list)
           opens == {i \in DOMAIN list : Open(list[i])}
           p == [k \in 1..n |-> k]
           q == Places(n, opens)
<1>1. /\ list \in Seq(Legs) /\ n \in Nat /\ DOMAIN list = 1..n /\ 1..n \subseteq DOMAIN AllLegs
      /\ \A j \in 1..n : list[j] = AllLegs[j]
      /\ \A j \in DOMAIN AllLegs : Counted(AllLegs[j], wanted) => j \in 1..n
      /\ list = OwnLegs => \A k \in 1..n : AllLegs[k].symbol = "btc"
  <2>1. /\ Len(AllLegs) \in Nat /\ Len(OwnLegs) \in Nat
        /\ DOMAIN AllLegs = 1..Len(AllLegs) /\ DOMAIN OwnLegs = 1..Len(OwnLegs)
    BY TheLegs
  <2>2. CASE list = AllLegs /\ list # OwnLegs
    BY <2>1, <2>2, TheLegs
  <2>3. CASE list = OwnLegs
    <3>1. AllLegs # OwnLegs
      BY <2>1, TheLegs
    <3>2. wanted = "btc"
      BY <2>3, <3>1
    <3>3. \A j \in DOMAIN AllLegs : j \notin 1..n => j = Len(OwnLegs) + 1
      BY <2>1, <2>3, TheLegs
    <3> QED
      BY <2>1, <2>3, <3>2, <3>3, TheLegs DEF Counted
  <2> QED
    BY <2>2, <2>3
<1>2. Lists(p, n, list, wanted) /\ Narrow(p, n, list)
  BY <1>1 DEF Lists, IsInjective, Narrow
<1>3. /\ q \in Seq(1..n)
      /\ \A k \in DOMAIN q : q[k] \in opens
      /\ \A j \in 1..n : j \in opens => \E k \in DOMAIN q : q[k] = j
      /\ \A k, l \in DOMAIN q : q[k] = q[l] => k = l
  <2> HIDE DEF opens, n
  <2> QED
    BY <1>1, PlacesAre
<1>4. Chosen(list, opens) = [k \in DOMAIN q |-> list[q[k]]]
  <2> HIDE DEF opens
  <2> QED
    BY <1>1, ChosenByPlaces
<1> HIDE DEF q, n
<1>5. Len(q) \in Nat /\ DOMAIN q = 1..Len(q) /\ q \in [1..Len(q) -> 1..n]
  BY <1>1, <1>3
<1>6. Lists(q, Len(q), Chosen(list, opens), wanted)
  <2>1. q \in [1..Len(q) -> DOMAIN AllLegs] /\ IsInjective(q)
    BY <1>1, <1>3, <1>5 DEF IsInjective
  <2>2. \A j \in DOMAIN AllLegs : Counted(AllLegs[j], wanted) => \E k \in 1..Len(q) : q[k] = j
    BY <1>1, <1>3, <1>5 DEF Counted
  <2>3. \A k \in 1..Len(q) : list[q[k]] = AllLegs[q[k]]
    BY <1>1, <1>5
  <2>4. Chosen(list, opens) = [k \in 1..Len(q) |-> AllLegs[q[k]]]
    BY <1>4, <1>5, <2>3
  <2> HIDE DEF opens
  <2> QED
    BY <1>5, <2>1, <2>2, <2>4 DEF Lists
<1>7. OpenOnly(q, Len(q)) /\ Narrow(q, Len(q), list)
  BY <1>1, <1>3, <1>5 DEF OpenOnly, Narrow
<1> HIDE DEF p, opens
<1>8. \E m, t : Lists(t, m, list, wanted) /\ Narrow(t, m, list)
  BY <1>2, Zenon
<1>9. Lists(q, Len(q), OpenOf(list), wanted)
  BY <1>6 DEF OpenOf, opens
<1>10. \E m, t : Lists(t, m, OpenOf(list), wanted) /\ OpenOnly(t, m) /\ Narrow(t, m, list)
  BY <1>7, <1>9, Zenon
<1> QED
  BY <1>8, <1>10, Zenon

\* A list of n values.
ListOf(n, list) == list = [i \in 1..n |-> list[i]]

LEMMA ListsAreSequences ==
  ASSUME NEW n \in Nat, NEW list, ListOf(n, list)
  PROVE  list \in Seq({list[i] : i \in 1..n}) /\ Len(list) = n
<1> DEFINE S == {list[i] : i \in 1..n}
<1>1. \A i \in 1..n : list[i] \in S
  OBVIOUS
<1> HIDE DEF S
<1>2. list \in Seq(S) /\ Len(list) = n
  BY <1>1 DEF ListOf
<1> QED
  BY <1>2 DEF S

Follow(given, chosen) == given = [k \in DOMAIN chosen |-> given[k]]

LEMMA ChoiceShows ==
  ASSUME AccountTypes, NEW wanted, NEW n, NEW p, NEW list, Lists(p, n, list, wanted),
         NEW rows, ListOf(n, rows),
         NEW W, \A k \in 1..n : k \in W <=> Counted(AllLegs[p[k]], wanted),
         NEW given, Follow(given, Chosen(rows, W)),
         \A k \in DOMAIN given : \A i \in 1..n :
            i \in W /\ Chosen(rows, W)[k] = rows[i] => given[k] = ClientView(AllLegs[p[i]])
  PROVE  ShowsEach(given, wanted)
<1> DEFINE q == Places(n, W)
           t == [k \in 1..Len(q) |-> p[q[k]]]
           S == {rows[i] : i \in 1..n}
<1>1. n \in Nat /\ rows \in Seq(S) /\ Len(rows) = n
  BY ListsAreSequences DEF Lists
<1>2. /\ q \in Seq(1..n)
      /\ \A k \in DOMAIN q : q[k] \in W
      /\ \A j \in 1..n : j \in W => \E k \in DOMAIN q : q[k] = j
      /\ \A k, l \in DOMAIN q : q[k] = q[l] => k = l
  BY <1>1, PlacesAre
<1>3. Chosen(rows, W) = [k \in DOMAIN q |-> rows[q[k]]]
  <2> HIDE DEF S
  <2>1. rows \in Seq(S)
    BY <1>1
  <2>2. Chosen(rows, W) = [k \in DOMAIN Places(Len(rows), W) |-> rows[Places(Len(rows), W)[k]]]
    BY <2>1, ChosenByPlaces
  <2> QED
    BY <1>1, <2>2
<1> HIDE DEF q, S
<1>4. Len(q) \in Nat /\ DOMAIN q = 1..Len(q) /\ \A k \in 1..Len(q) : q[k] \in 1..n
  <2> DEFINE D == 1..n
  <2>1. q \in Seq(D)
    BY <1>2
  <2> HIDE DEF D
  <2>2. Len(q) \in Nat /\ DOMAIN q = 1..Len(q) /\ \A k \in 1..Len(q) : q[k] \in D
    BY <2>1
  <2> QED
    BY <2>2 DEF D
<1>5. t \in [1..Len(q) -> DOMAIN AllLegs] /\ IsInjective(t)
  BY <1>2, <1>4 DEF Lists, IsInjective
<1>6. ASSUME NEW j \in DOMAIN AllLegs
      PROVE  Counted(AllLegs[j], wanted) <=> \E k \in 1..Len(q) : t[k] = j
  <2>1. ASSUME Counted(AllLegs[j], wanted) PROVE \E k \in 1..Len(q) : t[k] = j
    <3>1. PICK i \in 1..n : p[i] = j
      BY <2>1 DEF Lists
    <3>2. i \in W
      BY <2>1, <3>1
    <3> QED
      BY <1>2, <1>4, <3>1, <3>2
  <2>2. ASSUME NEW k \in 1..Len(q), t[k] = j PROVE Counted(AllLegs[j], wanted)
    BY <1>2, <1>4, <2>2
  <2> QED
    BY <2>1, <2>2
<1>7. given = [k \in 1..Len(q) |-> ClientView(AllLegs[t[k]])]
  <2>1. DOMAIN Chosen(rows, W) = 1..Len(q) /\ \A k \in 1..Len(q) : Chosen(rows, W)[k] = rows[q[k]]
    BY <1>3, <1>4
  <2>2. DOMAIN given = 1..Len(q) /\ given = [k \in 1..Len(q) |-> given[k]]
    BY <2>1 DEF Follow
  <2>3. ASSUME NEW k \in 1..Len(q) PROVE given[k] = ClientView(AllLegs[p[q[k]]])
    <3>1. q[k] \in 1..n /\ q[k] \in W /\ k \in DOMAIN given /\ Chosen(rows, W)[k] = rows[q[k]]
      BY <1>2, <1>4, <2>1, <2>2
    <3> QED
      BY <3>1
  <2> QED
    BY <2>2, <2>3
<1> HIDE DEF t
<1> QED
  BY <1>4, <1>5, <1>6, <1>7 DEF ShowsEach

\* Nothing but what was wanted for is listed.
OnlyThose(p, n, wanted) == \A k \in 1..n : wanted \in {"all", AllLegs[p[k]].symbol}

LEMMA AnswersShow ==
  ASSUME AccountTypes, NEW wanted \in {"btc", "all"}, NEW n, NEW p, NEW list, Lists(p, n, list, wanted)
  PROVE  /\ trader = "bitget" => ShowsEach(BitgetPositions(Each(BitgetRow, list), wanted), wanted)
         /\ trader = "gate" => ShowsEach(GatePositions(Each(GateRow, list), wanted), wanted)
         /\ trader = "kucoin" => ShowsEach(KuCoinPositions(Each(KuCoinRow, list), wanted), wanted)
         /\ trader = "kraken" /\ OpenOnly(p, n) =>
              ShowsEach(KrakenPositions(Each(KrakenRow, list), wanted), wanted)
         /\ OnlyThose(p, n, wanted) =>
              /\ trader = "binance" => ShowsEach(BinancePositions(Each(BinanceRow, list)), wanted)
              /\ trader = "bybit" => ShowsEach(BybitPositions(Each(BybitRow, list)), wanted)
              /\ trader = "okx" => ShowsEach(OkxPositions(Each(OkxRow, list)), wanted)
              /\ trader = "htx" /\ OpenOnly(p, n) => ShowsEach(HtxPositions(Each(HtxRow, list)), wanted)
<1>1. /\ n \in Nat /\ DOMAIN list = 1..n /\ \A i \in 1..n : list[i] = AllLegs[p[i]] /\ AllLegs[p[i]] \in Legs
  BY TheLegs DEF Lists
<1>2. \A i \in 1..n : /\ AllLegs[p[i]].size \in Nat
                     /\ (Open(AllLegs[p[i]]) <=> AllLegs[p[i]].size # 0)
                     /\ (Signed(AllLegs[p[i]]) # 0 <=> AllLegs[p[i]].size # 0)
  BY <1>1 DEF Legs, Open, Signed
<1>3. ASSUME trader = "bitget"
      PROVE  ShowsEach(BitgetPositions(Each(BitgetRow, list), wanted), wanted)
  <2> DEFINE rows == Each(BitgetRow, list)
             W == {i \in DOMAIN rows : wanted \in {"all", rows[i].symbol} /\ rows[i].total # 0}
             given == BitgetPositions(Each(BitgetRow, list), wanted)
  <2>1. /\ ListOf(n, rows) /\ DOMAIN rows = 1..n
        /\ \A i \in 1..n : rows[i] = BitgetRow(AllLegs[p[i]])
    BY <1>1 DEF Each, ListOf
  <2>2. /\ Follow(given, Chosen(rows, W))
        /\ \A k \in DOMAIN given : given[k] = BitgetPosition(Chosen(rows, W)[k])
    BY DEF BitgetPositions, Each, Follow
  <2>3. \A leg : ClientView(leg) = BitgetPosition(BitgetRow(leg))
    BY <1>3 DEF ClientView
  <2> HIDE DEF rows, given
  <2>4. ASSUME NEW k \in 1..n PROVE k \in W <=> Counted(AllLegs[p[k]], wanted)
    <3>1. k \in DOMAIN rows /\ rows[k] = BitgetRow(AllLegs[p[k]])
      BY <2>1
    <3>2. k \in W <=> (wanted \in {"all", rows[k].symbol} /\ rows[k].total # 0)
      BY <3>1
    <3> QED
      BY <1>2, <1>3, <3>1, <3>2 DEF BitgetRow, Counted
  <2> HIDE DEF W
  <2>5. \A k \in DOMAIN given : \A i \in 1..n :
          i \in W /\ Chosen(rows, W)[k] = rows[i] => given[k] = ClientView(AllLegs[p[i]])
    BY <2>1, <2>2, <2>3
  <2>6. Follow(given, Chosen(rows, W)) /\ ListOf(n, rows)
    BY <2>1, <2>2
  <2>7. ShowsEach(given, wanted)
    BY <2>4, <2>5, <2>6, ChoiceShows
  <2> QED
    BY <2>7 DEF given
<1>4. ASSUME trader = "gate"
      PROVE  ShowsEach(GatePositions(Each(GateRow, list), wanted), wanted)
  <2> DEFINE rows == Each(GateRow, list)
             W == {i \in DOMAIN rows : rows[i].size # 0 /\ wanted \in {"all", rows[i].contract}}
             given == GatePositions(Each(GateRow, list), wanted)
  <2>1. /\ ListOf(n, rows) /\ DOMAIN rows = 1..n
        /\ \A i \in 1..n : rows[i] = GateRow(AllLegs[p[i]])
    BY <1>1 DEF Each, ListOf
  <2>2. /\ Follow(given, Chosen(rows, W))
        /\ \A k \in DOMAIN given : given[k] = GatePosition(Chosen(rows, W)[k])
    BY DEF GatePositions, Each, Follow
  <2>3. \A leg : ClientView(leg) = GatePosition(GateRow(leg))
    BY <1>4 DEF ClientView
  <2> HIDE DEF rows, given
  <2>4. ASSUME NEW k \in 1..n PROVE k \in W <=> Counted(AllLegs[p[k]], wanted)
    <3>1. k \in DOMAIN rows /\ rows[k] = GateRow(AllLegs[p[k]])
      BY <2>1
    <3>2. k \in W <=> (rows[k].size # 0 /\ wanted \in {"all", rows[k].contract})
      BY <3>1
    <3> QED
      BY <1>2, <1>4, <3>1, <3>2 DEF GateRow, Counted
  <2> HIDE DEF W
  <2>5. \A k \in DOMAIN given : \A i \in 1..n :
          i \in W /\ Chosen(rows, W)[k] = rows[i] => given[k] = ClientView(AllLegs[p[i]])
    BY <2>1, <2>2, <2>3
  <2>6. Follow(given, Chosen(rows, W)) /\ ListOf(n, rows)
    BY <2>1, <2>2
  <2>7. ShowsEach(given, wanted)
    BY <2>4, <2>5, <2>6, ChoiceShows
  <2> QED
    BY <2>7 DEF given
<1>5. ASSUME trader = "kucoin"
      PROVE  ShowsEach(KuCoinPositions(Each(KuCoinRow, list), wanted), wanted)
  <2> DEFINE rows == Each(KuCoinRow, list)
             W == {i \in DOMAIN rows : wanted \in {"all", rows[i].symbol} /\ rows[i].qty # 0}
             given == KuCoinPositions(Each(KuCoinRow, list), wanted)
  <2>1. /\ ListOf(n, rows) /\ DOMAIN rows = 1..n
        /\ \A i \in 1..n : rows[i] = KuCoinRow(AllLegs[p[i]])
    BY <1>1 DEF Each, ListOf
  <2>2. /\ Follow(given, Chosen(rows, W))
        /\ \A k \in DOMAIN given : given[k] = KuCoinPosition(Chosen(rows, W)[k])
    BY DEF KuCoinPositions, Each, Follow
  <2>3. \A leg : ClientView(leg) = KuCoinPosition(KuCoinRow(leg))
    BY <1>5 DEF ClientView
  <2> HIDE DEF rows, given
  <2>4. ASSUME NEW k \in 1..n PROVE k \in W <=> Counted(AllLegs[p[k]], wanted)
    <3>1. k \in DOMAIN rows /\ rows[k] = KuCoinRow(AllLegs[p[k]])
      BY <2>1
    <3>2. k \in W <=> (wanted \in {"all", rows[k].symbol} /\ rows[k].qty # 0)
      BY <3>1
    <3> QED
      BY <1>2, <1>5, <3>1, <3>2 DEF KuCoinRow, Counted
  <2> HIDE DEF W
  <2>5. \A k \in DOMAIN given : \A i \in 1..n :
          i \in W /\ Chosen(rows, W)[k] = rows[i] => given[k] = ClientView(AllLegs[p[i]])
    BY <2>1, <2>2, <2>3
  <2>6. Follow(given, Chosen(rows, W)) /\ ListOf(n, rows)
    BY <2>1, <2>2
  <2>7. ShowsEach(given, wanted)
    BY <2>4, <2>5, <2>6, ChoiceShows
  <2> QED
    BY <2>7 DEF given
<1>6. ASSUME trader = "kraken", OpenOnly(p, n)
      PROVE  ShowsEach(KrakenPositions(Each(KrakenRow, list), wanted), wanted)
  <2> DEFINE rows == Each(KrakenRow, list)
             W == {i \in DOMAIN rows : wanted \in {"all", rows[i].symbol}}
             given == KrakenPositions(Each(KrakenRow, list), wanted)
  <2>1. /\ ListOf(n, rows) /\ DOMAIN rows = 1..n
        /\ \A i \in 1..n : rows[i] = KrakenRow(AllLegs[p[i]])
    BY <1>1 DEF Each, ListOf
  <2>2. /\ Follow(given, Chosen(rows, W))
        /\ \A k \in DOMAIN given : given[k] = KrakenPosition(Chosen(rows, W)[k])
    BY DEF KrakenPositions, Each, Follow
  <2>3. \A leg : ClientView(leg) = KrakenPosition(KrakenRow(leg))
    BY <1>6 DEF ClientView
  <2> HIDE DEF rows, given
  <2>4. ASSUME NEW k \in 1..n PROVE k \in W <=> Counted(AllLegs[p[k]], wanted)
    <3>1. k \in DOMAIN rows /\ rows[k] = KrakenRow(AllLegs[p[k]])
      BY <2>1
    <3>2. k \in W <=> (wanted \in {"all", rows[k].symbol})
      BY <3>1
    <3> QED
      BY <1>2, <1>6, <3>1, <3>2 DEF KrakenRow, Counted, OpenOnly
  <2> HIDE DEF W
  <2>5. \A k \in DOMAIN given : \A i \in 1..n :
          i \in W /\ Chosen(rows, W)[k] = rows[i] => given[k] = ClientView(AllLegs[p[i]])
    BY <2>1, <2>2, <2>3
  <2>6. Follow(given, Chosen(rows, W)) /\ ListOf(n, rows)
    BY <2>1, <2>2
  <2>7. ShowsEach(given, wanted)
    BY <2>4, <2>5, <2>6, ChoiceShows
  <2> QED
    BY <2>7 DEF given
<1>7. ASSUME trader = "binance", OnlyThose(p, n, wanted)
      PROVE  ShowsEach(BinancePositions(Each(BinanceRow, list)), wanted)
  <2> DEFINE rows == Each(BinanceRow, list)
             W == {i \in DOMAIN rows : rows[i].amount # 0}
             given == BinancePositions(Each(BinanceRow, list))
  <2>1. /\ ListOf(n, rows) /\ DOMAIN rows = 1..n
        /\ \A i \in 1..n : rows[i] = BinanceRow(AllLegs[p[i]])
    BY <1>1 DEF Each, ListOf
  <2>2. /\ Follow(given, Chosen(rows, W))
        /\ \A k \in DOMAIN given : given[k] = BinancePosition(Chosen(rows, W)[k])
    BY DEF BinancePositions, Each, Follow
  <2>3. \A leg : ClientView(leg) = BinancePosition(BinanceRow(leg))
    BY <1>7 DEF ClientView
  <2> HIDE DEF rows, given
  <2>4. ASSUME NEW k \in 1..n PROVE k \in W <=> Counted(AllLegs[p[k]], wanted)
    <3>1. k \in DOMAIN rows /\ rows[k] = BinanceRow(AllLegs[p[k]])
      BY <2>1
    <3>2. k \in W <=> (rows[k].amount # 0)
      BY <3>1
    <3> QED
      BY <1>2, <1>7, <3>1, <3>2 DEF BinanceRow, Counted, OnlyThose
  <2> HIDE DEF W
  <2>5. \A k \in DOMAIN given : \A i \in 1..n :
          i \in W /\ Chosen(rows, W)[k] = rows[i] => given[k] = ClientView(AllLegs[p[i]])
    BY <2>1, <2>2, <2>3
  <2>6. Follow(given, Chosen(rows, W)) /\ ListOf(n, rows)
    BY <2>1, <2>2
  <2>7. ShowsEach(given, wanted)
    BY <2>4, <2>5, <2>6, ChoiceShows
  <2> QED
    BY <2>7 DEF given
<1>8. ASSUME trader = "bybit", OnlyThose(p, n, wanted)
      PROVE  ShowsEach(BybitPositions(Each(BybitRow, list)), wanted)
  <2> DEFINE rows == Each(BybitRow, list)
             W == {i \in DOMAIN rows : rows[i].size # 0}
             given == BybitPositions(Each(BybitRow, list))
  <2>1. /\ ListOf(n, rows) /\ DOMAIN rows = 1..n
        /\ \A i \in 1..n : rows[i] = BybitRow(AllLegs[p[i]])
    BY <1>1 DEF Each, ListOf
  <2>2. /\ Follow(given, Chosen(rows, W))
        /\ \A k \in DOMAIN given : given[k] = BybitPosition(Chosen(rows, W)[k])
    BY DEF BybitPositions, Each, Follow
  <2>3. \A leg : ClientView(leg) = BybitPosition(BybitRow(leg))
    BY <1>8 DEF ClientView
  <2> HIDE DEF rows, given
  <2>4. ASSUME NEW k \in 1..n PROVE k \in W <=> Counted(AllLegs[p[k]], wanted)
    <3>1. k \in DOMAIN rows /\ rows[k] = BybitRow(AllLegs[p[k]])
      BY <2>1
    <3>2. k \in W <=> (rows[k].size # 0)
      BY <3>1
    <3>3. rows[k].size = AllLegs[p[k]].size
      <4>1. \A leg : BybitRow(leg).size = leg.size
        BY DEF BybitRow
      <4> QED
        BY <3>1, <4>1
    <3> QED
      BY <1>2, <1>8, <3>1, <3>2, <3>3 DEF Counted, OnlyThose
  <2> HIDE DEF W
  <2>5. \A k \in DOMAIN given : \A i \in 1..n :
          i \in W /\ Chosen(rows, W)[k] = rows[i] => given[k] = ClientView(AllLegs[p[i]])
    BY <2>1, <2>2, <2>3
  <2>6. Follow(given, Chosen(rows, W)) /\ ListOf(n, rows)
    BY <2>1, <2>2
  <2>7. ShowsEach(given, wanted)
    BY <2>4, <2>5, <2>6, ChoiceShows
  <2> QED
    BY <2>7 DEF given
<1>9. ASSUME trader = "okx", OnlyThose(p, n, wanted)
      PROVE  ShowsEach(OkxPositions(Each(OkxRow, list)), wanted)
  <2> DEFINE rows == Each(OkxRow, list)
             W == {i \in DOMAIN rows : rows[i].pos # 0}
             given == OkxPositions(Each(OkxRow, list))
  <2>1. /\ ListOf(n, rows) /\ DOMAIN rows = 1..n
        /\ \A i \in 1..n : rows[i] = OkxRow(AllLegs[p[i]])
    BY <1>1 DEF Each, ListOf
  <2>2. /\ Follow(given, Chosen(rows, W))
        /\ \A k \in DOMAIN given : given[k] = OkxPosition(Chosen(rows, W)[k])
    BY DEF OkxPositions, Each, Follow
  <2>3. \A leg : ClientView(leg) = OkxPosition(OkxRow(leg))
    BY <1>9 DEF ClientView
  <2> HIDE DEF rows, given
  <2>4. ASSUME NEW k \in 1..n PROVE k \in W <=> Counted(AllLegs[p[k]], wanted)
    <3>1. k \in DOMAIN rows /\ rows[k] = OkxRow(AllLegs[p[k]])
      BY <2>1
    <3>2. k \in W <=> (rows[k].pos # 0)
      BY <3>1
    <3> QED
      BY <1>2, <1>9, <3>1, <3>2 DEF OkxRow, Counted, OnlyThose
  <2> HIDE DEF W
  <2>5. \A k \in DOMAIN given : \A i \in 1..n :
          i \in W /\ Chosen(rows, W)[k] = rows[i] => given[k] = ClientView(AllLegs[p[i]])
    BY <2>1, <2>2, <2>3
  <2>6. Follow(given, Chosen(rows, W)) /\ ListOf(n, rows)
    BY <2>1, <2>2
  <2>7. ShowsEach(given, wanted)
    BY <2>4, <2>5, <2>6, ChoiceShows
  <2> QED
    BY <2>7 DEF given
<1>10. ASSUME trader = "htx", OpenOnly(p, n), OnlyThose(p, n, wanted)
      PROVE  ShowsEach(HtxPositions(Each(HtxRow, list)), wanted)
  <2>1. \A leg : ClientView(leg) = HtxPosition(HtxRow(leg))
    BY <1>10 DEF ClientView
  <2>2. HtxPositions(Each(HtxRow, list)) = [k \in 1..n |-> ClientView(AllLegs[p[k]])]
    BY <1>1, <2>1 DEF HtxPositions, Each
  <2> QED
    BY <1>1, <1>10, <2>2 DEF ShowsEach, Lists, Counted, OpenOnly, OnlyThose
<1> QED
  BY <1>3, <1>4, <1>5, <1>6, <1>7, <1>8, <1>9, <1>10

LEMMA PositionsShow ==
  ASSUME AccountTypes, NEW wanted \in {"btc", "all"}, NEW flats \in BOOLEAN
  PROVE  ShowsEach(Positions(wanted, flats), wanted)
<1> DEFINE answered == IF wanted = "all" THEN AllLegs ELSE OwnLegs
<1>1. /\ \E n, p : Lists(p, n, answered, wanted) /\ Narrow(p, n, answered)
      /\ \E n, p : Lists(p, n, OpenOf(answered), wanted) /\ OpenOnly(p, n) /\ Narrow(p, n, answered)
  BY LegsListed
<1>2. /\ \E n, p : Lists(p, n, AllLegs, wanted)
      /\ \E n, p : Lists(p, n, OpenOf(AllLegs), wanted) /\ OpenOnly(p, n)
  BY LegsListed
<1>3. \A n, p : Narrow(p, n, answered) => OnlyThose(p, n, wanted)
  BY DEF Narrow, OnlyThose
<1> HIDE DEF answered
<1>4. \E n, p : /\ Lists(p, n, IF flats THEN answered ELSE OpenOf(answered), wanted) /\ OnlyThose(p, n, wanted)
  BY <1>1, <1>3
<1>5. \E n, p : /\ Lists(p, n, OpenOf(answered), wanted) /\ OpenOnly(p, n) /\ OnlyThose(p, n, wanted)
  BY <1>1, <1>3
<1>6. \E n, p : Lists(p, n, IF flats THEN AllLegs ELSE OpenOf(AllLegs), wanted)
  BY <1>2
<1>7. CASE trader = "binance"
  <2> DEFINE list == IF flats THEN answered ELSE OpenOf(answered)
  <2>1. Positions(wanted, flats) = BinancePositions(Each(BinanceRow, list))
    BY <1>7 DEF Positions, OpenOf, answered
  <2> QED
    BY <1>7, <1>4, <2>1, AnswersShow
<1>8. CASE trader = "bybit"
  <2> DEFINE list == IF flats THEN answered ELSE OpenOf(answered)
  <2>1. Positions(wanted, flats) = BybitPositions(Each(BybitRow, list))
    BY <1>8 DEF Positions, OpenOf, answered
  <2> QED
    BY <1>8, <1>4, <2>1, AnswersShow
<1>9. CASE trader = "okx"
  <2> DEFINE list == IF flats THEN answered ELSE OpenOf(answered)
  <2>1. Positions(wanted, flats) = OkxPositions(Each(OkxRow, list))
    BY <1>9 DEF Positions, OpenOf, answered
  <2> QED
    BY <1>9, <1>4, <2>1, AnswersShow
<1>10. CASE trader = "htx"
  <2> DEFINE list == OpenOf(answered)
  <2>1. Positions(wanted, flats) = HtxPositions(Each(HtxRow, list))
    BY <1>10 DEF Positions, OpenOf, answered
  <2> QED
    BY <1>10, <1>5, <2>1, AnswersShow
<1>11. CASE trader = "bitget"
  <2> DEFINE list == IF flats THEN AllLegs ELSE OpenOf(AllLegs)
  <2>1. Positions(wanted, flats) = BitgetPositions(Each(BitgetRow, list), wanted)
    BY <1>11 DEF Positions, OpenOf
  <2> QED
    BY <1>11, <1>6, <2>1, AnswersShow
<1>12. CASE trader = "gate"
  <2> DEFINE list == IF flats THEN AllLegs ELSE OpenOf(AllLegs)
  <2>1. Positions(wanted, flats) = GatePositions(Each(GateRow, list), wanted)
    BY <1>12 DEF Positions, OpenOf
  <2> QED
    BY <1>12, <1>6, <2>1, AnswersShow
<1>13. CASE trader = "kucoin"
  <2> DEFINE list == IF flats THEN AllLegs ELSE OpenOf(AllLegs)
  <2>1. Positions(wanted, flats) = KuCoinPositions(Each(KuCoinRow, list), wanted)
    BY <1>13 DEF Positions, OpenOf
  <2> QED
    BY <1>13, <1>6, <2>1, AnswersShow
<1>14. CASE trader = "kraken"
  <2> DEFINE list == OpenOf(AllLegs)
  <2>1. Positions(wanted, flats) = KrakenPositions(Each(KrakenRow, list), wanted)
    BY <1>14 DEF Positions, OpenOf
  <2> QED
    BY <1>14, <1>2, <2>1, AnswersShow
<1> QED
  BY <1>7, <1>8, <1>9, <1>10, <1>11, <1>12, <1>13, <1>14 DEF AccountTypes, Futures

LEMMA ReadTells ==
  ASSUME AccountTypes, CrossOnly => terms.mode = "cross", NEW given, ShowsEach(given, "btc"), given # <<>>
  PROVE  /\ given[1].margin_mode = terms.mode
         /\ given[1].leverage = IF trader = "kraken" THEN kept.leverage ELSE terms.leverage[terms.mode]
<1>1. PICK n \in Nat : \E p \in [1..n -> DOMAIN AllLegs] :
        /\ \A j \in DOMAIN AllLegs : Counted(AllLegs[j], "btc") <=> \E k \in 1..n : p[k] = j
        /\ given = [k \in 1..n |-> ClientView(AllLegs[p[k]])]
  BY DEF ShowsEach
<1>2. PICK p \in [1..n -> DOMAIN AllLegs] :
        /\ \A j \in DOMAIN AllLegs : Counted(AllLegs[j], "btc") <=> \E k \in 1..n : p[k] = j
        /\ given = [k \in 1..n |-> ClientView(AllLegs[p[k]])]
  BY <1>1
<1>3. 1 \in 1..n
  <2>1. CASE n = 0
    <3>1. 1..n = {}
      BY <2>1
    <3>2. given = <<>>
      BY <1>2, <3>1
    <3> QED
      BY <3>2
  <2> QED
    BY <2>1
<1>4. PICK j \in DOMAIN AllLegs : j = p[1]
  BY <1>3
<1>5. Counted(AllLegs[j], "btc") /\ given[1] = ClientView(AllLegs[j])
  BY <1>2, <1>3, <1>4
<1>6. /\ AllLegs[j] \in Legs /\ AllLegs[j].mode = terms.mode
      /\ AllLegs[j].leverage = terms.leverage[terms.mode]
  <2>1. AllLegs[j].symbol = "btc"
    BY <1>5 DEF Counted
  <2>2. /\ Len(AllLegs) \in Nat /\ Len(OwnLegs) \in Nat
        /\ DOMAIN AllLegs = 1..Len(AllLegs) /\ DOMAIN OwnLegs = 1..Len(OwnLegs)
    BY TheLegs
  <2>3. j \in DOMAIN OwnLegs
    BY <2>1, <2>2, TheLegs
  <2> QED
    BY <2>3, TheLegs
<1>7. given[1] = IF trader = "kraken" THEN [TrueView(AllLegs[j]) EXCEPT !.leverage = kept.leverage]
                ELSE TrueView(AllLegs[j])
  <2>1. Open(AllLegs[j]) /\ AllLegs[j].mode \in {"cross", terms.mode}
    BY <1>5, <1>6 DEF Counted
  <2> QED
    BY <1>5, <1>6, <2>1, ViewIsTrue
<1> QED
  BY <1>6, <1>7 DEF TrueView, Position

Blurred(q) == IF trader = "kraken" THEN [q EXCEPT !.leverage = 0] ELSE q

TrueShow(s) ==
  /\ {Blurred(s.seen[i]) : i \in DOMAIN s.seen} = {Blurred(q) : q \in s.was}
  /\ Cardinality(s.was) = Len(s.seen)

LEMMA ShowIsTrue ==
  ASSUME AccountTypes, CrossOnly => terms.mode = "cross", NEW wanted \in {"btc", "all"},
         NEW given, ShowsEach(given, wanted)
  PROVE  TrueShow([seen |-> given, was |-> HeldOf(wanted)])
<1> DEFINE C == {j \in DOMAIN AllLegs : Counted(AllLegs[j], wanted)}
           View(j) == TrueView(AllLegs[j])
           held == HeldOf(wanted)
<1>1. PICK n \in Nat : \E p \in [1..n -> DOMAIN AllLegs] :
        /\ IsInjective(p)
        /\ \A j \in DOMAIN AllLegs : Counted(AllLegs[j], wanted) <=> \E k \in 1..n : p[k] = j
        /\ given = [k \in 1..n |-> ClientView(AllLegs[p[k]])]
  BY DEF ShowsEach
<1>2. PICK p \in [1..n -> DOMAIN AllLegs] :
        /\ IsInjective(p)
        /\ \A j \in DOMAIN AllLegs : Counted(AllLegs[j], wanted) <=> \E k \in 1..n : p[k] = j
        /\ given = [k \in 1..n |-> ClientView(AllLegs[p[k]])]
  BY <1>1
<1>3. held = {View(j) : j \in C}
  <2> DEFINE D == {j \in DOMAIN AllLegs : Open(AllLegs[j]) /\ wanted \in {"all", AllLegs[j].symbol}}
  <2>1. D = C
    BY DEF Counted
  <2>2. held = {Position(leg.symbol, leg.side, leg.size, leg.leverage, leg.mode) :
                  leg \in {AllLegs[i] : i \in D}}
    BY DEF HeldOf
  <2> HIDE DEF D, C, held
  <2> QED
    BY <2>1, <2>2 DEF TrueView
<1>4. (\A k \in 1..n : p[k] \in C) /\ (\A j \in C : \E k \in 1..n : p[k] = j)
  BY <1>2
<1>5. \A j \in C : /\ AllLegs[j] \in Legs
                   /\ Blurred(ClientView(AllLegs[j])) = Blurred(View(j))
                   /\ View(j).symbol = AllLegs[j].symbol /\ View(j).side = AllLegs[j].side
  <2> TAKE j \in C
  <2>1. AllLegs[j] \in Legs /\ Open(AllLegs[j]) /\ AllLegs[j].mode \in {"cross", terms.mode}
    <3>1. /\ Len(AllLegs) \in Nat /\ Len(OwnLegs) \in Nat
          /\ DOMAIN AllLegs = 1..Len(AllLegs) /\ DOMAIN OwnLegs = 1..Len(OwnLegs)
      BY TheLegs
    <3>2. j \in DOMAIN OwnLegs \/ j = Len(OwnLegs) + 1
      BY <3>1, TheLegs
    <3> QED
      BY <3>1, <3>2, TheLegs DEF Counted
  <2>2. ClientView(AllLegs[j]) = IF trader = "kraken"
                                 THEN [View(j) EXCEPT !.leverage = kept.leverage] ELSE View(j)
    BY <2>1, ViewIsTrue
  <2> QED
    BY <2>1, <2>2 DEF Blurred, TrueView, Position
<1>6. DOMAIN given = 1..n /\ Len(given) = n /\ \A k \in 1..n : given[k] = ClientView(AllLegs[p[k]])
  BY <1>2
<1>7. \A i, j \in C : View(i) = View(j) => i = j
  BY SMTT(40), <1>5, TheLegs
<1> HIDE DEF C, View, held
<1>8. {Blurred(given[i]) : i \in DOMAIN given} = {Blurred(q) : q \in held}
  <2>1. \A i \in DOMAIN given : \E q \in held : Blurred(given[i]) = Blurred(q)
    BY <1>3, <1>4, <1>5, <1>6
  <2>2. \A q \in held : \E i \in DOMAIN given : Blurred(given[i]) = Blurred(q)
    BY <1>3, <1>4, <1>5, <1>6
  <2> QED
    BY <2>1, <2>2
<1>9. Cardinality(held) = n
  <2> DEFINE f == [k \in 1..n |-> View(p[k])]
  <2>1. f \in [1..n -> held] /\ \A k \in 1..n : f[k] = View(p[k])
    BY <1>3, <1>4
  <2>2. \A k, l \in 1..n : View(p[k]) = View(p[l]) => k = l
    BY <1>2, <1>4, <1>7 DEF IsInjective
  <2>3. \A q \in held : \E k \in 1..n : f[k] = q
    BY <1>3, <1>4, <2>1
  <2> HIDE DEF f
  <2>4. f \in Bijection(1..n, held)
    BY <2>1, <2>2, <2>3 DEF Bijection, Injection, Surjection, IsInjective
  <2> QED
    BY <2>4, FS_CountingElements DEF ExistsBijection
<1> QED
  BY <1>6, <1>8, <1>9 DEF TrueShow, held

-----------------------------------------------------------------------------
\* What a call says on an answer, and that it fits the terms t.
SaysOn(answer) ==
  LET now  == [m \in Modes |-> IF Asks.mode = m \/ trader \notin {"gate", "okx"}
                               THEN task.want ELSE said.leverage[m]]
      none == Unsaid.leverage
  IN IF answer = "lost" THEN [Unsaid EXCEPT !.mode = IF ModeOnOrder THEN said.mode ELSE "none"]
     ELSE IF answer = "refused"
     THEN IF task.op = "leverage" THEN [said EXCEPT !.leverage = none] ELSE said
     ELSE IF task.op = "leverage"
     THEN [mode |-> IF trader = "gate" THEN Asks.mode ELSE said.mode,
           leverage |-> IF task.want = 0 THEN none ELSE now]
     ELSE [mode |-> task.want,
           leverage |-> IF trader = "okx"
                        THEN [said.leverage EXCEPT ![task.want] =
                                IF task.read = <<>> THEN 0 ELSE task.read[1].leverage]
                        ELSE IF trader = "bybit" /\ task.read = <<>> THEN none ELSE said.leverage]

Fits(s, t) ==
  /\ ~ModeOnOrder => s.mode \in {"none", t.mode}
  /\ \A m \in Modes : s.leverage[m] # 0 =>
       s.leverage[m] = IF trader \in {"htx", "kucoin"} THEN kept.leverage ELSE t.leverage[m]
  /\ trader = "gate" => /\ s.leverage["cross"] = 0
                        /\ s.leverage["isolated"] # 0 => s.leverage["isolated"] = kept.leverage

TermsType == [mode : Modes, leverage : [Modes -> Positive]]
SaidType == [mode : Modes \cup {"none"}, leverage : [Modes -> Nat]]

LEMMA FitsNow ==
  ASSUME NEW s
  PROVE  Fits(s, terms) <=> ModeFits(s) /\ LeverageFits(s) /\ GateFits(s)
BY DEF Fits, ModeFits, LeverageFits, GateFits, Runs

LEMMA SaysIt ==
  ASSUME TaskFits, task.pc = "answered"
  PROVE  Says = SaysOn(task.answer)
<1>1. task.answer \in {"done", "lost", "refused"}
  BY DEF TaskFits
<1>2. CASE task.answer = "lost"
  BY <1>2 DEF Says, SaysOn
<1>3. CASE task.answer = "refused"
  BY <1>3 DEF Says, SaysOn
<1>4. CASE task.answer = "done" /\ task.op = "leverage"
  BY <1>4 DEF Says, SaysOn
<1>5. CASE task.answer = "done" /\ task.op # "leverage"
  BY <1>5 DEF Says, SaysOn
<1> QED
  BY <1>1, <1>2, <1>3, <1>4, <1>5

LEMMA SaysFollow ==
  ASSUME AccountTypes, TaskFits, UNCHANGED <<trader, kept, said>>, NEW a \in {"done", "lost", "refused"},
         task' = [task EXCEPT !.pc = "answered", !.answer = a]
  PROVE  Says' = SaysOn(a)
<1>1. /\ task'.op = task.op /\ task'.want = task.want /\ task'.read = task.read /\ task'.answer = a
      /\ trader' = trader /\ kept' = kept /\ said' = said
  BY DEF TaskFits
<1>2. Asks' = Asks
  <2>1. trader \in Futures
    BY DEF AccountTypes
  <2>2. CASE trader = "binance"
    BY <1>1, <2>2 DEF Asks, Setter, LeverageSetter, MarginModeSetter, BinanceSetLeverage, BinanceSetMarginMode,
         Only, Sets, Ask, AsksNothing, AtLeastOne
  <2>3. CASE trader = "bitget"
    BY <1>1, <2>3 DEF Asks, Setter, LeverageSetter, MarginModeSetter, BitgetSetLeverage, BitgetSetMarginMode,
         Only, Sets, Ask, AsksNothing, AtLeastOne
  <2>4. CASE trader = "bybit"
    BY <1>1, <2>4 DEF Asks, Setter, LeverageSetter, MarginModeSetter, BybitSetLeverage, BybitSetMarginMode,
         Only, Sets, Ask, AsksNothing, AtLeastOne
  <2>5. CASE trader = "gate"
    BY <1>1, <2>5 DEF Asks, Setter, LeverageSetter, MarginModeSetter, GateSetLeverage, GateSetMarginMode,
         Only, Sets, Ask, AsksNothing, AtLeastOne, GateApplyLeverage
  <2>6. CASE trader = "htx"
    BY <1>1, <2>6 DEF Asks, Setter, LeverageSetter, MarginModeSetter, HtxSetLeverage, HtxSetMarginMode,
         Only, Sets, Ask, AsksNothing, AtLeastOne
  <2>7. CASE trader = "kraken"
    BY <1>1, <2>7 DEF Asks, Setter, LeverageSetter, MarginModeSetter, KrakenSetLeverage, KrakenSetMarginMode,
         Only, Sets, Ask, AsksNothing, AtLeastOne
  <2>8. CASE trader = "kucoin"
    BY <1>1, <2>8 DEF Asks, Setter, LeverageSetter, MarginModeSetter, KuCoinSetLeverage, KuCoinSetMarginMode,
         Only, Sets, Ask, AsksNothing, AtLeastOne
  <2>9. CASE trader = "okx"
    BY <1>1, <2>9 DEF Asks, Setter, LeverageSetter, MarginModeSetter, OkxSetLeverage, OkxSetMarginMode,
         Only, Sets, Ask, AsksNothing, AtLeastOne, OkxApplyLeverage, CurrentMarginMode
  <2> QED
    BY <2>1, <2>2, <2>3, <2>4, <2>5, <2>6, <2>7, <2>8, <2>9 DEF Futures
<1>3. ModeOnOrder' = ModeOnOrder
  BY <1>1 DEF ModeOnOrder
<1>4. CASE a = "lost"
  BY <1>1, <1>3, <1>4 DEF Says, SaysOn, Unsaid, Modes
<1>5. CASE a = "refused"
  BY <1>1, <1>5 DEF Says, SaysOn, Unsaid, Modes
<1>6. CASE a = "done" /\ task.op = "leverage"
  BY <1>1, <1>2, <1>6 DEF Says, SaysOn, Unsaid, Modes
<1>7. CASE a = "done" /\ task.op # "leverage"
  BY <1>1, <1>2, <1>7 DEF Says, SaysOn, Unsaid, Modes
<1> QED
  BY <1>4, <1>5, <1>6, <1>7

(***************************************************************************)
(* What is wanted of the venue.                                             *)
(***************************************************************************)
LEMMA TheAsks ==
  ASSUME AccountTypes, TaskFits
  PROVE  /\ task.op = "leverage" =>
              Asks = CASE trader = "gate" -> Ask(task.want, IF task.want = 0 THEN "cross" ELSE "isolated")
                       [] trader = "kucoin" -> AsksNothing
                       [] trader = "okx" -> Ask(task.want, CurrentMarginMode(task.read))
                       [] trader \in {"htx", "kraken"} -> Ask(AtLeastOne(task.want), "same")
                       [] OTHER -> Ask(task.want, "same")
         /\ task.op = "mode" =>
              Asks = CASE trader = "gate" -> IF task.want = "cross" THEN Ask(0, "cross")
                                             ELSE Ask(kept.leverage, "isolated")
                       [] CrossOnly -> AsksNothing
                       [] trader = "bybit" -> Ask(IF task.read = <<>> THEN 10 ELSE task.read[1].leverage, task.want)
                       [] trader = "okx" -> Ask(IF task.read = <<>> THEN 3 ELSE task.read[1].leverage, task.want)
                       [] OTHER -> Ask(0, task.want)
<1>1. trader \in Futures /\ kept.leverage \in Nat /\ kept.leverage # 0
  BY DEF AccountTypes, Positive
<1>2. ASSUME task.op = "leverage"
      PROVE  Asks = LeverageSetter(task.want, task.read).asks
  BY <1>2 DEF Asks, Setter
<1>3. ASSUME task.op = "mode"
      PROVE  Asks = MarginModeSetter(task.want, task.read).asks
  BY <1>3 DEF Asks, Setter
<1>4. task.op = "mode" => task.want \in Modes
  BY DEF TaskFits
<1>5. CASE trader = "binance"
  BY <1>1, <1>2, <1>3, <1>4, <1>5 DEF LeverageSetter, MarginModeSetter, BinanceSetLeverage, BinanceSetMarginMode,
       Only, Sets, Ask, AsksNothing, AtLeastOne, CrossOnly, Modes
<1>6. CASE trader = "bitget"
  BY <1>1, <1>2, <1>3, <1>4, <1>6 DEF LeverageSetter, MarginModeSetter, BitgetSetLeverage, BitgetSetMarginMode,
       Only, Sets, Ask, AsksNothing, AtLeastOne, CrossOnly, Modes
<1>7. CASE trader = "bybit"
  BY <1>1, <1>2, <1>3, <1>4, <1>7 DEF LeverageSetter, MarginModeSetter, BybitSetLeverage, BybitSetMarginMode,
       Only, Sets, Ask, AsksNothing, AtLeastOne, CrossOnly, Modes
<1>8. CASE trader = "gate"
  BY <1>1, <1>2, <1>3, <1>4, <1>8 DEF LeverageSetter, MarginModeSetter, GateSetLeverage, GateSetMarginMode,
       Only, Sets, Ask, AsksNothing, AtLeastOne, CrossOnly, Modes, GateApplyLeverage
<1>9. CASE trader = "htx"
  BY <1>1, <1>2, <1>3, <1>4, <1>9 DEF LeverageSetter, MarginModeSetter, HtxSetLeverage, HtxSetMarginMode,
       Only, Sets, Ask, AsksNothing, AtLeastOne, CrossOnly, Modes
<1>10. CASE trader = "kraken"
  BY <1>1, <1>2, <1>3, <1>4, <1>10 DEF LeverageSetter, MarginModeSetter, KrakenSetLeverage, KrakenSetMarginMode,
       Only, Sets, Ask, AsksNothing, AtLeastOne, CrossOnly, Modes
<1>11. CASE trader = "kucoin"
  BY <1>1, <1>2, <1>3, <1>4, <1>11 DEF LeverageSetter, MarginModeSetter, KuCoinSetLeverage, KuCoinSetMarginMode,
       Only, Sets, Ask, AsksNothing, AtLeastOne, CrossOnly, Modes
<1>12. CASE trader = "okx"
  BY <1>1, <1>2, <1>3, <1>4, <1>12 DEF LeverageSetter, MarginModeSetter, OkxSetLeverage, OkxSetMarginMode,
       Only, Sets, Ask, AsksNothing, AtLeastOne, CrossOnly, Modes, OkxApplyLeverage
<1> QED
  BY <1>1, <1>5, <1>6, <1>7, <1>8, <1>9, <1>10, <1>11, <1>12 DEF Futures

\* What the venue's terms become when it does what is wanted.
NewTerms ==
  IF trader = "okx" THEN [terms EXCEPT !.leverage[Asks.mode] = Asks.leverage]
  ELSE [mode |-> IF Asks.mode = "same" THEN terms.mode ELSE Asks.mode,
        leverage |-> [m \in Modes |->
          IF Asks.leverage = 0 THEN terms.leverage[m] ELSE Asks.leverage]]

LEMMA LeverageIsSaid ==
  ASSUME AccountTypes, TaskFits, task.op = "leverage", task.pc = "send", NEW m \in Modes
  PROVE  /\ SaysOn("done").mode = IF trader = "gate" THEN Asks.mode ELSE said.mode
         /\ SaysOn("done").leverage[m] =
              IF task.want = 0 THEN 0
              ELSE IF Asks.mode = m \/ trader \notin {"gate", "okx"} THEN task.want
              ELSE said.leverage[m]
BY DEF SaysOn, Unsaid

LEMMA ModeIsSaid ==
  ASSUME AccountTypes, TaskFits, task.op = "mode", task.pc = "send", NEW m \in Modes
  PROVE  /\ SaysOn("done").mode = task.want
         /\ SaysOn("done").leverage[m] =
              IF trader = "okx" /\ m = task.want
              THEN IF task.read = <<>> THEN 0 ELSE task.read[1].leverage
              ELSE IF trader = "bybit" /\ task.read = <<>> THEN 0 ELSE said.leverage[m]
BY DEF SaysOn, Unsaid, AccountTypes

LEMMA LeverageFitsIt ==
  ASSUME AccountInv, task.pc = "send", task.op = "leverage", Asks # AsksNothing,
         trader = "okx" => Asks.leverage # 0
  PROVE  /\ NewTerms \in TermsType /\ (CrossOnly => NewTerms.mode = "cross")
         /\ trader # "okx" => NewTerms.leverage["cross"] = NewTerms.leverage["isolated"]
         /\ Fits(SaysOn("done"), NewTerms)
<1> USE DEF AccountInv
<1>1. /\ trader \in Futures /\ task.want \in Nat
      /\ kept.leverage \in Nat /\ kept.leverage # 0
      /\ terms.mode \in Modes /\ \A m \in Modes : terms.leverage[m] \in Positive
      /\ said.mode \in Modes \cup {"none"} /\ \A m \in Modes : said.leverage[m] \in Nat
      /\ terms = [mode |-> terms.mode, leverage |-> terms.leverage]
      /\ terms.leverage \in [Modes -> Positive]
  BY DEF AccountTypes, TaskFits, Positive
<1>2. "cross" \in Modes /\ "isolated" \in Modes
  BY DEF Modes
<1>3. CASE trader \in {"binance", "bitget", "bybit", "htx", "kraken"}
  <2>1. Asks = Ask(IF trader \in {"htx", "kraken"} THEN AtLeastOne(task.want) ELSE task.want, "same")
    BY <1>3, TheAsks
  <2>2. Asks.mode = "same" /\ Asks.leverage \in Positive /\ (task.want # 0 => Asks.leverage = task.want)
    BY <1>1, <2>1 DEF Ask, AsksNothing, AtLeastOne, Positive
  <2>3. NewTerms = [mode |-> terms.mode, leverage |-> [m \in Modes |-> Asks.leverage]]
    BY <1>3, <2>2 DEF NewTerms, Positive
  <2>4. \A m \in Modes : SaysOn("done").mode = said.mode /\ SaysOn("done").leverage[m] = task.want
    BY <1>1, <1>3, LeverageIsSaid
  <2>5. Keeping => kept.leverage = AtLeastOne(task.want)
    BY DEF SaidFits
  <2>6. trader = "htx" => kept.leverage = AtLeastOne(task.want)
    BY <2>5 DEF Keeping
  <2>7. ModeFits(said) /\ (CrossOnly => terms.mode = "cross")
    BY DEF SaidFits, TermsFit
  <2>8. \A m \in Modes : SaysOn("done").leverage[m] # 0 =>
          SaysOn("done").leverage[m] = IF trader \in {"htx", "kucoin"} THEN kept.leverage ELSE NewTerms.leverage[m]
    BY <1>1, <1>3, <2>2, <2>3, <2>4, <2>6 DEF AtLeastOne
  <2>9. Fits(SaysOn("done"), NewTerms)
    BY <1>2, <1>3, <2>3, <2>4, <2>7, <2>8 DEF Fits, ModeFits
  <2> QED
    BY <1>1, <1>2, <2>2, <2>3, <2>7, <2>9 DEF TermsType
<1>4. CASE trader = "gate"
  <2>1. Asks = Ask(task.want, IF task.want = 0 THEN "cross" ELSE "isolated")
    BY <1>4, TheAsks
  <2>2. Asks.leverage = task.want /\ Asks.mode = IF task.want = 0 THEN "cross" ELSE "isolated"
    BY <2>1 DEF Ask
  <2>3. NewTerms = [mode |-> Asks.mode,
                    leverage |-> [m \in Modes |-> IF task.want = 0 THEN terms.leverage[m] ELSE task.want]]
    BY <1>4, <2>2 DEF NewTerms
  <2>4. kept.leverage = AtLeastOne(task.want) /\ said.leverage["cross"] = 0
    BY <1>4 DEF SaidFits, Keeping
  <2>5. /\ SaysOn("done").mode = Asks.mode
        /\ \A m \in Modes : SaysOn("done").leverage[m] =
             IF task.want = 0 THEN 0 ELSE IF Asks.mode = m THEN task.want ELSE said.leverage[m]
    BY <1>2, <1>4, LeverageIsSaid
  <2>6. terms.leverage["cross"] = terms.leverage["isolated"]
    BY <1>4 DEF TermsFit
  <2>7. SaysOn("done").leverage["cross"] = 0 /\ SaysOn("done").leverage["isolated"] = task.want
    BY <1>2, <2>2, <2>4, <2>5
  <2>8. Fits(SaysOn("done"), NewTerms)
    BY <1>1, <1>2, <1>4, <2>2, <2>3, <2>4, <2>5, <2>7 DEF Fits, AtLeastOne, Modes
  <2>9. NewTerms \in TermsType
    BY <1>1, <1>2, <2>2, <2>3 DEF TermsType, Positive
  <2> QED
    BY <1>2, <1>4, <2>3, <2>6, <2>8, <2>9 DEF CrossOnly
<1>5. CASE trader = "okx"
  <2>1. Asks = Ask(task.want, CurrentMarginMode(task.read))
    BY <1>5, TheAsks
  <2>2. Asks.leverage = task.want /\ Asks.leverage # 0 /\ Asks.mode \in Modes
    BY <1>5, <2>1 DEF Ask, CurrentMarginMode, TaskFits, Modes
  <2>3. /\ NewTerms.mode = terms.mode /\ NewTerms \in TermsType
        /\ \A m \in Modes : NewTerms.leverage[m] = IF m = Asks.mode THEN task.want ELSE terms.leverage[m]
    BY <1>1, <1>5, <2>2 DEF NewTerms, TermsType, Positive
  <2>4. LeverageFits(said)
    BY <1>5 DEF SaidFits, Keeping
  <2>5. \A m \in Modes : said.leverage[m] # 0 => said.leverage[m] = terms.leverage[m]
    BY <1>5, <2>4 DEF LeverageFits, Runs
  <2>6. \A m \in Modes : SaysOn("done").leverage[m] = IF Asks.mode = m THEN task.want ELSE said.leverage[m]
    BY <1>1, <1>5, <2>2, LeverageIsSaid
  <2> QED
    BY <1>5, <2>3, <2>5, <2>6 DEF Fits, CrossOnly, ModeOnOrder
<1>6. trader # "kucoin"
  BY <1>1, TheAsks
<1> QED
  BY <1>1, <1>3, <1>4, <1>5, <1>6 DEF Futures

LEMMA ModeFitsIt ==
  ASSUME AccountInv, task.pc = "send", task.op = "mode", Asks # AsksNothing
  PROVE  /\ NewTerms \in TermsType /\ (CrossOnly => NewTerms.mode = "cross")
         /\ trader # "okx" => NewTerms.leverage["cross"] = NewTerms.leverage["isolated"]
         /\ Fits(SaysOn("done"), NewTerms)
<1> USE DEF AccountInv
<1>1. /\ trader \in Futures /\ task.want \in Modes
      /\ kept.leverage \in Nat /\ kept.leverage # 0
      /\ terms.mode \in Modes /\ \A m \in Modes : terms.leverage[m] \in Positive
      /\ said.mode \in Modes \cup {"none"} /\ \A m \in Modes : said.leverage[m] \in Nat
      /\ terms = [mode |-> terms.mode, leverage |-> terms.leverage]
      /\ terms.leverage \in [Modes -> Positive]
  BY DEF AccountTypes, TaskFits, Positive
<1>2. "cross" \in Modes /\ "isolated" \in Modes /\ "same" \notin Modes
      /\ \A m \in Modes : m = "cross" \/ m = "isolated"
  BY DEF Modes
<1>3. /\ LeverageFits(said) /\ GateFits(said)
      /\ ~CrossOnly
      /\ trader # "okx" => terms.leverage["cross"] = terms.leverage["isolated"]
  BY <1>1, TheAsks DEF SaidFits, TermsFit, Keeping, CrossOnly
<1>4. CASE trader \in {"binance", "bitget", "kucoin"}
  <2>1. Asks = Ask(0, task.want)
    BY <1>4, TheAsks DEF CrossOnly
  <2>2. NewTerms = [mode |-> task.want, leverage |-> [m \in Modes |-> terms.leverage[m]]]
    BY <1>1, <1>2, <1>4, <2>1 DEF NewTerms, Ask
  <2>3. SaysOn("done").mode = task.want /\ \A m \in Modes : SaysOn("done").leverage[m] = said.leverage[m]
    BY <1>2, <1>4, ModeIsSaid
  <2>4. Fits(SaysOn("done"), NewTerms)
    BY <1>1, <1>3, <1>4, <2>2, <2>3 DEF Fits, LeverageFits, Runs
  <2> QED
    BY <1>1, <1>2, <1>3, <1>4, <2>2, <2>4 DEF TermsType
<1>5. CASE trader = "bybit"
  <2>1. Asks = Ask(IF task.read = <<>> THEN 10 ELSE task.read[1].leverage, task.want)
    BY <1>5, TheAsks DEF CrossOnly
  <2>2. Asks.leverage \in Positive /\ Asks.mode = task.want
    BY <2>1 DEF Ask, TaskFits, Positive
  <2>3. NewTerms = [mode |-> task.want, leverage |-> [m \in Modes |-> Asks.leverage]]
    BY <1>1, <1>2, <1>5, <2>2 DEF NewTerms, Positive
  <2>4. /\ SaysOn("done").mode = task.want
        /\ \A m \in Modes : SaysOn("done").leverage[m] = IF task.read = <<>> THEN 0 ELSE said.leverage[m]
    BY <1>2, <1>5, ModeIsSaid
  <2>5. task.read # <<>> => \A m \in Modes : Asks.leverage = terms.leverage[m]
    BY <1>2, <1>3, <1>5, <2>1 DEF TermsFit, Ask
  <2>6. Fits(SaysOn("done"), NewTerms)
    BY <1>1, <1>3, <1>5, <2>3, <2>4, <2>5 DEF Fits, LeverageFits, Runs
  <2> QED
    BY <1>1, <1>2, <1>3, <2>2, <2>3, <2>6 DEF TermsType
<1>6. CASE trader = "gate"
  <2>1. Asks = IF task.want = "cross" THEN Ask(0, "cross") ELSE Ask(kept.leverage, "isolated")
    BY <1>6, TheAsks
  <2>2. /\ NewTerms.mode = task.want
        /\ NewTerms = [mode |-> task.want, leverage |-> [m \in Modes |->
             IF task.want = "cross" THEN terms.leverage[m] ELSE kept.leverage]]
    BY <1>1, <1>2, <1>6, <2>1 DEF NewTerms, Ask
  <2>3. SaysOn("done").mode = task.want /\ \A m \in Modes : SaysOn("done").leverage[m] = said.leverage[m]
    BY <1>2, <1>6, ModeIsSaid
  <2>4. /\ said.leverage["cross"] = 0
        /\ said.leverage["isolated"] # 0 =>
             said.leverage["isolated"] = kept.leverage /\ said.leverage["isolated"] = terms.leverage["isolated"]
    BY <1>2, <1>3, <1>6 DEF GateFits, LeverageFits, Runs
  <2>5. Fits(SaysOn("done"), NewTerms)
    BY <1>1, <1>2, <1>6, <2>2, <2>3, <2>4 DEF Fits
  <2>6. NewTerms \in TermsType
    BY <1>1, <2>2 DEF TermsType, Positive
  <2> QED
    BY <1>2, <1>3, <2>2, <2>5, <2>6
<1>7. CASE trader = "okx"
  <2>1. Asks = Ask(IF task.read = <<>> THEN 3 ELSE task.read[1].leverage, task.want)
    BY <1>7, TheAsks DEF CrossOnly
  <2>2. /\ Asks.leverage \in Positive /\ Asks.mode = task.want
        /\ task.read # <<>> => Asks.leverage = task.read[1].leverage
    BY <2>1 DEF Ask, TaskFits, Positive
  <2>3. /\ NewTerms.mode = terms.mode /\ NewTerms \in TermsType
        /\ \A m \in Modes : NewTerms.leverage[m] = IF m = task.want THEN Asks.leverage ELSE terms.leverage[m]
    BY <1>1, <1>7, <2>2 DEF NewTerms, TermsType
  <2>4. \A m \in Modes : SaysOn("done").leverage[m] =
          IF m = task.want THEN IF task.read = <<>> THEN 0 ELSE Asks.leverage ELSE said.leverage[m]
    BY <1>7, <2>2, ModeIsSaid
  <2>5. \A m \in Modes : said.leverage[m] # 0 => said.leverage[m] = terms.leverage[m]
    BY <1>3, <1>7 DEF LeverageFits, Runs
  <2> QED
    BY <1>3, <1>7, <2>3, <2>4, <2>5 DEF Fits, ModeOnOrder
<1> QED
  BY <1>1, <1>3, <1>4, <1>5, <1>6, <1>7 DEF Futures, CrossOnly

LEMMA LostFits ==
  ASSUME AccountTypes, NEW t
  PROVE  Fits(SaysOn("lost"), t)
<1>1. /\ SaysOn("lost").mode = IF ModeOnOrder THEN said.mode ELSE "none"
      /\ \A m \in Modes : SaysOn("lost").leverage[m] = 0
  BY DEF SaysOn, Unsaid
<1> QED
  BY <1>1 DEF Fits, Modes

LEMMA RefusedFits ==
  ASSUME AccountInv, task.pc = "send"
  PROVE  Fits(SaysOn("refused"), terms)
<1> USE DEF AccountInv
<1>1. ModeFits(said)
  BY DEF SaidFits
<1>2. CASE task.op = "leverage"
  <2>1. SaysOn("refused").mode = said.mode /\ \A m \in Modes : SaysOn("refused").leverage[m] = 0
    BY <1>2 DEF SaysOn, Unsaid, AccountTypes
  <2> QED
    BY <1>1, <2>1 DEF Fits, ModeFits, Modes
<1>3. CASE task.op # "leverage"
  <2>1. SaysOn("refused") = said
    BY <1>3 DEF SaysOn
  <2>2. LeverageFits(said) /\ GateFits(said)
    BY <1>3 DEF SaidFits, Keeping
  <2> QED
    BY <1>1, <2>1, <2>2, FitsNow
<1> QED
  BY <1>2, <1>3

LEMMA NothingFits ==
  ASSUME AccountInv, task.pc = "send", ~SendsARequest
  PROVE  Fits(SaysOn(IF Setter.refuses THEN "refused" ELSE "done"), terms)
<1> USE DEF AccountInv
<1>1. CASE Setter.refuses
  BY <1>1, RefusedFits
<1>2. CASE ~Setter.refuses /\ task.op = "leverage" /\ trader = "kucoin"
  <2>1. \A m \in Modes : SaysOn("done").mode = said.mode /\ SaysOn("done").leverage[m] = task.want
    BY <1>2, LeverageIsSaid
  <2>2. kept.leverage = AtLeastOne(task.want) /\ ModeFits(said)
    BY <1>2 DEF SaidFits, Keeping
  <2>3. task.want \in Nat
    BY <1>2 DEF TaskFits
  <2> QED
    BY <1>2, <2>1, <2>2, <2>3 DEF Fits, ModeFits, AtLeastOne, Modes
<1>3. CASE ~Setter.refuses /\ task.op = "mode" /\ CrossOnly
  <2>1. task.want = "cross"
    BY <1>3 DEF Setter, MarginModeSetter, HtxSetMarginMode, KrakenSetMarginMode, Only, Sets, CrossOnly,
         TaskFits, Modes
  <2>2. \A m \in Modes : SaysOn("done").mode = "cross" /\ SaysOn("done").leverage[m] = said.leverage[m]
    BY <1>3, <2>1, ModeIsSaid DEF CrossOnly
  <2>3. LeverageFits(said) /\ terms.mode = "cross"
    BY <1>3 DEF SaidFits, Keeping, TermsFit
  <2> QED
    BY <1>3, <2>2, <2>3 DEF Fits, LeverageFits, Runs, CrossOnly, Modes
<1> QED
  BY <1>1, <1>2, <1>3 DEF SendsARequest

-----------------------------------------------------------------------------
(***************************************************************************)
(* A step that leaves alone what was set and said.                         *)
(***************************************************************************)
LEMMA QuietStep ==
  ASSUME AccountInv, UNCHANGED <<trader, hedged, terms, said, ran>>,
         legs' \in [Sides -> Nat], kept' \in [leverage : Positive, mode : Modes], kept'.mode = kept.mode,
         TaskFits', task.pc # "answered", task'.pc # "answered",
         Keeping => Keeping',
         Keeping' => kept'.leverage = AtLeastOne(task'.want),
         ~Keeping' => kept' = kept,
         trader = "bybit" /\ task'.pc = "send" /\ task'.read # <<>> =>
           task'.read[1].leverage = terms.leverage["cross"]
  PROVE  AccountInv'
<1> USE DEF AccountInv
<1>1. AccountTypes'
  BY DEF AccountTypes
<1>2. TermsFit'
  BY DEF TermsFit, ModeOnOrder, CrossOnly
<1>3. OrdersRunOnTheTerms'
  BY DEF OrdersRunOnTheTerms
<1>4. ModeFits(said)'
  BY DEF SaidFits, ModeFits, ModeOnOrder
<1>5. CASE Keeping'
  <2>1. trader = "gate" => said.leverage["cross"] = 0
    BY DEF SaidFits, GateFits
  <2>2. SaidFits'
    BY <1>4, <1>5, <2>1 DEF SaidFits, AtLeastOne
  <2> QED
    BY <1>1, <1>2, <1>3, <2>2
<1>6. CASE ~Keeping'
  <2>1. LeverageFits(said) /\ GateFits(said) /\ kept' = kept
    BY <1>6 DEF SaidFits
  <2>2. LeverageFits(said)' /\ GateFits(said)'
    BY <2>1 DEF LeverageFits, GateFits, Runs
  <2>3. SaidFits'
    BY <1>4, <1>6, <2>2 DEF SaidFits
  <2> QED
    BY <1>1, <1>2, <1>3, <2>3
<1> QED
  BY <1>5, <1>6

(***************************************************************************)
(* A step that ends in an answer.                                          *)
(***************************************************************************)
LEMMA AnswerStep ==
  ASSUME AccountInv, task.pc = "send", NEW a \in {"done", "lost", "refused"},
         task' = [task EXCEPT !.pc = "answered", !.answer = a],
         UNCHANGED <<trader, hedged, kept, legs, said, ran>>,
         terms' \in TermsType, CrossOnly => terms'.mode = "cross",
         trader # "okx" => terms'.leverage["cross"] = terms'.leverage["isolated"],
         Fits(SaysOn(a), terms')
  PROVE  AccountInv'
<1> USE DEF AccountInv
<1>1. AccountTypes'
  BY DEF AccountTypes, TermsType
<1>2. /\ task'.op = task.op /\ task'.want = task.want /\ task'.read = task.read /\ task'.answer = a
      /\ task'.pc = "answered"
  BY DEF TaskFits
<1>3. TaskFits'
  <2>1. task' = [op |-> task'.op, pc |-> task'.pc, want |-> task'.want, read |-> task'.read, answer |-> task'.answer]
    BY DEF TaskFits
  <2>2. task.op \in {"leverage", "mode"}
    BY DEF TaskFits
  <2>3. task.op = "leverage" => task.want \in Nat
    BY DEF TaskFits
  <2>4. task.op = "mode" => task.want \in Modes
    BY DEF TaskFits
  <2>5. task.read # <<>> => task.read[1].leverage \in Positive /\ task.read[1].margin_mode \in Modes
    BY DEF TaskFits
  <2> QED
    BY <1>2, <2>1, <2>2, <2>3, <2>4, <2>5 DEF TaskFits
<1>4. TermsFit'
  BY <1>2 DEF TermsFit, ModeOnOrder, CrossOnly
<1>5. OrdersRunOnTheTerms'
  BY DEF OrdersRunOnTheTerms
<1>6. Says' = SaysOn(a)
  BY SaysFollow
<1>7. ModeFits(Says)' /\ LeverageFits(Says)' /\ GateFits(Says)'
  <2>1. PICK s : s = SaysOn(a)
    OBVIOUS
  <2>2. Fits(s, terms') /\ Says' = s
    BY <1>6, <2>1
  <2> QED
    BY <2>2 DEF Fits, ModeFits, LeverageFits, GateFits, Runs, ModeOnOrder
<1>8. SaidFits'
  <2>1. ~Keeping'
    BY <1>2 DEF Keeping
  <2> QED
    BY <1>2, <1>7, <2>1 DEF SaidFits
<1> QED
  BY <1>1, <1>3, <1>4, <1>5, <1>8

LEMMA AccountBeginKeeps ==
  ASSUME AccountInv,
         \/ \E wanted \in {"btc", "all"} : ReadPositions(wanted)
         \/ \E l \in Leverages : SetLeverage(l)
         \/ \E mode \in Modes : SetMarginMode(mode)
  PROVE  AccountInv'
<1> USE DEF AccountInv
<1>1. AccountTypes /\ ~Keeping /\ task.pc = "over"
  BY DEF ReadPositions, SetLeverage, SetMarginMode, BeginTask, Keeping
<1>2. ASSUME NEW wanted \in {"btc", "all"}, ReadPositions(wanted) PROVE AccountInv'
  <2>1. task' = [op |-> "positions", pc |-> "read", want |-> wanted, read |-> <<>>, answer |-> "none"]
    BY <1>2 DEF ReadPositions, BeginTask, NoTask
  <2>2. TaskFits'
    BY <2>1 DEF TaskFits
  <2>3. UNCHANGED <<trader, hedged, terms, said, ran, legs, kept>> /\ ~Keeping'
    BY <1>2, <2>1 DEF ReadPositions, BeginTask, Keeping
  <2> QED
    BY <1>1, <2>1, <2>2, <2>3, QuietStep DEF AccountTypes
<1>3. ASSUME NEW l \in Leverages, SetLeverage(l) PROVE AccountInv'
  <2>1. task' = [op |-> "leverage", pc |-> IF ReadsFirst("leverage") THEN "read" ELSE "send",
                 want |-> l, read |-> <<>>, answer |-> "none"]
    BY <1>3 DEF SetLeverage, BeginTask, NoTask
  <2>2. UNCHANGED <<trader, hedged, terms, said, ran, legs>>
    BY <1>3 DEF SetLeverage, BeginTask
  <2>3. l \in Nat
    BY AccountAssumption
  <2>4. TaskFits'
    BY <2>1, <2>2, <2>3 DEF TaskFits, ReadsFirst
  <2>5. kept' = [kept EXCEPT !.leverage = LeverageSetter(l, <<>>).keeps]
    BY <1>3 DEF SetLeverage
  <2>6. LeverageSetter(l, <<>>).keeps =
          IF trader \in {"gate", "htx", "kraken", "kucoin"} THEN AtLeastOne(l) ELSE kept.leverage
    <3>1. trader \in Futures
      BY <1>1 DEF AccountTypes
    <3> QED
      BY <3>1 DEF Futures, LeverageSetter, BinanceSetLeverage, BitgetSetLeverage, BybitSetLeverage,
          GateSetLeverage, HtxSetLeverage, KrakenSetLeverage, KuCoinSetLeverage, OkxSetLeverage, Only, Sets
  <2>7. AtLeastOne(l) \in Positive
    BY <2>3 DEF AtLeastOne, Positive
  <2>8. /\ kept' \in [leverage : Positive, mode : Modes] /\ kept'.mode = kept.mode
        /\ kept'.leverage = LeverageSetter(l, <<>>).keeps
    BY <1>1, <2>5, <2>6, <2>7 DEF AccountTypes
  <2>9. Keeping' <=> trader \in {"gate", "htx", "kraken", "kucoin"}
    BY <2>1, <2>2 DEF Keeping, ReadsFirst
  <2>10. ~Keeping' => kept' = kept
    BY <1>1, <2>5, <2>6, <2>9 DEF AccountTypes
  <2>11. Keeping' => kept'.leverage = AtLeastOne(task'.want)
    BY <2>1, <2>6, <2>8, <2>9
  <2> QED
    BY <1>1, <2>1, <2>2, <2>4, <2>8, <2>10, <2>11, QuietStep DEF AccountTypes
<1>4. ASSUME NEW mode \in Modes, SetMarginMode(mode) PROVE AccountInv'
  <2>1. task' = [op |-> "mode", pc |-> IF ReadsFirst("mode") THEN "read" ELSE "send",
                 want |-> mode, read |-> <<>>, answer |-> "none"]
    BY <1>4 DEF SetMarginMode, BeginTask, NoTask
  <2>2. UNCHANGED <<trader, hedged, terms, said, ran, legs, kept>>
    BY <1>4 DEF SetMarginMode, BeginTask
  <2>3. TaskFits'
    BY <2>1, <2>2 DEF TaskFits, ReadsFirst
  <2>4. ~Keeping'
    BY <2>1 DEF Keeping
  <2> QED
    BY <1>1, <2>1, <2>2, <2>3, <2>4, QuietStep DEF AccountTypes
<1> QED
  BY <1>2, <1>3, <1>4

LEMMA ShowKeeps ==
  ASSUME AccountInv, VenueShowsPositions
  PROVE  AccountInv'
<1> USE DEF AccountInv
<1>1. /\ AccountTypes /\ ~Keeping /\ task.pc = "read"
      /\ UNCHANGED <<trader, hedged, kept, terms, legs, said, ran>>
  BY DEF VenueShowsPositions, Keeping
<1>2. CASE task.op = "positions"
  <2>1. task' = [task EXCEPT !.pc = "over"]
    BY <1>2 DEF VenueShowsPositions
  <2>2. TaskFits' /\ task'.pc = "over" /\ ~Keeping'
    BY <1>1, <1>2, <2>1 DEF TaskFits, Keeping
  <2> QED
    BY <1>1, <2>2, QuietStep DEF AccountTypes
<1>3. CASE task.op # "positions"
  <2>1. PICK list : task' = [task EXCEPT !.pc = "send", !.read = list] /\ ShowsEach(list, "btc")
    <3>1. PICK flats \in BOOLEAN : task' = [task EXCEPT !.pc = "send", !.read = Positions("btc", flats)]
      BY <1>3 DEF VenueShowsPositions
    <3>2. ShowsEach(Positions("btc", flats), "btc")
      BY <1>1, PositionsShow
    <3> QED
      BY <3>1, <3>2
  <2>2. /\ terms.mode \in Modes /\ kept.leverage \in Positive /\ terms.leverage[terms.mode] \in Positive
        /\ CrossOnly => terms.mode = "cross"
        /\ trader # "okx" => terms.leverage[terms.mode] = terms.leverage["cross"]
    BY <1>1 DEF AccountTypes, TermsFit, Modes
  <2>3. list # <<>> =>
          /\ list[1].margin_mode = terms.mode
          /\ list[1].leverage = IF trader = "kraken" THEN kept.leverage ELSE terms.leverage[terms.mode]
    BY <1>1, <2>1, <2>2, ReadTells
  <2>4. /\ task' = [op |-> task.op, pc |-> "send", want |-> task.want, read |-> list, answer |-> task.answer]
        /\ ReadsFirst(task.op) /\ task.op \in {"leverage", "mode"}
        /\ task.op = "leverage" => task.want \in Nat
        /\ task.op = "mode" => task.want \in Modes
    BY <1>1, <1>3, <2>1 DEF TaskFits
  <2>5. TaskFits'
    BY <2>2, <2>3, <2>4 DEF TaskFits
  <2>6. ~Keeping'
    BY <1>1, <2>4 DEF Keeping, ReadsFirst
  <2> QED
    BY <1>1, <2>2, <2>3, <2>4, <2>5, <2>6, QuietStep DEF AccountTypes
<1> QED
  BY <1>2, <1>3

LEMMA ReadFailsKeeps ==
  ASSUME AccountInv, ReadFails
  PROVE  AccountInv'
<1> USE DEF AccountInv
<1>1. /\ AccountTypes /\ ~Keeping /\ task.pc = "read"
      /\ UNCHANGED <<trader, hedged, kept, terms, legs, said, ran>>
      /\ task' = [task EXCEPT !.pc = "over"]
  BY DEF ReadFails, Keeping
<1>2. TaskFits' /\ task'.pc = "over" /\ ~Keeping'
  BY <1>1 DEF TaskFits, Keeping
<1> QED
  BY <1>1, <1>2, QuietStep DEF AccountTypes

LEMMA ElsewhereKeeps ==
  ASSUME AccountInv, NEW side \in Sides, NEW size \in {0, 1}, Elsewhere(side, size)
  PROVE  AccountInv'
<1> USE DEF AccountInv
<1>1. /\ AccountTypes /\ task.pc \in {"read", "send"} /\ UNCHANGED <<trader, hedged, kept, terms, task, said, ran>>
      /\ legs' = [legs EXCEPT ![side] = size]
  BY DEF Elsewhere
<1>2. TaskFits' /\ (Keeping' <=> Keeping)
  BY <1>1 DEF TaskFits, Keeping, ReadsFirst
<1>3. Keeping => kept.leverage = AtLeastOne(task.want)
  BY DEF SaidFits
<1>4. trader = "bybit" /\ task.pc = "send" /\ task.read # <<>> =>
        task.read[1].leverage = terms.leverage["cross"]
  BY DEF TermsFit
<1> QED
  BY <1>1, <1>2, <1>3, <1>4, QuietStep DEF AccountTypes

LEMMA AccountAnswerKeeps ==
  ASSUME AccountInv, VenueSets \/ VenueLeaves \/ NothingToAsk
  PROVE  AccountInv'
<1> USE DEF AccountInv
<1>1. /\ AccountTypes /\ TaskFits /\ task.pc = "send"
      /\ UNCHANGED <<trader, hedged, kept, legs, said, ran>>
      /\ task.op \in {"leverage", "mode"}
  BY DEF VenueSets, VenueLeaves, NothingToAsk, TaskFits
<1>2. /\ terms \in TermsType /\ (CrossOnly => terms.mode = "cross")
      /\ trader # "okx" => terms.leverage["cross"] = terms.leverage["isolated"]
  BY <1>1 DEF AccountTypes, TermsType, TermsFit
<1>3. CASE VenueSets
  <2>1. terms' = NewTerms /\ Asks # AsksNothing /\ (trader = "okx" => Asks.leverage # 0)
    BY <1>3 DEF VenueSets, NewTerms
  <2>2. PICK a \in {"done", "lost"} : task' = [task EXCEPT !.pc = "answered", !.answer = a]
    BY <1>3 DEF VenueSets
  <2>3. /\ NewTerms \in TermsType /\ (CrossOnly => NewTerms.mode = "cross")
        /\ trader # "okx" => NewTerms.leverage["cross"] = NewTerms.leverage["isolated"]
        /\ Fits(SaysOn("done"), NewTerms)
    BY <1>1, <2>1, LeverageFitsIt, ModeFitsIt
  <2>4. Fits(SaysOn(a), terms')
    BY <1>1, <2>1, <2>2, <2>3, LostFits
  <2> QED
    BY <1>1, <2>1, <2>2, <2>3, <2>4, AnswerStep
<1>4. CASE VenueLeaves
  <2>1. terms' = terms
    BY <1>4 DEF VenueLeaves
  <2>2. PICK a \in {"refused", "lost"} : task' = [task EXCEPT !.pc = "answered", !.answer = a]
    BY <1>4 DEF VenueLeaves
  <2>3. Fits(SaysOn(a), terms')
    BY <1>1, <2>1, <2>2, LostFits, RefusedFits
  <2> QED
    BY <1>1, <1>2, <2>1, <2>2, <2>3, AnswerStep
<1>5. CASE NothingToAsk
  <2>1. terms' = terms /\ ~SendsARequest
    BY <1>5 DEF NothingToAsk
  <2>2. PICK a \in {"refused", "done"} :
          /\ a = IF Setter.refuses THEN "refused" ELSE "done"
          /\ task' = [task EXCEPT !.pc = "answered", !.answer = a]
    BY <1>5 DEF NothingToAsk
  <2>3. Fits(SaysOn(a), terms')
    BY <1>1, <2>1, <2>2, NothingFits
  <2> QED
    BY <1>1, <1>2, <2>1, <2>2, <2>3, AnswerStep
<1> QED
  BY <1>3, <1>4, <1>5

LEMMA ReturnKeepsTerms ==
  ASSUME AccountInv, SetterReturns
  PROVE  AccountInv'
<1> USE DEF AccountInv
<1>1. /\ AccountTypes /\ TaskFits /\ task.pc = "answered"
      /\ task' = [task EXCEPT !.pc = "over"] /\ said' = Says
      /\ UNCHANGED <<trader, hedged, terms, legs, ran>>
  BY DEF SetterReturns
<1>2. PICK s : s = Says
  OBVIOUS
<1>3. s = SaysOn(task.answer) /\ ModeFits(s) /\ LeverageFits(s) /\ GateFits(s)
  BY <1>1, <1>2, SaysIt DEF SaidFits
<1>4. /\ kept'.leverage = kept.leverage /\ kept' \in [leverage : Positive, mode : Modes]
      /\ ModeOnOrder => kept'.mode = IF task.op = "mode" /\ task.answer = "done" THEN task.want ELSE kept.mode
  <2>1. task.op \in {"leverage", "mode"} /\ (task.op = "mode" => task.want \in Modes)
    BY <1>1 DEF TaskFits
  <2>2. kept \in [leverage : Positive, mode : Modes]
    BY <1>1 DEF AccountTypes
  <2>3. kept' = IF task.op = "mode" /\ task.answer = "done" /\ ModeOnOrder
                THEN [kept EXCEPT !.mode = task.want] ELSE kept
    BY <2>1 DEF SetterReturns, BitgetKeeps, OkxKeeps, ModeOnOrder
  <2> QED
    BY <2>1, <2>2, <2>3
<1>5. /\ s \in SaidType
      /\ ModeOnOrder => s.mode = IF task.op = "mode" /\ task.answer = "done" THEN task.want ELSE said.mode
  <2>1. /\ task.op \in {"leverage", "mode"} /\ (task.op = "mode" => task.want \in Modes)
        /\ task.op = "leverage" => task.want \in Nat
        /\ task.read # <<>> => task.read[1].leverage \in Nat
        /\ task.answer \in {"done", "lost", "refused"}
    BY <1>1 DEF TaskFits, Positive
  <2>2. said \in SaidType
    BY <1>1 DEF AccountTypes, SaidType
  <2>3. CASE task.answer # "done"
    BY <1>3, <2>1, <2>2, <2>3 DEF SaysOn, SaidType, Unsaid, Modes
  <2>4. CASE task.answer = "done" /\ task.op = "leverage"
    <3>1. trader = "gate" => Asks.mode \in Modes
      BY <1>1, <2>4, TheAsks DEF Ask, Modes
    <3> QED
      BY <1>3, <2>1, <2>2, <2>4, <3>1 DEF SaysOn, SaidType, Unsaid, ModeOnOrder
  <2>5. CASE task.answer = "done" /\ task.op = "mode"
    BY <1>3, <2>1, <2>2, <2>5 DEF SaysOn, SaidType, Unsaid
  <2> QED
    BY <2>1, <2>3, <2>4, <2>5
<1>6. AccountTypes'
  BY <1>1, <1>2, <1>4, <1>5 DEF AccountTypes, SaidType
<1>7. TaskFits' /\ task'.pc = "over"
  BY <1>1 DEF TaskFits
<1>8. TermsFit'
  <2>1. ModeOnOrder' = ModeOnOrder /\ CrossOnly' = CrossOnly
    BY <1>1 DEF ModeOnOrder, CrossOnly
  <2> QED
    BY <1>1, <1>2, <1>4, <1>5, <1>7, <2>1 DEF TermsFit
<1>9. SaidFits'
  <2>1. ModeFits(said)' /\ LeverageFits(said)' /\ GateFits(said)'
    BY <1>1, <1>2, <1>3, <1>4 DEF ModeFits, LeverageFits, GateFits, Runs, ModeOnOrder
  <2> QED
    BY <1>7, <2>1 DEF SaidFits, Keeping
<1>10. OrdersRunOnTheTerms'
  BY <1>1 DEF OrdersRunOnTheTerms
<1> QED
  BY <1>6, <1>7, <1>8, <1>9, <1>10

LEMMA RunKeeps ==
  ASSUME AccountInv, RunOrder
  PROVE  AccountInv'
<1> USE DEF AccountInv
<1>1. /\ AccountTypes /\ TaskFits /\ task.pc = "over" /\ ~Keeping
      /\ terms' = OrderTerms /\ legs' = [legs EXCEPT !["long"] = @ + 1]
      /\ ran' = [mode |-> OrderTerms.mode, leverage |-> OrderTerms.leverage[OrderTerms.mode], said |-> said]
      /\ UNCHANGED <<trader, hedged, kept, task, said>>
  BY DEF RunOrder, Keeping
<1>2. /\ OrderTerms \in TermsType
      /\ OrderTerms.mode = IF ModeOnOrder THEN kept.mode ELSE terms.mode
      /\ \A m \in Modes : OrderTerms.leverage[m] = Runs(m)
  BY <1>1 DEF OrderTerms, BitgetTerms, OkxTerms, HtxTerms, KuCoinTerms, ModeOnOrder, Runs, AccountTypes,
       TermsType, Futures
<1>3. ModeFits(said) /\ LeverageFits(said) /\ GateFits(said)
  BY <1>1 DEF SaidFits
<1>4. AccountTypes'
  BY <1>1, <1>2 DEF AccountTypes, TermsType, Sides
<1>5. TaskFits'
  BY <1>1 DEF TaskFits
<1>6. ModeOnOrder' = ModeOnOrder /\ CrossOnly' = CrossOnly /\ (CrossOnly => ~ModeOnOrder)
  BY <1>1 DEF ModeOnOrder, CrossOnly
<1>7. TermsFit'
  BY <1>1, <1>2, <1>6 DEF TermsFit, Runs, Modes
<1>8. SaidFits'
  <2>1. ModeFits(said)'
    BY <1>1, <1>2, <1>3, <1>6 DEF ModeFits
  <2>2. \A m \in Modes : Runs(m)' = Runs(m)
    BY <1>1, <1>2 DEF Runs
  <2>3. LeverageFits(said)' /\ GateFits(said)'
    BY <1>1, <1>3, <2>2 DEF LeverageFits, GateFits
  <2> QED
    BY <1>1, <2>1, <2>3 DEF SaidFits, Keeping
<1>9. OrdersRunOnTheTerms'
  <2>1. said.mode # "none" => OrderTerms.mode = said.mode
    BY <1>2, <1>3 DEF TermsFit, ModeFits
  <2>2. OrderTerms.mode \in Modes =>
          (said.leverage[OrderTerms.mode] # 0 =>
             OrderTerms.leverage[OrderTerms.mode] = said.leverage[OrderTerms.mode])
    BY <1>2, <1>3 DEF LeverageFits
  <2> QED
    BY <1>1, <2>1, <2>2 DEF OrdersRunOnTheTerms
<1> QED
  BY <1>4, <1>5, <1>7, <1>8, <1>9

LEMMA AccountStarts ==
  ASSUME AccountInit
  PROVE  AccountInv
<1>1. /\ trader \in Futures /\ hedged \in BOOLEAN /\ legs \in [Sides -> Nat]
      /\ task = NoTask /\ ran = NoRun
  BY AccountAssumption DEF AccountInit, Futures
<1>2. PICK mode \in Modes :
        /\ kept = [leverage |-> 1, mode |-> mode]
        /\ said = [Unsaid EXCEPT !.mode = IF ModeOnOrder THEN mode ELSE "none"]
  BY DEF AccountInit
<1>3. PICK m \in Modes : /\ terms = [mode |-> m, leverage |-> [o \in Modes |-> VenueDefault]]
                         /\ CrossOnly => m = "cross"
  BY DEF AccountInit, Modes
<1>4. VenueDefault \in Positive /\ 1 \in Positive
  BY AccountAssumption DEF Positive
<1>5. said = [mode |-> IF ModeOnOrder THEN mode ELSE "none", leverage |-> [o \in Modes |-> 0]]
  BY <1>2 DEF Unsaid
<1>6. AccountTypes
  <2>1. kept \in [leverage : Positive, mode : Modes]
    BY <1>2, <1>4
  <2>2. terms \in [mode : Modes, leverage : [Modes -> Positive]]
    BY <1>3, <1>4
  <2>3. said \in [mode : Modes \cup {"none"}, leverage : [Modes -> Nat]]
    BY <1>5
  <2> QED
    BY <1>1, <2>1, <2>2, <2>3 DEF AccountTypes
<1>7. TaskFits
  BY <1>1 DEF TaskFits, NoTask
<1>8. TermsFit
  BY <1>1, <1>2, <1>3, <1>5 DEF TermsFit, NoTask, Modes
<1>9. SaidFits
  BY <1>1, <1>2, <1>5 DEF SaidFits, NoTask, Keeping, ModeFits, LeverageFits, GateFits, Modes
<1>10. OrdersRunOnTheTerms
  BY <1>1 DEF OrdersRunOnTheTerms, NoRun, Unsaid, Modes
<1> QED
  BY <1>6, <1>7, <1>8, <1>9, <1>10 DEF AccountInv

LEMMA AccountKeeps ==
  ASSUME AccountInv, [AccountNext]_accountVars
  PROVE  AccountInv'
<1>1. CASE UNCHANGED accountVars
  <2> USE <1>1 DEF AccountInv, accountVars
  <2>1. AccountTypes' /\ TaskFits' /\ OrdersRunOnTheTerms'
    BY DEF AccountTypes, TaskFits, OrdersRunOnTheTerms, ReadsFirst
  <2>2. TermsFit'
    BY DEF TermsFit, ModeOnOrder, CrossOnly
  <2>3. task.pc # "answered" => SaidFits'
    BY DEF SaidFits, Keeping, ModeFits, LeverageFits, GateFits, Runs, ModeOnOrder, AtLeastOne
  <2>4. CASE task.pc = "answered"
    <3>1. task' = [task EXCEPT !.pc = "answered", !.answer = task.answer]
      BY <2>4 DEF TaskFits
    <3>2. PICK a \in {"done", "lost", "refused"} : a = task.answer
      BY <2>4 DEF TaskFits
    <3>3. Says' = SaysOn(a) /\ Says = SaysOn(a)
      BY <2>4, <3>1, <3>2, SaysFollow, SaysIt
    <3>4. PICK s : s = Says
      OBVIOUS
    <3>5. Says' = s /\ ModeFits(s) /\ LeverageFits(s) /\ GateFits(s)
      BY <2>4, <3>3, <3>4 DEF SaidFits
    <3>6. ModeFits(Says)' /\ LeverageFits(Says)' /\ GateFits(Says)'
      BY <3>5 DEF ModeFits, LeverageFits, GateFits, Runs, ModeOnOrder
    <3>7. SaidFits'
      BY <2>4, <3>6 DEF SaidFits, Keeping
    <3> QED
      BY <2>1, <2>2, <3>7
  <2> QED
    BY <2>1, <2>2, <2>3, <2>4
<1>2. CASE AccountNext
  BY <1>2, AccountBeginKeeps, ShowKeeps, ReadFailsKeeps, ElsewhereKeeps, AccountAnswerKeeps, ReturnKeepsTerms, RunKeeps
     DEF AccountNext
<1> QED
  BY <1>1, <1>2

LEMMA AccountInvariance == AccountSpec => []AccountInv
<1>1. AccountInit => AccountInv
  BY AccountStarts
<1>2. AccountInv /\ [AccountNext]_accountVars => AccountInv'
  BY AccountKeeps
<1> QED
  BY <1>1, <1>2, PTL DEF AccountSpec

(***************************************************************************)
(* An order runs on the terms that the caller was told are set, whatever   *)
(* was refused, lost or set in between (FuturesAccount).                   *)
(***************************************************************************)
THEOREM OrdersKeepTheTerms == AccountSpec => []OrdersRunOnTheTerms
<1>1. AccountInv => OrdersRunOnTheTerms
  BY DEF AccountInv
<1> QED
  BY <1>1, AccountInvariance, PTL

LEMMA ShownStaysTrue ==
  ASSUME AccountInv, PositionsAreTrue, [AccountNext]_accountVars
  PROVE  PositionsAreTrue'
<1>1. PositionsAreTrue <=> TrueShow(shown)
  BY DEF PositionsAreTrue, TrueShow, Blurred
<1>2. trader' = trader
  BY DEF AccountNext, accountVars, ReadPositions, SetLeverage, SetMarginMode, BeginTask, VenueShowsPositions,
       ReadFails, VenueSets, VenueLeaves, NothingToAsk, SetterReturns, RunOrder, Elsewhere
<1>3. shown' = shown \/ \E wanted \in {"btc", "all"}, flats \in BOOLEAN :
                           shown' = [seen |-> Positions(wanted, flats), was |-> HeldOf(wanted)]
  <2>1. shown' = shown \/ VenueShowsPositions
    BY DEF AccountNext, accountVars, ReadPositions, SetLeverage, SetMarginMode, BeginTask,
         ReadFails, VenueSets, VenueLeaves, NothingToAsk, SetterReturns, RunOrder, Elsewhere
  <2>2. task.op = "positions" => task.want \in {"btc", "all"}
    BY DEF AccountInv, TaskFits
  <2> QED
    BY <2>1, <2>2 DEF VenueShowsPositions
<1>4. PICK s : s = shown' /\ TrueShow(s)
  <2>1. CASE shown' = shown
    BY <1>1, <2>1
  <2>2. ASSUME NEW wanted \in {"btc", "all"}, NEW flats \in BOOLEAN,
               shown' = [seen |-> Positions(wanted, flats), was |-> HeldOf(wanted)]
        PROVE  TrueShow([seen |-> Positions(wanted, flats), was |-> HeldOf(wanted)])
    <3>1. AccountTypes /\ (CrossOnly => terms.mode = "cross")
      BY DEF AccountInv, TermsFit
    <3> QED
      BY <3>1, PositionsShow, ShowIsTrue
  <2> QED
    BY <1>3, <2>1, <2>2
<1> QED
  BY <1>2, <1>4 DEF PositionsAreTrue, TrueShow, Blurred

(***************************************************************************)
(* positions gives what the account holds, once and nothing else, for each *)
(* of the eight clients and whatever the account holds (FuturesAccount).   *)
(***************************************************************************)
THEOREM PositionsTellTheTruth == AccountSpec => []PositionsAreTrue
<1>1. AccountInit => PositionsAreTrue
  <2>1. ASSUME AccountInit PROVE PositionsAreTrue
    <3>1. shown.seen = <<>> /\ shown.was = {}
      BY <2>1 DEF AccountInit, NotShown
    <3>2. Cardinality(shown.was) = 0
      BY <3>1, FS_EmptySet
    <3> QED
      BY <3>1, <3>2 DEF PositionsAreTrue
  <2> QED
    BY <2>1
<1>2. AccountInv /\ PositionsAreTrue /\ [AccountNext]_accountVars => PositionsAreTrue'
  BY ShownStaysTrue
<1> QED
  BY <1>1, <1>2, AccountInvariance, PTL DEF AccountSpec

-----------------------------------------------------------------------------
(***************************************************************************)
(* What a program asks for reaches its client (Connection).                *)
(***************************************************************************)
Venues == {"binance", "bitget", "bybit", "coinbase", "gate", "htx", "kraken", "kucoin", "okx", "upbit"}
Routed == {"spot", "linear"}

\* The options o are those that a asks for.
TheOptions(o, a) ==
  /\ o = [market |-> o.market, testnet |-> o.testnet, margin |-> o.margin, position |-> o.position]
  /\ o.market = a.market /\ o.testnet = (a.network = "test")
  /\ \A m \in Sayable(a) : o[m] = a[m] \/ (a.language \in {"c", "go"} /\ a[m] = "other")

LEMMA OptionsPass ==
  ASSUME NEW a \in Asked, Expressible(a), OptionsOf(a) # Refused
  PROVE  TheOptions(OptionsOf(a), a)
<1>1. /\ a.language \in {"rust", "c", "go", "r", "node", "python"} /\ a.network \in {"main", "test"}
      /\ a.margin \in {"cross", "isolated", "other"} /\ a.position \in {"one_way", "hedge", "other"}
      /\ Defaults(a).market = a.market /\ Defaults(a).network = a.network /\ Defaults(a) \in Asked
  BY ZenonT(40) DEF Asked, Networks, Margins, PositionModes, Defaults
<1>2. ASSUME NEW b \in Asked
      PROVE  Options(b) = [market |-> b.market, testnet |-> b.network = "test", margin |-> b.margin, position |-> b.position]
  BY DEF Options
<1>3. ASSUME NEW b \in Asked, COptions(b) # Refused
      PROVE  /\ b.margin \in Margins
             /\ COptions(b) = [market |-> b.market, testnet |-> b.network = "test", margin |-> b.margin,
                               position |-> PositionModeFromCode(b.position)]
  BY <1>3 DEF COptions, Options
<1>4. \A p \in {"one_way", "hedge", "other"} : PositionModeFromCode(p) = p \/ p = "other"
  BY DEF PositionModeFromCode
<1>5. CASE a.language = "rust"
  BY <1>2, <1>5 DEF OptionsOf, TheOptions, Sayable
<1>6. CASE a.language = "c"
  <2>1. OptionsOf(a) = COptions(a)
    BY <1>6 DEF OptionsOf
  <2> QED
    BY <1>1, <1>3, <1>4, <1>6, <2>1 DEF TheOptions, Sayable
<1>7. CASE a.language = "go"
  <2>1. OptionsOf(a) = IF a.door = "exchange" THEN COptions(a) ELSE COptions(Defaults(a))
    BY <1>7 DEF OptionsOf, GoOptions
  <2>2. CASE a.door = "exchange"
    BY <1>1, <1>3, <1>4, <1>7, <2>1, <2>2 DEF TheOptions, Sayable
  <2>3. CASE a.door # "exchange"
    BY <1>1, <1>3, <1>7, <2>1, <2>3 DEF TheOptions, Sayable
  <2> QED
    BY <2>2, <2>3
<1>8. CASE a.language = "r"
  <2>1. CASE a.door = "exchange"
    <3>1. a.margin \in Margins /\ a.position \in PositionModes /\ OptionsOf(a) = COptions(a)
      BY <1>8, <2>1 DEF OptionsOf, ROptions, GoOptions
    <3> QED
      BY <1>1, <1>3, <1>4, <1>8, <2>1, <3>1 DEF TheOptions, Sayable, PositionModes
  <2>2. CASE a.door # "exchange"
    <3>1. OptionsOf(a) = COptions(Defaults(a))
      BY <1>8, <2>2 DEF OptionsOf, ROptions, GoOptions
    <3> QED
      BY <1>1, <1>3, <1>8, <2>2, <3>1 DEF TheOptions, Sayable
  <2> QED
    BY <2>1, <2>2
<1>9. CASE a.language = "node"
  <2>1. CASE a.door \in {"exchange", "derivatives"}
    <3>1. OptionsOf(a) = Options(a)
      BY <1>9, <2>1 DEF OptionsOf, NodeWords
    <3> QED
      BY <1>2, <1>9, <3>1 DEF TheOptions, Sayable
  <2>2. CASE a.door \notin {"exchange", "derivatives"}
    <3>1. OptionsOf(a) = Options(Defaults(a))
      BY <1>9, <2>2 DEF OptionsOf, NodeFlag
    <3> QED
      BY <1>1, <1>2, <1>9, <2>2, <3>1 DEF TheOptions, Sayable
  <2> QED
    BY <2>1, <2>2
<1>10. CASE a.language = "python"
  <2>1. CASE a.door \in {"exchange", "derivatives"}
    <3>1. OptionsOf(a) = Options(a)
      BY <1>10, <2>1 DEF OptionsOf, PythonOptions
    <3> QED
      BY <1>2, <1>10, <3>1 DEF TheOptions, Sayable
  <2>2. CASE a.door \notin {"exchange", "derivatives"}
    <3>1. OptionsOf(a) = Options(Defaults(a))
      BY <1>10, <2>2 DEF OptionsOf, PythonOptions
    <3> QED
      BY <1>1, <1>2, <1>10, <2>2, <3>1 DEF TheOptions, Sayable
  <2> QED
    BY <2>1, <2>2
<1> QED
  BY <1>1, <1>5, <1>6, <1>7, <1>8, <1>9, <1>10

\* The client that a venue's constructor makes of the options o.
Client(venue, o, b) ==
  /\ b.is = "client" /\ b.market = o.market
  /\ venue \in KnowsTestnet => b.testnet = o.testnet
  /\ \A m \in DOMAIN b.modes : m \in {"margin", "position"} => b.modes[m] = o[m]

LEMMA BuildsIt ==
  ASSUME NEW a \in Asked, NEW o, TheOptions(o, a), NEW venue \in Venues
  PROVE  Client(venue, o, Build(venue, o))
<1>1. CASE venue = "binance"
  BY <1>1 DEF Build, BinanceBuild, Built, Client, KnowsTestnet, HedgeMode
<1>2. CASE venue = "bitget"
  BY <1>2 DEF Build, BitgetBuild, Built, Client, KnowsTestnet
<1>3. CASE venue = "bybit"
  BY <1>3 DEF Build, BybitBuild, Built, Client, KnowsTestnet, HedgeMode
<1>4. CASE venue = "coinbase"
  BY <1>4 DEF Build, CoinbaseBuild, Built, Client, KnowsTestnet
<1>5. CASE venue = "gate"
  BY <1>5 DEF Build, GateBuild, Built, Client, KnowsTestnet, HedgeMode
<1>6. CASE venue = "htx"
  BY <1>6 DEF Build, HtxBuild, Built, Client, KnowsTestnet
<1>7. CASE venue = "kraken"
  BY <1>7 DEF Build, KrakenBuild, Built, Client, KnowsTestnet, HedgeMode
<1>8. CASE venue = "kucoin"
  BY <1>8 DEF Build, KuCoinBuild, Built, Client, KnowsTestnet, HedgeMode
<1>9. CASE venue = "okx"
  BY <1>9 DEF Build, OkxBuild, Built, Client, KnowsTestnet, TdMode, HedgeMode
<1>10. CASE venue = "upbit"
  BY <1>10 DEF Build, UpbitBuild, Built, Client, KnowsTestnet
<1> QED
  BY <1>1, <1>2, <1>3, <1>4, <1>5, <1>6, <1>7, <1>8, <1>9, <1>10 DEF Venues

LEMMA OpensIt ==
  ASSUME NEW a \in Asked, Expressible(a), Opened(a).is = "client"
  PROVE  \E o : TheOptions(o, a) /\ a.venue \in Venues /\ Opened(a) = Build(a.venue, o)
<1>1. Opened(a) # Refused
  BY DEF Refused
<1>2. OptionsOf(a) # Refused
  BY <1>1 DEF Opened
<1>3. TheOptions(OptionsOf(a), a)
  BY <1>2, OptionsPass
<1>4. a.venue \in Venues \cup {"unknown"}
  BY DEF Asked, Venues
<1>5. a.venue # "unknown" /\ Opened(a) = Build(a.venue, OptionsOf(a))
  BY <1>1, <1>2 DEF Opened, Factory, Expressible
<1> QED
  BY <1>3, <1>4, <1>5

\* A contact with the market and the network that were asked for.
AsAsked(c) ==
  /\ \/ MarketAt(c) = asked.market
     \/ c.seam = "resume" /\ asked.venue \in {"gate", "htx", "kraken", "kucoin"}
  /\ \/ NetworkAt(c) = asked.network
     \/ asked.venue \notin KnowsTestnet
     \/ asked.venue = "okx" /\ c.seam = "public"

\* Each seam of a client leads to its market and, in three clients, its network.
LEMMA SeamsLead ==
  ASSUME asked \in Asked, NEW o, TheOptions(o, asked), asked.venue \in Venues,
         linked = Build(asked.venue, o), EnsureMarketIsRouted
  PROVE  /\ AsAsked(Contact("public", linked.rest, linked.names))
         /\ AsAsked([Contact("signed", linked.rest, linked.names)
                       EXCEPT !.simulated = asked.venue = "okx" /\ linked.testnet])
         /\ AsAsked(Contact("stream", StreamHost, linked.names))
         /\ AsAsked(Contact("resume", ResumedHost, linked.names))
         /\ asked.venue \notin SpotOnly => AsAsked(Contact("private", PrivateHost, PrivateNames))
         /\ HasOrderApi => AsAsked(Contact("order", OrderApiHost, linked.names))
<1>1. /\ o.market = asked.market /\ o.testnet = (asked.network = "test") /\ asked.network \in {"main", "test"}
      /\ linked.market = o.market /\ (asked.venue \in KnowsTestnet => linked.testnet = o.testnet)
  BY BuildsIt DEF TheOptions, Asked, Networks, Client
<1>2. o.market \in Routed /\ (asked.venue \in SpotOnly => o.market = "spot")
  BY <1>1 DEF EnsureMarketIsRouted, Routed
<1>3. CASE asked.venue = "binance"
  <2>1. /\ linked.rest = BinanceRest(o.market, o.testnet)
        /\ linked.names = "none" /\ linked.testnet = o.testnet
    BY <1>1, <1>2, <1>3 DEF Build, BinanceBuild, Built, KnowsTestnet
  <2>2. /\ StreamHost = BinanceStream(o.market, o.testnet) /\ ResumedHost = StreamHost /\ PrivateHost = StreamHost
        /\ PrivateNames = linked.names /\ OrderApiHost = BinanceOrderApi(o.market, o.testnet)
    BY <1>1, <1>3, <2>1 DEF StreamHost, ResumedHost, PrivateHost, PrivateNames, OrderApiHost, KnowsTestnet
  <2>3. CASE o.market = "spot" /\ o.testnet
    <3>1. asked.market = "spot" /\ asked.network = "test"
      BY <1>1, <2>3
    <3> QED
      BY <1>3, <2>1, <2>2, <2>3, <3>1 DEF AsAsked, Contact, MarketAt, NetworkAt,
         SpotHosts, LinearHosts, TestHosts, BinanceRest, BinanceStream, BinanceOrderApi
  <2>4. CASE o.market = "spot" /\ ~o.testnet
    <3>1. asked.market = "spot" /\ asked.network = "main"
      BY <1>1, <2>4
    <3> QED
      BY <1>3, <2>1, <2>2, <2>4, <3>1 DEF AsAsked, Contact, MarketAt, NetworkAt,
         SpotHosts, LinearHosts, TestHosts, BinanceRest, BinanceStream, BinanceOrderApi
  <2>5. CASE o.market = "linear" /\ o.testnet
    <3>1. asked.market = "linear" /\ asked.network = "test"
      BY <1>1, <2>5
    <3> QED
      BY <1>3, <2>1, <2>2, <2>5, <3>1 DEF AsAsked, Contact, MarketAt, NetworkAt,
         SpotHosts, LinearHosts, TestHosts, BinanceRest, BinanceStream, BinanceOrderApi
  <2>6. CASE o.market = "linear" /\ ~o.testnet
    <3>1. asked.market = "linear" /\ asked.network = "main"
      BY <1>1, <2>6
    <3> QED
      BY <1>3, <2>1, <2>2, <2>6, <3>1 DEF AsAsked, Contact, MarketAt, NetworkAt,
         SpotHosts, LinearHosts, TestHosts, BinanceRest, BinanceStream, BinanceOrderApi
  <2> QED
    BY <1>1, <1>2, <2>3, <2>4, <2>5, <2>6 DEF Routed
<1>4. CASE asked.venue = "bitget"
  BY <1>1, <1>2, <1>4 DEF Build, BitgetBuild, Built, Routed, AsAsked, Contact, MarketAt, NetworkAt, KnowsTestnet,
     SpotHosts, LinearHosts, TestHosts, SpotOnly, StreamHost, ResumedHost, PrivateHost, PrivateNames,
     HasOrderApi, OrderApiHost, ByPath, Derivative
<1>5. CASE asked.venue = "bybit"
  <2>1. /\ linked.rest = IF o.testnet THEN "api-testnet.bybit.com" ELSE "api.bybit.com"
        /\ linked.names = o.market /\ linked.testnet = o.testnet
    BY <1>1, <1>2, <1>5 DEF Build, BybitBuild, Built, KnowsTestnet, Category, Routed
  <2>2. /\ StreamHost = BybitStream(o.testnet) /\ ResumedHost = StreamHost /\ PrivateHost = StreamHost
        /\ PrivateNames = o.market /\ OrderApiHost = BybitStream(o.testnet)
    BY <1>1, <1>5, <2>1 DEF StreamHost, ResumedHost, PrivateHost, PrivateNames, OrderApiHost, KnowsTestnet
  <2>3. CASE o.market = "spot" /\ o.testnet
    <3>1. asked.market = "spot" /\ asked.network = "test"
      BY <1>1, <2>3
    <3> QED
      BY <1>5, <2>1, <2>2, <2>3, <3>1 DEF AsAsked, Contact, MarketAt, NetworkAt,
         SpotHosts, LinearHosts, TestHosts, BybitStream
  <2>4. CASE o.market = "spot" /\ ~o.testnet
    <3>1. asked.market = "spot" /\ asked.network = "main"
      BY <1>1, <2>4
    <3> QED
      BY <1>5, <2>1, <2>2, <2>4, <3>1 DEF AsAsked, Contact, MarketAt, NetworkAt,
         SpotHosts, LinearHosts, TestHosts, BybitStream
  <2>5. CASE o.market = "linear" /\ o.testnet
    <3>1. asked.market = "linear" /\ asked.network = "test"
      BY <1>1, <2>5
    <3> QED
      BY <1>5, <2>1, <2>2, <2>5, <3>1 DEF AsAsked, Contact, MarketAt, NetworkAt,
         SpotHosts, LinearHosts, TestHosts, BybitStream
  <2>6. CASE o.market = "linear" /\ ~o.testnet
    <3>1. asked.market = "linear" /\ asked.network = "main"
      BY <1>1, <2>6
    <3> QED
      BY <1>5, <2>1, <2>2, <2>6, <3>1 DEF AsAsked, Contact, MarketAt, NetworkAt,
         SpotHosts, LinearHosts, TestHosts, BybitStream
  <2> QED
    BY <1>1, <1>2, <2>3, <2>4, <2>5, <2>6 DEF Routed
<1>6. CASE asked.venue = "coinbase"
  BY <1>1, <1>2, <1>6 DEF Build, CoinbaseBuild, Built, Routed, AsAsked, Contact, MarketAt, NetworkAt, KnowsTestnet,
     SpotHosts, LinearHosts, TestHosts, SpotOnly, StreamHost, ResumedHost, PrivateHost, PrivateNames,
     HasOrderApi, OrderApiHost
<1>7. CASE asked.venue = "gate"
  BY <1>1, <1>2, <1>7 DEF Build, GateBuild, Built, Routed, AsAsked, Contact, MarketAt, NetworkAt, KnowsTestnet,
     SpotHosts, LinearHosts, TestHosts, SpotOnly, StreamHost, ResumedHost, PrivateHost, PrivateNames,
     HasOrderApi, OrderApiHost, ByPath, Derivative, GateStream, IsFutures
<1>8. CASE asked.venue = "htx"
  BY <1>1, <1>2, <1>8 DEF Build, HtxBuild, Built, Routed, AsAsked, Contact, MarketAt, NetworkAt, KnowsTestnet,
     SpotHosts, LinearHosts, TestHosts, SpotOnly, StreamHost, ResumedHost, PrivateHost, PrivateNames,
     HasOrderApi, OrderApiHost, Derivative, HtxStream, IsFutures
<1>9. CASE asked.venue = "kraken"
  BY <1>1, <1>2, <1>9 DEF Build, KrakenBuild, Built, Routed, AsAsked, Contact, MarketAt, NetworkAt, KnowsTestnet,
     SpotHosts, LinearHosts, TestHosts, SpotOnly, StreamHost, ResumedHost, PrivateHost, PrivateNames,
     HasOrderApi, OrderApiHost, Derivative, KrakenStream, IsFutures
<1>10. CASE asked.venue = "kucoin"
  BY <1>1, <1>2, <1>10 DEF Build, KuCoinBuild, Built, Routed, AsAsked, Contact, MarketAt, NetworkAt, KnowsTestnet,
     SpotHosts, LinearHosts, TestHosts, SpotOnly, StreamHost, ResumedHost, PrivateHost, PrivateNames,
     HasOrderApi, OrderApiHost, Derivative, KuCoinStream, IsFutures
<1>11. CASE asked.venue = "okx"
  <2>1. /\ linked.rest = "www.okx.com"
        /\ linked.names = o.market /\ linked.testnet = o.testnet
    BY <1>1, <1>2, <1>11 DEF Build, OkxBuild, Built, KnowsTestnet, InstType, Derivative, Routed
  <2>2. /\ StreamHost = OkxStream(o.testnet) /\ ResumedHost = StreamHost /\ PrivateHost = StreamHost
        /\ PrivateNames = linked.names /\ OrderApiHost = OkxStream(o.testnet)
    BY <1>1, <1>11, <2>1 DEF StreamHost, ResumedHost, PrivateHost, PrivateNames, OrderApiHost, KnowsTestnet
  <2>3. CASE o.market = "spot" /\ o.testnet
    <3>1. asked.market = "spot" /\ asked.network = "test"
      BY <1>1, <2>3
    <3> QED
      BY <1>11, <2>1, <2>2, <2>3, <3>1 DEF AsAsked, Contact, MarketAt, NetworkAt,
         SpotHosts, LinearHosts, TestHosts, OkxStream
  <2>4. CASE o.market = "spot" /\ ~o.testnet
    <3>1. asked.market = "spot" /\ asked.network = "main"
      BY <1>1, <2>4
    <3> QED
      BY <1>11, <2>1, <2>2, <2>4, <3>1 DEF AsAsked, Contact, MarketAt, NetworkAt,
         SpotHosts, LinearHosts, TestHosts, OkxStream
  <2>5. CASE o.market = "linear" /\ o.testnet
    <3>1. asked.market = "linear" /\ asked.network = "test"
      BY <1>1, <2>5
    <3> QED
      BY <1>11, <2>1, <2>2, <2>5, <3>1 DEF AsAsked, Contact, MarketAt, NetworkAt,
         SpotHosts, LinearHosts, TestHosts, OkxStream
  <2>6. CASE o.market = "linear" /\ ~o.testnet
    <3>1. asked.market = "linear" /\ asked.network = "main"
      BY <1>1, <2>6
    <3> QED
      BY <1>11, <2>1, <2>2, <2>6, <3>1 DEF AsAsked, Contact, MarketAt, NetworkAt,
         SpotHosts, LinearHosts, TestHosts, OkxStream
  <2> QED
    BY <1>1, <1>2, <2>3, <2>4, <2>5, <2>6 DEF Routed
<1>12. CASE asked.venue = "upbit"
  BY <1>1, <1>2, <1>12 DEF Build, UpbitBuild, Built, Routed, AsAsked, Contact, MarketAt, NetworkAt, KnowsTestnet,
     SpotHosts, LinearHosts, TestHosts, SpotOnly, StreamHost, ResumedHost, PrivateHost, PrivateNames,
     HasOrderApi, OrderApiHost
<1> QED
  BY <1>3, <1>4, <1>5, <1>6, <1>7, <1>8, <1>9, <1>10, <1>11, <1>12 DEF Venues

LinkInv ==
  /\ asked \in Asked /\ Expressible(asked)
  /\ linked \in {NotYet, Refused, Opened(asked)}
  /\ stream # "none" \/ contact # NoContact => linked.is = "client"
  /\ contact # NoContact => AsAsked(contact)

LEMMA ReachKeeps ==
  ASSUME LinkInv, linked.is = "client",
         \/ PublicRequest \/ SignedRequest \/ SubscribePublic \/ ResumePublic
         \/ SubscribePrivate \/ OrderOverSocket
  PROVE  LinkInv'
<1>1. UNCHANGED <<asked, linked>> /\ EnsureMarketIsRouted
  BY DEF PublicRequest, SignedRequest, SubscribePublic, ResumePublic, SubscribePrivate, OrderOverSocket, Reach
<1>2. linked = Opened(asked)
  BY DEF LinkInv, NotYet, Refused
<1>3. PICK o : TheOptions(o, asked) /\ asked.venue \in Venues /\ linked = Build(asked.venue, o)
  BY <1>2, OpensIt DEF LinkInv
<1>4. PICK c : contact' = c /\ AsAsked(c)
  BY <1>1, <1>3, SeamsLead DEF LinkInv, PublicRequest, SignedRequest, SubscribePublic, ResumePublic,
     SubscribePrivate, OrderOverSocket, Reach
<1> QED
  BY <1>1, <1>4 DEF LinkInv, AsAsked

LEMMA LinkKeeps ==
  ASSUME LinkInv, [LinkNext]_linkVars
  PROVE  LinkInv'
<1>1. CASE UNCHANGED <<asked, linked, contact>> /\ (stream' = stream \/ stream = "open")
  BY <1>1 DEF LinkInv, AsAsked
<1>2. CASE Connect
  <2>1. contact = NoContact /\ stream = "none"
    BY <1>2 DEF Connect, LinkInv, NotYet
  <2> QED
    BY <1>2, <2>1 DEF Connect, LinkInv
<1>3. CASE PublicRequest \/ SignedRequest \/ SubscribePublic \/ SubscribePrivate \/ OrderOverSocket
  <2>1. linked.is = "client"
    BY <1>3 DEF PublicRequest, SignedRequest, SubscribePublic, SubscribePrivate, OrderOverSocket, Through
  <2> QED
    BY <1>3, <2>1, ReachKeeps
<1>4. CASE ResumePublic
  <2>1. linked.is = "client"
    BY <1>4 DEF ResumePublic, LinkInv
  <2> QED
    BY <1>4, <2>1, ReachKeeps
<1> QED
  BY <1>1, <1>2, <1>3, <1>4 DEF LinkNext, linkVars, StreamDrops

LEMMA LinkStarts == LinkInit => LinkInv
BY ConnectionAssumption DEF LinkInit, LinkInv

LEMMA ModesAreThose ==
  ASSUME LinkInv, linked.is = "client", NEW m \in DOMAIN linked.modes \cap Sayable(asked)
  PROVE  linked.modes[m] = asked[m] \/ (asked.language \in {"c", "go"} /\ asked[m] = "other")
<1>1. linked = Opened(asked)
  BY DEF LinkInv, NotYet, Refused
<1>2. PICK o : TheOptions(o, asked) /\ asked.venue \in Venues /\ linked = Build(asked.venue, o)
  BY <1>1, OpensIt DEF LinkInv
<1>3. Client(asked.venue, o, linked)
  BY <1>2, BuildsIt DEF LinkInv
<1>4. m \in {"margin", "position"} /\ m \in Sayable(asked)
  BY DEF Sayable
<1> QED
  BY <1>2, <1>3, <1>4 DEF Client, TheOptions

(***************************************************************************)
(* A client's contacts are with the market and the network that the        *)
(* program asked for, and its orders carry the modes that it said,         *)
(* whatever the language, the door, the venue and the options              *)
(* (Connection).                                                           *)
(***************************************************************************)
THEOREM ContactsAreThoseAskedFor == LinkSpec => []ContactsAreAsAsked
<1>1. LinkInv /\ [LinkNext]_linkVars => LinkInv'
  BY LinkKeeps
<1>2. LinkInv => ContactsAreAsAsked
  BY ModesAreThose DEF LinkInv, AsAsked, ContactsAreAsAsked
<1> QED
  BY <1>1, <1>2, LinkStarts, PTL DEF LinkSpec
=============================================================================
