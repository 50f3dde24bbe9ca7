----------------------------- MODULE OrderViews -----------------------------
(***************************************************************************)
(* How the clients tell what became of an order and of a balance: the      *)
(* words of the ten venues, over REST and on the private streams, and the  *)
(* status and the amounts that the clients make of them.                   *)
(*                                                                         *)
(* A definition named X_Fault precedes X and is X with a plausible fault   *)
(* in the code: the properties are tested with it.                         *)
(***************************************************************************)
EXTENDS Naturals, TLC

\* A client is its venue and its market, "spot" or "linear".
Swap(c) == c.market = "linear"

(***************************************************************************)
(* An order of the venue: what it is at, its quantity, and how much of it  *)
(* was filled.  The venues' words follow from no more than that.  Words    *)
(* only a venue's own table knows of are left out where no order of this   *)
(* model is in that state.                                                 *)
(***************************************************************************)
At(o) ==
  CASE o.phase = "open" /\ o.filled > 0     -> "partial"
    [] o.phase = "canceled" /\ o.filled > 0 -> "cut"
    [] OTHER -> o.phase

Most(waiting, open, partial, filled, canceled) ==
  [waiting |-> waiting, open |-> open, partial |-> partial, filled |-> filled,
   canceled |-> canceled, cut |-> canceled]

BinanceWord ==
  [at \in {"waiting", "open", "partial", "filled", "canceled", "cut", "canceling", "expired"} |->
     CASE at = "canceling" -> "PENDING_CANCEL" [] at = "expired" -> "EXPIRED"
       [] OTHER -> Most("NEW", "NEW", "PARTIALLY_FILLED", "FILLED", "CANCELED")[at]]
BitgetWord == Most("none", "live", "partially_filled", "filled", "canceled")
BybitWord  ==
  [Most("Untriggered", "New", "PartiallyFilled", "Filled", "Cancelled")
     EXCEPT !.cut = "PartiallyFilledCanceled"]
CoinbaseWord ==
  [at \in {"waiting", "open", "partial", "filled", "canceled", "cut", "canceling", "expired"} |->
     CASE at = "canceling" -> "CANCEL_QUEUED" [] at = "expired" -> "EXPIRED"
       [] OTHER -> Most("PENDING", "OPEN", "OPEN", "FILLED", "CANCELLED")[at]]
GateWord == Most("none", "open", "open", "closed", "cancelled")
GateFuturesWord ==
  Most(<<"none", "">>, <<"open", "">>, <<"open", "">>, <<"finished", "filled">>,
       <<"finished", "cancelled">>)
HtxWord ==
  [at \in {"waiting", "open", "partial", "filled", "canceled", "cut", "canceling"} |->
     CASE at = "canceling" -> "cancelling" [] at = "cut" -> "partial-canceled"
       [] OTHER -> Most("created", "submitted", "partial-filled", "filled", "canceled")[at]]
HtxSwapWord == [Most(2, 3, 4, 6, 7) EXCEPT !.cut = 5]
KrakenWord ==
  [at \in {"waiting", "open", "partial", "filled", "canceled", "cut", "canceling", "expired"} |->
     CASE at = "canceling" -> "open" [] at = "expired" -> "expired"
       [] OTHER -> Most("pending", "open", "open", "closed", "canceled")[at]]
KrakenStreamWord ==
  [at \in {"waiting", "open", "partial", "filled", "canceled", "cut", "canceling", "expired"} |->
     CASE at = "canceling" -> "pending_cancel" [] at = "expired" -> "expired"
       [] OTHER -> Most("pending_new", "new", "partially_filled", "filled", "canceled")[at]]
KrakenFuturesWord == Most("untouched", "untouched", "partiallyFilled", "FULLY_EXECUTED", "CANCELLED")
OkxWord   == Most("none", "live", "partially_filled", "filled", "canceled")
UpbitWord == Most("watch", "wait", "wait", "done", "cancel")

(***************************************************************************)
(* The clients' tables.                                                    *)
(***************************************************************************)
BinanceStatus(w) ==
  CASE w = "NEW" -> "New"
    [] w = "PARTIALLY_FILLED" -> "PartiallyFilled"
    [] w = "FILLED" -> "Filled"
    [] w \in {"CANCELED", "PENDING_CANCEL"} -> "Canceled"
    [] w = "REJECTED" -> "Rejected"
    [] w \in {"EXPIRED", "EXPIRED_IN_MATCH"} -> "Expired"

BitgetStatus(w) ==
  CASE w \in {"live", "new", "init"} -> "New"
    [] w = "partially_filled" -> "PartiallyFilled"
    [] w \in {"filled", "full_fill"} -> "Filled"
    [] w \in {"cancelled", "canceled"} -> "Canceled"

BybitStatus(w) ==
  CASE w \in {"New", "Untriggered", "Triggered"} -> "New"
    [] w = "PartiallyFilled" -> "PartiallyFilled"
    [] w = "Filled" -> "Filled"
    [] w \in {"Cancelled", "PartiallyFilledCanceled", "Deactivated"} -> "Canceled"
    [] w = "Rejected" -> "Rejected"

CoinbaseStatus(w) ==
  CASE w \in {"OPEN", "PENDING", "QUEUED"} -> "New"
    [] w = "FILLED" -> "Filled"
    [] w \in {"CANCELLED", "CANCEL_QUEUED"} -> "Canceled"
    [] w = "EXPIRED" -> "Expired"
    [] w \in {"FAILED", "REJECTED"} -> "Rejected"

\* Where the venue says that an order is open, the fill says how far it is.
ByFill(filled) == IF filled > 0 THEN "PartiallyFilled" ELSE "New"

GateStatus(w, filled) ==
  CASE w = "cancelled" -> "Canceled" [] w = "closed" -> "Filled" [] w = "open" -> ByFill(filled)

\* `finished` says nothing of how: finish_as does.
GateFuturesStatus_Fault(w, filled) ==
  CASE w[1] = "open" -> ByFill(filled) [] w[1] = "finished" -> "Filled"
GateFuturesStatus(w, filled) ==
  CASE w[1] = "open" -> ByFill(filled)
    [] w[1] = "finished" -> IF w[2] = "filled" THEN "Filled" ELSE "Canceled"

\* The stream's table: what it does not know is open.
GateFuturesStreamStatus(w, filled) ==
  CASE w[1] = "finished" /\ w[2] = "filled" -> "Filled"
    [] w[1] = "finished" /\ w[2] # "filled" -> "Canceled"
    [] OTHER -> ByFill(filled)

HtxStatus(w) ==
  CASE w \in {"submitted", "created"} -> "New"
    [] w = "partial-filled" -> "PartiallyFilled"
    [] w = "filled" -> "Filled"
    [] w \in {"canceled", "partial-canceled", "cancelling"} -> "Canceled"

\* Swaps have two tables of the venue's numbers: one for REST, one for the stream.
HtxSwapStatus(n) ==
  CASE n = 3 -> "PartiallyFilled" [] n = 6 -> "Filled" [] n \in {4, 7} -> "Canceled"
    [] OTHER -> "New"
HtxSwapStreamStatus(n) ==
  CASE n = 4 -> "PartiallyFilled" [] n \in {5, 7} -> "Canceled" [] n = 6 -> "Filled"
    [] OTHER -> "New"

KrakenStatus(w) ==
  CASE w \in {"pending", "open"} -> "New" [] w = "closed" -> "Filled"
    [] w = "canceled" -> "Canceled" [] w = "expired" -> "Expired"

KrakenStreamStatus(w) ==
  CASE w = "partially_filled" -> "PartiallyFilled" [] w = "filled" -> "Filled"
    [] w \in {"canceled", "cancelled"} -> "Canceled" [] w = "expired" -> "Expired"
    [] OTHER -> "New"

\* Told apart by parts of the word, in this order.
KrakenFuturesStatus(w) ==
  CASE w = "CANCELLED" -> "Canceled" [] w = "partiallyFilled" -> "PartiallyFilled"
    [] w = "FULLY_EXECUTED" -> "Filled" [] OTHER -> "New"

\* The feed says only whether an order left the book by being cancelled.
KrakenFeedStatus(is_cancel) == IF is_cancel THEN "Canceled" ELSE "New"

KuCoinStatus(active, cancel_exist, filled) ==
  IF active THEN ByFill(filled) ELSE IF cancel_exist THEN "Canceled" ELSE "Filled"

\* A finished order is `done`; the event's type says whether it was cancelled.
KuCoinStreamStatus(w, type) ==
  CASE w = "match" -> "PartiallyFilled"
    [] w = "done" -> IF type = "canceled" THEN "Canceled" ELSE "Filled"
    [] OTHER -> "New"

KuCoinFuturesStreamStatus(w, type) ==
  IF type = "canceled" THEN "Canceled"
  ELSE IF w = "match" THEN "PartiallyFilled"
  ELSE IF w = "done" \/ type = "filled" THEN "Filled" ELSE "New"

OkxStatus(w) ==
  CASE w = "live" -> "New" [] w = "partially_filled" -> "PartiallyFilled"
    [] w = "filled" -> "Filled" [] w \in {"canceled", "mmp_canceled"} -> "Canceled"

UpbitStatus(w) ==
  CASE w \in {"wait", "watch"} -> "New" [] w = "done" -> "Filled" [] w = "cancel" -> "Canceled"

(***************************************************************************)
(* An order as the client shows it: its status and its filled quantity.    *)
(***************************************************************************)
Shown(status, filled) == [status |-> status, filled |-> filled]

\* A Gate order says how much of it was filled over REST, and how much is
\* left on the stream and in every message on futures.
GateRaw(o, src) ==
  IF src = "rest" THEN [filled |-> o.filled] ELSE [left |-> o.quantity - o.filled]
GateFilled(o, raw) == IF "filled" \in DOMAIN raw THEN raw.filled ELSE o.quantity - raw.left
GateFuturesFilled(o) == o.quantity - GateRaw(o, "futures").left

BinanceOrder(o)      == Shown(BinanceStatus(BinanceWord[At(o)]), o.filled)
BinanceStreamOrder(o) == Shown(BinanceStatus(BinanceWord[At(o)]), o.filled)
BitgetOrder(o)       == Shown(BitgetStatus(BitgetWord[At(o)]), o.filled)
BybitOrder(o)        == Shown(BybitStatus(BybitWord[At(o)]), o.filled)
CoinbaseOrder(o)     == Shown(CoinbaseStatus(CoinbaseWord[At(o)]), o.filled)
GateOrder(o, src) ==
  LET filled == GateFilled(o, GateRaw(o, src)) IN Shown(GateStatus(GateWord[At(o)], filled), filled)
GateFuturesOrder(o)  ==
  Shown(GateFuturesStatus(GateFuturesWord[At(o)], GateFuturesFilled(o)), GateFuturesFilled(o))
GateFuturesStreamOrder(o) ==
  Shown(GateFuturesStreamStatus(GateFuturesWord[At(o)], GateFuturesFilled(o)), GateFuturesFilled(o))
HtxOrder(o)          == Shown(HtxStatus(HtxWord[At(o)]), o.filled)
HtxStreamOrder(o)    == Shown(HtxStatus(HtxWord[At(o)]), o.filled)
HtxSwapOrder(o)      == Shown(HtxSwapStatus(HtxSwapWord[At(o)]), o.filled)
HtxSwapStreamOrder(o) == Shown(HtxSwapStreamStatus(HtxSwapWord[At(o)]), o.filled)
KrakenOrder(o)       == Shown(KrakenStatus(KrakenWord[At(o)]), o.filled)
KrakenStreamOrder(o) == Shown(KrakenStreamStatus(KrakenStreamWord[At(o)]), o.filled)
KrakenFuturesOrder(o) == Shown(KrakenFuturesStatus(KrakenFuturesWord[At(o)]), o.filled)
KrakenFeedOrder(o)   == Shown(KrakenFeedStatus(o.phase = "canceled"), o.filled)
KuCoinOrder(o)       ==
  Shown(KuCoinStatus(o.phase \in {"waiting", "open"}, o.phase = "canceled", o.filled), o.filled)

\* A fill is told twice: as a match, and then as done if it was the last.
KuCoinWord(o) == IF o.phase = "open" THEN IF o.filled > 0 THEN "match" ELSE "open" ELSE "done"
KuCoinType(o) == IF o.phase = "canceled" THEN "canceled" ELSE "other"
KuCoinStreamOrder(o) == Shown(KuCoinStreamStatus(KuCoinWord(o), KuCoinType(o)), o.filled)
KuCoinFuturesStreamOrder(o) == Shown(KuCoinFuturesStreamStatus(KuCoinWord(o), KuCoinType(o)), o.filled)

OkxOrder(o)   == Shown(OkxStatus(OkxWord[At(o)]), o.filled)
UpbitOrder(o) == Shown(UpbitStatus(UpbitWord[At(o)]), o.filled)

\* query_order and open_orders.
Query(c, o) ==
  CASE c.venue = "binance"  -> BinanceOrder(o)
    [] c.venue = "bitget"   -> BitgetOrder(o)
    [] c.venue = "bybit"    -> BybitOrder(o)
    [] c.venue = "coinbase" -> CoinbaseOrder(o)
    [] c.venue = "gate"     -> IF Swap(c) THEN GateFuturesOrder(o) ELSE GateOrder(o, "rest")
    [] c.venue = "htx"      -> IF Swap(c) THEN HtxSwapOrder(o) ELSE HtxOrder(o)
    [] c.venue = "kraken"   -> IF Swap(c) THEN KrakenFuturesOrder(o) ELSE KrakenOrder(o)
    [] c.venue = "kucoin"   -> KuCoinOrder(o)
    [] c.venue = "okx"      -> OkxOrder(o)
    [] c.venue = "upbit"    -> UpbitOrder(o)

\* The private stream, which Coinbase and Upbit do not have.
Streams(c) == c.venue \notin {"coinbase", "upbit"}

Update(c, o) ==
  CASE c.venue = "binance"  -> BinanceStreamOrder(o)
    [] c.venue = "bitget"   -> BitgetOrder(o)
    [] c.venue = "bybit"    -> BybitOrder(o)
    [] c.venue = "gate"     -> IF Swap(c) THEN GateFuturesStreamOrder(o) ELSE GateOrder(o, "stream")
    [] c.venue = "htx"      -> IF Swap(c) THEN HtxSwapStreamOrder(o) ELSE HtxStreamOrder(o)
    [] c.venue = "kraken"   -> IF Swap(c) THEN KrakenFeedOrder(o) ELSE KrakenStreamOrder(o)
    [] c.venue = "kucoin"   -> IF Swap(c) THEN KuCoinFuturesStreamOrder(o) ELSE KuCoinStreamOrder(o)
    [] c.venue = "okx"      -> OkxOrder(o)

\* A Kraken fill may come as a frame without the order's own fields, and an
\* order of Kraken Futures that is filled leaves the feed without an order:
\* both yield no event.
Surfaces(c, o) ==
  c.venue = "kraken" => o.phase # "filled" /\ (Swap(c) \/ At(o) # "partial")

\* The venues that tell of a cancellation before it is done.
TellsCanceling(c) == c.venue \in {"binance", "coinbase", "htx", "kraken"} /\ ~Swap(c)
TellsExpiry(c)    == c.venue \in {"binance", "coinbase"} \/ (c.venue = "kraken" /\ ~Swap(c))

(***************************************************************************)
(* An asset of which `held` of `total` is bound by open orders, as the     *)
(* client tells of it: the venue says both parts, or the total and one.    *)
(***************************************************************************)
Parts(free, locked) == [free |-> free, locked |-> locked]
Gap(a, b) == IF a > b THEN a - b ELSE 0

BinanceBalance(c, total, held) ==
  IF Swap(c) THEN Parts(total - held, total - (total - held)) ELSE Parts(total - held, held)
BinanceStreamBalance(c, total, held) ==
  IF Swap(c) THEN Parts(total, 0) ELSE Parts(total - held, held)
BitgetBalance(total, held)   == Parts(total - held, held)
BybitBalance(total, held)    == Parts(total - held, held)
CoinbaseBalance(total, held) == Parts(total - held, held)
GateBalance(c, total, held)  ==
  IF Swap(c) THEN Parts(total - held, Gap(total, total - held)) ELSE Parts(total - held, held)
GateStreamBalance(total, held) == Parts(total - held, Gap(total, total - held))
GateFuturesStreamBalance(total) == Parts(total, 0)
\* Spot lists the two parts of an asset as entries of their own.
HtxBalance_Fault(total, held) == Parts((total - held) + held, held)
HtxBalance(total, held) == Parts(total - held, held)
HtxSwapBalance(total, held) == Parts(total - held, held)
HtxStreamBalance(total, held) == Parts(total - held, Gap(total, total - held))
KrakenBalance(total, held) == Parts(total - held, held)
KrakenFuturesBalance(total, held) == Parts(total - held, Gap(total, total - held))
KrakenStreamBalance(total) == Parts(total, 0)
KrakenFeedBalance(total)   == Parts(total, 0)
KuCoinBalance(total, held) == Parts(total - held, held)
KuCoinStreamBalance(total, held) == Parts(total - held, held)
OkxBalance(total, held)    == Parts(total - held, held)
UpbitBalance(total, held)  == Parts(total - held, held)

Balances(c, total, held) ==
  CASE c.venue = "binance"  -> BinanceBalance(c, total, held)
    [] c.venue = "bitget"   -> BitgetBalance(total, held)
    [] c.venue = "bybit"    -> BybitBalance(total, held)
    [] c.venue = "coinbase" -> CoinbaseBalance(total, held)
    [] c.venue = "gate"     -> GateBalance(c, total, held)
    [] c.venue = "htx"      -> IF Swap(c) THEN HtxSwapBalance(total, held) ELSE HtxBalance(total, held)
    [] c.venue = "kraken"   -> IF Swap(c) THEN KrakenFuturesBalance(total, held) ELSE KrakenBalance(total, held)
    [] c.venue = "kucoin"   -> KuCoinBalance(total, held)
    [] c.venue = "okx"      -> OkxBalance(total, held)
    [] c.venue = "upbit"    -> UpbitBalance(total, held)

BalanceUpdate(c, total, held) ==
  CASE c.venue = "binance" -> BinanceStreamBalance(c, total, held)
    [] c.venue = "bitget"  -> BitgetBalance(total, held)
    [] c.venue = "bybit"   -> BybitBalance(total, held)
    [] c.venue = "gate"    -> IF Swap(c) THEN GateFuturesStreamBalance(total) ELSE GateStreamBalance(total, held)
    [] c.venue = "htx"     -> IF Swap(c) THEN HtxSwapBalance(total, held) ELSE HtxStreamBalance(total, held)
    [] c.venue = "kraken"  -> IF Swap(c) THEN KrakenFeedBalance(total) ELSE KrakenStreamBalance(total)
    [] c.venue = "kucoin"  -> KuCoinStreamBalance(total, held)
    [] c.venue = "okx"     -> OkxBalance(total, held)
=============================================================================
