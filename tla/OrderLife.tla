----------------------------- MODULE OrderLife -----------------------------
(***************************************************************************)
(* Orders at a venue and a client that manages them: it cancels them one   *)
(* by one or in a batch, over REST or the socket, amends them, queries     *)
(* them and reads the private stream, while the venue fills, cancels and   *)
(* lets them expire in any order, and requests and answers get lost.  What *)
(* the clients make of the venues' words is in OrderViews.                 *)
(*                                                                         *)
(* A definition named X_Fault precedes X and is X with a plausible fault   *)
(* in the code: the properties are tested with it.                         *)
(***************************************************************************)
EXTENDS OrderViews, Sequences, FiniteSets, SequencesExt, FiniteSetsExt

CONSTANTS Clients,     \* clients as they were built
          Quantity,    \* what each of the two orders asks for
          Funds,       \* what the account holds at first
          Managed,     \* the handles of calls for one order; a batch has any
          MaxCalls,    \* bound: the calls of the client
          MaxUnread    \* bound: the frames of the private stream not yet read

ASSUME LifeAssumption ==
  /\ \A c \in Clients : {"venue", "market"} \subseteq DOMAIN c
  /\ \A c \in Clients : c.venue \in {"binance", "bitget", "bybit", "coinbase", "gate", "htx",
                                     "kraken", "kucoin", "okx", "upbit"}
  /\ {Quantity[1], Quantity[2], Funds, MaxCalls, MaxUnread} \subseteq Nat \ {0}
  /\ Funds >= Quantity[1] + Quantity[2] + Max({Quantity[1], Quantity[2]})

VARIABLES client,    \* the client; never changes
          orders,    \* the venue's orders, by handle
          call,      \* the call in progress, or the last one
          calls,     \* how many calls were begun
          known,     \* the handles the caller was told
          seen,      \* the last view of each order that the client gave
          frames,    \* what the private stream delivered and nobody read yet
          money      \* the last balance that the client gave, and the truth of it

vars == <<client, orders, call, calls, known, seen, frames, money>>

Placed      == {1, 2}
Replacement == 3
Handles     == Placed \cup {Replacement}

NoOrder == [phase |-> "none"]
NoView  == [status |-> "none"]
NoMoney == [total |-> 0, held |-> 0, free |-> 0, locked |-> 0]
NoCall  == [op |-> "none", pc |-> "over", ids |-> <<>>, step |-> 0, did |-> {},
            refused |-> {}, answer |-> "none", outcome |-> "none"]

Order(phase, quantity, trigger) ==
  [phase |-> phase, quantity |-> quantity, filled |-> 0, price |-> 1, trigger |-> trigger,
   ending |-> FALSE, of |-> 0]

Exists(h) == orders[h].phase # "none"
Live(o)   == o.phase \in {"waiting", "open", "canceling"}
Orders(os) == {h \in Handles : os[h].phase # "none"}
Left(o)   == o.quantity - o.filled

\* What the account has, and what its live orders bind, at a price of one.
Total(os) == Funds - SumFunction([h \in Orders(os) |-> os[h].filled])
Held(os)  == SumFunction([h \in {h \in Orders(os) : Live(os[h])} |-> Left(os[h])])

\* What the client made of a balance, beside the truth of it.
Given(total, held, parts) ==
  [total |-> total, held |-> held, free |-> parts.free, locked |-> parts.locked]

(***************************************************************************)
(* The venue's order endpoints know the orders of one family: a trigger    *)
(* order that the client placed at an endpoint of its own has a handle     *)
(* which they do not.                                                      *)
(***************************************************************************)
SeparateTriggers(c) ==
  \/ c.venue \in {"bitget", "gate", "htx", "okx"}
  \/ c.venue = "kucoin" /\ ~Swap(c)
Reaches(c, o) == o.phase # "none" /\ ~(o.trigger /\ SeparateTriggers(c))

Init ==
  /\ client \in Clients
  /\ \E trigger \in BOOLEAN :
       orders = [h \in Handles |->
         CASE h = 1 -> Order(IF trigger THEN "waiting" ELSE "open", Quantity[1], trigger)
           [] h = 2 -> Order("open", Quantity[2], FALSE)
           [] h = 3 -> NoOrder]
  /\ call = NoCall /\ calls = 0
  /\ known = Placed
  /\ seen = [h \in Handles |-> NoView]
  /\ frames = <<>> /\ money = NoMoney

(***************************************************************************)
(* The venue.  Every change of an order is told on the private stream,     *)
(* with the balance that it leaves.                                        *)
(***************************************************************************)
Frame(os, h) ==
  [handle |-> h, total |-> Total(os), held |-> Held(os),
   order  |-> IF Surfaces(client, os[h]) THEN Update(client, os[h]) ELSE NoView]

\* The orders become os, and those of the sequence hs are told of.
Become(os, hs) ==
  /\ Len(frames) + Len(hs) <= MaxUnread
  /\ orders' = os
  /\ frames' = IF Streams(client) THEN frames \o [i \in DOMAIN hs |-> Frame(os, hs[i])] ELSE frames

VenueStep(h, o) ==
  /\ Become([orders EXCEPT ![h] = o], <<h>>)
  /\ UNCHANGED <<client, call, calls, known, seen, money>>

\* A trigger order of a separate family fires by placing an order of its own.
Fire(h) ==
  /\ orders[h].phase = "waiting" /\ ~(orders[h].trigger /\ SeparateTriggers(client))
  /\ VenueStep(h, [orders[h] EXCEPT !.phase = "open"])

FireSeparately(h) ==
  /\ orders[h].phase = "waiting" /\ orders[h].trigger /\ SeparateTriggers(client)
  /\ ~Exists(Replacement)
  /\ Become([orders EXCEPT ![h].phase = "fired", ![Replacement] = Order("open", orders[h].quantity, FALSE)], <<Replacement>>)
  /\ UNCHANGED <<client, call, calls, known, seen, money>>

\* A cancellation that the venue has only taken note of may come too late.
Fill(h) ==
  /\ orders[h].phase \in {"open", "canceling"}
  /\ LET o == orders[h]
     IN  VenueStep(h, [o EXCEPT !.filled = @ + 1, !.phase = IF Left(o) = 1 THEN "filled" ELSE @])

\* An order ends by itself, or as its cancellation was noted.
End(h) ==
  /\ Live(orders[h])
  /\ \E phase \in {"canceled"} \cup IF TellsExpiry(client) THEN {"expired"} ELSE {} :
       VenueStep(h, [orders[h] EXCEPT !.phase = phase, !.ending = TRUE])

(***************************************************************************)
(* The caller.                                                             *)
(***************************************************************************)
HasBatch(c)     == c.venue \notin {"coinbase", "upbit"}
HasAmend(c)     == c.venue \in {"binance", "bybit", "gate", "okx"} \/ (c.venue = "kraken" /\ ~Swap(c))
HasWsCancel(c)  == c.venue \in {"binance", "bybit", "okx"} \/ (c.venue \in {"gate", "kraken"} /\ ~Swap(c))

\* Batches, and Gate's amends, that go to the spot account for any client.
BatchMisrouted(c) == c.venue \in {"gate", "htx"} /\ Swap(c)
AmendMisrouted(c) == c.venue = "gate" /\ Swap(c)

Op(op, ids) == [op |-> op, ids |-> ids]

\* The requests that a call sends, one after the other.
BinanceAmend_Fault(c, h) == <<Op("query", {h}), Op("replace", {h})>>
BinanceAmend(c, h) == <<Op("query", {h}), Op(IF Swap(c) THEN "amend" ELSE "replace", {h})>>
BybitAmend(h)      == <<Op("amend", {h}), Op("query", {h})>>
GateAmend(h)       == <<Op("amend", {h})>>
\* Kraken makes another order of an amended one, and the query asks for that.
KrakenAmend(h)     == <<Op("edit", {h}), Op("query", {Replacement})>>
OkxAmend(h)        == <<Op("amend", {h}), Op("query", {h})>>

AmendOrder(c, h) ==
  CASE c.venue = "binance" -> BinanceAmend(c, h)
    [] c.venue = "bybit"   -> BybitAmend(h)
    [] c.venue = "gate"    -> GateAmend(h)
    [] c.venue = "kraken"  -> KrakenAmend(h)
    [] c.venue = "okx"     -> OkxAmend(h)

OneByOne_Fault(ids) == [i \in 1..(Len(ids) - 1) |-> Op("cancel", {ids[i]})]
OneByOne(ids) == [i \in DOMAIN ids |-> Op("cancel", {ids[i]})]
AtOnce(ids)   == <<Op("cancel_all", {ids[i] : i \in DOMAIN ids})>>

BinanceCancelBatch(c, ids) == IF Swap(c) THEN AtOnce(ids) ELSE OneByOne(ids)
BitgetCancelBatch(ids)     == AtOnce(ids)
BybitCancelBatch(ids)      == AtOnce(ids)
GateCancelBatch(ids)       == AtOnce(ids)
HtxCancelBatch(ids)        == AtOnce(ids)
KrakenCancelBatch(c, ids)  == IF Swap(c) THEN OneByOne(ids) ELSE AtOnce(ids)
KuCoinCancelBatch(ids)     == OneByOne(ids)
OkxCancelBatch(ids)        == AtOnce(ids)

CancelBatch(c, ids) ==
  CASE c.venue = "binance" -> BinanceCancelBatch(c, ids)
    [] c.venue = "bitget"  -> BitgetCancelBatch(ids)
    [] c.venue = "bybit"   -> BybitCancelBatch(ids)
    [] c.venue = "gate"    -> GateCancelBatch(ids)
    [] c.venue = "htx"     -> HtxCancelBatch(ids)
    [] c.venue = "kraken"  -> KrakenCancelBatch(c, ids)
    [] c.venue = "kucoin"  -> KuCoinCancelBatch(ids)
    [] c.venue = "okx"     -> OkxCancelBatch(ids)

\* HTX needs the account's number for its spot orders, and asks for it first.
HtxOpenOrders(c) == IF Swap(c) THEN <<Op("list", {})>> ELSE <<Op("account", {}), Op("list", {})>>
OpenOrders(c)    == IF c.venue = "htx" THEN HtxOpenOrders(c) ELSE <<Op("list", {})>>

Requests(c, op, ids) ==
  CASE op \in {"cancel", "cancel_ws"} -> <<Op("cancel", {ids[1]})>>
    [] op = "cancel_batch" -> CancelBatch(c, ids)
    [] op = "amend"        -> AmendOrder(c, ids[1])
    [] op = "query"        -> <<Op("query", {ids[1]})>>
    [] op = "open_orders"  -> OpenOrders(c)

Begin(op, ids) ==
  /\ call.pc = "over" /\ calls < MaxCalls
  /\ \A i \in DOMAIN ids : ids[i] \in known
  /\ call' = [NoCall EXCEPT !.op = op, !.pc = "send", !.ids = ids, !.step = 1]
  /\ calls' = calls + 1
  /\ UNCHANGED <<client, orders, known, seen, frames, money>>

CancelOrder(h)       == h \in Managed /\ Begin("cancel", <<h>>)
CancelOrderWs(h)     == h \in Managed /\ HasWsCancel(client) /\ Begin("cancel_ws", <<h>>)
CancelOrders(h1, h2) == HasBatch(client) /\ h1 # h2 /\ Begin("cancel_batch", <<h1, h2>>)
Amend(h)             == h \in Managed /\ HasAmend(client) /\ Begin("amend", <<h>>)
QueryOrder(h)        == h \in Managed /\ Begin("query", <<h>>)

\* Gate and the swaps of HTX list the orders of one symbol only.
NeedsSymbol(c)    == c.venue = "gate" \/ (c.venue = "htx" /\ Swap(c))
AllOrders(symbol) == (NeedsSymbol(client) => symbol) /\ Begin("open_orders", <<>>)

(***************************************************************************)
(* The venue and a request.  An answer is "done", with the views of the    *)
(* orders where it has them, or an error.  Some answers to a cancellation  *)
(* are "done" and tell of a refusal only in their body.                    *)
(***************************************************************************)
Current == Requests(client, call.op, call.ids)[call.step]

Misrouted ==
  \/ call.op = "cancel_batch" /\ BatchMisrouted(client)
  \/ call.op = "amend" /\ AmendMisrouted(client)

Workable(h) ==
  Reaches(client, orders[h]) /\ orders[h].phase \in {"waiting", "open"} /\ ~Misrouted

TellsInBody(c, req) ==
  \/ req.op = "cancel_all"
  \/ req.op = "cancel" /\ (c.venue = "coinbase" \/ (c.venue = "kraken" /\ Swap(c) /\ call.op # "cancel_ws"))

Answered(answer, did, refused) ==
  call' = [call EXCEPT !.pc = "answered", !.answer = answer, !.did = @ \cup did,
                       !.refused = @ \cup refused]

\* The orders of `gone` end, the others of the request are refused.
VenueCancels(gone) ==
  /\ call.pc = "send" /\ Current.op \in {"cancel", "cancel_all"}
  /\ gone \subseteq {h \in Current.ids : Workable(h)}
  /\ \E phase \in {"canceled"} \cup IF TellsCanceling(client) THEN {"canceling"} ELSE {} :
       Become([h \in Handles |->
                 IF h \in gone THEN [orders[h] EXCEPT !.phase = phase, !.ending = TRUE] ELSE orders[h]],
              SetToSeq(gone))
  /\ Answered(IF gone = Current.ids \/ TellsInBody(client, Current) THEN "done" ELSE "error",
              gone, Current.ids \ gone)
  /\ UNCHANGED <<client, calls, known, seen, money>>

VenueAmends(h) ==
  /\ call.pc = "send" /\ Current = Op("amend", {h}) /\ Workable(h)
  /\ Become([orders EXCEPT ![h].price = 2], <<h>>)
  /\ Answered("done", {h}, {})
  /\ UNCHANGED <<client, calls, known, seen, money>>

\* Another order takes the place of order h, or is refused when h is gone.
Replaces(h, o, placed) ==
  /\ Workable(h) /\ ~Exists(Replacement)
  /\ Become([orders EXCEPT ![h].phase = "canceled", ![h].ending = TRUE,
                           ![Replacement] = IF placed THEN o ELSE NoOrder],
            IF placed THEN <<h, Replacement>> ELSE <<h>>)
  /\ Answered(IF placed THEN "done" ELSE "error", {h}, {})
  /\ UNCHANGED <<client, calls, known, seen, money>>

\* Kraken's edit: an order with what is left of the first.
VenueEdits(h) ==
  /\ call.pc = "send" /\ Current = Op("edit", {h})
  /\ Replaces(h, [orders[h] EXCEPT !.price = 2, !.quantity = Left(orders[h]), !.filled = 0,
                                   !.of = h], TRUE)

\* Cancel-replace: the client asks for an order with the quantity that it
\* read, the whole of it, and for no trigger price, which a stop needs.  With
\* STOP_ON_FAILURE nothing is placed unless the first order was cancelled.
VenueReplaces(h, placed) ==
  /\ call.pc = "send" /\ Current = Op("replace", {h})
  /\ ~orders[h].trigger
  /\ Replaces(h, [Order("open", orders[h].quantity, FALSE) EXCEPT !.price = 2, !.of = h], placed)

VenueShows(h) ==
  /\ call.pc = "send" /\ Current = Op("query", {h})
  /\ Reaches(client, orders[h])
  /\ Answered("done", {}, {})
  /\ seen' = [seen EXCEPT ![h] = Query(client, orders[h])]
  /\ money' = LET total == Total(orders)
                  held  == Held(orders)
              IN  Given(total, held, Balances(client, total, held))
  /\ UNCHANGED <<client, orders, calls, known, frames>>

\* Open orders: Coinbase is asked for OPEN ones, and Upbit for those in wait.
Listed(c, o) ==
  /\ o.phase # "none" /\ Live(o) /\ Reaches(c, o)
  /\ c.venue = "coinbase" => CoinbaseWord[At(o)] = "OPEN"
  /\ c.venue = "upbit" => UpbitWord[At(o)] = "wait"

VenueLists ==
  /\ call.pc = "send" /\ Current.op = "list"
  /\ Answered("done", {}, {})
  /\ LET listed == {h \in Handles : Listed(client, orders[h])}
     IN  /\ seen' = [h \in Handles |-> IF h \in listed THEN Query(client, orders[h]) ELSE seen[h]]
         /\ known' = known \cup listed
  /\ UNCHANGED <<client, orders, calls, frames, money>>

VenueTellsAccount ==
  /\ call.pc = "send" /\ Current.op = "account"
  /\ Answered("done", {}, {})
  /\ UNCHANGED <<client, orders, calls, known, seen, frames, money>>

VenueRefuses ==
  /\ call.pc = "send" /\ ~TellsInBody(client, Current)
  /\ Answered("error", {}, Current.ids)
  /\ UNCHANGED <<client, orders, calls, known, seen, frames, money>>

\* The request, or the answer to it, is lost.
RequestLost ==
  /\ call.pc = "send"
  /\ Answered("error", {}, {})
  /\ UNCHANGED <<client, orders, calls, known, seen, frames, money>>

AnswerLost ==
  /\ call.pc = "answered" /\ call.answer = "done" /\ Current.op \notin {"query", "list"}
  /\ Answered("error", {}, {})
  /\ UNCHANGED <<client, orders, calls, known, seen, frames, money>>

(***************************************************************************)
(* The client reads an answer: an error ends the call, anything else lets  *)
(* it go on.                                                               *)
(***************************************************************************)
\* The handle of an amended order, in the view that the caller gets.
AmendedHandle_Fault(c, h) == h
AmendedHandle(c, h) ==
  IF c.venue \in {"binance", "kraken"} /\ ~Swap(c) THEN Replacement ELSE h

ReadAnswer ==
  /\ call.pc = "answered"
  /\ LET last == call.step = Len(Requests(client, call.op, call.ids))
         ok   == call.answer = "done"
     IN /\ call' = IF ok /\ ~last
                   THEN [call EXCEPT !.pc = "send", !.step = @ + 1, !.answer = "none"]
                   ELSE [call EXCEPT !.pc = "over", !.outcome = IF ok THEN "ok" ELSE "err"]
        /\ known' = IF ok /\ last /\ call.op = "amend"
                    THEN known \cup {AmendedHandle(client, call.ids[1])} ELSE known
  /\ UNCHANGED <<client, orders, calls, seen, frames, money>>

\* poll_events, one frame at a time.
ReadFrame ==
  /\ frames # <<>>
  /\ LET f == Head(frames) IN
     /\ seen' = IF f.order = NoView THEN seen ELSE [seen EXCEPT ![f.handle] = f.order]
     /\ known' = IF f.order = NoView THEN known ELSE known \cup {f.handle}
     /\ money' = Given(f.total, f.held, BalanceUpdate(client, f.total, f.held))
  /\ frames' = Tail(frames)
  /\ UNCHANGED <<client, orders, call, calls>>

Next ==
  \/ \E h \in Handles :
       \/ Fire(h) \/ FireSeparately(h) \/ Fill(h) \/ End(h)
       \/ CancelOrder(h) \/ CancelOrderWs(h) \/ Amend(h) \/ QueryOrder(h)
       \/ VenueAmends(h) \/ VenueEdits(h) \/ VenueShows(h)
       \/ \E placed \in BOOLEAN : VenueReplaces(h, placed)
       \/ \E h2 \in Handles : CancelOrders(h, h2)
  \/ \E gone \in SUBSET Handles : VenueCancels(gone)
  \/ \E symbol \in BOOLEAN : AllOrders(symbol)
  \/ VenueLists \/ VenueTellsAccount \/ VenueRefuses \/ RequestLost \/ AnswerLost
  \/ ReadAnswer \/ ReadFrame

Spec == Init /\ [][Next]_vars
Views  == [status : {"New", "PartiallyFilled", "Filled", "Canceled", "Rejected", "Expired"},
           filled : Nat]
Phases == {"waiting", "open", "canceling", "canceled", "expired", "filled", "fired"}

TypeOK ==
  /\ client \in Clients /\ calls \in 0..MaxCalls /\ known \subseteq Handles
  /\ \A h \in Handles : Exists(h) =>
       LET o == orders[h] IN
       /\ o.phase \in Phases /\ o.filled \in 0..o.quantity
       /\ o.phase = "filled" <=> o.filled = o.quantity
  /\ \A h \in Handles : seen[h] = NoView \/ (seen[h] \in Views /\ Exists(h))
  /\ Len(frames) <= MaxUnread

(***************************************************************************)
(* What the client last showed of an order was so and, where it is final,  *)
(* is so: a filled order was filled, a cancelled one was cancelled or is   *)
(* being cancelled, and no more is shown filled than was.  Every venue     *)
(* tells it in words, numbers and parts of its own, twice over.            *)
(***************************************************************************)
ShownTruly(o, v) ==
  /\ v.filled <= o.filled
  /\ v.status = "Filled" => o.phase = "filled" /\ v.filled = o.quantity
  /\ v.status \in {"Canceled", "Expired"} => o.ending
  /\ v.status = "PartiallyFilled" => o.filled > 0
  /\ v.status # "Rejected"

\* Swaps of HTX are left out: swap_status and private_order_status take the
\* venue's numbers for different states (htx.rs:1768, 2048).
ShownIsTrue ==
  ~(client.venue = "htx" /\ Swap(client)) =>
    \A h \in Handles : seen[h] # NoView => ShownTruly(orders[h], seen[h])

\* The streams of Binance Futures, Gate Futures and Kraken say no more than
\* the total.
TellsHeld(c) == ~(c.venue = "kraken" \/ (c.venue \in {"binance", "gate"} /\ Swap(c)))

(***************************************************************************)
(* The balance that the client gave last splits what the account had into  *)
(* what its open orders bind and what is free, however the venue put it.   *)
(***************************************************************************)
BalancesTellHeld ==
  money # NoMoney =>
    \/ money.free = money.total - money.held /\ money.locked = money.held
    \/ ~TellsHeld(client) /\ money.free = money.total /\ money.locked = 0

(***************************************************************************)
(* What a finished call says is so.  A cancel that returned Ok ended its   *)
(* orders, unless the venue refuses in the body, which no client reads; an *)
(* amended order has its new price; a refused cancel ended nothing but the *)
(* orders before the refused one; and a refused amend left the order as it *)
(* was, unless it takes two requests that change something, or the second  *)
(* only reads (binance.rs:944-990, bybit.rs:1783, kraken.rs:2670).         *)
(***************************************************************************)
Ids == {call.ids[i] : i \in DOMAIN call.ids}

OutcomesAreTrue ==
  call.pc = "over" /\ call.op # "none" =>
    LET reqs    == Requests(client, call.op, call.ids)
        cancels == call.op \in {"cancel", "cancel_ws", "cancel_batch"}
        in_body == \E i \in DOMAIN reqs : TellsInBody(client, reqs[i])
    IN
    /\ call.outcome = "ok" /\ cancels /\ ~in_body => \A h \in Ids : orders[h].ending
    /\ call.outcome = "err" /\ cancels /\ ~in_body =>
         \A i, j \in DOMAIN call.ids :
           i < j /\ call.ids[j] \in call.did => call.ids[i] \in call.did
    /\ call.outcome = "ok" /\ call.op = "amend" =>
         orders[AmendedHandle(client, call.ids[1])].price = 2
    /\ call.outcome = "err" /\ call.op = "amend" /\ call.refused # {} =>
         call.did = {} \/ call.step = 2

Replaced(h) == Exists(Replacement) /\ orders[Replacement].of = h

(***************************************************************************)
(* An amend does not make the caller trade more than it asked for, also    *)
(* when the order fills while it is amended.  Only the cancel-replace of   *)
(* Binance spot buys again what was filled (binance.rs:951-990), and no    *)
(* more than that.                                                         *)
(***************************************************************************)
NeverOverfilled ==
  \A h \in Handles : Replaced(h) =>
    LET most == orders[h].filled + orders[Replacement].quantity
    IN  IF client.venue = "binance" /\ ~Swap(client)
        THEN most < 2 * orders[h].quantity
        ELSE most <= orders[h].quantity

(***************************************************************************)
(* A live order has a handle that the caller was told, or will read on the *)
(* private stream: also one that took the place of another, whose call     *)
(* failed after the venue had carried it out.                              *)
(***************************************************************************)
HandlesAreTold ==
  /\ \A h \in Handles : Live(orders[h]) =>
       h \in known \/ \E i \in DOMAIN frames : frames[i].handle = h /\ frames[i].order # NoView
  /\ call.pc = "over" /\ call.op = "amend" /\ call.outcome = "ok" /\ Replaced(call.ids[1]) =>
       Replacement \in known
=============================================================================
