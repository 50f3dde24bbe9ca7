--------------------------- MODULE PaperExchange ----------------------------
(***************************************************************************)
(* PaperExchange (exchanges/paper.rs): an exchange simulated over an       *)
(* internal portfolio.  Marks are injected, an order that crosses the mark *)
(* fills at once and in full, any other limit order rests and locks what   *)
(* it reserves until it is cancelled.                                      *)
(*                                                                         *)
(* The code's amounts are exact decimals.  Here every amount of an asset   *)
(* is an integer number of 1/Unit, Unit = Scale^2 with Scale the number of *)
(* basis points in one (10_000 in the code), fine enough for one slippage  *)
(* and one fee to be exact.                                                *)
(*                                                                         *)
(* A method runs to completion under &mut self, so each is one action.     *)
(* Time in force, reduce-only, client ids and the order's maker fee have   *)
(* no effect in the code and are left out.                                 *)
(*                                                                         *)
(* A definition named X_Fault precedes X and is X with a plausible fault   *)
(* in the code: the properties are tested with it.                         *)
(***************************************************************************)
EXTENDS Integers, Sequences, Functions, FiniteSetsExt

CONSTANTS Symbols, Assets,
          BaseOf(_), QuoteOf(_),   \* the assets of a symbol
          Prices, Quantities,      \* positive prices and quantities of the instance
          Requests,                \* the OrderRequests of the instance
          TakerBps, SlippageBps, Scale,
          Deposits,                \* amounts with_balance may seed, in 1/Unit
          MaxOrders                \* bound of the instance: orders placed

NoPrice == 0

ASSUME PaperAssumption ==
  /\ \A s \in Symbols : BaseOf(s) \in Assets /\ QuoteOf(s) \in Assets /\ BaseOf(s) # QuoteOf(s)
  /\ Prices \subseteq Nat \ {NoPrice}
  /\ Quantities \subseteq Nat \ {0}
  /\ Requests \subseteq
       [symbol : Symbols, side : {"buy", "sell"}, type : {"market", "limit", "stop"},
        qty : Quantities \cup {0}, price : Prices \cup {NoPrice}, postOnly : BOOLEAN]
  /\ Scale \in Nat \ {0}
  /\ TakerBps \in 0 .. Scale
  /\ SlippageBps \in 0 .. Scale
  /\ Deposits \subseteq Nat

VARIABLES marks,      \* mark per symbol, NoPrice until set
          free, locked,
          orders,     \* every order ever placed; "paper-n" is orders[n]
          events,     \* pending events, drained by poll_events
          seeded,     \* what with_balance put in while the exchange was built; never changes
          known       \* history: what a client that applies every polled event knows

account == <<free, locked, orders, events>>
vars == <<marks, account, seeded, known>>

Unit == Scale * Scale

Order_AverageIsLimit(r, price, status, paid) ==
  [symbol |-> r.symbol, side |-> r.side, type |-> r.type, qty |-> r.qty, price |-> price,
   status |-> status, average |-> price * Scale]
Order(r, price, status, paid) ==
  [symbol |-> r.symbol, side |-> r.side, type |-> r.type, qty |-> r.qty, price |-> price,
   status |-> status, average |-> paid]

IsOpen(o) == o.status = "new"

Open(os) == {i \in DOMAIN os : IsOpen(os[i])}

\* Notional of qty at an average price in 1/Scale, and the taker fee on it.
Notional(qty, average) == qty * average * Scale
Fee(qty, average) == qty * average * TakerBps

FillPrice(side, mark) ==
  IF side = "buy" THEN mark * (Scale + SlippageBps) ELSE mark * (Scale - SlippageBps)

\* The asset a resting order locks, and how much of it.
LockedAsset(o) == IF o.side = "buy" THEN QuoteOf(o.symbol) ELSE BaseOf(o.symbol)
Reserved(o) == IF o.side = "buy" THEN o.qty * o.price * Unit ELSE o.qty * Unit

Crosses(r) ==
  \/ r.type = "market"
  \/ r.side = "buy" /\ r.price >= marks[r.symbol]
  \/ r.side = "sell" /\ r.price <= marks[r.symbol]

\* What a marketable order must have, and what it takes and brings.
Spends(r, average) ==
  IF r.side = "buy" THEN Notional(r.qty, average) + Fee(r.qty, average) ELSE r.qty * Unit
Brings(r, average) ==
  IF r.side = "buy" THEN r.qty * Unit ELSE Notional(r.qty, average) - Fee(r.qty, average)
BoughtAsset(o) == IF o.side = "buy" THEN BaseOf(o.symbol) ELSE QuoteOf(o.symbol)

Affords(r, average) == free[LockedAsset(r)] >= Spends(r, average)

\* place_order's verdict: the first error that applies, or what it does.
Verdict(r) ==
  IF r.qty = 0 \/ (r.type = "limit" /\ r.price = NoPrice) \/ r.type = "stop" THEN "InvalidOrder"
  ELSE IF marks[r.symbol] = NoPrice THEN "NotFound"
  ELSE IF ~Crosses(r)
    THEN IF free[LockedAsset(r)] < Reserved(r) THEN "InsufficientBalance" ELSE "rests"
  ELSE IF r.postOnly THEN "OrderRejected"
  ELSE IF Affords(r, FillPrice(r.side, marks[r.symbol])) THEN "fills" ELSE "InsufficientBalance"

OrderEvent(i, o) == [kind |-> "order", id |-> i, order |-> o]
BalanceEvent_FreeOnly(fr, lo) == [kind |-> "balance", total |-> fr]
BalanceEvent(fr, lo) == [kind |-> "balance", total |-> [a \in Assets |-> fr[a] + lo[a]]]

Init ==
  /\ marks  = [s \in Symbols |-> NoPrice]
  /\ seeded \in [Assets -> Deposits]
  /\ free   = seeded
  /\ locked = [a \in Assets |-> 0]
  /\ orders = <<>>
  /\ events = <<>>
  /\ known  = [orders |-> <<>>, total |-> seeded]

-----------------------------------------------------------------------------

\* Only the mark changes: resting orders are not looked at.
SetPrice(s, p) ==
  /\ marks' = [marks EXCEPT ![s] = p]
  /\ UNCHANGED <<account, seeded, known>>

\* place_order -> settle_fill
PlaceFills(r) ==
  /\ Verdict(r) = "fills"
  /\ Len(orders) < MaxOrders
  /\ LET average == FillPrice(r.side, marks[r.symbol])
         o == Order(r, r.price, "filled", average)
     IN  /\ free' = [free EXCEPT ![LockedAsset(r)] = @ - Spends(r, average),
                                 ![BoughtAsset(r)] = @ + Brings(r, average)]
         /\ orders' = Append(orders, o)
         /\ events' = events \o <<OrderEvent(Len(orders) + 1, o), BalanceEvent(free', locked)>>
  /\ UNCHANGED <<marks, locked, seeded, known>>

\* place_order -> rest_order
PlaceRests(r) ==
  /\ Verdict(r) = "rests"
  /\ Len(orders) < MaxOrders
  /\ LET o == Order(r, r.price, "new", 0)
     IN  /\ free' = [free EXCEPT ![LockedAsset(r)] = @ - Reserved(r)]
         /\ locked' = [locked EXCEPT ![LockedAsset(r)] = @ + Reserved(r)]
         /\ orders' = Append(orders, o)
         /\ events' = Append(events, OrderEvent(Len(orders) + 1, o))
  /\ UNCHANGED <<marks, seeded, known>>

PlaceFails(r) ==
  /\ Verdict(r) \notin {"fills", "rests"}
  /\ UNCHANGED vars

\* One cancellation, as a function of the account, so that cancel_all can repeat it.
Cancelled(acct, i) ==
  LET o == acct.orders[i]
      c == [o EXCEPT !.status = "canceled"]
      fr == [acct.free EXCEPT ![LockedAsset(o)] = @ + Reserved(o)]
      lo == [acct.locked EXCEPT ![LockedAsset(o)] = @ - Reserved(o)]
  IN  [free |-> fr, locked |-> lo, orders |-> [acct.orders EXCEPT ![i] = c],
       events |-> acct.events \o <<OrderEvent(i, c), BalanceEvent(fr, lo)>>]

Account == [free |-> free, locked |-> locked, orders |-> orders, events |-> events]

Becomes(acct) ==
  /\ free' = acct.free
  /\ locked' = acct.locked
  /\ orders' = acct.orders
  /\ events' = acct.events
  /\ UNCHANGED <<marks, seeded, known>>

CancelOrder_AnyStatus(i) ==
  /\ i \in DOMAIN orders
  /\ Becomes(Cancelled(Account, i))
CancelOrder(i) ==
  /\ i \in Open(orders)
  /\ Becomes(Cancelled(Account, i))

\* The order is unknown, filled or already cancelled.
CancelFails(i) ==
  /\ i \notin Open(orders)
  /\ UNCHANGED vars

\* One after another, in the order of the BTreeMap's keys, which for fewer than
\* ten orders is that of placement.
AllCancelled(acct) ==
  LET upTo[i \in 0 .. Len(acct.orders)] ==
        IF i = 0 THEN acct
        ELSE IF i \in Open(acct.orders) THEN Cancelled(upTo[i - 1], i)
        ELSE upTo[i - 1]
  IN upTo[Len(acct.orders)]

CancelAll == Becomes(AllCancelled(Account))

\* What a client that knew k of its orders knows after the events es: of each
\* order, the last word counts.
About(es, i) == {j \in DOMAIN es : es[j].kind = "order" /\ es[j].id = i}
Mentioned(es) == {es[j].id : j \in {j \in DOMAIN es : es[j].kind = "order"}}
Heard(k, es) ==
  [i \in DOMAIN k \union Mentioned(es) |->
     IF About(es, i) = {} THEN k[i] ELSE es[Max(About(es, i))].order]

\* The same of the balances.
Totals(es) == {j \in DOMAIN es : es[j].kind = "balance"}
Learned(k, es) ==
  [orders |-> Heard(k.orders, es),
   total  |-> IF Totals(es) = {} THEN k.total ELSE es[Max(Totals(es))].total]

PollEvents ==
  /\ known' = Learned(known, events)
  /\ events' = <<>>
  /\ UNCHANGED <<marks, free, locked, orders, seeded>>

Next ==
  \/ \E s \in Symbols, p \in Prices : SetPrice(s, p)
  \/ \E r \in Requests : PlaceFills(r) \/ PlaceRests(r) \/ PlaceFails(r)
  \/ \E i \in 1 .. MaxOrders : CancelOrder(i) \/ CancelFails(i)
  \/ CancelAll
  \/ PollEvents

Spec == Init /\ [][Next]_vars

-----------------------------------------------------------------------------
(* Properties *)

\* Whatever was placed, filled and cancelled, the locked balance is exactly what
\* the open orders reserve: no cancellation releases twice, none leaks a lock
\* (paper.rs:248-257, 404-412).
LockedIsReserved ==
  \A a \in Assets :
    locked[a] = SumFunctionOnSet([i \in DOMAIN orders |-> Reserved(orders[i])],
                                 {i \in Open(orders) : LockedAsset(orders[i]) = a})

\* No money appears or vanishes, and none is overdrawn: what an asset holds, free
\* and locked, is what was seeded plus what the filled orders brought and took
\* (paper.rs:209-225).
LedgerBalances ==
  LET Filled == {i \in DOMAIN orders : orders[i].status = "filled"}
      Brought(a) == SumFunctionOnSet([i \in DOMAIN orders |-> Brings(orders[i], orders[i].average)],
                                     {i \in Filled : BoughtAsset(orders[i]) = a})
      Spent(a) == SumFunctionOnSet([i \in DOMAIN orders |-> Spends(orders[i], orders[i].average)],
                                   {i \in Filled : LockedAsset(orders[i]) = a})
  IN  \A a \in Assets :
        /\ free[a] >= 0
        /\ free[a] + locked[a] = seeded[a] + Brought(a) - Spent(a)

\* A client that applies the events still pending to what it learned from the
\* polled ones knows every order's state and every asset's total.  (It does not
\* know the split into free and locked: rest_order reports the order only.)
EventsTellAll ==
  LET k == Learned(known, events)
  IN  /\ k.orders = orders
      /\ k.total = [a \in Assets |-> free[a] + locked[a]]
=============================================================================
