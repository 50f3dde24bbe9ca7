----------------------------- MODULE PaperProofs -----------------------------
(***************************************************************************)
(* The simulated exchange and its callers, for every caller of Bindings    *)
(* (any language, paper or tape, any buffer), any fee, any slippage and    *)
(* any number of orders.                                                   *)
(*                                                                         *)
(* The invariant, PaperInv, is stated of an account record, so that        *)
(* cancel_all's loop keeps it from one cancellation to the next.  Its      *)
(* parts: the ledger (what is locked is what the open orders reserve; what *)
(* is held is what was seeded and traded), and the story that the events   *)
(* tell.  A word about an order may be out of date, but then a later one   *)
(* follows (WordsFit); what the client knew before the pending events is   *)
(* still so of every order that they do not mention (KnowsOrders,          *)
(* Current).                                                               *)
(***************************************************************************)
EXTENDS Bindings, SumTheorems, FiniteSetTheorems, TLAPS

OrderSet ==
  [symbol : Symbols, side : {"buy", "sell"}, type : {"market", "limit", "stop"}, qty : Nat,
   price : Nat, status : {"new", "filled", "canceled"}, average : Nat]

Amounts == [Assets -> Int]

EventSet ==
  [kind : {"order"}, id : Nat, order : OrderSet] \union [kind : {"balance"}, total : Amounts]

Accounts ==
  [free : Amounts, locked : Amounts, orders : Seq(OrderSet), events : Seq(EventSet)]

(***************************************************************************)
(* The ledger's sums, of any list of orders.                               *)
(***************************************************************************)
Reserves(os) == [i \in DOMAIN os |-> Reserved(os[i])]
Gains(os)    == [i \in DOMAIN os |-> Brings(os[i], os[i].average)]
Costs(os)    == [i \in DOMAIN os |-> Spends(os[i], os[i].average)]

OpenIn(os, a)   == {i \in Open(os) : LockedAsset(os[i]) = a}
FilledOf(os)    == {i \in DOMAIN os : os[i].status = "filled"}
BoughtIn(os, a) == {i \in FilledOf(os) : BoughtAsset(os[i]) = a}
SpentIn(os, a)  == {i \in FilledOf(os) : LockedAsset(os[i]) = a}

ReservedIn(os, a) == SumFunctionOnSet(Reserves(os), OpenIn(os, a))
Brought(os, a)    == SumFunctionOnSet(Gains(os), BoughtIn(os, a))
Spent(os, a)      == SumFunctionOnSet(Costs(os), SpentIn(os, a))

LocksFit(acct) == \A a \in Assets : acct.locked[a] = ReservedIn(acct.orders, a)

Balanced(acct, seed) ==
  \A a \in Assets :
    /\ acct.free[a] >= 0
    /\ acct.free[a] + acct.locked[a] = seed[a] + Brought(acct.orders, a) - Spent(acct.orders, a)

Ledger(acct, seed) == acct \in Accounts /\ LocksFit(acct) /\ Balanced(acct, seed)

(***************************************************************************)
(* What the events es and the histories tell of the orders os.  An event   *)
(* that is not the last about its order may tell what the order was before *)
(* it was cancelled.                                                       *)
(***************************************************************************)
Before(o) == [o EXCEPT !.status = "new"]

WordsFit(es, os) ==
  \A j \in DOMAIN es : es[j].kind = "order" =>
    /\ es[j].id \in DOMAIN os
    /\ \/ es[j].order = os[es[j].id]
       \/ /\ os[es[j].id].status = "canceled" /\ es[j].order = Before(os[es[j].id])
          /\ \E l \in About(es, es[j].id) : l > j

\* k is what the client knew before the events es.
KnowsOrders(k, es, os) ==
  /\ DOMAIN os = DOMAIN k \union Mentioned(es)
  /\ \A i \in DOMAIN os : i \notin Mentioned(es) => k[i] = os[i]

TotalOf(total, es) == IF Totals(es) = {} THEN total ELSE es[Max(Totals(es))].total

KnowsTotal(total, es, acct) ==
  TotalOf(total, es) = [a \in Assets |-> acct.free[a] + acct.locked[a]]

\* What a caller of a language keeps of an order.
View(o, language) == IF language = "go" THEN COrder(o) ELSE NodeOrder(o)

HeardFits(kept, os, language) ==
  \A i \in DOMAIN kept :
    /\ i \in DOMAIN os
    /\ \/ kept[i] = Gone /\ os[i].status # "new"
       \/ kept[i] = View(os[i], language)
       \/ os[i].status = "canceled" /\ kept[i] = View(Before(os[i]), language)

\* Of an order without an event, a caller that missed nothing knows the state.
Current(kept, es, os, language) ==
  \A i \in DOMAIN os : i \notin Mentioned(es) =>
    IF i \in DOMAIN kept THEN kept[i] = Gone \/ kept[i] = View(os[i], language)
    ELSE os[i].status # "new"

Story(es, os, k, kept, missed, language) ==
  /\ WordsFit(es, os)
  /\ KnowsOrders(k, es, os)
  /\ HeardFits(kept, os, language)
  /\ missed \/ Current(kept, es, os, language)

AccountFits(acct, seed, k, kept, missed, language) ==
  /\ Ledger(acct, seed)
  /\ KnowsTotal(k.total, acct.events, acct)
  /\ Story(acct.events, acct.orders, k.orders, kept, missed, language)

PaperInv ==
  /\ marks \in [Symbols -> Nat]
  /\ seeded \in [Assets -> Deposits]
  /\ known.orders \in Seq(OrderSet)
  /\ AccountFits(Account, seeded, known, heard, full, host.language)
  /\ full \in BOOLEAN /\ cursor \in 0..Len(Tape)
  /\ Replays => marks[TapeSymbol] = shown

(***************************************************************************)
(* What an order is worth: fees and slippage are at most the whole.        *)
(***************************************************************************)
LEMMA UnitIsNatural == Unit \in Nat /\ Scale \in Nat /\ Scale - TakerBps \in Nat /\ Scale - SlippageBps \in Nat
<1>1. Scale \in Nat /\ TakerBps \in 0..Scale /\ SlippageBps \in 0..Scale
  BY PaperAssumption
<1>2. \A x, y \in Nat : x * y \in Nat
  OBVIOUS
<1> QED
  BY <1>1, <1>2 DEF Unit

LEMMA ReservedIsNatural ==
  ASSUME NEW o, o.qty \in Nat, o.price \in Nat
  PROVE  Reserved(o) \in Nat
<1>1. \A x, y \in Nat : x * y \in Nat
  OBVIOUS
<1>2. Unit \in Nat
  BY UnitIsNatural
<1>3. o.qty * o.price \in Nat
  BY <1>1
<1>4. o.qty * o.price * Unit \in Nat /\ o.qty * Unit \in Nat
  BY <1>1, <1>2, <1>3
<1> QED
  BY <1>4 DEF Reserved

LEMMA SpendsAndBrings ==
  ASSUME NEW o, o.qty \in Nat, NEW average \in Nat
  PROVE  Spends(o, average) \in Int /\ Brings(o, average) \in Nat
<1>1. \A x, y \in Nat : x * y \in Nat
  OBVIOUS
<1>2. /\ Unit \in Nat /\ Scale \in Nat /\ TakerBps \in Nat /\ Scale - TakerBps \in Nat
  BY UnitIsNatural, PaperAssumption
<1> DEFINE worth == o.qty * average
<1>3. worth \in Nat /\ o.qty * Unit \in Nat
  BY <1>1, <1>2
<1>4. /\ Notional(o.qty, average) = worth * Scale
      /\ Fee(o.qty, average) = worth * TakerBps
  BY DEF Notional, Fee
<1> HIDE DEF worth
<1>5. worth * Scale \in Nat /\ worth * TakerBps \in Nat /\ worth * (Scale - TakerBps) \in Nat
  BY <1>1, <1>2, <1>3
<1>6. worth * Scale - worth * TakerBps = worth * (Scale - TakerBps)
  BY <1>2, <1>3
<1>7. Notional(o.qty, average) - Fee(o.qty, average) \in Nat
  BY <1>4, <1>5, <1>6
<1>8. Notional(o.qty, average) + Fee(o.qty, average) \in Int
  BY <1>4, <1>5
<1> QED
  BY <1>3, <1>7, <1>8 DEF Spends, Brings

LEMMA FillPriceIsNatural ==
  ASSUME NEW side, NEW mark \in Nat
  PROVE  FillPrice(side, mark) \in Nat
<1>1. \A x, y \in Nat : x * y \in Nat
  OBVIOUS
<1>2. Scale + SlippageBps \in Nat /\ Scale - SlippageBps \in Nat
  BY UnitIsNatural, PaperAssumption
<1> QED
  BY <1>1, <1>2 DEF FillPrice

LEMMA AssetsOf ==
  ASSUME NEW o, o.symbol \in Symbols
  PROVE  LockedAsset(o) \in Assets /\ BoughtAsset(o) \in Assets /\ LockedAsset(o) # BoughtAsset(o)
BY PaperAssumption DEF LockedAsset, BoughtAsset

(***************************************************************************)
(* Sums over a list to which an order is added, or one of whose orders is  *)
(* over.                                                                   *)
(***************************************************************************)
LEMMA SumMore ==
  ASSUME NEW S, IsFiniteSet(S), NEW f, \A i \in S : f[i] \in Int,
         NEW m, m \notin S, NEW g, g[m] \in Int, \A i \in S : g[i] = f[i],
         NEW T, T = S \union {m}
  PROVE  SumFunctionOnSet(g, T) = SumFunctionOnSet(f, S) + g[m]
<1>1. IsFiniteSet(T)
  BY FS_AddElement
<1>2. \A i \in T : g[i] \in Int
  OBVIOUS
<1>3. T \ {m} = S /\ m \in T
  OBVIOUS
<1>4. SumFunctionOnSet(g, T) = g[m] + SumFunctionOnSet(g, T \ {m})
  BY <1>1, <1>2, <1>3, SumSplit
<1>5. \A i \in S : f[i] = g[i]
  OBVIOUS
<1>6. SumFunctionOnSet(f, S) = SumFunctionOnSet(g, S)
  BY <1>5, SumSame
<1>7. SumFunctionOnSet(f, S) \in Int
  BY SumType
<1>8. SumFunctionOnSet(g, T) = g[m] + SumFunctionOnSet(f, S)
  BY <1>3, <1>4, <1>6, Zenon
<1> QED
  BY <1>7, <1>8

LEMMA SumKept ==
  ASSUME NEW n \in Nat, NEW S, S \subseteq 1..n, NEW f, \A i \in S : f[i] \in Int,
         NEW g, \A i \in S : g[i] = f[i]
  PROVE  SumFunctionOnSet(g, S) = SumFunctionOnSet(f, S)
<1>1. IsFiniteSet(S)
  <2>1. IsFiniteSet(1..n)
    BY FS_Interval
  <2> QED
    BY <2>1, FS_Subset
<1> QED
  BY <1>1, SumSame

LEMMA PartsTyped ==
  ASSUME NEW os \in Seq(OrderSet), NEW i \in DOMAIN os
  PROVE  /\ os[i] \in OrderSet /\ i \in 1..Len(os) /\ Len(os) \in Nat
         /\ Reserves(os)[i] = Reserved(os[i]) /\ Reserves(os)[i] \in Nat
         /\ Gains(os)[i] = Brings(os[i], os[i].average) /\ Gains(os)[i] \in Nat
         /\ Costs(os)[i] = Spends(os[i], os[i].average) /\ Costs(os)[i] \in Int
<1>1. os[i] \in OrderSet /\ i \in 1..Len(os) /\ Len(os) \in Nat
  OBVIOUS
<1>2. os[i].qty \in Nat /\ os[i].price \in Nat /\ os[i].average \in Nat
  BY <1>1 DEF OrderSet
<1>3. /\ Reserved(os[i]) \in Nat /\ Brings(os[i], os[i].average) \in Nat
      /\ Spends(os[i], os[i].average) \in Int
  <2> DEFINE o == os[i]
             average == os[i].average
  <2>1. o.qty \in Nat /\ o.price \in Nat /\ average \in Nat
    BY <1>2
  <2> HIDE DEF o, average
  <2>2. Reserved(o) \in Nat
    BY <2>1, ReservedIsNatural
  <2>3. Spends(o, average) \in Int /\ Brings(o, average) \in Nat
    BY <2>1, SpendsAndBrings
  <2> QED
    BY <2>2, <2>3 DEF o, average
<1> QED
  BY <1>1, <1>3 DEF Reserves, Gains, Costs

LEMMA SumsTyped ==
  ASSUME NEW os \in Seq(OrderSet), NEW a
  PROVE  /\ OpenIn(os, a) \subseteq 1..Len(os) /\ BoughtIn(os, a) \subseteq 1..Len(os)
         /\ SpentIn(os, a) \subseteq 1..Len(os) /\ Len(os) \in Nat
         /\ IsFiniteSet(OpenIn(os, a)) /\ IsFiniteSet(BoughtIn(os, a)) /\ IsFiniteSet(SpentIn(os, a))
         /\ ReservedIn(os, a) \in Int /\ Brought(os, a) \in Int /\ Spent(os, a) \in Int
<1>1. /\ OpenIn(os, a) \subseteq 1..Len(os) /\ BoughtIn(os, a) \subseteq 1..Len(os)
      /\ SpentIn(os, a) \subseteq 1..Len(os) /\ Len(os) \in Nat /\ DOMAIN os = 1..Len(os)
  BY DEF OpenIn, Open, BoughtIn, SpentIn, FilledOf
<1>2. IsFiniteSet(1..Len(os))
  BY <1>1, FS_Interval
<1>3. IsFiniteSet(OpenIn(os, a)) /\ IsFiniteSet(BoughtIn(os, a)) /\ IsFiniteSet(SpentIn(os, a))
  BY <1>1, <1>2, FS_Subset
<1>4. \A i \in DOMAIN os : Reserves(os)[i] \in Int /\ Gains(os)[i] \in Int /\ Costs(os)[i] \in Int
  BY PartsTyped
<1>5. /\ \A i \in OpenIn(os, a) : Reserves(os)[i] \in Int
      /\ \A i \in BoughtIn(os, a) : Gains(os)[i] \in Int
      /\ \A i \in SpentIn(os, a) : Costs(os)[i] \in Int
  BY <1>1, <1>4
<1>6. ReservedIn(os, a) \in Int
  BY <1>3, <1>5, SumType DEF ReservedIn
<1>7. Brought(os, a) \in Int
  BY <1>3, <1>5, SumType DEF Brought
<1>8. Spent(os, a) \in Int
  BY <1>3, <1>5, SumType DEF Spent
<1> QED
  BY <1>1, <1>3, <1>6, <1>7, <1>8

LEMMA OrderAdded ==
  ASSUME NEW os \in Seq(OrderSet), NEW o \in OrderSet, NEW a
  PROVE  LET more == Append(os, o)
         IN /\ ReservedIn(more, a) = ReservedIn(os, a)
                 + (IF IsOpen(o) /\ LockedAsset(o) = a THEN Reserved(o) ELSE 0)
            /\ Brought(more, a) = Brought(os, a)
                 + (IF o.status = "filled" /\ BoughtAsset(o) = a THEN Brings(o, o.average) ELSE 0)
            /\ Spent(more, a) = Spent(os, a)
                 + (IF o.status = "filled" /\ LockedAsset(o) = a THEN Spends(o, o.average) ELSE 0)
<1> DEFINE more == Append(os, o)
           n == Len(os)
           m == Len(os) + 1
<1>1. /\ n \in Nat /\ m \in Nat /\ m \in DOMAIN more /\ DOMAIN more = (DOMAIN os) \union {m}
      /\ more[m] = o /\ \A i \in DOMAIN os : more[i] = os[i] /\ i \in 1..n
      /\ DOMAIN os = 1..n /\ m \notin 1..n
  OBVIOUS
<1>2. more \in Seq(OrderSet)
  OBVIOUS
<1> HIDE DEF more, m, n
<1>3. /\ \A i \in DOMAIN os : /\ Reserves(more)[i] = Reserves(os)[i] /\ Reserves(os)[i] \in Int
                              /\ Gains(more)[i] = Gains(os)[i] /\ Gains(os)[i] \in Int
                              /\ Costs(more)[i] = Costs(os)[i] /\ Costs(os)[i] \in Int
      /\ Reserves(more)[m] = Reserved(o) /\ Reserved(o) \in Int
      /\ Gains(more)[m] = Brings(o, o.average) /\ Brings(o, o.average) \in Int
      /\ Costs(more)[m] = Spends(o, o.average) /\ Spends(o, o.average) \in Int
  <2>1. \A i \in DOMAIN os : Reserves(os)[i] \in Int /\ Gains(os)[i] \in Int /\ Costs(os)[i] \in Int
    BY PartsTyped
  <2>2. Reserves(more)[m] \in Int /\ Gains(more)[m] \in Int /\ Costs(more)[m] \in Int
    BY <1>1, <1>2, PartsTyped
  <2> QED
    BY <1>1, <2>1, <2>2 DEF Reserves, Gains, Costs
<1>4. ReservedIn(more, a) = ReservedIn(os, a)
        + (IF IsOpen(o) /\ LockedAsset(o) = a THEN Reserved(o) ELSE 0)
  <2>1. /\ OpenIn(os, a) \subseteq 1..n /\ m \notin OpenIn(os, a) /\ ReservedIn(os, a) \in Int
        /\ OpenIn(os, a) \subseteq DOMAIN os
    BY <1>1, SumsTyped DEF OpenIn, Open
  <2>2. CASE IsOpen(o) /\ LockedAsset(o) = a
    <3>1. OpenIn(more, a) = OpenIn(os, a) \union {m}
      BY <1>1, <2>2 DEF OpenIn, Open
    <3>2. ReservedIn(more, a) = ReservedIn(os, a) + Reserves(more)[m]
      <4>1. /\ \A k \in OpenIn(os, a) : Reserves(os)[k] \in Int /\ Reserves(more)[k] = Reserves(os)[k]
            /\ Reserves(more)[m] \in Int
        BY <1>3, <2>1
      <4>2. IsFiniteSet(OpenIn(os, a)) /\ m \notin OpenIn(os, a)
        BY <2>1, SumsTyped
      <4>3. SumFunctionOnSet(Reserves(more), OpenIn(more, a)) =
              SumFunctionOnSet(Reserves(os), OpenIn(os, a)) + Reserves(more)[m]
        BY <3>1, <4>1, <4>2, SumMore
      <4> QED
        BY <4>3 DEF ReservedIn
    <3> QED
      BY <1>3, <2>2, <3>2
  <2>3. CASE ~(IsOpen(o) /\ LockedAsset(o) = a)
    <3>1. OpenIn(more, a) = OpenIn(os, a)
      BY <1>1, <2>3 DEF OpenIn, Open
    <3>2. ReservedIn(more, a) = ReservedIn(os, a)
      BY <1>1, <1>3, <2>1, <3>1, SumKept DEF ReservedIn
    <3> QED
      BY <2>1, <2>3, <3>2
  <2> QED
    BY <2>2, <2>3
<1>5. Brought(more, a) = Brought(os, a)
        + (IF o.status = "filled" /\ BoughtAsset(o) = a THEN Brings(o, o.average) ELSE 0)
  <2>1. /\ BoughtIn(os, a) \subseteq 1..n /\ m \notin BoughtIn(os, a) /\ Brought(os, a) \in Int
        /\ BoughtIn(os, a) \subseteq DOMAIN os
    BY <1>1, SumsTyped DEF BoughtIn, FilledOf
  <2>2. CASE o.status = "filled" /\ BoughtAsset(o) = a
    <3>1. BoughtIn(more, a) = BoughtIn(os, a) \union {m}
      BY <1>1, <2>2 DEF BoughtIn, FilledOf
    <3>2. Brought(more, a) = Brought(os, a) + Gains(more)[m]
      <4>1. /\ \A k \in BoughtIn(os, a) : Gains(os)[k] \in Int /\ Gains(more)[k] = Gains(os)[k]
            /\ Gains(more)[m] \in Int
        BY <1>3, <2>1
      <4>2. IsFiniteSet(BoughtIn(os, a)) /\ m \notin BoughtIn(os, a)
        BY <2>1, SumsTyped
      <4>3. SumFunctionOnSet(Gains(more), BoughtIn(more, a)) =
              SumFunctionOnSet(Gains(os), BoughtIn(os, a)) + Gains(more)[m]
        BY <3>1, <4>1, <4>2, SumMore
      <4> QED
        BY <4>3 DEF Brought
    <3> QED
      BY <1>3, <2>2, <3>2
  <2>3. CASE ~(o.status = "filled" /\ BoughtAsset(o) = a)
    <3>1. BoughtIn(more, a) = BoughtIn(os, a)
      BY <1>1, <2>3 DEF BoughtIn, FilledOf
    <3>2. Brought(more, a) = Brought(os, a)
      BY <1>1, <1>3, <2>1, <3>1, SumKept DEF Brought
    <3> QED
      BY <2>1, <2>3, <3>2
  <2> QED
    BY <2>2, <2>3
<1>6. Spent(more, a) = Spent(os, a)
        + (IF o.status = "filled" /\ LockedAsset(o) = a THEN Spends(o, o.average) ELSE 0)
  <2>1. /\ SpentIn(os, a) \subseteq 1..n /\ m \notin SpentIn(os, a) /\ Spent(os, a) \in Int
        /\ SpentIn(os, a) \subseteq DOMAIN os
    BY <1>1, SumsTyped DEF SpentIn, FilledOf
  <2>2. CASE o.status = "filled" /\ LockedAsset(o) = a
    <3>1. SpentIn(more, a) = SpentIn(os, a) \union {m}
      BY <1>1, <2>2 DEF SpentIn, FilledOf
    <3>2. Spent(more, a) = Spent(os, a) + Costs(more)[m]
      <4>1. /\ \A k \in SpentIn(os, a) : Costs(os)[k] \in Int /\ Costs(more)[k] = Costs(os)[k]
            /\ Costs(more)[m] \in Int
        BY <1>3, <2>1
      <4>2. IsFiniteSet(SpentIn(os, a)) /\ m \notin SpentIn(os, a)
        BY <2>1, SumsTyped
      <4>3. SumFunctionOnSet(Costs(more), SpentIn(more, a)) =
              SumFunctionOnSet(Costs(os), SpentIn(os, a)) + Costs(more)[m]
        BY <3>1, <4>1, <4>2, SumMore
      <4> QED
        BY <4>3 DEF Spent
    <3> QED
      BY <1>3, <2>2, <3>2
  <2>3. CASE ~(o.status = "filled" /\ LockedAsset(o) = a)
    <3>1. SpentIn(more, a) = SpentIn(os, a)
      BY <1>1, <2>3 DEF SpentIn, FilledOf
    <3>2. Spent(more, a) = Spent(os, a)
      BY <1>1, <1>3, <2>1, <3>1, SumKept DEF Spent
    <3> QED
      BY <2>1, <2>3, <3>2
  <2> QED
    BY <2>2, <2>3
<1> QED
  BY <1>4, <1>5, <1>6 DEF more

Canceled(o) == [o EXCEPT !.status = "canceled"]

LEMMA CanceledIsOrder ==
  ASSUME NEW o \in OrderSet
  PROVE  /\ Canceled(o) \in OrderSet /\ Canceled(o).status = "canceled"
         /\ Canceled(o).side = o.side /\ Canceled(o).symbol = o.symbol
         /\ Canceled(o).qty = o.qty /\ Canceled(o).price = o.price
BY DEF OrderSet, Canceled

Closes(less, os, i) == less = [os EXCEPT ![i] = Canceled(os[i])]

LEMMA OrderCanceled ==
  ASSUME NEW os \in Seq(OrderSet), NEW i \in Open(os), NEW a, NEW less, Closes(less, os, i)
  PROVE     /\ ReservedIn(os, a) = ReservedIn(less, a)
                 + (IF LockedAsset(os[i]) = a THEN Reserved(os[i]) ELSE 0)
            /\ Brought(less, a) = Brought(os, a) /\ Spent(less, a) = Spent(os, a)
            /\ less \in Seq(OrderSet)
<1> DEFINE n == Len(os)
<1>1. /\ i \in DOMAIN os /\ os[i] \in OrderSet /\ os[i].status = "new" /\ Canceled(os[i]) \in OrderSet
      /\ Canceled(os[i]).status = "canceled"
  <2>1. i \in DOMAIN os /\ os[i].status = "new" /\ os[i] \in OrderSet
    BY DEF Open, IsOpen
  <2> QED
    BY <2>1, CanceledIsOrder
<1>2. /\ n \in Nat /\ DOMAIN os = 1..n /\ DOMAIN less = 1..n /\ less \in Seq(OrderSet)
      /\ less[i] = Canceled(os[i]) /\ \A k \in DOMAIN os : k # i => less[k] = os[k]
  BY <1>1 DEF Closes
<1> HIDE DEF n
<1>3. \A k \in DOMAIN os : /\ Reserves(os)[k] \in Int /\ Gains(os)[k] \in Int /\ Costs(os)[k] \in Int
                           /\ k # i => /\ Reserves(less)[k] = Reserves(os)[k]
                                       /\ Gains(less)[k] = Gains(os)[k]
                                       /\ Costs(less)[k] = Costs(os)[k]
                           /\ Reserves(less)[k] \in Int
  <2>1. \A k \in DOMAIN os : Reserves(os)[k] \in Int /\ Gains(os)[k] \in Int /\ Costs(os)[k] \in Int
    BY PartsTyped
  <2>2. \A k \in DOMAIN less : Reserves(less)[k] \in Int
    BY <1>2, PartsTyped
  <2> QED
    BY <1>2, <2>1, <2>2 DEF Reserves, Gains, Costs
<1>4. Brought(less, a) = Brought(os, a)
  <2>1. BoughtIn(less, a) = BoughtIn(os, a) /\ i \notin BoughtIn(os, a) /\ BoughtIn(os, a) \subseteq 1..n
    BY <1>1, <1>2 DEF BoughtIn, FilledOf
  <2> QED
    BY <1>2, <1>3, <2>1, SumKept DEF Brought
<1>5. Spent(less, a) = Spent(os, a)
  <2>1. SpentIn(less, a) = SpentIn(os, a) /\ i \notin SpentIn(os, a) /\ SpentIn(os, a) \subseteq 1..n
    BY <1>1, <1>2 DEF SpentIn, FilledOf
  <2> QED
    BY <1>2, <1>3, <2>1, SumKept DEF Spent
<1>6. ReservedIn(os, a) = ReservedIn(less, a) + (IF LockedAsset(os[i]) = a THEN Reserved(os[i]) ELSE 0)
  <2>1. /\ OpenIn(less, a) \subseteq 1..n /\ i \notin OpenIn(less, a) /\ ReservedIn(less, a) \in Int
        /\ OpenIn(less, a) \subseteq DOMAIN os
    BY <1>1, <1>2, SumsTyped DEF OpenIn, Open, IsOpen
  <2>2. CASE LockedAsset(os[i]) = a
    <3>1. OpenIn(os, a) = OpenIn(less, a) \union {i}
      BY <1>1, <1>2, <2>2 DEF OpenIn, Open, IsOpen
    <3>2. Reserves(os)[i] \in Int /\ i \in Nat
      BY <1>1, <1>2, <1>3
    <3>3. \A k \in OpenIn(less, a) : Reserves(less)[k] \in Int /\ Reserves(os)[k] = Reserves(less)[k]
      BY <1>3, <2>1
    <3>4. ReservedIn(os, a) = ReservedIn(less, a) + Reserves(os)[i]
      <4>1. IsFiniteSet(OpenIn(less, a)) /\ i \notin OpenIn(less, a)
        BY <1>2, <2>1, SumsTyped
      <4>2. SumFunctionOnSet(Reserves(os), OpenIn(os, a)) =
              SumFunctionOnSet(Reserves(less), OpenIn(less, a)) + Reserves(os)[i]
        BY <3>1, <3>2, <3>3, <4>1, SumMore
      <4> QED
        BY <4>2 DEF ReservedIn
    <3> QED
      BY <1>1, <2>2, <3>4 DEF Reserves
  <2>3. CASE LockedAsset(os[i]) # a
    <3>1. OpenIn(os, a) = OpenIn(less, a)
      BY <1>1, <1>2, <2>3 DEF OpenIn, Open, IsOpen
    <3>2. \A k \in OpenIn(less, a) : Reserves(less)[k] \in Int /\ Reserves(os)[k] = Reserves(less)[k]
      BY <1>3, <2>1
    <3>3. ReservedIn(os, a) = ReservedIn(less, a)
      BY <1>2, <2>1, <3>1, <3>2, SumKept DEF ReservedIn
    <3> QED
      BY <2>1, <2>3, <3>3
  <2> QED
    BY <2>2, <2>3
<1> QED
  BY <1>2, <1>4, <1>5, <1>6

(***************************************************************************)
(* Events at the end of a list, and the last of some of them.              *)
(***************************************************************************)
LEMMA MaxIs ==
  ASSUME NEW n \in Nat, NEW S, S \subseteq 1..n, S # {}
  PROVE  Max(S) \in S /\ \A x \in S : x <= Max(S)
<1> DEFINE Q == {i \in Nat : S \intersect (1..i) = {}
                               \/ \E m \in S \intersect (1..i) : \A x \in S \intersect (1..i) : x <= m}
<1>1. Q \in SUBSET Nat /\ 0 \in Q
  OBVIOUS
<1>2. ASSUME NEW i \in 1..n, i - 1 \in Q PROVE i \in Q
  <2>1. i \in Nat /\ S \intersect (1..i) = IF i \in S THEN (S \intersect (1..(i - 1))) \union {i}
                                                     ELSE S \intersect (1..(i - 1))
    OBVIOUS
  <2>2. CASE i \notin S
    BY <1>2, <2>1, <2>2
  <2>3. CASE i \in S
    <3>1. i \in S \intersect (1..i) /\ \A x \in S \intersect (1..i) : x <= i
      BY <2>3
    <3> QED
      BY <2>1, <3>1
  <2> QED
    BY <2>2, <2>3
<1> HIDE DEF Q
<1>3. n \in Q
  <2>1. \A i \in 0..n : i \in Q
    BY <1>1, <1>2, UpTo
  <2> QED
    BY <2>1
<1>4. S \intersect (1..n) = S
  OBVIOUS
<1>5. \E m \in S : \A x \in S : m >= x
  BY <1>3, <1>4 DEF Q
<1>6. Max(S) \in S /\ \A x \in S : Max(S) >= x
  BY <1>5 DEF Max
<1> QED
  BY <1>6

LEMMA Appended ==
  ASSUME NEW V, NEW es \in Seq(V), NEW e \in V
  PROVE  LET more == Append(es, e)
         IN /\ more \in Seq(V) /\ DOMAIN more = (DOMAIN es) \union {Len(es) + 1}
            /\ Len(es) + 1 \notin DOMAIN es /\ more[Len(es) + 1] = e
            /\ \A j \in DOMAIN es : more[j] = es[j] /\ j < Len(es) + 1
            /\ \A i : About(more, i) = About(es, i)
                 \union (IF e.kind = "order" /\ e.id = i THEN {Len(es) + 1} ELSE {})
            /\ Mentioned(more) = Mentioned(es) \union (IF e.kind = "order" THEN {e.id} ELSE {})
            /\ Totals(more) = Totals(es) \union (IF e.kind = "balance" THEN {Len(es) + 1} ELSE {})
<1> DEFINE more == Append(es, e)
           m == Len(es) + 1
<1>1. /\ more \in Seq(V) /\ DOMAIN more = (DOMAIN es) \union {m}
      /\ m \notin DOMAIN es /\ more[m] = e
      /\ \A j \in DOMAIN es : more[j] = es[j] /\ j < m
  OBVIOUS
<1> HIDE DEF more, m
<1>2. ASSUME NEW i
      PROVE  About(more, i) = About(es, i) \union (IF e.kind = "order" /\ e.id = i THEN {m} ELSE {})
  BY <1>1 DEF About
<1>3. Mentioned(more) = Mentioned(es) \union (IF e.kind = "order" THEN {e.id} ELSE {})
  BY <1>1 DEF Mentioned
<1>4. Totals(more) = Totals(es) \union (IF e.kind = "balance" THEN {m} ELSE {})
  BY <1>1 DEF Totals
<1> QED
  BY <1>1, <1>2, <1>3, <1>4 DEF more, m

LEMMA MentionedIs ==
  ASSUME NEW es, NEW i
  PROVE  i \in Mentioned(es) <=> About(es, i) # {}
BY DEF Mentioned, About

LEMMA BeforeCanceled ==
  ASSUME NEW o \in OrderSet, o.status = "new"
  PROVE  Before(Canceled(o)) = o
BY DEF OrderSet, Before, Canceled

LEMMA StoryOfNewOrder ==
  ASSUME NEW es \in Seq(EventSet), NEW os \in Seq(OrderSet), NEW o \in OrderSet, NEW k,
         NEW kept, NEW missed, NEW language, Story(es, os, k, kept, missed, language)
  PROVE  Story(Append(es, OrderEvent(Len(os) + 1, o)), Append(os, o), k, kept, missed, language)
<1> DEFINE m == Len(os) + 1
           e == OrderEvent(m, o)
           es2 == Append(es, e)
           os2 == Append(os, o)
           n == Len(es) + 1
<1>1. e \in EventSet /\ e.kind = "order" /\ e.id = m /\ e.order = o
  BY DEF OrderEvent, EventSet
<1>2. /\ DOMAIN os2 = (DOMAIN os) \union {m} /\ m \notin DOMAIN os /\ os2[m] = o
      /\ \A i \in DOMAIN os : os2[i] = os[i]
  OBVIOUS
<1> HIDE DEF e, os2, m
<1>3. /\ DOMAIN es2 = (DOMAIN es) \union {n} /\ es2[n] = e /\ n \notin DOMAIN es
      /\ \A j \in DOMAIN es : es2[j] = es[j]
      /\ \A i : About(es, i) \subseteq About(es2, i)
      /\ Mentioned(es2) = Mentioned(es) \union {m}
  BY <1>1, Appended
<1> HIDE DEF es2, n
<1>4. WordsFit(es2, os2)
  <2>1. ASSUME NEW j \in DOMAIN es2, es2[j].kind = "order"
        PROVE  /\ es2[j].id \in DOMAIN os2
               /\ \/ es2[j].order = os2[es2[j].id]
                  \/ /\ os2[es2[j].id].status = "canceled" /\ es2[j].order = Before(os2[es2[j].id])
                     /\ \E l \in About(es2, es2[j].id) : l > j
    <3>1. CASE j = n
      BY <1>1, <1>2, <1>3, <3>1
    <3>2. CASE j \in DOMAIN es
      <4>1. /\ es[j].id \in DOMAIN os
            /\ \/ es[j].order = os[es[j].id]
               \/ /\ os[es[j].id].status = "canceled" /\ es[j].order = Before(os[es[j].id])
                  /\ \E l \in About(es, es[j].id) : l > j
        BY <1>3, <2>1, <3>2 DEF Story, WordsFit
      <4> QED
        BY <1>2, <1>3, <3>2, <4>1
    <3> QED
      BY <1>3, <3>1, <3>2
  <2> QED
    BY <2>1 DEF WordsFit
<1>5. KnowsOrders(k, es2, os2)
  BY <1>2, <1>3 DEF Story, KnowsOrders
<1>6. HeardFits(kept, os2, language)
  BY <1>2 DEF Story, HeardFits
<1>7. missed \/ Current(kept, es2, os2, language)
  BY <1>2, <1>3 DEF Story, Current
<1> QED
  BY <1>4, <1>5, <1>6, <1>7 DEF Story, es2, os2, e, m

LEMMA StoryOfBalance ==
  ASSUME NEW es \in Seq(EventSet), NEW os, NEW e \in EventSet, e.kind = "balance", NEW k,
         NEW kept, NEW missed, NEW language, Story(es, os, k, kept, missed, language)
  PROVE  Story(Append(es, e), os, k, kept, missed, language)
<1> DEFINE es2 == Append(es, e)
           n == Len(es) + 1
<1>1. /\ DOMAIN es2 = (DOMAIN es) \union {n} /\ es2[n] = e /\ n \notin DOMAIN es
      /\ \A j \in DOMAIN es : es2[j] = es[j]
      /\ \A i : About(es, i) \subseteq About(es2, i)
      /\ Mentioned(es2) = Mentioned(es)
  <2>1. e.kind # "order"
    OBVIOUS
  <2>2. /\ DOMAIN es2 = (DOMAIN es) \union {n} /\ es2[n] = e /\ n \notin DOMAIN es
        /\ \A j \in DOMAIN es : es2[j] = es[j]
    BY Appended, SMT
  <2> HIDE DEF es2, n
  <2>3. \A i : About(es, i) \subseteq About(es2, i)
    BY <2>2 DEF About
  <2>4. Mentioned(es2) = Mentioned(es)
    BY <2>1, <2>2 DEF Mentioned
  <2> QED
    BY <2>1, <2>2, <2>3, <2>4
<1> HIDE DEF es2, n
<1>2. WordsFit(es2, os)
  BY <1>1 DEF Story, WordsFit
<1>3. KnowsOrders(k, es2, os) /\ (missed \/ Current(kept, es2, os, language))
  BY <1>1 DEF Story, KnowsOrders, Current
<1> QED
  BY <1>2, <1>3 DEF Story, es2

LEMMA StoryOfCanceled ==
  ASSUME NEW es \in Seq(EventSet), NEW os \in Seq(OrderSet), NEW i \in Open(os), NEW k,
         NEW kept, NEW missed, NEW language, Story(es, os, k, kept, missed, language)
  PROVE  LET c == Canceled(os[i])
         IN Story(Append(es, OrderEvent(i, c)), [os EXCEPT ![i] = c], k, kept, missed, language)
<1> DEFINE c == Canceled(os[i])
           e == OrderEvent(i, c)
           es2 == Append(es, e)
           os2 == [os EXCEPT ![i] = c]
           n == Len(es) + 1
<1>1. /\ i \in DOMAIN os /\ os[i] \in OrderSet /\ os[i].status = "new" /\ i \in Nat
  BY DEF Open, IsOpen
<1>2. c \in OrderSet /\ c.status = "canceled" /\ Before(c) = os[i]
  BY <1>1, CanceledIsOrder, BeforeCanceled
<1> HIDE DEF c
<1>3. e \in EventSet /\ e.kind = "order" /\ e.id = i /\ e.order = c
  BY <1>1, <1>2 DEF OrderEvent, EventSet
<1>4. DOMAIN os2 = DOMAIN os /\ os2[i] = c /\ \A x \in DOMAIN os : x # i => os2[x] = os[x]
  BY <1>1
<1> HIDE DEF e, os2
<1>5. /\ DOMAIN es2 = (DOMAIN es) \union {n} /\ es2[n] = e /\ n \notin DOMAIN es
      /\ \A j \in DOMAIN es : es2[j] = es[j] /\ n > j
      /\ \A x : About(es, x) \subseteq About(es2, x)
      /\ n \in About(es2, i)
      /\ Mentioned(es2) = Mentioned(es) \union {i}
  <2>1. \A j \in DOMAIN es : j \in Nat /\ j <= Len(es)
    OBVIOUS
  <2>2. \A j \in DOMAIN es : n > j
    BY <2>1
  <2> QED
    BY <1>3, <2>2, Appended
<1> HIDE DEF es2, n
<1>6. WordsFit(es2, os2)
  <2>1. ASSUME NEW j \in DOMAIN es2, es2[j].kind = "order"
        PROVE  /\ es2[j].id \in DOMAIN os2
               /\ \/ es2[j].order = os2[es2[j].id]
                  \/ /\ os2[es2[j].id].status = "canceled" /\ es2[j].order = Before(os2[es2[j].id])
                     /\ \E l \in About(es2, es2[j].id) : l > j
    <3>1. CASE j = n
      BY <1>1, <1>3, <1>4, <1>5, <3>1
    <3>2. CASE j \in DOMAIN es
      <4>1. /\ es[j].id \in DOMAIN os
            /\ \/ es[j].order = os[es[j].id]
               \/ /\ os[es[j].id].status = "canceled" /\ es[j].order = Before(os[es[j].id])
                  /\ \E l \in About(es, es[j].id) : l > j
        BY <1>5, <2>1, <3>2 DEF Story, WordsFit
      <4>2. CASE es[j].id = i
        BY <1>1, <1>2, <1>4, <1>5, <3>2, <4>1, <4>2
      <4>3. CASE es[j].id # i
        BY <1>4, <1>5, <3>2, <4>1, <4>3
      <4> QED
        BY <4>2, <4>3
    <3> QED
      BY <1>5, <3>1, <3>2
  <2> QED
    BY <2>1 DEF WordsFit
<1>7. KnowsOrders(k, es2, os2)
  BY <1>1, <1>4, <1>5 DEF Story, KnowsOrders
<1>8. HeardFits(kept, os2, language)
  <2>1. ASSUME NEW x \in DOMAIN kept
        PROVE  /\ x \in DOMAIN os2
               /\ \/ kept[x] = Gone /\ os2[x].status # "new"
                  \/ kept[x] = View(os2[x], language)
                  \/ os2[x].status = "canceled" /\ kept[x] = View(Before(os2[x]), language)
    <3>1. /\ x \in DOMAIN os
          /\ \/ kept[x] = Gone /\ os[x].status # "new"
             \/ kept[x] = View(os[x], language)
             \/ os[x].status = "canceled" /\ kept[x] = View(Before(os[x]), language)
      BY <2>1 DEF Story, HeardFits
    <3>2. CASE x = i
      BY <1>1, <1>2, <1>4, <3>1, <3>2
    <3>3. CASE x # i
      BY <1>4, <3>1, <3>3
    <3> QED
      BY <3>2, <3>3
  <2> QED
    BY <2>1 DEF HeardFits
<1>9. missed \/ Current(kept, es2, os2, language)
  BY <1>4, <1>5 DEF Story, Current
<1>10. Story(es2, os2, k, kept, missed, language)
  BY <1>6, <1>7, <1>8, <1>9 DEF Story
<1> QED
  BY <1>10, Zenon DEF es2, os2, e, c

(***************************************************************************)
(* The totals that the events tell.                                        *)
(***************************************************************************)
LEMMA TotalKept ==
  ASSUME NEW es \in Seq(EventSet), NEW e \in EventSet, e.kind = "order", NEW total
  PROVE  TotalOf(total, Append(es, e)) = TotalOf(total, es)
<1> DEFINE es2 == Append(es, e)
<1>1. e.kind # "balance"
  OBVIOUS
<1>2. \A j \in DOMAIN es : es2[j] = es[j]
  BY Appended, SMT
<1>3. Totals(es2) = Totals(es)
  <2>1. DOMAIN es2 = (DOMAIN es) \union {Len(es) + 1} /\ es2[Len(es) + 1] = e
    BY Appended, SMT
  <2> HIDE DEF es2
  <2> QED
    BY <1>1, <1>2, <2>1 DEF Totals
<1> HIDE DEF es2
<1>4. Totals(es) \subseteq 1..Len(es) /\ Len(es) \in Nat /\ DOMAIN es = 1..Len(es)
  BY DEF Totals
<1>5. CASE Totals(es) = {}
  BY <1>3, <1>5 DEF TotalOf, es2
<1>6. CASE Totals(es) # {}
  <2>1. Max(Totals(es)) \in DOMAIN es
    BY <1>4, <1>6, MaxIs
  <2>2. es2[Max(Totals(es2))] = es[Max(Totals(es))]
    BY <1>2, <1>3, <2>1
  <2> QED
    BY <1>3, <1>6, <2>2 DEF TotalOf, es2
<1> QED
  BY <1>5, <1>6

LEMMA TotalSaid ==
  ASSUME NEW es \in Seq(EventSet), NEW e \in EventSet, e.kind = "balance", NEW total
  PROVE  TotalOf(total, Append(es, e)) = e.total
<1> DEFINE es2 == Append(es, e)
           n == Len(es) + 1
<1>1. DOMAIN es2 = 1..n /\ n \in Nat /\ n \in 1..n /\ es2[n] = e
  OBVIOUS
<1> HIDE DEF es2, n
<1>2. Totals(es2) \subseteq 1..n /\ n \in Totals(es2)
  BY <1>1 DEF Totals
<1>3. Max(Totals(es2)) \in Totals(es2) /\ n <= Max(Totals(es2))
  BY <1>1, <1>2, MaxIs
<1>4. Max(Totals(es2)) = n
  BY <1>1, <1>2, <1>3
<1> QED
  BY <1>1, <1>2, <1>4 DEF TotalOf, es2

LEMMA TwoMore ==
  ASSUME NEW V, NEW es \in Seq(V), NEW a \in V, NEW b \in V
  PROVE  es \o <<a, b>> = Append(Append(es, a), b) /\ Append(es, a) \in Seq(V)
OBVIOUS

(***************************************************************************)
(* An order that fills, one that rests, and one that is cancelled.         *)
(***************************************************************************)
LEMMA RequestsAre ==
  ASSUME NEW r \in Requests
  PROVE  /\ r.symbol \in Symbols /\ r.side \in {"buy", "sell"} /\ r.qty \in Nat /\ r.price \in Nat
         /\ r.type \in {"market", "limit", "stop"}
         /\ LockedAsset(r) \in Assets /\ BoughtAsset(r) \in Assets
         /\ LockedAsset(r) # BoughtAsset(r)
<1>1. /\ r.symbol \in Symbols /\ r.side \in {"buy", "sell"} /\ r.qty \in Nat /\ r.price \in Nat
      /\ r.type \in {"market", "limit", "stop"}
  <2>1. r \in [symbol : Symbols, side : {"buy", "sell"}, type : {"market", "limit", "stop"},
               qty : Quantities \cup {0}, price : Prices \cup {NoPrice}, postOnly : BOOLEAN]
    BY PaperAssumption
  <2>2. Quantities \cup {0} \subseteq Nat /\ Prices \cup {NoPrice} \subseteq Nat
    BY PaperAssumption DEF NoPrice
  <2> QED
    BY <2>1, <2>2
<1> QED
  BY <1>1, AssetsOf

LEMMA OrderIs ==
  ASSUME NEW r \in Requests, NEW status \in {"new", "filled", "canceled"}, NEW average \in Nat
  PROVE  LET o == Order(r, r.price, status, average)
         IN /\ o \in OrderSet /\ o.status = status /\ o.average = average
            /\ LockedAsset(o) = LockedAsset(r) /\ BoughtAsset(o) = BoughtAsset(r)
            /\ Reserved(o) = Reserved(r)
            /\ Spends(o, average) = Spends(r, average) /\ Brings(o, average) = Brings(r, average)
<1> DEFINE o == Order(r, r.price, status, average)
<1>1. /\ o.symbol = r.symbol /\ o.side = r.side /\ o.qty = r.qty /\ o.price = r.price
      /\ o.status = status /\ o.average = average
  BY DEF Order
<1>2. o \in OrderSet
  BY RequestsAre DEF Order, OrderSet
<1> HIDE DEF o
<1>3. LockedAsset(o) = LockedAsset(r) /\ BoughtAsset(o) = BoughtAsset(r) /\ Reserved(o) = Reserved(r)
  BY <1>1 DEF LockedAsset, BoughtAsset, Reserved
<1>4. Spends(o, average) = Spends(r, average) /\ Brings(o, average) = Brings(r, average)
  BY <1>1 DEF Spends, Brings
<1> QED
  BY <1>1, <1>2, <1>3, <1>4 DEF o

Exchange(g, f, a, x, b, y) == g = [f EXCEPT ![a] = @ - x, ![b] = @ + y]

LEMMA Exchanged ==
  ASSUME NEW f \in Amounts, NEW a \in Assets, NEW b \in Assets, a # b, NEW x \in Int, NEW y \in Int,
         NEW g, Exchange(g, f, a, x, b, y)
  PROVE     /\ g \in Amounts /\ g[a] = f[a] - x /\ g[b] = f[b] + y
            /\ \A c \in Assets : c # a /\ c # b => g[c] = f[c]
BY DEF Amounts, Exchange

LEMMA FillKeeps ==
  ASSUME NEW acct, NEW seed \in [Assets -> Nat], NEW k, NEW kept, NEW missed, NEW language,
         AccountFits(acct, seed, k, kept, missed, language),
         NEW r \in Requests, NEW average \in Nat,
         acct.free[LockedAsset(r)] >= Spends(r, average)
  PROVE  LET o  == Order(r, r.price, "filled", average)
             fr == [acct.free EXCEPT ![LockedAsset(r)] = @ - Spends(r, average),
                                     ![BoughtAsset(r)] = @ + Brings(r, average)]
         IN AccountFits([free |-> fr, locked |-> acct.locked, orders |-> Append(acct.orders, o),
                         events |-> acct.events \o <<OrderEvent(Len(acct.orders) + 1, o),
                                                     BalanceEvent(fr, acct.locked)>>],
                        seed, k, kept, missed, language)
<1> DEFINE o   == Order(r, r.price, "filled", average)
           fr  == [acct.free EXCEPT ![LockedAsset(r)] = @ - Spends(r, average),
                                    ![BoughtAsset(r)] = @ + Brings(r, average)]
           os  == acct.orders
           os2 == Append(os, o)
           es  == acct.events
           e1  == OrderEvent(Len(os) + 1, o)
           e2  == BalanceEvent(fr, acct.locked)
           es2 == es \o <<e1, e2>>
           new == [free |-> fr, locked |-> acct.locked, orders |-> os2, events |-> es2]
           la  == LockedAsset(r)
           ba  == BoughtAsset(r)
           sp  == Spends(r, average)
           br  == Brings(r, average)
<1>1. /\ os \in Seq(OrderSet) /\ es \in Seq(EventSet) /\ acct.free \in Amounts /\ acct.locked \in Amounts
  BY DEF AccountFits, Ledger, Accounts
<1>2. /\ o \in OrderSet /\ o.status = "filled" /\ o.average = average /\ LockedAsset(o) = la
      /\ BoughtAsset(o) = ba /\ Spends(o, average) = sp /\ Brings(o, average) = br
      /\ ~IsOpen(o)
  BY OrderIs DEF IsOpen
<1>3. la \in Assets /\ ba \in Assets /\ la # ba /\ sp \in Int /\ br \in Nat /\ sp <= acct.free[la]
  <2>1. r.qty \in Nat /\ la \in Assets /\ ba \in Assets /\ la # ba
    BY RequestsAre
  <2>2. sp \in Int /\ br \in Nat
    BY <2>1, SpendsAndBrings
  <2>3. acct.free[la] \in Int
    BY <1>1, <2>1 DEF Amounts
  <2> QED
    BY <2>1, <2>2, <2>3
<1> HIDE DEF o, la, ba, sp, br
<1>4. /\ fr \in Amounts /\ fr[la] = acct.free[la] - sp /\ fr[ba] = acct.free[ba] + br
      /\ \A a \in Assets : a # la /\ a # ba => fr[a] = acct.free[a]
  <2>1. Exchange(fr, acct.free, la, sp, ba, br)
    BY DEF Exchange, la, ba, sp, br
  <2> HIDE DEF fr
  <2> QED
    BY <1>1, <1>3, <2>1, Exchanged
<1> HIDE DEF fr
<1>5. /\ e1 \in EventSet /\ e1.kind = "order" /\ e2 \in EventSet /\ e2.kind = "balance"
      /\ e2.total = [a \in Assets |-> fr[a] + acct.locked[a]]
  <2>1. Len(os) + 1 \in Nat
    BY <1>1
  <2>2. \A a \in Assets : fr[a] + acct.locked[a] \in Int
    BY <1>1, <1>4 DEF Amounts
  <2> QED
    BY <1>2, <2>1, <2>2 DEF EventSet, OrderEvent, BalanceEvent, Amounts
<1>6. es2 = Append(Append(es, e1), e2) /\ Append(es, e1) \in Seq(EventSet) /\ es2 \in Seq(EventSet)
  BY SMTT(40), <1>1, <1>5, TwoMore
<1>7. os2 \in Seq(OrderSet)
  BY <1>1, <1>2
<1>8. new \in Accounts
  BY <1>1, <1>4, <1>6, <1>7 DEF Accounts
<1>9. \A a : /\ ReservedIn(os2, a) = ReservedIn(os, a)
             /\ Brought(os2, a) = Brought(os, a) + (IF ba = a THEN br ELSE 0)
             /\ Spent(os2, a) = Spent(os, a) + (IF la = a THEN sp ELSE 0)
             /\ ReservedIn(os, a) \in Int /\ Brought(os, a) \in Int /\ Spent(os, a) \in Int
  <2>1. ASSUME NEW a
        PROVE  /\ ReservedIn(os2, a) = ReservedIn(os, a) + (IF IsOpen(o) /\ LockedAsset(o) = a
                                                            THEN Reserved(o) ELSE 0)
               /\ Brought(os2, a) = Brought(os, a) + (IF o.status = "filled" /\ BoughtAsset(o) = a
                                                      THEN Brings(o, o.average) ELSE 0)
               /\ Spent(os2, a) = Spent(os, a) + (IF o.status = "filled" /\ LockedAsset(o) = a
                                                  THEN Spends(o, o.average) ELSE 0)
               /\ ReservedIn(os, a) \in Int /\ Brought(os, a) \in Int /\ Spent(os, a) \in Int
    BY <1>1, <1>2, OrderAdded, SumsTyped
  <2> HIDE DEF os2
  <2> QED
    BY <1>2, <2>1
<1> HIDE DEF os2, e1, e2, es2
<1>10. LocksFit(new)
  BY <1>9 DEF AccountFits, Ledger, LocksFit
<1>11. Balanced(new, seed)
  <2>1. ASSUME NEW a \in Assets
        PROVE  fr[a] >= 0 /\ fr[a] + acct.locked[a] = seed[a] + Brought(os2, a) - Spent(os2, a)
    <3>1. /\ acct.free[a] >= 0
          /\ acct.free[a] + acct.locked[a] = seed[a] + Brought(os, a) - Spent(os, a)
          /\ acct.free[a] \in Int /\ acct.locked[a] \in Int /\ seed[a] \in Int
      BY <1>1 DEF AccountFits, Ledger, Balanced, Amounts
    <3>2. CASE a = la
      BY <1>3, <1>4, <1>9, <3>1, <3>2
    <3>3. CASE a = ba
      BY <1>3, <1>4, <1>9, <3>1, <3>3
    <3>4. CASE a # la /\ a # ba
      BY <1>4, <1>9, <3>1, <3>4
    <3> QED
      BY <3>2, <3>3, <3>4
  <2> QED
    BY <2>1 DEF Balanced
<1>12. KnowsTotal(k.total, es2, new)
  BY ZenonT(40), <1>5, <1>6, TotalSaid DEF KnowsTotal
<1>13. Story(es2, os2, k.orders, kept, missed, language)
  <2>1. Story(Append(es, e1), os2, k.orders, kept, missed, language)
    BY <1>1, <1>2, StoryOfNewOrder DEF AccountFits, e1, os2
  <2> QED
    BY <1>5, <1>6, <2>1, StoryOfBalance
<1>14. AccountFits(new, seed, k, kept, missed, language)
  BY <1>8, <1>10, <1>11, <1>12, <1>13 DEF AccountFits, Ledger
<1> QED
  BY <1>14, Zenon DEF new, es2, os2, e1, e2, o, fr

Locks(fr, lo, f, l, a, x) ==
  fr = [f EXCEPT ![a] = @ - x] /\ lo = [l EXCEPT ![a] = @ + x]

LEMMA Locked ==
  ASSUME NEW f \in Amounts, NEW l \in Amounts, NEW a \in Assets, NEW x \in Int,
         NEW fr, NEW lo, Locks(fr, lo, f, l, a, x)
  PROVE  /\ fr \in Amounts /\ fr[a] = f[a] - x /\ lo \in Amounts /\ lo[a] = l[a] + x
         /\ \A b \in Assets : b # a => fr[b] = f[b] /\ lo[b] = l[b]
BY DEF Amounts, Locks

LEMMA RestKeeps ==
  ASSUME NEW acct, NEW seed \in [Assets -> Nat], NEW k, NEW kept, NEW missed, NEW language,
         AccountFits(acct, seed, k, kept, missed, language),
         NEW r \in Requests, acct.free[LockedAsset(r)] >= Reserved(r)
  PROVE  LET o  == Order(r, r.price, "new", 0)
             fr == [acct.free EXCEPT ![LockedAsset(r)] = @ - Reserved(r)]
             lo == [acct.locked EXCEPT ![LockedAsset(r)] = @ + Reserved(r)]
         IN AccountFits([free |-> fr, locked |-> lo, orders |-> Append(acct.orders, o),
                         events |-> Append(acct.events, OrderEvent(Len(acct.orders) + 1, o))],
                        seed, k, kept, missed, language)
<1> DEFINE o   == Order(r, r.price, "new", 0)
           fr  == [acct.free EXCEPT ![LockedAsset(r)] = @ - Reserved(r)]
           lo  == [acct.locked EXCEPT ![LockedAsset(r)] = @ + Reserved(r)]
           os  == acct.orders
           os2 == Append(os, o)
           es  == acct.events
           e1  == OrderEvent(Len(os) + 1, o)
           es2 == Append(es, e1)
           new == [free |-> fr, locked |-> lo, orders |-> os2, events |-> es2]
           la  == LockedAsset(r)
           rv  == Reserved(r)
<1>1. /\ os \in Seq(OrderSet) /\ es \in Seq(EventSet) /\ acct.free \in Amounts /\ acct.locked \in Amounts
  BY DEF AccountFits, Ledger, Accounts
<1>2. /\ o \in OrderSet /\ o.status = "new" /\ LockedAsset(o) = la /\ Reserved(o) = rv
      /\ IsOpen(o) /\ o.status # "filled"
  <2>1. 0 \in Nat /\ "new" \in {"new", "filled", "canceled"}
    OBVIOUS
  <2>2. /\ o \in OrderSet /\ o.status = "new" /\ LockedAsset(o) = la /\ Reserved(o) = rv
    BY <2>1, OrderIs
  <2> HIDE DEF o, la, rv
  <2> QED
    BY <2>2 DEF IsOpen
<1>3. la \in Assets /\ rv \in Nat /\ rv <= acct.free[la]
  <2>1. r.qty \in Nat /\ r.price \in Nat /\ la \in Assets
    BY RequestsAre
  <2>2. rv \in Nat
    BY <2>1, ReservedIsNatural
  <2>3. acct.free[la] \in Int
    BY <1>1, <2>1 DEF Amounts
  <2> QED
    BY <2>1, <2>2, <2>3
<1> HIDE DEF o, la, rv
<1>5. /\ fr \in Amounts /\ fr[la] = acct.free[la] - rv
      /\ lo \in Amounts /\ lo[la] = acct.locked[la] + rv
      /\ \A a \in Assets : a # la => fr[a] = acct.free[a] /\ lo[a] = acct.locked[a]
  <2>1. Locks(fr, lo, acct.free, acct.locked, la, rv)
    BY DEF Locks, la, rv
  <2> HIDE DEF fr, lo
  <2> QED
    BY <1>1, <1>3, <2>1, Locked
<1> HIDE DEF fr, lo
<1>6. e1 \in EventSet /\ e1.kind = "order"
  <2>1. Len(os) + 1 \in Nat
    BY <1>1
  <2> QED
    BY <1>2, <2>1 DEF EventSet, OrderEvent
<1>7. es2 \in Seq(EventSet) /\ os2 \in Seq(OrderSet)
  BY <1>1, <1>2, <1>6
<1>8. new \in Accounts
  BY <1>5, <1>7 DEF Accounts
<1>9. \A a : /\ ReservedIn(os2, a) = ReservedIn(os, a) + (IF la = a THEN rv ELSE 0)
             /\ Brought(os2, a) = Brought(os, a) /\ Spent(os2, a) = Spent(os, a)
             /\ ReservedIn(os, a) \in Int /\ Brought(os, a) \in Int /\ Spent(os, a) \in Int
  <2>1. ASSUME NEW a
        PROVE  /\ ReservedIn(os2, a) = ReservedIn(os, a) + (IF IsOpen(o) /\ LockedAsset(o) = a
                                                            THEN Reserved(o) ELSE 0)
               /\ Brought(os2, a) = Brought(os, a) + (IF o.status = "filled" /\ BoughtAsset(o) = a
                                                      THEN Brings(o, o.average) ELSE 0)
               /\ Spent(os2, a) = Spent(os, a) + (IF o.status = "filled" /\ LockedAsset(o) = a
                                                  THEN Spends(o, o.average) ELSE 0)
               /\ ReservedIn(os, a) \in Int /\ Brought(os, a) \in Int /\ Spent(os, a) \in Int
    BY <1>1, <1>2, OrderAdded, SumsTyped
  <2> HIDE DEF os2
  <2> QED
    BY <1>2, <2>1
<1> HIDE DEF os2, e1
<1>10. ASSUME NEW a \in Assets
       PROVE  /\ acct.free[a] >= 0
              /\ acct.free[a] + acct.locked[a] = seed[a] + Brought(os, a) - Spent(os, a)
              /\ acct.free[a] \in Int /\ acct.locked[a] \in Int /\ seed[a] \in Int
              /\ acct.locked[a] = ReservedIn(os, a)
  BY <1>1 DEF AccountFits, Ledger, Balanced, LocksFit, Amounts
<1>11. \A a \in Assets : fr[a] + lo[a] = acct.free[a] + acct.locked[a]
  <2>1. ASSUME NEW a \in Assets PROVE fr[a] + lo[a] = acct.free[a] + acct.locked[a]
    <3>1. CASE a = la
      BY <1>3, <1>5, <1>10, <3>1
    <3>2. CASE a # la
      BY <1>5, <3>2
    <3> QED
      BY <3>1, <3>2
  <2> QED
    BY <2>1
<1>12. LocksFit(new)
  <2>1. ASSUME NEW a \in Assets PROVE lo[a] = ReservedIn(os2, a)
    <3>1. CASE a = la
      BY <1>3, <1>5, <1>9, <1>10, <3>1
    <3>2. CASE a # la
      BY <1>5, <1>9, <1>10, <3>2
    <3> QED
      BY <3>1, <3>2
  <2> QED
    BY <2>1 DEF LocksFit
<1>13. Balanced(new, seed)
  <2>1. ASSUME NEW a \in Assets PROVE fr[a] >= 0
    <3>1. CASE a = la
      BY <1>3, <1>5, <1>10, <3>1
    <3>2. CASE a # la
      BY <1>5, <1>10, <3>2
    <3> QED
      BY <3>1, <3>2
  <2> QED
    BY <1>9, <1>10, <1>11, <2>1 DEF Balanced
<1>14. KnowsTotal(k.total, es2, new)
  <2>1. TotalOf(k.total, es2) = TotalOf(k.total, es)
    BY <1>1, <1>6, TotalKept
  <2>2. [a \in Assets |-> fr[a] + lo[a]] = [a \in Assets |-> acct.free[a] + acct.locked[a]]
    BY <1>11
  <2>3. TotalOf(k.total, es) = [a \in Assets |-> acct.free[a] + acct.locked[a]]
    BY DEF AccountFits, KnowsTotal
  <2> HIDE DEF es2
  <2> QED
    BY <2>1, <2>2, <2>3 DEF KnowsTotal
<1>15. Story(es2, os2, k.orders, kept, missed, language)
  BY <1>1, <1>2, StoryOfNewOrder DEF AccountFits, e1, os2
<1> HIDE DEF es2
<1>16. AccountFits(new, seed, k, kept, missed, language)
  BY <1>8, <1>12, <1>13, <1>14, <1>15 DEF AccountFits, Ledger
<1> QED
  BY <1>16, Zenon DEF new, es2, os2, e1, o, fr, lo

LEMMA CancelKeeps ==
  ASSUME NEW acct, NEW seed \in [Assets -> Nat], NEW k, NEW kept, NEW missed, NEW language,
         AccountFits(acct, seed, k, kept, missed, language), NEW i \in Open(acct.orders)
  PROVE  /\ AccountFits(Cancelled(acct, i), seed, k, kept, missed, language)
         /\ Len(Cancelled(acct, i).orders) = Len(acct.orders)
         /\ \A x \in DOMAIN acct.orders : x # i => Cancelled(acct, i).orders[x] = acct.orders[x]
<1> DEFINE os  == acct.orders
           o   == os[i]
           c   == Canceled(o)
           fr  == [acct.free EXCEPT ![LockedAsset(o)] = @ + Reserved(o)]
           lo  == [acct.locked EXCEPT ![LockedAsset(o)] = @ - Reserved(o)]
           os2 == [os EXCEPT ![i] = c]
           es  == acct.events
           e1  == OrderEvent(i, c)
           e2  == BalanceEvent(fr, lo)
           es2 == es \o <<e1, e2>>
           new == [free |-> fr, locked |-> lo, orders |-> os2, events |-> es2]
           la  == LockedAsset(o)
           rv  == Reserved(o)
<1>0. Cancelled(acct, i) = new
  BY DEF Cancelled, Canceled
<1>1. /\ os \in Seq(OrderSet) /\ es \in Seq(EventSet) /\ acct.free \in Amounts /\ acct.locked \in Amounts
  BY DEF AccountFits, Ledger, Accounts
<1>2. o \in OrderSet /\ i \in DOMAIN os /\ i \in Nat
  BY <1>1 DEF Open
<1>3. la \in Assets /\ rv \in Nat
  <2>1. o.symbol \in Symbols /\ o.qty \in Nat /\ o.price \in Nat
    BY <1>2 DEF OrderSet
  <2> HIDE DEF o
  <2> QED
    BY <2>1, AssetsOf, ReservedIsNatural
<1>4. c \in OrderSet
  BY <1>2, CanceledIsOrder
<1> HIDE DEF c
<1>5. os2 \in Seq(OrderSet) /\ Len(os2) = Len(os) /\ \A x \in DOMAIN os : x # i => os2[x] = os[x]
  BY <1>1, <1>2, <1>4
<1>6. \A a : /\ ReservedIn(os, a) = ReservedIn(os2, a) + (IF la = a THEN rv ELSE 0)
             /\ Brought(os2, a) = Brought(os, a) /\ Spent(os2, a) = Spent(os, a)
             /\ ReservedIn(os2, a) \in Int /\ Brought(os, a) \in Int /\ Spent(os, a) \in Int
  <2>1. ASSUME NEW a
        PROVE  /\ ReservedIn(os, a) = ReservedIn(os2, a) + (IF la = a THEN rv ELSE 0)
               /\ Brought(os2, a) = Brought(os, a) /\ Spent(os2, a) = Spent(os, a)
               /\ ReservedIn(os2, a) \in Int /\ Brought(os, a) \in Int /\ Spent(os, a) \in Int
    <3>1. /\ ReservedIn(os, a) = ReservedIn(os2, a) + (IF la = a THEN rv ELSE 0)
          /\ Brought(os2, a) = Brought(os, a) /\ Spent(os2, a) = Spent(os, a)
      <4>1. Closes(os2, os, i)
        BY DEF Closes, c
      <4> HIDE DEF os2, os, o, la, rv
      <4>2. i \in Open(os) /\ la = LockedAsset(os[i]) /\ rv = Reserved(os[i])
        BY DEF os, o, la, rv
      <4> QED
        BY <1>1, <4>1, <4>2, OrderCanceled
    <3> HIDE DEF os2, os
    <3>2. ReservedIn(os2, a) \in Int /\ Brought(os, a) \in Int /\ Spent(os, a) \in Int
      BY <1>1, <1>5, SumsTyped
    <3> QED
      BY <3>1, <3>2
  <2> QED
    BY <2>1
<1> HIDE DEF o, la, rv
<1>7. /\ fr \in Amounts /\ fr[la] = acct.free[la] + rv
      /\ lo \in Amounts /\ lo[la] = acct.locked[la] - rv
      /\ \A a \in Assets : a # la => fr[a] = acct.free[a] /\ lo[a] = acct.locked[a]
  BY <1>1, <1>3 DEF Amounts, la, rv
<1> HIDE DEF fr, lo
<1>8. /\ e1 \in EventSet /\ e1.kind = "order" /\ e2 \in EventSet /\ e2.kind = "balance"
      /\ e2.total = [a \in Assets |-> fr[a] + lo[a]]
  <2>1. \A a \in Assets : fr[a] + lo[a] \in Int
    BY <1>7 DEF Amounts
  <2> QED
    BY <1>2, <1>4, <2>1 DEF EventSet, OrderEvent, BalanceEvent, Amounts
<1>9. es2 = Append(Append(es, e1), e2) /\ Append(es, e1) \in Seq(EventSet) /\ es2 \in Seq(EventSet)
  BY <1>1, <1>8, TwoMore
<1>10. new \in Accounts
  BY <1>5, <1>7, <1>9 DEF Accounts
<1>11. Story(es2, os2, k.orders, kept, missed, language)
  <2>1. Story(Append(es, e1), os2, k.orders, kept, missed, language)
    <3>1. Story(es, os, k.orders, kept, missed, language)
      BY DEF AccountFits
    <3> QED
      BY <1>1, <3>1, StoryOfCanceled DEF c, o, e1
  <2> QED
    BY <1>8, <1>9, <2>1, StoryOfBalance
<1> HIDE DEF os2, e1, e2, es2
<1>12. ASSUME NEW a \in Assets
       PROVE  /\ acct.free[a] >= 0
              /\ acct.free[a] + acct.locked[a] = seed[a] + Brought(os, a) - Spent(os, a)
              /\ acct.free[a] \in Int /\ acct.locked[a] \in Int /\ seed[a] \in Int
              /\ acct.locked[a] = ReservedIn(os, a)
  BY <1>1 DEF AccountFits, Ledger, Balanced, LocksFit, Amounts
<1>13. LocksFit(new)
  <2>1. ASSUME NEW a \in Assets PROVE lo[a] = ReservedIn(os2, a)
    <3>1. CASE a = la
      BY <1>3, <1>6, <1>7, <1>12, <3>1
    <3>2. CASE a # la
      BY <1>6, <1>7, <1>12, <3>2
    <3> QED
      BY <3>1, <3>2
  <2> QED
    BY <2>1 DEF LocksFit
<1>14. Balanced(new, seed)
  <2>1. ASSUME NEW a \in Assets
        PROVE  fr[a] >= 0 /\ fr[a] + lo[a] = seed[a] + Brought(os2, a) - Spent(os2, a)
    <3>1. CASE a = la
      BY <1>3, <1>6, <1>7, <1>12, <3>1
    <3>2. CASE a # la
      BY <1>6, <1>7, <1>12, <3>2
    <3> QED
      BY <3>1, <3>2
  <2> QED
    BY <2>1 DEF Balanced
<1>15. KnowsTotal(k.total, es2, new)
  BY ZenonT(40), <1>8, <1>9, TotalSaid DEF KnowsTotal
<1>16. AccountFits(new, seed, k, kept, missed, language)
  BY <1>10, <1>11, <1>13, <1>14, <1>15 DEF AccountFits, Ledger
<1> QED
  BY <1>0, <1>5, <1>16

(***************************************************************************)
(* All of them cancelled, one after another.                               *)
(***************************************************************************)
LEMMA CancelledIsAccount ==
  ASSUME NEW acct \in Accounts, NEW i \in DOMAIN acct.orders
  PROVE  Cancelled(acct, i) \in Accounts /\ Len(Cancelled(acct, i).orders) = Len(acct.orders)
<1> DEFINE os == acct.orders
           o  == os[i]
           c  == Canceled(o)
           la == LockedAsset(o)
           rv == Reserved(o)
           fr == [acct.free EXCEPT ![la] = @ + rv]
           lo == [acct.locked EXCEPT ![la] = @ - rv]
           e1 == OrderEvent(i, c)
           e2 == BalanceEvent(fr, lo)
<1>1. /\ os \in Seq(OrderSet) /\ acct.events \in Seq(EventSet)
      /\ acct.free \in Amounts /\ acct.locked \in Amounts
  BY DEF Accounts
<1>2. o \in OrderSet /\ i \in DOMAIN os /\ i \in Nat
  BY <1>1
<1>3. la \in Assets /\ rv \in Nat
  <2>1. o.symbol \in Symbols /\ o.qty \in Nat /\ o.price \in Nat
    BY <1>2 DEF OrderSet
  <2> HIDE DEF o
  <2> QED
    BY <2>1, AssetsOf, ReservedIsNatural
<1>4. c \in OrderSet
  BY <1>2, CanceledIsOrder
<1>5. Cancelled(acct, i) = [free |-> fr, locked |-> lo, orders |-> [os EXCEPT ![i] = c],
                            events |-> acct.events \o <<e1, e2>>]
  BY DEF Cancelled, Canceled
<1> HIDE DEF c, o, la, rv
<1>6. fr \in Amounts /\ lo \in Amounts
  BY <1>1, <1>3 DEF Amounts
<1> HIDE DEF fr, lo
<1>7. e1 \in EventSet /\ e2 \in EventSet
  <2>1. \A a \in Assets : fr[a] + lo[a] \in Int
    BY <1>6 DEF Amounts
  <2> QED
    BY <1>2, <1>4, <2>1 DEF EventSet, OrderEvent, BalanceEvent, Amounts
<1> HIDE DEF e1, e2
<1>8. acct.events \o <<e1, e2>> \in Seq(EventSet)
  BY <1>1, <1>7
<1>9. [os EXCEPT ![i] = c] \in Seq(OrderSet) /\ Len([os EXCEPT ![i] = c]) = Len(os)
  BY <1>1, <1>2, <1>4
<1> QED
  BY <1>5, <1>6, <1>8, <1>9 DEF Accounts

Closing(g, acct) ==
  /\ g[0] = acct
  /\ \A i \in 1..Len(acct.orders) :
       g[i] = IF i \in Open(acct.orders) THEN Cancelled(g[i - 1], i) ELSE g[i - 1]

LEMMA AllCancelledIs ==
  ASSUME NEW acct \in Accounts
  PROVE  \E g : Closing(g, acct) /\ AllCancelled(acct) = g[Len(acct.orders)]
<1> DEFINE n == Len(acct.orders)
           open == Open(acct.orders)
           V == {b \in Accounts : Len(b.orders) = n}
           step == [x \in (1..n) \X V |-> IF x[1] \in open THEN Cancelled(x[2], x[1]) ELSE x[2]]
           Rule(g) == [i \in 0..n |->
                         IF i = 0 THEN acct
                         ELSE IF i \in open THEN Cancelled(g[i - 1], i) ELSE g[i - 1]]
           g == CHOOSE h : h = Rule(h)
<1>1. n \in Nat /\ acct \in V
  BY DEF Accounts
<1>2. step \in [(1..n) \X V -> V]
  <2>1. ASSUME NEW b \in V, NEW i \in 1..n PROVE Cancelled(b, i) \in V
    <3>1. b \in Accounts /\ b.orders \in Seq(OrderSet) /\ Len(b.orders) = n
      BY DEF Accounts
    <3>2. i \in DOMAIN b.orders
      BY <3>1
    <3> QED
      BY <3>1, <3>2, CancelledIsAccount
  <2> HIDE DEF V, n
  <2>2. \A x \in (1..n) \X V : x[1] \in 1..n /\ x[2] \in V /\ Cancelled(x[2], x[1]) \in V
    BY <2>1
  <2> QED
    BY <2>2
<1>3. PICK h \in [0..n -> V] : Follows(h, n, acct, step)
  <2> HIDE DEF n, step, V
  <2> QED
    BY <1>1, <1>2, StepsExist, Zenon
<1>4. h = Rule(h)
  <2>1. \A i \in 1..n : h[i - 1] \in V
    BY <1>1
  <2>2. \A i \in 1..n : step[<<i, h[i - 1]>>] = IF i \in open THEN Cancelled(h[i - 1], i) ELSE h[i - 1]
    BY <2>1
  <2>3. \A i \in 0..n : i # 0 => i \in 1..n
    BY <1>1
  <2> HIDE DEF n, step, V, open
  <2>4. \A i \in 0..n : h[i] = IF i = 0 THEN acct
                               ELSE IF i \in open THEN Cancelled(h[i - 1], i) ELSE h[i - 1]
    BY <1>3, <2>2, <2>3 DEF Follows
  <2> QED
    BY <2>4
<1>5. g = Rule(g)
  BY <1>4, Zenon
<1>6. AllCancelled(acct) = g[n]
  BY DEF AllCancelled
<1> HIDE DEF g
<1>7. Closing(g, acct)
  <2>1. 0 \in 0..n /\ \A i \in 1..n : i \in 0..n /\ i # 0
    BY <1>1
  <2> QED
    BY <1>5, <2>1 DEF Closing
<1> QED
  BY <1>6, <1>7

LEMMA AllCancelledKeeps ==
  ASSUME NEW acct, NEW seed \in [Assets -> Nat], NEW k, NEW kept, NEW missed, NEW language,
         AccountFits(acct, seed, k, kept, missed, language)
  PROVE  AccountFits(AllCancelled(acct), seed, k, kept, missed, language)
<1> DEFINE os == acct.orders
           n == Len(os)
<1>1. acct \in Accounts /\ os \in Seq(OrderSet) /\ n \in Nat /\ DOMAIN os = 1..n
  BY DEF AccountFits, Ledger, Accounts
<1>2. PICK g : Closing(g, acct) /\ AllCancelled(acct) = g[n]
  BY <1>1, AllCancelledIs
<1> DEFINE Q == {i \in Nat : /\ AccountFits(g[i], seed, k, kept, missed, language)
                             /\ Len(g[i].orders) = n
                             /\ \A x \in 1..n : x > i => g[i].orders[x] = os[x]}
<1>3. 0 \in Q
  BY <1>2 DEF Closing
<1>4. ASSUME NEW i \in 1..n, i - 1 \in Q PROVE i \in Q
  <2> DEFINE b == g[i - 1]
  <2>1. /\ AccountFits(b, seed, k, kept, missed, language) /\ Len(b.orders) = n
        /\ \A x \in 1..n : x > i - 1 => b.orders[x] = os[x]
    BY <1>4
  <2>2. i \in Nat /\ g[i] = IF i \in Open(os) THEN Cancelled(b, i) ELSE b
    BY <1>2, <1>4 DEF Closing
  <2> HIDE DEF b
  <2>3. CASE i \notin Open(os)
    BY <2>1, <2>2, <2>3
  <2>4. CASE i \in Open(os)
    <3>1. b.orders \in Seq(OrderSet) /\ DOMAIN b.orders = 1..n
      BY <2>1 DEF AccountFits, Ledger, Accounts
    <3>2. i \in Open(b.orders)
      BY <1>1, <2>1, <2>4, <3>1 DEF Open
    <3>3. /\ AccountFits(Cancelled(b, i), seed, k, kept, missed, language)
          /\ Len(Cancelled(b, i).orders) = Len(b.orders)
          /\ \A x \in DOMAIN b.orders : x # i => Cancelled(b, i).orders[x] = b.orders[x]
      BY <2>1, <3>2, CancelKeeps
    <3> QED
      BY <2>1, <2>2, <2>4, <3>1, <3>3
  <2> QED
    BY <2>3, <2>4
<1> HIDE DEF Q
<1>5. n \in Q
  <2>1. Q \in SUBSET Nat
    BY DEF Q
  <2>2. \A i \in 0..n : i \in Q
    BY <1>1, <1>3, <1>4, <2>1, UpTo
  <2> QED
    BY <1>1, <2>2
<1> QED
  BY <1>2, <1>5 DEF Q

(***************************************************************************)
(* Polls.  The first m of the events es, as a caller of a language gets    *)
(* them.                                                                   *)
(***************************************************************************)
WordSet == EventSet \union [kind : {"trade"}, price : Nat]

Copies(slots, es, m, language) ==
  /\ m \in 0..Len(es) /\ DOMAIN slots = 1..m
  /\ \A j \in 1..m :
       /\ slots[j].kind = es[j].kind
       /\ es[j].kind = "order" => /\ slots[j].id = es[j].id
                                  /\ slots[j].order = View(es[j].order, language)
       /\ es[j].kind = "trade" => slots[j].price = es[j].price

LEMMA EventViews ==
  ASSUME NEW e \in WordSet
  PROVE  /\ CEvent(e).kind = e.kind /\ NodeEvent(e).kind = e.kind
         /\ e.kind = "order" => /\ CEvent(e).id = e.id /\ CEvent(e).order = COrder(e.order)
                                /\ NodeEvent(e).id = e.id /\ NodeEvent(e).order = NodeOrder(e.order)
         /\ e.kind = "trade" => CEvent(e).price = e.price /\ NodeEvent(e).price = e.price
<1>1. CASE e.kind = "order"
  BY <1>1 DEF CEvent, NodeEvent
<1>2. CASE e.kind = "trade"
  BY <1>2 DEF CEvent, NodeEvent
<1>3. CASE e.kind # "order" /\ e.kind # "trade"
  BY <1>3 DEF CEvent, NodeEvent
<1> QED
  BY <1>1, <1>2, <1>3

LEMMA CPollCopies ==
  ASSUME NEW es \in Seq(WordSet), NEW room \in Nat
  PROVE  LET m == IF Len(es) > room THEN room ELSE Len(es)
         IN Copies(CPoll(es, room), es, m, "go") /\ Len(CPoll(es, room)) = m
<1> DEFINE m == IF Len(es) > room THEN room ELSE Len(es)
<1>1. m \in 0..Len(es) /\ m \in Nat /\ \A j \in 1..m : es[j] \in WordSet
  OBVIOUS
<1>2. CPoll(es, room) = [j \in 1..m |-> CEvent(es[j])]
  BY DEF CPoll
<1> HIDE DEF m
<1>3. Len([j \in 1..m |-> CEvent(es[j])]) = m
  BY <1>1
<1>4. \A j \in 1..m : /\ CEvent(es[j]).kind = es[j].kind
                      /\ es[j].kind = "order" => /\ CEvent(es[j]).id = es[j].id
                                                 /\ CEvent(es[j]).order = COrder(es[j].order)
                      /\ es[j].kind = "trade" => CEvent(es[j]).price = es[j].price
  BY <1>1, EventViews
<1>5. Copies([j \in 1..m |-> CEvent(es[j])], es, m, "go")
  BY <1>1, <1>4 DEF Copies, View
<1> QED
  BY <1>2, <1>3, <1>5, Zenon DEF m

LEMMA NodePollCopies ==
  ASSUME NEW es \in Seq(WordSet), NEW language, language # "go"
  PROVE  Copies(NodePoll(es), es, Len(es), language)
<1>1. Len(es) \in Nat /\ DOMAIN es = 1..Len(es) /\ \A j \in 1..Len(es) : es[j] \in WordSet
  OBVIOUS
<1>2. NodePoll(es) = [j \in 1..Len(es) |-> NodeEvent(es[j])]
  BY <1>1 DEF NodePoll
<1>3. \A j \in 1..Len(es) :
        /\ NodeEvent(es[j]).kind = es[j].kind
        /\ es[j].kind = "order" => /\ NodeEvent(es[j]).id = es[j].id
                                   /\ NodeEvent(es[j]).order = NodeOrder(es[j].order)
        /\ es[j].kind = "trade" => NodeEvent(es[j]).price = es[j].price
  BY <1>1, EventViews
<1>4. Copies([j \in 1..Len(es) |-> NodeEvent(es[j])], es, Len(es), language)
  BY <1>1, <1>3 DEF Copies, View
<1> QED
  BY <1>2, <1>4

LEMMA ViewsOf ==
  ASSUME NEW o, NEW language
  PROVE  View(o, language).status = o.status
BY DEF View, COrder, NodeOrder

LEMMA EmptyPending ==
  ASSUME NEW os, NEW total
  PROVE  /\ Mentioned(<<>>) = {} /\ WordsFit(<<>>, os) /\ KnowsOrders(os, <<>>, os)
         /\ TotalOf(total, <<>>) = total
<1>1. DOMAIN <<>> = {}
  OBVIOUS
<1>2. Mentioned(<<>>) = {} /\ Totals(<<>>) = {}
  BY <1>1 DEF Mentioned, Totals
<1> QED
  BY <1>1, <1>2 DEF WordsFit, KnowsOrders, TotalOf

LEMMA LastWord ==
  ASSUME NEW V, NEW es \in Seq(V), NEW os, WordsFit(es, os), NEW i, About(es, i) # {}
  PROVE  i \in DOMAIN os /\ es[Max(About(es, i))].order = os[i]
<1> DEFINE l == Max(About(es, i))
<1>1. About(es, i) \subseteq 1..Len(es) /\ Len(es) \in Nat
  BY DEF About
<1>2. l \in About(es, i) /\ \A x \in About(es, i) : x <= l /\ x \in Nat
  BY <1>1, MaxIs
<1> HIDE DEF l
<1>3. l \in DOMAIN es /\ es[l].kind = "order" /\ es[l].id = i
  BY <1>2 DEF About
<1>4. ~ \E x \in About(es, i) : x > l
  BY <1>2
<1>5. i \in DOMAIN os /\ es[l].order = os[i]
  BY <1>3, <1>4 DEF WordsFit
<1> QED
  BY <1>5 DEF l

LEMMA HeardIsAll ==
  ASSUME NEW es \in Seq(EventSet), NEW os \in Seq(OrderSet), NEW k,
         WordsFit(es, os), KnowsOrders(k, es, os)
  PROVE  Heard(k, es) = os
<1>1. (DOMAIN k) \union Mentioned(es) = DOMAIN os
  BY DEF KnowsOrders
<1>2. ASSUME NEW i \in DOMAIN os
      PROVE  (IF About(es, i) = {} THEN k[i] ELSE es[Max(About(es, i))].order) = os[i]
  <2>1. CASE About(es, i) = {}
    BY <2>1, MentionedIs DEF KnowsOrders
  <2>2. CASE About(es, i) # {}
    BY <2>2, LastWord
  <2> QED
    BY <2>1, <2>2
<1>3. Heard(k, es) = [i \in DOMAIN os |-> os[i]]
  BY <1>1, <1>2 DEF Heard
<1> QED
  BY <1>3

LEMMA HeardAfter ==
  ASSUME NEW V, NEW es \in Seq(V), NEW os, WordsFit(es, os), NEW language, NEW slots, NEW m,
         Copies(slots, es, m, language), NEW kept, HeardFits(kept, os, language)
  PROVE  HeardFits(Heard(kept, slots), os, language)
<1> DEFINE new == Heard(kept, slots)
<1>1. /\ DOMAIN new = (DOMAIN kept) \union Mentioned(slots)
      /\ \A i \in DOMAIN new : new[i] = IF About(slots, i) = {} THEN kept[i]
                                        ELSE slots[Max(About(slots, i))].order
  BY DEF Heard
<1> HIDE DEF new
<1>2. ASSUME NEW i \in DOMAIN new
      PROVE  /\ i \in DOMAIN os
             /\ \/ new[i] = Gone /\ os[i].status # "new"
                \/ new[i] = View(os[i], language)
                \/ os[i].status = "canceled" /\ new[i] = View(Before(os[i]), language)
  <2>1. CASE About(slots, i) = {}
    <3>1. i \in DOMAIN kept /\ new[i] = kept[i]
      BY <1>1, <2>1, MentionedIs
    <3> QED
      BY <3>1 DEF HeardFits
  <2>2. CASE About(slots, i) # {}
    <3> DEFINE l == Max(About(slots, i))
    <3>1. About(slots, i) \subseteq 1..m /\ m \in Nat /\ m <= Len(es)
      BY DEF About, Copies
    <3>2. l \in About(slots, i)
      BY <2>2, <3>1, MaxIs
    <3>3. new[i] = slots[l].order
      BY <1>1, <2>2
    <3> HIDE DEF l
    <3>4. l \in 1..m /\ slots[l].kind = "order" /\ slots[l].id = i /\ l \in DOMAIN es
      BY <3>1, <3>2 DEF About
    <3>5. es[l].kind = "order" /\ es[l].id = i /\ slots[l].order = View(es[l].order, language)
      BY <3>4 DEF Copies
    <3> QED
      BY <3>3, <3>4, <3>5 DEF WordsFit
  <2> QED
    BY <2>1, <2>2
<1> QED
  BY <1>2 DEF HeardFits, new

LEMMA HeardIsCurrent ==
  ASSUME NEW V, NEW es \in Seq(V), NEW os, WordsFit(es, os), NEW language, NEW slots,
         Copies(slots, es, Len(es), language), NEW kept, Current(kept, es, os, language)
  PROVE  Current(Heard(kept, slots), <<>>, os, language)
<1> DEFINE new == Heard(kept, slots)
<1>1. /\ DOMAIN new = (DOMAIN kept) \union Mentioned(slots)
      /\ \A i \in DOMAIN new : new[i] = IF About(slots, i) = {} THEN kept[i]
                                        ELSE slots[Max(About(slots, i))].order
  BY DEF Heard
<1> HIDE DEF new
<1>2. ASSUME NEW i PROVE About(slots, i) = About(es, i)
  BY DEF About, Copies
<1>3. ASSUME NEW i \in DOMAIN os
      PROVE  IF i \in DOMAIN new THEN new[i] = Gone \/ new[i] = View(os[i], language)
             ELSE os[i].status # "new"
  <2>1. CASE About(es, i) = {}
    <3>1. i \notin Mentioned(es) /\ i \notin Mentioned(slots)
      BY <1>2, <2>1, MentionedIs
    <3>2. i \in DOMAIN new <=> i \in DOMAIN kept
      BY <1>1, <3>1
    <3>3. i \in DOMAIN new => new[i] = kept[i]
      BY <1>1, <1>2, <2>1
    <3> QED
      BY <3>1, <3>2, <3>3 DEF Current
  <2>2. CASE About(es, i) # {}
    <3> DEFINE l == Max(About(es, i))
    <3>1. i \in DOMAIN new /\ new[i] = slots[l].order
      BY <1>1, <1>2, <2>2, MentionedIs
    <3>2. es[l].order = os[i]
      BY <2>2, LastWord
    <3>3. l \in About(es, i)
      <4>1. About(es, i) \subseteq 1..Len(es) /\ Len(es) \in Nat
        BY DEF About
      <4> QED
        BY <2>2, <4>1, MaxIs
    <3> HIDE DEF l
    <3>4. l \in 1..Len(es) /\ es[l].kind = "order"
      BY <3>3 DEF About
    <3>5. slots[l].order = View(es[l].order, language)
      BY <3>4 DEF Copies
    <3> QED
      BY <3>1, <3>2, <3>5
  <2> QED
    BY <2>1, <2>2
<1> QED
  BY <1>3 DEF Current, new

LEMMA CurrentMeans ==
  ASSUME NEW os \in Seq(OrderSet), NEW language, NEW k,
         HeardFits(k, os, language), Current(k, <<>>, os, language)
  PROVE  /\ Believed(k) = Open(os)
         /\ \A i \in DOMAIN k : k[i] # Gone => k[i] = View(os[i], language)
<1>1. \A i \in DOMAIN os : IF i \in DOMAIN k THEN k[i] = Gone \/ k[i] = View(os[i], language)
                           ELSE os[i].status # "new"
  BY EmptyPending DEF Current
<1>2. \A i \in DOMAIN k : i \in DOMAIN os
  BY DEF HeardFits
<1>3. \A i \in DOMAIN k : k[i] # Gone => k[i] = View(os[i], language)
  BY <1>1, <1>2
<1>4. \A i \in DOMAIN os : View(os[i], language).status = os[i].status
  BY ViewsOf
<1>5. Gone.status # "new" /\ \A o : View(o, language) = Gone => o.status # "new"
  <2>1. Gone.status = "gone"
    BY DEF Gone
  <2>2. ASSUME NEW o, View(o, language) = Gone PROVE o.status # "new"
    BY <2>1, <2>2, ViewsOf
  <2> QED
    BY <2>1, <2>2
<1>6. ASSUME NEW i \in DOMAIN k PROVE k[i].status = "new" <=> os[i].status = "new"
  <2>1. CASE k[i] = Gone
    BY <1>2, <1>4, <1>5, <2>1 DEF HeardFits
  <2>2. CASE k[i] # Gone
    BY <1>2, <1>3, <1>4, <2>2
  <2> QED
    BY <2>1, <2>2
<1>7. Believed(k) = Open(os)
  BY <1>1, <1>2, <1>6 DEF Believed, Open, IsOpen
<1> QED
  BY <1>3, <1>7

LEMMA StoryPolled ==
  ASSUME NEW V, NEW es \in Seq(V), NEW os, WordsFit(es, os), NEW language, NEW slots, NEW m,
         Copies(slots, es, m, language), NEW kept, HeardFits(kept, os, language),
         NEW missed, missed \/ Current(kept, es, os, language),
         NEW missed2, missed2 \/ (~missed /\ m = Len(es))
  PROVE  Story(<<>>, os, os, Heard(kept, slots), missed2, language)
<1>1. HeardFits(Heard(kept, slots), os, language)
  BY HeardAfter
<1>2. CASE ~missed2
  <2>1. Copies(slots, es, Len(es), language) /\ Current(kept, es, os, language)
    BY <1>2
  <2>2. Current(Heard(kept, slots), <<>>, os, language)
    BY <2>1, HeardIsCurrent
  <2> QED
    BY <1>1, <2>2, EmptyPending DEF Story
<1>3. CASE missed2
  BY <1>1, <1>3, EmptyPending DEF Story
<1> QED
  BY <1>2, <1>3

(***************************************************************************)
(* Reconciliation.                                                         *)
(***************************************************************************)
LEMMA FittingIsAll ==
  ASSUME NEW S, IsFiniteSet(S), NEW room \in Nat, Cardinality(S) <= room, NEW i
  PROVE  Cardinality({j \in S : j <= i}) <= room
<1>1. {j \in S : j <= i} \subseteq S
  OBVIOUS
<1>2. /\ Cardinality({j \in S : j <= i}) \in Nat /\ Cardinality(S) \in Nat
      /\ Cardinality({j \in S : j <= i}) <= Cardinality(S)
  BY <1>1, FS_Subset, FS_CardinalityType
<1> QED
  BY <1>2

LEMMA OpenOrdersAreAll ==
  ASSUME orders \in Seq(OrderSet)
  PROVE  OpenOrders = Open(orders)
<1> DEFINE S == Open(orders)
<1>1. IsFiniteSet(S) /\ Cardinality(S) \in Nat
  <2>1. S \subseteq 1..Len(orders) /\ Len(orders) \in Nat
    BY DEF Open
  <2>2. IsFiniteSet(1..Len(orders))
    BY <2>1, FS_Interval
  <2> HIDE DEF S
  <2> QED
    BY <2>1, <2>2, FS_Subset, FS_CardinalityType
<1>2. ASSUME NEW room \in Nat, Cardinality(S) <= room PROVE Fitting(room) = S
  <2>1. \A i \in S : Cardinality({j \in S : j <= i}) <= room
    BY <1>1, <1>2, FittingIsAll
  <2> QED
    BY <2>1 DEF Fitting
<1>3. ListBuffer \in Nat
  BY BindingAssumption
<1>4. CASE Cardinality(S) > ListBuffer
  <2>1. COpenOrders(Cardinality(S)).ids = S
    BY <1>1, <1>2 DEF COpenOrders
  <2>2. GoOpenOrders = S
    BY <1>4, <2>1 DEF GoOpenOrders, COpenOrders
  <2> QED
    BY <2>2 DEF OpenOrders, NodeOpenOrders
<1>5. CASE ~(Cardinality(S) > ListBuffer)
  <2>1. Cardinality(S) <= ListBuffer
    BY <1>1, <1>3, <1>5
  <2>2. COpenOrders(ListBuffer).ids = S
    BY <1>2, <1>3, <2>1 DEF COpenOrders
  <2>3. GoOpenOrders = S
    BY <1>5, <2>2 DEF GoOpenOrders, COpenOrders
  <2> QED
    BY <2>3 DEF OpenOrders, NodeOpenOrders
<1> QED
  BY <1>4, <1>5

Corrects(new, kept, os, language) ==
  LET appeared == Open(os) \ Believed(kept)
      vanished == Believed(kept) \ Open(os)
  IN /\ DOMAIN new = DOMAIN kept \union appeared
     /\ \A i \in DOMAIN new : new[i] = IF i \in appeared THEN View(os[i], language)
                                       ELSE IF i \in vanished THEN Gone ELSE kept[i]

LEMMA Reconciled ==
  ASSUME NEW os \in Seq(OrderSet), NEW language, NEW kept, HeardFits(kept, os, language),
         NEW new, Corrects(new, kept, os, language), NEW es
  PROVE  HeardFits(new, os, language) /\ Current(new, es, os, language)
<1> DEFINE appeared == Open(os) \ Believed(kept)
           vanished == Believed(kept) \ Open(os)
<1>0. /\ DOMAIN new = (DOMAIN kept) \union appeared
      /\ \A i \in DOMAIN new : new[i] = IF i \in appeared THEN View(os[i], language)
                                        ELSE IF i \in vanished THEN Gone ELSE kept[i]
  BY DEF Corrects
<1>1. \A i : i \in Open(os) <=> i \in DOMAIN os /\ os[i].status = "new"
  BY DEF Open, IsOpen
<1>2. \A i : i \in Believed(kept) <=> i \in DOMAIN kept /\ kept[i].status = "new"
  BY DEF Believed
<1>3. \A o : View(o, language).status = o.status
  BY ViewsOf
<1>4. Gone.status # "new" /\ \A i \in DOMAIN os : Before(os[i]).status = "new"
  BY DEF Gone, Before, OrderSet
<1>5. ASSUME NEW i \in DOMAIN kept
      PROVE  /\ i \in DOMAIN os
             /\ \/ kept[i] = Gone /\ os[i].status # "new" /\ i \notin Believed(kept)
                \/ kept[i] = View(os[i], language) /\ (i \in Believed(kept) <=> i \in Open(os))
                \/ os[i].status = "canceled" /\ i \in Believed(kept) /\ i \notin Open(os)
  BY <1>1, <1>2, <1>3, <1>4 DEF HeardFits
<1>6. ASSUME NEW i \in DOMAIN new
      PROVE  /\ i \in DOMAIN os
             /\ (new[i] = Gone /\ os[i].status # "new") \/ new[i] = View(os[i], language)
  <2>1. CASE i \in appeared
    BY <1>0, <1>1, <2>1
  <2>2. CASE i \notin appeared
    <3>1. i \in DOMAIN kept
      BY <1>0, <2>2
    <3>2. new[i] = IF i \in vanished THEN Gone ELSE kept[i]
      BY <1>0, <2>2
    <3> QED
      BY <1>1, <1>5, <2>2, <3>1, <3>2
  <2> QED
    BY <2>1, <2>2
<1>7. ASSUME NEW i \in DOMAIN os, i \notin DOMAIN new PROVE os[i].status # "new"
  BY <1>0, <1>1, <1>2, <1>7
<1> QED
  BY <1>6, <1>7 DEF HeardFits, Current

(***************************************************************************)
(* The invariant: at first, and over every action.                         *)
(***************************************************************************)
LEMMA SeedsAreNatural == ASSUME seeded \in [Assets -> Deposits] PROVE seeded \in [Assets -> Nat]
BY PaperAssumption

LEMMA PaperInvHolds == BindingInit => PaperInv
<1> SUFFICES ASSUME BindingInit PROVE PaperInv
  OBVIOUS
<1>1. /\ marks = [s \in Symbols |-> NoPrice] /\ seeded \in [Assets -> Nat]
      /\ seeded \in [Assets -> Deposits] /\ free = seeded /\ locked = [a \in Assets |-> 0]
      /\ orders = <<>> /\ events = <<>> /\ known.orders = <<>> /\ known.total = seeded
      /\ heard = <<>> /\ full = FALSE /\ cursor = 0 /\ shown = NoPrice
  BY SeedsAreNatural DEF BindingInit, Init
<1>2. marks \in [Symbols -> Nat] /\ (Replays => marks[TapeSymbol] = shown)
  BY <1>1, BindingAssumption DEF NoPrice
<1>3. /\ Account.free = seeded /\ Account.locked = [a \in Assets |-> 0]
      /\ Account.orders = <<>> /\ Account.events = <<>>
  BY <1>1 DEF Account
<1>4. Account \in Accounts
  <2>1. seeded \in Amounts /\ [a \in Assets |-> 0] \in Amounts
    BY <1>1 DEF Amounts
  <2>2. <<>> \in Seq(OrderSet) /\ <<>> \in Seq(EventSet)
    OBVIOUS
  <2> QED
    BY <1>1, <2>1, <2>2 DEF Account, Accounts
<1>5. \A a : ReservedIn(<<>>, a) = 0 /\ Brought(<<>>, a) = 0 /\ Spent(<<>>, a) = 0
  <2>1. \A a : OpenIn(<<>>, a) = {} /\ BoughtIn(<<>>, a) = {} /\ SpentIn(<<>>, a) = {}
    BY DEF OpenIn, Open, BoughtIn, SpentIn, FilledOf
  <2> QED
    BY <2>1, SumEmpty DEF ReservedIn, Brought, Spent
<1>6. LocksFit(Account)
  BY <1>3, <1>5 DEF LocksFit
<1>7. Balanced(Account, seeded)
  BY <1>1, <1>3, <1>5 DEF Balanced
<1>8. KnowsTotal(known.total, Account.events, Account)
  <2>1. TotalOf(seeded, <<>>) = seeded
    BY EmptyPending
  <2>2. seeded = [a \in Assets |-> Account.free[a] + Account.locked[a]]
    BY <1>1, <1>3
  <2> QED
    BY <1>1, <1>3, <2>1, <2>2 DEF KnowsTotal
<1>9. Story(Account.events, Account.orders, known.orders, heard, full, host.language)
  <2>1. WordsFit(<<>>, <<>>) /\ KnowsOrders(<<>>, <<>>, <<>>)
    BY EmptyPending
  <2>2. HeardFits(<<>>, <<>>, host.language) /\ Current(<<>>, <<>>, <<>>, host.language)
    BY DEF HeardFits, Current
  <2> QED
    BY <1>1, <1>3, <2>1, <2>2 DEF Story
<1>10. full \in BOOLEAN /\ cursor \in 0..Len(Tape) /\ known.orders \in Seq(OrderSet)
  <2>1. Tape \in Seq(Prices)
    BY BindingAssumption
  <2>2. Len(Tape) \in Nat
    BY <2>1
  <2>3. <<>> \in Seq(OrderSet)
    OBVIOUS
  <2>4. full = FALSE /\ cursor = 0 /\ known.orders = <<>>
    BY <1>1
  <2>5. 0 \in 0..Len(Tape)
    BY <2>2
  <2> QED
    BY <2>3, <2>4, <2>5, Zenon
<1> QED
  BY <1>1, <1>2, <1>4, <1>6, <1>7, <1>8, <1>9, <1>10 DEF PaperInv, AccountFits, Ledger

LEMMA AccountStep ==
  ASSUME PaperInv, AccountFits(Account', seeded, known, heard, full, host.language),
         UNCHANGED <<marks, seeded, known, host, cursor, shown, heard, full>>
  PROVE  PaperInv'
<1>1. AccountFits(Account', seeded', known', heard', full', host'.language)
  OBVIOUS
<1>2. Replays' <=> Replays
  BY DEF Replays
<1> QED
  BY <1>1, <1>2 DEF PaperInv

LEMMA FillStep ==
  ASSUME PaperInv, NEW r \in Requests, PlaceFills(r), UNCHANGED hostVars
  PROVE  PaperInv'
<1> DEFINE average == FillPrice(r.side, marks[r.symbol])
           o  == Order(r, r.price, "filled", average)
           fr == [free EXCEPT ![LockedAsset(r)] = @ - Spends(r, average),
                              ![BoughtAsset(r)] = @ + Brings(r, average)]
           new == [free |-> fr, locked |-> locked, orders |-> Append(orders, o),
                   events |-> events \o <<OrderEvent(Len(orders) + 1, o), BalanceEvent(fr, locked)>>]
<1>1. average \in Nat /\ seeded \in [Assets -> Nat]
  <2>1. marks[r.symbol] \in Nat
    BY RequestsAre DEF PaperInv
  <2> QED
    BY <2>1, FillPriceIsNatural, SeedsAreNatural DEF PaperInv
<1>2. free[LockedAsset(r)] >= Spends(r, average)
  BY DEF PlaceFills, Verdict, Affords
<1>3. Account' = new
  BY DEF Account, PlaceFills
<1>4. /\ Account.free = free /\ Account.locked = locked /\ Account.orders = orders
      /\ Account.events = events
  BY DEF Account
<1> HIDE DEF average
<1>5. AccountFits(Account, seeded, known, heard, full, host.language)
  BY DEF PaperInv
<1>6. AccountFits(new, seeded, known, heard, full, host.language)
  <2>1. ASSUME NEW acct, acct = Account, NEW seed, seed = seeded, NEW k, k = known,
               NEW kept, kept = heard, NEW missed, missed = full, NEW language, language = host.language
        PROVE  AccountFits(new, seed, k, kept, missed, language)
    <3>1. AccountFits(acct, seed, k, kept, missed, language)
      BY <1>5, <2>1
    <3>2. acct.free[LockedAsset(r)] >= Spends(r, average)
      BY <1>2, <1>4, <2>1
    <3>3. new = [free |-> [acct.free EXCEPT ![LockedAsset(r)] = @ - Spends(r, average),
                                            ![BoughtAsset(r)] = @ + Brings(r, average)],
                 locked |-> acct.locked, orders |-> Append(acct.orders, o),
                 events |-> acct.events \o
                   <<OrderEvent(Len(acct.orders) + 1, o),
                     BalanceEvent([acct.free EXCEPT ![LockedAsset(r)] = @ - Spends(r, average),
                                                    ![BoughtAsset(r)] = @ + Brings(r, average)],
                                  acct.locked)>>]
      BY <1>4, <2>1
    <3>4. seed \in [Assets -> Nat]
      BY <1>1, <2>1
    <3> HIDE DEF new
    <3> QED
      BY <1>1, <3>1, <3>2, <3>3, <3>4, FillKeeps, Zenon
  <2> QED
    BY <2>1
<1> QED
  BY <1>3, <1>6, AccountStep DEF PlaceFills, hostVars

LEMMA RestStep ==
  ASSUME PaperInv, NEW r \in Requests, PlaceRests(r), UNCHANGED hostVars
  PROVE  PaperInv'
<1> DEFINE o  == Order(r, r.price, "new", 0)
           fr == [free EXCEPT ![LockedAsset(r)] = @ - Reserved(r)]
           lo == [locked EXCEPT ![LockedAsset(r)] = @ + Reserved(r)]
           new == [free |-> fr, locked |-> lo, orders |-> Append(orders, o),
                   events |-> Append(events, OrderEvent(Len(orders) + 1, o))]
<1>1. seeded \in [Assets -> Nat]
  BY SeedsAreNatural DEF PaperInv
<1>2. free[LockedAsset(r)] >= Reserved(r)
  <2>1. ~(free[LockedAsset(r)] < Reserved(r))
    BY DEF PlaceRests, Verdict
  <2>2. free[LockedAsset(r)] \in Int
    BY RequestsAre DEF PaperInv, AccountFits, Ledger, Accounts, Amounts, Account
  <2>3. Reserved(r) \in Nat
    BY RequestsAre, ReservedIsNatural
  <2> QED
    BY <2>1, <2>2, <2>3
<1>3. Account' = new
  BY DEF Account, PlaceRests
<1>4. /\ Account.free = free /\ Account.locked = locked /\ Account.orders = orders
      /\ Account.events = events
  BY DEF Account
<1>5. AccountFits(Account, seeded, known, heard, full, host.language)
  BY DEF PaperInv
<1>6. AccountFits(new, seeded, known, heard, full, host.language)
  <2>1. ASSUME NEW acct, acct = Account, NEW seed, seed = seeded, NEW k, k = known,
               NEW kept, kept = heard, NEW missed, missed = full, NEW language, language = host.language
        PROVE  AccountFits(new, seed, k, kept, missed, language)
    <3>1. AccountFits(acct, seed, k, kept, missed, language)
      BY <1>5, <2>1
    <3>2. acct.free[LockedAsset(r)] >= Reserved(r)
      BY <1>2, <1>4, <2>1
    <3>3. new = [free |-> [acct.free EXCEPT ![LockedAsset(r)] = @ - Reserved(r)],
                 locked |-> [acct.locked EXCEPT ![LockedAsset(r)] = @ + Reserved(r)],
                 orders |-> Append(acct.orders, o),
                 events |-> Append(acct.events, OrderEvent(Len(acct.orders) + 1, o))]
      BY <1>4, <2>1
    <3>4. seed \in [Assets -> Nat]
      BY <1>1, <2>1
    <3> HIDE DEF new
    <3> QED
      BY <3>1, <3>2, <3>3, <3>4, RestKeeps, Zenon
  <2> QED
    BY <2>1
<1> QED
  BY <1>3, <1>6, AccountStep DEF PlaceRests, hostVars

LEMMA BecomesIs ==
  ASSUME NEW acct \in Accounts, Becomes(acct)
  PROVE  Account' = acct
BY DEF Accounts, Becomes, Account

LEMMA CancelStep ==
  ASSUME PaperInv, NEW i, CancelOrder(i), UNCHANGED hostVars
  PROVE  PaperInv'
<1>1. PICK acct : acct = Account
  OBVIOUS
<1>2. PICK new : new = Cancelled(acct, i)
  OBVIOUS
<1>3. AccountFits(new, seeded, known, heard, full, host.language)
  <2>1. ASSUME NEW seed, seed = seeded, NEW k, k = known,
               NEW kept, kept = heard, NEW missed, missed = full, NEW language, language = host.language
        PROVE  AccountFits(new, seed, k, kept, missed, language)
    <3>1. AccountFits(acct, seed, k, kept, missed, language) /\ seed \in [Assets -> Nat]
      BY <1>1, <2>1, SeedsAreNatural DEF PaperInv
    <3>2. i \in Open(acct.orders)
      BY <1>1 DEF CancelOrder, Account
    <3> QED
      BY <1>2, <3>1, <3>2, CancelKeeps
  <2> QED
    BY <2>1
<1>4. new \in Accounts /\ Becomes(new)
  BY <1>1, <1>2, <1>3 DEF AccountFits, Ledger, CancelOrder
<1>5. Account' = new
  BY <1>4, BecomesIs
<1> QED
  BY <1>3, <1>4, <1>5, AccountStep DEF Becomes, hostVars

LEMMA CancelAllStep ==
  ASSUME PaperInv, CancelAll, UNCHANGED <<host, cursor, shown, heard, full>>
  PROVE  PaperInv'
<1>1. PICK acct : acct = Account
  OBVIOUS
<1>2. PICK new : new = AllCancelled(acct)
  OBVIOUS
<1>3. AccountFits(new, seeded, known, heard, full, host.language)
  <2>1. ASSUME NEW seed, seed = seeded, NEW k, k = known,
               NEW kept, kept = heard, NEW missed, missed = full, NEW language, language = host.language
        PROVE  AccountFits(new, seed, k, kept, missed, language)
    <3>1. AccountFits(acct, seed, k, kept, missed, language) /\ seed \in [Assets -> Nat]
      BY <1>1, <2>1, SeedsAreNatural DEF PaperInv
    <3> QED
      BY <1>2, <3>1, AllCancelledKeeps
  <2> QED
    BY <2>1
<1>4. new \in Accounts /\ Becomes(new)
  BY <1>1, <1>2, <1>3 DEF AccountFits, Ledger, CancelAll
<1>5. Account' = new
  BY <1>4, BecomesIs
<1> QED
  BY <1>3, <1>4, <1>5, AccountStep DEF Becomes

(***************************************************************************)
(* What a poll leaves.                                                     *)
(***************************************************************************)
Drained(acct) ==
  [free |-> acct.free, locked |-> acct.locked, orders |-> acct.orders, events |-> <<>>]

LEMMA PolledAccount ==
  ASSUME NEW acct, NEW seed, NEW k, NEW kept, NEW missed, NEW language,
         AccountFits(acct, seed, k, kept, missed, language),
         NEW kept2, NEW missed2, Story(<<>>, acct.orders, acct.orders, kept2, missed2, language)
  PROVE  /\ AccountFits(Drained(acct), seed, Learned(k, acct.events),
                        kept2, missed2, language)
         /\ Learned(k, acct.events).orders = acct.orders
<1> DEFINE os  == acct.orders
           es  == acct.events
           new == Drained(acct)
           k2  == Learned(k, es)
<1>1. acct \in Accounts /\ os \in Seq(OrderSet) /\ es \in Seq(EventSet)
  BY DEF AccountFits, Ledger, Accounts
<1>2. /\ new.free = acct.free /\ new.locked = acct.locked /\ new.orders = os /\ new.events = <<>>
      /\ new \in Accounts
  <2>1. <<>> \in Seq(EventSet) /\ acct.free \in Amounts /\ acct.locked \in Amounts
    BY <1>1 DEF Accounts
  <2> QED
    BY <1>1, <2>1 DEF Accounts, Drained
<1> HIDE DEF new
<1>3. k2.orders = os
  <2>1. Heard(k.orders, es) = os
    BY <1>1, HeardIsAll DEF AccountFits, Story
  <2> QED
    BY <2>1 DEF Learned
<1>4. KnowsTotal(k2.total, <<>>, new)
  <2>1. k2.total = TotalOf(k.total, es)
    BY DEF Learned, TotalOf
  <2>2. TotalOf(k.total, es) = [a \in Assets |-> acct.free[a] + acct.locked[a]]
    BY DEF AccountFits, KnowsTotal
  <2>3. TotalOf(k2.total, <<>>) = k2.total
    BY EmptyPending
  <2> QED
    BY <1>2, <2>1, <2>2, <2>3 DEF KnowsTotal
<1> HIDE DEF k2
<1>5. Ledger(new, seed)
  BY <1>2 DEF AccountFits, Ledger, LocksFit, Balanced
<1>6. AccountFits(new, seed, k2, kept2, missed2, language)
  BY <1>2, <1>3, <1>4, <1>5 DEF AccountFits
<1> QED
  BY <1>3, <1>6 DEF new, k2

LEMMA BehindAFrame ==
  ASSUME NEW es \in Seq(EventSet), NEW f \in [kind : {"trade"}, price : Nat], NEW os, WordsFit(es, os)
  PROVE  LET es2 == <<f>> \o es
         IN /\ es2 \in Seq(WordSet) /\ Len(es2) = Len(es) + 1 /\ es2[1] = f
            /\ \A j \in 2..Len(es2) : es2[j].kind # "trade"
            /\ WordsFit(es2, os) /\ Mentioned(es2) = Mentioned(es)
<1> DEFINE es2 == <<f>> \o es
           n == Len(es)
<1>1. es2 \in Seq(WordSet) /\ n \in Nat /\ DOMAIN es = 1..n
  <2>1. f \in WordSet /\ es \in Seq(WordSet)
    BY DEF WordSet
  <2>2. <<f>> \in Seq(WordSet)
    BY <2>1
  <2> HIDE DEF WordSet
  <2> QED
    BY <2>1, <2>2
<1>2. /\ Len(es2) = n + 1 /\ DOMAIN es2 = 1..(n + 1) /\ es2[1] = f
      /\ \A j \in 1..n : es2[j + 1] = es[j] /\ es[j] \in EventSet
  OBVIOUS
<1> HIDE DEF es2, n
<1>3. \A j \in 2..(n + 1) : j - 1 \in 1..n /\ es2[j] = es[j - 1] /\ es2[j].kind # "trade"
  <2>1. ASSUME NEW j \in 2..(n + 1) PROVE j - 1 \in 1..n /\ (j - 1) + 1 = j
    BY <1>1
  <2>2. \A e \in EventSet : e.kind # "trade"
    BY DEF EventSet
  <2> QED
    BY <1>2, <2>1, <2>2
<1>4. \A j \in 1..(n + 1) : j = 1 \/ j \in 2..(n + 1)
  BY <1>1
<1>5. f.kind = "trade"
  OBVIOUS
<1>6. \A j \in 1..n : j + 1 \in 1..(n + 1)
  BY <1>1
<1>7. ASSUME NEW i PROVE \A l \in About(es, i) : l + 1 \in About(es2, i)
  BY <1>1, <1>2, <1>6 DEF About
<1>8. Mentioned(es2) = Mentioned(es)
  <2>1. ASSUME NEW i \in Mentioned(es2) PROVE i \in Mentioned(es)
    <3>1. PICK j \in 1..(n + 1) : es2[j].kind = "order" /\ es2[j].id = i
      BY <1>2 DEF Mentioned
    <3>2. j - 1 \in 1..n /\ es2[j] = es[j - 1]
      BY <1>2, <1>3, <1>4, <1>5, <3>1
    <3> QED
      BY <1>1, <3>1, <3>2 DEF Mentioned
  <2>2. ASSUME NEW i \in Mentioned(es) PROVE i \in Mentioned(es2)
    <3>1. PICK j \in 1..n : es[j].kind = "order" /\ es[j].id = i
      BY <1>1 DEF Mentioned
    <3>2. j + 1 \in 1..(n + 1) /\ es2[j + 1] = es[j]
      BY <1>2, <1>6
    <3> QED
      BY <1>2, <3>1, <3>2 DEF Mentioned
  <2> QED
    BY <2>1, <2>2
<1>9. WordsFit(es2, os)
  <2>1. ASSUME NEW j \in DOMAIN es2, es2[j].kind = "order"
        PROVE  /\ es2[j].id \in DOMAIN os
               /\ \/ es2[j].order = os[es2[j].id]
                  \/ /\ os[es2[j].id].status = "canceled" /\ es2[j].order = Before(os[es2[j].id])
                     /\ \E l \in About(es2, es2[j].id) : l > j
    <3>1. j \in Nat /\ j - 1 \in DOMAIN es /\ es2[j] = es[j - 1]
      BY <1>1, <1>2, <1>3, <1>4, <1>5, <2>1
    <3>2. /\ es2[j].id \in DOMAIN os
          /\ \/ es2[j].order = os[es2[j].id]
             \/ /\ os[es2[j].id].status = "canceled" /\ es2[j].order = Before(os[es2[j].id])
                /\ \E l \in About(es, es2[j].id) : l > j - 1
      BY <2>1, <3>1 DEF WordsFit
    <3>3. \A l \in About(es, es2[j].id) : l \in Nat /\ (l > j - 1 => l + 1 > j)
      BY <1>1, <3>1 DEF About
    <3> QED
      BY <1>7, <3>2, <3>3
  <2> QED
    BY <2>1 DEF WordsFit
<1> QED
  BY <1>1, <1>2, <1>3, <1>8, <1>9 DEF es2, n

\* The slots that a poll fills, and whether some of the events es found none.
LEMMA PolledSlots ==
  ASSUME NEW es \in Seq(WordSet)
  PROVE  \E m \in Nat :
           /\ Copies(Polled(es), es, m, host.language)
           /\ \/ m = Len(es)
              \/ host.language = "go" /\ Len(Polled(es)) = PollBuffer
           /\ Len(es) >= 1 => m >= 1
<1>1. PollBuffer \in Nat /\ PollBuffer >= 1 /\ Len(es) \in Nat
  BY BindingAssumption
<1>2. CASE host.language = "go"
  <2> DEFINE m == IF Len(es) > PollBuffer THEN PollBuffer ELSE Len(es)
  <2>1. Copies(CPoll(es, PollBuffer), es, m, "go") /\ Len(CPoll(es, PollBuffer)) = m
    BY <1>1, CPollCopies
  <2>2. Polled(es) = CPoll(es, PollBuffer)
    BY <1>2 DEF Polled, GoPoll
  <2>3. m \in Nat /\ (m = Len(es) \/ m = PollBuffer) /\ (Len(es) >= 1 => m >= 1)
    BY <1>1
  <2> HIDE DEF m
  <2> QED
    BY <1>2, <2>1, <2>2, <2>3
<1>3. CASE host.language # "go"
  <2>1. Copies(NodePoll(es), es, Len(es), host.language)
    <3>1. PICK language : language = host.language
      OBVIOUS
    <3>2. Copies(NodePoll(es), es, Len(es), language)
      BY <1>3, <3>1, NodePollCopies
    <3> QED
      BY <3>1, <3>2
  <2> QED
    BY <1>1, <1>3, <2>1 DEF Polled
<1> QED
  BY <1>2, <1>3

LEMMA ToldStep ==
  ASSUME PaperInv, NEW es \in Seq(WordSet), Told(es), UNCHANGED <<free, locked, orders, seeded, host>>,
         events' = <<>>, known' = Learned(known, events),
         WordsFit(es, orders), Mentioned(es) = Mentioned(events)
  PROVE  /\ AccountFits(Account, seeded, known, heard, full, host.language)'
         /\ known'.orders \in Seq(OrderSet) /\ full' \in BOOLEAN
<1>1. PICK acct : acct = Account
  OBVIOUS
<1>2. /\ acct.orders = orders /\ acct.events = events
      /\ AccountFits(acct, seeded, known, heard, full, host.language) /\ full \in BOOLEAN
      /\ acct \in Accounts /\ orders \in Seq(OrderSet)
  BY <1>1 DEF PaperInv, Account, AccountFits, Ledger, Accounts
<1>3. PICK m \in Nat : /\ Copies(Polled(es), es, m, host.language)
                       /\ \/ m = Len(es)
                          \/ host.language = "go" /\ Len(Polled(es)) = PollBuffer
  BY PolledSlots
<1>4. PICK slots : slots = Polled(es)
  OBVIOUS
<1>5. /\ heard' = Heard(heard, slots)
      /\ full' = (full \/ (host.language = "go" /\ Len(slots) = PollBuffer))
  BY <1>4 DEF Told
<1>6. full' \in BOOLEAN /\ (full' \/ (~full /\ m = Len(es)))
  BY <1>2, <1>3, <1>4, <1>5
<1>7. Story(<<>>, orders, orders, heard', full', host.language)
  <2>1. ASSUME NEW os, os = orders, NEW language, language = host.language, NEW kept, kept = heard,
               NEW missed, missed = full, NEW missed2, missed2 = full'
        PROVE  Story(<<>>, os, os, Heard(kept, slots), missed2, language)
    <3>1. WordsFit(es, os) /\ Copies(slots, es, m, language)
      BY <1>3, <1>4, <2>1
    <3>2. HeardFits(kept, os, language) /\ (missed \/ Current(kept, events, os, language))
      BY <1>2, <2>1 DEF AccountFits, Story
    <3>3. missed \/ Current(kept, es, os, language)
      BY <3>2 DEF Current
    <3>4. missed2 \/ (~missed /\ m = Len(es))
      BY <1>6, <2>1
    <3> QED
      BY <3>1, <3>2, <3>3, <3>4, StoryPolled
  <2> QED
    BY <1>5, <2>1
<1>8. Account' = Drained(acct)
  BY <1>1 DEF Account, Drained
<1>9. /\ AccountFits(Drained(acct), seeded, Learned(known, acct.events),
                     heard', full', host.language)
      /\ Learned(known, acct.events).orders = acct.orders
  <2>1. ASSUME NEW seed, seed = seeded, NEW k, k = known, NEW language, language = host.language,
               NEW kept, kept = heard, NEW missed, missed = full,
               NEW kept2, kept2 = heard', NEW missed2, missed2 = full'
        PROVE  /\ AccountFits(Drained(acct), seed, Learned(k, acct.events),
                              kept2, missed2, language)
               /\ Learned(k, acct.events).orders = acct.orders
    <3>1. AccountFits(acct, seed, k, kept, missed, language)
      BY <1>2, <2>1
    <3>2. Story(<<>>, acct.orders, acct.orders, kept2, missed2, language)
      BY <1>2, <1>7, <2>1
    <3> QED
      BY <3>1, <3>2, PolledAccount
  <2> QED
    BY <2>1
<1>10. known' = Learned(known, acct.events)
  BY <1>2
<1> QED
  BY <1>2, <1>6, <1>8, <1>9, <1>10

LEMMA PollPaperStep ==
  ASSUME PaperInv, PollPaper
  PROVE  PaperInv'
<1>1. /\ events \in Seq(EventSet) /\ WordsFit(events, orders)
  BY DEF PaperInv, AccountFits, Ledger, Accounts, Account, Story
<1>2. events \in Seq(WordSet)
  BY <1>1 DEF WordSet
<1>3. /\ Told(events) /\ UNCHANGED <<free, locked, orders, seeded, host, marks, cursor>>
      /\ events' = <<>> /\ known' = Learned(known, events)
  BY DEF PollPaper, PollEvents
<1>4. /\ AccountFits(Account, seeded, known, heard, full, host.language)'
      /\ known'.orders \in Seq(OrderSet) /\ full' \in BOOLEAN
  BY <1>1, <1>2, <1>3, ToldStep
<1>5. shown' = shown
  <2>1. PICK m \in Nat : Copies(Polled(events), events, m, host.language)
    BY <1>2, PolledSlots
  <2>2. \A j \in DOMAIN events : events[j].kind # "trade"
    <3>1. \A e \in EventSet : e.kind # "trade"
      BY DEF EventSet
    <3> QED
      BY <1>1, <3>1
  <2>3. \A j \in 1..m : j \in DOMAIN events
    BY <1>1, <2>1 DEF Copies
  <2>4. {j \in DOMAIN Polled(events) : Polled(events)[j].kind = "trade"} = {}
    BY <2>1, <2>2, <2>3 DEF Copies
  <2> QED
    BY <1>3, <2>4 DEF Told, LastPrice
<1>6. Replays' <=> Replays
  BY <1>3 DEF Replays
<1> QED
  BY <1>3, <1>4, <1>5, <1>6 DEF PaperInv

LEMMA PollReplayStep ==
  ASSUME PaperInv, PollReplay
  PROVE  PaperInv'
<1> DEFINE es == <<Frame>> \o events
<1>1. /\ events \in Seq(EventSet) /\ WordsFit(events, orders)
  BY DEF PaperInv, AccountFits, Ledger, Accounts, Account, Story
<1>2. /\ Told(es) /\ UNCHANGED <<free, locked, orders, seeded, host>>
      /\ marks' = [marks EXCEPT ![TapeSymbol] = Absorbed] /\ cursor' = cursor + 1
      /\ events' = <<>> /\ known' = Learned(known, events) /\ cursor < Len(Tape)
  BY DEF PollReplay
<1>3. Tape \in Seq(Prices) /\ TapeSymbol \in Symbols /\ Prices \subseteq Nat
  BY BindingAssumption, PaperAssumption
<1>4. cursor + 1 \in 0..Len(Tape) /\ cursor + 1 \in DOMAIN Tape
  <2>1. Len(Tape) \in Nat /\ DOMAIN Tape = 1..Len(Tape) /\ cursor \in 0..Len(Tape)
    BY <1>3 DEF PaperInv
  <2> QED
    BY <1>2, <2>1
<1>5. Frame \in [kind : {"trade"}, price : Nat] /\ Absorbed = Frame.price
  <2>1. Tape[cursor + 1] \in Nat
    <3>1. \A t \in Seq(Prices) : \A i \in DOMAIN t : t[i] \in Prices
      OBVIOUS
    <3>2. Tape[cursor + 1] \in Prices
      BY <1>3, <1>4, <3>1, Zenon
    <3> QED
      BY <1>3, <3>2
  <2>2. Frame = [kind |-> "trade", price |-> Tape[cursor + 1]]
    BY <1>4 DEF Frame, Frames
  <2> QED
    BY <2>1, <2>2 DEF Absorbed
<1>6. /\ es \in Seq(WordSet) /\ Len(es) = Len(events) + 1 /\ es[1] = Frame
      /\ \A j \in 2..Len(es) : es[j].kind # "trade"
      /\ WordsFit(es, orders) /\ Mentioned(es) = Mentioned(events)
  <2>1. ASSUME NEW f, f = Frame, NEW os, os = orders, NEW bs, bs = events
        PROVE  LET es2 == <<f>> \o bs
               IN /\ es2 \in Seq(WordSet) /\ Len(es2) = Len(bs) + 1 /\ es2[1] = f
                  /\ \A j \in 2..Len(es2) : es2[j].kind # "trade"
                  /\ WordsFit(es2, os) /\ Mentioned(es2) = Mentioned(bs)
    <3>1. f \in [kind : {"trade"}, price : Nat] /\ bs \in Seq(EventSet) /\ WordsFit(bs, os)
      BY <1>1, <1>5, <2>1
    <3> QED
      BY <3>1, BehindAFrame
  <2> QED
    BY <2>1
<1> HIDE DEF es
<1>7. /\ AccountFits(Account, seeded, known, heard, full, host.language)'
      /\ known'.orders \in Seq(OrderSet) /\ full' \in BOOLEAN
  BY <1>2, <1>6, ToldStep
<1>8. Len(events) \in Nat /\ Len(es) >= 1 /\ Len(es) \in Nat /\ 1 \in 1..Len(es)
  BY <1>1, <1>6
<1>9. shown' = Frame.price
  <2>1. PICK m \in Nat : Copies(Polled(es), es, m, host.language) /\ m >= 1
    BY <1>6, <1>8, PolledSlots
  <2>2. /\ DOMAIN Polled(es) = 1..m /\ m <= Len(es)
        /\ \A j \in 1..m : /\ Polled(es)[j].kind = es[j].kind
                           /\ es[j].kind = "trade" => Polled(es)[j].price = es[j].price
    BY <1>8, <2>1 DEF Copies
  <2>3. 1 \in 1..m /\ \A j \in 1..m : j = 1 \/ j \in 2..Len(es)
    BY <1>8, <2>1, <2>2
  <2>4. es[1].kind = "trade" /\ Polled(es)[1].price = Frame.price
    BY <1>5, <1>6, <2>2, <2>3
  <2> DEFINE trades == {j \in DOMAIN Polled(es) : Polled(es)[j].kind = "trade"}
  <2>5. trades = {1}
    BY <1>6, <2>2, <2>3, <2>4
  <2>6. Max(trades) = 1
    <3>1. trades \subseteq 1..m /\ trades # {}
      BY <2>3, <2>5
    <3>2. Max(trades) \in trades
      BY <2>1, <3>1, MaxIs
    <3> QED
      BY <2>5, <3>2
  <2>7. LastPrice(shown, Polled(es)) = Polled(es)[1].price
    BY <2>5, <2>6 DEF LastPrice
  <2> QED
    BY <1>2, <2>4, <2>7 DEF Told
<1>10. marks' \in [Symbols -> Nat] /\ marks'[TapeSymbol] = Frame.price
  BY <1>2, <1>3, <1>5 DEF PaperInv
<1> QED
  BY <1>2, <1>4, <1>7, <1>9, <1>10 DEF PaperInv

LEMMA ReconcileStep ==
  ASSUME PaperInv, Reconcile
  PROVE  PaperInv'
<1>1. /\ orders \in Seq(OrderSet) /\ HeardFits(heard, orders, host.language)
      /\ AccountFits(Account, seeded, known, heard, full, host.language)
      /\ Account.orders = orders /\ Account.events = events
  BY DEF PaperInv, AccountFits, Ledger, Accounts, Account, Story
<1> DEFINE appeared == Open(orders) \ Believed(heard)
           vanished == Believed(heard) \ Open(orders)
<1>2. heard' = [i \in DOMAIN heard \union appeared |->
                  IF i \in appeared THEN OrderView(orders[i])
                  ELSE IF i \in vanished THEN Gone ELSE heard[i]]
  BY <1>1, OpenOrdersAreAll DEF Reconcile, ReconcileOrders
<1>3. \A i : OrderView(orders[i]) = View(orders[i], host.language)
  BY DEF OrderView, View
<1> HIDE DEF appeared, vanished
<1>4. /\ DOMAIN heard' = DOMAIN heard \union appeared
      /\ \A i \in DOMAIN heard' : heard'[i] = IF i \in appeared THEN View(orders[i], host.language)
                                              ELSE IF i \in vanished THEN Gone ELSE heard[i]
  BY <1>2, <1>3
<1>5. HeardFits(heard', orders, host.language) /\ Current(heard', events, orders, host.language)
  <2>1. ASSUME NEW os, os = orders, NEW language, language = host.language, NEW kept, kept = heard,
               NEW new, new = heard', NEW es, es = events
        PROVE  HeardFits(new, os, language) /\ Current(new, es, os, language)
    <3>1. os \in Seq(OrderSet) /\ HeardFits(kept, os, language)
      BY <1>1, <2>1
    <3>2. Corrects(new, kept, os, language)
      BY <1>4, <2>1 DEF Corrects, appeared, vanished
    <3> QED
      BY <3>1, <3>2, Reconciled
  <2> QED
    BY <2>1
<1>6. /\ UNCHANGED <<marks, free, locked, orders, events, seeded, known, host, cursor, shown>>
      /\ full' = FALSE
  BY DEF Reconcile, vars, account
<1>7. AccountFits(Account, seeded, known, heard', full', host.language)
  BY <1>1, <1>5 DEF AccountFits, Story
<1>8. Account' = Account /\ (Replays' <=> Replays)
  BY <1>6 DEF Account, Replays
<1>9. AccountFits(Account', seeded', known', heard', full', host'.language)
  BY <1>6, <1>7, <1>8
<1> QED
  BY <1>6, <1>8, <1>9 DEF PaperInv

LEMMA PaperInvStep == PaperInv /\ [BindingNext]_<<vars, hostVars>> => PaperInv'
<1> SUFFICES ASSUME PaperInv, [BindingNext]_<<vars, hostVars>> PROVE PaperInv'
  OBVIOUS
<1>1. ASSUME UNCHANGED <<marks, account, seeded, known, host, cursor, shown, heard, full>> PROVE PaperInv'
  <2>1. Account' = Account
    BY <1>1 DEF Account, account
  <2>2. AccountFits(Account', seeded, known, heard, full, host.language)
    BY <2>1 DEF PaperInv
  <2> QED
    BY <1>1, <2>2, AccountStep
<1>2. ASSUME NEW s \in Symbols, NEW p \in Prices, SetMark(s, p) PROVE PaperInv'
  <2>1. /\ ~Replays /\ marks' = [marks EXCEPT ![s] = p] /\ p \in Nat
        /\ UNCHANGED <<free, locked, orders, events, seeded, known, host, cursor, shown, heard, full>>
    BY <1>2, PaperAssumption DEF SetMark, SetPrice, account, hostVars
  <2>2. Account' = Account /\ (Replays' <=> Replays)
    BY <2>1 DEF Account, Replays
  <2>3. AccountFits(Account', seeded', known', heard', full', host'.language)
    BY <2>1, <2>2 DEF PaperInv
  <2>4. marks' \in [Symbols -> Nat]
    BY <2>1 DEF PaperInv
  <2> QED
    BY <2>1, <2>2, <2>3, <2>4 DEF PaperInv
<1>3. ASSUME NEW r \in Requests, PlaceOrder(r) PROVE PaperInv'
  <2>1. CASE PlaceFills(r)
    BY <1>3, <2>1, FillStep DEF PlaceOrder
  <2>2. CASE PlaceRests(r)
    BY <1>3, <2>2, RestStep DEF PlaceOrder
  <2>3. CASE PlaceFails(r)
    BY <1>1, <1>3, <2>3 DEF PlaceOrder, PlaceFails, vars, hostVars
  <2> QED
    BY <1>3, <2>1, <2>2, <2>3 DEF PlaceOrder
<1>4. ASSUME NEW i \in 1..MaxOrders, Cancel(i) PROVE PaperInv'
  <2>1. CASE CancelOrder(i)
    BY <1>4, <2>1, CancelStep DEF Cancel
  <2>2. CASE CancelFails(i)
    BY <1>1, <1>4, <2>2 DEF Cancel, CancelFails, vars, hostVars
  <2> QED
    BY <1>4, <2>1, <2>2 DEF Cancel
<1>5. CASE CancelEverything
  BY <1>5, CancelAllStep DEF CancelEverything, hostVars
<1>6. CASE PollPaper
  BY <1>6, PollPaperStep
<1>7. CASE PollReplay
  BY <1>7, PollReplayStep
<1>8. CASE Reconcile
  BY <1>8, ReconcileStep
<1>9. CASE Tick
  BY <1>1, <1>9 DEF Tick, vars
<1>10. CASE Watch
  BY <1>10, CancelAllStep DEF Watch
<1>11. CASE UNCHANGED <<vars, hostVars>>
  BY <1>1, <1>11 DEF vars, hostVars
<1> QED
  BY <1>2, <1>3, <1>4, <1>5, <1>6, <1>7, <1>8, <1>9, <1>10, <1>11 DEF BindingNext

THEOREM PaperInvariant == BindingSpec => []PaperInv
<1>1. BindingInit => PaperInv
  BY PaperInvHolds
<1>2. PaperInv /\ [BindingNext]_<<vars, hostVars>> => PaperInv'
  BY PaperInvStep
<1> QED
  BY <1>1, <1>2, PTL DEF BindingSpec

(***************************************************************************)
(* Whoever calls, over paper or over a tape: what is locked is what the    *)
(* open orders reserve (paper.rs:248-257, 404-412).                        *)
(***************************************************************************)
THEOREM LocksAreReservations == BindingSpec => []LockedIsReserved
<1>1. PaperInv => LockedIsReserved
  <2> SUFFICES ASSUME PaperInv PROVE LockedIsReserved
    OBVIOUS
  <2>1. \A a \in Assets : locked[a] = ReservedIn(orders, a)
    BY DEF PaperInv, AccountFits, Ledger, LocksFit, Account
  <2> QED
    BY <2>1, Zenon DEF LockedIsReserved, ReservedIn, Reserves, OpenIn
<1> QED
  BY <1>1, PaperInvariant, PTL

(***************************************************************************)
(* No money appears, vanishes or is overdrawn, whatever the fee and the    *)
(* slippage, up to the whole (paper.rs:209-225).                           *)
(***************************************************************************)
THEOREM NoMoneyAppears == BindingSpec => []LedgerBalances
<1>1. PaperInv => LedgerBalances
  <2> SUFFICES ASSUME PaperInv PROVE LedgerBalances
    OBVIOUS
  <2>1. \A a \in Assets :
          /\ free[a] >= 0
          /\ free[a] + locked[a] = seeded[a] + Brought(orders, a) - Spent(orders, a)
    BY DEF PaperInv, AccountFits, Ledger, Balanced, Account
  <2> QED
    BY <2>1, Zenon DEF LedgerBalances, Brought, Spent, Gains, Costs, BoughtIn, SpentIn, FilledOf
<1> QED
  BY <1>1, PaperInvariant, PTL

(***************************************************************************)
(* The polled events and those pending tell every order's state and every  *)
(* asset's total, however long the history (paper.rs:209-257, 404-412).    *)
(***************************************************************************)
THEOREM NothingGoesUntold == BindingSpec => []EventsTellAll
<1>1. PaperInv => EventsTellAll
  <2> SUFFICES ASSUME PaperInv PROVE EventsTellAll
    OBVIOUS
  <2>1. /\ orders \in Seq(OrderSet) /\ events \in Seq(EventSet)
        /\ WordsFit(events, orders) /\ KnowsOrders(known.orders, events, orders)
        /\ TotalOf(known.total, events) = [a \in Assets |-> free[a] + locked[a]]
    BY DEF PaperInv, AccountFits, Ledger, Accounts, Story, KnowsTotal, Account
  <2>2. Heard(known.orders, events) = orders
    <3>1. ASSUME NEW es, es = events, NEW os, os = orders, NEW k, k = known.orders
          PROVE  Heard(k, es) = os
      BY <2>1, <3>1, HeardIsAll
    <3> QED
      BY <3>1
  <2> QED
    BY <2>1, <2>2 DEF EventsTellAll, Learned, TotalOf
<1> QED
  BY <1>1, PaperInvariant, PTL

(***************************************************************************)
(* A caller in any language, through a buffer of any size, knows its       *)
(* orders unless a poll filled the buffer and it has not reconciled since  *)
(* (c/src/lib.rs:1141, reconcile.rs).                                      *)
(***************************************************************************)
THEOREM OrdersAreKnown == BindingSpec => []CallersKnowTheirOrders
<1>1. PaperInv => CallersKnowTheirOrders
  <2> SUFFICES ASSUME PaperInv, ~full PROVE CallersKnowTheirOrders
    BY DEF CallersKnowTheirOrders
  <2> DEFINE slots == IF host.language = "go" THEN CPoll(events, Len(events)) ELSE NodePoll(events)
  <2>1. /\ orders \in Seq(OrderSet) /\ events \in Seq(EventSet) /\ WordsFit(events, orders)
        /\ HeardFits(heard, orders, host.language) /\ Current(heard, events, orders, host.language)
    BY DEF PaperInv, AccountFits, Ledger, Accounts, Story, Account
  <2>2. events \in Seq(WordSet) /\ Len(events) \in Nat
    BY <2>1 DEF WordSet
  <2>3. Copies(slots, events, Len(events), host.language)
    <3>1. ASSUME NEW es, es = events, NEW language, language = host.language
          PROVE  Copies(IF language = "go" THEN CPoll(es, Len(es)) ELSE NodePoll(es),
                        es, Len(es), language)
      <4>1. es \in Seq(WordSet) /\ Len(es) \in Nat
        BY <2>2, <3>1
      <4>2. CASE language = "go"
        <5>1. Copies(CPoll(es, Len(es)), es, IF Len(es) > Len(es) THEN Len(es) ELSE Len(es), "go")
          BY <4>1, CPollCopies
        <5> QED
          BY <4>2, <5>1
      <4>3. CASE language # "go"
        BY <4>1, <4>3, NodePollCopies
      <4> QED
        BY <4>2, <4>3
    <3> QED
      BY <3>1
  <2> HIDE DEF slots
  <2>4. /\ HeardFits(Heard(heard, slots), orders, host.language)
        /\ Current(Heard(heard, slots), <<>>, orders, host.language)
    <3>1. ASSUME NEW es, es = events, NEW os, os = orders, NEW language, language = host.language,
                 NEW kept, kept = heard, NEW got, got = slots
          PROVE  /\ HeardFits(Heard(kept, got), os, language)
                 /\ Current(Heard(kept, got), <<>>, os, language)
      <4>1. /\ es \in Seq(EventSet) /\ WordsFit(es, os) /\ Copies(got, es, Len(es), language)
            /\ HeardFits(kept, os, language) /\ Current(kept, es, os, language)
        BY <2>1, <2>3, <3>1
      <4> QED
        BY <4>1, HeardAfter, HeardIsCurrent
    <3> QED
      BY <3>1
  <2>5. PICK k : k = Heard(heard, slots)
    OBVIOUS
  <2>6. /\ Believed(k) = Open(orders)
        /\ \A i \in DOMAIN k : k[i] # Gone => k[i] = View(orders[i], host.language)
    <3>1. ASSUME NEW os, os = orders, NEW language, language = host.language
          PROVE  /\ Believed(k) = Open(os)
                 /\ \A i \in DOMAIN k : k[i] # Gone => k[i] = View(os[i], language)
      <4>1. os \in Seq(OrderSet) /\ HeardFits(k, os, language) /\ Current(k, <<>>, os, language)
        BY <2>1, <2>4, <2>5, <3>1
      <4> QED
        BY <4>1, CurrentMeans
    <3> QED
      BY <3>1
  <2>7. \A o : OrderView(o) = View(o, host.language)
    BY DEF OrderView, View
  <2> QED
    BY <2>5, <2>6, <2>7, Zenon DEF CallersKnowTheirOrders, slots
<1> QED
  BY <1>1, PaperInvariant, PTL

(***************************************************************************)
(* Whatever the tape: a replay fills at the price that its caller was      *)
(* shown last (replay.rs:104-115).                                         *)
(***************************************************************************)
THEOREM ReplaysKeepTheirPlace == BindingSpec => []ReplayTradesAtShownPrices
<1>1. PaperInv => ReplayTradesAtShownPrices
  BY DEF PaperInv, ReplayTradesAtShownPrices
<1> QED
  BY <1>1, PaperInvariant, PTL
=============================================================================
