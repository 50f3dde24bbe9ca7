------------------------------ MODULE Bindings -------------------------------
(***************************************************************************)
(* A caller of the simulated exchange, in Rust or through the binding of   *)
(* another language, over marks that it sets itself or over a recorded     *)
(* tape (exchanges/replay.rs).  It keeps what the polled events tell of    *)
(* its orders, reconciles that with the list of open orders                *)
(* (reconcile.rs), and may feed a dead man's switch (deadman.rs).          *)
(*                                                                         *)
(* "go" goes through the C interface, whose buffers have a capacity, as C# *)
(* and Java do; "node" is compiled with the library and tells the same as  *)
(* Python and Wasm do.                                                     *)
(*                                                                         *)
(* A definition named X_Fault precedes X and is X with a plausible fault   *)
(* in the code: the properties are tested with it.                         *)
(***************************************************************************)
EXTENDS PaperExchange

CONSTANTS Hosts,          \* language, backend and whether a switch is fed
          Tape,           \* the recorded prices of a replay
          TapeSymbol,     \* their symbol
          PollBuffer,     \* the capacity that a Go caller polls with
          ListBuffer,     \* and the one that Go lists orders with at first
          Timeout,        \* of the switch
          MaxTime,        \* bound: the clock
          MaxBoundOrders  \* bound: the orders of any caller but the plain Rust one

ASSUME BindingAssumption ==
  /\ \A h \in Hosts : {"language", "backend", "watched"} \subseteq DOMAIN h
  /\ {PollBuffer, ListBuffer, Timeout, MaxTime, MaxBoundOrders} \subseteq Nat \ {0}
  /\ Tape \in Seq(Prices) /\ TapeSymbol \in Symbols

VARIABLES host,      \* never changes
          cursor,    \* of the tape: frames replayed
          shown,     \* the last price that a poll gave the caller
          heard,     \* what the caller keeps of each order that it heard of
          full,      \* a poll filled its buffer since the last reconciliation
          now,       \* the clock
          deadline   \* of the switch, 0 while it is disarmed

hostVars == <<host, cursor, shown, heard, full, now, deadline>>
clock    == <<now, deadline>>

Replays == host.backend = "replay"
Plain   == host = [language |-> "rust", backend |-> "paper", watched |-> FALSE]

BindingInit ==
  /\ Init
  /\ host \in Hosts
  /\ cursor = 0 /\ shown = NoPrice /\ heard = <<>> /\ full = FALSE
  /\ now = 0 /\ deadline = 0

(***************************************************************************)
(* What the bindings make of an order and of an event; a Rust caller has   *)
(* all that Node does.  C's order has no market.  Balances are left out: C *)
(* does not tell them.                                                     *)
(***************************************************************************)
FilledPart(o) == IF o.status = "filled" THEN o.qty ELSE 0

COrder(o) ==
  [side |-> o.side, status |-> o.status, quantity |-> o.qty,
   filled |-> FilledPart(o), price |-> o.price, average |-> o.average]
NodeOrder(o) ==
  [side |-> o.side, status |-> o.status, quantity |-> o.qty, market |-> o.symbol,
   filled |-> FilledPart(o), price |-> o.price, average |-> o.average]

OrderView(o) == IF host.language = "go" THEN COrder(o) ELSE NodeOrder(o)

\* Any kind but a trade and an order tells only that it is.
CEvent(e) ==
  CASE e.kind = "order" -> [kind |-> "order", id |-> e.id, order |-> COrder(e.order)]
    [] e.kind = "trade" -> [kind |-> "trade", price |-> e.price]
    [] OTHER            -> [kind |-> e.kind]
NodeEvent(e) ==
  CASE e.kind = "order" -> [kind |-> "order", id |-> e.id, order |-> NodeOrder(e.order)]
    [] e.kind = "trade" -> [kind |-> "trade", price |-> e.price]
    [] OTHER            -> [kind |-> e.kind]

\* Every poll takes all the events there are; C copies as many as fit.
CPoll(es, capacity) ==
  [i \in 1..(IF Len(es) > capacity THEN capacity ELSE Len(es)) |-> CEvent(es[i])]
GoPoll(es)   == CPoll(es, PollBuffer)
NodePoll(es) == [i \in DOMAIN es |-> NodeEvent(es[i])]

Polled(es) == IF host.language = "go" THEN GoPoll(es) ELSE NodePoll(es)

(***************************************************************************)
(* Orders.  Two short calls place what has no other field; the calls for a *)
(* full order take any request.                                            *)
(***************************************************************************)
PlaceOrder(r) ==
  /\ Plain \/ Len(orders) < MaxBoundOrders
  /\ PlaceFills(r) \/ PlaceRests(r) \/ PlaceFails(r)
  /\ UNCHANGED hostVars

Cancel(i) ==
  /\ CancelOrder(i) \/ CancelFails(i)
  /\ UNCHANGED hostVars

\* Of the bindings only those over paper set a mark, and none cancels all.
SetMark(s, p) == ~Replays /\ SetPrice(s, p) /\ UNCHANGED hostVars
CancelEverything == Plain /\ CancelAll /\ UNCHANGED hostVars

(***************************************************************************)
(* A poll.  A replay goes on by one frame, which sets the mark and comes   *)
(* first; then come the events of the orders placed before.                *)
(***************************************************************************)
LastPrice(p, es) ==
  LET trades == {j \in DOMAIN es : es[j].kind = "trade"}
  IN IF trades = {} THEN p ELSE es[Max(trades)].price

\* The frames that a binding makes of a list of prices.
Frames == [i \in DOMAIN Tape |-> [kind |-> "trade", price |-> Tape[i]]]
Frame  == Frames[cursor + 1]

\* The mark that a replayed frame sets.
Absorbed_Fault == Tape[IF cursor + 2 > Len(Tape) THEN cursor + 1 ELSE cursor + 2]
Absorbed == Frame.price

Told(es) ==
  LET slots == Polled(es)
  IN  /\ heard' = Heard(heard, slots)
      /\ shown' = LastPrice(shown, slots)
      /\ full' = (full \/ (host.language = "go" /\ Len(slots) = PollBuffer))

Heartbeat == deadline' = IF host.watched THEN now + Timeout ELSE 0

PollPaper ==
  /\ ~Replays \/ cursor = Len(Tape)
  /\ PollEvents /\ Told(events) /\ Heartbeat
  /\ UNCHANGED <<host, cursor, now>>

PollReplay ==
  /\ Replays /\ cursor < Len(Tape)
  /\ marks' = [marks EXCEPT ![TapeSymbol] = Absorbed]
  /\ Told(<<Frame>> \o events)
  /\ known' = Learned(known, events) /\ events' = <<>>
  /\ cursor' = cursor + 1
  /\ Heartbeat
  /\ UNCHANGED <<free, locked, orders, seeded, host, now>>

(***************************************************************************)
(* Reconciliation with the list of open orders.  C returns how many there  *)
(* are, whatever fits, and Go, C# and Java ask again with room for all.    *)
(***************************************************************************)
Fitting(room) ==
  {i \in Open(orders) : Cardinality({j \in Open(orders) : j <= i}) <= room}

COpenOrders_Fault(room) ==
  [total |-> Cardinality(Fitting(room)), ids |-> Fitting(room)]
COpenOrders(room) ==
  [total |-> Cardinality(Open(orders)), ids |-> Fitting(room)]

GoOpenOrders ==
  LET first == COpenOrders(ListBuffer)
  IN IF first.total > ListBuffer THEN COpenOrders(first.total).ids ELSE first.ids

NodeOpenOrders == Open(orders)

OpenOrders == IF host.language = "go" THEN GoOpenOrders ELSE NodeOpenOrders

ReconcileOrders(local, venue) ==
  [appeared |-> venue \ local, vanished |-> local \ venue, still_open |-> local \cap venue]

Gone == [status |-> "gone"]
Believed(k) == {i \in DOMAIN k : k[i].status = "new"}

\* What appeared is looked at, and what vanished is no longer waited for.
Reconcile ==
  /\ full
  /\ LET r == ReconcileOrders(Believed(heard), OpenOrders)
     IN heard' = [i \in DOMAIN heard \union r.appeared |->
                    IF i \in r.appeared THEN OrderView(orders[i])
                    ELSE IF i \in r.vanished THEN Gone ELSE heard[i]]
  /\ full' = FALSE
  /\ UNCHANGED <<vars, host, cursor, shown, clock>>

(***************************************************************************)
(* The switch: a watcher looks at it whenever the clock has moved, and has *)
(* every order cancelled once it expired.                                  *)
(***************************************************************************)
IsExpired == deadline # 0 /\ now >= deadline

Tick ==
  /\ host.watched /\ ~IsExpired /\ now < MaxTime
  /\ now' = now + 1
  /\ UNCHANGED <<vars, host, cursor, shown, heard, full, deadline>>

Watch ==
  /\ host.watched /\ IsExpired
  /\ CancelAll
  /\ deadline' = 0
  /\ UNCHANGED <<host, cursor, shown, heard, full, now>>

BindingNext ==
  \/ \E s \in Symbols, p \in Prices : SetMark(s, p)
  \/ \E r \in Requests : PlaceOrder(r)
  \/ \E i \in 1..MaxOrders : Cancel(i)
  \/ CancelEverything
  \/ PollPaper \/ PollReplay \/ Reconcile
  \/ Tick \/ Watch

BindingSpec == BindingInit /\ [][BindingNext]_<<vars, hostVars>>
-----------------------------------------------------------------------------
(* Properties *)

(***************************************************************************)
(* A caller knows which orders are open, and how every order stands that   *)
(* it has not given up, once it applies the events still pending: unless a *)
(* C poll filled its buffer (c/src/lib.rs:1141 drops the rest) and it has  *)
(* not reconciled since.                                                   *)
(***************************************************************************)
CallersKnowTheirOrders ==
  ~full =>
    LET k == Heard(heard, IF host.language = "go" THEN CPoll(events, Len(events)) ELSE NodePoll(events))
    IN /\ Believed(k) = Open(orders)
       /\ \A i \in DOMAIN k : k[i] # Gone => k[i] = OrderView(orders[i])

(***************************************************************************)
(* A replay never trades ahead of its tape: the mark that orders fill at   *)
(* is the last price that its caller was shown, whatever language it       *)
(* speaks and however small its buffer (replay.rs:104-115).                *)
(***************************************************************************)
ReplayTradesAtShownPrices == Replays => marks[TapeSymbol] = shown
=============================================================================
