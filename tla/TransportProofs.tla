-------------------------- MODULE TransportProofs --------------------------
(***************************************************************************)
(* What a client sends on, and what it is sent.                            *)
(*                                                                         *)
(* ThrottledTransport, for any number of callers, retries, windows and     *)
(* waits: its types (with the charge within the capacity), the sliding     *)
(* budget, at-most-once execution of writes, the truth of definite         *)
(* answers, and that the layer implements OrderOutcome.  None of the       *)
(* safety properties is inductive.  WriteInv says why they hold: until its *)
(* last send returns, a write has had no effect and has no copy on the     *)
(* wire that it is not waiting for, because it is repeated only after a    *)
(* refusal.                                                                *)
(*                                                                         *)
(* VenueFeeds, for any symbols, clients, calls, frames and drops: what a   *)
(* poll tells is what happened, what was granted is carried again after a  *)
(* drop, no ping is left unanswered, and a tick that can be built stays    *)
(* so.  FeedsInv says why: every subscription that a socket carries is     *)
(* known to the tables that its frames are read with, and a socket         *)
(* receives only what its subscriptions asked for.                         *)
(***************************************************************************)
EXTENDS ThrottledTransport, VenueFeeds, SumTheorems, TLAPS

\* Before the send whose outcome is returned: nothing happened, nothing travels.
Untouched(w) ==
  /\ effects[w] = 0
  /\ strays[w] = 0
  /\ flight[w] = "none"
  /\ result[w] = "none"

\* During a send: the one copy is the one waited for.
OneCopyOut(w) ==
  /\ strays[w] = 0
  /\ result[w] = "none"
  /\ effects[w] <= 1
  /\ flight[w] \in {"travelling", "rejected", "refused"} => effects[w] = 0
  /\ flight[w] = "accepted" => effects[w] = 1
  /\ flight[w] # "none"

\* After the return: carried out once, or possibly still, or never.
Settled(w) ==
  /\ flight[w] = "none"
  /\ result[w] # "none"
  /\ effects[w] + strays[w] <= 1
  /\ result[w] = "accepted" => effects[w] = 1
  /\ result[w] \in {"rejected", "refused"} => effects[w] = 0 /\ strays[w] = 0

WriteInv ==
  \A w \in Writes :
    /\ pc[w] \notin {"sent", "done"} => Untouched(w)
    /\ pc[w] = "sent" => OneCopyOut(w)
    /\ pc[w] = "done" => Settled(w)

\* An await_budget never waits more often than it may: it starts at no waits and
\* asks the limiter again only while waits are left.
WaitsInv ==
  \A c \in Calls :
    /\ pc[c] \in {"idle", "cooling"} => waits[c] = 0
    /\ pc[c] = "budget" => waits[c] <= MaxRetries
    /\ pc[c] = "sent" => flight[c] # "none"

-----------------------------------------------------------------------------
(* The limiter's operations keep its types and its capacity. *)

\* Each operation of the limiter keeps its types.
LEMMA AdmitType ==
  ASSUME LimiterTypeOK, NEW weight \in Weights, Admit(weight)
  PROVE  LimiterTypeOK'
BY LimiterAssumption DEF LimiterTypeOK, Admit, Fits, RolledUsed, RolledLeft

\* Likewise a throttled request,
LEMMA ThrottleType ==
  ASSUME LimiterTypeOK, NEW weight \in Weights, Throttle(weight)
  PROVE  LimiterTypeOK' /\ AdvisedWait \in Nat
BY LimiterAssumption DEF LimiterTypeOK, Throttle, AdvisedWait, RolledUsed, RolledLeft

\* a cool-off noted,
LEMMA NoteType ==
  ASSUME LimiterTypeOK, NEW wait \in Nat, NoteRateLimited(wait)
  PROVE  LimiterTypeOK'
BY DEF LimiterTypeOK, NoteRateLimited

\* the passing of time,
LEMMA TickType ==
  ASSUME LimiterTypeOK, LimiterTick
  PROVE  LimiterTypeOK'
BY LimiterAssumption DEF LimiterTypeOK, LimiterTick

\* and a step that leaves the limiter alone.
LEMMA LimiterStutter ==
  ASSUME LimiterTypeOK, UNCHANGED limiterVars
  PROVE  LimiterTypeOK'
BY DEF LimiterTypeOK, limiterVars

\* The types, and the bound on budget waits they rest on, always hold.
LEMMA TypeInvariant == Spec => [](TypeOK /\ WaitsInv)
<1> USE LimiterAssumption, CallsAssumption
<1>1. Init => TypeOK /\ WaitsInv
  BY DEF Init, TypeOK, LimiterInit, LimiterTypeOK, PCs, Answers, WaitsInv
<1>2. TypeOK /\ WaitsInv /\ [Next]_vars => (TypeOK /\ WaitsInv)'
  <2> SUFFICES ASSUME TypeOK, WaitsInv, [Next]_vars PROVE TypeOK' /\ WaitsInv'
    OBVIOUS
  <2> USE DEF TypeOK, PCs, Answers, WaitsInv
  <2>1. ASSUME NEW c \in Calls, Begin(c) PROVE TypeOK' /\ WaitsInv'
    BY <2>1, LimiterStutter DEF Begin, configVars
  <2>2. ASSUME NEW c \in Calls, Acquire(c) PROVE TypeOK' /\ WaitsInv'
    BY <2>2, AdmitType DEF Acquire, configVars
  <2>3. ASSUME NEW c \in Calls, BudgetExhausted(c) PROVE TypeOK' /\ WaitsInv'
    <3>1. LimiterTypeOK' /\ AdvisedWait \in Nat
      BY <2>3, ThrottleType DEF BudgetExhausted
    <3>2. waits[c] + 1 \in 0 .. MaxRetries + 1
      BY <2>3 DEF BudgetExhausted
    <3> QED
      BY <2>3, <3>1, <3>2 DEF BudgetExhausted, configVars
  <2>4. ASSUME NEW c \in Calls, WakeFromBudget(c) PROVE TypeOK' /\ WaitsInv'
    BY <2>4, LimiterStutter DEF WakeFromBudget, configVars
  <2>5. ASSUME NEW c \in Calls, Send(c) PROVE TypeOK' /\ WaitsInv'
    BY <2>5, LimiterStutter DEF Send, configVars
  <2>6. ASSUME NEW c \in Calls, ReturnResponse(c) PROVE TypeOK' /\ WaitsInv'
    BY <2>6, LimiterStutter DEF ReturnResponse, Return, configVars
  <2>7. ASSUME NEW c \in Calls, HandleRefusal(c) PROVE TypeOK' /\ WaitsInv'
    <3>1. PICK wait \in RetryAfters \cup {DefaultCoolOff} :
            /\ IF hasBudget THEN NoteRateLimited(wait) ELSE UNCHANGED limiterVars
            /\ (ShouldRetry(c) /\ Repeat(c, wait)) \/ Return(c, "refused")
      BY <2>7, Zenon DEF HandleRefusal
    <3>2. LimiterTypeOK'
      BY <3>1, NoteType, LimiterStutter
    <3>3. CASE ShouldRetry(c) /\ Repeat(c, wait)
      BY <2>7, <3>1, <3>2, <3>3 DEF HandleRefusal, Repeat, ShouldRetry, configVars
    <3>4. CASE Return(c, "refused")
      BY <2>7, <3>1, <3>2, <3>4 DEF HandleRefusal, Return, configVars
    <3> QED
      BY <3>1, <3>3, <3>4
  <2>8. ASSUME NEW c \in Calls, TransportError(c) PROVE TypeOK' /\ WaitsInv'
    <3>1. LimiterTypeOK'
      BY <2>8, LimiterStutter DEF TransportError
    <3>2. /\ strays' \in [Calls -> Nat]
          /\ flight' \in [Calls -> {"none", "travelling"} \cup Answers]
      BY <2>8 DEF TransportError
    <3>3. \/ \E delay \in 0 .. DelayMs(attempt[c]) : ShouldRetry(c) /\ Repeat(c, delay)
          \/ Return(c, "timeout")
      BY <2>8, Zenon DEF TransportError
    <3>4. ASSUME NEW delay \in 0 .. DelayMs(attempt[c]), ShouldRetry(c), Repeat(c, delay)
          PROVE  TypeOK' /\ WaitsInv'
      <4>1. delay \in Nat
        BY <3>4
      <4> QED
        BY <2>8, <3>1, <3>2, <3>4, <4>1 DEF TransportError, Repeat, ShouldRetry, configVars
    <3>5. CASE Return(c, "timeout")
      BY <2>8, <3>1, <3>2, <3>5 DEF TransportError, Return, configVars
    <3> QED
      BY <3>3, <3>4, <3>5
  <2>9. ASSUME NEW c \in Calls, WakeFromBackoff(c) PROVE TypeOK' /\ WaitsInv'
    BY <2>9, LimiterStutter DEF WakeFromBackoff, configVars
  <2>10. ASSUME NEW c \in Calls, VenueAnswers(c) PROVE TypeOK' /\ WaitsInv'
    BY <2>10, LimiterStutter DEF VenueAnswers, configVars
  <2>11. ASSUME NEW c \in Calls, StrayArrives(c) PROVE TypeOK' /\ WaitsInv'
    BY <2>11, LimiterStutter DEF StrayArrives, configVars
  <2>12. ASSUME Tick PROVE TypeOK' /\ WaitsInv'
    BY <2>12, TickType DEF Tick, configVars
  <2>13. ASSUME UNCHANGED vars PROVE TypeOK' /\ WaitsInv'
    BY <2>13, LimiterStutter DEF vars, configVars, callVars
  <2> QED
    BY <2>1, <2>2, <2>3, <2>4, <2>5, <2>6, <2>7, <2>8, <2>9, <2>10, <2>11, <2>12, <2>13
    DEF Next, Progress
<1> QED
  BY <1>1, <1>2, PTL DEF Spec

\* Every variable keeps its type and the charge never exceeds the capacity
\* (ratelimiter.rs:78-83), for every capacity, window and set of callers.
THEOREM TypeCorrect == Spec => []TypeOK
BY TypeInvariant, PTL

-----------------------------------------------------------------------------
(* The budget over any interval. *)

\* Of a record of the past, what was admitted in the k ticks up to now.
SumOf(past, k) == SumFunctionOnSet(past, 0 .. (k - 1))
Lately(k) == SumOf(admitted, k)

(***************************************************************************)
(* The window in force is charged with all that was admitted since it was  *)
(* opened, which was the tick after the last one of the windows before,    *)
(* and of those no more than one meets the last `Window` ticks.            *)
(***************************************************************************)
Age == Window - windowLeft

BudgetInv ==
  /\ windowLeft = 0 => admitted[0] = 0 /\ Lately(Window) <= Capacity
  /\ windowLeft > 0 => /\ Lately(Age + 1) <= used
                       /\ Lately(Window) <= Capacity + Lately(Age + 1)

\* One tick more adds what was admitted then.
LEMMA SumOfGrows ==
  ASSUME NEW past \in [0 .. Window - 1 -> Nat]
  PROVE  /\ SumOf(past, 0) = 0
         /\ \A k \in 0 .. Window : SumOf(past, k) \in Int
         /\ \A k \in 0 .. (Window - 1) : SumOf(past, k + 1) = SumOf(past, k) + past[k]
<1>1. ASSUME NEW k \in 0 .. (Window - 1)
      PROVE  /\ SumOf(past, k) \in Int /\ SumOf(past, k + 1) \in Int
             /\ SumOf(past, k + 1) = SumOf(past, k) + past[k]
  <2>1. k \in Nat /\ (k + 1) - 1 = k /\ \A i \in 0 .. k : past[i] \in Int
    BY LimiterAssumption
  <2>2. /\ SumFunctionOnSet(past, 0 .. k) \in Int
        /\ SumFunctionOnSet(past, 0 .. (k - 1)) \in Int
        /\ SumFunctionOnSet(past, 0 .. k) = past[k] + SumFunctionOnSet(past, 0 .. (k - 1))
    BY <2>1, SumUpTo
  <2>3. past[k] \in Int
    BY <2>1
  <2> QED
    BY <2>1, <2>2, <2>3 DEF SumOf
<1>2. SumOf(past, 0) = 0
  <2>1. 0 .. (0 - 1) = {}
    OBVIOUS
  <2> QED
    BY <2>1, SumEmpty DEF SumOf
<1>3. ASSUME NEW k \in 0 .. Window PROVE SumOf(past, k) \in Int
  <2>1. CASE k = 0
    BY <1>2, <2>1
  <2>2. CASE k # 0
    <3>1. k - 1 \in 0 .. (Window - 1) /\ (k - 1) + 1 = k
      BY <2>2, LimiterAssumption
    <3> QED
      BY <1>1, <3>1
  <2> QED
    BY <2>1, <2>2
<1> QED
  BY <1>1, <1>2, <1>3

\* So does the past of the limiter, before and after a step.
LEMMA LatelyGrows ==
  ASSUME LimiterTypeOK, LimiterTypeOK'
  PROVE  /\ Lately(0) = 0 /\ Lately(0)' = 0
         /\ \A k \in 0 .. Window : Lately(k) \in Int /\ Lately(k)' \in Int
         /\ \A k \in 0 .. (Window - 1) :
              /\ Lately(k + 1) = Lately(k) + admitted[k] /\ admitted[k] \in Nat
              /\ Lately(k + 1)' = Lately(k)' + admitted'[k]
<1>1. /\ admitted \in [0 .. Window - 1 -> Nat] /\ admitted' \in [0 .. Window - 1 -> Nat]
      /\ \A k : Lately(k) = SumOf(admitted, k) /\ Lately(k)' = SumOf(admitted', k)
  BY DEF LimiterTypeOK, Lately, SumOf
<1> HIDE DEF Lately, SumOf
<1> QED
  BY <1>1, SumOfGrows

\* What is admitted now counts in every interval that ends now.
LEMMA LatelyAdmits ==
  ASSUME LimiterTypeOK, LimiterTypeOK', NEW weight \in Nat,
         admitted' = [admitted EXCEPT ![0] = @ + weight]
  PROVE  \A k \in 1 .. Window : Lately(k)' = Lately(k) + weight
<1> DEFINE T == {k \in Nat : k < Window => Lately(k + 1)' = Lately(k + 1) + weight}
<1>1. \A k \in 0 .. (Window - 1) :
        /\ Lately(k) \in Int /\ Lately(k)' \in Int
        /\ admitted[k] \in Nat /\ admitted'[k] = IF k = 0 THEN admitted[0] + weight ELSE admitted[k]
        /\ Lately(k + 1) = Lately(k) + admitted[k] /\ Lately(k + 1)' = Lately(k)' + admitted'[k]
  <2>1. /\ \A k \in 0 .. Window : Lately(k) \in Int /\ Lately(k)' \in Int
        /\ \A k \in 0 .. (Window - 1) :
             Lately(k + 1) = Lately(k) + admitted[k] /\ Lately(k + 1)' = Lately(k)' + admitted'[k]
    BY LatelyGrows
  <2>2. \A k \in 0 .. (Window - 1) : k \in 0 .. Window /\ admitted[k] \in Nat
    BY LimiterAssumption DEF LimiterTypeOK
  <2> QED
    BY <2>1, <2>2, LimiterAssumption DEF LimiterTypeOK
<1>2. 0 \in T
  <2>1. 0 \in 0 .. (Window - 1) /\ 0 + 1 = 1
    BY LimiterAssumption
  <2>2. Lately(0) = 0 /\ Lately(0)' = 0
    BY LatelyGrows
  <2> QED
    BY <1>1, <2>1, <2>2
<1>3. ASSUME NEW k \in T PROVE k + 1 \in T
  <2> SUFFICES ASSUME k + 1 < Window PROVE Lately((k + 1) + 1)' = Lately((k + 1) + 1) + weight
    OBVIOUS
  <2>1. k + 1 \in 0 .. (Window - 1) /\ k < Window
    BY LimiterAssumption
  <2>2. Lately(k + 1)' = Lately(k + 1) + weight
    BY <2>1
  <2> QED
    BY <1>1, <2>1, <2>2
<1>4. T = Nat
  <2> HIDE DEF T
  <2> QED
    BY <1>2, <1>3, InductionOverNat DEF T
<1> QED
  <2> SUFFICES ASSUME NEW k \in 1 .. Window PROVE Lately(k)' = Lately(k) + weight
    OBVIOUS
  <2>1. k - 1 \in Nat /\ k - 1 < Window /\ (k - 1) + 1 = k
    BY LimiterAssumption
  <2>2. k - 1 \in T
    BY <1>4, <2>1
  <2> QED
    BY <2>1, <2>2

\* A tick makes every interval one longer.
LEMMA LatelyTicks ==
  ASSUME LimiterTypeOK, LimiterTypeOK', LimiterTick
  PROVE  \A k \in 0 .. (Window - 1) : Lately(k + 1)' = Lately(k)
<1> DEFINE T == {k \in Nat : k < Window => Lately(k + 1)' = Lately(k)}
<1>1. \A k \in 0 .. (Window - 1) :
        /\ Lately(k) \in Int /\ Lately(k)' \in Int
        /\ Lately(k + 1) = Lately(k) + admitted[k] /\ Lately(k + 1)' = Lately(k)' + admitted'[k]
        /\ admitted[k] \in Nat /\ admitted'[k] = IF k = 0 THEN 0 ELSE admitted[k - 1]
  <2>1. /\ \A k \in 0 .. Window : Lately(k) \in Int /\ Lately(k)' \in Int
        /\ \A k \in 0 .. (Window - 1) :
             Lately(k + 1) = Lately(k) + admitted[k] /\ Lately(k + 1)' = Lately(k)' + admitted'[k]
    BY LatelyGrows
  <2>2. \A k \in 0 .. (Window - 1) : k \in 0 .. Window /\ admitted[k] \in Nat
    BY LimiterAssumption DEF LimiterTypeOK
  <2> QED
    BY <2>1, <2>2, LimiterAssumption DEF LimiterTypeOK, LimiterTick
<1>2. 0 \in T
  <2>1. 0 \in 0 .. (Window - 1) /\ 0 + 1 = 1
    BY LimiterAssumption
  <2>2. Lately(0) = 0 /\ Lately(0)' = 0
    BY LatelyGrows
  <2> QED
    BY <1>1, <2>1, <2>2
<1>3. ASSUME NEW k \in T PROVE k + 1 \in T
  <2> SUFFICES ASSUME k + 1 < Window PROVE Lately((k + 1) + 1)' = Lately(k + 1)
    OBVIOUS
  <2>1. k \in 0 .. (Window - 1) /\ k + 1 \in 0 .. (Window - 1) /\ k < Window /\ (k + 1) - 1 = k
    BY LimiterAssumption
  <2>2. Lately(k + 1)' = Lately(k)
    BY <2>1
  <2> QED
    BY <1>1, <2>1, <2>2
<1>4. T = Nat
  <2> HIDE DEF T
  <2> QED
    BY <1>2, <1>3, InductionOverNat DEF T
<1> QED
  <2> SUFFICES ASSUME NEW k \in 0 .. (Window - 1) PROVE Lately(k + 1)' = Lately(k)
    OBVIOUS
  <2>1. k \in T /\ k < Window
    BY <1>4, LimiterAssumption
  <2> QED
    BY <2>1

\* A step that admits nothing, and a new window at most.
LEMMA SameHistory ==
  ASSUME LimiterTypeOK, LimiterTypeOK', BudgetInv, UNCHANGED admitted,
         \/ UNCHANGED <<used, windowLeft>>
         \/ used' = RolledUsed /\ windowLeft' = RolledLeft
  PROVE  BudgetInv'
<1>1. /\ \A k \in 0 .. Window : Lately(k)' = Lately(k) /\ Lately(k) \in Int
      /\ Lately(0) = 0 /\ Lately(0 + 1) = Lately(0) + admitted[0]
      /\ 0 \in 0 .. Window /\ 1 \in 0 .. Window /\ Window \in 0 .. Window
  <2>1. 0 \in 0 .. (Window - 1)
    BY LimiterAssumption
  <2> QED
    BY <2>1, LatelyGrows, LimiterAssumption DEF Lately
<1>2. /\ used \in 0 .. Capacity /\ windowLeft \in 0 .. Window /\ windowLeft' \in 0 .. Window
      /\ Window \in Nat \ {0} /\ Capacity \in Nat /\ admitted[0] \in Nat
  BY LimiterAssumption DEF LimiterTypeOK
<1>3. CASE UNCHANGED <<used, windowLeft>>
  <2>1. Age' = Age /\ (windowLeft > 0 => Age + 1 \in 0 .. Window)
    BY <1>2, <1>3 DEF Age
  <2> QED
    BY <1>1, <1>2, <1>3, <2>1 DEF BudgetInv
<1>4. CASE windowLeft = 0 /\ used' = 0 /\ windowLeft' = Window
  <2>1. Age' + 1 = 1 /\ Lately(1) = 0
    BY <1>1, <1>2, <1>4 DEF Age, BudgetInv
  <2> QED
    BY <1>1, <1>2, <1>4, <2>1 DEF BudgetInv
<1> QED
  BY <1>2, <1>3, <1>4 DEF RolledUsed, RolledLeft

\* A request that is admitted keeps the budget's record.
LEMMA AdmitKeepsBudget ==
  ASSUME LimiterTypeOK, LimiterTypeOK', BudgetInv, NEW weight \in Weights, Admit(weight)
  PROVE  BudgetInv'
<1>1. /\ \A k \in 1 .. Window : Lately(k)' = Lately(k) + weight
      /\ admitted' = [admitted EXCEPT ![0] = @ + weight] /\ weight \in Nat
  BY LatelyAdmits, LimiterAssumption DEF Admit
<1>2. /\ used \in 0 .. Capacity /\ windowLeft \in 0 .. Window
      /\ Window \in Nat \ {0} /\ Capacity \in Nat /\ admitted[0] \in Nat
  BY LimiterAssumption DEF LimiterTypeOK
<1>3. /\ \A k \in 1 .. Window : Lately(k) \in Int
      /\ Lately(0) = 0 /\ Lately(0 + 1) = Lately(0) + admitted[0]
  <2>1. 0 \in 0 .. (Window - 1)
    BY LimiterAssumption
  <2> QED
    BY <2>1, LatelyGrows
<1>4. CASE windowLeft = 0
  <2>1. /\ used' = weight /\ windowLeft' = Window /\ Lately(1) = 0 /\ Lately(Window) <= Capacity
        /\ 1 \in 1 .. Window /\ Window \in 1 .. Window
    <3>1. used' = weight /\ windowLeft' = Window
      BY <1>1, <1>4 DEF Admit, RolledUsed, RolledLeft
    <3>2. admitted[0] = 0 /\ Lately(Window) <= Capacity
      BY <1>4 DEF BudgetInv
    <3>3. Lately(1) = 0
      BY <1>3, <3>2
    <3> QED
      BY <1>2, <3>1, <3>2, <3>3
  <2>2. Age' + 1 = 1
    BY <1>2, <2>1 DEF Age
  <2> QED
    BY <1>1, <1>2, <1>3, <2>1, <2>2 DEF BudgetInv
<1>5. CASE windowLeft > 0
  <2>1. /\ used' = used + weight /\ windowLeft' = windowLeft
        /\ Age + 1 \in 1 .. Window /\ Window \in 1 .. Window
    BY <1>2, <1>5 DEF Admit, RolledUsed, RolledLeft, Age
  <2>2. Age' = Age
    BY <2>1 DEF Age
  <2> QED
    BY <1>1, <1>2, <1>3, <1>5, <2>1, <2>2 DEF BudgetInv
<1> QED
  BY <1>2, <1>4, <1>5

\* And so does a tick of the clock.
LEMMA TickKeepsBudget ==
  ASSUME LimiterTypeOK, LimiterTypeOK', BudgetInv, LimiterTick
  PROVE  BudgetInv'
<1>1. /\ \A k \in 0 .. (Window - 1) : Lately(k + 1)' = Lately(k)
      /\ \A k \in 0 .. Window : Lately(k) \in Int
      /\ \A k \in 0 .. (Window - 1) : Lately(k + 1) = Lately(k) + admitted[k] /\ admitted[k] \in Nat
  BY LatelyTicks, LatelyGrows
<1>2. /\ used \in 0 .. Capacity /\ windowLeft \in 0 .. Window
      /\ Window \in Nat \ {0} /\ Capacity \in Nat /\ admitted'[0] = 0 /\ used' = used
      /\ windowLeft' = IF windowLeft = 0 THEN 0 ELSE windowLeft - 1
  BY LimiterAssumption DEF LimiterTypeOK, LimiterTick
<1>3. Lately(Window)' = Lately(Window - 1) /\ Lately(Window - 1) <= Lately(Window)
  <2>1. Window - 1 \in 0 .. (Window - 1) /\ Window - 1 \in 0 .. Window /\ (Window - 1) + 1 = Window
    BY <1>2
  <2> QED
    BY <1>1, <2>1
<1>4. Window - 1 \in 0 .. Window /\ Window \in 0 .. Window
  BY <1>2
<1>5. CASE windowLeft = 0
  BY <1>1, <1>2, <1>3, <1>4, <1>5 DEF BudgetInv
<1>6. CASE windowLeft = 1
  <2>1. Age + 1 = Window /\ Lately(Window) <= used
    BY <1>2, <1>6 DEF Age, BudgetInv
  <2> QED
    BY <1>1, <1>2, <1>3, <1>4, <1>6, <2>1 DEF BudgetInv
<1>7. CASE windowLeft > 1
  <2>1. /\ Age' = Age + 1 /\ Age + 1 \in 0 .. (Window - 1) /\ Age + 1 \in 0 .. Window
        /\ windowLeft' > 0
    BY <1>2, <1>7 DEF Age
  <2>2. PICK a \in 0 .. (Window - 1) : a = Age + 1 /\ a \in 0 .. Window
    BY <2>1
  <2>3. Lately(a) <= used /\ Lately(Window) <= Capacity + Lately(a)
    BY <1>2, <1>7, <2>2 DEF BudgetInv
  <2>4. Lately(a + 1)' = Lately(a)
    BY <1>1
  <2>5. Lately(Window)' <= Capacity + Lately(a + 1)'
    BY <1>1, <1>2, <1>3, <1>4, <2>2, <2>3, <2>4
  <2>6. a + 1 = Age' + 1
    BY <2>1, <2>2
  <2>7. Lately(Age + 1)' = Lately(a + 1)'
    BY <2>6
  <2> QED
    BY <1>2, <2>1, <2>3, <2>4, <2>5, <2>7 DEF BudgetInv
<1> QED
  BY <1>2, <1>5, <1>6, <1>7

\* The limiter is used by these steps alone.
LEMMA BudgetStep ==
  ASSUME TypeOK, TypeOK', BudgetInv, [Next]_vars
  PROVE  BudgetInv'
<1>1. LimiterTypeOK /\ LimiterTypeOK'
  BY DEF TypeOK
<1>2. ASSUME UNCHANGED limiterVars PROVE BudgetInv'
  BY <1>1, <1>2, SameHistory DEF limiterVars
<1>3. ASSUME NEW c \in Calls, Acquire(c) PROVE BudgetInv'
  <2>1. Admit(weigh[c]) /\ weigh[c] \in Weights
    BY <1>3 DEF Acquire, TypeOK
  <2> QED
    BY <1>1, <2>1, AdmitKeepsBudget
<1>4. ASSUME NEW c \in Calls, BudgetExhausted(c) PROVE BudgetInv'
  <2>1. Throttle(weigh[c])
    BY <1>4 DEF BudgetExhausted
  <2> QED
    BY <1>1, <2>1, SameHistory DEF Throttle
<1>5. ASSUME NEW c \in Calls, HandleRefusal(c) PROVE BudgetInv'
  <2>1. \/ UNCHANGED limiterVars
        \/ \E wait \in RetryAfters \cup {DefaultCoolOff} : NoteRateLimited(wait)
    BY <1>5, Zenon DEF HandleRefusal
  <2> QED
    BY <1>1, <1>2, <2>1, SameHistory DEF NoteRateLimited
<1>6. ASSUME Tick PROVE BudgetInv'
  BY <1>1, <1>6, TickKeepsBudget DEF Tick
<1>7. ASSUME NEW c \in Calls,
             \/ Begin(c) \/ WakeFromBudget(c) \/ Send(c) \/ ReturnResponse(c) \/ TransportError(c)
             \/ WakeFromBackoff(c) \/ VenueAnswers(c) \/ StrayArrives(c)
      PROVE  UNCHANGED limiterVars
  BY <1>7 DEF Begin, WakeFromBudget, Send, ReturnResponse, TransportError, WakeFromBackoff,
              VenueAnswers, StrayArrives
<1>8. UNCHANGED vars => UNCHANGED limiterVars
  BY DEF vars
<1> QED
  BY <1>2, <1>3, <1>4, <1>5, <1>6, <1>7, <1>8 DEF Next, Progress

\* The budget's record is right at the start.
LEMMA BudgetInit == Init => BudgetInv
<1> SUFFICES ASSUME Init PROVE BudgetInv
  OBVIOUS
<1>1. /\ admitted = [a \in 0 .. Window - 1 |-> 0] /\ windowLeft = 0 /\ 0 \in 0 .. (Window - 1)
      /\ \A i \in 0 .. (Window - 1) : admitted[i] \in Int /\ admitted[i] <= 0
      /\ Window \in Nat \ {0} /\ Capacity \in Nat
  BY LimiterAssumption DEF Init, LimiterInit
<1>2. SumOf(admitted, 0) = 0 /\ admitted \in [0 .. Window - 1 -> Nat]
  BY <1>1, SumOfGrows
<1> DEFINE T == {k \in Nat : k <= Window => SumOf(admitted, k) = 0}
<1>3. 0 \in T
  BY <1>2
<1>4. ASSUME NEW k \in T PROVE k + 1 \in T
  <2> SUFFICES ASSUME k + 1 <= Window PROVE SumOf(admitted, k + 1) = 0
    OBVIOUS
  <2>1. k \in 0 .. (Window - 1) /\ k <= Window
    BY <1>1
  <2>2. SumOf(admitted, k) = 0 /\ admitted[k] = 0
    BY <1>1, <2>1
  <2> QED
    <3>1. SumOf(admitted, k + 1) = SumOf(admitted, k) + admitted[k]
      BY <1>2, <2>1, SumOfGrows
    <3> QED
      BY <2>2, <3>1
<1>5. T = Nat
  <2> HIDE DEF T
  <2> QED
    BY <1>3, <1>4, InductionOverNat DEF T
<1>6. Lately(Window) = 0
  BY <1>1, <1>5 DEF Lately
<1> QED
  BY <1>1, <1>6 DEF BudgetInv

(***************************************************************************)
(* In any interval of the window's length, however it falls, at most twice *)
(* the capacity is admitted (ratelimiter.rs:57-85), for every capacity,    *)
(* window, weights and set of callers.                                     *)
(***************************************************************************)
THEOREM BudgetHolds == Spec => []SlidingBudget
<1>1. TypeOK /\ BudgetInv => SlidingBudget
  <2> SUFFICES ASSUME TypeOK, BudgetInv PROVE SlidingBudget
    OBVIOUS
  <2>1. /\ used \in 0 .. Capacity /\ windowLeft \in 0 .. Window /\ Capacity \in Nat
        /\ Window \in Nat \ {0} /\ admitted \in [0 .. Window - 1 -> Nat]
    BY LimiterAssumption DEF TypeOK, LimiterTypeOK
  <2>2. /\ \A k \in 0 .. Window : Lately(k) \in Int
        /\ Lately(Window) = SumFunctionOnSet(admitted, 0 .. Window - 1)
        /\ Window \in 0 .. Window /\ (windowLeft > 0 => Age + 1 \in 0 .. Window)
    BY <2>1, SumOfGrows DEF Lately, SumOf, Age
  <2>3. Lately(Window) <= 2 * Capacity
    BY <2>1, <2>2 DEF BudgetInv
  <2> QED
    BY <2>2, <2>3 DEF SlidingBudget
<1> QED
  BY <1>1, BudgetInit, BudgetStep, TypeCorrect, PTL DEF Spec

-----------------------------------------------------------------------------
(* Writes *)

\* Initially no write has been sent.
LEMMA WriteInvInit == Init => WriteInv
BY DEF Init, WriteInv, Writes, Untouched

\* A step of call c leaves every other call alone; a write that is not sending
\* stays untouched because only a refusal, never a transport error, repeats it.
LEMMA WriteInvStep == TypeOK /\ WriteInv /\ [Next]_vars => WriteInv'
<1> SUFFICES ASSUME TypeOK, WriteInv, [Next]_vars, NEW w \in Writes
             PROVE  /\ pc'[w] \notin {"sent", "done"} => Untouched(w)'
                    /\ pc'[w] = "sent" => OneCopyOut(w)'
                    /\ pc'[w] = "done" => Settled(w)'
  BY DEF WriteInv
<1> DEFINE Good == /\ pc'[w] \notin {"sent", "done"} => Untouched(w)'
                   /\ pc'[w] = "sent" => OneCopyOut(w)'
                   /\ pc'[w] = "done" => Settled(w)'
<1> w \in Calls /\ w \notin Gets
  BY DEF Writes
<1>0. /\ pc[w] \notin {"sent", "done"} => Untouched(w)
      /\ pc[w] = "sent" => OneCopyOut(w)
      /\ pc[w] = "done" => Settled(w)
  BY DEF WriteInv
<1> USE <1>0 DEF TypeOK, PCs, Answers, Untouched, OneCopyOut, Settled
<1>1. ASSUME NEW c \in Calls, Begin(c) PROVE Good
  BY <1>1 DEF Begin
<1>2. ASSUME NEW c \in Calls, Acquire(c) PROVE Good
  BY <1>2 DEF Acquire
<1>3. ASSUME NEW c \in Calls, BudgetExhausted(c) PROVE Good
  BY <1>3 DEF BudgetExhausted
<1>4. ASSUME NEW c \in Calls, WakeFromBudget(c) PROVE Good
  BY <1>4 DEF WakeFromBudget
<1>5. ASSUME NEW c \in Calls, Send(c) PROVE Good
  BY <1>5 DEF Send
<1>6. ASSUME NEW c \in Calls, ReturnResponse(c) PROVE Good
  BY <1>6 DEF ReturnResponse, Return
<1>7. ASSUME NEW c \in Calls, HandleRefusal(c) PROVE Good
  <2>1. PICK wait \in RetryAfters \cup {DefaultCoolOff} :
          Repeat(c, wait) \/ Return(c, "refused")
    BY <1>7, Zenon DEF HandleRefusal
  <2>2. CASE Repeat(c, wait)
    BY <1>7, <2>2 DEF HandleRefusal, Repeat
  <2>3. CASE Return(c, "refused")
    BY <1>7, <2>3 DEF HandleRefusal, Return
  <2> QED
    BY <2>1, <2>2, <2>3
<1>8. ASSUME NEW c \in Calls, TransportError(c) PROVE Good
  <2>1. CASE c = w
    <3>1. Return(c, "timeout")
      BY <1>8, <2>1 DEF TransportError, MayRepeat
    <3> QED
      BY <1>8, <2>1, <3>1 DEF TransportError, Return
  <2>2. CASE c # w
    <3>1. pc'[w] = pc[w] /\ result'[w] = result[w]
      BY <1>8, <2>2 DEF TransportError, Return, Repeat
    <3> QED
      BY <1>8, <2>2, <3>1 DEF TransportError
  <2> QED
    BY <2>1, <2>2
<1>9. ASSUME NEW c \in Calls, WakeFromBackoff(c) PROVE Good
  BY <1>9 DEF WakeFromBackoff
<1>10. ASSUME NEW c \in Calls, VenueAnswers(c) PROVE Good
  <2>1. PICK a \in Answers, done \in {0, 1} :
          /\ a = "accepted" => done = 1
          /\ a \in {"rejected", "refused"} => done = 0
          /\ flight' = [flight EXCEPT ![c] = a]
          /\ effects' = [effects EXCEPT ![c] = @ + done]
    BY <1>10, Zenon DEF VenueAnswers
  <2>2. /\ flight[c] = "travelling"
        /\ UNCHANGED <<pc, strays, result>>
    BY <1>10 DEF VenueAnswers
  <2>3. CASE c = w
    <3>1. pc[w] = "sent" /\ effects[w] = 0 /\ effects'[w] = done /\ flight'[w] = a
      BY <2>1, <2>2, <2>3
    <3> QED
      BY <2>1, <2>2, <3>1
  <2>4. CASE c # w
    BY <2>1, <2>2, <2>4
  <2> QED
    BY <2>3, <2>4
<1>11. ASSUME NEW c \in Calls, StrayArrives(c) PROVE Good
  BY <1>11 DEF StrayArrives
<1>12. ASSUME Tick PROVE Good
  BY <1>12 DEF Tick
<1>13. ASSUME UNCHANGED vars PROVE Good
  BY <1>13 DEF vars, callVars
<1> QED
  BY <1>1, <1>2, <1>3, <1>4, <1>5, <1>6, <1>7, <1>8, <1>9, <1>10, <1>11, <1>12, <1>13
  DEF Next, Progress

\* The invariant of writes always holds.
LEMMA WriteInvariant == Spec => []WriteInv
BY WriteInvInit, WriteInvStep, TypeCorrect, PTL DEF Spec

\* A write is carried out at most once, for any number of concurrent calls and
\* retries (throttle.rs:18-31).
THEOREM AtMostOnce == Spec => []NoDoubleExecution
<1>1. TypeOK /\ WriteInv => NoDoubleExecution
  BY DEF TypeOK, WriteInv, NoDoubleExecution, Writes, PCs, Untouched, OneCopyOut, Settled
<1> QED
  BY <1>1, WriteInvariant, TypeCorrect, PTL

\* An accepted write was carried out; a rejected or refused one was not and can
\* no longer be (throttle.rs:235-262).
THEOREM DefiniteAnswers == Spec => []DefiniteAnswerIsTrue
<1>1. TypeOK /\ WriteInv => DefiniteAnswerIsTrue
  BY DEF TypeOK, WriteInv, DefiniteAnswerIsTrue, Writes, PCs, Untouched, OneCopyOut, Settled
<1> QED
  BY <1>1, WriteInvariant, TypeCorrect, PTL

-----------------------------------------------------------------------------
(* Refinement *)

\* Every step of the layer is a step of the contract, or changes nothing it sees.
LEMMA OutcomeStep == TypeOK /\ WriteInv /\ [Next]_vars => [Outcome!Next]_(Outcome!oovars)
<1> SUFFICES ASSUME TypeOK, WriteInv, [Next]_vars
             PROVE  Outcome!Next \/ UNCHANGED Outcome!oovars
  OBVIOUS
<1> USE DEF TypeOK, PCs, Answers
<1> DEFINE Told(r) == IF r \in {"timeout", "failed"} THEN "unknown" ELSE r
           Goal == Outcome!Next \/ UNCHANGED Outcome!oovars
<1> Writes \subseteq Calls
  BY DEF Writes
<1>1. ASSUME NEW w \in Writes
      PROVE  /\ pc[w] \notin {"sent", "done"} => Untouched(w)
             /\ pc[w] = "sent" => OneCopyOut(w)
             /\ pc[w] = "done" => Settled(w)
  BY DEF WriteInv
\* A step that changes neither effects nor results of writes.
<1>2. ASSUME \A w \in Writes : effects'[w] = effects[w] /\ result'[w] = result[w]
      PROVE  Goal
  BY <1>2 DEF Outcome!oovars
\* A step that returns an answer the abstract layer may give.
<1>3. ASSUME NEW c \in Calls, NEW r \in {"timeout"} \cup Answers,
             UNCHANGED effects, result' = [result EXCEPT ![c] = r], c \in Writes,
             result[c] = "none",
             r = "accepted" => effects[c] = 1,
             r \in {"rejected", "refused"} => effects[c] = 0
      PROVE  Goal
  <2>1. Outcome!Tell(c, Told(r))
    BY <1>3 DEF Outcome!Tell, Outcome!Denials
  <2> QED
    BY <2>1, <1>3 DEF Outcome!Next, Outcome!Denials
\* A step in which the venue carries a write out for the first time.
<1>4. ASSUME NEW c \in Writes, UNCHANGED result, effects[c] = 0,
             effects' = [effects EXCEPT ![c] = 1],
             result[c] \notin {"rejected", "refused"}
      PROVE  Goal
  <2>1. Outcome!CarryOut(c)
    BY <1>4 DEF Outcome!CarryOut, Outcome!Denials
  <2> QED
    BY <2>1 DEF Outcome!Next
<1>5. ASSUME NEW c \in Calls,
             Begin(c) \/ Acquire(c) \/ BudgetExhausted(c) \/ WakeFromBudget(c)
               \/ Send(c) \/ WakeFromBackoff(c) \/ Tick \/ UNCHANGED vars
      PROVE  Goal
  <2>1. UNCHANGED <<effects, result>>
    BY <1>5 DEF Begin, Acquire, BudgetExhausted, WakeFromBudget, Send, WakeFromBackoff,
                Tick, vars, callVars
  <2> QED
    BY <2>1, <1>2
<1>6. ASSUME NEW c \in Calls, ReturnResponse(c) PROVE Goal
  <2>1. /\ pc[c] = "sent" /\ flight[c] \in Answers \ {"refused"}
        /\ UNCHANGED effects /\ result' = [result EXCEPT ![c] = flight[c]]
    BY <1>6 DEF ReturnResponse, Return
  <2>2. CASE c \in Writes
    <3>1. OneCopyOut(c)
      BY <1>1, <2>1, <2>2
    <3> QED
      BY <1>3, <2>1, <2>2, <3>1 DEF OneCopyOut
  <2>3. CASE c \notin Writes
    BY <1>2, <2>1, <2>3
  <2> QED
    BY <2>2, <2>3
<1>7. ASSUME NEW c \in Calls, HandleRefusal(c) PROVE Goal
  <2>1. /\ pc[c] = "sent" /\ flight[c] = "refused" /\ UNCHANGED effects
        /\ UNCHANGED result \/ result' = [result EXCEPT ![c] = "refused"]
    BY <1>7 DEF HandleRefusal, Return, Repeat
  <2>2. CASE c \in Writes /\ result' = [result EXCEPT ![c] = "refused"]
    <3>1. OneCopyOut(c)
      BY <1>1, <2>1, <2>2
    <3> QED
      BY <1>3, <2>1, <2>2, <3>1 DEF OneCopyOut
  <2>3. CASE c \notin Writes \/ UNCHANGED result
    BY <1>2, <2>1, <2>3
  <2> QED
    BY <2>1, <2>2, <2>3
<1>8. ASSUME NEW c \in Calls, TransportError(c) PROVE Goal
  <2>1. /\ pc[c] = "sent" /\ UNCHANGED effects
        /\ UNCHANGED result \/ result' = [result EXCEPT ![c] = "timeout"]
    BY <1>8 DEF TransportError, Return, Repeat
  <2>2. CASE c \in Writes /\ result' = [result EXCEPT ![c] = "timeout"]
    <3>1. OneCopyOut(c)
      BY <1>1, <2>1, <2>2
    <3> QED
      BY <1>3, <2>1, <2>2, <3>1 DEF OneCopyOut
  <2>3. CASE c \notin Writes \/ UNCHANGED result
    BY <1>2, <2>1, <2>3
  <2> QED
    BY <2>1, <2>2, <2>3
<1>9. ASSUME NEW c \in Calls, VenueAnswers(c) \/ StrayArrives(c) PROVE Goal
  <2>1. PICK done \in {0, 1} : effects' = [effects EXCEPT ![c] = @ + done]
    BY <1>9 DEF VenueAnswers, StrayArrives
  <2>2. UNCHANGED result /\ (flight[c] = "travelling" \/ strays[c] > 0)
    BY <1>9 DEF VenueAnswers, StrayArrives
  <2>3. CASE c \in Writes /\ done = 1
    <3>1. effects[c] = 0 /\ result[c] \notin {"rejected", "refused"}
      BY <1>1, <2>2, <2>3 DEF Untouched, OneCopyOut, Settled
    <3>2. effects' = [effects EXCEPT ![c] = 1]
      BY <2>1, <2>3, <3>1
    <3> QED
      BY <1>4, <2>2, <2>3, <3>1, <3>2
  <2>4. CASE c \notin Writes \/ done = 0
    BY <1>2, <2>1, <2>2, <2>4
  <2> QED
    BY <2>3, <2>4
<1> QED
  BY <1>2, <1>5, <1>6, <1>7, <1>8, <1>9 DEF Next, Progress, vars, callVars

\* ThrottledTransport implements OrderOutcome for its writes: the layer as a
\* whole behaves like one that sends each write once and answers truthfully.
THEOREM Refinement == Spec => ImplementsOrderOutcome
<1>1. Init => Outcome!Init
  BY DEF Init, Outcome!Init, Writes
<1> QED
  BY <1>1, OutcomeStep, WriteInvariant, TypeCorrect, PTL
  DEF Spec, ImplementsOrderOutcome, Outcome!Spec

(***************************************************************************)
(* The venues' feeds: the frames.                                          *)
(***************************************************************************)
(***************************************************************************)
(* The feeds: what ten clients subscribe to, resolve and tell.             *)
(***************************************************************************)
\* What a print of each topic can be.
LEMMA PrintsAre ==
  ASSUME NEW c, NEW m, NEW p \in Prints(c, m)
  PROVE  /\ p.market = m
         /\ p.topic \in {"trades", "book", "ticker", "mark", "funding", "instrument", "forced"}
         /\ p.topic \in {"trades", "forced"} => p.side \in {"Buy", "Sell"}
         /\ p.topic = "book" => p.has \in BookKinds(c)
         /\ p.topic = "ticker" => p.has \in TickerFigures(c)
         /\ p.topic = "mark" => p.has \in {{"mark"}, Figures}
         /\ p.topic = "funding" => p.has = {"rate"}
         /\ p.topic = "instrument" => p.has \in {{"rate"}, {"mark", "index"}}
         /\ p \notin {Ping, Order, Balance}
<1> DEFINE A == {PrintOf("trades", m, side, {}) : side \in {"Buy", "Sell"}}
           B == {PrintOf("book", m, "none", has) : has \in BookKinds(c)}
           C == {PrintOf("ticker", m, "none", has) : has \in TickerFigures(c)}
           D == {PrintOf("mark", m, "none", has) : has \in {{"mark"}, Figures}}
           E == {PrintOf("funding", m, "none", {"rate"})}
           F == {PrintOf("instrument", m, "none", has) : has \in {{"rate"}, {"mark", "index"}}}
           G == {PrintOf("forced", m, side, {}) : side \in {"Buy", "Sell"}}
<1>1. p \in A \/ p \in B \/ p \in C \/ p \in D \/ p \in E \/ p \in F \/ p \in G
  BY Zenon DEF Prints
<1> USE DEF PrintOf, Ping, Order, Balance
<1>2. CASE p \in A
  BY <1>2
<1>3. CASE p \in B
  BY <1>3
<1>4. CASE p \in C
  BY <1>4
<1>5. CASE p \in D
  BY <1>5
<1>6. CASE p \in E
  BY <1>6
<1>7. CASE p \in F
  BY <1>7
<1>8. CASE p \in G
  BY <1>8
<1> HIDE DEF A, B, C, D, E, F, G
<1> QED
  BY <1>1, <1>2, <1>3, <1>4, <1>5, <1>6, <1>7, <1>8

\* What a subscription asks for: its topic, its market's wire name, on a host
\* of its own market.  A name that is not kept can be read.
LEMMA FeedsAreAsked ==
  ASSUME NEW c \in Clients, NEW ch \in Channels, NEW s, Topic(c, ch) # "none"
  PROVE  LET a == Asked(c, ch, s)
         IN  /\ a.topic = Topic(c, ch)
             /\ a.wire = Wire(c, s) \/ (a.wire = Every /\ c.venue = "okx" /\ ch = "Liquidations" /\ ~a.named)
             /\ a.named \/ PollOf(c).unnamed = "read"
             /\ a.host \in {"any", c.market, "notice"}
             /\ (a.host = "notice") <=> (c.venue = "htx" /\ ch \in Derived)
<1>1. c.venue \in {"binance", "bitget", "bybit", "coinbase", "gate", "htx", "kraken", "kucoin", "okx", "upbit"}
      /\ c.market \in {"spot", "linear"}
      /\ (c.venue \in {"coinbase", "upbit"} => c.market = "spot")
  BY FeedsAssumption
<1>2. ch \in Derived => Swap(c)
  BY DEF Topic
<1> DEFINE t == Topic(c, ch)
           a == Asked(c, ch, s)
<1>3. CASE c.venue = "binance"
  <2>1. a = BinanceFeed(c, t, s)
    BY <1>3, Zenon DEF Asked
  <2> QED
    BY <1>1, <1>2, <1>3, <2>1 DEF Feed, Wire, Swap, Pair, Contract, Every, Derived, BinanceFeed
<1>4. CASE c.venue = "bitget"
  <2>1. a = BitgetFeed(c, t, s)
    BY <1>4, Zenon DEF Asked
  <2> QED
    BY <1>1, <1>2, <1>4, <2>1 DEF Feed, Wire, Swap, Pair, Contract, Every, Derived, BitgetFeed
<1>5. CASE c.venue = "bybit"
  <2>1. a = BybitFeed(c, t, s)
    BY <1>5, Zenon DEF Asked
  <2> QED
    BY <1>1, <1>2, <1>5, <2>1 DEF Feed, Wire, Swap, Pair, Contract, Every, Derived, BybitFeed
<1>6. CASE c.venue = "coinbase"
  <2>1. a = CoinbaseFeed(c, t, s)
    BY <1>6, Zenon DEF Asked
  <2>2. PollOf(c) = CoinbasePoll(c)
    BY <1>6 DEF PollOf
  <2> QED
    BY <1>1, <1>2, <1>6, <2>1, <2>2 DEF Feed, Wire, Swap, Pair, Contract, Every, Derived, CoinbaseFeed, CoinbasePoll, Polled
<1>7. CASE c.venue = "gate"
  <2>1. a = GateFeed(c, t, s)
    BY <1>7, Zenon DEF Asked
  <2> QED
    BY <1>1, <1>2, <1>7, <2>1 DEF Feed, Wire, Swap, Pair, Contract, Every, Derived, GateFeed
<1>8. CASE c.venue = "htx"
  <2>1. a = IF ch \in Derived THEN HtxNoticeFeed(c, t, s) ELSE HtxFeed(c, t, s)
    BY <1>8, Zenon DEF Asked
  <2> QED
    BY <1>1, <1>2, <1>8, <2>1 DEF Feed, Wire, Swap, Pair, Contract, Every, Derived, HtxFeed, HtxNoticeFeed
<1>9. CASE c.venue = "kraken"
  <2>1. a = IF Swap(c) THEN KrakenFuturesFeed(c, t, s) ELSE KrakenFeed(c, t, s)
    BY <1>9, Zenon DEF Asked
  <2>2. PollOf(c) = KrakenPoll(c)
    BY <1>9 DEF PollOf
  <2> QED
    BY <1>1, <1>2, <1>9, <2>1, <2>2 DEF Feed, Wire, Swap, Pair, Contract, Every, Derived, KrakenFeed, KrakenFuturesFeed, KrakenPoll, Polled
<1>10. CASE c.venue = "kucoin"
  <2>1. a = IF ch \in Derived THEN KuCoinInstrument(c, t, s) ELSE KuCoinFeed(c, t, s)
    BY <1>10, Zenon DEF Asked
  <2> QED
    BY <1>1, <1>2, <1>10, <2>1 DEF Feed, Wire, Swap, Pair, Contract, Every, Derived, KuCoinFeed, KuCoinInstrument
<1>11. CASE c.venue = "okx"
  <2>1. a = IF ch = "Liquidations" THEN OkxForcedFeed(c, t, s) ELSE OkxFeed(c, t, s)
    BY <1>11, Zenon DEF Asked
  <2>2. PollOf(c) = OkxPoll(c)
    BY <1>11 DEF PollOf
  <2> QED
    BY <1>1, <1>2, <1>11, <2>1, <2>2 DEF Feed, Wire, Swap, Pair, Contract, Every, Derived, OkxFeed, OkxForcedFeed, OkxPoll, Polled
<1>12. CASE c.venue = "upbit"
  <2>1. a = UpbitFeed(c, t, s)
    BY <1>12, Zenon DEF Asked
  <2>2. PollOf(c) = UpbitPoll(c)
    BY <1>12 DEF PollOf
  <2> QED
    BY <1>1, <1>2, <1>12, <2>1, <2>2 DEF Feed, Wire, Swap, Pair, Contract, Every, Derived, UpbitFeed, UpbitPoll, Polled
<1> QED
  BY <1>1, <1>3, <1>4, <1>5, <1>6, <1>7, <1>8, <1>9, <1>10, <1>11, <1>12 DEF a

\* The topics that each client asks for.
TopicsOf(c) ==
  CASE c.venue = "binance" -> {"trades", "book", "ticker"} \cup (IF Swap(c) THEN {"mark", "forced"} ELSE {})
    [] c.venue = "bybit"   -> {"trades", "book", "ticker"} \cup (IF Swap(c) THEN {"forced"} ELSE {})
    [] c.venue \in {"okx", "htx"} -> {"trades", "book", "ticker"} \cup (IF Swap(c) THEN {"funding", "forced"} ELSE {})
    [] c.venue = "kucoin"  -> {"trades", "book", "ticker"} \cup (IF Swap(c) THEN {"instrument"} ELSE {})
    [] OTHER -> {"trades", "book", "ticker"}

\* A topic that is asked for is one of its client's.
LEMMA TopicsAreKnown ==
  ASSUME NEW c \in Clients, NEW ch \in Channels, Topic(c, ch) # "none"
  PROVE  Topic(c, ch) \in TopicsOf(c)
<1>1. c.venue \in {"binance", "bitget", "bybit", "coinbase", "gate", "htx", "kraken", "kucoin", "okx", "upbit"}
      /\ c.market \in {"spot", "linear"}
      /\ (c.venue \in {"coinbase", "upbit"} => c.market = "spot")
  BY FeedsAssumption
<1>2. CASE ch \notin Derived
  BY <1>1, <1>2 DEF Topic, TopicsOf, Channels, Derived
<1>3. CASE ch \in Derived
  <2>1. Swap(c)
    BY <1>3 DEF Topic
  <2> QED
    BY <1>1, <1>3, <2>1 DEF Topic, TopicsOf, Derived, Swap, BinanceTopic, BybitTopic, OkxTopic, HtxTopic,
       BitgetTopic, GateTopic, KrakenTopic, KuCoinTopic
<1> QED
  BY <1>2, <1>3

\* A name that is in the table, or that can be read, is resolved.
LEMMA NamesResolve ==
  ASSUME NEW c \in Clients, NEW subs, NEW m \in Symbols,
         \A n \in subs : \E s \in Symbols : n = [wire |-> Wire(c, s), symbol |-> s],
         (\E n \in subs : n.wire = Wire(c, m)) \/ PollOf(c).unnamed = "read"
  PROVE  Resolve(c, Wire(c, m), subs) = m
<1>1. CASE \E n \in subs : n.wire = Wire(c, m)
  <2> DEFINE n == CHOOSE n \in subs : n.wire = Wire(c, m)
  <2>1. n \in subs /\ n.wire = Wire(c, m)
    BY <1>1
  <2>2. Resolve(c, Wire(c, m), subs) = n.symbol
    BY <1>1 DEF Resolve
  <2> HIDE DEF n
  <2>3. PICK s \in Symbols : n = [wire |-> Wire(c, s), symbol |-> s]
    BY <2>1
  <2>4. s = m
    BY <2>1, <2>3 DEF Wire, Pair, Contract
  <2> QED
    BY <2>2, <2>3, <2>4
<1>2. CASE ~\E n \in subs : n.wire = Wire(c, m)
  <2>1. Resolve(c, Wire(c, m), subs) = Wire(c, m)[2]
    BY <1>2 DEF Resolve
  <2> QED
    BY <2>1 DEF Wire, Pair, Contract
<1> QED
  BY <1>1, <1>2

\* What EventsAreTrue says of one frame.
TaleIsTrue(t) ==
  /\ Range(Types(t)) \in Owed(t) /\ Len(t.events) = Cardinality(Range(Types(t)))
  /\ \A e \in Range(t.events) : e.symbol = t.print.market
  /\ RightSide(t) /\ RightPrices(t)

\* And what is told of prices says `given` or not as marks allow.
TaleIsFair(t, marks) ==
  /\ TaleIsTrue(t) /\ \E n \in Nat : DOMAIN t.events = 1..n
  /\ \A e \in Range(t.events) : e.type \in {"Funding", "MarkIndex"} => e.mark \in marks

\* The kinds of a frame's events, each at most once, all of them among E.
Tells(events, kinds, E) ==
  /\ \E n \in Nat : DOMAIN events = 1..n
  /\ Range([i \in DOMAIN events |-> events[i].type]) = kinds
  /\ Len(events) = Cardinality(kinds)
  /\ Range(events) \subseteq E

\* Two different kinds are two, and three are three.
LEMMA TwoInAll ==
  ASSUME NEW x, NEW y, x # y
  PROVE  IsFiniteSet({x, y}) /\ Cardinality({x, y}) = 2
<1>1. IsFiniteSet({x}) /\ Cardinality({x}) = 1
  BY FS_Singleton
<1>2. {x, y} = {x} \cup {y}
  OBVIOUS
<1>3. y \notin {x}
  OBVIOUS
<1>4. IsFiniteSet({x} \cup {y}) /\ Cardinality({x} \cup {y}) = Cardinality({x}) + 1
  BY <1>1, <1>3, FS_AddElement, Zenon
<1> QED
  BY <1>1, <1>2, <1>4
LEMMA ThreeInAll ==
  ASSUME NEW x, NEW y, NEW z, x # y, x # z, y # z
  PROVE  Cardinality({x, y, z}) = 3
<1>1. IsFiniteSet({x, y}) /\ Cardinality({x, y}) = 2
  BY TwoInAll
<1>2. {x, y, z} = {x, y} \cup {z}
  OBVIOUS
<1>3. z \notin {x, y}
  OBVIOUS
<1>4. Cardinality({x, y} \cup {z}) = Cardinality({x, y}) + 1
  BY <1>1, <1>3, FS_AddElement, Zenon
<1> QED
  BY <1>1, <1>2, <1>4

\* One event followed by one or two more.
LEMMA TwoAreJoined ==
  ASSUME NEW d, NEW e
  PROVE  <<d>> \o <<e>> = <<d, e>>
<1> DEFINE s == <<d>> \o <<e>>
<1>1. s \in Seq({d, e}) /\ <<d, e>> \in Seq({d, e})
  OBVIOUS
<1>2. Len(s) = 2 /\ s[1] = d /\ s[2] = e
  OBVIOUS
<1>3. Len(<<d, e>>) = 2 /\ <<d, e>>[1] = d /\ <<d, e>>[2] = e
  OBVIOUS
<1> HIDE DEF s
<1>4. \A i \in 1..2 : s[i] = <<d, e>>[i]
  BY <1>2, <1>3
<1>5. s = <<d, e>>
  BY <1>1, <1>2, <1>3, <1>4
<1> QED
  BY <1>5 DEF s
LEMMA ThreeAreJoined ==
  ASSUME NEW d, NEW e, NEW f
  PROVE  <<d>> \o <<e, f>> = <<d, e, f>>
<1> DEFINE s == <<d>> \o <<e, f>>
<1>1. s \in Seq({d, e, f}) /\ <<d, e, f>> \in Seq({d, e, f})
  OBVIOUS
<1>2. Len(s) = 3 /\ s[1] = d /\ s[2] = e /\ s[3] = f
  OBVIOUS
<1>3. Len(<<d, e, f>>) = 3 /\ <<d, e, f>>[1] = d /\ <<d, e, f>>[2] = e /\ <<d, e, f>>[3] = f
  OBVIOUS
<1> HIDE DEF s
<1>4. \A i \in 1..3 : s[i] = <<d, e, f>>[i]
  BY <1>2, <1>3
<1>5. s = <<d, e, f>>
  BY <1>1, <1>2, <1>3, <1>4
<1> QED
  BY <1>5 DEF s

\* A frame that is told as one event, as none, as two or as three.
LEMMA OneIsTold ==
  ASSUME NEW e
  PROVE  Tells(<<e>>, {e.type}, {e})
<1>1. Cardinality({e.type}) = 1
  BY FS_Singleton
<1> QED
  BY <1>1 DEF Tells, Range

LEMMA NothingIsTold == Tells(<<>>, {}, {})
  BY FS_EmptySet DEF Tells, Range

LEMMA TwoAreTold ==
  ASSUME NEW d, NEW e, d.type # e.type
  PROVE  Tells(<<d, e>>, {d.type, e.type}, {d, e})
<1>1. Cardinality({d.type, e.type}) = 2
  BY TwoInAll
<1>2. DOMAIN <<d, e>> = {1, 2} /\ <<d, e>>[1] = d /\ <<d, e>>[2] = e /\ Len(<<d, e>>) = 2
  OBVIOUS
<1> QED
  BY <1>1, <1>2 DEF Tells, Range

LEMMA ThreeAreTold ==
  ASSUME NEW d, NEW e, NEW f, d.type # e.type, d.type # f.type, e.type # f.type
  PROVE  Tells(<<d, e, f>>, {d.type, e.type, f.type}, {d, e, f})
<1>1. Cardinality({d.type, e.type, f.type}) = 3
  BY ThreeInAll
<1>2. /\ DOMAIN <<d, e, f>> = {1, 2, 3} /\ Len(<<d, e, f>>) = 3
      /\ <<d, e, f>>[1] = d /\ <<d, e, f>>[2] = e /\ <<d, e, f>>[3] = f
  OBVIOUS
<1> QED
  BY <1>1, <1>2 DEF Tells, Range

\* A frame is told in parts: those whose condition holds.
LEMMA PartsAreTold ==
  ASSUME NEW P \in BOOLEAN, NEW Q \in BOOLEAN, NEW R \in BOOLEAN, NEW d, NEW e, NEW f,
         d.type # e.type, d.type # f.type, e.type # f.type
  PROVE  Tells(When(P, d) \o (When(Q, e) \o When(R, f)),
               (IF P THEN {d.type} ELSE {}) \cup (IF Q THEN {e.type} ELSE {}) \cup (IF R THEN {f.type} ELSE {}),
               (IF P THEN {d} ELSE {}) \cup (IF Q THEN {e} ELSE {}) \cup (IF R THEN {f} ELSE {}))
<1> DEFINE s == When(P, d) \o (When(Q, e) \o When(R, f))
           K == (IF P THEN {d.type} ELSE {}) \cup (IF Q THEN {e.type} ELSE {}) \cup (IF R THEN {f.type} ELSE {})
           E == (IF P THEN {d} ELSE {}) \cup (IF Q THEN {e} ELSE {}) \cup (IF R THEN {f} ELSE {})
<1> SUFFICES Tells(s, K, E)
  OBVIOUS
<1>1. CASE P /\ Q /\ R
  <2>1. When(P, d) = <<d>> /\ When(Q, e) = <<e>> /\ When(R, f) = <<f>>
    BY <1>1 DEF When
  <2>2. s = <<d, e, f>>
    BY <2>1, TwoAreJoined, ThreeAreJoined, ZenonT(40)
  <2>3. K = {d.type, e.type, f.type} /\ E = {d, e, f}
    BY <1>1
  <2> QED
    BY <2>2, <2>3, ThreeAreTold
<1>2. CASE P /\ Q /\ ~R
  <2>1. When(P, d) = <<d>> /\ When(Q, e) = <<e>> /\ When(R, f) = <<>>
    BY <1>2 DEF When
  <2>2. s = <<d, e>>
    <3>1. <<>> \o <<d, e>> = <<d, e>> /\ <<d, e>> \o <<>> = <<d, e>>
      OBVIOUS
    <3>2. \A x : <<x>> \o <<>> = <<x>> /\ <<>> \o <<x>> = <<x>>
      OBVIOUS
    <3> QED
      BY <2>1, <3>1, <3>2, TwoAreJoined, Zenon
  <2>3. K = {d.type, e.type} /\ E = {d, e}
    BY <1>2
  <2>4. Tells(<<d, e>>, {d.type, e.type}, {d, e})
    BY TwoAreTold
  <2> HIDE DEF s, K, E
  <2> QED
    BY <2>2, <2>3, <2>4
<1>3. CASE P /\ ~Q /\ R
  <2>1. When(P, d) = <<d>> /\ When(Q, e) = <<>> /\ When(R, f) = <<f>>
    BY <1>3 DEF When
  <2>2. s = <<d, f>>
    <3>1. <<>> \o <<d, f>> = <<d, f>> /\ <<d, f>> \o <<>> = <<d, f>>
      OBVIOUS
    <3>2. \A x : <<x>> \o <<>> = <<x>> /\ <<>> \o <<x>> = <<x>>
      OBVIOUS
    <3> QED
      BY <2>1, <3>1, <3>2, TwoAreJoined, Zenon
  <2>3. K = {d.type, f.type} /\ E = {d, f}
    BY <1>3
  <2>4. Tells(<<d, f>>, {d.type, f.type}, {d, f})
    BY TwoAreTold
  <2> HIDE DEF s, K, E
  <2> QED
    BY <2>2, <2>3, <2>4
<1>4. CASE ~P /\ Q /\ R
  <2>1. When(P, d) = <<>> /\ When(Q, e) = <<e>> /\ When(R, f) = <<f>>
    BY <1>4 DEF When
  <2>2. s = <<e, f>>
    <3>1. <<>> \o <<e, f>> = <<e, f>> /\ <<e, f>> \o <<>> = <<e, f>>
      OBVIOUS
    <3>2. \A x : <<x>> \o <<>> = <<x>> /\ <<>> \o <<x>> = <<x>>
      OBVIOUS
    <3> QED
      BY <2>1, <3>1, <3>2, TwoAreJoined, Zenon
  <2>3. K = {e.type, f.type} /\ E = {e, f}
    BY <1>4
  <2>4. Tells(<<e, f>>, {e.type, f.type}, {e, f})
    BY TwoAreTold
  <2> HIDE DEF s, K, E
  <2> QED
    BY <2>2, <2>3, <2>4
<1>5. CASE P /\ ~Q /\ ~R
  <2>1. When(P, d) = <<d>> /\ When(Q, e) = <<>> /\ When(R, f) = <<>>
    BY <1>5 DEF When
  <2>2. s = <<d>>
    BY <2>1, SMT
  <2>3. K = {d.type} /\ E = {d}
    BY <1>5
  <2> QED
    BY <2>2, <2>3, OneIsTold
<1>6. CASE ~P /\ Q /\ ~R
  <2>1. When(P, d) = <<>> /\ When(Q, e) = <<e>> /\ When(R, f) = <<>>
    BY <1>6 DEF When
  <2>2. s = <<e>>
    BY <2>1, SMT
  <2>3. K = {e.type} /\ E = {e}
    BY <1>6
  <2> QED
    BY ZenonT(40), <2>2, <2>3, OneIsTold
<1>7. CASE ~P /\ ~Q /\ R
  <2>1. When(P, d) = <<>> /\ When(Q, e) = <<>> /\ When(R, f) = <<f>>
    BY <1>7 DEF When
  <2>2. s = <<f>>
    BY <2>1, SMT
  <2>3. K = {f.type} /\ E = {f}
    BY <1>7
  <2> QED
    BY <2>2, <2>3, OneIsTold
<1>8. CASE ~P /\ ~Q /\ ~R
  <2>1. When(P, d) = <<>> /\ When(Q, e) = <<>> /\ When(R, f) = <<>>
    BY <1>8 DEF When
  <2>2. s = <<>>
    BY <2>1, SMT
  <2>3. K = {} /\ E = {}
    BY <1>8
  <2> QED
    BY <2>2, <2>3, NothingIsTold
<1> QED
  BY <1>1, <1>2, <1>3, <1>4, <1>5, <1>6, <1>7, <1>8

\* A frame with one part or with two, each of which may be missing.
LEMMA PartIsTold ==
  ASSUME NEW P \in BOOLEAN, NEW d
  PROVE  Tells(When(P, d), IF P THEN {d.type} ELSE {}, IF P THEN {d} ELSE {})
  BY OneIsTold, NothingIsTold DEF When

LEMMA TwoPartsAreTold ==
  ASSUME NEW Q \in BOOLEAN, NEW R \in BOOLEAN, NEW e, NEW f, e.type # f.type
  PROVE  Tells(When(Q, e) \o When(R, f),
               (IF Q THEN {e.type} ELSE {}) \cup (IF R THEN {f.type} ELSE {}),
               (IF Q THEN {e} ELSE {}) \cup (IF R THEN {f} ELSE {}))
<1>1. CASE Q /\ R
  <2>1. When(Q, e) \o When(R, f) = <<e, f>>
    BY <1>1, TwoAreJoined DEF When
  <2>2. Tells(<<e, f>>, {e.type, f.type}, {e, f})
    BY TwoAreTold
  <2>3. {e.type} \cup {f.type} = {e.type, f.type} /\ {e} \cup {f} = {e, f}
    OBVIOUS
  <2> QED
    BY <1>1, <2>1, <2>2, <2>3
<1>2. CASE Q /\ ~R
  <2>1. When(Q, e) \o When(R, f) = <<e>>
    BY <1>2 DEF When
  <2> QED
    BY <1>2, <2>1, OneIsTold
<1>3. CASE ~Q /\ R
  <2>1. When(Q, e) \o When(R, f) = <<f>>
    BY <1>3 DEF When
  <2> QED
    BY <1>3, <2>1, OneIsTold
<1>4. CASE ~Q /\ ~R
  <2>1. When(Q, e) \o When(R, f) = <<>>
    BY <1>4 DEF When
  <2> QED
    BY <1>4, <2>1, NothingIsTold
<1> QED
  BY <1>1, <1>2, <1>3, <1>4

Told(p, asked, events) == [print |-> p, asked |-> asked, events |-> events]

\* A trade told with its taker's side is true.
LEMMA TradesAreTrue ==
  ASSUME NEW p, p.topic = "trades", NEW asked, NEW marks
  PROVE  TaleIsFair(Told(p, asked, <<TradePrint(p.market, p.side)>>), marks)
<1> DEFINE e == TradePrint(p.market, p.side)
           t == Told(p, asked, <<e>>)
<1>1. e.type = "Trade" /\ e.symbol = p.market /\ e.side = p.side
  BY DEF TradePrint
<1> HIDE DEF e
<1>2. t.print = p /\ t.asked = asked /\ t.events = <<e>>
  BY DEF Told
<1> HIDE DEF t
<1>3. Tells(<<e>>, {e.type}, {e})
  BY OneIsTold
<1>4. Owed(t) = {{"Trade"}}
  BY <1>2 DEF Owed
<1>5. TaleIsFair(t, marks)
  BY <1>1, <1>2, <1>3, <1>4 DEF TaleIsFair, TaleIsTrue, Tells, Types, RightSide, RightPrices
<1> QED
  BY <1>5 DEF t, e

\* A diff is a diff, and what is taken for a whole book is one.
LEMMA BooksAreTrue ==
  ASSUME NEW p, p.topic = "book", NEW asked, NEW marks, NEW e,
         e = BookDelta(p.market) \/ (e = BookSnapshot(p.market) /\ "whole" \in p.has)
  PROVE  TaleIsFair(Told(p, asked, <<e>>), marks)
<1> DEFINE t == Told(p, asked, <<e>>)
<1>1. e.type \in {"BookDelta", "BookSnapshot"} /\ e.symbol = p.market /\ (e.type = "BookSnapshot" => "whole" \in p.has)
  BY DEF BookDelta, BookSnapshot
<1>2. t.print = p /\ t.asked = asked /\ t.events = <<e>>
  BY DEF Told
<1> HIDE DEF t
<1>3. Tells(<<e>>, {e.type}, {e})
  BY OneIsTold
<1>4. {e.type} \in Owed(t)
  BY <1>1, <1>2 DEF Owed
<1>5. TaleIsFair(t, marks)
  BY <1>1, <1>2, <1>3, <1>4 DEF TaleIsFair, TaleIsTrue, Tells, Types, RightSide, RightPrices
<1> QED
  BY <1>5 DEF t

\* A forced order is told to who asked, with the side of the order.
LEMMA ForcedAreTrue ==
  ASSUME NEW p, p.topic = "forced", NEW asked, NEW marks
  PROVE  TaleIsFair(Told(p, asked, When("Liquidations" \in asked, Liquidation(p.market, p.side))), marks)
<1> DEFINE e == Liquidation(p.market, p.side)
           P == "Liquidations" \in asked
           t == Told(p, asked, When(P, e))
<1>1. e.type = "Liquidation" /\ e.symbol = p.market /\ e.side = p.side
  BY DEF Liquidation
<1>2. Tells(When(P, e), IF P THEN {e.type} ELSE {}, IF P THEN {e} ELSE {})
  <2>1. P \in BOOLEAN
    OBVIOUS
  <2> HIDE DEF P, e
  <2> QED
    BY <2>1, PartIsTold
<1>3. t.print = p /\ t.asked = asked /\ t.events = When(P, e)
  BY DEF Told
<1> HIDE DEF t, e
<1>4. Owed(t) = IF P THEN {{"Liquidation"}} ELSE {{}}
  BY <1>3 DEF Owed
<1> HIDE DEF P
<1>5. TaleIsFair(t, marks)
  BY <1>1, <1>2, <1>3, <1>4 DEF TaleIsFair, TaleIsTrue, Tells, Types, RightSide, RightPrices
<1> QED
  BY <1>5 DEF t, e, P

\* Figures are told to who asked for them, whole, and with no price that the
\* frame does not have.
Quotes(p, asked, P, Q, R, mark) ==
  /\ p.topic \in {"ticker", "mark", "funding", "instrument"}
  /\ asked \subseteq Derived
  /\ P <=> (p.topic = "ticker" /\ "last" \in p.has)
  /\ Q => "Funding" \in asked /\ "rate" \in p.has /\ (mark = "given" => "mark" \in p.has)
  /\ R => "MarkIndex" \in asked /\ {"mark", "index"} \subseteq p.has
  /\ Figures \subseteq p.has => ("Funding" \in asked => Q) /\ ("MarkIndex" \in asked => R)

Kinds(P, Q, R) ==
  (IF P THEN {"Ticker"} ELSE {}) \cup (IF Q THEN {"Funding"} ELSE {}) \cup (IF R THEN {"MarkIndex"} ELSE {})

Parts(P, Q, R, m, mark) ==
  (IF P THEN {Ticker(m)} ELSE {}) \cup (IF Q THEN {FundingRate(m, mark)} ELSE {})
    \cup (IF R THEN {MarkIndex(m, "given")} ELSE {})

\* A frame of a price, a rate and two prices, each told if it is there and was
\* asked for.
LEMMA QuotesAreTrue ==
  ASSUME NEW p, NEW asked, NEW P \in BOOLEAN, NEW Q \in BOOLEAN, NEW R \in BOOLEAN, NEW mark, NEW marks, NEW events,
         Quotes(p, asked, P, Q, R, mark),
         Q => mark \in marks, R => "given" \in marks,
         Tells(events, Kinds(P, Q, R), Parts(P, Q, R, p.market, mark))
  PROVE  TaleIsFair(Told(p, asked, events), marks)
<1> USE DEF Quotes
<1> DEFINE t == Told(p, asked, events)
           K == Kinds(P, Q, R)
<1>1. t.print = p /\ t.asked = asked /\ t.events = events
  BY DEF Told
<1> HIDE DEF t
<1>2. Range(Types(t)) = K /\ Len(events) = Cardinality(K)
  BY <1>1 DEF Tells, Types
<1>3. ASSUME NEW e \in Range(events)
      PROVE  \/ e = Ticker(p.market) /\ P
             \/ e = FundingRate(p.market, mark) /\ Q
             \/ e = MarkIndex(p.market, "given") /\ R
  BY <1>3 DEF Tells, Parts
<1>4. K \in Owed(t)
  <2>1. Owed(t) = {kinds \in SUBSET ({"Ticker"} \cup asked) :
            /\ ("Ticker" \in kinds) <=> (p.topic = "ticker" /\ "last" \in p.has)
            /\ Figures \subseteq p.has => asked \cap {"Funding", "MarkIndex"} \subseteq kinds}
    BY <1>1 DEF Owed
  <2>2. K \in SUBSET ({"Ticker"} \cup asked)
    BY DEF Kinds
  <2>3. ("Ticker" \in K) <=> P
    BY DEF Kinds
  <2>4. Figures \subseteq p.has => asked \cap {"Funding", "MarkIndex"} \subseteq K
    BY DEF Kinds
  <2> HIDE DEF K
  <2> QED
    BY <2>1, <2>2, <2>3, <2>4
<1>5. ASSUME NEW e \in Range(events)
      PROVE  /\ e.symbol = p.market
             /\ e.type \in {"Ticker", "Funding", "MarkIndex"}
             /\ e.type = "Funding" => "rate" \in p.has /\ (e.mark = "given" => "mark" \in p.has)
             /\ e.type = "MarkIndex" => e.mark = "given" /\ {"mark", "index"} \subseteq p.has
             /\ e.type \in {"Funding", "MarkIndex"} => e.mark \in marks
  BY <1>3, <1>5 DEF Ticker, FundingRate, MarkIndex
<1> HIDE DEF K
<1>6. TaleIsFair(t, marks)
  BY <1>1, <1>2, <1>4, <1>5 DEF TaleIsFair, TaleIsTrue, RightSide, RightPrices
<1> QED
  BY <1>6 DEF t

\* The forms that figures are told in: a ticker with or without the figures of
\* a contract, a mark, a funding rate alone, and KuCoin's two subjects.
LEMMA TickersAreTrue ==
  ASSUME NEW f, NEW p, f.has = p.has, p.topic = "ticker", NEW asked \in SUBSET Derived, NEW marks, "given" \in marks
  PROVE  TaleIsFair(Told(p, asked, Quoted(f, p.market) \o Marked(f, p.market, asked)), marks)
<1> DEFINE P == "last" \in p.has
           Q == "Funding" \in asked /\ {"rate", "mark"} \subseteq p.has
           R == "MarkIndex" \in asked /\ {"mark", "index"} \subseteq p.has
           d == Ticker(p.market)
           e == FundingRate(p.market, "given")
           g == MarkIndex(p.market, "given")
<1>1. Quoted(f, p.market) \o Marked(f, p.market, asked) = When(P, d) \o (When(Q, e) \o When(R, g))
  BY DEF Quoted, Marked
<1>2. d.type = "Ticker" /\ e.type = "Funding" /\ g.type = "MarkIndex"
  BY DEF Ticker, FundingRate, MarkIndex
<1>3. P \in BOOLEAN /\ Q \in BOOLEAN /\ R \in BOOLEAN
  OBVIOUS
<1>4. Quotes(p, asked, P, Q, R, "given")
  BY DEF Quotes, Figures
<1> DEFINE events == When(P, d) \o (When(Q, e) \o When(R, g))
<1>5. Tells(events, Kinds(P, Q, R), Parts(P, Q, R, p.market, "given"))
  <2>1. Parts(P, Q, R, p.market, "given")
        = (IF P THEN {d} ELSE {}) \cup (IF Q THEN {e} ELSE {}) \cup (IF R THEN {g} ELSE {})
    BY DEF Parts
  <2> HIDE DEF P, Q, R, d, e, g
  <2> QED
    BY <1>2, <1>3, <2>1, PartsAreTold DEF Kinds
<1> HIDE DEF P, Q, R, events
<1>6. TaleIsFair(Told(p, asked, events), marks)
  BY <1>3, <1>4, <1>5, QuotesAreTrue
<1> QED
  BY <1>1, <1>6 DEF events

\* A frame of the mark, and of the rate and the index with it or not.
LEMMA MarksAreTrue ==
  ASSUME NEW f, NEW p, f.has = p.has, p.topic = "mark", NEW asked \in SUBSET Derived, NEW marks, "given" \in marks
  PROVE  TaleIsFair(Told(p, asked, Marked(f, p.market, asked)), marks)
<1> DEFINE Q == "Funding" \in asked /\ {"rate", "mark"} \subseteq p.has
           R == "MarkIndex" \in asked /\ {"mark", "index"} \subseteq p.has
           e == FundingRate(p.market, "given")
           g == MarkIndex(p.market, "given")
<1>1. Marked(f, p.market, asked) = When(Q, e) \o When(R, g)
  BY DEF Marked
<1>2. e.type = "Funding" /\ g.type = "MarkIndex"
  BY DEF FundingRate, MarkIndex
<1>3. Q \in BOOLEAN /\ R \in BOOLEAN
  OBVIOUS
<1>4. Quotes(p, asked, FALSE, Q, R, "given")
  BY DEF Quotes, Figures
<1> DEFINE events == When(Q, e) \o When(R, g)
<1>5. Tells(events, (IF Q THEN {"Funding"} ELSE {}) \cup (IF R THEN {"MarkIndex"} ELSE {}),
                    (IF Q THEN {e} ELSE {}) \cup (IF R THEN {g} ELSE {}))
  <2> HIDE DEF Q, R, e, g
  <2> QED
    BY <1>2, <1>3, TwoPartsAreTold
<1>6. Tells(events, Kinds(FALSE, Q, R), Parts(FALSE, Q, R, p.market, "given"))
  <2>1. Parts(FALSE, Q, R, p.market, "given") = (IF Q THEN {e} ELSE {}) \cup (IF R THEN {g} ELSE {})
    BY DEF Parts
  <2>2. Kinds(FALSE, Q, R) = (IF Q THEN {"Funding"} ELSE {}) \cup (IF R THEN {"MarkIndex"} ELSE {})
    BY DEF Kinds
  <2> QED
    BY <1>5, <2>1, <2>2
<1> HIDE DEF Q, R, events
<1>7. TaleIsFair(Told(p, asked, events), marks)
  BY <1>3, <1>4, <1>6, QuotesAreTrue
<1> QED
  BY <1>1, <1>7 DEF events

\* A ticker that has the last price alone.
LEMMA LastPricesAreTrue ==
  ASSUME NEW f, NEW p, f.has = p.has, p.topic = "ticker", p.has = {"last"}, NEW asked \in SUBSET Derived, NEW marks
  PROVE  TaleIsFair(Told(p, asked, Quoted(f, p.market)), marks)
<1> DEFINE d == Ticker(p.market)
<1>1. Quoted(f, p.market) = <<d>>
  BY DEF Quoted, When
<1>2. d.type = "Ticker"
  BY DEF Ticker
<1>3. Tells(<<d>>, {"Ticker"}, {d})
  <2> HIDE DEF d
  <2> QED
    BY <1>2, OneIsTold
<1>4. Tells(<<d>>, Kinds(TRUE, FALSE, FALSE), Parts(TRUE, FALSE, FALSE, p.market, "given"))
  BY <1>3 DEF Kinds, Parts
<1>5. Quotes(p, asked, TRUE, FALSE, FALSE, "given")
  BY DEF Quotes, Figures
<1>6. TaleIsFair(Told(p, asked, <<d>>), marks)
  <2> HIDE DEF d
  <2> QED
    BY <1>4, <1>5, QuotesAreTrue
<1> QED
  BY <1>1, <1>6

\* A frame of the rate alone.
LEMMA RatesAreTrue ==
  ASSUME NEW p, p.topic = "funding", p.has = {"rate"}, NEW asked \in SUBSET Derived, NEW marks, "zero" \in marks, NEW events,
         \/ events = When("Funding" \in asked, FundingRate(p.market, "zero"))
         \/ events = <<FundingRate(p.market, "zero")>> /\ "Funding" \in asked
  PROVE  TaleIsFair(Told(p, asked, events), marks)
<1> DEFINE Q == "Funding" \in asked
           e == FundingRate(p.market, "zero")
<1>1. events = When(Q, e)
  BY DEF When
<1>2. e.type = "Funding"
  BY DEF FundingRate
<1>3. Q \in BOOLEAN
  OBVIOUS
<1>4. Tells(events, IF Q THEN {"Funding"} ELSE {}, IF Q THEN {e} ELSE {})
  <2> HIDE DEF Q, e
  <2> QED
    BY <1>1, <1>2, <1>3, PartIsTold
<1>5. Tells(events, Kinds(FALSE, Q, FALSE), Parts(FALSE, Q, FALSE, p.market, "zero"))
  <2>1. Parts(FALSE, Q, FALSE, p.market, "zero") = IF Q THEN {e} ELSE {}
    BY DEF Parts
  <2>2. Kinds(FALSE, Q, FALSE) = IF Q THEN {"Funding"} ELSE {}
    BY DEF Kinds
  <2> QED
    BY <1>4, <2>1, <2>2
<1>6. Quotes(p, asked, FALSE, Q, FALSE, "zero")
  BY DEF Quotes, Figures
<1> HIDE DEF Q
<1> QED
  BY <1>3, <1>5, <1>6, QuotesAreTrue

\* A frame of one of two subjects: the rate, or the mark and the index.
LEMMA SubjectsAreTrue ==
  ASSUME NEW p, p.topic = "instrument", p.has \in {{"rate"}, {"mark", "index"}}, NEW asked \in SUBSET Derived, NEW marks, {"zero", "given"} \subseteq marks
  PROVE  TaleIsFair(Told(p, asked,
           When("Funding" \in asked /\ "rate" \in p.has, FundingRate(p.market, "zero"))
           \o When("MarkIndex" \in asked /\ {"mark", "index"} \subseteq p.has, MarkIndex(p.market, "given"))), marks)
<1> DEFINE Q == "Funding" \in asked /\ "rate" \in p.has
           R == "MarkIndex" \in asked /\ {"mark", "index"} \subseteq p.has
           e == FundingRate(p.market, "zero")
           g == MarkIndex(p.market, "given")
           events == When(Q, e) \o When(R, g)
<1>1. e.type = "Funding" /\ g.type = "MarkIndex"
  BY DEF FundingRate, MarkIndex
<1>2. Q \in BOOLEAN /\ R \in BOOLEAN
  OBVIOUS
<1>3. Tells(events, (IF Q THEN {"Funding"} ELSE {}) \cup (IF R THEN {"MarkIndex"} ELSE {}),
                    (IF Q THEN {e} ELSE {}) \cup (IF R THEN {g} ELSE {}))
  <2> HIDE DEF Q, R, e, g
  <2> QED
    BY <1>1, <1>2, TwoPartsAreTold
<1>4. Tells(events, Kinds(FALSE, Q, R), Parts(FALSE, Q, R, p.market, "zero"))
  <2>1. Parts(FALSE, Q, R, p.market, "zero") = (IF Q THEN {e} ELSE {}) \cup (IF R THEN {g} ELSE {})
    BY DEF Parts
  <2>2. Kinds(FALSE, Q, R) = (IF Q THEN {"Funding"} ELSE {}) \cup (IF R THEN {"MarkIndex"} ELSE {})
    BY DEF Kinds
  <2> QED
    BY <1>3, <2>1, <2>2
<1>5. Quotes(p, asked, FALSE, Q, R, "zero")
  BY DEF Quotes, Figures
<1>6. TaleIsFair(Told(p, asked, events), marks)
  <2> HIDE DEF Q, R, events, e, g
  <2> QED
    BY ONLY <1>2, <1>4, <1>5, "zero" \in marks, "given" \in marks, QuotesAreTrue
<1> QED
  BY <1>6

\* What a client may say of the price beside a rate: HTX's and OKX's frames
\* have none, KuCoin's have it or not.
MarksOf(c) ==
  CASE c.venue \in {"htx", "okx"} -> {"zero"}
    [] c.venue = "kucoin" -> {"zero", "given"}
    [] OTHER -> {"given"}

\* A print as its client is sent it: of a topic that it asks for.
IsSent(c, m, p) == c \in Clients /\ m \in Symbols /\ p \in Prints(c, m) /\ p.topic \in TopicsOf(c)

\* What a frame keeps of the print that it carries.
LEMMA FramesCarryPrints ==
  ASSUME NEW c, NEW m, NEW p, IsSent(c, m, p)
  PROVE  LET f == Frame(c, p)
         IN  /\ p.market = m /\ f.topic = p.topic /\ f.has = p.has /\ f.wire = Wire(c, m) /\ f.said = Said(c, p)
             /\ p.topic \in {"trades", "forced"} => p.side \in {"Buy", "Sell"}
             /\ p.topic = "funding" => p.has = {"rate"}
             /\ p.topic = "instrument" => p.has \in {{"rate"}, {"mark", "index"}}
             /\ (p.topic = "ticker" /\ ~Swap(c)) => p.has = {"last"}
             /\ (p.topic = "ticker" /\ c.venue \notin {"bybit", "gate", "kraken", "bitget"}) => p.has = {"last"}
             /\ (p.topic = "book" /\ c.venue = "upbit") => p.has = {"whole"}
<1>1. p.market = m /\ (p.topic \in {"trades", "forced"} => p.side \in {"Buy", "Sell"})
  BY PrintsAre DEF IsSent
<1>2. (p.topic = "funding" => p.has = {"rate"}) /\ (p.topic = "instrument" => p.has \in {{"rate"}, {"mark", "index"}})
  BY PrintsAre DEF IsSent
<1>3. (p.topic = "ticker" => p.has \in TickerFigures(c)) /\ (p.topic = "book" => p.has \in BookKinds(c))
  BY PrintsAre DEF IsSent
<1>4. (~Swap(c) \/ c.venue \notin {"bybit", "gate", "kraken", "bitget"}) => TickerFigures(c) = {{"last"}}
  BY DEF TickerFigures
<1>5. c.venue = "upbit" => BookKinds(c) = {{"whole"}}
  BY DEF BookKinds
<1> QED
  BY <1>1, <1>2, <1>3, <1>4, <1>5 DEF Frame

\* Each client tells each frame that it is sent truly.
LEMMA BinanceFramesAreTrue ==
  ASSUME NEW c, NEW m, NEW p, IsSent(c, m, p), c.venue = "binance", NEW asked \in SUBSET Derived
  PROVE  TaleIsFair(Told(p, asked, BinanceFrame(Frame(c, p), m, asked)), MarksOf(c))
<1> DEFINE f == Frame(c, p)
<1>1. /\ p.market = m /\ f.topic = p.topic /\ f.has = p.has /\ f.said = Said(c, p)
      /\ p.topic \in {"trades", "forced"} => p.side \in {"Buy", "Sell"}
      /\ p.topic = "funding" => p.has = {"rate"}
      /\ p.topic = "instrument" => p.has \in {{"rate"}, {"mark", "index"}}
      /\ (p.topic = "ticker" /\ ~Swap(c)) => p.has = {"last"}
      /\ (p.topic = "ticker" /\ c.venue \notin {"bybit", "gate", "kraken", "bitget"}) => p.has = {"last"}
      /\ (p.topic = "book" /\ c.venue = "upbit") => p.has = {"whole"}
  BY FramesCarryPrints
<1>2. p.topic \in {"trades", "book", "ticker", "mark", "forced"}
  BY DEF IsSent, TopicsOf
<1> HIDE DEF f
<1> SUFFICES TaleIsFair(Told(p, asked, BinanceFrame(f, m, asked)), MarksOf(c))
  BY DEF f
<1>3. CASE p.topic = "trades"
  <2>1. BinanceFrame(f, m, asked) = <<TradePrint(m, p.side)>>
    BY <1>1, <1>3 DEF BinanceFrame, BinanceSide, Said
  <2> QED
    BY <1>1, <1>3, <2>1, TradesAreTrue
<1>4. CASE p.topic = "book"
  <2>1. \E e : BinanceFrame(f, m, asked) = <<e>> /\ (e = BookDelta(m) \/ (e = BookSnapshot(m) /\ "whole" \in p.has))
    BY <1>1, <1>4 DEF BinanceFrame, Diff
  <2> QED
    BY <1>1, <1>4, <2>1, BooksAreTrue
<1>5. CASE p.topic = "ticker"
  <2>1. BinanceFrame(f, m, asked) = Quoted(f, m)
    BY <1>1, <1>5 DEF BinanceFrame
  <2> QED
    BY <1>1, <1>5, <2>1, LastPricesAreTrue
<1>6. CASE p.topic = "mark"
  <2>1. BinanceFrame(f, m, asked) = Marked(f, m, asked)
    BY <1>1, <1>6 DEF BinanceFrame, BinanceDerivatives
  <2>2. "given" \in MarksOf(c)
    BY DEF MarksOf
  <2> QED
    BY <1>1, <1>6, <2>1, MarksAreTrue, <2>2
<1>7. CASE p.topic = "forced"
  <2>1. BinanceFrame(f, m, asked) = When("Liquidations" \in asked, Liquidation(m, p.side))
    BY <1>1, <1>7 DEF BinanceFrame, BinanceDerivatives, Said
  <2> QED
    BY <1>1, <1>7, <2>1, ForcedAreTrue
<1> QED
  BY <1>2, <1>3, <1>4, <1>5, <1>6, <1>7

LEMMA BitgetFramesAreTrue ==
  ASSUME NEW c, NEW m, NEW p, IsSent(c, m, p), c.venue = "bitget", NEW asked \in SUBSET Derived
  PROVE  TaleIsFair(Told(p, asked, BitgetFrame(Frame(c, p), m, asked)), MarksOf(c))
<1> DEFINE f == Frame(c, p)
<1>1. /\ p.market = m /\ f.topic = p.topic /\ f.has = p.has /\ f.said = Said(c, p)
      /\ p.topic \in {"trades", "forced"} => p.side \in {"Buy", "Sell"}
      /\ p.topic = "funding" => p.has = {"rate"}
      /\ p.topic = "instrument" => p.has \in {{"rate"}, {"mark", "index"}}
      /\ (p.topic = "ticker" /\ ~Swap(c)) => p.has = {"last"}
      /\ (p.topic = "ticker" /\ c.venue \notin {"bybit", "gate", "kraken", "bitget"}) => p.has = {"last"}
      /\ (p.topic = "book" /\ c.venue = "upbit") => p.has = {"whole"}
  BY FramesCarryPrints
<1>2. p.topic \in {"trades", "book", "ticker"}
  BY DEF IsSent, TopicsOf
<1> HIDE DEF f
<1> SUFFICES TaleIsFair(Told(p, asked, BitgetFrame(f, m, asked)), MarksOf(c))
  BY DEF f
<1>3. CASE p.topic = "trades"
  <2>1. BitgetFrame(f, m, asked) = <<TradePrint(m, p.side)>>
    BY <1>1, <1>3 DEF BitgetFrame, Said
  <2> QED
    BY <1>1, <1>3, <2>1, TradesAreTrue
<1>4. CASE p.topic = "book"
  <2>1. \E e : BitgetFrame(f, m, asked) = <<e>> /\ (e = BookDelta(m) \/ (e = BookSnapshot(m) /\ "whole" \in p.has))
    BY <1>1, <1>4 DEF BitgetFrame, WholeOrDiff
  <2> QED
    BY <1>1, <1>4, <2>1, BooksAreTrue
<1>5. CASE p.topic = "ticker"
  <2>1. BitgetFrame(f, m, asked) = Quoted(f, m) \o Marked(f, m, asked)
    BY <1>1, <1>5 DEF BitgetFrame
  <2>2. "given" \in MarksOf(c)
    BY DEF MarksOf
  <2>3. TaleIsFair(Told(p, asked, Quoted(f, p.market) \o Marked(f, p.market, asked)), MarksOf(c))
    BY <1>1, <1>5, <2>2, TickersAreTrue
  <2> QED
    BY <1>1, <2>1, <2>3
<1> QED
  BY <1>2, <1>3, <1>4, <1>5

LEMMA BybitFramesAreTrue ==
  ASSUME NEW c, NEW m, NEW p, IsSent(c, m, p), c.venue = "bybit", NEW asked \in SUBSET Derived
  PROVE  TaleIsFair(Told(p, asked, BybitFrame(Frame(c, p), m, asked)), MarksOf(c))
<1> DEFINE f == Frame(c, p)
<1>1. /\ p.market = m /\ f.topic = p.topic /\ f.has = p.has /\ f.said = Said(c, p)
      /\ p.topic \in {"trades", "forced"} => p.side \in {"Buy", "Sell"}
      /\ p.topic = "funding" => p.has = {"rate"}
      /\ p.topic = "instrument" => p.has \in {{"rate"}, {"mark", "index"}}
      /\ (p.topic = "ticker" /\ ~Swap(c)) => p.has = {"last"}
      /\ (p.topic = "ticker" /\ c.venue \notin {"bybit", "gate", "kraken", "bitget"}) => p.has = {"last"}
      /\ (p.topic = "book" /\ c.venue = "upbit") => p.has = {"whole"}
  BY FramesCarryPrints
<1>2. p.topic \in {"trades", "book", "ticker", "forced"}
  BY DEF IsSent, TopicsOf
<1> HIDE DEF f
<1> SUFFICES TaleIsFair(Told(p, asked, BybitFrame(f, m, asked)), MarksOf(c))
  BY DEF f
<1>3. CASE p.topic = "trades"
  <2>1. BybitFrame(f, m, asked) = <<TradePrint(m, p.side)>>
    BY <1>1, <1>3 DEF BybitFrame, Said
  <2> QED
    BY <1>1, <1>3, <2>1, TradesAreTrue
<1>4. CASE p.topic = "book"
  <2>1. \E e : BybitFrame(f, m, asked) = <<e>> /\ (e = BookDelta(m) \/ (e = BookSnapshot(m) /\ "whole" \in p.has))
    BY <1>1, <1>4 DEF BybitFrame, WholeOrDiff
  <2> QED
    BY <1>1, <1>4, <2>1, BooksAreTrue
<1>5. CASE p.topic = "ticker"
  <2>1. BybitFrame(f, m, asked) = Quoted(f, m) \o Marked(f, m, asked)
    BY <1>1, <1>5 DEF BybitFrame, BybitDerivatives
  <2>2. "given" \in MarksOf(c)
    BY DEF MarksOf
  <2>3. TaleIsFair(Told(p, asked, Quoted(f, p.market) \o Marked(f, p.market, asked)), MarksOf(c))
    BY <1>1, <1>5, <2>2, TickersAreTrue
  <2> QED
    BY <1>1, <2>1, <2>3
<1>6. CASE p.topic = "forced"
  <2>1. BybitFrame(f, m, asked) = When("Liquidations" \in asked, Liquidation(m, p.side))
    BY <1>1, <1>6 DEF BybitFrame, BybitDerivatives, Said
  <2> QED
    BY <1>1, <1>6, <2>1, ForcedAreTrue
<1> QED
  BY <1>2, <1>3, <1>4, <1>5, <1>6

LEMMA CoinbaseFramesAreTrue ==
  ASSUME NEW c, NEW m, NEW p, IsSent(c, m, p), c.venue = "coinbase", NEW asked \in SUBSET Derived
  PROVE  TaleIsFair(Told(p, asked, CoinbaseFrame(Frame(c, p), m)), MarksOf(c))
<1> DEFINE f == Frame(c, p)
<1>1. /\ p.market = m /\ f.topic = p.topic /\ f.has = p.has /\ f.said = Said(c, p)
      /\ p.topic \in {"trades", "forced"} => p.side \in {"Buy", "Sell"}
      /\ p.topic = "funding" => p.has = {"rate"}
      /\ p.topic = "instrument" => p.has \in {{"rate"}, {"mark", "index"}}
      /\ (p.topic = "ticker" /\ ~Swap(c)) => p.has = {"last"}
      /\ (p.topic = "ticker" /\ c.venue \notin {"bybit", "gate", "kraken", "bitget"}) => p.has = {"last"}
      /\ (p.topic = "book" /\ c.venue = "upbit") => p.has = {"whole"}
  BY FramesCarryPrints
<1>2. p.topic \in {"trades", "book", "ticker"}
  BY DEF IsSent, TopicsOf
<1> HIDE DEF f
<1> SUFFICES TaleIsFair(Told(p, asked, CoinbaseFrame(f, m)), MarksOf(c))
  BY DEF f
<1>3. CASE p.topic = "trades"
  <2>1. CoinbaseFrame(f, m) = <<TradePrint(m, p.side)>>
    BY <1>1, <1>3 DEF CoinbaseFrame, Said
  <2> QED
    BY <1>1, <1>3, <2>1, TradesAreTrue
<1>4. CASE p.topic = "book"
  <2>1. \E e : CoinbaseFrame(f, m) = <<e>> /\ (e = BookDelta(m) \/ (e = BookSnapshot(m) /\ "whole" \in p.has))
    BY <1>1, <1>4 DEF CoinbaseFrame, Diff
  <2> QED
    BY <1>1, <1>4, <2>1, BooksAreTrue
<1>5. CASE p.topic = "ticker"
  <2>1. CoinbaseFrame(f, m) = Quoted(f, m)
    BY <1>1, <1>5 DEF CoinbaseFrame
  <2> QED
    BY <1>1, <1>5, <2>1, LastPricesAreTrue
<1> QED
  BY <1>2, <1>3, <1>4, <1>5

LEMMA GateFramesAreTrue ==
  ASSUME NEW c, NEW m, NEW p, IsSent(c, m, p), c.venue = "gate", NEW asked \in SUBSET Derived
  PROVE  TaleIsFair(Told(p, asked, GateFrame(c, Frame(c, p), m, asked)), MarksOf(c))
<1> DEFINE f == Frame(c, p)
<1>1. /\ p.market = m /\ f.topic = p.topic /\ f.has = p.has /\ f.said = Said(c, p)
      /\ p.topic \in {"trades", "forced"} => p.side \in {"Buy", "Sell"}
      /\ p.topic = "funding" => p.has = {"rate"}
      /\ p.topic = "instrument" => p.has \in {{"rate"}, {"mark", "index"}}
      /\ (p.topic = "ticker" /\ ~Swap(c)) => p.has = {"last"}
      /\ (p.topic = "ticker" /\ c.venue \notin {"bybit", "gate", "kraken", "bitget"}) => p.has = {"last"}
      /\ (p.topic = "book" /\ c.venue = "upbit") => p.has = {"whole"}
  BY FramesCarryPrints
<1>2. p.topic \in {"trades", "book", "ticker"}
  BY DEF IsSent, TopicsOf
<1> HIDE DEF f
<1> SUFFICES TaleIsFair(Told(p, asked, GateFrame(c, f, m, asked)), MarksOf(c))
  BY DEF f
<1>3. CASE p.topic = "trades"
  <2>1. GateFrame(c, f, m, asked) = <<TradePrint(m, p.side)>>
    BY <1>1, <1>3 DEF GateFrame, GateSigned, Said
  <2> QED
    BY <1>1, <1>3, <2>1, TradesAreTrue
<1>4. CASE p.topic = "book"
  <2>1. \E e : GateFrame(c, f, m, asked) = <<e>> /\ (e = BookDelta(m) \/ (e = BookSnapshot(m) /\ "whole" \in p.has))
    BY <1>1, <1>4 DEF GateFrame, Diff
  <2> QED
    BY <1>1, <1>4, <2>1, BooksAreTrue
<1>5. CASE p.topic = "ticker"
  <2>1. GateFrame(c, f, m, asked) = Quoted(f, m) \o Marked(f, m, asked)
    BY <1>1, <1>5 DEF GateFrame
  <2>2. "given" \in MarksOf(c)
    BY DEF MarksOf
  <2>3. TaleIsFair(Told(p, asked, Quoted(f, p.market) \o Marked(f, p.market, asked)), MarksOf(c))
    BY <1>1, <1>5, <2>2, TickersAreTrue
  <2> QED
    BY <1>1, <2>1, <2>3
<1> QED
  BY <1>2, <1>3, <1>4, <1>5

LEMMA KrakenFuturesFramesAreTrue ==
  ASSUME NEW c, NEW m, NEW p, IsSent(c, m, p), c.venue = "kraken", NEW asked \in SUBSET Derived
  PROVE  TaleIsFair(Told(p, asked, KrakenFuturesFrame(Frame(c, p), m, asked)), MarksOf(c))
<1> DEFINE f == Frame(c, p)
<1>1. /\ p.market = m /\ f.topic = p.topic /\ f.has = p.has /\ f.said = Said(c, p)
      /\ p.topic \in {"trades", "forced"} => p.side \in {"Buy", "Sell"}
      /\ p.topic = "funding" => p.has = {"rate"}
      /\ p.topic = "instrument" => p.has \in {{"rate"}, {"mark", "index"}}
      /\ (p.topic = "ticker" /\ ~Swap(c)) => p.has = {"last"}
      /\ (p.topic = "ticker" /\ c.venue \notin {"bybit", "gate", "kraken", "bitget"}) => p.has = {"last"}
      /\ (p.topic = "book" /\ c.venue = "upbit") => p.has = {"whole"}
  BY FramesCarryPrints
<1>2. p.topic \in {"trades", "book", "ticker"}
  BY DEF IsSent, TopicsOf
<1>0. m # "dropped"
  BY FeedsAssumption DEF IsSent
<1> HIDE DEF f
<1> SUFFICES TaleIsFair(Told(p, asked, KrakenFuturesFrame(f, m, asked)), MarksOf(c))
  BY DEF f
<1>3. CASE p.topic = "trades"
  <2>1. KrakenFuturesFrame(f, m, asked) = <<TradePrint(m, p.side)>>
    BY <1>0, <1>1, <1>3 DEF KrakenFuturesFrame, Said
  <2> QED
    BY <1>1, <1>3, <2>1, TradesAreTrue
<1>4. CASE p.topic = "book"
  <2>1. \E e : KrakenFuturesFrame(f, m, asked) = <<e>> /\ (e = BookDelta(m) \/ (e = BookSnapshot(m) /\ "whole" \in p.has))
    BY <1>0, <1>1, <1>4 DEF KrakenFuturesFrame, WholeOrDiff
  <2> QED
    BY <1>1, <1>4, <2>1, BooksAreTrue
<1>5. CASE p.topic = "ticker"
  <2>1. KrakenFuturesFrame(f, m, asked) = Quoted(f, m) \o Marked(f, m, asked)
    BY <1>0, <1>1, <1>5 DEF KrakenFuturesFrame
  <2>2. "given" \in MarksOf(c)
    BY DEF MarksOf
  <2>3. TaleIsFair(Told(p, asked, Quoted(f, p.market) \o Marked(f, p.market, asked)), MarksOf(c))
    BY <1>1, <1>5, <2>2, TickersAreTrue
  <2> QED
    BY <1>1, <2>1, <2>3
<1> QED
  BY <1>2, <1>3, <1>4, <1>5

LEMMA KrakenFramesAreTrue ==
  ASSUME NEW c, NEW m, NEW p, IsSent(c, m, p), c.venue = "kraken", NEW asked \in SUBSET Derived, ~Swap(c)
  PROVE  TaleIsFair(Told(p, asked, KrakenFrame(Frame(c, p), m)), MarksOf(c))
<1> DEFINE f == Frame(c, p)
<1>1. /\ p.market = m /\ f.topic = p.topic /\ f.has = p.has /\ f.said = Said(c, p)
      /\ p.topic \in {"trades", "forced"} => p.side \in {"Buy", "Sell"}
      /\ p.topic = "funding" => p.has = {"rate"}
      /\ p.topic = "instrument" => p.has \in {{"rate"}, {"mark", "index"}}
      /\ (p.topic = "ticker" /\ ~Swap(c)) => p.has = {"last"}
      /\ (p.topic = "ticker" /\ c.venue \notin {"bybit", "gate", "kraken", "bitget"}) => p.has = {"last"}
      /\ (p.topic = "book" /\ c.venue = "upbit") => p.has = {"whole"}
  BY FramesCarryPrints
<1>2. p.topic \in {"trades", "book", "ticker"}
  BY DEF IsSent, TopicsOf
<1> HIDE DEF f
<1> SUFFICES TaleIsFair(Told(p, asked, KrakenFrame(f, m)), MarksOf(c))
  BY DEF f
<1>3. CASE p.topic = "trades"
  <2>1. KrakenFrame(f, m) = <<TradePrint(m, p.side)>>
    BY <1>1, <1>3 DEF KrakenFrame, Said
  <2> QED
    BY <1>1, <1>3, <2>1, TradesAreTrue
<1>4. CASE p.topic = "book"
  <2>1. \E e : KrakenFrame(f, m) = <<e>> /\ (e = BookDelta(m) \/ (e = BookSnapshot(m) /\ "whole" \in p.has))
    BY <1>1, <1>4 DEF KrakenFrame, WholeOrDiff
  <2> QED
    BY <1>1, <1>4, <2>1, BooksAreTrue
<1>5. CASE p.topic = "ticker"
  <2>1. KrakenFrame(f, m) = Quoted(f, m)
    BY <1>1, <1>5 DEF KrakenFrame
  <2> QED
    BY <1>1, <1>5, <2>1, LastPricesAreTrue
<1> QED
  BY <1>2, <1>3, <1>4, <1>5

LEMMA KuCoinFuturesFramesAreTrue ==
  ASSUME NEW c, NEW m, NEW p, IsSent(c, m, p), c.venue = "kucoin", NEW asked \in SUBSET Derived
  PROVE  TaleIsFair(Told(p, asked, KuCoinFuturesFrame(Frame(c, p), m, asked)), MarksOf(c))
<1> DEFINE f == Frame(c, p)
<1>1. /\ p.market = m /\ f.topic = p.topic /\ f.has = p.has /\ f.said = Said(c, p)
      /\ p.topic \in {"trades", "forced"} => p.side \in {"Buy", "Sell"}
      /\ p.topic = "funding" => p.has = {"rate"}
      /\ p.topic = "instrument" => p.has \in {{"rate"}, {"mark", "index"}}
      /\ (p.topic = "ticker" /\ ~Swap(c)) => p.has = {"last"}
      /\ (p.topic = "ticker" /\ c.venue \notin {"bybit", "gate", "kraken", "bitget"}) => p.has = {"last"}
      /\ (p.topic = "book" /\ c.venue = "upbit") => p.has = {"whole"}
  BY FramesCarryPrints
<1>2. p.topic \in {"trades", "book", "ticker", "instrument"}
  BY DEF IsSent, TopicsOf
<1> HIDE DEF f
<1> SUFFICES TaleIsFair(Told(p, asked, KuCoinFuturesFrame(f, m, asked)), MarksOf(c))
  BY DEF f
<1>3. CASE p.topic = "trades"
  <2>1. KuCoinFuturesFrame(f, m, asked) = <<TradePrint(m, p.side)>>
    BY <1>1, <1>3 DEF KuCoinFuturesFrame, Said
  <2> QED
    BY <1>1, <1>3, <2>1, TradesAreTrue
<1>4. CASE p.topic = "book"
  <2>1. \E e : KuCoinFuturesFrame(f, m, asked) = <<e>> /\ (e = BookDelta(m) \/ (e = BookSnapshot(m) /\ "whole" \in p.has))
    BY <1>1, <1>4 DEF KuCoinFuturesFrame, Diff
  <2> QED
    BY <1>1, <1>4, <2>1, BooksAreTrue
<1>5. CASE p.topic = "ticker"
  <2>1. KuCoinFuturesFrame(f, m, asked) = Quoted(f, m)
    BY <1>1, <1>5 DEF KuCoinFuturesFrame
  <2> QED
    BY <1>1, <1>5, <2>1, LastPricesAreTrue
<1>6. CASE p.topic = "instrument"
  <2>1. KuCoinFuturesFrame(f, m, asked) = When("Funding" \in asked /\ "rate" \in p.has, FundingRate(m, "zero")) \o When("MarkIndex" \in asked /\ {"mark", "index"} \subseteq p.has, MarkIndex(m, "given"))
    BY <1>1, <1>6 DEF KuCoinFuturesFrame
  <2> QED
    BY <1>1, <1>6, <2>1, SubjectsAreTrue DEF MarksOf
<1> QED
  BY <1>2, <1>3, <1>4, <1>5, <1>6

LEMMA KuCoinFramesAreTrue ==
  ASSUME NEW c, NEW m, NEW p, IsSent(c, m, p), c.venue = "kucoin", NEW asked \in SUBSET Derived, ~Swap(c)
  PROVE  TaleIsFair(Told(p, asked, KuCoinFrame(Frame(c, p), m)), MarksOf(c))
<1> DEFINE f == Frame(c, p)
<1>1. /\ p.market = m /\ f.topic = p.topic /\ f.has = p.has /\ f.said = Said(c, p)
      /\ p.topic \in {"trades", "forced"} => p.side \in {"Buy", "Sell"}
      /\ p.topic = "funding" => p.has = {"rate"}
      /\ p.topic = "instrument" => p.has \in {{"rate"}, {"mark", "index"}}
      /\ (p.topic = "ticker" /\ ~Swap(c)) => p.has = {"last"}
      /\ (p.topic = "ticker" /\ c.venue \notin {"bybit", "gate", "kraken", "bitget"}) => p.has = {"last"}
      /\ (p.topic = "book" /\ c.venue = "upbit") => p.has = {"whole"}
  BY FramesCarryPrints
<1>2. p.topic \in {"trades", "book", "ticker"}
  BY DEF IsSent, TopicsOf
<1> HIDE DEF f
<1> SUFFICES TaleIsFair(Told(p, asked, KuCoinFrame(f, m)), MarksOf(c))
  BY DEF f
<1>3. CASE p.topic = "trades"
  <2>1. KuCoinFrame(f, m) = <<TradePrint(m, p.side)>>
    BY <1>1, <1>3 DEF KuCoinFrame, Said
  <2> QED
    BY <1>1, <1>3, <2>1, TradesAreTrue
<1>4. CASE p.topic = "book"
  <2>1. \E e : KuCoinFrame(f, m) = <<e>> /\ (e = BookDelta(m) \/ (e = BookSnapshot(m) /\ "whole" \in p.has))
    BY <1>1, <1>4 DEF KuCoinFrame, Diff
  <2> QED
    BY <1>1, <1>4, <2>1, BooksAreTrue
<1>5. CASE p.topic = "ticker"
  <2>1. KuCoinFrame(f, m) = Quoted(f, m)
    BY <1>1, <1>5 DEF KuCoinFrame
  <2> QED
    BY <1>1, <1>5, <2>1, LastPricesAreTrue
<1> QED
  BY <1>2, <1>3, <1>4, <1>5

LEMMA OkxFramesAreTrue ==
  ASSUME NEW c, NEW m, NEW p, IsSent(c, m, p), c.venue = "okx", NEW asked \in SUBSET Derived,
         p.topic = "funding" => "Funding" \in asked
  PROVE  TaleIsFair(Told(p, asked, OkxFrame(Frame(c, p), m, asked)), MarksOf(c))
<1> DEFINE f == Frame(c, p)
<1>1. /\ p.market = m /\ f.topic = p.topic /\ f.has = p.has /\ f.said = Said(c, p)
      /\ p.topic \in {"trades", "forced"} => p.side \in {"Buy", "Sell"}
      /\ p.topic = "funding" => p.has = {"rate"}
      /\ p.topic = "instrument" => p.has \in {{"rate"}, {"mark", "index"}}
      /\ (p.topic = "ticker" /\ ~Swap(c)) => p.has = {"last"}
      /\ (p.topic = "ticker" /\ c.venue \notin {"bybit", "gate", "kraken", "bitget"}) => p.has = {"last"}
      /\ (p.topic = "book" /\ c.venue = "upbit") => p.has = {"whole"}
  BY FramesCarryPrints
<1>2. p.topic \in {"trades", "book", "ticker", "funding", "forced"}
  BY DEF IsSent, TopicsOf
<1> HIDE DEF f
<1> SUFFICES TaleIsFair(Told(p, asked, OkxFrame(f, m, asked)), MarksOf(c))
  BY DEF f
<1>3. CASE p.topic = "trades"
  <2>1. OkxFrame(f, m, asked) = <<TradePrint(m, p.side)>>
    BY <1>1, <1>3 DEF OkxFrame, Said
  <2> QED
    BY <1>1, <1>3, <2>1, TradesAreTrue
<1>4. CASE p.topic = "book"
  <2>1. \E e : OkxFrame(f, m, asked) = <<e>> /\ (e = BookDelta(m) \/ (e = BookSnapshot(m) /\ "whole" \in p.has))
    BY <1>1, <1>4 DEF OkxFrame, WholeOrDiff
  <2> QED
    BY <1>1, <1>4, <2>1, BooksAreTrue
<1>5. CASE p.topic = "ticker"
  <2>1. OkxFrame(f, m, asked) = Quoted(f, m)
    BY <1>1, <1>5 DEF OkxFrame
  <2> QED
    BY <1>1, <1>5, <2>1, LastPricesAreTrue
<1>6. CASE p.topic = "funding"
  <2>1. OkxFrame(f, m, asked) = <<FundingRate(m, "zero")>>
    BY <1>1, <1>6 DEF OkxFrame
  <2>2. "zero" \in MarksOf(c)
    BY DEF MarksOf
  <2> QED
    BY <1>1, <1>6, <2>1, RatesAreTrue, <2>2
<1>7. CASE p.topic = "forced"
  <2>1. OkxFrame(f, m, asked) = When("Liquidations" \in asked, Liquidation(m, p.side))
    BY <1>1, <1>7 DEF OkxFrame, Said
  <2> QED
    BY <1>1, <1>7, <2>1, ForcedAreTrue
<1> QED
  BY <1>2, <1>3, <1>4, <1>5, <1>6, <1>7

LEMMA UpbitFramesAreTrue ==
  ASSUME NEW c, NEW m, NEW p, IsSent(c, m, p), c.venue = "upbit", NEW asked \in SUBSET Derived
  PROVE  TaleIsFair(Told(p, asked, UpbitFrame(Frame(c, p), m)), MarksOf(c))
<1> DEFINE f == Frame(c, p)
<1>1. /\ p.market = m /\ f.topic = p.topic /\ f.has = p.has /\ f.said = Said(c, p)
      /\ p.topic \in {"trades", "forced"} => p.side \in {"Buy", "Sell"}
      /\ p.topic = "funding" => p.has = {"rate"}
      /\ p.topic = "instrument" => p.has \in {{"rate"}, {"mark", "index"}}
      /\ (p.topic = "ticker" /\ ~Swap(c)) => p.has = {"last"}
      /\ (p.topic = "ticker" /\ c.venue \notin {"bybit", "gate", "kraken", "bitget"}) => p.has = {"last"}
      /\ (p.topic = "book" /\ c.venue = "upbit") => p.has = {"whole"}
  BY FramesCarryPrints
<1>2. p.topic \in {"trades", "book", "ticker"}
  BY DEF IsSent, TopicsOf
<1> HIDE DEF f
<1> SUFFICES TaleIsFair(Told(p, asked, UpbitFrame(f, m)), MarksOf(c))
  BY DEF f
<1>3. CASE p.topic = "trades"
  <2>1. UpbitFrame(f, m) = <<TradePrint(m, p.side)>>
    BY <1>1, <1>3 DEF UpbitFrame, UpbitSide, Said
  <2> QED
    BY <1>1, <1>3, <2>1, TradesAreTrue
<1>4. CASE p.topic = "book"
  <2>1. \E e : UpbitFrame(f, m) = <<e>> /\ (e = BookDelta(m) \/ (e = BookSnapshot(m) /\ "whole" \in p.has))
    BY <1>1, <1>4 DEF UpbitFrame
  <2> QED
    BY <1>1, <1>4, <2>1, BooksAreTrue
<1>5. CASE p.topic = "ticker"
  <2>1. UpbitFrame(f, m) = Quoted(f, m)
    BY <1>1, <1>5 DEF UpbitFrame
  <2> QED
    BY <1>1, <1>5, <2>1, LastPricesAreTrue
<1> QED
  BY <1>2, <1>3, <1>4, <1>5

LEMMA HtxNoticesAreTrue ==
  ASSUME NEW c, NEW m, NEW p, IsSent(c, m, p), c.venue = "htx", NEW asked \in SUBSET Derived, p.topic \in {"funding", "forced"}
  PROVE  TaleIsFair(Told(p, asked, HtxNotice(Frame(c, p), m, asked)), MarksOf(c))
<1> DEFINE f == Frame(c, p)
<1>1. /\ p.market = m /\ f.topic = p.topic /\ f.has = p.has /\ f.said = Said(c, p)
      /\ p.topic \in {"trades", "forced"} => p.side \in {"Buy", "Sell"}
      /\ p.topic = "funding" => p.has = {"rate"}
      /\ p.topic = "instrument" => p.has \in {{"rate"}, {"mark", "index"}}
      /\ (p.topic = "ticker" /\ ~Swap(c)) => p.has = {"last"}
      /\ (p.topic = "ticker" /\ c.venue \notin {"bybit", "gate", "kraken", "bitget"}) => p.has = {"last"}
      /\ (p.topic = "book" /\ c.venue = "upbit") => p.has = {"whole"}
  BY FramesCarryPrints
<1>2. p.topic \in {"funding", "forced"}
  BY DEF IsSent, TopicsOf
<1> HIDE DEF f
<1> SUFFICES TaleIsFair(Told(p, asked, HtxNotice(f, m, asked)), MarksOf(c))
  BY DEF f
<1>3. CASE p.topic = "funding"
  <2>1. HtxNotice(f, m, asked) = When("Funding" \in asked, FundingRate(m, "zero"))
    BY <1>1, <1>3 DEF HtxNotice
  <2>2. "zero" \in MarksOf(c)
    BY DEF MarksOf
  <2> QED
    BY <1>1, <1>3, <2>1, RatesAreTrue, <2>2
<1>4. CASE p.topic = "forced"
  <2>1. HtxNotice(f, m, asked) = When("Liquidations" \in asked, Liquidation(m, p.side))
    BY <1>1, <1>4 DEF HtxNotice, Said
  <2> QED
    BY <1>1, <1>4, <2>1, ForcedAreTrue
<1> QED
  BY <1>2, <1>3, <1>4

LEMMA HtxFramesAreTrue ==
  ASSUME NEW c, NEW m, NEW p, IsSent(c, m, p), c.venue = "htx", NEW asked \in SUBSET Derived, p.topic \notin {"funding", "forced"}
  PROVE  TaleIsFair(Told(p, asked, HtxFrame(Frame(c, p), m)), MarksOf(c))
<1> DEFINE f == Frame(c, p)
<1>1. /\ p.market = m /\ f.topic = p.topic /\ f.has = p.has /\ f.said = Said(c, p)
      /\ p.topic \in {"trades", "forced"} => p.side \in {"Buy", "Sell"}
      /\ p.topic = "funding" => p.has = {"rate"}
      /\ p.topic = "instrument" => p.has \in {{"rate"}, {"mark", "index"}}
      /\ (p.topic = "ticker" /\ ~Swap(c)) => p.has = {"last"}
      /\ (p.topic = "ticker" /\ c.venue \notin {"bybit", "gate", "kraken", "bitget"}) => p.has = {"last"}
      /\ (p.topic = "book" /\ c.venue = "upbit") => p.has = {"whole"}
  BY FramesCarryPrints
<1>2. p.topic \in {"trades", "book", "ticker"}
  BY DEF IsSent, TopicsOf
<1> HIDE DEF f
<1> SUFFICES TaleIsFair(Told(p, asked, HtxFrame(f, m)), MarksOf(c))
  BY DEF f
<1>3. CASE p.topic = "trades"
  <2>1. HtxFrame(f, m) = <<TradePrint(m, p.side)>>
    BY <1>1, <1>3 DEF HtxFrame, Said
  <2> QED
    BY <1>1, <1>3, <2>1, TradesAreTrue
<1>4. CASE p.topic = "book"
  <2>1. \E e : HtxFrame(f, m) = <<e>> /\ (e = BookDelta(m) \/ (e = BookSnapshot(m) /\ "whole" \in p.has))
    BY <1>1, <1>4 DEF HtxFrame, Diff
  <2> QED
    BY <1>1, <1>4, <2>1, BooksAreTrue
<1>5. CASE p.topic = "ticker"
  <2>1. HtxFrame(f, m) = Quoted(f, m)
    BY <1>1, <1>5 DEF HtxFrame
  <2> QED
    BY <1>1, <1>5, <2>1, LastPricesAreTrue
<1> QED
  BY <1>2, <1>3, <1>4, <1>5

\* Whatever a client is sent it tells truly, of a symbol it knows by name.
LEMMA EventsAreThose ==
  ASSUME NEW c, NEW m, NEW p, IsSent(c, m, p), NEW asked \in SUBSET Derived,
         p.topic = "funding" => "Funding" \in asked
  PROVE  TaleIsFair(Told(p, asked, Events(c, Frame(c, p), m, asked)), MarksOf(c))
<1>1. c.venue \in {"binance", "bitget", "bybit", "coinbase", "gate", "htx", "kraken", "kucoin", "okx", "upbit"}
  BY FeedsAssumption DEF IsSent
<1> DEFINE ev == Events(c, Frame(c, p), m, asked)
<1>2. CASE c.venue = "binance"
  BY <1>2, BinanceFramesAreTrue DEF Events
<1>3. CASE c.venue = "bitget"
  BY <1>3, BitgetFramesAreTrue DEF Events
<1>4. CASE c.venue = "bybit"
  BY <1>4, BybitFramesAreTrue DEF Events
<1>5. CASE c.venue = "coinbase"
  BY <1>5, CoinbaseFramesAreTrue DEF Events
<1>6. CASE c.venue = "gate"
  BY <1>6, GateFramesAreTrue DEF Events
<1>7. CASE c.venue = "htx"
  <2>1. Frame(c, p).topic = p.topic
    BY DEF Frame
  <2>2. CASE p.topic \in {"funding", "forced"}
    BY <1>7, <2>1, <2>2, HtxNoticesAreTrue DEF Events
  <2>3. CASE p.topic \notin {"funding", "forced"}
    BY <1>7, <2>1, <2>3, HtxFramesAreTrue DEF Events
  <2> QED
    BY <2>2, <2>3
<1>8. CASE c.venue = "kraken"
  BY <1>8, KrakenFuturesFramesAreTrue, KrakenFramesAreTrue DEF Events
<1>9. CASE c.venue = "kucoin"
  BY <1>9, KuCoinFuturesFramesAreTrue, KuCoinFramesAreTrue DEF Events
<1>10. CASE c.venue = "okx"
  BY <1>10, OkxFramesAreTrue DEF Events
<1>11. CASE c.venue = "upbit"
  BY <1>11, UpbitFramesAreTrue DEF Events
<1> QED
  BY <1>1, <1>2, <1>3, <1>4, <1>5, <1>6, <1>7, <1>8, <1>9, <1>10, <1>11

(***************************************************************************)
(* The sockets.                                                            *)
(***************************************************************************)
FeedSet(c)  == {Asked(c, ch, s) : ch \in Channels, s \in Symbols} \cup {"order", "balance"}
PrintSet(c) == (UNION {Prints(c, s) : s \in Symbols}) \cup {Ping, Order, Balance}
SocketSet(c) ==
  [host : {"any", "spot", "linear", "notice", "private"}, up : BOOLEAN, carries : SUBSET FeedSet(c),
   inbound : Seq(PrintSet(c)), pings : Nat, polled : BOOLEAN, key : Nat]

\* A subscription that the client made, and whose name and channel it keeps.
IsKnown(c, a, subs, chans) ==
  \E ch \in Channels, s \in Symbols :
    /\ Topic(c, ch) # "none" /\ a = Asked(c, ch, s)
    /\ a.named => [wire |-> a.wire, symbol |-> s] \in subs
    /\ ch \in Derived => <<Wire(c, s), ch>> \in chans

\* A print of m that a subscription asked for.
IsCarried(c, carries, m, p) ==
  p \in Prints(c, m) /\ \E a \in carries : a.topic = p.topic /\ a.wire \in {Wire(c, m), Every}

PingsFit(s) == s.up => s.pings = Cardinality({i \in DOMAIN s.inbound : s.inbound[i] = Ping})

PublicFits(c, s, subs, chans) ==
  \/ s = None
  \/ /\ s \in SocketSet(c) /\ s.host # "private"
     /\ \A a \in s.carries : IsKnown(c, a, subs, chans)
     /\ \A i \in DOMAIN s.inbound : s.inbound[i] = Ping \/ \E m \in Symbols : IsCarried(c, s.carries, m, s.inbound[i])
     /\ PingsFit(s)

PrivateFits(c, s) ==
  \/ s = None
  \/ /\ s \in SocketSet(c)
     /\ \A i \in DOMAIN s.inbound : s.inbound[i] \in {Ping, Order, Balance}
     /\ PingsFit(s)

\* A socket is not the absence of one.
LEMMA SocketsAreSome == ASSUME NEW c, NEW s \in SocketSet(c) PROVE s # None
  BY DEF SocketSet, None

\* Tables only grow, and what was known stays known.
LEMMA TablesGrow ==
  ASSUME NEW c, NEW s, NEW subs, NEW chans, PublicFits(c, s, subs, chans),
         NEW subs2, NEW chans2, subs \subseteq subs2, chans \subseteq chans2
  PROVE  PublicFits(c, s, subs2, chans2)
<1>1. ASSUME NEW a, IsKnown(c, a, subs, chans) PROVE IsKnown(c, a, subs2, chans2)
  BY <1>1, Zenon DEF IsKnown
<1> QED
  BY <1>1, Zenon DEF PublicFits

\* A socket just opened.
IsFresh(c, s, host, feeds, polled) ==
  /\ s \in SocketSet(c) /\ s.host = host /\ s.carries = feeds /\ s.inbound = <<>> /\ s.polled = polled
  /\ s.up = TRUE /\ s.key = 0 /\ PingsFit(s)

\* A socket is opened with nothing in it.
LEMMA OpenedSockets ==
  ASSUME NEW c, NEW host \in {"any", "spot", "linear", "notice", "private"}, NEW feeds \in SUBSET FeedSet(c),
         NEW polled \in BOOLEAN
  PROVE  IsFresh(c, Open(host, feeds, polled), host, feeds, polled)
<1> DEFINE s == Open(host, feeds, polled)
<1>1. s \in SocketSet(c)
  BY DEF Open, SocketSet
<1>2. /\ s.host = host /\ s.carries = feeds /\ s.inbound = <<>> /\ s.polled = polled
      /\ s.pings = 0 /\ s.up = TRUE /\ s.key = 0
  BY DEF Open
<1> HIDE DEF s
<1>3. {i \in DOMAIN s.inbound : s.inbound[i] = Ping} = {}
  BY <1>2
<1>4. PingsFit(s)
  BY <1>2, <1>3, FS_EmptySet DEF PingsFit
<1>5. IsFresh(c, s, host, feeds, polled)
  BY <1>1, <1>2, <1>4 DEF IsFresh
<1> QED
  BY <1>5 DEF s

\* One more frame is one more ping if it is a ping.
LEMMA PingsAreCounted ==
  ASSUME NEW S, NEW q \in Seq(S), NEW p \in S
  PROVE  Cardinality({i \in DOMAIN Append(q, p) : Append(q, p)[i] = Ping})
           = Cardinality({i \in DOMAIN q : q[i] = Ping}) + (IF p = Ping THEN 1 ELSE 0)
<1> DEFINE A == {i \in DOMAIN q : q[i] = Ping}
           B == {i \in DOMAIN Append(q, p) : Append(q, p)[i] = Ping}
           n == Len(q)
<1>1. n \in Nat /\ DOMAIN q = 1..n /\ DOMAIN Append(q, p) = 1..n + 1
  OBVIOUS
<1>2. \A i \in 1..n : Append(q, p)[i] = q[i]
  OBVIOUS
<1>3. Append(q, p)[n + 1] = p
  OBVIOUS
<1>4. IsFiniteSet(A) /\ Cardinality(A) \in Nat
  <2>1. IsFiniteSet(1..n)
    BY <1>1, FS_Interval
  <2>2. A \subseteq 1..n
    BY <1>1
  <2> HIDE DEF A, n
  <2> QED
    BY <2>1, <2>2, FS_Subset, FS_CardinalityType
<1>5. n + 1 \notin A
  BY <1>1
<1>6. B = IF p = Ping THEN A \cup {n + 1} ELSE A
  BY <1>1, <1>2, <1>3
<1>7. Cardinality(B) = Cardinality(A) + (IF p = Ping THEN 1 ELSE 0)
  <2> HIDE DEF A, B, n
  <2>1. Cardinality(A \cup {n + 1}) = Cardinality(A) + 1
    BY <1>4, <1>5, FS_AddElement
  <2> QED
    BY <1>4, <1>6, <2>1
<1> QED
  BY <1>7

\* A socket whose queue and count of pings are others keeps the rest.
WithFrames(s, q, n) == [s EXCEPT !.inbound = q, !.pings = n]

LEMMA SocketsWithFrames ==
  ASSUME NEW c, NEW s \in SocketSet(c), NEW q \in Seq(PrintSet(c)), NEW n \in Nat
  PROVE  LET r == WithFrames(s, q, n)
         IN  /\ r \in SocketSet(c) /\ r.inbound = q /\ r.pings = n
             /\ r.host = s.host /\ r.carries = s.carries /\ r.polled = s.polled /\ r.key = s.key /\ r.up = s.up
<1> USE DEF WithFrames
<1> DEFINE Q == Seq(PrintSet(c))
           F == SUBSET FeedSet(c)
           r == WithFrames(s, q, n)
<1>1. s \in [host : {"any", "spot", "linear", "notice", "private"}, up : BOOLEAN, carries : F,
            inbound : Q, pings : Nat, polled : BOOLEAN, key : Nat]
  BY DEF SocketSet
<1>2. q \in Q
  OBVIOUS
<1>3. r \in [host : {"any", "spot", "linear", "notice", "private"}, up : BOOLEAN, carries : F,
            inbound : Q, pings : Nat, polled : BOOLEAN, key : Nat]
  <2> HIDE DEF Q, F
  <2> QED
    BY <1>1, <1>2
<1>4. /\ r.inbound = q /\ r.pings = n
      /\ r.host = s.host /\ r.carries = s.carries /\ r.polled = s.polled /\ r.key = s.key /\ r.up = s.up
  <2> HIDE DEF Q, F
  <2> QED
    BY <1>1
<1>5. r \in SocketSet(c)
  BY <1>3 DEF SocketSet
<1> QED
  BY <1>4, <1>5

\* What changes of a socket that receives p.
TakesIn(s, r, p) ==
  /\ r.host = s.host /\ r.carries = s.carries /\ r.polled = s.polled /\ r.key = s.key /\ r.up = s.up
  /\ \A i \in DOMAIN r.inbound : r.inbound[i] = p \/ \E j \in DOMAIN s.inbound : r.inbound[i] = s.inbound[j]

\* A socket that receives a frame counts it if it is a ping.
LEMMA ReceivedFits ==
  ASSUME NEW c, NEW s \in SocketSet(c), PingsFit(s), NEW p \in PrintSet(c), NEW r, r = Received(s, p)
  PROVE  r \in SocketSet(c) /\ PingsFit(r) /\ TakesIn(s, r, p)
<1>1. /\ r \in SocketSet(c) /\ r.host = s.host /\ r.carries = s.carries /\ r.polled = s.polled /\ r.key = s.key /\ r.up = s.up
      /\ r.inbound = Append(s.inbound, p) /\ r.pings = s.pings + (IF p = Ping THEN 1 ELSE 0)
  <2> DEFINE q == Append(s.inbound, p)
             n == IF p = Ping THEN s.pings + 1 ELSE s.pings
  <2>1. s.inbound \in Seq(PrintSet(c)) /\ s.pings \in Nat
    BY DEF SocketSet
  <2>2. q \in Seq(PrintSet(c)) /\ n \in Nat /\ n = s.pings + (IF p = Ping THEN 1 ELSE 0)
    BY <2>1
  <2>3. r = WithFrames(s, q, n)
    BY DEF Received, WithFrames
  <2> HIDE DEF q, n
  <2>4. /\ r \in SocketSet(c) /\ r.inbound = q /\ r.pings = n
        /\ r.host = s.host /\ r.carries = s.carries /\ r.polled = s.polled /\ r.key = s.key /\ r.up = s.up
    BY <2>2, <2>3, SocketsWithFrames
  <2> QED
    BY <2>2, <2>4 DEF q
<1>2. s.inbound \in Seq(PrintSet(c)) /\ s.pings \in Nat
  BY DEF SocketSet
<1>3. PingsFit(r)
  <2>1. Cardinality({i \in DOMAIN r.inbound : r.inbound[i] = Ping})
          = Cardinality({i \in DOMAIN s.inbound : s.inbound[i] = Ping}) + (IF p = Ping THEN 1 ELSE 0)
    BY <1>1, <1>2, PingsAreCounted
  <2> QED
    BY <1>1, <2>1 DEF PingsFit
<1>4. \A i \in DOMAIN r.inbound : r.inbound[i] = p \/ \E j \in DOMAIN s.inbound : r.inbound[i] = s.inbound[j]
  BY <1>1, <1>2
<1> QED
  BY <1>1, <1>3, <1>4 DEF TakesIn

\* A socket that goes down keeps what it has.
LEMMA DroppedFits ==
  ASSUME NEW c, NEW s \in SocketSet(c)
  PROVE  LET d == [s EXCEPT !.up = FALSE]
         IN  /\ d \in SocketSet(c) /\ PingsFit(d)
             /\ d.host = s.host /\ d.carries = s.carries /\ d.polled = s.polled /\ d.key = s.key
             /\ d.inbound = s.inbound /\ ~d.up
<1> DEFINE d == [s EXCEPT !.up = FALSE]
<1>1. d \in SocketSet(c) /\ d.host = s.host /\ d.carries = s.carries /\ d.polled = s.polled /\ d.key = s.key
      /\ d.inbound = s.inbound /\ d.up = FALSE
  BY DEF SocketSet
<1> HIDE DEF d
<1>2. PingsFit(d)
  BY <1>1 DEF PingsFit
<1> QED
  BY <1>1, <1>2 DEF d

\* Every ping that a poll drains it answers, if the socket is up.
LEMMA DrainedFits ==
  ASSUME NEW c, c = client, NEW s, s = None \/ s \in SocketSet(c)
  PROVE  LET d == Drained(s)
         IN  /\ s = None => d = None
             /\ s # None => /\ d \in SocketSet(c) /\ PingsFit(d) /\ d.inbound = <<>>
                            /\ d.host = s.host /\ d.carries = s.carries /\ d.polled = s.polled /\ d.key = s.key
<1>1. CASE s = None
  BY <1>1 DEF Drained
<1>2. CASE s # None
  <2> DEFINE d == Drained(s)
             n == IF Pongs(s) THEN 0 ELSE s.pings
  <2>1. s \in SocketSet(c)
    BY <1>2
  <2>2. n \in Nat
    BY <2>1 DEF SocketSet
  <2>3. d = WithFrames(s, <<>>, n)
    BY <1>2 DEF Drained, WithFrames
  <2>4. /\ d \in SocketSet(c) /\ d.inbound = <<>> /\ d.pings = n /\ d.up = s.up
        /\ d.host = s.host /\ d.carries = s.carries /\ d.polled = s.polled /\ d.key = s.key
    <3> HIDE DEF n, d
    <3>1. PICK q \in Seq(PrintSet(c)) : q = <<>>
      <4> DEFINE Q == Seq(PrintSet(c))
      <4>1. <<>> \in Q
        OBVIOUS
      <4> HIDE DEF Q
      <4>2. \E q \in Q : q = <<>>
        BY <4>1, Zenon
      <4> QED
        BY <4>2 DEF Q
    <3>2. PICK k \in Nat : k = n
      BY <2>2
    <3>3. d = WithFrames(s, q, k)
      BY <2>3, <3>1, <3>2
    <3>4. LET w == WithFrames(s, q, k)
          IN  /\ w \in SocketSet(c) /\ w.inbound = q /\ w.pings = k
              /\ w.host = s.host /\ w.carries = s.carries /\ w.polled = s.polled /\ w.key = s.key /\ w.up = s.up
      BY <2>1, SocketsWithFrames
    <3> QED
      BY <3>1, <3>2, <3>3, <3>4
  <2>5. s.up => n = 0
    <3>1. Shape(s) \in {"ping", "op", "action"}
      BY DEF Shape
    <3> QED
      BY <3>1 DEF Pongs, PongFor
  <2>6. PingsFit(d)
    <3> HIDE DEF d
    <3>1. {i \in DOMAIN d.inbound : d.inbound[i] = Ping} = {}
      BY <2>4
    <3> QED
      BY <2>4, <2>5, <3>1, FS_EmptySet DEF PingsFit
  <2> QED
    BY <1>2, <2>4, <2>6
<1> QED
  BY <1>1, <1>2

\* The topic of the rates is asked for by one channel.
LEMMA FundingIsOneTopic ==
  ASSUME NEW c \in Clients, NEW ch \in Channels, Topic(c, ch) = "funding"
  PROVE  ch = "Funding"
<1>1. c.venue \in {"binance", "bitget", "bybit", "coinbase", "gate", "htx", "kraken", "kucoin", "okx", "upbit"}
      /\ (c.venue \in {"coinbase", "upbit"} => c.market = "spot")
  BY FeedsAssumption
<1>2. ch \in Derived /\ Swap(c)
  BY DEF Topic, Channels, Derived
<1> QED
  BY <1>1, <1>2 DEF Topic, Derived, Swap, BinanceTopic, BybitTopic, OkxTopic, HtxTopic,
       BitgetTopic, GateTopic, KrakenTopic, KuCoinTopic

\* A print that a known subscription asked for is of a topic its client knows,
\* its name resolves to its market, and its channel was noted.
LEMMA CarriedIsKnown ==
  ASSUME NEW c \in Clients, NEW subs, NEW chans, NEW m \in Symbols, NEW p, NEW carries, IsCarried(c, carries, m, p),
         \A a \in carries : IsKnown(c, a, subs, chans),
         \A n \in subs : \E s \in Symbols : n = [wire |-> Wire(c, s), symbol |-> s]
  PROVE  /\ IsSent(c, m, p)
         /\ Resolve(c, Wire(c, m), subs) = m
         /\ p.topic = "funding" => <<Wire(c, m), "Funding">> \in chans
<1>1. PICK a \in carries : a.topic = p.topic /\ a.wire \in {Wire(c, m), Every}
  BY DEF IsCarried
<1>2. PICK ch \in Channels, s \in Symbols :
        /\ Topic(c, ch) # "none" /\ a = Asked(c, ch, s)
        /\ a.named => [wire |-> a.wire, symbol |-> s] \in subs
        /\ ch \in Derived => <<Wire(c, s), ch>> \in chans
  BY <1>1, Zenon DEF IsKnown
<1>3. /\ a.topic = Topic(c, ch)
      /\ a.wire = Wire(c, s) \/ (a.wire = Every /\ c.venue = "okx" /\ ch = "Liquidations" /\ ~a.named)
      /\ a.named \/ PollOf(c).unnamed = "read"
  BY <1>2, FeedsAreAsked
<1>4. ASSUME a.wire = Wire(c, s) PROVE Wire(c, s) = Wire(c, m)
  <2>1. s # "all"
    BY FeedsAssumption
  <2>2. Wire(c, s) # Every
    BY <2>1 DEF Wire, Every, Pair, Contract
  <2> QED
    BY <1>1, <1>4, <2>2
<1>5. IsSent(c, m, p)
  BY <1>1, <1>2, <1>3, TopicsAreKnown DEF IsSent, IsCarried
<1>6. (\E n \in subs : n.wire = Wire(c, m)) \/ PollOf(c).unnamed = "read"
  <2>1. CASE a.named
    <3>1. a.wire = Wire(c, m)
      BY <1>3, <1>4, <2>1
    <3> QED
      BY <1>2, <2>1, <3>1
  <2> QED
    BY <1>3, <2>1
<1>7. Resolve(c, Wire(c, m), subs) = m
  BY <1>6, NamesResolve
<1>8. ASSUME p.topic = "funding" PROVE <<Wire(c, m), "Funding">> \in chans
  <2>1. ch = "Funding"
    BY <1>1, <1>2, <1>3, <1>8, FundingIsOneTopic
  <2>2. Wire(c, s) = Wire(c, m)
    BY <1>3, <1>4, <2>1
  <2> QED
    BY <1>2, <2>1, <2>2 DEF Derived
<1> QED
  BY <1>5, <1>7, <1>8

NamesFit(c, subs) == \A n \in subs : \E s \in Symbols : n = [wire |-> Wire(c, s), symbol |-> s]

\* What a poll reads of a public socket is told truly.
LEMMA PublicReadsAreTrue ==
  ASSUME client \in Clients, NamesFit(client, subscriptions), NEW m \in Symbols, NEW p, NEW carries,
         IsCarried(client, carries, m, p), \A a \in carries : IsKnown(client, a, subscriptions, channels)
  PROVE  TaleIsFair(Read(p), MarksOf(client))
<1>1. PICK c, subs, chans : c = client /\ c \in Clients /\ subs = subscriptions /\ chans = channels
  OBVIOUS
<1>2. /\ IsSent(c, m, p) /\ Resolve(c, Wire(c, m), subs) = m
      /\ p.topic = "funding" => <<Wire(c, m), "Funding">> \in chans
  <2>1. IsCarried(c, carries, m, p) /\ \A a \in carries : IsKnown(c, a, subs, chans)
    BY <1>1
  <2>2. \A n \in subs : \E s \in Symbols : n = [wire |-> Wire(c, s), symbol |-> s]
    BY <1>1 DEF NamesFit
  <2>3. c \in Clients
    BY <1>1
  <2> QED
    BY <2>1, <2>2, <2>3, CarriedIsKnown
<1>3. p.market = m /\ p \notin {Ping, Order, Balance}
  BY <1>2, PrintsAre DEF IsSent
<1> DEFINE asked == AskedFor(Wire(c, m))
<1>4. Frame(c, p).wire = Wire(c, m)
  BY <1>3 DEF Frame
<1>5. Read(p) = Told(p, asked, Events(c, Frame(c, p), m, asked))
  BY <1>1, <1>2, <1>3, <1>4 DEF Read, Told
<1>6. asked \in SUBSET Derived /\ (p.topic = "funding" => "Funding" \in asked)
  BY <1>1, <1>2 DEF AskedFor, Derived
<1> HIDE DEF asked
<1>7. PICK noted \in SUBSET Derived : noted = asked
  BY <1>6
<1>8. TaleIsFair(Told(p, noted, Events(c, Frame(c, p), m, noted)), MarksOf(c))
  BY <1>2, <1>6, <1>7, EventsAreThose
<1> QED
  BY <1>1, <1>5, <1>7, <1>8

\* What a poll reads of the private socket, or of a ping, is told truly.
LEMMA PrivateReadsAreTrue ==
  ASSUME NEW p \in {Ping, Order, Balance}, NEW marks
  PROVE  TaleIsFair(Read(p), marks)
<1> DEFINE t == Read(p)
<1>0. /\ Ping.topic = "ping" /\ Order.topic = "order" /\ Balance.topic = "balance"
      /\ Order.market = "none" /\ Balance.market = "none"
  BY DEF Ping, Order, Balance, PrintOf
<1>1. CASE p = Ping
  <2>1. t.print = p /\ t.events = <<>>
    BY <1>0, <1>1 DEF Read
  <2> HIDE DEF t
  <2>2. Tells(<<>>, {}, {})
    BY NothingIsTold
  <2>3. Owed(t) = {{}}
    BY <1>0, <1>1, <2>1 DEF Owed
  <2> QED
    BY <2>1, <2>2, <2>3 DEF TaleIsFair, TaleIsTrue, Tells, Types, RightSide, RightPrices, t
<1>2. CASE p = Order
  <2>1. t.print = p /\ t.events = <<OrderUpdate>>
    BY <1>0, <1>2 DEF Read, AccountEvents, Frame
  <2> HIDE DEF t
  <2>2. OrderUpdate.type = "OrderUpdate" /\ OrderUpdate.symbol = "none"
    BY DEF OrderUpdate
  <2>3. Tells(<<OrderUpdate>>, {OrderUpdate.type}, {OrderUpdate})
    BY OneIsTold
  <2>4. Owed(t) = {{"OrderUpdate"}}
    BY <1>0, <1>2, <2>1 DEF Owed
  <2>5. TaleIsFair(t, marks)
    BY ZenonT(40), <1>0, <1>2, <2>1, <2>2, <2>3, <2>4 DEF TaleIsFair, TaleIsTrue, Tells, Types, RightSide, RightPrices
  <2> QED
    BY <2>5 DEF t
<1>3. CASE p = Balance
  <2>1. t.print = p /\ t.events = <<BalanceUpdate>>
    BY <1>0, <1>3 DEF Read, AccountEvents, Frame
  <2> HIDE DEF t
  <2>2. BalanceUpdate.type = "BalanceUpdate" /\ BalanceUpdate.symbol = "none"
    BY DEF BalanceUpdate
  <2>3. Tells(<<BalanceUpdate>>, {BalanceUpdate.type}, {BalanceUpdate})
    BY OneIsTold
  <2>4. Owed(t) = {{"BalanceUpdate"}}
    BY <1>0, <1>3, <2>1 DEF Owed
  <2>5. TaleIsFair(t, marks)
    BY ZenonT(40), <1>0, <1>3, <2>1, <2>2, <2>3, <2>4 DEF TaleIsFair, TaleIsTrue, Tells, Types, RightSide, RightPrices
  <2> QED
    BY <2>5 DEF t
<1> QED
  BY <1>1, <1>2, <1>3

\* The greatest of some positions is one of them.
LEMMA GreatestExists ==
  ASSUME NEW n \in Nat, NEW s \in SUBSET (1..n), s # {}
  PROVE  Max(s) \in s
<1> DEFINE R == {ss \in Nat \X Nat : ss[1] < ss[2]}
           T == {n - x : x \in s}
<1>1. IsWellFoundedOn(R, Nat)
  BY NatLessThanWellFounded, Zenon DEF OpToRel
<1>2. T \subseteq Nat /\ T # {}
  <2>1. \A x \in s : n - x \in Nat
    OBVIOUS
  <2>2. PICK x \in s : TRUE
    OBVIOUS
  <2>3. n - x \in T
    OBVIOUS
  <2> QED
    BY <2>1, <2>3
<1>3. \E d \in T : \A y \in T : <<y, d>> \notin R
  <2> HIDE DEF R, T
  <2> QED
    BY <1>1, <1>2, WFMin
<1>4. PICK x \in s : \A y \in T : <<y, n - x>> \notin R
  <2> HIDE DEF R
  <2> QED
    BY <1>3
<1>5. \A y \in s : x >= y
  <2> TAKE y \in s
  <2>1. n - y \in T /\ n - y \in Nat /\ n - x \in Nat /\ x \in Int /\ y \in Int
    OBVIOUS
  <2>2. ~(n - y < n - x)
    BY <1>4, <2>1
  <2> QED
    BY <2>1, <2>2
<1> QED
  BY <1>4, <1>5 DEF Max

\* A table that has values of a set at the empty subset, and at every subset
\* whose rest has one, has values of the set only.
LEMMA TablesStay ==
  ASSUME NEW S, IsFiniteSet(S), NEW chosen, ChoosesIn(chosen, S), NEW V, NEW k, k[{}] \in V,
         \A s \in SUBSET S : s # {} /\ k[s \ {chosen[s]}] \in V => k[s] \in V
  PROVE  k[S] \in V
<1> DEFINE N == {s \in SUBSET S : k[s] \in V}
<1>1. {} \in N
  OBVIOUS
<1>2. ASSUME NEW s \in SUBSET S, s # {}, s \ {chosen[s]} \in N PROVE s \in N
  BY <1>2
<1>3. N \in SUBSET (SUBSET S)
  BY DEF N
<1>4. N = SUBSET S
  <2> HIDE DEF N
  <2> QED
    BY <1>1, <1>2, <1>3, SetInduction
<1>5. S \in N
  <2> HIDE DEF N
  <2> QED
    BY <1>4
<1> QED
  BY <1>5

\* A caller that applies a frame's events one after another stays in a set of
\* ticks that each of them keeps.
LEMMA FoldsStay ==
  ASSUME NEW n \in Nat, NEW events, DOMAIN events = 1..n, NEW V, NEW held \in V,
         \A v \in V : \A i \in 1..n : Applied(v, events[i]) \in V
  PROVE  FoldLeft(Applied, held, events) \in V
<1> DEFINE S == DOMAIN events
           Iter(h) == h = [s \in SUBSET S |->
                             IF s = {} THEN held ELSE Applied(h[s \ {Max(s)}], events[Max(s)])]
           k == CHOOSE h : Iter(h)
           chosen == [s \in SUBSET S |-> Max(s)]
           step == [q \in S \X V |-> Applied(q[2], events[q[1]])]
<1>1. FoldLeft(Applied, held, events) = k[S]
  BY DEF FoldLeft, MapThenFoldSet
<1>2. ChoosesIn(chosen, S)
  BY GreatestExists DEF ChoosesIn
<1>3. IsFiniteSet(S)
  BY FS_Interval
<1>4. step \in [S \X V -> V]
  OBVIOUS
<1>5. PICK h \in [SUBSET S -> V] : Folds(h, S, chosen, held, step)
  <2> HIDE DEF chosen, step, S
  <2> QED
    BY <1>2, <1>3, <1>4, FoldsExist
<1>6. Iter(h)
  <2>1. ASSUME NEW s \in SUBSET S, s # {} PROVE h[s] = Applied(h[s \ {Max(s)}], events[Max(s)])
    <3>1. Max(s) \in S /\ chosen[s] = Max(s)
      BY <1>2, <2>1 DEF ChoosesIn
    <3>2. h[s \ {Max(s)}] \in V
      OBVIOUS
    <3>3. h[s] = step[<<Max(s), h[s \ {Max(s)}]>>]
      BY <1>5, <2>1, <3>1 DEF Folds
    <3> HIDE DEF S
    <3> QED
      BY <3>1, <3>2, <3>3
  <2>2. h[{}] = held
    BY <1>5 DEF Folds
  <2> HIDE DEF S
  <2> QED
    BY <2>1, <2>2
<1>7. Iter(k)
  <2> HIDE DEF Iter
  <2> QED
    BY <1>6
<1>8. k[{}] \in V
  BY <1>7
<1>9. ASSUME NEW s \in SUBSET S, s # {}, k[s \ {chosen[s]}] \in V PROVE k[s] \in V
  <2>1. Max(s) \in S /\ chosen[s] = Max(s)
    BY <1>2, <1>9 DEF ChoosesIn
  <2>2. k[s] = Applied(k[s \ {Max(s)}], events[Max(s)])
    BY <1>7, <1>9
  <2>3. k[s \ {Max(s)}] \in V
    BY <1>9, <2>1
  <2> HIDE DEF k
  <2> QED
    BY <2>1, <2>2, <2>3
<1>10. k[S] \in V
  <2> HIDE DEF S, k, chosen
  <2> QED
    BY <1>2, <1>3, <1>8, <1>9, TablesStay
<1> QED
  BY <1>1, <1>10

\* And so does a caller that follows a tale frame by frame.
LEMMA TalesStay ==
  ASSUME NEW n \in Nat, NEW tale, DOMAIN tale = 1..n, NEW V, NEW held \in V,
         \A v \in V : \A i \in 1..n : Followed(v, tale[i]) \in V
  PROVE  FoldLeft(Followed, held, tale) \in V
<1> DEFINE S == DOMAIN tale
           Iter(h) == h = [s \in SUBSET S |->
                             IF s = {} THEN held ELSE Followed(h[s \ {Max(s)}], tale[Max(s)])]
           k == CHOOSE h : Iter(h)
           chosen == [s \in SUBSET S |-> Max(s)]
           step == [q \in S \X V |-> Followed(q[2], tale[q[1]])]
<1>1. FoldLeft(Followed, held, tale) = k[S]
  BY DEF FoldLeft, MapThenFoldSet
<1>2. ChoosesIn(chosen, S)
  BY GreatestExists DEF ChoosesIn
<1>3. IsFiniteSet(S)
  BY FS_Interval
<1>4. step \in [S \X V -> V]
  OBVIOUS
<1>5. PICK h \in [SUBSET S -> V] : Folds(h, S, chosen, held, step)
  <2> HIDE DEF chosen, step, S
  <2> QED
    BY <1>2, <1>3, <1>4, FoldsExist
<1>6. Iter(h)
  <2>1. ASSUME NEW s \in SUBSET S, s # {} PROVE h[s] = Followed(h[s \ {Max(s)}], tale[Max(s)])
    <3>1. Max(s) \in S /\ chosen[s] = Max(s)
      BY <1>2, <2>1 DEF ChoosesIn
    <3>2. h[s \ {Max(s)}] \in V
      OBVIOUS
    <3>3. h[s] = step[<<Max(s), h[s \ {Max(s)}]>>]
      BY <1>5, <2>1, <3>1 DEF Folds
    <3> HIDE DEF S
    <3> QED
      BY <3>1, <3>2, <3>3
  <2>2. h[{}] = held
    BY <1>5 DEF Folds
  <2> HIDE DEF S
  <2> QED
    BY <2>1, <2>2
<1>7. Iter(k)
  <2> HIDE DEF Iter
  <2> QED
    BY <1>6
<1>8. k[{}] \in V
  BY <1>7
<1>9. ASSUME NEW s \in SUBSET S, s # {}, k[s \ {chosen[s]}] \in V PROVE k[s] \in V
  <2>1. Max(s) \in S /\ chosen[s] = Max(s)
    BY <1>2, <1>9 DEF ChoosesIn
  <2>2. k[s] = Followed(k[s \ {Max(s)}], tale[Max(s)])
    BY <1>7, <1>9
  <2>3. k[s \ {Max(s)}] \in V
    BY <1>9, <2>1
  <2> HIDE DEF k
  <2> QED
    BY <2>1, <2>2, <2>3
<1>10. k[S] \in V
  <2> HIDE DEF S, k, chosen
  <2> QED
    BY <1>2, <1>3, <1>8, <1>9, TablesStay
<1> QED
  BY <1>1, <1>10

(***************************************************************************)
(* The venues' feeds: the caller's tick, a poll's tale, the sockets and    *)
(* the tables.                                                             *)
(***************************************************************************)
\* The prices a tick may hold, and what more is known of it for a client.
TickSet == [mark : {"none", "given", "zero"}, index : {"none", "given"}]
TickFits(c, held) == held \in TickSet /\ (c.venue \in {"htx", "okx"} => held.index = "none")

\* The ticks that a client's caller may come to from one that it holds.
TicksFrom(c, held) ==
  {v \in TickSet : TickFits(c, v) /\ (c.venue # "kucoin" /\ Buildable(held) => Buildable(v))}

\* An event that is told fairly takes a tick to such a one.
LEMMA EventsKeepTicks ==
  ASSUME NEW c \in Clients, NEW held \in TickSet, TickFits(c, held), NEW v \in TicksFrom(c, held),
         NEW t, TaleIsFair(t, MarksOf(c)), NEW e \in Range(t.events)
  PROVE  Applied(v, e) \in TicksFrom(c, held)
<1>1. v \in TickSet /\ TickFits(c, v) /\ (c.venue # "kucoin" /\ Buildable(held) => Buildable(v))
  BY DEF TicksFrom
<1>2. /\ e.type \in {"Funding", "MarkIndex"} => e.mark \in MarksOf(c)
      /\ e.type = "MarkIndex" => e.mark = "given"
  BY DEF TaleIsFair, TaleIsTrue, RightPrices
<1>3. MarksOf(c) \in {{"zero"}, {"zero", "given"}, {"given"}} /\ (c.venue \in {"htx", "okx"} <=> MarksOf(c) = {"zero"})
  BY DEF MarksOf
<1>4. CASE e.symbol # Watched \/ e.type \notin {"Funding", "MarkIndex"}
  <2>1. Applied(v, e) = v
    BY <1>4 DEF Applied, ApplyFeed
  <2> QED
    BY <2>1
<1>5. CASE e.symbol = Watched /\ e.type = "Funding"
  <2>1. Applied(v, e) = [v EXCEPT !.mark = e.mark]
    BY <1>5 DEF Applied, ApplyFeed
  <2>2. e.mark \in {"zero", "given"}
    BY <1>2, <1>3, <1>5
  <2>3. /\ Applied(v, e) \in TickSet
        /\ Applied(v, e).mark = e.mark /\ Applied(v, e).index = v.index
    BY <1>1, <2>1, <2>2 DEF TickSet
  <2>4. TickFits(c, Applied(v, e))
    BY <1>1, <2>3 DEF TickFits
  <2>5. ASSUME c.venue # "kucoin", Buildable(held) PROVE Buildable(Applied(v, e))
    <3>1. v.index = "given"
      BY <1>1, <2>5 DEF Buildable
    <3>2. c.venue \notin {"htx", "okx", "kucoin"}
      BY <1>1, <2>5, <3>1 DEF TickFits
    <3>3. e.mark = "given"
      BY <1>2, <1>5, <3>2 DEF MarksOf
    <3> QED
      BY <2>3, <3>1, <3>3 DEF Buildable
  <2> QED
    BY <2>3, <2>4, <2>5 DEF TicksFrom
<1>6. CASE e.symbol = Watched /\ e.type = "MarkIndex"
  <2>1. Applied(v, e) = [mark |-> e.mark, index |-> "given"]
    BY <1>6 DEF Applied, ApplyFeed
  <2>2. e.mark = "given" /\ c.venue \notin {"htx", "okx"}
    BY <1>2, <1>3, <1>6
  <2>3. Applied(v, e) \in TickSet /\ Applied(v, e).mark = "given" /\ Applied(v, e).index = "given"
    BY <2>1, <2>2 DEF TickSet
  <2> QED
    BY <2>2, <2>3 DEF TicksFrom, TickFits, Buildable
<1> QED
  BY <1>4, <1>5, <1>6

\* A poll's tale that is told fairly takes the caller's tick to such a one.
LEMMA TalesKeepTicks ==
  ASSUME NEW c \in Clients, NEW held \in TickSet, TickFits(c, held), NEW n \in Nat, NEW tale, DOMAIN tale = 1..n,
         \A i \in 1..n : TaleIsFair(tale[i], MarksOf(c))
  PROVE  FoldLeft(Followed, held, tale) \in TicksFrom(c, held)
<1> DEFINE V == TicksFrom(c, held)
<1>1. held \in V
  BY DEF TicksFrom
<1>2. ASSUME NEW v \in V, NEW i \in 1..n PROVE Followed(v, tale[i]) \in V
  <2>1. PICK t : t = tale[i]
    OBVIOUS
  <2>2. TaleIsFair(t, MarksOf(c))
    BY <2>1
  <2>3. PICK k \in Nat : DOMAIN t.events = 1..k
    BY <2>2 DEF TaleIsFair
  <2>4. PICK events : events = t.events
    OBVIOUS
  <2>5. ASSUME NEW w \in V, NEW j \in 1..k PROVE Applied(w, events[j]) \in V
    <3>1. events[j] \in Range(t.events)
      BY <2>3, <2>4 DEF Range
    <3>2. PICK e \in Range(t.events) : e = events[j]
      BY <3>1
    <3>3. Applied(w, e) \in V
      BY <2>2, EventsKeepTicks
    <3> QED
      BY <3>2, <3>3
  <2>6. FoldLeft(Applied, v, events) \in V
    <3> HIDE DEF V
    <3>1. DOMAIN events = 1..k
      BY <2>3, <2>4
    <3> QED
      BY <2>5, <3>1, FoldsStay
  <2> QED
    BY <2>1, <2>4, <2>6 DEF Followed
<1> HIDE DEF V
<1>3. FoldLeft(Followed, held, tale) \in V
  BY <1>1, <1>2, TalesStay
<1> QED
  BY <1>3 DEF V

\* A line of so many places, whose members are those of queues.
Line(q) == \E n \in Nat : DOMAIN q = 1..n
Joins(q, x, y) == \A i \in DOMAIN q : (\E j \in DOMAIN x : q[i] = x[j]) \/ \E j \in DOMAIN y : q[i] = y[j]
Gathers(q, a, b, d) ==
  \A i \in DOMAIN q : \/ \E j \in DOMAIN a : q[i] = a[j]
                      \/ \E j \in DOMAIN b : q[i] = b[j]
                      \/ \E j \in DOMAIN d : q[i] = d[j]

\* Two queues one after another hold what each of them holds.
LEMMA TwoInLine ==
  ASSUME NEW S, NEW x \in Seq(S), NEW y \in Seq(S)
  PROVE  x \o y \in Seq(S) /\ Line(x \o y) /\ Joins(x \o y, x, y)
<1>0. PICK q : q = x \o y
  OBVIOUS
<1>1. /\ q \in Seq(S) /\ Len(q) = Len(x) + Len(y) /\ Len(x) \in Nat /\ Len(y) \in Nat /\ Len(q) \in Nat
      /\ DOMAIN x = 1..Len(x) /\ DOMAIN y = 1..Len(y) /\ DOMAIN q = 1..Len(q)
  BY <1>0
<1>2. ASSUME NEW i \in DOMAIN q PROVE (\E j \in DOMAIN x : q[i] = x[j]) \/ \E j \in DOMAIN y : q[i] = y[j]
  <2>1. CASE i <= Len(x)
    <3>1. i \in DOMAIN x /\ q[i] = x[i]
      BY <1>0, <1>1, <2>1
    <3> QED
      BY <3>1
  <2>2. CASE ~(i <= Len(x))
    <3>1. i - Len(x) \in DOMAIN y /\ q[i] = y[i - Len(x)]
      BY <1>0, <1>1, <2>2
    <3> QED
      BY <3>1
  <2> QED
    BY <2>1, <2>2
<1>3. Joins(q, x, y)
  BY <1>2, Zenon DEF Joins
<1>4. Line(q)
  BY <1>1 DEF Line
<1> QED
  BY <1>0, <1>1, <1>3, <1>4

\* And so do three.
LEMMA QueuesInLine ==
  ASSUME NEW S, NEW a \in Seq(S), NEW b \in Seq(S), NEW d \in Seq(S), NEW q, q = a \o b \o d
  PROVE  Line(q) /\ Gathers(q, a, b, d)
<1>1. PICK ab : ab = a \o b
  OBVIOUS
<1>2. ab \in Seq(S) /\ Joins(ab, a, b)
  BY <1>1, TwoInLine
<1>3. q = ab \o d
  BY <1>1
<1>4. Line(q) /\ Joins(q, ab, d)
  BY <1>2, <1>3, TwoInLine
<1>5. ASSUME NEW i \in DOMAIN q
      PROVE  \/ \E j \in DOMAIN a : q[i] = a[j]
             \/ \E j \in DOMAIN b : q[i] = b[j]
             \/ \E j \in DOMAIN d : q[i] = d[j]
  BY <1>2, <1>4, <1>5, Zenon DEF Joins
<1> QED
  BY <1>4, <1>5, Zenon DEF Gathers

\* What waits on a socket that fits.
LEMMA WaitingFits ==
  ASSUME NEW c, NEW subs, NEW chans, NEW s, PublicFits(c, s, subs, chans) \/ PrivateFits(c, s)
  PROVE  Waiting(s) \in Seq(PrintSet(c))
<1>1. CASE s = None
  BY <1>1 DEF Waiting
<1>2. CASE s # None
  <2>1. s \in SocketSet(c)
    BY <1>2 DEF PublicFits, PrivateFits
  <2> QED
    BY <1>2, <2>1 DEF SocketSet, Waiting
<1> QED
  BY <1>1, <1>2

\* A print that waits on a public socket is a ping, or a subscription the
\* client knows asked for it: it is told fairly.
LEMMA PublicTalesAreFair ==
  ASSUME client \in Clients, NamesFit(client, subscriptions),
         NEW s, PublicFits(client, s, subscriptions, channels), NEW j \in DOMAIN Waiting(s)
  PROVE  TaleIsFair(Read(Waiting(s)[j]), MarksOf(client))
<1>1. s # None /\ Waiting(s) = s.inbound
  BY DEF Waiting
<1>2. /\ \A a \in s.carries : IsKnown(client, a, subscriptions, channels)
      /\ s.inbound[j] = Ping \/ \E m \in Symbols : IsCarried(client, s.carries, m, s.inbound[j])
  BY <1>1, Zenon DEF PublicFits
<1>3. PICK p, carries, marks : p = s.inbound[j] /\ carries = s.carries /\ marks = MarksOf(client)
  OBVIOUS
<1>4. CASE p = Ping
  <2>1. TaleIsFair(Read(p), marks)
    BY <1>4, PrivateReadsAreTrue
  <2> QED
    BY <1>1, <1>3, <2>1
<1>5. CASE p # Ping
  <2>1. PICK m \in Symbols : IsCarried(client, carries, m, p)
    BY <1>2, <1>3, <1>5
  <2>2. TaleIsFair(Read(p), MarksOf(client))
    BY <1>2, <1>3, <2>1, PublicReadsAreTrue
  <2> QED
    BY <1>1, <1>3, <2>2
<1> QED
  BY <1>4, <1>5

\* And so is one that waits on the private socket.
LEMMA PrivateTalesAreFair ==
  ASSUME NEW c, NEW s, PrivateFits(c, s), NEW j \in DOMAIN Waiting(s), NEW marks
  PROVE  TaleIsFair(Read(Waiting(s)[j]), marks)
<1>1. s # None /\ Waiting(s) = s.inbound
  BY DEF Waiting
<1>2. PICK p \in {Ping, Order, Balance} : p = s.inbound[j]
  BY <1>1 DEF PrivateFits
<1> QED
  BY <1>1, <1>2, PrivateReadsAreTrue

\* So a poll's tale is told fairly, frame by frame.
LEMMA PollsAreFair ==
  ASSUME client \in Clients, NamesFit(client, subscriptions),
         PublicFits(client, public, subscriptions, channels), PublicFits(client, notice, subscriptions, channels),
         PrivateFits(client, private)
  PROVE  \E n \in Nat : DOMAIN Tale = 1..n /\ \A i \in 1..n : TaleIsFair(Tale[i], MarksOf(client))
<1>1. PICK c, s, r, p, subs, chans :
        c = client /\ s = public /\ r = notice /\ p = private /\ subs = subscriptions /\ chans = channels
  OBVIOUS
<1>0. PICK a, b, d, q : a = Waiting(s) /\ b = Waiting(r) /\ d = Waiting(p) /\ q = a \o b \o d
  OBVIOUS
<1>2. a \in Seq(PrintSet(c)) /\ b \in Seq(PrintSet(c)) /\ d \in Seq(PrintSet(c))
  BY <1>0, <1>1, WaitingFits
<1>3. Tale = [i \in DOMAIN q |-> Read(q[i])]
  BY <1>0, <1>1 DEF Tale
<1>4. /\ \A j \in DOMAIN a : TaleIsFair(Read(a[j]), MarksOf(client))
      /\ \A j \in DOMAIN b : TaleIsFair(Read(b[j]), MarksOf(client))
  BY <1>0, <1>1, PublicTalesAreFair
<1>5. \A j \in DOMAIN d : TaleIsFair(Read(d[j]), MarksOf(client))
  <2>1. PICK marks : marks = MarksOf(client)
    OBVIOUS
  <2> QED
    BY <1>0, <1>1, <2>1, PrivateTalesAreFair
<1>6. Line(q) /\ Gathers(q, a, b, d)
  <2>1. PICK S : S = PrintSet(c)
    OBVIOUS
  <2> QED
    BY <1>0, <1>2, <2>1, QueuesInLine
<1>7. \A i \in DOMAIN q : TaleIsFair(Tale[i], MarksOf(client))
  BY <1>3, <1>4, <1>5, <1>6 DEF Gathers
<1> QED
  BY <1>3, <1>6, <1>7 DEF Line

\* The tables: every name is the wire name of its symbol, every subscription
\* that is kept is known, and every one that was granted is kept.
TablesFit(c, msgs, subs, chans, given) ==
  /\ NamesFit(c, subs)
  /\ \A a \in msgs : IsKnown(c, a, subs, chans)
  /\ \A g \in given : g \in Symbols \X Channels /\ Asked(c, g[2], g[1]) \in msgs

\* The clients whose lost public socket comes back with all that was granted.
ComesBack(c) == c.venue # "coinbase" /\ ~(c.venue \in {"gate", "htx", "kraken", "kucoin"} /\ Swap(c))

\* A socket that a poll opened is on the host where that client reopens it, and
\* carries what was granted, before it was lost or since.
PolledFits(c, s, given) ==
  s # None /\ s.polled =>
    /\ s.host = PollOf(c).reopens
    /\ ComesBack(c) => \A g \in given : Asked(c, g[2], g[1]).host = "notice" \/ Asked(c, g[2], g[1]) \in s.carries

\* A known subscription is one that the client makes.
LEMMA KnownIsAsked ==
  ASSUME NEW c, NEW a, NEW subs, NEW chans, IsKnown(c, a, subs, chans)
  PROVE  a \in FeedSet(c)
  BY DEF IsKnown, FeedSet

\* What a call that subscribes s to ch does to the tables, and to the channels.
Registers(outcome, ch, s, a, msgs, subs, given, msgs2, subs2, given2) ==
  /\ msgs2 = IF outcome = "ok" THEN msgs \cup {a} ELSE msgs
  /\ subs2 = IF outcome = "ok" /\ a.named THEN subs \cup {[wire |-> a.wire, symbol |-> s]} ELSE subs
  /\ given2 = IF outcome = "ok" THEN given \cup {<<s, ch>>} ELSE given

Notes(c, outcome, ch, s, chans, chans2) ==
  chans \subseteq chans2 /\ (outcome = "ok" /\ ch \in Derived => <<Wire(c, s), ch>> \in chans2)

\* It keeps them in step, whether its send goes through or not.
LEMMA RegisteringFits ==
  ASSUME NEW c \in Clients, NEW ch \in Channels, NEW s \in Symbols, Topic(c, ch) # "none",
         NEW msgs, NEW subs, NEW chans, NEW given, TablesFit(c, msgs, subs, chans, given),
         NEW outcome, NEW chans2, Notes(c, outcome, ch, s, chans, chans2), NEW a, a = Asked(c, ch, s),
         NEW msgs2, NEW subs2, NEW given2, Registers(outcome, ch, s, a, msgs, subs, given, msgs2, subs2, given2)
  PROVE  /\ TablesFit(c, msgs2, subs2, chans2, given2) /\ subs \subseteq subs2
         /\ outcome = "ok" => IsKnown(c, a, subs2, chans2)
<1> USE DEF Registers, Notes
<1>1. a.named => a.wire = Wire(c, s)
  BY FeedsAreAsked
<1>2. subs \subseteq subs2
  OBVIOUS
<1>3. NamesFit(c, subs2)
  BY <1>1 DEF TablesFit, NamesFit
<1>4. ASSUME outcome = "ok" PROVE IsKnown(c, a, subs2, chans2)
  <2>1. a.named => [wire |-> a.wire, symbol |-> s] \in subs2
    BY <1>4
  <2> QED
    BY <1>4, <2>1 DEF IsKnown
<1>5. ASSUME NEW b \in msgs2 PROVE IsKnown(c, b, subs2, chans2)
  <2>1. CASE b \in msgs
    <3>1. IsKnown(c, b, subs, chans)
      BY <2>1 DEF TablesFit
    <3> QED
      BY <1>2, <3>1, Zenon DEF IsKnown
  <2>2. CASE b \notin msgs
    BY <1>4, <1>5, <2>2
  <2> QED
    BY <2>1, <2>2
<1>6. ASSUME NEW g \in given2 PROVE g \in Symbols \X Channels /\ Asked(c, g[2], g[1]) \in msgs2
  <2>1. CASE g \in given
    BY <2>1 DEF TablesFit
  <2>2. CASE g \notin given
    <3>1. g = <<s, ch>> /\ a \in msgs2
      BY <1>6, <2>2
    <3> QED
      BY <3>1
  <2> QED
    BY <2>1, <2>2
<1> QED
  BY <1>2, <1>3, <1>4, <1>5, <1>6 DEF TablesFit

\* A socket with other subscriptions.
WithFeeds(s, feeds) == [s EXCEPT !.carries = feeds]

\* It keeps the rest of what it had.
LEMMA SocketsWithFeeds ==
  ASSUME NEW c, NEW s \in SocketSet(c), PingsFit(s), NEW feeds \in SUBSET FeedSet(c)
  PROVE  LET r == WithFeeds(s, feeds)
         IN  /\ r \in SocketSet(c) /\ PingsFit(r) /\ r.carries = feeds
             /\ r.host = s.host /\ r.inbound = s.inbound /\ r.polled = s.polled /\ r.up = s.up
<1> DEFINE r == WithFeeds(s, feeds)
<1>1. /\ r \in SocketSet(c) /\ r.carries = feeds /\ r.pings = s.pings
      /\ r.host = s.host /\ r.inbound = s.inbound /\ r.polled = s.polled /\ r.up = s.up
  <2> DEFINE Q == Seq(PrintSet(c))
             F == SUBSET FeedSet(c)
  <2>1. s \in [host : {"any", "spot", "linear", "notice", "private"}, up : BOOLEAN, carries : F,
               inbound : Q, pings : Nat, polled : BOOLEAN, key : Nat]
    BY DEF SocketSet
  <2>2. feeds \in F
    OBVIOUS
  <2>3. /\ r \in [host : {"any", "spot", "linear", "notice", "private"}, up : BOOLEAN, carries : F,
                  inbound : Q, pings : Nat, polled : BOOLEAN, key : Nat]
        /\ r.carries = feeds /\ r.pings = s.pings
        /\ r.host = s.host /\ r.inbound = s.inbound /\ r.polled = s.polled /\ r.up = s.up
    <3> HIDE DEF Q, F
    <3> QED
      BY <2>1, <2>2 DEF WithFeeds
  <2> QED
    BY <2>3 DEF SocketSet
<1> HIDE DEF r
<1>2. PingsFit(r)
  BY <1>1 DEF PingsFit
<1> QED
  BY <1>1, <1>2 DEF r

\* What a call leaves of the socket that it sends on, where a poll opened it.
Keeps(s, r, outcome, feeds) ==
  r # None /\ r.polled =>
    /\ s # None /\ s.polled /\ r.host = s.host
    /\ r.carries = IF outcome = "ok" THEN s.carries \cup feeds ELSE s.carries

\* What a call leaves of the socket that it sends on fits the new tables.
LEMMA SentFits ==
  ASSUME NEW c, NEW s, NEW subs, NEW chans, PublicFits(c, s, subs, chans),
         NEW subs2, NEW chans2, subs \subseteq subs2, chans \subseteq chans2,
         NEW host \in {"any", "spot", "linear", "notice"}, NEW feeds \in SUBSET FeedSet(c), NEW outcome \in Outcomes(s),
         outcome = "ok" => \A a \in feeds : IsKnown(c, a, subs2, chans2),
         NEW r, r = Sent(s, host, feeds, outcome)
  PROVE  /\ PublicFits(c, r, subs2, chans2)
         /\ Keeps(s, r, outcome, feeds)
<1> USE DEF Keeps
<1>1. PublicFits(c, s, subs2, chans2)
  BY TablesGrow
<1>2. outcome \in {"ok", "connect", "send"} /\ (outcome = "connect" => s = None)
  <2>1. s # None => Connected(s) \/ Dropped(s)
    BY DEF PublicFits, SocketSet, Connected, Dropped
  <2> QED
    BY <2>1 DEF Outcomes
<1>3. PICK at : at = IF s = None THEN Open(host, {}, FALSE) ELSE s
  OBVIOUS
<1>4. /\ at # None /\ PublicFits(c, at, subs2, chans2) /\ at.polled \in BOOLEAN
      /\ at.polled => s # None /\ s = at
  <2>1. CASE s = None
    <3>1. at \in SocketSet(c) /\ at.host = host /\ at.carries = {} /\ at.inbound = <<>> /\ at.polled = FALSE /\ PingsFit(at)
      <4>1. PICK none \in SUBSET FeedSet(c) : none = {}
        OBVIOUS
      <4>2. at = Open(host, none, FALSE)
        BY <1>3, <2>1, <4>1
      <4>3. IsFresh(c, at, host, none, FALSE)
        BY <4>1, <4>2, OpenedSockets
      <4> QED
        BY <4>1, <4>3 DEF IsFresh
    <3>2. at # None
      BY <3>1, SocketsAreSome
    <3>3. \A i \in DOMAIN at.inbound :
            at.inbound[i] = Ping \/ \E m \in Symbols : IsCarried(c, at.carries, m, at.inbound[i])
      <4>1. DOMAIN at.inbound = {}
        BY <3>1
      <4> QED
        BY <4>1
    <3>4. \A a \in at.carries : IsKnown(c, a, subs2, chans2)
      BY <3>1
    <3>5. at.host # "private"
      BY <3>1
    <3>6. PublicFits(c, at, subs2, chans2)
      BY <3>1, <3>3, <3>4, <3>5 DEF PublicFits
    <3> QED
      BY <3>1, <3>2, <3>6
  <2>2. CASE s # None
    <3>1. s \in SocketSet(c)
      BY <1>1, <2>2 DEF PublicFits
    <3> QED
      BY <1>1, <1>3, <2>2, <3>1 DEF SocketSet
  <2> QED
    BY <2>1, <2>2
<1>5. /\ at \in SocketSet(c) /\ at.host # "private" /\ PingsFit(at)
      /\ \A a \in at.carries : IsKnown(c, a, subs2, chans2)
      /\ \A i \in DOMAIN at.inbound :
           at.inbound[i] = Ping \/ \E m \in Symbols : IsCarried(c, at.carries, m, at.inbound[i])
  BY <1>4, Zenon DEF PublicFits
<1>6. CASE outcome = "connect"
  BY <1>2, <1>6 DEF Sent, PublicFits
<1>7. CASE outcome = "send"
  <2>1. r = [at EXCEPT !.up = FALSE]
    BY <1>3, <1>7 DEF Sent
  <2>2. /\ r \in SocketSet(c) /\ PingsFit(r) /\ r.host = at.host /\ r.carries = at.carries /\ r.polled = at.polled
        /\ r.inbound = at.inbound
    BY <1>5, <2>1, DroppedFits
  <2>3. PublicFits(c, r, subs2, chans2)
    BY <1>5, <2>2 DEF PublicFits
  <2> QED
    BY <1>4, <1>7, <2>2, <2>3
<1>8. CASE outcome = "ok"
  <2>1. PICK all : all = at.carries \cup feeds
    OBVIOUS
  <2>2. all \in SUBSET FeedSet(c)
    BY <1>5, <2>1 DEF SocketSet
  <2>3. r = WithFeeds(at, all)
    BY <1>3, <1>8, <2>1 DEF Sent, WithFeeds
  <2>4. /\ r \in SocketSet(c) /\ PingsFit(r) /\ r.carries = all
        /\ r.host = at.host /\ r.inbound = at.inbound /\ r.polled = at.polled
    BY <1>5, <2>2, <2>3, SocketsWithFeeds
  <2>5. \A a \in r.carries : IsKnown(c, a, subs2, chans2)
    BY <1>5, <1>8, <2>1, <2>4
  <2>6. ASSUME NEW i \in DOMAIN r.inbound
        PROVE  r.inbound[i] = Ping \/ \E m \in Symbols : IsCarried(c, r.carries, m, r.inbound[i])
    <3>1. at.inbound[i] = Ping \/ \E m \in Symbols : IsCarried(c, at.carries, m, at.inbound[i])
      BY <1>5, <2>4
    <3>2. ASSUME NEW m, IsCarried(c, at.carries, m, at.inbound[i]) PROVE IsCarried(c, r.carries, m, r.inbound[i])
      BY <2>1, <2>4, <3>2 DEF IsCarried
    <3> QED
      BY <2>4, <3>1, <3>2
  <2>7. PublicFits(c, r, subs2, chans2)
    BY <1>5, <2>4, <2>5, <2>6 DEF PublicFits
  <2> QED
    BY <1>4, <1>8, <2>1, <2>4, <2>7
<1> QED
  BY <1>2, <1>6, <1>7, <1>8

\* A client whose socket comes back reopens it on a host of its own market.
LEMMA ReopensAtHome ==
  ASSUME NEW c \in Clients, ComesBack(c)
  PROVE  PollOf(c).reopens \in {"any", c.market}
<1>1. c.venue \in {"binance", "bitget", "bybit", "coinbase", "gate", "htx", "kraken", "kucoin", "okx", "upbit"}
      /\ c.market \in {"spot", "linear"}
  BY FeedsAssumption
<1>2. c.venue = "coinbase" \/ (c.venue \in {"gate", "htx", "kraken", "kucoin"} => c.market = "spot")
  BY <1>1 DEF ComesBack, Swap
<1> QED
  BY <1>1, <1>2 DEF ComesBack, PollOf, BinancePoll, BitgetPoll, BybitPoll, GatePoll, HtxPoll, KrakenPoll,
       KuCoinPoll, OkxPoll, UpbitPoll, Polled

\* What a call that subscribes leaves of the socket that it sends on still
\* carries what was granted: what was, and what this call was.
LEMMA AskedIsCarried ==
  ASSUME NEW c \in Clients, NEW ch \in Channels, NEW s \in Symbols, NEW a, a = Asked(c, ch, s),
         NEW held, NEW r, NEW given, PolledFits(c, held, given), NEW outcome, NEW feeds, Keeps(held, r, outcome, feeds),
         NEW msgs, NEW subs, NEW msgs2, NEW subs2, NEW given2,
         Registers(outcome, ch, s, a, msgs, subs, given, msgs2, subs2, given2),
         a.host # "notice" /\ held # None /\ held.host \in {"any", c.market} => a \in feeds
  PROVE  PolledFits(c, r, given2)
<1> USE DEF Keeps, Registers
<1> SUFFICES ASSUME r # None, r.polled
             PROVE  /\ r.host = PollOf(c).reopens
                    /\ ComesBack(c) => \A g \in given2 : Asked(c, g[2], g[1]).host = "notice" \/ Asked(c, g[2], g[1]) \in r.carries
  BY Zenon DEF PolledFits
<1>1. /\ held # None /\ held.polled /\ r.host = held.host
      /\ r.carries = IF outcome = "ok" THEN held.carries \cup feeds ELSE held.carries
  OBVIOUS
<1>2. /\ held.host = PollOf(c).reopens
      /\ ComesBack(c) => \A g \in given : Asked(c, g[2], g[1]).host = "notice" \/ Asked(c, g[2], g[1]) \in held.carries
  BY <1>1, Zenon DEF PolledFits
<1>3. ASSUME ComesBack(c), NEW g \in given2
      PROVE  Asked(c, g[2], g[1]).host = "notice" \/ Asked(c, g[2], g[1]) \in r.carries
  <2>1. CASE g \in given
    <3>1. Asked(c, g[2], g[1]).host = "notice" \/ Asked(c, g[2], g[1]) \in held.carries
      BY <1>2, <1>3, <2>1
    <3> QED
      BY <1>1, <3>1
  <2>2. CASE g \notin given
    <3>1. outcome = "ok" /\ g = <<s, ch>>
      BY <1>3, <2>2
    <3>2. Asked(c, g[2], g[1]) = a
      BY <3>1
    <3>3. held.host \in {"any", c.market}
      BY <1>2, <1>3, ReopensAtHome
    <3> QED
      BY <1>1, <3>1, <3>2, <3>3
  <2> QED
    BY <2>1, <2>2
<1> QED
  BY <1>1, <1>2, <1>3

\* The tables, the sockets, the keys, the tick and what was told: each fits.
AccountFits ==
  /\ keys \in Nat /\ listen_key \in Nat
  /\ PrivateFits(client, private)
  /\ client.venue = "binance" /\ private # None => listen_key = private.key

FeedsInv ==
  /\ client \in Clients
  /\ TablesFit(client, sub_messages, subscriptions, channels, granted)
  /\ PublicFits(client, public, subscriptions, channels)
  /\ PublicFits(client, notice, subscriptions, channels)
  /\ PolledFits(client, public, granted)
  /\ AccountFits
  /\ TickFits(client, tick)
  /\ EventsAreTrue

\* A call that subscribes, on whichever socket.
LEMMA AskingFits ==
  ASSUME FeedsInv, client' = client, NEW ch \in Channels, NEW s \in Symbols, Topic(client, ch) # "none",
         NEW held, PublicFits(client, held, subscriptions, channels), NEW outcome \in Outcomes(held),
         Registered(ch, s, outcome), channels \subseteq channels',
         outcome = "ok" /\ ch \in Derived => <<Wire(client, s), ch>> \in channels',
         NEW r, r = SentAs(held, ch, s, outcome), NEW other, PublicFits(client, other, subscriptions, channels)
  PROVE  /\ TablesFit(client, sub_messages', subscriptions', channels', granted')
         /\ PublicFits(client, r, subscriptions', channels') /\ PublicFits(client, other, subscriptions', channels')
         /\ PolledFits(client, held, granted) => PolledFits(client, r, granted')
         /\ PolledFits(client, other, granted) /\ Asked(client, ch, s).host = "notice" =>
              PolledFits(client, other, granted')
<1>1. PICK c, msgs, subs, chans, given : c = client /\ msgs = sub_messages /\ subs = subscriptions /\ chans = channels /\ given = granted
  OBVIOUS
<1>2. PICK msgs2, subs2, chans2, given2 :
        msgs2 = sub_messages' /\ subs2 = subscriptions' /\ chans2 = channels' /\ given2 = granted'
  OBVIOUS
<1>3. PICK a : a = Asked(c, ch, s)
  OBVIOUS
<1>5. c \in Clients /\ TablesFit(c, msgs, subs, chans, given) /\ Topic(c, ch) # "none"
  BY <1>1 DEF FeedsInv
<1>6. Registers(outcome, ch, s, a, msgs, subs, given, msgs2, subs2, given2)
  BY <1>1, <1>2, <1>3 DEF Registered, Registers
<1>7. Notes(c, outcome, ch, s, chans, chans2) /\ chans \subseteq chans2
  BY <1>1, <1>2 DEF Notes
<1>8. /\ TablesFit(c, msgs2, subs2, chans2, given2) /\ subs \subseteq subs2
      /\ outcome = "ok" => IsKnown(c, a, subs2, chans2)
  BY <1>3, <1>5, <1>6, <1>7, RegisteringFits
<1>9. PICK host : host = IF held = None THEN a.host ELSE held.host
  OBVIOUS
<1>10. PICK feeds : feeds = Taken(host, {a})
  OBVIOUS
<1>11. feeds \in SUBSET {a} /\ (a.host # "notice" /\ host \in {"any", c.market} => a \in feeds)
  BY <1>1, <1>10 DEF Taken
<1>12. r = Sent(held, host, feeds, outcome)
  BY <1>1, <1>3, <1>9, <1>10 DEF SentAs
<1>13. PublicFits(c, held, subs, chans) /\ PublicFits(c, other, subs, chans)
  BY <1>1
<1>14. host \in {"any", "spot", "linear", "notice"}
  <2>1. a.host \in {"any", c.market, "notice"} /\ c.market \in {"spot", "linear"}
    BY <1>3, <1>5, FeedsAreAsked, FeedsAssumption
  <2>2. held # None => held.host \in {"any", "spot", "linear", "notice"}
    BY <1>13 DEF PublicFits, SocketSet
  <2> QED
    BY <1>9, <2>1, <2>2
<1>15. feeds \in SUBSET FeedSet(c)
  BY <1>3, <1>11 DEF FeedSet
<1>16. outcome = "ok" => \A b \in feeds : IsKnown(c, b, subs2, chans2)
  BY <1>8, <1>11
<1>17. PublicFits(c, r, subs2, chans2) /\ Keeps(held, r, outcome, feeds)
  BY <1>7, <1>8, <1>12, <1>13, <1>14, <1>15, <1>16, SentFits
<1>18. PublicFits(c, other, subs2, chans2)
  BY <1>7, <1>8, <1>13, TablesGrow
<1>19. ASSUME PolledFits(c, held, given) PROVE PolledFits(c, r, given2)
  <2>1. a.host # "notice" /\ held # None /\ held.host \in {"any", c.market} => a \in feeds
    BY <1>9, <1>11
  <2> QED
    BY <1>3, <1>5, <1>6, <1>17, <1>19, <2>1, AskedIsCarried
<1>20. ASSUME PolledFits(c, other, given), a.host = "notice" PROVE PolledFits(c, other, given2)
  <2>1. ASSUME NEW g \in given2, g \notin given PROVE Asked(c, g[2], g[1]).host = "notice"
    BY <1>3, <1>6, <1>20, <2>1 DEF Registers
  <2> QED
    BY <1>20, <2>1 DEF PolledFits
<1> QED
  BY <1>1, <1>2, <1>3, <1>8, <1>17, <1>18, <1>19, <1>20

\* A socket that arrives from another with the same feeds from the same host.
SameFeeds(s, r) == r # None => s # None /\ r.host = s.host /\ r.carries = s.carries /\ r.polled = s.polled

\* If the one is as a poll opened it, so is the other.
LEMMA SameFeedsFit ==
  ASSUME NEW c, NEW s, NEW r, SameFeeds(s, r), NEW given, PolledFits(c, s, given)
  PROVE  PolledFits(c, r, given)
  BY Zenon DEF SameFeeds, PolledFits

\* The account's frames, and pings, are prints.
LEMMA AccountPrints == ASSUME NEW c PROVE {Ping, Order, Balance} \subseteq PrintSet(c)
<1> DEFINE A == UNION {Prints(c, s) : s \in Symbols}
<1>1. PrintSet(c) = A \cup {Ping, Order, Balance}
  BY DEF PrintSet
<1> HIDE DEF A
<1> QED
  BY <1>1

\* A frame that a public socket receives: a ping, or a print that it carries.
LEMMA PublicReceives ==
  ASSUME NEW c, NEW subs, NEW chans, NEW s, PublicFits(c, s, subs, chans), s # None,
         NEW p, p = Ping \/ \E m \in Symbols : IsCarried(c, s.carries, m, p), NEW r, r = Received(s, p)
  PROVE  PublicFits(c, r, subs, chans) /\ SameFeeds(s, r)
<1>1. /\ s \in SocketSet(c) /\ s.host # "private" /\ PingsFit(s)
      /\ \A a \in s.carries : IsKnown(c, a, subs, chans)
      /\ \A i \in DOMAIN s.inbound : s.inbound[i] = Ping \/ \E m \in Symbols : IsCarried(c, s.carries, m, s.inbound[i])
  BY Zenon DEF PublicFits
<1>2. p \in PrintSet(c)
  <2>1. CASE p = Ping
    BY <2>1, AccountPrints
  <2>2. CASE p # Ping
    <3>1. PICK m \in Symbols : p \in Prints(c, m)
      BY <2>2 DEF IsCarried
    <3> QED
      BY <3>1 DEF PrintSet
  <2> QED
    BY <2>1, <2>2
<1>0. r \in SocketSet(c) /\ PingsFit(r) /\ TakesIn(s, r, p)
  BY <1>1, <1>2, ReceivedFits
<1>3. /\ r \in SocketSet(c) /\ PingsFit(r)
      /\ r.host = s.host /\ r.carries = s.carries /\ r.polled = s.polled
      /\ \A i \in DOMAIN r.inbound : r.inbound[i] = p \/ \E j \in DOMAIN s.inbound : r.inbound[i] = s.inbound[j]
  BY <1>0, Zenon DEF TakesIn
<1>4. ASSUME NEW i \in DOMAIN r.inbound
      PROVE  r.inbound[i] = Ping \/ \E m \in Symbols : IsCarried(c, r.carries, m, r.inbound[i])
  <2>1. CASE r.inbound[i] = p
    BY <1>3, <2>1
  <2>2. CASE r.inbound[i] # p
    <3>1. PICK j \in DOMAIN s.inbound : r.inbound[i] = s.inbound[j]
      BY <1>3, <2>2
    <3> QED
      BY <1>1, <1>3, <3>1
  <2> QED
    BY <2>1, <2>2
<1> QED
  BY <1>1, <1>3, <1>4, Zenon DEF PublicFits, SameFeeds

\* A socket that goes down keeps what it carries.
LEMMA PublicDrops ==
  ASSUME NEW c, NEW subs, NEW chans, NEW s, PublicFits(c, s, subs, chans), s # None,
         NEW r, r = [s EXCEPT !.up = FALSE]
  PROVE  PublicFits(c, r, subs, chans) /\ SameFeeds(s, r)
<1>1. /\ s \in SocketSet(c) /\ s.host # "private"
      /\ \A a \in s.carries : IsKnown(c, a, subs, chans)
      /\ \A i \in DOMAIN s.inbound : s.inbound[i] = Ping \/ \E m \in Symbols : IsCarried(c, s.carries, m, s.inbound[i])
  BY Zenon DEF PublicFits
<1>2. /\ r \in SocketSet(c) /\ PingsFit(r)
      /\ r.host = s.host /\ r.carries = s.carries /\ r.polled = s.polled /\ r.inbound = s.inbound
  BY <1>1, DroppedFits
<1> QED
  BY <1>1, <1>2 DEF PublicFits, SameFeeds

\* And so does one that a poll drains.
LEMMA PublicDrains ==
  ASSUME NEW c, c = client, NEW subs, NEW chans, NEW s, PublicFits(c, s, subs, chans), NEW r, r = Drained(s)
  PROVE  PublicFits(c, r, subs, chans) /\ SameFeeds(s, r)
<1>1. CASE s = None
  <2>1. r = None
    BY <1>1 DEF Drained
  <2> QED
    BY <2>1 DEF PublicFits, SameFeeds
<1>2. CASE s # None
  <2>1. s \in SocketSet(c) /\ s.host # "private" /\ \A a \in s.carries : IsKnown(c, a, subs, chans)
    BY <1>2 DEF PublicFits
  <2>2. r \in SocketSet(c) /\ PingsFit(r) /\ r.inbound = <<>>
        /\ r.host = s.host /\ r.carries = s.carries /\ r.polled = s.polled
    BY <1>2, <2>1, DrainedFits
  <2>3. \A i \in DOMAIN r.inbound : r.inbound[i] = Ping \/ \E m \in Symbols : IsCarried(c, r.carries, m, r.inbound[i])
    <3>1. DOMAIN r.inbound = {}
      BY <2>2
    <3> QED
      BY <3>1
  <2> QED
    BY <1>2, <2>1, <2>2, <2>3 DEF PublicFits, SameFeeds
<1> QED
  BY <1>1, <1>2

\* The private socket, that receives a frame, goes down or is drained.
LEMMA PrivateReceives ==
  ASSUME NEW c, NEW s, PrivateFits(c, s), s # None, NEW p \in {Ping, Order, Balance}, NEW r, r = Received(s, p)
  PROVE  PrivateFits(c, r) /\ r.key = s.key
<1>1. s \in SocketSet(c) /\ PingsFit(s) /\ \A i \in DOMAIN s.inbound : s.inbound[i] \in {Ping, Order, Balance}
  BY DEF PrivateFits
<1>2. p \in PrintSet(c)
  BY AccountPrints
<1>0. r \in SocketSet(c) /\ PingsFit(r) /\ TakesIn(s, r, p)
  BY <1>1, <1>2, ReceivedFits
<1>3. /\ r \in SocketSet(c) /\ PingsFit(r) /\ r.key = s.key
      /\ \A i \in DOMAIN r.inbound : r.inbound[i] = p \/ \E j \in DOMAIN s.inbound : r.inbound[i] = s.inbound[j]
  BY <1>0, Zenon DEF TakesIn
<1>4. \A i \in DOMAIN r.inbound : r.inbound[i] \in {Ping, Order, Balance}
  BY <1>1, <1>3
<1> QED
  BY <1>3, <1>4 DEF PrivateFits

LEMMA PrivateDrops ==
  ASSUME NEW c, NEW s, PrivateFits(c, s), s # None, NEW r, r = [s EXCEPT !.up = FALSE]
  PROVE  PrivateFits(c, r) /\ r.key = s.key
<1>1. s \in SocketSet(c) /\ \A i \in DOMAIN s.inbound : s.inbound[i] \in {Ping, Order, Balance}
  BY DEF PrivateFits
<1>2. r \in SocketSet(c) /\ PingsFit(r) /\ r.inbound = s.inbound /\ r.key = s.key
  BY <1>1, DroppedFits
<1> QED
  BY <1>1, <1>2 DEF PrivateFits

LEMMA PrivateDrains ==
  ASSUME NEW c, c = client, NEW s, PrivateFits(c, s), NEW r, r = Drained(s)
  PROVE  PrivateFits(c, r) /\ (r # None => s # None /\ r.key = s.key)
<1>1. CASE s = None
  <2>1. r = None
    BY <1>1 DEF Drained
  <2> QED
    BY <2>1 DEF PrivateFits
<1>2. CASE s # None
  <2>1. s \in SocketSet(c)
    BY <1>2 DEF PrivateFits
  <2>2. r \in SocketSet(c) /\ PingsFit(r) /\ r.inbound = <<>> /\ r.key = s.key
    BY <1>2, <2>1, DrainedFits
  <2>3. \A i \in DOMAIN r.inbound : r.inbound[i] \in {Ping, Order, Balance}
    <3>1. DOMAIN r.inbound = {}
      BY <2>2
    <3> QED
      BY <3>1
  <2> QED
    BY <1>2, <2>2, <2>3 DEF PrivateFits
<1> QED
  BY <1>1, <1>2

\* A client starts with nothing.
LEMMA FeedsInitFits == FeedsInit => FeedsInv
<1> SUFFICES ASSUME FeedsInit PROVE FeedsInv
  OBVIOUS
<1> USE DEF FeedsInit
<1>1. TablesFit(client, sub_messages, subscriptions, channels, granted)
  BY DEF TablesFit, NamesFit
<1>2. PublicFits(client, public, subscriptions, channels) /\ PublicFits(client, notice, subscriptions, channels)
  BY DEF PublicFits
<1>3. PolledFits(client, public, granted)
  BY DEF PolledFits
<1>4. AccountFits
  BY DEF AccountFits, PrivateFits
<1>5. TickFits(client, tick)
  BY DEF TickFits, TickSet, NoTick
<1>6. EventsAreTrue
  <2>1. DOMAIN told = {}
    OBVIOUS
  <2> QED
    BY <2>1 DEF EventsAreTrue
<1> QED
  BY <1>1, <1>2, <1>3, <1>4, <1>5, <1>6 DEF FeedsInv

\* A step that tells nothing tells nothing false.
LEMMA NothingToldIsTrue == ASSUME told' = <<>> PROVE EventsAreTrue'
<1>1. DOMAIN told' = {}
  OBVIOUS
<1> QED
  BY <1>1 DEF EventsAreTrue

\* subscribe_trades, subscribe_book, subscribe_ticker.
LEMMA SubscribeFits ==
  ASSUME FeedsInv, NEW ch \in Channels \ Derived, NEW s \in Symbols, Subscribe(ch, s), told' = <<>>
  PROVE  FeedsInv'
<1>1. PICK outcome \in Outcomes(public) : public' = SentAs(public, ch, s, outcome) /\ Registered(ch, s, outcome)
  BY DEF Subscribe
<1>2. UNCHANGED <<client, notice, private, channels, active, listen_key, tick, frames, keys>>
  BY DEF Subscribe
<1>3. PICK held, r, other, c : held = public /\ r = public' /\ other = notice /\ c = client
  OBVIOUS
<1>4. Topic(c, ch) # "none"
  BY DEF Topic, Channels, Derived
<1>5. /\ TablesFit(client, sub_messages', subscriptions', channels', granted')
      /\ PublicFits(client, r, subscriptions', channels') /\ PublicFits(client, other, subscriptions', channels')
      /\ PolledFits(client, held, granted) => PolledFits(client, r, granted')
  <2>1. /\ PublicFits(client, held, subscriptions, channels) /\ PublicFits(client, other, subscriptions, channels)
        /\ outcome \in Outcomes(held) /\ r = SentAs(held, ch, s, outcome) /\ client' = client
    BY <1>1, <1>2, <1>3 DEF FeedsInv
  <2>2. channels \subseteq channels' /\ (outcome = "ok" /\ ch \in Derived => <<Wire(client, s), ch>> \in channels')
    BY <1>2
  <2>3. Topic(client, ch) # "none"
    BY <1>3, <1>4
  <2> QED
    BY <1>1, <2>1, <2>2, <2>3, AskingFits
<1>6. AccountFits'
  BY <1>2 DEF FeedsInv, AccountFits
<1>7. client' \in Clients /\ TickFits(client', tick') /\ PolledFits(client, public, granted)
  BY <1>2 DEF FeedsInv
<1> QED
  BY <1>2, <1>3, <1>5, <1>6, <1>7, NothingToldIsTrue DEF FeedsInv

\* subscribe_derivatives.
LEMMA SubscribeDerivativesFits ==
  ASSUME FeedsInv, NEW ch \in Derived, NEW s \in Symbols, SubscribeDerivatives(ch, s), told' = <<>>
  PROVE  FeedsInv'
<1>1. PICK outcome \in Outcomes(public) :
        /\ public' = SentAs(public, ch, s, outcome) /\ Registered(ch, s, outcome)
        /\ channels' = channels \cup {<<Wire(client, s), ch>>}
  BY DEF SubscribeDerivatives
<1>2. /\ UNCHANGED <<client, notice, private, active, listen_key, tick, frames, keys>>
      /\ Topic(client, ch) # "none" /\ ch \in Channels
  BY DEF SubscribeDerivatives, Derived, Channels
<1>3. PICK held, r, other : held = public /\ r = public' /\ other = notice
  OBVIOUS
<1>4. /\ TablesFit(client, sub_messages', subscriptions', channels', granted')
      /\ PublicFits(client, r, subscriptions', channels') /\ PublicFits(client, other, subscriptions', channels')
      /\ PolledFits(client, held, granted) => PolledFits(client, r, granted')
  <2>1. /\ PublicFits(client, held, subscriptions, channels) /\ PublicFits(client, other, subscriptions, channels)
        /\ outcome \in Outcomes(held) /\ r = SentAs(held, ch, s, outcome) /\ client' = client
    BY <1>1, <1>2, <1>3 DEF FeedsInv
  <2>2. channels \subseteq channels' /\ (outcome = "ok" /\ ch \in Derived => <<Wire(client, s), ch>> \in channels')
    BY <1>1
  <2> QED
    BY <1>1, <1>2, <2>1, <2>2, AskingFits
<1>5. AccountFits'
  BY <1>2 DEF FeedsInv, AccountFits
<1>6. client' \in Clients /\ TickFits(client', tick') /\ PolledFits(client, public, granted)
  BY <1>2 DEF FeedsInv
<1> QED
  BY <1>2, <1>3, <1>4, <1>5, <1>6, NothingToldIsTrue DEF FeedsInv

\* subscribe_derivatives of HTX, on the notification socket.
LEMMA SubscribeNoticeFits ==
  ASSUME FeedsInv, NEW ch \in Derived, NEW s \in Symbols, SubscribeNotice(ch, s), told' = <<>>
  PROVE  FeedsInv'
<1>1. PICK outcome \in Outcomes(notice) :
        /\ notice' = SentAs(notice, ch, s, outcome) /\ Registered(ch, s, outcome)
        /\ channels' = IF outcome = "ok" THEN channels \cup {<<Wire(client, s), ch>>} ELSE channels
  BY DEF SubscribeNotice
<1>2. /\ UNCHANGED <<client, public, private, active, listen_key, tick, frames, keys>>
      /\ Topic(client, ch) # "none" /\ ch \in Channels /\ client.venue = "htx"
  BY DEF SubscribeNotice, Derived, Channels
<1>3. PICK held, r, other, c : held = notice /\ r = notice' /\ other = public /\ c = client
  OBVIOUS
<1>4. Asked(client, ch, s).host = "notice"
  <2>1. c \in Clients /\ Topic(c, ch) # "none" /\ c.venue = "htx"
    BY <1>2, <1>3 DEF FeedsInv
  <2>2. Asked(c, ch, s).host = "notice"
    BY <1>2, <2>1, FeedsAreAsked
  <2> QED
    BY <1>3, <2>2
<1>5. /\ TablesFit(client, sub_messages', subscriptions', channels', granted')
      /\ PublicFits(client, r, subscriptions', channels') /\ PublicFits(client, other, subscriptions', channels')
      /\ PolledFits(client, other, granted) => PolledFits(client, other, granted')
  <2>1. /\ PublicFits(client, held, subscriptions, channels) /\ PublicFits(client, other, subscriptions, channels)
        /\ outcome \in Outcomes(held) /\ r = SentAs(held, ch, s, outcome) /\ client' = client
    BY <1>1, <1>2, <1>3 DEF FeedsInv
  <2>2. channels \subseteq channels' /\ (outcome = "ok" /\ ch \in Derived => <<Wire(client, s), ch>> \in channels')
    BY <1>1
  <2> QED
    BY <1>1, <1>2, <1>4, <2>1, <2>2, AskingFits
<1>6. AccountFits'
  BY <1>2 DEF FeedsInv, AccountFits
<1>7. client' \in Clients /\ TickFits(client', tick') /\ PolledFits(client, public, granted)
  BY <1>2 DEF FeedsInv
<1> QED
  BY <1>2, <1>3, <1>5, <1>6, <1>7, NothingToldIsTrue DEF FeedsInv

\* A private socket, opened with the key the account was given.
WithKey(s, k) == [s EXCEPT !.key = k]

\* It fits, and has that key.
LEMMA PrivateOpens ==
  ASSUME NEW c, NEW polled \in BOOLEAN, NEW k \in Nat,
         NEW r, r = WithKey(Open("private", {"order", "balance"}, polled), k)
  PROVE  PrivateFits(c, r) /\ r.key = k
<1>1. PICK feeds \in SUBSET FeedSet(c) : feeds = {"order", "balance"}
  <2>1. {"order", "balance"} \in SUBSET FeedSet(c)
    <3> DEFINE A == {Asked(c, ch, s) : ch \in Channels, s \in Symbols}
    <3>1. FeedSet(c) = A \cup {"order", "balance"}
      BY DEF FeedSet
    <3> HIDE DEF A
    <3> QED
      BY <3>1
  <2> QED
    BY <2>1
<1>2. PICK s : s = Open("private", feeds, polled)
  OBVIOUS
<1>3. IsFresh(c, s, "private", feeds, polled)
  BY <1>1, <1>2, OpenedSockets
<1>4. s \in SocketSet(c) /\ s.inbound = <<>> /\ PingsFit(s)
  BY <1>3 DEF IsFresh
<1>5. r = WithKey(s, k)
  BY <1>1, <1>2
<1>6. r \in SocketSet(c) /\ r.inbound = s.inbound /\ r.pings = s.pings /\ r.up = s.up /\ r.key = k
  <2> DEFINE Q == Seq(PrintSet(c))
             F == SUBSET FeedSet(c)
  <2>1. s \in [host : {"any", "spot", "linear", "notice", "private"}, up : BOOLEAN, carries : F,
               inbound : Q, pings : Nat, polled : BOOLEAN, key : Nat]
    BY <1>4 DEF SocketSet
  <2>2. /\ r \in [host : {"any", "spot", "linear", "notice", "private"}, up : BOOLEAN, carries : F,
                  inbound : Q, pings : Nat, polled : BOOLEAN, key : Nat]
        /\ r.inbound = s.inbound /\ r.pings = s.pings /\ r.up = s.up /\ r.key = k
    <3> HIDE DEF Q, F
    <3> QED
      BY <1>5, <2>1 DEF WithKey
  <2> QED
    BY <2>2 DEF SocketSet
<1>7. PingsFit(r)
  BY <1>4, <1>6, Zenon DEF PingsFit
<1>8. DOMAIN r.inbound = {}
  BY <1>4, <1>6
<1> QED
  BY <1>6, <1>7, <1>8 DEF PrivateFits

\* The private stream, opened or not.  Where it fails the client keeps nothing
\* or the stream it had, with the listen key it had.
LEMMA PrivateStreamFits ==
  ASSUME AccountFits, client' = client, NEW held, held = None \/ held = private,
         NEW outcome, NEW polled \in BOOLEAN, PrivateStream(held, outcome, polled)
  PROVE  AccountFits'
<1>1. PICK k : k = Minted(outcome)
  OBVIOUS
<1>2. k \in Nat
  BY <1>1 DEF Minted, AccountFits
<1>3. /\ keys' = k
      /\ listen_key' = IF client.venue = "binance" /\ outcome = "ok" THEN k ELSE listen_key
  BY <1>1 DEF PrivateStream, KeyKept
<1>4. keys' \in Nat /\ listen_key' \in Nat
  BY <1>2, <1>3 DEF AccountFits
<1>5. CASE outcome = "ok"
  <2>1. PICK c, r : c = client /\ r = private'
    OBVIOUS
  <2>2. r = WithKey(Open("private", {"order", "balance"}, polled), k)
    BY <1>1, <1>5, <2>1 DEF PrivateStream, WithKey
  <2>3. PrivateFits(c, r) /\ r.key = k
    BY <1>2, <2>2, PrivateOpens
  <2>4. client'.venue = "binance" => listen_key' = private'.key
    BY <1>3, <1>5, <2>1, <2>3
  <2> QED
    BY <1>4, <2>1, <2>3, <2>4 DEF AccountFits
<1>6. CASE outcome # "ok"
  <2>1. private' = held
    BY <1>6 DEF PrivateStream
  <2>2. PrivateFits(client', private')
    BY <2>1 DEF AccountFits, PrivateFits
  <2>3. client'.venue = "binance" /\ private' # None => listen_key' = private'.key
    BY <1>3, <1>6, <2>1 DEF AccountFits
  <2> QED
    BY <1>4, <2>2, <2>3 DEF AccountFits
<1> QED
  BY <1>5, <1>6

\* subscribe_user_data.
LEMMA SubscribeUserDataFits ==
  ASSUME FeedsInv, SubscribeUserData, told' = <<>>
  PROVE  FeedsInv'
<1>1. UNCHANGED <<client, public, notice, sub_messages, subscriptions, channels, granted, tick>>
  BY DEF SubscribeUserData, history
<1>2. AccountFits'
  <2>1. PICK outcome : PrivateStream(private, outcome, FALSE)
    BY DEF SubscribeUserData
  <2>2. PICK held : held = private
    OBVIOUS
  <2>3. PICK no \in BOOLEAN : no = FALSE
    OBVIOUS
  <2>4. PrivateStream(held, outcome, no)
    BY <2>1, <2>2, <2>3
  <2> QED
    BY <1>1, <2>2, <2>3, <2>4, PrivateStreamFits DEF FeedsInv
<1> QED
  BY <1>1, <1>2, NothingToldIsTrue DEF FeedsInv

\* A step of the venue: the tables stay, and so do the sockets but for one.
StillFits ==
  /\ UNCHANGED <<client, tables, history, keys>>
  /\ told' = <<>>

\* Each socket may change so and the rest still fit.
LEMMA PublicChanges ==
  ASSUME FeedsInv, StillFits, UNCHANGED <<notice, private>>,
         PublicFits(client, public', subscriptions, channels), SameFeeds(public, public')
  PROVE  FeedsInv'
<1>1. /\ UNCHANGED <<client, sub_messages, subscriptions, channels, listen_key, active, granted, tick, keys, notice, private>>
      /\ told' = <<>>
  BY DEF StillFits, tables, history
<1>2. PolledFits(client, public', granted)
  <2>1. PICK c, s, r, given : c = client /\ s = public /\ r = public' /\ given = granted
    OBVIOUS
  <2>2. SameFeeds(s, r) /\ PolledFits(c, s, given)
    BY <2>1 DEF FeedsInv
  <2> QED
    BY <2>1, <2>2, SameFeedsFit
<1>3. AccountFits'
  BY <1>1 DEF FeedsInv, AccountFits
<1> QED
  BY <1>1, <1>2, <1>3, NothingToldIsTrue DEF FeedsInv

LEMMA NoticeChanges ==
  ASSUME FeedsInv, StillFits, UNCHANGED <<public, private>>, PublicFits(client, notice', subscriptions, channels)
  PROVE  FeedsInv'
<1>1. /\ UNCHANGED <<client, sub_messages, subscriptions, channels, listen_key, active, granted, tick, keys, public, private>>
      /\ told' = <<>>
  BY DEF StillFits, tables, history
<1>2. AccountFits'
  BY <1>1 DEF FeedsInv, AccountFits
<1> QED
  BY <1>1, <1>2, NothingToldIsTrue DEF FeedsInv

LEMMA PrivateChanges ==
  ASSUME FeedsInv, StillFits, UNCHANGED <<public, notice>>, PrivateFits(client, private'),
         private # None, private'.key = private.key
  PROVE  FeedsInv'
<1>1. /\ UNCHANGED <<client, sub_messages, subscriptions, channels, listen_key, active, granted, tick, keys, public, notice>>
      /\ told' = <<>>
  BY DEF StillFits, tables, history
<1>2. AccountFits'
  BY <1>1 DEF FeedsInv, AccountFits
<1> QED
  BY <1>1, <1>2, NothingToldIsTrue DEF FeedsInv

\* A print of the venue, to a socket that carries it.
LEMMA PublicPrintFits == ASSUME FeedsInv, PublicPrint, told' = <<>> PROVE FeedsInv'
<1>1. StillFits
  BY DEF PublicPrint, Unsent, StillFits
<1>0. PICK m \in Symbols : \E p \in Prints(client, m) :
        \/ Connected(public) /\ Carries(public, p) /\ public' = Received(public, p) /\ UNCHANGED <<notice, private>>
        \/ Connected(notice) /\ Carries(notice, p) /\ notice' = Received(notice, p) /\ UNCHANGED <<public, private>>
  BY DEF PublicPrint
<1>2. PICK p \in Prints(client, m) :
        \/ Connected(public) /\ Carries(public, p) /\ public' = Received(public, p) /\ UNCHANGED <<notice, private>>
        \/ Connected(notice) /\ Carries(notice, p) /\ notice' = Received(notice, p) /\ UNCHANGED <<public, private>>
  BY <1>0
<1>3. PICK c, subs, chans : c = client /\ subs = subscriptions /\ chans = channels
  OBVIOUS
<1>4. p.market = m
  <2>1. p \in Prints(c, m)
    BY <1>2, <1>3
  <2> QED
    BY <2>1, PrintsAre
<1>5. ASSUME NEW s, Carries(s, p) PROVE \E x \in Symbols : IsCarried(client, s.carries, x, p)
  BY <1>2, <1>4, <1>5 DEF Carries, IsCarried
<1>6. CASE Connected(public) /\ Carries(public, p) /\ public' = Received(public, p) /\ UNCHANGED <<notice, private>>
  <2>1. PICK s, r : s = public /\ r = public'
    OBVIOUS
  <2>2. PublicFits(c, s, subs, chans) /\ s # None /\ r = Received(s, p) /\ \E x \in Symbols : IsCarried(c, s.carries, x, p)
    BY <1>3, <1>5, <1>6, <2>1 DEF FeedsInv, Connected
  <2>3. PublicFits(c, r, subs, chans) /\ SameFeeds(s, r)
    BY <2>2, PublicReceives
  <2>4. PublicFits(client, public', subscriptions, channels) /\ SameFeeds(public, public')
    BY <1>3, <2>1, <2>3
  <2> QED
    BY <1>1, <1>6, <2>4, PublicChanges
<1>7. CASE Connected(notice) /\ Carries(notice, p) /\ notice' = Received(notice, p) /\ UNCHANGED <<public, private>>
  <2>1. PICK s, r : s = notice /\ r = notice'
    OBVIOUS
  <2>2. PublicFits(c, s, subs, chans) /\ s # None /\ r = Received(s, p) /\ \E x \in Symbols : IsCarried(c, s.carries, x, p)
    BY <1>3, <1>5, <1>7, <2>1 DEF FeedsInv, Connected
  <2>3. PublicFits(c, r, subs, chans)
    BY <2>2, PublicReceives
  <2>4. PublicFits(client, notice', subscriptions, channels)
    BY <1>3, <2>1, <2>3
  <2> QED
    BY <1>1, <1>7, <2>4, NoticeChanges
<1> QED
  BY <1>2, <1>6, <1>7

\* A frame, or a ping, of the private stream.
LEMMA PrivateFrameFits ==
  ASSUME FeedsInv, StillFits, Connected(private), NEW p \in {Ping, Order, Balance},
         private' = Received(private, p), UNCHANGED <<public, notice>>
  PROVE  FeedsInv'
<1>1. PICK c, s, r : c = client /\ s = private /\ r = private'
  OBVIOUS
<1>2. PrivateFits(c, s) /\ s # None /\ r = Received(s, p)
  BY <1>1 DEF FeedsInv, AccountFits, Connected
<1>3. PrivateFits(c, r) /\ r.key = s.key
  BY <1>2, PrivateReceives
<1>4. PrivateFits(client, private') /\ private # None /\ private'.key = private.key
  BY <1>1, <1>2, <1>3
<1> QED
  BY <1>4, PrivateChanges

\* A frame of the account.
LEMMA PrivatePrintFits == ASSUME FeedsInv, PrivatePrint, told' = <<>> PROVE FeedsInv'
<1>1. StillFits
  BY DEF PrivatePrint, Unsent, StillFits
<1>2. PICK p \in {Order, Balance} : private' = Received(private, p)
  BY DEF PrivatePrint
<1>3. Connected(private) /\ UNCHANGED <<public, notice>>
  BY DEF PrivatePrint
<1>4. p \in {Ping, Order, Balance}
  BY <1>2
<1> QED
  BY <1>1, <1>2, <1>3, <1>4, PrivateFrameFits

\* HTX's pings.
LEMMA HeartbeatFits == ASSUME FeedsInv, Heartbeat, told' = <<>> PROVE FeedsInv'
<1>1. StillFits
  BY DEF Heartbeat, Unsent, StillFits
<1>2. PICK c, subs, chans, p : c = client /\ subs = subscriptions /\ chans = channels /\ p = Ping
  OBVIOUS
<1>3. CASE Connected(public) /\ public' = Received(public, Ping) /\ UNCHANGED <<notice, private>>
  <2>1. PICK s, r : s = public /\ r = public'
    OBVIOUS
  <2>2. PublicFits(c, s, subs, chans) /\ s # None /\ r = Received(s, p)
    BY <1>2, <1>3, <2>1 DEF FeedsInv, Connected
  <2>3. PublicFits(c, r, subs, chans) /\ SameFeeds(s, r)
    BY <1>2, <2>2, PublicReceives
  <2>4. PublicFits(client, public', subscriptions, channels) /\ SameFeeds(public, public')
    BY <1>2, <2>1, <2>3
  <2> QED
    BY <1>1, <1>3, <2>4, PublicChanges
<1>4. CASE Connected(notice) /\ notice' = Received(notice, Ping) /\ UNCHANGED <<public, private>>
  <2>1. PICK s, r : s = notice /\ r = notice'
    OBVIOUS
  <2>2. PublicFits(c, s, subs, chans) /\ s # None /\ r = Received(s, p)
    BY <1>2, <1>4, <2>1 DEF FeedsInv, Connected
  <2>3. PublicFits(c, r, subs, chans)
    BY <1>2, <2>2, PublicReceives
  <2>4. PublicFits(client, notice', subscriptions, channels)
    BY <1>2, <2>1, <2>3
  <2> QED
    BY <1>1, <1>4, <2>4, NoticeChanges
<1>5. CASE Connected(private) /\ private' = Received(private, Ping) /\ UNCHANGED <<public, notice>>
  <2>1. p \in {Ping, Order, Balance}
    BY <1>2
  <2> QED
    BY <1>1, <1>2, <1>5, <2>1, PrivateFrameFits
<1> QED
  BY <1>3, <1>4, <1>5 DEF Heartbeat

\* A socket goes down.
LEMMA DropFits == ASSUME FeedsInv, Drop, told' = <<>> PROVE FeedsInv'
<1>1. StillFits
  BY DEF Drop, StillFits
<1>2. PICK c, subs, chans : c = client /\ subs = subscriptions /\ chans = channels
  OBVIOUS
<1>3. CASE Connected(public) /\ public' = [public EXCEPT !.up = FALSE] /\ UNCHANGED <<notice, private>>
  <2>1. PICK s, r : s = public /\ r = public'
    OBVIOUS
  <2>2. PublicFits(c, s, subs, chans) /\ s # None /\ r = [s EXCEPT !.up = FALSE]
    BY <1>2, <1>3, <2>1 DEF FeedsInv, Connected
  <2>3. PublicFits(c, r, subs, chans) /\ SameFeeds(s, r)
    BY <2>2, PublicDrops
  <2>4. PublicFits(client, public', subscriptions, channels) /\ SameFeeds(public, public')
    BY <1>2, <2>1, <2>3
  <2> QED
    BY <1>1, <1>3, <2>4, PublicChanges
<1>4. CASE Connected(notice) /\ notice' = [notice EXCEPT !.up = FALSE] /\ UNCHANGED <<public, private>>
  <2>1. PICK s, r : s = notice /\ r = notice'
    OBVIOUS
  <2>2. PublicFits(c, s, subs, chans) /\ s # None /\ r = [s EXCEPT !.up = FALSE]
    BY <1>2, <1>4, <2>1 DEF FeedsInv, Connected
  <2>3. PublicFits(c, r, subs, chans)
    BY <2>2, PublicDrops
  <2>4. PublicFits(client, notice', subscriptions, channels)
    BY <1>2, <2>1, <2>3
  <2> QED
    BY <1>1, <1>4, <2>4, NoticeChanges
<1>5. CASE Connected(private) /\ private' = [private EXCEPT !.up = FALSE] /\ UNCHANGED <<public, notice>>
  <2>1. PICK s, r : s = private /\ r = private'
    OBVIOUS
  <2>2. PrivateFits(c, s) /\ s # None /\ r = [s EXCEPT !.up = FALSE]
    BY <1>2, <1>5, <2>1 DEF FeedsInv, AccountFits, Connected
  <2>3. PrivateFits(c, r) /\ r.key = s.key
    BY <2>2, PrivateDrops
  <2>4. PrivateFits(client, private') /\ private # None /\ private'.key = private.key
    BY <1>2, <2>1, <2>2, <2>3
  <2> QED
    BY <1>1, <1>5, <2>4, PrivateChanges
<1> QED
  BY <1>3, <1>4, <1>5 DEF Drop

\* The host where a public socket is reopened.
LEMMA HostsToReopen == ASSUME NEW c \in Clients PROVE PollOf(c).reopens \in {"any", "spot", "linear"}
<1>1. c.venue \in {"binance", "bitget", "bybit", "coinbase", "gate", "htx", "kraken", "kucoin", "okx", "upbit"}
      /\ c.market \in {"spot", "linear"}
  BY FeedsAssumption
<1> QED
  BY <1>1 DEF PollOf, BinancePoll, BitgetPoll, BybitPoll, CoinbasePoll, GatePoll, HtxPoll, KrakenPoll,
       KuCoinPoll, OkxPoll, UpbitPoll, Polled

\* The public socket that a poll reopens carries what the replay asked for:
\* every subscription that was kept, so every one that was granted.
LEMMA ReopenedFits ==
  ASSUME FeedsInv, NEW outcome \in ReopenOutcomes, NEW r, r = Reopened(outcome)
  PROVE  PublicFits(client, r, subscriptions, channels) /\ PolledFits(client, r, granted)
<1>1. PICK c, msgs, subs, chans, given : c = client /\ msgs = sub_messages /\ subs = subscriptions /\ chans = channels /\ given = granted
  OBVIOUS
<1>2. c \in Clients /\ TablesFit(c, msgs, subs, chans, given)
  BY <1>1 DEF FeedsInv
<1>3. PICK host \in {"any", "spot", "linear"} : host = PollOf(c).reopens
  BY <1>2, HostsToReopen
<1>4. PICK feeds : feeds = IF outcome = "ok" THEN Taken(host, msgs) ELSE {}
  OBVIOUS
<1>5. feeds \subseteq msgs /\ feeds \in SUBSET FeedSet(c) /\ \A a \in feeds : IsKnown(c, a, subs, chans)
  <2>1. feeds \subseteq msgs
    BY <1>4 DEF Taken
  <2>2. \A a \in msgs : IsKnown(c, a, subs, chans)
    BY <1>2 DEF TablesFit
  <2>3. \A a \in feeds : a \in FeedSet(c)
    BY <2>1, <2>2, KnownIsAsked
  <2> QED
    BY <2>1, <2>2, <2>3
<1>6. CASE outcome \in {"ok", "expired"}
  <2>0. PICK yes \in BOOLEAN : yes = TRUE
    OBVIOUS
  <2>1. r = Open(host, feeds, yes)
    BY <1>1, <1>3, <1>4, <1>6, <2>0 DEF Reopened
  <2>2. host \in {"any", "spot", "linear", "notice", "private"}
    BY <1>3
  <2>3. IsFresh(c, r, host, feeds, yes)
    BY <1>5, <2>0, <2>1, <2>2, OpenedSockets
  <2>4. r \in SocketSet(c) /\ r.host = host /\ r.carries = feeds /\ PingsFit(r) /\ DOMAIN r.inbound = {}
    BY <2>3 DEF IsFresh
  <2>5. PublicFits(c, r, subs, chans)
    BY <1>3, <1>5, <2>4 DEF PublicFits
  <2>6. ASSUME ComesBack(c), NEW g \in given
        PROVE  Asked(c, g[2], g[1]).host = "notice" \/ Asked(c, g[2], g[1]) \in r.carries
    <3>1. outcome = "ok"
      BY <1>1, <1>6, <2>6 DEF ReopenOutcomes, ComesBack
    <3>2. host \in {"any", c.market}
      BY <1>2, <1>3, <2>6, ReopensAtHome
    <3>3. Asked(c, g[2], g[1]) \in msgs
      BY <1>2, <2>6 DEF TablesFit
    <3>4. r.carries = {a \in msgs : IF a.host = "notice" THEN host = "notice" ELSE host \in {"any", c.market}}
      BY <1>1, <1>4, <2>4, <3>1 DEF Taken
    <3> QED
      BY <3>2, <3>3, <3>4
  <2>7. PolledFits(c, r, given)
    BY <1>3, <2>4, <2>6 DEF PolledFits
  <2> QED
    BY <1>1, <2>5, <2>7
<1>7. CASE outcome \notin {"ok", "expired"}
  <2>1. r = None
    BY <1>7 DEF Reopened
  <2> QED
    BY <2>1 DEF PublicFits, PolledFits
<1> QED
  BY <1>6, <1>7

\* What a poll tells, and what the caller makes of it.
LEMMA TellingFits ==
  ASSUME FeedsInv, told' = Tale, tick' = FoldLeft(Followed, tick, Tale)
  PROVE  EventsAreTrue' /\ tick' \in TicksFrom(client, tick)
<1>1. PICK n \in Nat : DOMAIN Tale = 1..n /\ \A i \in 1..n : TaleIsFair(Tale[i], MarksOf(client))
  <2>1. /\ client \in Clients /\ NamesFit(client, subscriptions)
        /\ PublicFits(client, public, subscriptions, channels) /\ PublicFits(client, notice, subscriptions, channels)
        /\ PrivateFits(client, private)
    BY DEF FeedsInv, TablesFit, AccountFits
  <2> QED
    BY <2>1, PollsAreFair
<1>2. PICK c, held, tale : c = client /\ held = tick /\ tale = Tale
  OBVIOUS
<1>3. EventsAreTrue'
  <2>1. \A i \in DOMAIN told' : TaleIsTrue(told'[i])
    BY <1>1 DEF TaleIsFair
  <2> QED
    BY <2>1 DEF EventsAreTrue, TaleIsTrue
<1>4. tick' \in TicksFrom(client, tick)
  <2>1. c \in Clients /\ held \in TickSet /\ TickFits(c, held)
    BY <1>2 DEF FeedsInv, TickFits
  <2>2. DOMAIN tale = 1..n /\ \A i \in 1..n : TaleIsFair(tale[i], MarksOf(c))
    BY <1>1, <1>2
  <2>3. FoldLeft(Followed, held, tale) \in TicksFrom(c, held)
    BY <1>1, <2>1, <2>2, TalesKeepTicks
  <2> QED
    BY <1>2, <2>3
<1> QED
  BY <1>3, <1>4

\* poll_events.
LEMMA PollFits == ASSUME FeedsInv, Poll PROVE FeedsInv'
<1>1. told' = Tale /\ tick' = FoldLeft(Followed, tick, Tale) /\ notice' = Drained(notice)
      /\ UNCHANGED <<client, sub_messages, subscriptions, channels, granted>>
  BY DEF Poll
<1>0. PICK first : \E second \in ReopenOutcomes :
        /\ IF first = "none"
           THEN private' = Drained(private) /\ UNCHANGED <<keys, listen_key, active>>
           ELSE PrivateStream(None, first, TRUE)
        /\ public' = IF second = "none" THEN Drained(public) ELSE Reopened(second)
  BY Zenon DEF Poll
<1>2. PICK second \in ReopenOutcomes :
        /\ IF first = "none"
           THEN private' = Drained(private) /\ UNCHANGED <<keys, listen_key, active>>
           ELSE PrivateStream(None, first, TRUE)
        /\ public' = IF second = "none" THEN Drained(public) ELSE Reopened(second)
  BY <1>0
<1>3. PICK c, subs, chans, given : c = client /\ subs = subscriptions /\ chans = channels /\ given = granted
  OBVIOUS
<1>4. EventsAreTrue' /\ TickFits(client, tick')
  BY <1>1, TellingFits DEF TicksFrom
<1>5. PublicFits(client, notice', subscriptions, channels)
  <2>1. PICK s, r : s = notice /\ r = notice'
    OBVIOUS
  <2>2. PublicFits(c, s, subs, chans) /\ r = Drained(s)
    BY <1>1, <1>3, <2>1 DEF FeedsInv
  <2>3. PublicFits(c, r, subs, chans)
    BY <1>3, <2>2, PublicDrains
  <2> QED
    BY <1>3, <2>1, <2>3
<1>6. PublicFits(client, public', subscriptions, channels) /\ PolledFits(client, public', granted)
  <2>1. PICK s, r : s = public /\ r = public'
    OBVIOUS
  <2>2. CASE second = "none"
    <3>1. PublicFits(c, s, subs, chans) /\ r = Drained(s) /\ PolledFits(c, s, given)
      BY <1>2, <1>3, <2>1, <2>2 DEF FeedsInv
    <3>2. PublicFits(c, r, subs, chans) /\ SameFeeds(s, r)
      BY <1>3, <3>1, PublicDrains
    <3>3. PolledFits(c, r, given)
      BY <3>1, <3>2, SameFeedsFit
    <3> QED
      BY <1>3, <2>1, <3>2, <3>3
  <2>3. CASE second # "none"
    <3>1. r = Reopened(second)
      BY <1>2, <2>1, <2>3
    <3> QED
      BY <1>2, <2>1, <3>1, ReopenedFits
  <2> QED
    BY <2>2, <2>3
<1>7. AccountFits'
  <2>1. CASE first = "none"
    <3>1. PICK s, r : s = private /\ r = private'
      OBVIOUS
    <3>2. PrivateFits(c, s) /\ r = Drained(s)
      BY <1>2, <1>3, <2>1, <3>1 DEF FeedsInv, AccountFits
    <3>3. PrivateFits(c, r) /\ (r # None => s # None /\ r.key = s.key)
      BY <1>3, <3>2, PrivateDrains
    <3> QED
      BY <1>1, <1>2, <1>3, <2>1, <3>1, <3>3 DEF FeedsInv, AccountFits
  <2>2. CASE first # "none"
    <3>1. PICK held : held = None
      OBVIOUS
    <3>2. PICK yes \in BOOLEAN : yes = TRUE
      OBVIOUS
    <3>3. PrivateStream(held, first, yes)
      BY <1>2, <2>2, <3>1, <3>2
    <3> QED
      BY <1>1, <3>1, <3>2, <3>3, PrivateStreamFits DEF FeedsInv
  <2> QED
    BY <2>1, <2>2
<1> QED
  BY <1>1, <1>4, <1>5, <1>6, <1>7 DEF FeedsInv

\* Every step keeps what fits together.
LEMMA FeedsNextFits == ASSUME FeedsInv, [FeedsNext]_feedsVars PROVE FeedsInv'
<1>1. CASE UNCHANGED feedsVars
  <2>1. UNCHANGED <<client, sub_messages, subscriptions, channels, listen_key, active, granted, tick, keys,
                    public, notice, private, told>>
    BY <1>1 DEF feedsVars, sockets, tables, history, bounds
  <2> QED
    BY <2>1 DEF FeedsInv, AccountFits, EventsAreTrue
<1>2. ASSUME NEW ch \in Channels \ Derived, NEW s \in Symbols, Subscribe(ch, s), told' = <<>> PROVE FeedsInv'
  BY <1>2, SubscribeFits
<1>3. ASSUME NEW ch \in Derived, NEW s \in Symbols, SubscribeDerivatives(ch, s) \/ SubscribeNotice(ch, s), told' = <<>>
      PROVE  FeedsInv'
  BY <1>3, SubscribeDerivativesFits, SubscribeNoticeFits
<1>4. CASE SubscribeUserData /\ told' = <<>>
  BY <1>4, SubscribeUserDataFits
<1>5. CASE (PublicPrint \/ PrivatePrint \/ Heartbeat \/ Drop) /\ told' = <<>>
  BY <1>5, PublicPrintFits, PrivatePrintFits, HeartbeatFits, DropFits
<1>6. CASE Poll
  BY <1>6, PollFits
<1> QED
  BY <1>1, <1>2, <1>3, <1>4, <1>5, <1>6 DEF FeedsNext

\* The inductive invariant: every subscription carried, and every name kept, is
\* one that the client made.
THEOREM FeedsFit == FeedsSpec => []FeedsInv
<1>1. FeedsInit => FeedsInv
  BY FeedsInitFits
<1>2. FeedsInv /\ [FeedsNext]_feedsVars => FeedsInv'
  BY FeedsNextFits
<1> QED
  BY <1>1, <1>2, PTL DEF FeedsSpec

\* Whatever the ten venues' streams send, and whatever subscriptions failed, were
\* repeated or were lost with their sockets, a poll tells each frame as what
\* happened, once, under the caller's own symbol.
THEOREM FeedsAreTold == FeedsSpec => []EventsAreTrue
<1>1. FeedsInv => EventsAreTrue
  BY DEF FeedsInv
<1> QED
  BY <1>1, FeedsFit, PTL

\* Every feed that was granted is carried again once the public socket was
\* reopened, and the listen key kept is that of the stream held.
THEOREM FeedsComeBack == FeedsSpec => []FeedsResume
<1>1. FeedsInv => FeedsResume
  <2> SUFFICES ASSUME FeedsInv PROVE FeedsResume
    OBVIOUS
  <2>1. client.venue = "binance" /\ private # None => listen_key = private.key
    BY DEF FeedsInv, AccountFits
  <2>2. ASSUME Connected(public), public.polled, ComesBack(client), NEW g \in granted
        PROVE  Asked(client, g[2], g[1]).host = "notice" \/ Asked(client, g[2], g[1]) \in public.carries
    BY <2>2 DEF FeedsInv, PolledFits, Connected
  <2> QED
    BY <2>1, <2>2 DEF FeedsResume, ComesBack
<1> QED
  BY <1>1, FeedsFit, PTL

\* No ping that was drained from a live socket is left without its answer.
THEOREM NoPongIsOwed == FeedsSpec => []PingsAreAnswered
<1>1. FeedsInv => PingsAreAnswered
  <2> SUFFICES ASSUME FeedsInv, NEW socket \in {public, notice, private}, Connected(socket)
               PROVE  socket.pings = Cardinality({i \in DOMAIN socket.inbound : socket.inbound[i] = Ping})
    BY DEF PingsAreAnswered
  <2>1. socket # None /\ socket.up
    BY DEF Connected
  <2>2. PingsFit(socket)
    BY <2>1 DEF FeedsInv, AccountFits, PublicFits, PrivateFits
  <2> QED
    BY <2>1, <2>2 DEF PingsFit
<1> QED
  BY <1>1, FeedsFit, PTL

\* Whatever diffs arrive, a tick that can be built can be built again.
THEOREM TicksStay == FeedsSpec => TickStays
<1>1. FeedsInv /\ [FeedsNext]_feedsVars =>
        [client.venue # "kucoin" /\ Buildable(tick) => Buildable(tick')]_tick
  <2> SUFFICES ASSUME FeedsInv, FeedsNext, client.venue # "kucoin", Buildable(tick), tick' # tick
               PROVE  Buildable(tick')
    BY DEF feedsVars, history
  <2>1. Poll
    BY DEF FeedsNext, Subscribe, SubscribeDerivatives, SubscribeNotice, SubscribeUserData, PublicPrint, PrivatePrint,
         Heartbeat, Drop, Unsent, history
  <2>2. told' = Tale /\ tick' = FoldLeft(Followed, tick, Tale)
    BY <2>1 DEF Poll
  <2>3. tick' \in TicksFrom(client, tick)
    BY <2>2, TellingFits
  <2> QED
    BY <2>3 DEF TicksFrom
<1> QED
  BY <1>1, FeedsFit, PTL DEF FeedsSpec, TickStays
=============================================================================
