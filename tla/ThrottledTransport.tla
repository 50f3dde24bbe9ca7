------------------------- MODULE ThrottledTransport -------------------------
(***************************************************************************)
(* ThrottledTransport (throttle.rs) under concurrent callers: every call   *)
(* of `execute` is an element of Calls, running on a thread of its own,    *)
(* sharing the limiter behind its mutex.  The lock is held only across one *)
(* limiter operation and never across a sleep or a send, so each of those  *)
(* is one action.                                                          *)
(*                                                                         *)
(* The wire and the venue are the environment.  A sent copy travels until  *)
(* the venue handles it or it is lost; a caller that times out leaves its  *)
(* copy travelling (a stray), and the venue may still carry it out, before *)
(* or after a repeat.                                                      *)
(*                                                                         *)
(* A definition named X_Fault precedes X and is X with a plausible fault   *)
(* in the code: the properties are tested with it.                         *)
(***************************************************************************)
EXTENDS RateLimiter

CONSTANTS Calls,         \* concurrent calls of `execute`
          Gets,          \* those with method GET; the others change something
          MaxRetries,    \* Backoff.max_retries
          DelayMs(_),    \* Backoff.delay_ms(attempt), in ticks
          RetryAfters,   \* the waits a venue may name in Retry-After, in ticks
          DefaultCoolOff \* DEFAULT_COOL_OFF, in ticks

ASSUME CallsAssumption ==
  /\ Gets \subseteq Calls
  /\ MaxRetries \in Nat
  /\ \A i \in 0 .. MaxRetries : DelayMs(i) \in Nat
  /\ RetryAfters \subseteq Nat
  /\ DefaultCoolOff \in Nat

VARIABLES hasBudget,     \* whether with_budget configured a limiter; never changes
          weigh,         \* the weigher's answer for each call; never changes
          pc,            \* where call c is in execute / await_budget
          attempt,       \* execute's `attempt`
          waits,         \* budget waits done by the current await_budget
          sleep,         \* ticks left of the sleep c is in
          flight,        \* the copy c waits for: travelling, or the venue's answer
          strays,        \* copies c gave up on that still travel
          effects,       \* times the venue carried c out
          result         \* what c returned to its caller

callVars == <<pc, attempt, waits, sleep, flight, strays, effects, result>>
configVars == <<hasBudget, weigh>>
vars == <<configVars, limiterVars, callVars>>

Writes == Calls \ Gets

Answers == {"accepted", "rejected", "failed", "refused"}
PCs == {"idle", "budget", "waiting", "ready", "sent", "cooling", "done"}

\* The state has its types: no call repeats a request, or waits for its budget,
\* more often than its retry budget allows.
TypeOK ==
  /\ LimiterTypeOK
  /\ hasBudget \in BOOLEAN
  /\ weigh \in [Calls -> Weights]
  /\ pc \in [Calls -> PCs]
  /\ attempt \in [Calls -> 0 .. MaxRetries]
  /\ waits \in [Calls -> 0 .. MaxRetries + 1]
  /\ sleep \in [Calls -> Nat]
  /\ flight \in [Calls -> {"none", "travelling"} \cup Answers]
  /\ strays \in [Calls -> Nat]
  /\ effects \in [Calls -> Nat]
  /\ result \in [Calls -> {"none", "timeout"} \cup Answers]

Init ==
  /\ LimiterInit
  /\ hasBudget \in BOOLEAN
  /\ weigh \in [Calls -> Weights]
  /\ pc      = [c \in Calls |-> "idle"]
  /\ attempt = [c \in Calls |-> 0]
  /\ waits   = [c \in Calls |-> 0]
  /\ sleep   = [c \in Calls |-> 0]
  /\ flight  = [c \in Calls |-> "none"]
  /\ strays  = [c \in Calls |-> 0]
  /\ effects = [c \in Calls |-> 0]
  /\ result  = [c \in Calls |-> "none"]

-----------------------------------------------------------------------------
(* execute and await_budget *)

Begin(c) ==
  /\ pc[c] = "idle"
  /\ pc' = [pc EXCEPT ![c] = IF hasBudget THEN "budget" ELSE "ready"]
  /\ UNCHANGED <<configVars, limiterVars, attempt, waits, sleep, flight, strays, effects, result>>

Acquire(c) ==
  /\ pc[c] = "budget"
  /\ Admit(weigh[c])
  /\ pc' = [pc EXCEPT ![c] = "ready"]
  /\ UNCHANGED <<configVars, attempt, waits, sleep, flight, strays, effects, result>>

BudgetExhausted(c) ==
  /\ pc[c] = "budget"
  /\ Throttle(weigh[c])
  /\ sleep' = [sleep EXCEPT ![c] = AdvisedWait]
  /\ waits' = [waits EXCEPT ![c] = @ + 1]
  /\ pc' = [pc EXCEPT ![c] = "waiting"]
  /\ UNCHANGED <<configVars, attempt, flight, strays, effects, result>>

\* The loop runs 0..=max_retries times; after its last wait the request goes
\* out without having been charged.
WakeFromBudget_NoFallThrough(c) ==
  /\ pc[c] = "waiting"
  /\ sleep[c] = 0
  /\ waits[c] <= MaxRetries
  /\ pc' = [pc EXCEPT ![c] = "budget"]
  /\ UNCHANGED <<configVars, limiterVars, attempt, waits, sleep, flight, strays, effects, result>>

WakeFromBudget(c) ==
  /\ pc[c] = "waiting"
  /\ sleep[c] = 0
  /\ pc' = [pc EXCEPT ![c] = IF waits[c] > MaxRetries THEN "ready" ELSE "budget"]
  /\ UNCHANGED <<configVars, limiterVars, attempt, waits, sleep, flight, strays, effects, result>>

Send(c) ==
  /\ pc[c] = "ready"
  /\ pc' = [pc EXCEPT ![c] = "sent"]
  /\ flight' = [flight EXCEPT ![c] = "travelling"]
  /\ UNCHANGED <<configVars, limiterVars, attempt, waits, sleep, strays, effects, result>>

Return(c, outcome) ==
  /\ pc' = [pc EXCEPT ![c] = "done"]
  /\ result' = [result EXCEPT ![c] = outcome]
  /\ UNCHANGED <<attempt, waits, sleep>>

Repeat(c, delay) ==
  /\ pc' = [pc EXCEPT ![c] = "cooling"]
  /\ attempt' = [attempt EXCEPT ![c] = @ + 1]
  /\ waits' = [waits EXCEPT ![c] = 0]
  /\ sleep' = [sleep EXCEPT ![c] = delay]
  /\ UNCHANGED result

ShouldRetry(c) == attempt[c] < MaxRetries

MayRepeat_Always(c, refused) == TRUE
MayRepeat(c, refused) == refused \/ c \in Gets

\* A response other than 429 / 418 is the caller's, whatever it says.
ReturnResponse(c) ==
  /\ pc[c] = "sent"
  /\ flight[c] \in Answers \ {"refused"}
  /\ flight' = [flight EXCEPT ![c] = "none"]
  /\ Return(c, flight[c])
  /\ UNCHANGED <<configVars, limiterVars, strays, effects>>

\* 429 / 418: the cool-off is shared through the limiter, if there is one, and
\* the refused request may be repeated whatever its method.
HandleRefusal(c) ==
  /\ pc[c] = "sent"
  /\ flight[c] = "refused"
  /\ flight' = [flight EXCEPT ![c] = "none"]
  /\ \E wait \in RetryAfters \cup {DefaultCoolOff} :
       /\ IF hasBudget THEN NoteRateLimited(wait) ELSE UNCHANGED limiterVars
       /\ IF MayRepeat(c, TRUE) /\ ShouldRetry(c) THEN Repeat(c, wait) ELSE Return(c, "refused")
  /\ UNCHANGED <<configVars, strays, effects>>

\* Error::Timeout or Error::Network: the answer did not arrive.  The request
\* may never have reached the venue, may still be travelling, or was handled.
TransportError(c) ==
  /\ pc[c] = "sent"
  /\ strays' = [strays EXCEPT ![c] = IF flight[c] = "travelling" THEN @ + 1 ELSE @]
  /\ flight' = [flight EXCEPT ![c] = "none"]
  /\ IF MayRepeat(c, FALSE) /\ ShouldRetry(c)
       THEN \E delay \in 0 .. DelayMs(attempt[c]) : Repeat(c, delay)
       ELSE Return(c, "timeout")
  /\ UNCHANGED <<configVars, limiterVars, effects>>

WakeFromBackoff(c) ==
  /\ pc[c] = "cooling"
  /\ sleep[c] = 0
  /\ pc' = [pc EXCEPT ![c] = IF hasBudget THEN "budget" ELSE "ready"]
  /\ UNCHANGED <<configVars, limiterVars, attempt, waits, sleep, flight, strays, effects, result>>

-----------------------------------------------------------------------------
(* The venue and the wire *)

\* 2xx after carrying the request out; any other status after turning it down.
\* A 5xx says nothing about whether it was carried out.
VenueAnswers(c) ==
  /\ flight[c] = "travelling"
  /\ \E a \in Answers, done \in {0, 1} :
       /\ a = "accepted" => done = 1
       /\ a \in {"rejected", "refused"} => done = 0
       /\ flight' = [flight EXCEPT ![c] = a]
       /\ effects' = [effects EXCEPT ![c] = @ + done]
  /\ UNCHANGED <<configVars, limiterVars, pc, attempt, waits, sleep, strays, result>>

StrayArrives(c) ==
  /\ strays[c] > 0
  /\ strays' = [strays EXCEPT ![c] = @ - 1]
  /\ \E done \in {0, 1} : effects' = [effects EXCEPT ![c] = @ + done]
  /\ UNCHANGED <<configVars, limiterVars, pc, attempt, waits, sleep, flight, result>>

Tick ==
  /\ LimiterTick
  /\ sleep' = [c \in Calls |-> IF sleep[c] = 0 THEN 0 ELSE sleep[c] - 1]
  /\ UNCHANGED <<configVars, pc, attempt, waits, flight, strays, effects, result>>

Progress(c) ==
  \/ Acquire(c)
  \/ BudgetExhausted(c)
  \/ WakeFromBudget(c)
  \/ Send(c)
  \/ ReturnResponse(c)
  \/ HandleRefusal(c)
  \/ TransportError(c)
  \/ WakeFromBackoff(c)

Next ==
  \/ \E c \in Calls : Begin(c) \/ Progress(c) \/ VenueAnswers(c) \/ StrayArrives(c)
  \/ Tick

Spec == Init /\ [][Next]_vars

\* A thread inside execute that can take its next step takes it, the HTTP
\* client's timeout ends every wait for an answer (ReqwestHttpTransport::new
\* sets one on every request, net.rs:38), and time passes.  Nothing is assumed
\* of the venue, of the wire or of when calls begin.
Fairness ==
  /\ \A c \in Calls : WF_vars(Progress(c))
  /\ WF_vars(Tick)

FairSpec == Spec /\ Fairness

-----------------------------------------------------------------------------
(* Properties *)

\* A write is carried out at most once, whatever is refused, lost, delayed or
\* timed out and however late a copy arrives: "Retrying a request that may
\* already have been executed is how one order becomes two" (throttle.rs:18-31).
NoDoubleExecution == \A w \in Writes : effects[w] <= 1

\* A write's definite answer is true and final: reported as accepted, it was
\* carried out; reported as rejected or refused, it was not, and no copy is left
\* on the wire that could still be (throttle.rs:235-262).  Only a timeout and a
\* 5xx leave the caller to reconcile.
DefiniteAnswerIsTrue ==
  \A w \in Writes :
    /\ result[w] = "accepted" => effects[w] = 1
    /\ result[w] \in {"rejected", "refused"} => effects[w] = 0 /\ strays[w] = 0

\* The layer implements the contract of OrderOutcome for every write.
Outcome ==
  INSTANCE OrderOutcome WITH
    effects <- [w \in Writes |-> effects[w]],
    answer  <- [w \in Writes |-> IF result[w] \in {"timeout", "failed"} THEN "unknown"
                                                                    ELSE result[w]]

ImplementsOrderOutcome == Outcome!Spec

\* Every call returns: neither a budget nothing fits, nor other callers taking
\* the budget first, nor a venue that keeps refusing can park a caller forever
\* (throttle.rs:158-182, 260-263).
CallsReturn == \A c \in Calls : pc[c] # "idle" ~> pc[c] = "done"
=============================================================================
