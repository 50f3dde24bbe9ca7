---------------------------- MODULE RateLimiter -----------------------------
(***************************************************************************)
(* WeightedRateLimiter, ratelimiter.rs: a windowed weight budget with a    *)
(* venue cool-off.  The code keeps absolute milliseconds; every decision   *)
(* it takes compares one of them with `now`, so the module keeps what is   *)
(* left of each instead (windowLeft = window_start_ms + window_ms - now,   *)
(* banLeft = banned_until_ms - now, 0 when unset or elapsed) and lets time *)
(* run down.  The state then stays finite without a bound on time.         *)
(*                                                                         *)
(* `used + weight` is u32 arithmetic in the code: a weigher whose sum with *)
(* the capacity does not fit 32 bits is outside this model (NoOverflow).   *)
(*                                                                         *)
(* A definition named X_Fault precedes X and is X with a plausible fault   *)
(* in the code: the properties are tested with it.                         *)
(***************************************************************************)
EXTENDS Naturals, Functions

CONSTANTS Capacity,      \* weight admitted per window
          Window,        \* window length, in ticks
          Weights,       \* the weights a request may have
          WordSize       \* one more than the largest u32

ASSUME LimiterAssumption ==
  /\ Capacity \in Nat
  /\ Window \in Nat \ {0}
  /\ Weights \subseteq Nat

ASSUME NoOverflow == \A w \in Weights : Capacity + w < WordSize

VARIABLES used,          \* weight charged in the current window
          windowLeft,    \* ticks until the current window has elapsed
          banLeft,       \* ticks until the venue's cool-off has elapsed
          admitted       \* history: admitted[a] is the weight admitted a ticks ago

limiterVars == <<used, windowLeft, banLeft, admitted>>

\* The limiter's part of the type invariant: the charge never exceeds the
\* capacity, and what is left of a window never exceeds its length.
LimiterTypeOK ==
  /\ used \in 0 .. Capacity
  /\ windowLeft \in 0 .. Window
  /\ banLeft \in Nat
  /\ admitted \in [0 .. Window - 1 -> Nat]

LimiterInit ==
  /\ used = 0
  /\ windowLeft = 0
  /\ banLeft = 0
  /\ admitted = [a \in 0 .. Window - 1 |-> 0]

Banned == banLeft > 0

\* The window and its charge as `try_acquire` sees them, after rolling the
\* window when it has elapsed or was never opened.
RolledUsed == IF windowLeft = 0 THEN 0 ELSE used
RolledLeft == IF windowLeft = 0 THEN Window ELSE windowLeft

Fits_EachAlone(weight) == weight <= Capacity
Fits(weight) == RolledUsed + weight <= Capacity

\* try_acquire answers Allowed: the weight is charged.
Admit(weight) ==
  /\ ~Banned
  /\ Fits(weight)
  /\ used' = RolledUsed + weight
  /\ windowLeft' = RolledLeft
  /\ admitted' = [admitted EXCEPT ![0] = @ + weight]
  /\ UNCHANGED banLeft

\* The retry_after_ms of Throttled: what is left of the cool-off, else of the window.
AdvisedWait == IF Banned THEN banLeft ELSE RolledLeft

\* try_acquire answers Throttled: a cool-off leaves the window alone, an
\* exhausted budget keeps the rolled window, and neither charges anything.
Throttle(weight) ==
  /\ Banned \/ ~Fits(weight)
  /\ used' = IF Banned THEN used ELSE RolledUsed
  /\ windowLeft' = IF Banned THEN windowLeft ELSE RolledLeft
  /\ UNCHANGED <<banLeft, admitted>>

\* note_rate_limited: the new cool-off replaces the one in force.
NoteRateLimited(wait) ==
  /\ banLeft' = wait
  /\ UNCHANGED <<used, windowLeft, admitted>>

LimiterTick ==
  /\ windowLeft' = IF windowLeft = 0 THEN 0 ELSE windowLeft - 1
  /\ banLeft' = IF banLeft = 0 THEN 0 ELSE banLeft - 1
  /\ admitted' = [a \in 0 .. Window - 1 |-> IF a = 0 THEN 0 ELSE admitted[a - 1]]
  /\ UNCHANGED used

-----------------------------------------------------------------------------

\* The limiter counts fixed windows, a venue may count any interval of the
\* window's length.  Such an interval meets two of the limiter's windows at
\* most, so what is admitted in it is at most twice the capacity -- however the
\* window's opening (on first use, not on a grid), cool-offs and the callers'
\* retries fall (ratelimiter.rs:57-85).
SlidingBudget == SumFunctionOnSet(admitted, 0 .. Window - 1) <= 2 * Capacity
=============================================================================
