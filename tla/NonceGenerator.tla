--------------------------- MODULE NonceGenerator ---------------------------
(***************************************************************************)
(* The nonces of Kraken's and Upbit's signed requests: `NonceGenerator`    *)
(* (clock.rs) shared by threads that call `next` at once, fed with the     *)
(* client's server-adjusted clock (`ServerClock`, `next_nonce` in          *)
(* exchanges/kraken.rs).  The local clock may stand still or jump back,    *)
(* and `sync_time` moves the offset either way.                            *)
(*                                                                         *)
(* A definition named X_Fault precedes X and is X with a plausible fault   *)
(* in the code: the properties are tested with it.                         *)
(***************************************************************************)
EXTENDS Integers, Sequences

CONSTANTS Threads,   \* threads that sign requests with one client
          Times,     \* readings of the local clock, in milliseconds
          Offsets,   \* offsets a sync may find (server - local)
          MaxCalls   \* calls of `next`, at most

ASSUME NonceAssumption ==
  /\ Times \subseteq Int
  /\ Offsets \subseteq Int
  /\ MaxCalls \in Nat

VARIABLES last,       \* the generator's atomic
          offset_ms,  \* the clock's offset
          pc,         \* where each thread is in its call
          candidate, prev, \* each thread's locals
          issued,     \* the nonces handed out, in the order `last` took them
          result,     \* what each thread's last call returned
          floor       \* the newest nonce issued when that call began

vars == <<last, offset_ms, pc, candidate, prev, issued, result, floor>>

NoResult == -1

Init ==
  /\ last = 0
  /\ offset_ms = 0
  /\ pc = [t \in Threads |-> "idle"]
  /\ candidate = [t \in Threads |-> 0]
  /\ prev = [t \in Threads |-> 0]
  /\ issued = << >>
  /\ result = [t \in Threads |-> NoResult]
  /\ floor = [t \in Threads |-> 0]

server_time_ms(local) == local + offset_ms

\* `u64::try_from(..).unwrap_or(0)`: a time before the epoch counts as 0.
Candidate(local) ==
  IF server_time_ms(local) < 0 THEN 0 ELSE server_time_ms(local)

InCall == {t \in Threads : pc[t] # "idle"}

\* `sync_time` borrows the client mutably, so no call is in progress.
SyncTime(offset) ==
  /\ InCall = {}
  /\ offset_ms' = offset
  /\ UNCHANGED <<last, pc, candidate, prev, issued, result, floor>>

BeginNext(t, local) ==
  /\ pc[t] = "idle"
  /\ candidate' = [candidate EXCEPT ![t] = Candidate(local)]
  /\ floor' = [floor EXCEPT ![t] =
                 IF issued = << >> THEN 0 ELSE issued[Len(issued)]]
  /\ result' = [result EXCEPT ![t] = NoResult]
  /\ pc' = [pc EXCEPT ![t] = "load"]
  /\ UNCHANGED <<last, offset_ms, prev, issued>>

Load(t) ==
  /\ pc[t] = "load"
  /\ prev' = [prev EXCEPT ![t] = last]
  /\ pc' = [pc EXCEPT ![t] = "swap"]
  /\ UNCHANGED <<last, offset_ms, candidate, issued, result, floor>>

Greater(a, b) == IF a > b THEN a ELSE b
NextNonce(t) == Greater(candidate[t], prev[t] + 1)

InPlace_Unchecked(t) == TRUE
InPlace(t) == last = prev[t]

\* The compare-exchange finds `prev` still in place.
Swap(t) ==
  /\ pc[t] = "swap"
  /\ Len(issued) < MaxCalls
  /\ InPlace(t)
  /\ last' = NextNonce(t)
  /\ issued' = Append(issued, NextNonce(t))
  /\ result' = [result EXCEPT ![t] = NextNonce(t)]
  /\ pc' = [pc EXCEPT ![t] = "idle"]
  /\ UNCHANGED <<offset_ms, candidate, prev, floor>>

\* It finds another value, or fails spuriously: once more, from what it found.
SwapFails(t) ==
  /\ pc[t] = "swap"
  /\ prev' = [prev EXCEPT ![t] = last]
  /\ UNCHANGED <<last, offset_ms, pc, candidate, issued, result, floor>>

Next ==
  \/ \E offset \in Offsets : SyncTime(offset)
  \/ \E t \in Threads :
       \/ \E local \in Times : BeginNext(t, local)
       \/ Load(t) \/ Swap(t) \/ SwapFails(t)

Spec == Init /\ [][Next]_vars
-----------------------------------------------------------------------------
\* The state has its types; nonces and what they are made from are naturals, as
\* the code's u64 are.
TypeOK ==
  /\ last \in Nat
  /\ offset_ms \in Int
  /\ pc \in [Threads -> {"idle", "load", "swap"}]
  /\ candidate \in [Threads -> Nat]
  /\ prev \in [Threads -> Nat]
  /\ issued \in Seq(Nat) /\ Len(issued) <= MaxCalls
  /\ result \in [Threads -> Nat \union {NoResult}]
  /\ floor \in [Threads -> Nat]

(***************************************************************************)
(* The venue refuses a nonce it has seen or has passed: whatever the       *)
(* threads' interleaving and however the clock moves, each nonce handed    *)
(* out is greater than every one before it.                                *)
(***************************************************************************)
NoncesIncrease ==
  \A i, j \in DOMAIN issued : i < j => issued[i] < issued[j]

(***************************************************************************)
(* A call that began after a nonce was issued returns a greater one, so a  *)
(* thread that signs after another one's request was signed comes later    *)
(* for the venue too.                                                      *)
(***************************************************************************)
CallsSeeEarlierNonces ==
  \A t \in Threads : result[t] # NoResult => result[t] > floor[t]

(***************************************************************************)
(* A nonce is never behind the clock reading it was made from.             *)
(***************************************************************************)
NonceNotBehindClock ==
  \A t \in Threads : result[t] # NoResult => result[t] >= candidate[t]
=============================================================================
