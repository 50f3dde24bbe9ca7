---------------------------- MODULE OrderOutcome ----------------------------
(***************************************************************************)
(* What the HTTP layer of wickra-exchange promises about a request that    *)
(* changes something at the venue (POST, PUT, PATCH, DELETE):              *)
(*                                                                         *)
(*   - the venue carries it out at most once;                              *)
(*   - a definite answer is true, and stays true: an accepted write has    *)
(*     been carried out, a rejected or refused one never was and never     *)
(*     will be;                                                            *)
(*   - only an "unknown" answer leaves the caller to reconcile.            *)
(*                                                                         *)
(* This is the contract of the table in crates/wickra-exchange-core/src/   *)
(* throttle.rs:16-31.  ThrottledTransport is shown to implement it.        *)
(***************************************************************************)
EXTENDS Naturals

CONSTANT Writes          \* logical write requests, one per call of `execute`

VARIABLES effects,       \* effects[w]: times the venue carried w out
          answer         \* answer[w]: what the caller of w was told

oovars == <<effects, answer>>

Denials == {"rejected", "refused"}

Init ==
  /\ effects = [w \in Writes |-> 0]
  /\ answer  = [w \in Writes |-> "none"]

\* The venue carries the write out.  It may do so after an "unknown" answer: the
\* request was still travelling when the caller gave up.
CarryOut(w) ==
  /\ effects[w] = 0
  /\ answer[w] \notin Denials
  /\ effects' = [effects EXCEPT ![w] = 1]
  /\ UNCHANGED answer

Tell(w, a) ==
  /\ answer[w] = "none"
  /\ a = "accepted" => effects[w] = 1
  /\ a \in Denials  => effects[w] = 0
  /\ answer' = [answer EXCEPT ![w] = a]
  /\ UNCHANGED effects

Next ==
  \E w \in Writes :
    \/ CarryOut(w)
    \/ \E a \in {"accepted", "unknown"} \cup Denials : Tell(w, a)

Spec == Init /\ [][Next]_oovars
=============================================================================
