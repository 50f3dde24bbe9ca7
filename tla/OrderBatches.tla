---------------------------- MODULE OrderBatches ----------------------------
(***************************************************************************)
(* `place_batch` of the venue clients: how one call of it becomes requests *)
(* on the wire, which client order ids they carry, and how the venue's     *)
(* answers become the results the caller is given, one per order.          *)
(*                                                                         *)
(* The calls share one client (`&self`), so they run side by side and draw *)
(* from one ClientIdGenerator.  A request is sent once, as the HTTP layer  *)
(* does with every POST (ThrottledTransport); it or its answer may be lost *)
(* or late.  A request is a name, the client order id its caller chose, if *)
(* any, and whether the endpoint can express it.                           *)
(*                                                                         *)
(* A definition named X_Fault precedes X and is X with a plausible fault   *)
(* in the code: the properties are tested with it.                         *)
(***************************************************************************)
EXTENDS Naturals, Sequences, FiniteSets

CONSTANTS Calls,      \* calls of place_batch
          Names,      \* client order ids that callers choose
          NoName,     \* no client order id
          Batches,    \* what a call may be given
          Profiles    \* the venues' ways of placing a batch

Request == [name : Names \union {NoName}, expressible : BOOLEAN]

ASSUME BatchAssumption ==
  /\ NoName \notin Names
  /\ Names \intersect Nat = {} /\ NoName \notin Nat
  /\ Batches \subseteq Seq(Request) \ {<< >>}
  /\ Profiles \subseteq [one_call : BOOLEAN, generates : BOOLEAN, keyed : BOOLEAN]
  /\ \A p \in Profiles : p.keyed => p.one_call /\ p.generates

(***************************************************************************)
(* one_call: one request carries the batch, or each order goes in one of   *)
(* its own.  generates: an order without a client id is given one.  keyed: *)
(* answers are found by client id, or by their place in the list.          *)
(***************************************************************************)
BinanceSpot    == [one_call |-> FALSE, generates |-> FALSE, keyed |-> FALSE]
BinanceFutures == [one_call |-> TRUE,  generates |-> FALSE, keyed |-> FALSE]
Bitget         == [one_call |-> TRUE,  generates |-> TRUE,  keyed |-> TRUE]
Bybit          == [one_call |-> TRUE,  generates |-> FALSE, keyed |-> FALSE]
Gate           == [one_call |-> TRUE,  generates |-> FALSE, keyed |-> FALSE]
Htx            == [one_call |-> TRUE,  generates |-> FALSE, keyed |-> FALSE]
Kraken         == [one_call |-> TRUE,  generates |-> FALSE, keyed |-> FALSE]
KuCoin         == [one_call |-> TRUE,  generates |-> TRUE,  keyed |-> FALSE]
Okx            == [one_call |-> TRUE,  generates |-> FALSE, keyed |-> FALSE]

VARIABLES profile,   \* the client's venue; never changes
          counter,   \* the generator's counter
          stage,        \* "idle", "building", "sent" or "done"
          batch,     \* what each call was given
          ids,       \* the client ids its orders carry, in order
          frames,    \* requests on their way to the venue
          reply,     \* the venue's answer to the request a call waits for
          orders,    \* the orders the venue created
          outer,     \* what the call returned as a whole
          results    \* what it returned of each order

batchVars == <<profile, counter, stage, batch, ids, frames, reply, orders, outer, results>>

NoReply == [verdict |-> "none"]

BatchInit ==
  /\ profile \in Profiles
  /\ counter = 0
  /\ stage = [c \in Calls |-> "idle"]
  /\ batch = [c \in Calls |-> << >>]
  /\ ids = [c \in Calls |-> << >>]
  /\ frames = {}
  /\ reply = [c \in Calls |-> NoReply]
  /\ orders = {}
  /\ outer = [c \in Calls |-> "none"]
  /\ results = [c \in Calls |-> << >>]

Slots(c) == DOMAIN batch[c]

\* The orders the next request of call c carries, and whether it is complete.
Carried(c) == IF profile.one_call THEN Slots(c) ELSE {Len(results[c]) + 1}
Complete(c) == Len(ids[c]) = IF profile.one_call THEN Len(batch[c]) ELSE Len(results[c]) + 1
Following(c) == batch[c][Len(ids[c]) + 1]

(***************************************************************************)
(* The client.                                                             *)
(***************************************************************************)

\* An order that the batch endpoint cannot express refuses the whole call
\* before anything is sent.
Refuses(b) == profile.one_call /\ \E i \in DOMAIN b : ~b[i].expressible

PlaceBatch(c, b) ==
  /\ stage[c] = "idle"
  /\ batch' = [batch EXCEPT ![c] = b]
  /\ stage' = [stage EXCEPT ![c] = IF Refuses(b) THEN "done" ELSE "building"]
  /\ outer' = [outer EXCEPT ![c] = IF Refuses(b) THEN "refused" ELSE "none"]
  /\ UNCHANGED <<profile, counter, ids, frames, reply, orders, results>>

\* The client id of the next order: its caller's, or a generated one.
Draws(r) == profile.generates /\ r.name = NoName

ClientId(c) == IF Draws(Following(c)) THEN counter ELSE Following(c).name

BuildOrder(c) ==
  /\ stage[c] = "building" /\ ~Complete(c)
  /\ profile.one_call \/ Following(c).expressible
  /\ ids' = [ids EXCEPT ![c] = Append(@, ClientId(c))]
  /\ counter' = IF Draws(Following(c)) THEN counter + 1 ELSE counter
  /\ UNCHANGED <<profile, stage, batch, frames, reply, orders, outer, results>>

Finished(c, told) == Len(told) = Len(batch[c])

\* One more result; after the last order the call returns.
Tell(c, told) ==
  /\ results' = [results EXCEPT ![c] = told]
  /\ stage' = [stage EXCEPT ![c] = IF Finished(c, told) THEN "done" ELSE "building"]
  /\ outer' = [outer EXCEPT ![c] = IF Finished(c, told) THEN "ok" ELSE "none"]

\* Placed one by one, an invalid order fails alone.
SkipInvalid(c) ==
  /\ stage[c] = "building" /\ ~Complete(c)
  /\ ~profile.one_call /\ ~Following(c).expressible
  /\ ids' = [ids EXCEPT ![c] = Append(@, NoName)]
  /\ Tell(c, Append(results[c], "rejected"))
  /\ UNCHANGED <<profile, counter, batch, frames, reply, orders>>

SendRequest(c) ==
  /\ stage[c] = "building" /\ Complete(c)
  /\ frames' = frames \union {[call |-> c, slots |-> Carried(c)]}
  /\ reply' = [reply EXCEPT ![c] = NoReply]
  /\ stage' = [stage EXCEPT ![c] = "sent"]
  /\ UNCHANGED <<profile, counter, batch, ids, orders, outer, results>>

\* The whole call fails: nothing is said of its orders.
Fail(c, told) ==
  /\ outer' = [outer EXCEPT ![c] = told]
  /\ stage' = [stage EXCEPT ![c] = "done"]
  /\ UNCHANGED results

\* No answer came, or the venue refused the request as a whole: one call fails,
\* an order placed by itself fails alone.
GiveUp(c) ==
  /\ stage[c] = "sent"
  /\ IF profile.one_call THEN Fail(c, "unknown") ELSE Tell(c, Append(results[c], "unknown"))
  /\ UNCHANGED <<profile, counter, batch, ids, frames, reply, orders>>

ReadRefusal(c) ==
  /\ stage[c] = "sent" /\ reply[c].verdict = "refused"
  /\ IF profile.one_call THEN Fail(c, "refused") ELSE Tell(c, Append(results[c], "rejected"))
  /\ UNCHANGED <<profile, counter, batch, ids, frames, reply, orders>>

Unnamed(c) == {i \in Slots(c) : batch[c][i].name = NoName}

\* The id under which the answer to order i is looked up.  For an unnamed order
\* it is drawn from the generator, once more.
LookupId(c, i) ==
  IF i \in Unnamed(c) THEN counter + Cardinality({j \in Unnamed(c) : j < i})
                      ELSE batch[c][i].name

Accepted_Reversed(c, i) == (Len(batch[c]) + 1 - i) \in reply[c].accepted
Accepted(c, i) ==
  IF profile.keyed THEN \E j \in reply[c].accepted : ids[c][j] = LookupId(c, i)
                   ELSE i \in reply[c].accepted

Verdict(c, i) == IF Accepted(c, i) THEN "ok" ELSE "rejected"

ReadReply(c) ==
  /\ stage[c] = "sent" /\ reply[c].verdict = "elements"
  /\ Tell(c, IF profile.one_call THEN [i \in Slots(c) |-> Verdict(c, i)]
             ELSE Append(results[c], Verdict(c, Len(results[c]) + 1)))
  /\ counter' = IF profile.keyed THEN counter + Cardinality(Unnamed(c)) ELSE counter
  /\ UNCHANGED <<profile, batch, ids, frames, reply, orders>>

(***************************************************************************)
(* The venue and the wire.                                                 *)
(***************************************************************************)

\* An order that repeats a client id the venue has seen is not created.
Repeats(c, i) == ids[c][i] # NoName /\ \E o \in orders : o.id = ids[c][i]

\* Nor is the second of two orders with one client id in a request.
Clash(c, i, j) == i # j /\ ids[c][i] # NoName /\ ids[c][i] = ids[c][j]

Waits(f) == stage[f.call] = "sent" /\ Carried(f.call) = f.slots

AnswerFrame(f, r) ==
  /\ frames' = frames \ {f}
  /\ reply' = IF Waits(f) THEN [reply EXCEPT ![f.call] = r] ELSE reply
  /\ UNCHANGED <<profile, counter, stage, batch, ids, outer, results>>

VenueHandles(c) ==
  \E f \in {f \in frames : f.call = c} :
    \E accepted \in SUBSET {i \in f.slots : ~Repeats(c, i)} :
      /\ \A i, j \in accepted : ~Clash(c, i, j)
      /\ AnswerFrame(f, [verdict |-> "elements", accepted |-> accepted])
      /\ orders' = orders \union
           {[call |-> c, slot |-> i, id |-> ids[c][i]] : i \in accepted}

VenueRefuses(c) ==
  \E f \in {f \in frames : f.call = c} :
    /\ AnswerFrame(f, [verdict |-> "refused"])
    /\ UNCHANGED orders

FrameLost(c) ==
  /\ \E f \in {f \in frames : f.call = c} : frames' = frames \ {f}
  /\ UNCHANGED <<profile, counter, stage, batch, ids, reply, orders, outer, results>>

BatchNext ==
  \E c \in Calls :
    \/ \E b \in Batches : PlaceBatch(c, b)
    \/ BuildOrder(c) \/ SkipInvalid(c) \/ SendRequest(c)
    \/ GiveUp(c) \/ ReadRefusal(c) \/ ReadReply(c)
    \/ VenueHandles(c) \/ VenueRefuses(c) \/ FrameLost(c)

BatchSpec == BatchInit /\ [][BatchNext]_batchVars
-----------------------------------------------------------------------------
(* Properties *)

(***************************************************************************)
(* The state has its types, and an order the venue created carries the id  *)
(* its call built for it.                                                  *)
(***************************************************************************)
BatchTypeOK ==
  /\ profile \in Profiles
  /\ counter \in Nat
  /\ stage \in [Calls -> {"idle", "building", "sent", "done"}]
  /\ \A c \in Calls :
       /\ batch[c] \in Batches \union {<< >>}
       /\ Len(results[c]) <= Len(ids[c]) /\ Len(ids[c]) <= Len(batch[c])
       /\ \A i \in DOMAIN ids[c] : ids[c][i] \in Names \union Nat \union {NoName}
       /\ \A i \in DOMAIN results[c] : results[c][i] \in {"ok", "rejected", "unknown"}
  /\ outer \in [Calls -> {"none", "ok", "refused", "unknown"}]
  /\ \A f \in frames : f.slots \subseteq DOMAIN ids[f.call]
  /\ \A o \in orders : o.slot \in DOMAIN ids[o.call] /\ o.id = ids[o.call][o.slot]

Created(c, i) == \E o \in orders : o.call = c /\ o.slot = i
Travels(c, i) == \E f \in frames : f.call = c /\ i \in f.slots

\* No order of the call, now or later.
Denied(c, i) == ~Created(c, i) /\ ~Travels(c, i)

\* The orders whose answers the client finds under one client id.
Namesakes(c, i) ==
  {i} \union {j \in Slots(c) \ Unnamed(c) : profile.keyed /\ batch[c][j].name = batch[c][i].name}
Placed(c, i) == \E j \in Namesakes(c, i) : Created(c, j)

(***************************************************************************)
(* Each result is "that order's own outcome" (traits.rs:162-164): an order *)
(* told as placed is at the venue, one told as rejected is not and never   *)
(* will be, and a call refused as a whole placed none of its orders --     *)
(* whatever the venue accepts, what is lost and what other calls do.  A    *)
(* client that looks answers up by client id says it of two kinds of       *)
(* orders only in part: of orders that share a client id in one batch, one *)
(* is at the venue; and the rejection of an unnamed order says nothing.    *)
(* See OutcomesAreTheirOwn.                                                *)
(***************************************************************************)
ResultsAreTrue ==
  \A c \in Calls :
    /\ \A i \in DOMAIN results[c] :
         /\ results[c][i] = "ok" => Placed(c, i)
         /\ results[c][i] = "rejected" /\ (profile.keyed => i \notin Unnamed(c)) => Denied(c, i)
    /\ outer[c] = "refused" => \A i \in Slots(c) : Denied(c, i)

(***************************************************************************)
(* What the AdvancedOrders trait says of every inner result ("that order's *)
(* own outcome, so a partially-accepted batch still returns the            *)
(* successes"): an order told as placed was placed, and one told as        *)
(* rejected was not.                                                       *)
(***************************************************************************)
OutcomesAreTheirOwn ==
  \A c \in Calls : \A i \in DOMAIN results[c] :
    /\ results[c][i] = "ok" => Created(c, i)
    /\ results[c][i] = "rejected" => ~Created(c, i)
=============================================================================
