------------------------ MODULE OrderPlacementProofs ------------------------
(***************************************************************************)
(* The two other ways in which the clients place orders, beside the single *)
(* REST request: over the WebSocket API, and in batches.  Each may give up *)
(* on an answer that still comes, and neither may give an order the answer *)
(* to another.                                                             *)
(***************************************************************************)
EXTENDS WsOrderApi, OrderBatches, FiniteSetTheorems, TLAPS

(***************************************************************************)
(* Orders over the WebSocket API, for any number of requests: every answer *)
(* is the venue's verdict on a frame sent no later, each is given once and *)
(* in the order sent, and answers fall behind by no more than was left     *)
(* unread.                                                                 *)
(*                                                                         *)
(* The bound on how far they fall behind is not inductive: it says nothing *)
(* of the frames still on their way.  The invariant is a count.  A frame   *)
(* that is the k-th of those on their way has a number of at least k more  *)
(* than the answers given so far (one less where a login frame may be in   *)
(* front), and the frames on their way ascend, above every frame answered. *)
(***************************************************************************)

Link == [reader : {"opening", "up", "ended"}, inbound : Seq(Answer), outbound : Seq(Frames)]

Types ==
  /\ handshake \in Handshakes
  /\ ws_api_connection \in Link \union {NoConnection}
  /\ token \in {"none", "live", "expired"}
  /\ token # "none" <=> handshake = "token" /\ Held
  /\ abandoned \subseteq Requests
  /\ request \in 0..MaxRequests
  /\ pc \in {"idle", "login", "ready", "sent"}
  /\ pc # "idle" => Held
  /\ pc = "login" => handshake = "login"
  /\ verdict \in [Frames -> {"none", "accepted", "rejected"}]
  /\ result \in Seq(Answer \union {NoAnswer})
  /\ Len(result) = IF pc = "idle" THEN request ELSE request - 1

\* The answers in the channel, then the frames that wait to be sent: the k-th
\* has a number of at least base + k, and they ascend up to top.
Ascend(answers, queue, base, top) ==
  /\ \A i \in 1..Len(answers) : base + i <= answers[i].from /\ answers[i].from <= top
  /\ \A i \in 1..Len(queue) : base + Len(answers) + i <= queue[i] /\ queue[i] <= top
  /\ \A i, k \in 1..Len(answers) : i < k => answers[i].from < answers[k].from
  /\ \A i, k \in 1..Len(queue) : i < k => queue[i] < queue[k]
  /\ \A i \in 1..Len(answers), k \in 1..Len(queue) : answers[i].from < queue[k]

LoginFrames == IF handshake = "login" THEN 1 ELSE 0
Sent == IF pc = "sent" THEN request ELSE Len(result)
inbound == ws_api_connection.inbound
outbound == ws_api_connection.outbound

OnTheirWay == Held => Ascend(inbound, outbound, Cardinality(Answered) - LoginFrames, Sent)

\* What is still to come is above whatever was answered.
AboveAnswered ==
  Held => \A r \in Answered :
    /\ \A i \in 1..Len(inbound) : result[r].from < inbound[i].from
    /\ \A i \in 1..Len(outbound) : result[r].from < outbound[i]

Decided == Held => \A i \in 1..Len(inbound) : verdict[inbound[i].from] = inbound[i].status

\* Frames that nobody listens for any more are not among those somebody does.
Unheard ==
  \A f \in abandoned :
    /\ f <= Len(result)
    /\ \A r \in Answered : result[r].from # f
    /\ Held => /\ \A i \in 1..Len(inbound) : inbound[i].from # f
               /\ \A i \in 1..Len(outbound) : outbound[i] # f

LoginIsFirst ==
  handshake = "login" => /\ ~Held \/ pc = "login" => Answered = {}
                         /\ abandoned = {}

IInv ==
  /\ Types /\ OnTheirWay /\ AboveAnswered /\ Decided /\ Unheard /\ LoginIsFirst
  /\ AnswersAreReal
-----------------------------------------------------------------------------
\* The five ways the two queues of a connection change.
LEMMA AscendEmpty ==
  ASSUME NEW base \in Int, NEW top \in Int
  PROVE  Ascend(<< >>, << >>, base, top)
BY DEF Ascend

LEMMA AscendLogin ==
  ASSUME NEW top \in Nat
  PROVE  Ascend(<< >>, <<Login>>, -1, top)
<1>1. Len(<<Login>>) = 1 /\ <<Login>>[1] = 0 /\ Len(<< >>) = 0
  BY DEF Login
<1> QED
  BY <1>1 DEF Ascend

LEMMA AscendTail ==
  ASSUME NEW answers \in Seq(Answer), NEW queue \in Seq(Frames), NEW base \in Int, NEW top \in Nat,
         Ascend(answers, queue, base, top), answers # << >>
  PROVE  /\ Ascend(Tail(answers), queue, base + 1, top)
         /\ Head(answers) \in Answer /\ base + 1 <= Head(answers).from /\ Head(answers).from <= top
         /\ \A i \in 1..Len(Tail(answers)) : Head(answers).from < Tail(answers)[i].from
         /\ \A i \in 1..Len(queue) : Head(answers).from < queue[i]
<1> DEFINE rest == Tail(answers)
<1>1. /\ Len(answers) \in Nat \ {0} /\ Len(rest) = Len(answers) - 1 /\ Head(answers) = answers[1]
      /\ answers[1] \in Answer /\ Len(queue) \in Nat
  OBVIOUS
<1>2. \A i \in 1..Len(rest) : i + 1 \in 1..Len(answers) /\ rest[i] = answers[i + 1]
  BY <1>1
<1>3. 1 \in 1..Len(answers)
  BY <1>1
<1> HIDE DEF rest
<1>4. ASSUME NEW i \in 1..Len(rest)
      PROVE  base + 1 + i <= rest[i].from /\ rest[i].from <= top /\ answers[1].from < rest[i].from
  <2>1. base + (i + 1) <= answers[i + 1].from /\ answers[i + 1].from <= top
    BY <1>2 DEF Ascend
  <2>2. answers[1].from < answers[i + 1].from
    BY <1>1, <1>2, <1>3 DEF Ascend
  <2> QED
    BY SMTT(40), <1>1, <1>2, <2>1, <2>2
<1>5. ASSUME NEW i \in 1..Len(rest), NEW k \in 1..Len(rest), i < k
      PROVE  rest[i].from < rest[k].from
  <2>1. i + 1 < k + 1 /\ answers[i + 1].from < answers[k + 1].from
    BY <1>1, <1>2, <1>5 DEF Ascend
  <2> QED
    BY <1>2, <2>1
<1>6. ASSUME NEW i \in 1..Len(queue)
      PROVE  base + 1 + Len(rest) + i <= queue[i] /\ queue[i] <= top /\ answers[1].from < queue[i]
  <2>1. base + Len(answers) + i <= queue[i] /\ queue[i] <= top
    BY DEF Ascend
  <2>2. answers[1].from < queue[i]
    BY <1>3 DEF Ascend
  <2> QED
    BY <1>1, <2>1, <2>2
<1>7. ASSUME NEW i \in 1..Len(rest), NEW k \in 1..Len(queue)
      PROVE  rest[i].from < queue[k]
  <2>1. answers[i + 1].from < queue[k]
    BY <1>2 DEF Ascend
  <2> QED
    BY <1>2, <2>1
<1>8. \A i, k \in 1..Len(queue) : i < k => queue[i] < queue[k]
  BY DEF Ascend
<1>9. base + 1 <= answers[1].from /\ answers[1].from <= top
  BY <1>3 DEF Ascend
<1>10. Ascend(rest, queue, base + 1, top)
  BY <1>4, <1>5, <1>6, <1>7, <1>8 DEF Ascend
<1> QED
  BY <1>1, <1>4, <1>6, <1>9, <1>10 DEF rest

LEMMA AscendBelow ==
  ASSUME NEW answers \in Seq(Answer), NEW queue \in Seq(Frames),
         NEW base \in Int, NEW low \in Int, NEW top \in Nat, low <= base,
         Ascend(answers, queue, base, top)
  PROVE  Ascend(answers, queue, low, top)
<1>1. Len(answers) \in Nat /\ Len(queue) \in Nat
  OBVIOUS
<1>2. \A i \in 1..Len(answers) : answers[i].from \in Nat
  <2> SUFFICES ASSUME NEW i \in 1..Len(answers) PROVE answers[i].from \in Nat
    OBVIOUS
  <2>1. answers[i] \in Answer
    OBVIOUS
  <2> QED
    BY <2>1, RequestAssumption DEF Answer, Frames, Requests, Login, RequestAssumption
<1>3. \A i \in 1..Len(queue) : queue[i] \in Nat
  BY RequestAssumption DEF Frames, Requests, Login, RequestAssumption
<1> QED
  BY <1>1, <1>2, <1>3 DEF Ascend

LEMMA AscendAbove ==
  ASSUME NEW answers \in Seq(Answer), NEW queue \in Seq(Frames),
         NEW base \in Int, NEW top \in Nat, NEW high \in Nat, top <= high,
         Ascend(answers, queue, base, top)
  PROVE  Ascend(answers, queue, base, high)
<1>1. \A i \in 1..Len(answers) : answers[i].from \in Nat
  <2> SUFFICES ASSUME NEW i \in 1..Len(answers) PROVE answers[i].from \in Nat
    OBVIOUS
  <2>1. answers[i] \in Answer
    OBVIOUS
  <2> QED
    BY <2>1, RequestAssumption DEF Answer, Frames, Requests, Login, RequestAssumption
<1>2. \A i \in 1..Len(queue) : queue[i] \in Nat
  BY RequestAssumption DEF Frames, Requests, Login, RequestAssumption
<1> QED
  BY SMTT(40), <1>1, <1>2 DEF Ascend

LEMMA AscendNoFrames ==
  ASSUME NEW answers \in Seq(Answer), NEW queue \in Seq(Frames), NEW base \in Int, NEW top \in Nat,
         Ascend(answers, queue, base, top)
  PROVE  Ascend(answers, << >>, base, top)
BY DEF Ascend

LEMMA AscendSent ==
  ASSUME NEW answers \in Seq(Answer), NEW queue \in Seq(Frames), NEW base \in Int, NEW top \in Nat,
         base <= top, Ascend(answers, queue, base, top)
  PROVE  Ascend(answers, Append(queue, top + 1), base, top + 1)
<1> DEFINE more == Append(queue, top + 1)
<1>1. Len(answers) \in Nat /\ Len(queue) \in Nat /\ Len(more) = Len(queue) + 1
  OBVIOUS
<1>2. \A i \in 1..Len(more) : more[i] = IF i = Len(more) THEN top + 1 ELSE queue[i]
  BY <1>1
<1>3. \A i \in 1..Len(answers) : answers[i].from \in Nat
  <2> SUFFICES ASSUME NEW i \in 1..Len(answers) PROVE answers[i].from \in Nat
    OBVIOUS
  <2>1. answers[i] \in Answer
    OBVIOUS
  <2> QED
    BY <2>1, RequestAssumption DEF Answer, Frames, Requests, Login, RequestAssumption
<1>4. \A i \in 1..Len(queue) : queue[i] \in Nat
  BY RequestAssumption DEF Frames, Requests, Login, RequestAssumption
<1> HIDE DEF more
<1>5. base + Len(answers) + Len(more) <= top + 1
  <2>1. CASE Len(queue) > 0
    <3>1. base + Len(answers) + Len(queue) <= queue[Len(queue)] /\ queue[Len(queue)] <= top
      BY <1>1, <2>1 DEF Ascend
    <3> QED
      BY <1>1, <1>4, <2>1, <3>1
  <2>2. CASE Len(queue) = 0 /\ Len(answers) > 0
    <3>1. base + Len(answers) <= answers[Len(answers)].from /\ answers[Len(answers)].from <= top
      BY <1>1, <2>2 DEF Ascend
    <3>2. answers[Len(answers)].from \in Nat
      BY <1>1, <1>3, <2>2
    <3> QED
      BY <1>1, <2>2, <3>1, <3>2
  <2>3. CASE Len(queue) = 0 /\ Len(answers) = 0
    BY <1>1, <2>3
  <2> QED
    BY <1>1, <2>1, <2>2, <2>3
<1>6. \A i \in 1..Len(answers) : base + i <= answers[i].from /\ answers[i].from <= top + 1
  <2> SUFFICES ASSUME NEW i \in 1..Len(answers)
               PROVE  base + i <= answers[i].from /\ answers[i].from <= top + 1
    OBVIOUS
  <2>1. base + i <= answers[i].from /\ answers[i].from <= top
    BY DEF Ascend
  <2>2. answers[i].from \in Nat
    BY <1>3
  <2> QED
    BY <2>1, <2>2
<1>7. \A i \in 1..Len(more) : base + Len(answers) + i <= more[i] /\ more[i] <= top + 1
  <2> SUFFICES ASSUME NEW i \in 1..Len(more)
               PROVE  base + Len(answers) + i <= more[i] /\ more[i] <= top + 1
    OBVIOUS
  <2>1. CASE i = Len(more)
    BY <1>1, <1>2, <1>5, <2>1
  <2>2. CASE i # Len(more)
    BY <1>1, <1>2, <1>4, <2>2 DEF Ascend
  <2> QED
    BY <2>1, <2>2
<1>8. \A i, k \in 1..Len(more) : i < k => more[i] < more[k]
  <2> SUFFICES ASSUME NEW i \in 1..Len(more), NEW k \in 1..Len(more), i < k PROVE more[i] < more[k]
    OBVIOUS
  <2>1. i \in 1..Len(queue) /\ more[i] = queue[i]
    BY <1>1, <1>2
  <2>2. CASE k = Len(more)
    <3>1. queue[i] \in Nat /\ queue[i] <= top
      BY <1>4, <2>1 DEF Ascend
    <3> QED
      BY <1>1, <1>2, <2>1, <2>2, <3>1
  <2>3. CASE k # Len(more)
    <3>1. k \in 1..Len(queue) /\ more[k] = queue[k]
      BY SMTT(40), <1>1, <1>2, <2>3
    <3> QED
      BY <2>1, <3>1 DEF Ascend
  <2> QED
    BY <2>2, <2>3
<1>9. \A i \in 1..Len(answers), k \in 1..Len(more) : answers[i].from < more[k]
  <2> SUFFICES ASSUME NEW i \in 1..Len(answers), NEW k \in 1..Len(more) PROVE answers[i].from < more[k]
    OBVIOUS
  <2>1. CASE k = Len(more)
    <3>1. answers[i].from \in Nat /\ answers[i].from <= top
      BY <1>3 DEF Ascend
    <3> QED
      BY <1>1, <1>2, <2>1, <3>1
  <2>2. CASE k # Len(more)
    <3>1. k \in 1..Len(queue) /\ more[k] = queue[k]
      BY <1>1, <1>2, <2>2
    <3> QED
      BY <3>1 DEF Ascend
  <2> QED
    BY <2>1, <2>2
<1>10. \A i, k \in 1..Len(answers) : i < k => answers[i].from < answers[k].from
  BY DEF Ascend
<1>11. Ascend(answers, more, base, top + 1)
  BY <1>6, <1>7, <1>8, <1>9, <1>10 DEF Ascend
<1> QED
  BY <1>11 DEF more

LEMMA AscendAnswered ==
  ASSUME NEW answers \in Seq(Answer), NEW queue \in Seq(Frames), NEW base \in Int, NEW top \in Nat,
         Ascend(answers, queue, base, top), queue # << >>,
         NEW status
  PROVE  Ascend(Append(answers, [from |-> Head(queue), status |-> status]), Tail(queue), base, top)
<1> DEFINE a == [from |-> Head(queue), status |-> status]
           more == Append(answers, a)
           rest == Tail(queue)
<1>1. /\ Len(answers) \in Nat /\ Len(more) = Len(answers) + 1
      /\ Len(queue) \in Nat \ {0} /\ Len(rest) = Len(queue) - 1 /\ Head(queue) = queue[1]
  OBVIOUS
<1>2. \A i \in 1..Len(more) : more[i] = IF i = Len(more) THEN a ELSE answers[i]
  BY <1>1
<1>3. \A i \in 1..Len(rest) : i + 1 \in 1..Len(queue) /\ rest[i] = queue[i + 1]
  BY <1>1
<1>4. a.from = queue[1] /\ 1 \in 1..Len(queue)
  BY <1>1
<1> HIDE DEF a, more, rest
<1>5. ASSUME NEW i \in 1..Len(more)
      PROVE  \/ i = Len(more) /\ more[i].from = queue[1]
             \/ i \in 1..Len(answers) /\ more[i].from = answers[i].from
  <2>1. CASE i = Len(more)
    BY <1>2, <1>4, <2>1
  <2>2. CASE i # Len(more)
    BY <1>1, <1>2, <2>2
  <2> QED
    BY <2>1, <2>2
<1>6. base + Len(more) <= queue[1] /\ queue[1] <= top
  BY <1>1, <1>4 DEF Ascend
<1>7. \A i \in 1..Len(more) : base + i <= more[i].from /\ more[i].from <= top
  <2> SUFFICES ASSUME NEW i \in 1..Len(more) PROVE base + i <= more[i].from /\ more[i].from <= top
    OBVIOUS
  <2>1. CASE i = Len(more) /\ more[i].from = queue[1]
    BY <1>6, <2>1
  <2>2. CASE i \in 1..Len(answers) /\ more[i].from = answers[i].from
    BY <2>2 DEF Ascend
  <2> QED
    BY <1>5, <2>1, <2>2
<1>8. \A i \in 1..Len(rest) : base + Len(more) + i <= rest[i] /\ rest[i] <= top
  <2> SUFFICES ASSUME NEW i \in 1..Len(rest) PROVE base + Len(more) + i <= rest[i] /\ rest[i] <= top
    OBVIOUS
  <2>1. base + Len(answers) + (i + 1) <= queue[i + 1] /\ queue[i + 1] <= top
    BY <1>3 DEF Ascend
  <2> QED
    BY <1>1, <1>3, <2>1
<1>9. \A i, k \in 1..Len(more) : i < k => more[i].from < more[k].from
  <2> SUFFICES ASSUME NEW i \in 1..Len(more), NEW k \in 1..Len(more), i < k
               PROVE  more[i].from < more[k].from
    OBVIOUS
  <2>1. i \in 1..Len(answers) /\ more[i].from = answers[i].from
    BY <1>1, <1>5
  <2>2. CASE k = Len(more) /\ more[k].from = queue[1]
    BY <1>4, <2>1, <2>2 DEF Ascend
  <2>3. CASE k \in 1..Len(answers) /\ more[k].from = answers[k].from
    BY <2>1, <2>3 DEF Ascend
  <2> QED
    BY <1>5, <2>2, <2>3
<1>10. \A i, k \in 1..Len(rest) : i < k => rest[i] < rest[k]
  <2> SUFFICES ASSUME NEW i \in 1..Len(rest), NEW k \in 1..Len(rest), i < k PROVE rest[i] < rest[k]
    OBVIOUS
  <2>1. i + 1 < k + 1 /\ queue[i + 1] < queue[k + 1]
    BY <1>1, <1>3 DEF Ascend
  <2> QED
    BY <1>3, <2>1
<1>11. \A i \in 1..Len(more), k \in 1..Len(rest) : more[i].from < rest[k]
  <2> SUFFICES ASSUME NEW i \in 1..Len(more), NEW k \in 1..Len(rest) PROVE more[i].from < rest[k]
    OBVIOUS
  <2>1. rest[k] = queue[k + 1] /\ k + 1 \in 1..Len(queue) /\ 1 < k + 1
    BY <1>1, <1>3
  <2>2. CASE i = Len(more) /\ more[i].from = queue[1]
    BY <1>4, <2>1, <2>2 DEF Ascend
  <2>3. CASE i \in 1..Len(answers) /\ more[i].from = answers[i].from
    BY <2>1, <2>3 DEF Ascend
  <2> QED
    BY <1>5, <2>2, <2>3
<1>12. Ascend(more, rest, base, top)
  BY <1>7, <1>8, <1>9, <1>10, <1>11 DEF Ascend
<1> QED
  BY <1>12 DEF a, more, rest
-----------------------------------------------------------------------------
LEMMA Typing ==
  ASSUME Types
  PROVE  /\ NoConnection \notin Link /\ NoAnswer \notin Answer
         /\ Held => /\ ws_api_connection \in Link
                    /\ inbound \in Seq(Answer) /\ outbound \in Seq(Frames)
         /\ result \in Seq(Answer \union {NoAnswer}) /\ Len(result) \in Nat /\ request \in Nat
         /\ DOMAIN result = 1..Len(result)
         /\ Answered \subseteq 1..Len(result) /\ LoginFrames \in {0, 1}
         /\ Sent \in Nat /\ Len(result) <= Sent /\ Sent <= request
<1>1. NoConnection \notin Link /\ NoAnswer \notin Answer
  BY DEF NoConnection, Link, NoAnswer, Answer
<1>2. Held => ws_api_connection \in Link /\ inbound \in Seq(Answer) /\ outbound \in Seq(Frames)
  BY DEF Types, Held, Link, inbound, outbound
<1>3. result \in Seq(Answer \union {NoAnswer}) /\ request \in Nat
  BY RequestAssumption DEF Types, RequestAssumption
<1>4. Len(result) \in Nat /\ DOMAIN result = 1..Len(result)
  BY <1>3
<1>5. Answered \subseteq 1..Len(result) /\ LoginFrames \in {0, 1}
  BY <1>4 DEF Answered, LoginFrames
<1>6. Sent \in Nat /\ Len(result) <= Sent /\ Sent <= request
  BY <1>3, <1>4 DEF Types, Sent
<1> QED
  BY <1>1, <1>2, <1>3, <1>4, <1>5, <1>6

\* Every request that returned was answered or given up.
LEMMA Counts ==
  ASSUME Types
  PROVE  /\ IsFiniteSet(Answered) /\ IsFiniteSet(GaveUp)
         /\ Cardinality(Answered) \in Nat /\ Cardinality(GaveUp) \in Nat
         /\ Cardinality(Answered) + Cardinality(GaveUp) = Len(result)
         /\ GaveUp \subseteq 1..Len(result)
<1>1. DOMAIN result = 1..Len(result) /\ Len(result) \in Nat /\ Answered \subseteq 1..Len(result)
  BY Typing
<1>2. IsFiniteSet(1..Len(result)) /\ Cardinality(1..Len(result)) = Len(result)
  <2>1. \A n \in Nat : IsFiniteSet(1..n) /\ Cardinality(1..n) = n
    BY FS_Interval
  <2> QED
    BY <1>1, <2>1
<1>3. GaveUp \subseteq 1..Len(result) /\ Answered \union GaveUp = 1..Len(result)
      /\ Answered \cap GaveUp = {}
  BY <1>1 DEF GaveUp
<1>4. IsFiniteSet(Answered) /\ IsFiniteSet(GaveUp)
  BY <1>1, <1>2, <1>3, FS_Subset
<1>5. Cardinality(Answered) \in Nat /\ Cardinality(GaveUp) \in Nat
  BY <1>4, FS_CardinalityType
<1>6. Cardinality(Answered \union GaveUp) =
        Cardinality(Answered) + Cardinality(GaveUp) - Cardinality(Answered \cap GaveUp)
  BY <1>4, FS_Union
<1>7. Cardinality(Answered \union GaveUp) = Len(result) /\ Cardinality(Answered \cap GaveUp) = 0
  BY <1>2, <1>3, FS_EmptySet
<1> QED
  BY <1>3, <1>4, <1>5, <1>6, <1>7

LEMMA OneMoreResult ==
  ASSUME Types, NEW x \in Answer \union {NoAnswer}, result' = Append(result, x)
  PROVE  /\ result' \in Seq(Answer \union {NoAnswer}) /\ Len(result') = Len(result) + 1
         /\ \A r \in 1..Len(result) : result'[r] = result[r]
         /\ result'[Len(result) + 1] = x
         /\ Answered' = Answered \union (IF x = NoAnswer THEN {} ELSE {Len(result) + 1})
         /\ GaveUp' = GaveUp \union (IF x = NoAnswer THEN {Len(result) + 1} ELSE {})
<1>1. result \in Seq(Answer \union {NoAnswer}) /\ Len(result) \in Nat /\ DOMAIN result = 1..Len(result)
  BY Typing
<1>2. /\ result' \in Seq(Answer \union {NoAnswer}) /\ Len(result') = Len(result) + 1
      /\ \A r \in 1..Len(result) : result'[r] = result[r]
      /\ result'[Len(result) + 1] = x /\ DOMAIN result' = 1..(Len(result) + 1)
  BY <1>1
<1>3. Answered' = Answered \union (IF x = NoAnswer THEN {} ELSE {Len(result) + 1})
  BY <1>1, <1>2 DEF Answered
<1>4. GaveUp' = GaveUp \union (IF x = NoAnswer THEN {Len(result) + 1} ELSE {})
  BY <1>1, <1>2, <1>3 DEF GaveUp, Answered
<1> QED
  BY <1>2, <1>3, <1>4

\* A call that is given no answer changes nothing of those that were.
LEMMA GivingUpStaysReal ==
  ASSUME Types, AnswersAreReal, result' = Append(result, NoAnswer), UNCHANGED <<handshake, verdict>>
  PROVE  /\ AnswersAreReal' /\ Answered' = Answered
         /\ \A r \in Answered : result'[r] = result[r]
<1>1. /\ Answered' = Answered /\ GaveUp' = GaveUp \union {Len(result) + 1}
      /\ \A r \in 1..Len(result) : result'[r] = result[r]
  BY OneMoreResult
<1>2. Answered \subseteq 1..Len(result) /\ Len(result) \in Nat
  BY Typing
<1>3. ASSUME NEW r \in Answered
      PROVE  {q \in GaveUp' : q < r} = {q \in GaveUp : q < r}
  BY <1>1, <1>2
<1>4. \A r \in Answered : result'[r] = result[r]
  BY <1>1, <1>2
<1> QED
  BY <1>1, <1>3, <1>4 DEF AnswersAreReal

\* Nor does what the venue decides of other frames.
LEMMA VerdictsStayReal ==
  ASSUME AnswersAreReal, UNCHANGED <<handshake, result>>,
         \A r \in Answered : verdict'[result[r].from] = verdict[result[r].from]
  PROVE  AnswersAreReal' /\ Answered' = Answered
BY DEF AnswersAreReal, Answered, GaveUp

\* A step that puts nothing new in either queue.
LEMMA NothingNew ==
  ASSUME IInv, UNCHANGED <<handshake, verdict, abandoned>>,
         result' = result \/ result' = Append(result, NoAnswer),
         Held' => /\ Held
                  /\ \A i \in 1..Len(inbound') : \E k \in 1..Len(inbound) : inbound'[i] = inbound[k]
                  /\ \A i \in 1..Len(outbound') : \E k \in 1..Len(outbound) : outbound'[i] = outbound[k]
  PROVE  AboveAnswered' /\ Decided' /\ Unheard' /\ AnswersAreReal' /\ Answered' = Answered
<1>1. /\ AnswersAreReal' /\ Answered' = Answered /\ \A r \in Answered : result'[r] = result[r]
      /\ Len(result) <= Len(result')
  <2>1. CASE result' = result
    BY <2>1, VerdictsStayReal, Typing DEF IInv
  <2>2. CASE result' = Append(result, NoAnswer)
    BY <2>2, GivingUpStaysReal, OneMoreResult, Typing DEF IInv
  <2> QED
    BY <2>1, <2>2
<1>2. AboveAnswered'
  BY <1>1 DEF IInv, AboveAnswered
<1>3. Decided'
  BY DEF IInv, Decided
<1>4. Unheard'
  <2> SUFFICES ASSUME NEW f \in abandoned
               PROVE  /\ f <= Len(result')
                      /\ \A r \in Answered' : result'[r].from # f
                      /\ Held' => /\ \A i \in 1..Len(inbound') : inbound'[i].from # f
                                  /\ \A i \in 1..Len(outbound') : outbound'[i] # f
    BY DEF Unheard
  <2>1. f \in Nat /\ Len(result) \in Nat /\ Len(result') \in Nat
    <3>1. Len(result') \in Nat
      BY OneMoreResult, Typing DEF IInv
    <3> QED
      BY <3>1, Typing, RequestAssumption DEF IInv, Types, Requests, RequestAssumption
  <2>2. f <= Len(result')
    BY <1>1, <2>1 DEF IInv, Unheard
  <2> QED
    BY SMTT(40), <1>1, <2>2 DEF IInv, Unheard
<1> QED
  BY <1>1, <1>2, <1>3, <1>4

LEMMA InitInv == Init => IInv
<1> SUFFICES ASSUME Init PROVE IInv
  OBVIOUS
<1>1. Types
  <2>1. << >> \in Seq(Answer \union {NoAnswer}) /\ Len(<< >>) = 0
    OBVIOUS
  <2>2. verdict \in [Frames -> {"none", "accepted", "rejected"}]
    BY DEF Init
  <2> QED
    BY <2>1, <2>2, RequestAssumption DEF Init, Types, Held, RequestAssumption
<1>2. ~Held /\ abandoned = {} /\ Answered = {}
  BY DEF Init, Held, Answered
<1>3. AnswersAreReal
  BY <1>2 DEF AnswersAreReal
<1> QED
  BY <1>1, <1>2, <1>3 DEF IInv, OnTheirWay, AboveAnswered, Decided, Unheard, LoginIsFirst

\* A call on the connection held.
LEMMA ReuseStep ==
  ASSUME IInv, Reuse
  PROVE  IInv'
<1>1. /\ Held /\ pc = "idle" /\ request < MaxRequests /\ request' = request + 1 /\ pc' = "ready"
      /\ UNCHANGED <<handshake, ws_api_connection, token, abandoned, verdict, result>>
  BY DEF Reuse, Ready, NextRequest
<1>2. Types' /\ Sent' = Sent
  BY <1>1, RequestAssumption DEF IInv, Types, Held, Sent, RequestAssumption
<1>3. AboveAnswered' /\ Decided' /\ Unheard' /\ AnswersAreReal' /\ Answered' = Answered
  BY <1>1, NothingNew DEF inbound, outbound, Held
<1>4. OnTheirWay'
  BY <1>1, <1>2, <1>3 DEF IInv, OnTheirWay, LoginFrames, inbound, outbound, Held
<1>5. LoginIsFirst'
  BY <1>1, <1>3 DEF IInv, LoginIsFirst, Held
<1> QED
  BY <1>2, <1>3, <1>4, <1>5 DEF IInv

\* What is let go with a connection was not answered, and never will be.
LEMMA LetGo ==
  ASSUME IInv, pc = "idle", ~Ready, Abandon
  PROVE  /\ abandoned' \subseteq Requests
         /\ \A f \in abandoned' : f <= Len(result) /\ \A r \in Answered : result[r].from # f
         /\ handshake = "login" => ~Held /\ abandoned' = {} /\ Answered = {}
<1>1. CASE ~Held
  BY <1>1 DEF Abandon, IInv, Types, Unheard, LoginIsFirst
<1>2. CASE Held
  <2>1. handshake = "token" /\ LoginFrames = 0 /\ Sent = Len(result)
    BY <1>2 DEF Ready, LoginFrames, Sent
  <2>2. abandoned' = abandoned \union {outbound[i] : i \in 1..Len(outbound)}
    <3>1. ws_api_connection.outbound \in Seq(Frames)
      BY <1>2, Typing DEF IInv, outbound
    <3> QED
      BY <1>2, <3>1 DEF Abandon, ToSet, outbound
  <2>3. ASSUME NEW i \in 1..Len(outbound)
        PROVE  /\ outbound[i] \in Requests /\ outbound[i] <= Len(result)
               /\ \A r \in Answered : result[r].from # outbound[i]
    <3>1. outbound \in Seq(Frames) /\ inbound \in Seq(Answer) /\ Len(result) \in Nat
      BY <1>2, Typing DEF IInv
    <3>2. outbound[i] \in Nat /\ outbound[i] \in Frames
      BY <3>1, RequestAssumption DEF Frames, Requests, Login, RequestAssumption
    <3>3. Cardinality(Answered) + Len(inbound) + i <= outbound[i] /\ outbound[i] <= Len(result)
      <4>1. Cardinality(Answered) - LoginFrames + Len(inbound) + i <= outbound[i]
            /\ outbound[i] <= Sent
        BY <1>2 DEF IInv, OnTheirWay, Ascend
      <4>2. Cardinality(Answered) \in Nat /\ Len(inbound) \in Nat
        BY <3>1, Counts DEF IInv
      <4> QED
        BY <2>1, <4>1, <4>2
    <3>4. Cardinality(Answered) \in Nat /\ Len(inbound) \in Nat
      BY <3>1, Counts DEF IInv
    <3>5. outbound[i] # Login
      BY <3>2, <3>3, <3>4 DEF Login
    <3>6. ASSUME NEW r \in Answered PROVE result[r].from # outbound[i]
      <4>1. result[r].from < outbound[i]
        BY <1>2 DEF IInv, AboveAnswered
      <4> QED
        BY <3>2, <4>1
    <3> QED
      BY <3>2, <3>3, <3>5, <3>6 DEF Frames
  <2> QED
    BY <2>1, <2>2, <2>3 DEF IInv, Types, Unheard
<1> QED
  BY <1>1, <1>2

LEMMA ConnectStep ==
  ASSUME IInv, Connect
  PROVE  IInv'
<1>1. /\ ~Ready /\ pc = "idle" /\ request < MaxRequests /\ request' = request + 1
      /\ ws_api_connection' = Fresh /\ Abandon
      /\ token' = IF handshake = "token" THEN "live" ELSE token
      /\ pc' = IF handshake = "login" THEN "login" ELSE "ready"
      /\ UNCHANGED <<handshake, verdict, result>>
  BY DEF Connect, NextRequest
<1>2. /\ abandoned' \subseteq Requests
      /\ \A f \in abandoned' : f <= Len(result) /\ \A r \in Answered : result[r].from # f
      /\ handshake = "login" => ~Held /\ abandoned' = {} /\ Answered = {}
  BY <1>1, LetGo
<1>3. /\ Fresh.inbound = << >> /\ Fresh \in Link /\ Fresh # NoConnection
      /\ Fresh.outbound = IF handshake = "login" THEN <<Login>> ELSE << >>
  <2>1. <<Login>> \in Seq(Frames) /\ << >> \in Seq(Frames) /\ << >> \in Seq(Answer)
    BY DEF Frames
  <2> QED
    BY <2>1 DEF Fresh, Link, NoConnection
<1>4. Held' /\ inbound' = << >> /\ outbound' = IF handshake = "login" THEN <<Login>> ELSE << >>
  BY <1>1, <1>3 DEF Held, inbound, outbound
<1>5. Types'
  <2>1. request' \in 0..MaxRequests
    BY <1>1, RequestAssumption DEF IInv, Types, RequestAssumption
  <2>2. Len(result') = IF pc' = "idle" THEN request' ELSE request' - 1
    BY <1>1, RequestAssumption DEF IInv, Types, RequestAssumption
  <2>3. token' \in {"none", "live", "expired"} /\ (token' # "none" <=> handshake' = "token" /\ Held')
    BY <1>1, <1>4 DEF IInv, Types
  <2> QED
    BY <1>1, <1>2, <1>3, <1>4, <2>1, <2>2, <2>3 DEF IInv, Types
<1>6. Answered' = Answered /\ AnswersAreReal'
  BY <1>1, VerdictsStayReal DEF IInv
<1>7. OnTheirWay'
  <2>1. Cardinality(Answered) \in Nat /\ Len(result) \in Nat /\ Sent' = Len(result)
    BY <1>1, Counts, Typing DEF IInv, Sent
  <2>2. CASE handshake = "login"
    <3>1. Cardinality(Answered) = 0
      BY <1>2, <2>2, FS_EmptySet
    <3>2. Cardinality(Answered)' - LoginFrames' = -1
      BY <1>1, <1>6, <2>2, <3>1 DEF LoginFrames
    <3> QED
      BY <1>4, <2>1, <2>2, <3>2, AscendLogin DEF OnTheirWay
  <2>3. CASE handshake # "login"
    <3>1. Cardinality(Answered)' - LoginFrames' \in Int
      BY <1>1, <1>6, <2>1, <2>3 DEF LoginFrames
    <3> QED
      BY <1>4, <2>1, <2>3, <3>1, AscendEmpty DEF OnTheirWay
  <2> QED
    BY <2>2, <2>3
<1>8. AboveAnswered'
  BY <1>1, <1>2, <1>4, <1>6 DEF AboveAnswered
<1>9. Decided'
  BY <1>4 DEF Decided
<1>10. Unheard'
  BY <1>1, <1>2, <1>4, <1>6 DEF Unheard
<1>11. LoginIsFirst'
  BY <1>1, <1>2, <1>6 DEF LoginIsFirst
<1> QED
  BY <1>5, <1>6, <1>7, <1>8, <1>9, <1>10, <1>11 DEF IInv

LEMMA ConnectFailsStep ==
  ASSUME IInv, ConnectFails
  PROVE  IInv'
<1>1. /\ ~Ready /\ pc = "idle" /\ request < MaxRequests /\ request' = request + 1
      /\ ws_api_connection' = NoConnection /\ token' = "none" /\ Abandon
      /\ result' = Append(result, NoAnswer)
      /\ UNCHANGED <<handshake, pc, verdict>>
  BY DEF ConnectFails, NextRequest
<1>2. /\ abandoned' \subseteq Requests
      /\ \A f \in abandoned' : f <= Len(result) /\ \A r \in Answered : result[r].from # f
      /\ handshake = "login" => ~Held /\ abandoned' = {} /\ Answered = {}
  BY <1>1, LetGo
<1>3. /\ result' \in Seq(Answer \union {NoAnswer}) /\ Len(result') = Len(result) + 1
      /\ Len(result) \in Nat
  BY <1>1, OneMoreResult, Typing DEF IInv
<1>4. AnswersAreReal' /\ Answered' = Answered /\ \A r \in Answered : result'[r] = result[r]
  BY <1>1, GivingUpStaysReal DEF IInv
<1>5. ~Held'
  BY <1>1 DEF Held
<1>6. Types'
  <2>1. request' \in 0..MaxRequests
    BY <1>1, RequestAssumption DEF IInv, Types, RequestAssumption
  <2>2. Len(result') = IF pc' = "idle" THEN request' ELSE request' - 1
    BY <1>1, <1>3 DEF IInv, Types
  <2> QED
    BY <1>1, <1>2, <1>3, <1>5, <2>1, <2>2 DEF IInv, Types
<1>7. Unheard'
  <2>1. \A f \in abandoned' : f \in Nat
    BY <1>2, RequestAssumption DEF Requests, RequestAssumption
  <2> QED
    BY <1>2, <1>3, <1>4, <1>5, <2>1 DEF Unheard
<1> QED
  BY <1>1, <1>2, <1>4, <1>5, <1>6, <1>7
     DEF IInv, OnTheirWay, AboveAnswered, Decided, LoginIsFirst

LEMMA ReadLoginStep ==
  ASSUME IInv, ReadLogin
  PROVE  IInv'
<1> DEFINE conn == [ws_api_connection EXCEPT !.inbound = IF @ = << >> THEN @ ELSE Tail(@)]
<1>1. /\ pc = "login" /\ pc' = "ready" /\ ws_api_connection' = conn /\ Held
      /\ ws_api_connection \in Link /\ inbound \in Seq(Answer) /\ outbound \in Seq(Frames)
      /\ UNCHANGED <<handshake, token, abandoned, request, verdict, result>>
  BY Typing DEF IInv, Types, ReadLogin
<1>2. /\ conn.inbound = IF inbound = << >> THEN inbound ELSE Tail(inbound)
      /\ conn.outbound = outbound /\ conn.reader = ws_api_connection.reader
  BY <1>1 DEF Link, inbound, outbound
<1>3. conn \in Link /\ conn # NoConnection
  <2>1. (IF inbound = << >> THEN inbound ELSE Tail(inbound)) \in Seq(Answer)
    BY <1>1
  <2> QED
    BY <1>1, <1>2, <2>1 DEF Link, NoConnection, inbound
<1> HIDE DEF conn
<1>4. /\ inbound' = IF inbound = << >> THEN inbound ELSE Tail(inbound)
      /\ outbound' = outbound /\ Held'
  BY <1>1, <1>2, <1>3 DEF inbound, outbound, Held
<1>5. Types' /\ Sent' = Sent
  BY <1>1, <1>3, <1>4 DEF IInv, Types, Sent
<1>6. AboveAnswered' /\ Decided' /\ Unheard' /\ AnswersAreReal' /\ Answered' = Answered
  <2>1. \A i \in 1..Len(inbound') : \E k \in 1..Len(inbound) : inbound'[i] = inbound[k]
    <3>1. CASE inbound = << >>
      BY <1>4, <3>1
    <3>2. CASE inbound # << >>
      <4>1. \A i \in 1..Len(Tail(inbound)) : i + 1 \in 1..Len(inbound) /\ Tail(inbound)[i] = inbound[i + 1]
        BY <1>1, <3>2
      <4> QED
        BY <1>4, <3>2, <4>1
    <3> QED
      BY <3>1, <3>2
  <2> QED
    BY <1>1, <1>4, <2>1, NothingNew
<1>7. OnTheirWay'
  <2> DEFINE base == Cardinality(Answered) - LoginFrames
  <2>1. /\ Ascend(inbound, outbound, base, Sent) /\ base \in Int /\ Sent \in Nat
        /\ Cardinality(Answered)' - LoginFrames' = base
    BY <1>1, <1>6, Counts, Typing DEF IInv, OnTheirWay, LoginFrames
  <2> HIDE DEF base
  <2>2. Ascend(inbound', outbound', base, Sent)
    <3>1. CASE inbound = << >>
      BY <1>4, <2>1, <3>1
    <3>2. CASE inbound # << >>
      <4>1. Ascend(Tail(inbound), outbound, base + 1, Sent) /\ Tail(inbound) \in Seq(Answer)
        <5>1. inbound \in Seq(Answer) /\ outbound \in Seq(Frames) /\ base \in Int /\ Sent \in Nat
          BY <1>1, <2>1
        <5>2. Ascend(Tail(inbound), outbound, base + 1, Sent)
          BY <2>1, <3>2, <5>1, AscendTail, Zenon
        <5> QED
          BY <3>2, <5>1, <5>2
      <4>2. base + 1 \in Int /\ base <= base + 1
        BY <2>1
      <4> QED
        BY <1>1, <1>4, <2>1, <3>2, <4>1, <4>2, AscendBelow
    <3> QED
      BY <3>1, <3>2
  <2> QED
    BY <1>5, <2>1, <2>2 DEF OnTheirWay
<1>8. LoginIsFirst'
  BY <1>1, <1>4 DEF IInv, LoginIsFirst
<1> QED
  BY <1>5, <1>6, <1>7, <1>8 DEF IInv

\* A call that ends without an answer.
LEMMA GiveUpStep ==
  ASSUME IInv, LoginFails \/ SendFails \/ ReadNothing
  PROVE  IInv'
<1>1. /\ pc \in {"login", "ready", "sent"} /\ pc' = "idle" /\ result' = Append(result, NoAnswer)
      /\ \/ ws_api_connection' = ws_api_connection
         \/ ws_api_connection' = NoConnection /\ pc = "login"
      /\ UNCHANGED <<handshake, token, abandoned, request, verdict>>
  BY DEF LoginFails, SendFails, ReadNothing
<1>2. /\ result' \in Seq(Answer \union {NoAnswer}) /\ Len(result') = Len(result) + 1
      /\ Len(result) \in Nat
  BY <1>1, OneMoreResult, Typing DEF IInv
<1>3. Held' => Held /\ inbound' = inbound /\ outbound' = outbound
  BY <1>1 DEF Held, inbound, outbound
<1>4. AboveAnswered' /\ Decided' /\ Unheard' /\ AnswersAreReal' /\ Answered' = Answered
  BY <1>1, <1>3, NothingNew
<1>5. Len(result') = request /\ request \in Nat /\ Sent' = request
  BY <1>1, <1>2, Typing DEF IInv, Types, Sent
<1>6. Types'
  <2>1. CASE ws_api_connection' = ws_api_connection
    BY <1>1, <1>2, <1>5, <2>1 DEF IInv, Types, Held
  <2>2. CASE ws_api_connection' = NoConnection /\ pc = "login"
    <3>1. token = "none" /\ ~Held'
      BY <2>2, <1>1 DEF IInv, Types, Held
    <3> QED
      BY <1>1, <1>2, <1>5, <2>2, <3>1 DEF IInv, Types
  <2> QED
    BY <1>1, <2>1, <2>2
<1>7. OnTheirWay'
  <2> SUFFICES ASSUME Held' PROVE Ascend(inbound, outbound, Cardinality(Answered) - LoginFrames, request)
    BY <1>1, <1>3, <1>4, <1>5 DEF OnTheirWay, LoginFrames
  <2> DEFINE base == Cardinality(Answered) - LoginFrames
  <2>1. /\ Ascend(inbound, outbound, base, Sent) /\ base \in Int /\ Sent \in Nat
        /\ inbound \in Seq(Answer) /\ outbound \in Seq(Frames) /\ Sent <= request /\ request \in Nat
    BY <1>3, Counts, Typing DEF IInv, OnTheirWay
  <2> HIDE DEF base
  <2>2. Ascend(inbound, outbound, base, request)
    BY <2>1, AscendAbove
  <2> QED
    BY <2>2 DEF base
<1>8. LoginIsFirst'
  BY <1>1, <1>3, <1>4 DEF IInv, LoginIsFirst, Held
<1> QED
  BY <1>4, <1>6, <1>7, <1>8 DEF IInv

LEMMA SendStep ==
  ASSUME IInv, Send
  PROVE  IInv'
<1> DEFINE conn == [ws_api_connection EXCEPT !.outbound = Append(@, request)]
<1>1. /\ pc = "ready" /\ pc' = "sent" /\ ws_api_connection' = conn /\ Held
      /\ ws_api_connection \in Link /\ inbound \in Seq(Answer) /\ outbound \in Seq(Frames)
      /\ UNCHANGED <<handshake, token, abandoned, request, verdict, result>>
  BY Typing DEF IInv, Types, Send
<1>2. /\ request = Len(result) + 1 /\ request \in Requests /\ Len(result) \in Nat
      /\ Sent = Len(result) /\ Sent' = Len(result) + 1 /\ Answered \subseteq 1..Len(result)
  <2>1. request = Len(result) + 1 /\ Len(result) \in Nat
    BY <1>1, Typing DEF IInv, Types
  <2> QED
    BY <1>1, <2>1, Typing, RequestAssumption DEF IInv, Types, Requests, Sent, RequestAssumption
<1>3. conn.inbound = inbound /\ conn.outbound = Append(outbound, request)
      /\ conn.reader = ws_api_connection.reader
  BY <1>1 DEF Link, inbound, outbound
<1>4. conn \in Link /\ conn # NoConnection
  <2>1. Append(outbound, request) \in Seq(Frames)
    BY <1>1, <1>2 DEF Frames
  <2> QED
    BY <1>1, <1>3, <2>1 DEF Link, NoConnection, outbound
<1> HIDE DEF conn
<1>5. inbound' = inbound /\ outbound' = Append(outbound, request) /\ Held'
  BY <1>1, <1>3, <1>4 DEF inbound, outbound, Held
<1>6. Types'
  BY <1>1, <1>2, <1>4, <1>5 DEF IInv, Types
<1>7. Answered' = Answered /\ AnswersAreReal'
  BY <1>1, VerdictsStayReal DEF IInv
<1>8. OnTheirWay'
  <2> DEFINE base == Cardinality(Answered) - LoginFrames
  <2>1. /\ Ascend(inbound, outbound, base, Len(result)) /\ base \in Int /\ base <= Len(result)
        /\ Cardinality(Answered)' - LoginFrames' = base
    BY <1>1, <1>2, <1>7, Counts, Typing DEF IInv, OnTheirWay, LoginFrames
  <2> HIDE DEF base
  <2>2. Ascend(inbound, Append(outbound, request), base, Len(result) + 1)
    BY <1>1, <1>2, <2>1, AscendSent
  <2> QED
    BY <1>2, <1>5, <2>1, <2>2 DEF OnTheirWay
<1>9. \A i \in 1..Len(outbound') : outbound'[i] = request \/ \E k \in 1..Len(outbound) : outbound'[i] = outbound[k]
  BY <1>1, <1>5
<1>10. AboveAnswered'
  <2> SUFFICES ASSUME NEW r \in Answered
               PROVE  /\ \A i \in 1..Len(inbound) : result[r].from < inbound[i].from
                      /\ \A i \in 1..Len(outbound') : result[r].from < outbound'[i]
    BY <1>1, <1>5, <1>7 DEF AboveAnswered
  <2>1. result[r].from < request
    <3>1. result[r].from <= r /\ r \in 1..Len(result)
      BY <1>2 DEF IInv, AnswersAreReal
    <3>2. result[r] \in Answer
      BY <3>1, Typing DEF IInv, Answered
    <3>3. result[r].from \in Nat
      BY <3>2, RequestAssumption DEF Answer, Frames, Requests, Login, RequestAssumption
    <3> QED
      BY <1>2, <3>1, <3>3
  <2> QED
    BY <1>1, <1>9, <2>1 DEF IInv, AboveAnswered
<1>11. Decided'
  BY <1>1, <1>5 DEF IInv, Decided
<1>12. Unheard'
  <2>1. \A f \in abandoned : f # request /\ f <= Len(result)
    BY <1>2, RequestAssumption DEF IInv, Types, Unheard, Requests, RequestAssumption
  <2> QED
    BY <1>1, <1>5, <1>7, <1>9, <2>1 DEF IInv, Unheard
<1>13. LoginIsFirst'
  BY <1>1, <1>5 DEF IInv, LoginIsFirst
<1> QED
  BY <1>6, <1>7, <1>8, <1>10, <1>11, <1>12, <1>13 DEF IInv

LEMMA ReadResponseStep ==
  ASSUME IInv, ReadResponse
  PROVE  IInv'
<1> DEFINE conn == [ws_api_connection EXCEPT !.inbound = Remaining(@)]
           x == Head(inbound)
<1>1. /\ pc = "sent" /\ pc' = "idle" /\ ws_api_connection' = conn /\ Held
      /\ inbound # << >> /\ result' = Append(result, x)
      /\ ws_api_connection \in Link /\ inbound \in Seq(Answer) /\ outbound \in Seq(Frames)
      /\ UNCHANGED <<handshake, token, abandoned, request, verdict>>
  BY Typing DEF IInv, Types, ReadResponse, Received, inbound
<1>2. /\ request = Len(result) + 1 /\ Len(result) \in Nat /\ Sent = Len(result) + 1
      /\ Answered \subseteq 1..Len(result) /\ GaveUp \subseteq 1..Len(result)
      /\ Cardinality(Answered) \in Nat /\ Cardinality(GaveUp) \in Nat
      /\ IsFiniteSet(Answered) /\ LoginFrames \in {0, 1}
      /\ Cardinality(Answered) + Cardinality(GaveUp) = Len(result)
  <2>1. request = Len(result) + 1 /\ Len(result) \in Nat
    BY <1>1, Typing DEF IInv, Types
  <2> QED
    BY <1>1, <2>1, Typing, Counts DEF IInv, Sent
<1>3. conn.inbound = Tail(inbound) /\ conn.outbound = outbound
      /\ conn.reader = ws_api_connection.reader
  BY <1>1 DEF Link, inbound, outbound, Remaining
<1>4. conn \in Link /\ conn # NoConnection /\ x \in Answer /\ x # NoAnswer
  <2>1. Tail(inbound) \in Seq(Answer) /\ x \in Answer
    BY <1>1
  <2> QED
    BY <1>1, <1>3, <2>1, Typing DEF IInv, Link, NoConnection, inbound, Remaining
<1> HIDE DEF conn, x
<1>5. inbound' = Tail(inbound) /\ outbound' = outbound /\ Held'
  BY <1>1, <1>3, <1>4 DEF inbound, outbound, Held
<1>6. /\ result' \in Seq(Answer \union {NoAnswer}) /\ Len(result') = Len(result) + 1
      /\ \A r \in 1..Len(result) : result'[r] = result[r]
      /\ result'[Len(result) + 1] = x
      /\ Answered' = Answered \union {Len(result) + 1} /\ GaveUp' = GaveUp
  BY <1>1, <1>4, OneMoreResult DEF IInv
<1>7. Types'
  BY <1>1, <1>2, <1>4, <1>5, <1>6 DEF IInv, Types
<1> DEFINE base == Cardinality(Answered) - LoginFrames
<1>8. Ascend(inbound, outbound, base, Len(result) + 1) /\ base \in Int
  BY <1>1, <1>2 DEF IInv, OnTheirWay
<1>9. /\ Ascend(Tail(inbound), outbound, base + 1, Len(result) + 1)
      /\ base + 1 <= x.from /\ x.from <= Len(result) + 1
      /\ \A i \in 1..Len(Tail(inbound)) : x.from < Tail(inbound)[i].from
      /\ \A i \in 1..Len(outbound) : x.from < outbound[i]
  <2>1. Len(result) + 1 \in Nat
    BY <1>2
  <2> HIDE DEF base
  <2> QED
    BY <1>1, <1>8, <2>1, AscendTail DEF x
<1>10. OnTheirWay'
  <2>1. Len(result) + 1 \notin Answered
    BY <1>2
  <2>2. Cardinality(Answered') = Cardinality(Answered) + 1
    BY <1>2, <1>6, <2>1, FS_AddElement
  <2>3. LoginFrames' = LoginFrames /\ LoginFrames \in Int
    BY <1>1 DEF LoginFrames
  <2>4. Sent' = Len(result) + 1
    BY <1>1, <1>6 DEF Sent
  <2>5. Cardinality(Answered)' - LoginFrames' = base + 1
    BY <1>2, <2>2, <2>3
  <2> HIDE DEF base
  <2> QED
    BY <1>5, <1>9, <2>4, <2>5 DEF OnTheirWay
<1>11. 1 \in 1..Len(inbound) /\ x = inbound[1]
       /\ \A i \in 1..Len(Tail(inbound)) : i + 1 \in 1..Len(inbound) /\ Tail(inbound)[i] = inbound[i + 1]
  BY <1>1 DEF x
<1>12. AboveAnswered'
  <2> SUFFICES ASSUME NEW r \in Answered'
               PROVE  /\ \A i \in 1..Len(Tail(inbound)) : result'[r].from < Tail(inbound)[i].from
                      /\ \A i \in 1..Len(outbound) : result'[r].from < outbound[i]
    BY <1>5 DEF AboveAnswered
  <2>1. CASE r = Len(result) + 1
    BY <1>6, <1>9, <2>1
  <2>2. CASE r \in Answered
    <3>1. result'[r] = result[r]
      BY <1>2, <1>6, <2>2
    <3> QED
      BY <1>1, <1>11, <2>2, <3>1 DEF IInv, AboveAnswered
  <2> QED
    BY <1>6, <2>1, <2>2
<1>13. Decided'
  BY <1>1, <1>5, <1>11 DEF IInv, Decided
<1>14. Unheard'
  <2> SUFFICES ASSUME NEW f \in abandoned
               PROVE  /\ f <= Len(result) + 1
                      /\ \A r \in Answered' : result'[r].from # f
                      /\ \A i \in 1..Len(Tail(inbound)) : Tail(inbound)[i].from # f
                      /\ \A i \in 1..Len(outbound) : outbound[i] # f
    BY <1>1, <1>5, <1>6 DEF Unheard
  <2>1. f \in Nat /\ f <= Len(result)
    <3>1. f \in Requests /\ f <= Len(result)
      BY DEF IInv, Types, Unheard
    <3> QED
      BY <3>1, RequestAssumption DEF Requests, RequestAssumption
  <2>2. x.from # f
    BY <1>1, <1>11 DEF IInv, Unheard
  <2>3. \A r \in Answered : result'[r] = result[r]
    BY <1>2, <1>6
  <2> QED
    BY <1>1, <1>2, <1>6, <1>11, <2>1, <2>2, <2>3 DEF IInv, Unheard
<1>15. LoginIsFirst'
  BY <1>1, <1>5 DEF IInv, LoginIsFirst
<1>16. AnswersAreReal'
  <2>1. \A r \in Answered : result'[r] = result[r]
    BY <1>2, <1>6
  <2>2. x.from \in Nat /\ verdict[x.from] = x.status
    <3>1. x.from \in Nat
      BY <1>4, RequestAssumption DEF Answer, Frames, Requests, Login, RequestAssumption
    <3> QED
      BY <1>1, <1>11, <3>1 DEF IInv, Decided
  <2>3. \A r \in Answered : result[r].from < x.from
    BY <1>1, <1>11 DEF IInv, AboveAnswered
  <2>4. {q \in GaveUp : q < Len(result) + 1} = GaveUp
    <3>1. \A q \in GaveUp : q < Len(result) + 1
      BY <1>2
    <3> QED
      BY <3>1
  <2>5. Len(result) + 1 - x.from <= Cardinality(GaveUp) + LoginFrames
    <3>1. Cardinality(Answered) - LoginFrames + 1 <= x.from
      BY <1>9
    <3> QED
      BY <1>2, <2>2, <3>1
  <2>6. ASSUME NEW r \in Answered'
        PROVE  /\ result'[r].from <= r
               /\ verdict[result'[r].from] = result'[r].status
               /\ r - result'[r].from <= Cardinality({q \in GaveUp : q < r}) + LoginFrames
    <3>1. CASE r = Len(result) + 1
      <4>1. Len(result) + 1 - x.from
              <= Cardinality({q \in GaveUp : q < Len(result) + 1}) + LoginFrames
        BY <2>4, <2>5
      <4> QED
        BY SMTT(40), <1>6, <1>9, <2>2, <3>1, <4>1
    <3>2. CASE r \in Answered
      BY <2>1, <3>2 DEF IInv, AnswersAreReal, LoginFrames
    <3> QED
      BY <1>6, <3>1, <3>2
  <2>7. ASSUME NEW q \in Answered', NEW r \in Answered', q < r
        PROVE  result'[q].from < result'[r].from
    <3>1. q \in Answered
      BY <1>2, <1>6, <2>7
    <3>2. CASE r = Len(result) + 1
      BY <1>6, <2>1, <2>3, <3>1, <3>2
    <3>3. CASE r \in Answered
      BY <2>1, <2>7, <3>1, <3>3 DEF IInv, AnswersAreReal
    <3> QED
      BY <1>6, <3>2, <3>3
  <2> QED
    BY <1>1, <1>6, <2>6, <2>7 DEF AnswersAreReal, LoginFrames
<1> QED
  BY <1>7, <1>10, <1>12, <1>13, <1>14, <1>15, <1>16 DEF IInv

\* The reader thread, the token and the venue.
LEMMA SocketOpensStep ==
  ASSUME IInv, SocketOpens
  PROVE  IInv'
<1> DEFINE conn == [ws_api_connection EXCEPT !.reader = "up"]
<1>1. /\ Held /\ ws_api_connection' = conn /\ ws_api_connection \in Link
      /\ inbound \in Seq(Answer) /\ outbound \in Seq(Frames)
      /\ UNCHANGED <<handshake, token, abandoned, request, pc, verdict, result>>
  BY Typing DEF IInv, SocketOpens, Reader
<1>2. conn \in Link /\ conn # NoConnection /\ conn.inbound = inbound /\ conn.outbound = outbound
  BY <1>1 DEF Link, NoConnection, inbound, outbound
<1> HIDE DEF conn
<1>3. Held' /\ inbound' = inbound /\ outbound' = outbound
  BY <1>1, <1>2 DEF inbound, outbound, Held
<1>4. Types' /\ Sent' = Sent
  BY <1>1, <1>2, <1>3 DEF IInv, Types, Sent
<1>5. AboveAnswered' /\ Decided' /\ Unheard' /\ AnswersAreReal' /\ Answered' = Answered
  BY <1>1, <1>3, NothingNew
<1>6. OnTheirWay' /\ LoginIsFirst'
  BY <1>1, <1>3, <1>4, <1>5 DEF IInv, OnTheirWay, LoginIsFirst, LoginFrames
<1> QED
  BY <1>4, <1>5, <1>6 DEF IInv

LEMMA SocketEndsStep ==
  ASSUME IInv, SocketEnds
  PROVE  IInv'
<1> DEFINE conn == [ws_api_connection EXCEPT !.reader = "ended", !.outbound = << >>]
<1>1. /\ Held /\ ws_api_connection' = conn /\ ws_api_connection \in Link
      /\ inbound \in Seq(Answer) /\ outbound \in Seq(Frames)
      /\ UNCHANGED <<handshake, token, abandoned, request, pc, verdict, result>>
  BY Typing DEF IInv, SocketEnds, Reader
<1>2. conn \in Link /\ conn # NoConnection /\ conn.inbound = inbound /\ conn.outbound = << >>
  <2>1. << >> \in Seq(Frames)
    OBVIOUS
  <2> QED
    BY <1>1, <2>1 DEF Link, NoConnection, inbound
<1> HIDE DEF conn
<1>3. Held' /\ inbound' = inbound /\ outbound' = << >>
  BY <1>1, <1>2 DEF inbound, outbound, Held
<1>4. Types' /\ Sent' = Sent
  BY <1>1, <1>2, <1>3 DEF IInv, Types, Sent
<1>5. AboveAnswered' /\ Decided' /\ Unheard' /\ AnswersAreReal' /\ Answered' = Answered
  BY <1>1, <1>3, NothingNew
<1>6. OnTheirWay'
  <2> DEFINE base == Cardinality(Answered) - LoginFrames
  <2>1. /\ Ascend(inbound, outbound, base, Sent) /\ base \in Int /\ Sent \in Nat
        /\ Cardinality(Answered)' - LoginFrames' = base
    BY <1>1, <1>5, Counts, Typing DEF IInv, OnTheirWay, LoginFrames
  <2> HIDE DEF base
  <2>2. Ascend(inbound, << >>, base, Sent)
    BY <1>1, <2>1, AscendNoFrames
  <2> QED
    BY <1>3, <1>4, <2>1, <2>2 DEF OnTheirWay
<1>7. LoginIsFirst'
  BY <1>1, <1>3, <1>5 DEF IInv, LoginIsFirst
<1> QED
  BY <1>4, <1>5, <1>6, <1>7 DEF IInv

LEMMA TokenExpiresStep ==
  ASSUME IInv, TokenExpires
  PROVE  IInv'
<1>1. /\ token = "live" /\ token' = "expired"
      /\ UNCHANGED <<handshake, ws_api_connection, abandoned, request, pc, verdict, result>>
  BY DEF TokenExpires
<1>2. inbound' = inbound /\ outbound' = outbound /\ Held' = Held
  BY <1>1 DEF inbound, outbound, Held
<1>3. Types' /\ Sent' = Sent
  BY <1>1, <1>2 DEF IInv, Types, Sent
<1>4. AboveAnswered' /\ Decided' /\ Unheard' /\ AnswersAreReal' /\ Answered' = Answered
  BY <1>1, <1>2, NothingNew
<1>5. OnTheirWay' /\ LoginIsFirst'
  BY <1>1, <1>2, <1>3, <1>4 DEF IInv, OnTheirWay, LoginIsFirst, LoginFrames
<1> QED
  BY <1>3, <1>4, <1>5 DEF IInv

LEMMA VenueDecidesUnheardStep ==
  ASSUME IInv, NEW status \in {"accepted", "rejected"}, NEW f \in abandoned,
         VenueDecidesUnheard(f, status)
  PROVE  IInv'
<1>1. /\ verdict' = [verdict EXCEPT ![f] = status] /\ abandoned' = abandoned \ {f}
      /\ UNCHANGED <<handshake, ws_api_connection, token, request, pc, result>>
  BY DEF VenueDecidesUnheard
<1>2. inbound' = inbound /\ outbound' = outbound /\ Held' = Held
  BY <1>1 DEF inbound, outbound, Held
<1>3. Types' /\ Sent' = Sent
  BY <1>1, <1>2 DEF IInv, Types, Sent
<1>4. \A g : g # f => verdict'[g] = verdict[g]
  BY <1>1 DEF IInv, Types
<1>5. AnswersAreReal' /\ Answered' = Answered
  BY <1>1, <1>4, VerdictsStayReal DEF IInv, Unheard
<1>6. AboveAnswered' /\ Unheard'
  BY <1>1, <1>2, <1>5 DEF IInv, AboveAnswered, Unheard
<1>7. Decided'
  BY <1>2, <1>4 DEF IInv, Decided, Unheard
<1>8. OnTheirWay' /\ LoginIsFirst'
  BY <1>1, <1>2, <1>3, <1>5 DEF IInv, OnTheirWay, LoginIsFirst, LoginFrames
<1> QED
  BY <1>3, <1>5, <1>6, <1>7, <1>8 DEF IInv

LEMMA VenueAnswersStep ==
  ASSUME IInv, NEW status \in {"accepted", "rejected"}, VenueAnswers(status)
  PROVE  IInv'
<1> DEFINE f == Head(outbound)
           answer == [from |-> f, status |-> status]
           base == Cardinality(Answered) - LoginFrames
           told == [ws_api_connection EXCEPT !.outbound = Tail(@), !.inbound = Append(@, answer)]
           lost == [ws_api_connection EXCEPT !.reader = "ended", !.outbound = << >>]
<1>1. /\ Held /\ ws_api_connection \in Link /\ inbound \in Seq(Answer) /\ outbound \in Seq(Frames)
      /\ outbound # << >> /\ verdict' = [verdict EXCEPT ![f] = status]
      /\ ws_api_connection' = told \/ ws_api_connection' = lost
      /\ UNCHANGED <<handshake, token, abandoned, request, pc, result>>
  BY Typing DEF IInv, VenueAnswers, Reader, outbound
<1>2. /\ f = outbound[1] /\ 1 \in 1..Len(outbound) /\ f \in Frames /\ answer \in Answer
      /\ \A i \in 1..Len(Tail(outbound)) : i + 1 \in 1..Len(outbound) /\ Tail(outbound)[i] = outbound[i + 1]
  <2>1. f = outbound[1] /\ 1 \in 1..Len(outbound) /\ f \in Frames
    BY <1>1
  <2>2. answer \in Answer
    BY <2>1 DEF Answer
  <2>3. \A i \in 1..Len(Tail(outbound)) : i + 1 \in 1..Len(outbound) /\ Tail(outbound)[i] = outbound[i + 1]
    BY <1>1
  <2> QED
    BY <2>1, <2>2, <2>3
<1>3. /\ \A g : g # f => verdict'[g] = verdict[g]
      /\ verdict'[f] = status /\ verdict' \in [Frames -> {"none", "accepted", "rejected"}]
  BY <1>1, <1>2 DEF IInv, Types
<1>4. Ascend(inbound, outbound, base, Sent) /\ base \in Int /\ Sent \in Nat
  BY <1>1, Counts, Typing DEF IInv, OnTheirWay
<1>5. Answered' = Answered /\ AnswersAreReal'
  <2>1. \A r \in Answered : result[r].from # f
    <3> SUFFICES ASSUME NEW r \in Answered PROVE result[r].from # f
      OBVIOUS
    <3>1. result[r].from < f
      BY <1>1, <1>2 DEF IInv, AboveAnswered
    <3>2. f \in Nat
      BY <1>2, RequestAssumption DEF Frames, Requests, Login, RequestAssumption
    <3> QED
      BY <3>1, <3>2
  <2> QED
    BY <1>1, <1>3, <2>1, VerdictsStayReal DEF IInv
<1>6. base' = base /\ Sent' = Sent
  BY <1>1, <1>5 DEF LoginFrames, Sent
\* What the queues hold after the step is what they held, the answer apart.
<1>7. /\ ws_api_connection' \in Link /\ Held'
      /\ Ascend(inbound', outbound', base, Sent)
      /\ \A i \in 1..Len(inbound') : \/ inbound'[i].from = f /\ inbound'[i].status = status
                                     \/ i \in 1..Len(inbound) /\ inbound'[i] = inbound[i]
      /\ \A i \in 1..Len(outbound') : \E k \in 1..Len(outbound) : outbound'[i] = outbound[k]
  <2>1. CASE ws_api_connection' = told
    <3>1. told.inbound = Append(inbound, answer) /\ told.outbound = Tail(outbound)
          /\ told.reader = ws_api_connection.reader
      BY <1>1 DEF Link, inbound, outbound
    <3>2. Append(inbound, answer) \in Seq(Answer) /\ Tail(outbound) \in Seq(Frames)
      <4> HIDE DEF answer
      <4> QED
        BY <1>1, <1>2
    <3>3. told \in Link /\ told # NoConnection
      <4> HIDE DEF answer
      <4> QED
        BY <1>1, <3>1, <3>2 DEF Link, NoConnection, inbound, outbound
    <3>4. inbound' = Append(inbound, answer) /\ outbound' = Tail(outbound)
      BY <2>1, <3>1 DEF inbound, outbound
    <3>5. Ascend(Append(inbound, answer), Tail(outbound), base, Sent)
      <4> HIDE DEF base
      <4> QED
        BY <1>1, <1>4, AscendAnswered
    <3>6. \A i \in 1..Len(inbound') : \/ i \in 1..Len(inbound) /\ inbound'[i] = inbound[i]
                                      \/ inbound'[i] = answer
      <4> HIDE DEF answer
      <4> QED
        BY <1>1, <3>4
    <3>7. answer.from = f /\ answer.status = status
      OBVIOUS
    <3> HIDE DEF told, answer, f
    <3> QED
      BY <1>2, <2>1, <3>3, <3>4, <3>5, <3>6, <3>7 DEF Held
  <2>2. CASE ws_api_connection' = lost
    <3>1. << >> \in Seq(Frames)
      OBVIOUS
    <3>2. lost \in Link /\ lost # NoConnection /\ lost.inbound = inbound /\ lost.outbound = << >>
      BY <1>1, <3>1 DEF Link, NoConnection, inbound
    <3>3. inbound' = inbound /\ outbound' = << >>
      BY <2>2, <3>2 DEF inbound, outbound
    <3>4. Ascend(inbound, << >>, base, Sent)
      <4> HIDE DEF base
      <4> QED
        BY <1>1, <1>4, AscendNoFrames
    <3> QED
      BY <2>2, <3>2, <3>3, <3>4 DEF Held
  <2> QED
    BY <1>1, <2>1, <2>2
<1> HIDE DEF told, lost, answer
<1>8. Types'
  BY <1>1, <1>3, <1>7 DEF IInv, Types
<1>9. OnTheirWay'
  BY <1>6, <1>7 DEF OnTheirWay
<1>10. AboveAnswered'
  <2> SUFFICES ASSUME NEW r \in Answered
               PROVE  /\ \A i \in 1..Len(inbound') : result[r].from < inbound'[i].from
                      /\ \A i \in 1..Len(outbound') : result[r].from < outbound'[i]
    BY <1>1, <1>5 DEF AboveAnswered
  <2>1. /\ \A i \in 1..Len(inbound) : result[r].from < inbound[i].from
        /\ \A i \in 1..Len(outbound) : result[r].from < outbound[i]
    BY <1>1 DEF IInv, AboveAnswered
  <2> HIDE DEF f
  <2> QED
    BY <1>2, <1>7, <2>1
<1>11. Decided'
  <2> SUFFICES ASSUME NEW i \in 1..Len(inbound')
               PROVE  verdict'[inbound'[i].from] = inbound'[i].status
    BY DEF Decided
  <2>1. CASE inbound'[i].from = f /\ inbound'[i].status = status
    BY <1>3, <2>1
  <2>2. CASE i \in 1..Len(inbound) /\ inbound'[i] = inbound[i]
    <3>1. inbound[i].from < f /\ f \in Nat
      BY SMTT(40), <1>2, <1>4, <2>2, RequestAssumption
         DEF Ascend, Frames, Requests, Login, RequestAssumption
    <3>2. inbound[i].from # f
      BY <3>1
    <3> QED
      BY <1>1, <1>3, <2>2, <3>2 DEF IInv, Decided
  <2> QED
    BY <1>7, <2>1, <2>2
<1>12. Unheard'
  <2> SUFFICES ASSUME NEW g \in abandoned
               PROVE  /\ \A i \in 1..Len(inbound') : inbound'[i].from # g
                      /\ \A i \in 1..Len(outbound') : outbound'[i] # g
    BY <1>1, <1>5 DEF IInv, Unheard
  <2>1. /\ \A i \in 1..Len(inbound) : inbound[i].from # g
        /\ \A i \in 1..Len(outbound) : outbound[i] # g
    BY <1>1 DEF IInv, Unheard
  <2> HIDE DEF f
  <2> QED
    BY <1>2, <1>7, <2>1
<1>13. LoginIsFirst'
  BY <1>1, <1>5, <1>7 DEF IInv, LoginIsFirst
<1> QED
  BY <1>5, <1>8, <1>9, <1>10, <1>11, <1>12, <1>13 DEF IInv
-----------------------------------------------------------------------------
LEMMA StepInv == IInv /\ [Next]_vars => IInv'
<1> SUFFICES ASSUME IInv, [Next]_vars PROVE IInv'
  OBVIOUS
<1>1. CASE UNCHANGED vars
  <2>1. inbound' = inbound /\ outbound' = outbound /\ Held' = Held
    BY <1>1 DEF vars, inbound, outbound, Held
  <2>2. Types' /\ Sent' = Sent
    BY <1>1, <2>1 DEF IInv, Types, Sent, vars
  <2>3. AboveAnswered' /\ Decided' /\ Unheard' /\ AnswersAreReal' /\ Answered' = Answered
    BY <1>1, <2>1, NothingNew DEF vars
  <2> QED
    BY <1>1, <2>1, <2>2, <2>3 DEF IInv, OnTheirWay, LoginIsFirst, LoginFrames, vars
<1>2. CASE Reuse \/ Connect \/ ConnectFails
  BY <1>2, ReuseStep, ConnectStep, ConnectFailsStep
<1>3. CASE ReadLogin \/ Send \/ ReadResponse
  BY <1>3, ReadLoginStep, SendStep, ReadResponseStep
<1>4. CASE LoginFails \/ SendFails \/ ReadNothing
  BY <1>4, GiveUpStep
<1>5. CASE SocketOpens \/ SocketEnds \/ TokenExpires
  BY <1>5, SocketOpensStep, SocketEndsStep, TokenExpiresStep
<1>6. ASSUME NEW status \in {"accepted", "rejected"}, VenueAnswers(status)
      PROVE  IInv'
  BY <1>6, VenueAnswersStep
<1>7. ASSUME NEW status \in {"accepted", "rejected"}, NEW f \in abandoned, VenueDecidesUnheard(f, status)
      PROVE  IInv'
  BY <1>7, VenueDecidesUnheardStep
<1> QED
  BY <1>1, <1>2, <1>3, <1>4, <1>5, <1>6, <1>7 DEF Next

LEMMA CallsAreSound == Spec => []IInv
BY InitInv, StepInv, PTL DEF Spec

(***************************************************************************)
(* The state of the calls has its types: one result for each call that     *)
(* returned, and a token held only with a connection (kraken.rs).          *)
(***************************************************************************)
THEOREM TypeCorrect == Spec => []TypeOK
<1>1. IInv => TypeOK
  <2> SUFFICES ASSUME IInv PROVE TypeOK
    OBVIOUS
  <2>1. Held => /\ ws_api_connection.reader \in {"opening", "up", "ended"}
                /\ ws_api_connection.outbound \in Seq(Frames)
                /\ ws_api_connection.inbound \in Seq(Answer)
    BY Typing DEF IInv, Link
  <2> QED
    BY <2>1 DEF IInv, Types, TypeOK
<1> QED
  BY <1>1, CallsAreSound, PTL

(***************************************************************************)
(* Whatever the sockets and the venue do, an answer that the caller of     *)
(* `place_order_ws` or `cancel_order_ws` gets is the venue's verdict on a  *)
(* frame sent no later than its own, none is given twice or out of order,  *)
(* and it is as many calls late as gave up before, or one more.            *)
(***************************************************************************)
THEOREM WsAnswersAreReal == Spec => []AnswersAreReal
BY CallsAreSound, PTL DEF IInv

-----------------------------------------------------------------------------

(***************************************************************************)
(* Batches of orders, for any number of concurrent calls, any batches and  *)
(* any of the venues' profiles: the result that a call gives of an order   *)
(* is that order's own outcome.                                            *)
(*                                                                         *)
(* That is not inductive: it says nothing of the request that a call waits *)
(* for, nor of those it has given up and that still travel.  The invariant *)
(* adds that an order is at the venue or travels only while its call waits *)
(* for it, or once something was told of it or the call gave up (Quiet);   *)
(* that of the orders waited for nothing travels once the answer is there, *)
(* which says which were created (Pending); and, for the client that looks *)
(* answers up by client id, whose ids its orders carry (IdsFit).           *)
(***************************************************************************)

Ids == Names \union Nat \union {NoName}

Replies ==
  {NoReply, [verdict |-> "refused"]} \union [verdict : {"elements"}, accepted : SUBSET Nat]

BatchTypes ==
  /\ profile \in Profiles
  /\ counter \in Nat
  /\ stage \in [Calls -> {"idle", "building", "sent", "done"}]
  /\ batch \in [Calls -> Batches \union {<< >>}]
  /\ ids \in [Calls -> Seq(Ids)]
  /\ reply \in [Calls -> Replies]
  /\ outer \in [Calls -> {"none", "ok", "refused", "unknown"}]
  /\ results \in [Calls -> Seq({"ok", "rejected", "unknown"})]
  /\ frames \subseteq [call : Calls, slots : SUBSET Nat]

\* How far a call is: what it has built, told and returned.
Progress(c) ==
  /\ stage[c] = "idle" => /\ batch[c] = << >> /\ ids[c] = << >>
                       /\ results[c] = << >> /\ outer[c] = "none"
  /\ stage[c] # "idle" => batch[c] \in Batches
  /\ stage[c] \in {"building", "sent"} =>
       /\ outer[c] = "none"
       /\ Len(results[c]) < Len(batch[c])
       /\ profile.one_call => results[c] = << >>
       /\ ~profile.one_call => Len(ids[c]) \in {Len(results[c]), Len(results[c]) + 1}
  /\ stage[c] = "sent" => Complete(c)
  /\ Len(ids[c]) <= Len(batch[c]) /\ Len(results[c]) <= Len(ids[c])

IdsFit(c) ==
  \A i \in DOMAIN ids[c] :
    /\ ids[c][i] \in Nat => ids[c][i] < counter
    /\ profile.one_call =>
         IF batch[c][i].name = NoName THEN ids[c][i] \notin Names ELSE ids[c][i] = batch[c][i].name

FramesFit(c) ==
  \A f \in frames : f.call = c =>
    /\ stage[c] # "idle"
    /\ IF profile.one_call THEN f.slots = Slots(c) ELSE \E k \in Nat : f.slots = {k}

Quiet(c) ==
  \A i : Created(c, i) \/ Travels(c, i) =>
    (stage[c] = "sent" /\ i \in Carried(c)) \/ i \in DOMAIN results[c] \/ outer[c] = "unknown"

Pending(c) ==
  stage[c] = "sent" => \A i \in Carried(c) :
    /\ reply[c].verdict = "none" => ~Created(c, i)
    /\ reply[c].verdict = "refused" => Denied(c, i)
    /\ reply[c].verdict = "elements" => /\ ~Travels(c, i)
                                        /\ Created(c, i) <=> i \in reply[c].accepted

AcceptedCarried(c) ==
  stage[c] = "sent" /\ reply[c].verdict = "elements" => reply[c].accepted \subseteq Carried(c)

ResultsTrue(c) ==
  /\ \A i \in DOMAIN results[c] :
       /\ results[c][i] = "ok" => Placed(c, i)
       /\ results[c][i] = "rejected" /\ (profile.keyed => i \notin Unnamed(c)) => Denied(c, i)
  /\ outer[c] = "refused" => \A i \in Slots(c) : Denied(c, i)

CallInv(c) ==
  /\ Progress(c) /\ IdsFit(c) /\ FramesFit(c) /\ Quiet(c)
  /\ Pending(c) /\ AcceptedCarried(c) /\ ResultsTrue(c)

BatchInv == BatchTypes /\ \A c \in Calls : CallInv(c)
-----------------------------------------------------------------------------
LEMMA CallTypes ==
  ASSUME BatchTypes, NEW c \in Calls
  PROVE  /\ batch[c] \in Seq(Request) /\ Len(batch[c]) \in Nat /\ Slots(c) = 1..Len(batch[c])
         /\ ids[c] \in Seq(Ids) /\ Len(ids[c]) \in Nat /\ DOMAIN ids[c] = 1..Len(ids[c])
         /\ results[c] \in Seq({"ok", "rejected", "unknown"})
         /\ Len(results[c]) \in Nat /\ DOMAIN results[c] = 1..Len(results[c])
         /\ reply[c] \in Replies
         /\ profile.one_call \in BOOLEAN /\ profile.generates \in BOOLEAN /\ profile.keyed \in BOOLEAN
         /\ profile.keyed => profile.one_call /\ profile.generates
<1>1. batch[c] \in Seq(Request)
  <2>1. batch[c] \in Batches \union {<< >>}
    BY DEF BatchTypes
  <2>2. Batches \subseteq Seq(Request)
    BY BatchAssumption, Zenon
  <2>3. << >> \in Seq(Request)
    OBVIOUS
  <2> QED
    BY <2>1, <2>2, <2>3, Zenon
<1>2. ids[c] \in Seq(Ids) /\ results[c] \in Seq({"ok", "rejected", "unknown"}) /\ reply[c] \in Replies
  BY DEF BatchTypes
<1>3. profile \in Profiles
  BY DEF BatchTypes
<1>4. /\ profile.one_call \in BOOLEAN /\ profile.generates \in BOOLEAN /\ profile.keyed \in BOOLEAN
      /\ profile.keyed => profile.one_call /\ profile.generates
  BY <1>3, BatchAssumption
<1> QED
  BY <1>1, <1>2, <1>4 DEF Slots

\* An order that was placed stays placed.
LEMMA PlacedStays ==
  ASSUME NEW c \in Calls, profile' = profile, batch'[c] = batch[c],
         \A i : Created(c, i) => Created(c, i)'
  PROVE  \A i : Placed(c, i) => Placed(c, i)'
<1>1. \A i : Namesakes(c, i)' = Namesakes(c, i)
  BY DEF Namesakes, Slots, Unnamed
<1> QED
  BY <1>1 DEF Placed

LEMMA CreatedIsPlaced == ASSUME NEW c \in Calls PROVE \A i : Created(c, i) => Placed(c, i)
  BY DEF Placed, Namesakes

\* A step of one call changes nothing of the others.
LEMMA OthersKeep ==
  ASSUME BatchInv, NEW c \in Calls, BatchTypes', CallInv(c)',
         profile' = profile, counter <= counter',
         \A d \in Calls \ {c} :
           /\ stage'[d] = stage[d] /\ batch'[d] = batch[d] /\ ids'[d] = ids[d] /\ reply'[d] = reply[d]
           /\ outer'[d] = outer[d] /\ results'[d] = results[d],
         \A f : f.call # c => (f \in frames' <=> f \in frames),
         \A o : o.call # c => (o \in orders' <=> o \in orders)
  PROVE  BatchInv'
<1> SUFFICES ASSUME NEW d \in Calls, d # c
             PROVE  CallInv(d)'
  BY DEF BatchInv
<1>1. /\ stage'[d] = stage[d] /\ batch'[d] = batch[d] /\ ids'[d] = ids[d] /\ reply'[d] = reply[d]
      /\ outer'[d] = outer[d] /\ results'[d] = results[d]
  OBVIOUS
<1>2. CallInv(d) /\ BatchTypes
  BY DEF BatchInv
<1>3. \A i : (Created(d, i)' <=> Created(d, i)) /\ (Travels(d, i)' <=> Travels(d, i))
  BY DEF Created, Travels
<1>4. Carried(d)' = Carried(d) /\ Slots(d)' = Slots(d) /\ Complete(d)' = Complete(d) /\ Unnamed(d)' = Unnamed(d)
  BY <1>1 DEF Carried, Slots, Complete, Unnamed
<1>5. Progress(d)'
  BY <1>1, <1>2, <1>4 DEF CallInv, Progress
<1>6. IdsFit(d)'
  <2>1. \A i \in DOMAIN ids[d] : ids[d][i] \in Nat /\ ids[d][i] < counter => ids[d][i] < counter'
    BY <1>2 DEF BatchTypes
  <2> QED
    BY <1>1, <1>2, <2>1 DEF CallInv, IdsFit
<1>7. FramesFit(d)'
  BY <1>1, <1>2, <1>4 DEF CallInv, FramesFit
<1>8. Quiet(d)'
  BY <1>1, <1>2, <1>3, <1>4 DEF CallInv, Quiet
<1>9. Pending(d)'
  BY <1>1, <1>2, <1>3, <1>4 DEF CallInv, Pending, Denied
<1>10. AcceptedCarried(d)'
  BY <1>1, <1>2, <1>4 DEF CallInv, AcceptedCarried
<1>11. ResultsTrue(d)'
  <2>1. \A i : Placed(d, i) => Placed(d, i)'
    BY <1>1, <1>3, PlacedStays
  <2> QED
    BY <1>1, <1>2, <1>3, <1>4, <2>1 DEF CallInv, ResultsTrue, Denied
<1> QED
  BY <1>5, <1>6, <1>7, <1>8, <1>9, <1>10, <1>11 DEF CallInv

LEMMA InitBatchInv == BatchInit => BatchInv
<1> SUFFICES ASSUME BatchInit
             PROVE  BatchInv
  OBVIOUS
<1>1. BatchTypes
  <2>1. << >> \in Seq(Ids) /\ << >> \in Seq({"ok", "rejected", "unknown"})
    OBVIOUS
  <2> QED
    BY <2>1 DEF BatchInit, BatchTypes, Replies
<1>2. ASSUME NEW c \in Calls
      PROVE  CallInv(c)
  <2>1. /\ stage[c] = "idle" /\ batch[c] = << >> /\ ids[c] = << >> /\ results[c] = << >> /\ outer[c] = "none"
        /\ frames = {} /\ orders = {}
    BY DEF BatchInit
  <2>2. \A i : ~Created(c, i) /\ ~Travels(c, i)
    BY <2>1 DEF Created, Travels
  <2>3. Progress(c) /\ IdsFit(c) /\ FramesFit(c)
    BY <2>1 DEF Progress, IdsFit, FramesFit
  <2>4. Quiet(c) /\ Pending(c) /\ AcceptedCarried(c) /\ ResultsTrue(c)
    BY <2>1, <2>2 DEF Quiet, Pending, AcceptedCarried, ResultsTrue
  <2> QED
    BY <2>3, <2>4 DEF CallInv
<1> QED
  BY <1>1, <1>2 DEF BatchInv
-----------------------------------------------------------------------------
\* The client's steps.
LEMMA PlaceBatchKeeps ==
  ASSUME BatchInv, NEW c \in Calls, NEW b \in Batches, PlaceBatch(c, b)
  PROVE  BatchInv'
<1>1. BatchTypes /\ CallInv(c) /\ stage[c] = "idle"
  BY DEF BatchInv, PlaceBatch
<1>2. /\ ids[c] = << >> /\ results[c] = << >> /\ outer[c] = "none"
      /\ \A i : ~Created(c, i) /\ ~Travels(c, i)
  BY <1>1 DEF CallInv, Progress, Quiet
<1>3. \A f \in frames : f.call # c
  BY <1>1 DEF CallInv, FramesFit
<1>4. /\ batch'[c] = b /\ ids'[c] = << >> /\ results'[c] = << >>
      /\ stage'[c] = IF Refuses(b) THEN "done" ELSE "building"
      /\ outer'[c] = IF Refuses(b) THEN "refused" ELSE "none"
      /\ profile' = profile /\ counter' = counter /\ frames' = frames /\ orders' = orders
  BY <1>1, <1>2 DEF PlaceBatch, BatchTypes
<1>5. BatchTypes'
  BY <1>1 DEF PlaceBatch, BatchTypes
<1>6. Len(b) \in Nat /\ Len(b) > 0
  <2>1. b \in Seq(Request) /\ b # << >>
    BY BatchAssumption, Zenon
  <2> QED
    BY <2>1
<1>7. \A i : ~Created(c, i)' /\ ~Travels(c, i)'
  BY <1>2, <1>4 DEF Created, Travels
<1>8. Progress(c)'
  BY <1>4, <1>6 DEF Progress
<1>9. IdsFit(c)' /\ FramesFit(c)' /\ Quiet(c)' /\ Pending(c)' /\ AcceptedCarried(c)' /\ ResultsTrue(c)'
  BY <1>3, <1>4, <1>7 DEF IdsFit, FramesFit, Quiet, Pending, AcceptedCarried, ResultsTrue, Denied
<1>10. CallInv(c)'
  BY <1>8, <1>9 DEF CallInv
<1>11. \A d \in Calls \ {c} :
         /\ stage'[d] = stage[d] /\ batch'[d] = batch[d] /\ ids'[d] = ids[d] /\ reply'[d] = reply[d]
         /\ outer'[d] = outer[d] /\ results'[d] = results[d]
  BY <1>1 DEF PlaceBatch, BatchTypes
<1>12. counter <= counter'
  BY <1>1, <1>4 DEF BatchTypes
<1> QED
  BY <1>4, <1>5, <1>10, <1>11, <1>12, OthersKeep

LEMMA BuildOrderKeeps ==
  ASSUME BatchInv, NEW c \in Calls, BuildOrder(c)
  PROVE  BatchInv'
<1> DEFINE n == Len(ids[c])
<1>1. BatchTypes /\ CallInv(c) /\ stage[c] = "building" /\ ~Complete(c)
  BY DEF BatchInv, BuildOrder
<1>2. /\ batch[c] \in Seq(Request) /\ ids[c] \in Seq(Ids) /\ n \in Nat /\ Len(batch[c]) \in Nat
      /\ Len(results[c]) \in Nat /\ DOMAIN ids[c] = 1..n /\ counter \in Nat
      /\ profile.one_call \in BOOLEAN
  BY <1>1, CallTypes DEF BatchTypes
<1>3. /\ n < Len(batch[c])
      /\ ~profile.one_call => n = Len(results[c])
  BY <1>1, <1>2 DEF CallInv, Progress, Complete
<1>4. Following(c) \in Request /\ Following(c) = batch[c][n + 1]
  BY <1>2, <1>3 DEF Following
<1>5. /\ ClientId(c) \in Ids
      /\ ClientId(c) \in Nat => Draws(Following(c)) /\ ClientId(c) = counter
      /\ IF Following(c).name = NoName THEN ClientId(c) \notin Names ELSE ClientId(c) = Following(c).name
  BY <1>2, <1>4, BatchAssumption DEF ClientId, Draws, Request, Ids
<1>6. /\ ids'[c] = Append(ids[c], ClientId(c)) /\ ids' \in [Calls -> Seq(Ids)]
      /\ counter' = IF Draws(Following(c)) THEN counter + 1 ELSE counter
      /\ profile' = profile /\ batch' = batch /\ stage' = stage /\ results' = results /\ outer' = outer
      /\ frames' = frames /\ orders' = orders /\ reply' = reply
  BY <1>1, <1>2, <1>5 DEF BuildOrder, BatchTypes
<1>7. BatchTypes'
  BY <1>1, <1>2, <1>5, <1>6 DEF BuildOrder, BatchTypes
<1>8. /\ Len(ids'[c]) = n + 1 /\ DOMAIN ids'[c] = 1..(n + 1)
      /\ ids'[c][n + 1] = ClientId(c) /\ \A i \in 1..n : ids'[c][i] = ids[c][i]
  BY <1>2, <1>5, <1>6
<1>9. \A i : (Created(c, i)' <=> Created(c, i)) /\ (Travels(c, i)' <=> Travels(c, i))
  BY <1>6 DEF Created, Travels
<1>10. Progress(c)'
  <2>1. stage'[c] = "building" /\ batch'[c] = batch[c] /\ results'[c] = results[c] /\ outer'[c] = outer[c]
    BY <1>1, <1>6
  <2>2. /\ batch[c] \in Batches /\ outer[c] = "none" /\ Len(results[c]) < Len(batch[c])
        /\ profile.one_call => results[c] = << >>
        /\ Len(results[c]) <= n
    BY <1>1 DEF CallInv, Progress
  <2>3. Len(ids'[c]) <= Len(batch[c]) /\ Len(results[c]) <= Len(ids'[c])
    BY <1>2, <1>3, <1>8, <2>2
  <2> QED
    BY <1>3, <1>6, <1>8, <2>1, <2>2, <2>3 DEF Progress
<1>11. IdsFit(c)'
  <2> SUFFICES ASSUME NEW i \in 1..(n + 1)
               PROVE  /\ ids'[c][i] \in Nat => ids'[c][i] < counter'
                      /\ profile.one_call => IF batch[c][i].name = NoName THEN ids'[c][i] \notin Names
                                                                      ELSE ids'[c][i] = batch[c][i].name
    BY <1>6, <1>8 DEF IdsFit
  <2>1. CASE i = n + 1
    BY <2>1, <1>2, <1>4, <1>5, <1>6, <1>8
  <2>2. CASE i \in 1..n
    <3>1. /\ ids[c][i] \in Nat => ids[c][i] < counter
          /\ profile.one_call => IF batch[c][i].name = NoName THEN ids[c][i] \notin Names
                                                          ELSE ids[c][i] = batch[c][i].name
      BY <2>2, <1>1, <1>2 DEF CallInv, IdsFit
    <3>2. ids'[c][i] = ids[c][i] /\ counter <= counter' /\ counter' \in Nat
      BY <2>2, <1>2, <1>6, <1>8
    <3> QED
      BY <3>1, <3>2, <1>2
  <2> QED
    BY <2>1, <2>2, <1>2
<1>12. FramesFit(c)' /\ Quiet(c)' /\ Pending(c)' /\ AcceptedCarried(c)' /\ ResultsTrue(c)'
  <2>1. \A i : Placed(c, i) => Placed(c, i)'
    BY <1>6, <1>9, PlacedStays
  <2> QED
    BY <1>1, <1>6, <1>9, <2>1
    DEF CallInv, FramesFit, Quiet, Pending, AcceptedCarried, ResultsTrue, Denied, Slots, Unnamed, Carried
<1>13. CallInv(c)'
  BY <1>10, <1>11, <1>12 DEF CallInv
<1>14. \A d \in Calls \ {c} : ids'[d] = ids[d]
  BY <1>1 DEF BuildOrder, BatchTypes
<1>15. counter <= counter'
  BY <1>2, <1>6
<1> QED
  BY <1>6, <1>7, <1>13, <1>14, <1>15, OthersKeep

LEMMA SendKeeps ==
  ASSUME BatchInv, NEW c \in Calls, SendRequest(c)
  PROVE  BatchInv'
<1>1. BatchTypes /\ CallInv(c) /\ stage[c] = "building" /\ Complete(c)
  BY DEF BatchInv, SendRequest
<1>2. /\ Slots(c) = 1..Len(batch[c]) /\ Len(batch[c]) \in Nat
      /\ Len(results[c]) \in Nat /\ DOMAIN results[c] = 1..Len(results[c])
      /\ profile.one_call \in BOOLEAN
  BY <1>1, CallTypes
<1>3. /\ batch[c] \in Batches /\ outer[c] = "none"
      /\ profile.one_call => results[c] = << >>
      /\ \A i \in Carried(c) : i \notin DOMAIN results[c]
  BY <1>1, <1>2 DEF CallInv, Progress, Carried
<1>4. \A i \in Carried(c) : ~Created(c, i) /\ ~Travels(c, i)
  BY <1>1, <1>3 DEF CallInv, Quiet
<1>5. /\ frames' = frames \union {[call |-> c, slots |-> Carried(c)]}
      /\ stage'[c] = "sent" /\ reply'[c] = NoReply
      /\ profile' = profile /\ counter' = counter /\ batch' = batch /\ ids' = ids
      /\ orders' = orders /\ outer' = outer /\ results' = results
  BY <1>1 DEF SendRequest, BatchTypes
<1>6. Carried(c) \subseteq Nat /\ (~profile.one_call => \E k \in Nat : Carried(c) = {k})
  <2>1. CASE profile.one_call
    BY <1>2, <2>1 DEF Carried
  <2>2. CASE ~profile.one_call
    <3>1. Carried(c) = {Len(results[c]) + 1} /\ Len(results[c]) + 1 \in Nat
      BY <1>2, <2>2 DEF Carried
    <3> QED
      BY <2>2, <3>1
  <2> QED
    BY <2>1, <2>2
<1>7. BatchTypes'
  BY <1>1, <1>5, <1>6 DEF SendRequest, BatchTypes, Replies
<1>8. \A i : /\ Created(c, i)' <=> Created(c, i)
             /\ Travels(c, i)' <=> Travels(c, i) \/ i \in Carried(c)
  <2> DEFINE f == [call |-> c, slots |-> Carried(c)]
  <2>1. f.call = c /\ f.slots = Carried(c) /\ frames' = frames \union {f}
    BY <1>5
  <2> HIDE DEF f
  <2>2. TAKE i
  <2>3. Created(c, i)' <=> Created(c, i)
    BY <1>5 DEF Created
  <2>4. Travels(c, i)' <=> Travels(c, i) \/ i \in Carried(c)
    BY <2>1 DEF Travels
  <2> QED
    BY <2>3, <2>4
<1>9. Carried(c)' = Carried(c) /\ Slots(c)' = Slots(c) /\ Unnamed(c)' = Unnamed(c)
  BY <1>5 DEF Carried, Slots, Unnamed
<1>10. Progress(c)'
  BY <1>1, <1>5 DEF CallInv, Progress, Complete
<1>11. IdsFit(c)'
  BY <1>1, <1>5 DEF CallInv, IdsFit
<1>12. FramesFit(c)'
  BY <1>1, <1>5, <1>6, <1>9 DEF CallInv, FramesFit, Carried
<1>13. Quiet(c)'
  BY <1>1, <1>5, <1>8, <1>9 DEF CallInv, Quiet
<1>14. Pending(c)' /\ AcceptedCarried(c)'
  BY <1>4, <1>5, <1>8, <1>9 DEF Pending, AcceptedCarried, NoReply
<1>15. ResultsTrue(c)'
  <2>1. \A i : Placed(c, i) => Placed(c, i)'
    BY <1>5, <1>8, PlacedStays
  <2> QED
    BY <1>1, <1>3, <1>5, <1>8, <1>9, <2>1 DEF CallInv, ResultsTrue, Denied
<1>16. CallInv(c)'
  BY <1>10, <1>11, <1>12, <1>13, <1>14, <1>15 DEF CallInv
<1>17. \A d \in Calls \ {c} : stage'[d] = stage[d] /\ reply'[d] = reply[d]
  BY <1>1 DEF SendRequest, BatchTypes
<1>18. counter <= counter'
  BY <1>1, <1>5 DEF BatchTypes
<1> QED
  BY <1>5, <1>7, <1>16, <1>17, <1>18, OthersKeep

\* Orders placed one by one: the call tells of the next of them.
LEMMA TellOneKeeps ==
  ASSUME BatchInv, NEW c \in Calls, NEW v \in {"ok", "rejected", "unknown"},
         ~profile.one_call, stage[c] \in {"building", "sent"},
         Tell(c, Append(results[c], v)),
         UNCHANGED <<profile, counter, batch, frames, reply, orders>>,
         ids' \in [Calls -> Seq(Ids)], \A d \in Calls \ {c} : ids'[d] = ids[d],
         Len(ids'[c]) = Len(results[c]) + 1,
         \A i \in DOMAIN ids'[c] : ids'[c][i] \in Nat => ids'[c][i] < counter,
         v = "ok" => Created(c, Len(results[c]) + 1),
         v = "rejected" => Denied(c, Len(results[c]) + 1)
  PROVE  BatchInv'
<1> DEFINE n == Len(results[c])
           told == Append(results[c], v)
<1>1. BatchTypes /\ CallInv(c)
  BY DEF BatchInv
<1>2. /\ results[c] \in Seq({"ok", "rejected", "unknown"}) /\ n \in Nat /\ DOMAIN results[c] = 1..n
      /\ Len(batch[c]) \in Nat /\ counter \in Nat /\ (profile.keyed => profile.one_call)
  BY <1>1, CallTypes DEF BatchTypes
<1>3. /\ told \in Seq({"ok", "rejected", "unknown"})
      /\ Len(told) = n + 1 /\ DOMAIN told = 1..(n + 1)
      /\ told[n + 1] = v /\ \A i \in 1..n : told[i] = results[c][i]
  BY <1>2
<1>4. batch[c] \in Batches /\ outer[c] = "none" /\ n < Len(batch[c])
  BY <1>1 DEF CallInv, Progress
<1> HIDE DEF told
<1>5. /\ results'[c] = told /\ results' \in [Calls -> Seq({"ok", "rejected", "unknown"})]
      /\ stage' = [stage EXCEPT ![c] = IF Finished(c, told) THEN "done" ELSE "building"]
      /\ outer' = [outer EXCEPT ![c] = IF Finished(c, told) THEN "ok" ELSE "none"]
      /\ \A d \in Calls \ {c} : results'[d] = results[d]
  BY <1>1, <1>3 DEF Tell, BatchTypes, told
<1>6. /\ stage'[c] = IF n + 1 = Len(batch[c]) THEN "done" ELSE "building"
      /\ outer'[c] = IF n + 1 = Len(batch[c]) THEN "ok" ELSE "none"
      /\ \A d \in Calls \ {c} : stage'[d] = stage[d] /\ outer'[d] = outer[d]
  BY <1>1, <1>3, <1>5 DEF BatchTypes, Finished
<1>7. BatchTypes'
  BY <1>1, <1>5 DEF BatchTypes
<1>8. \A i : (Created(c, i)' <=> Created(c, i)) /\ (Travels(c, i)' <=> Travels(c, i))
  BY DEF Created, Travels
<1>9. Progress(c)'
  BY <1>2, <1>3, <1>4, <1>5, <1>6 DEF Progress
<1>10. IdsFit(c)'
  BY DEF IdsFit
<1>11. FramesFit(c)'
  BY <1>1, <1>6 DEF CallInv, FramesFit
<1>12. Quiet(c)'
  <2>1. \A i : Created(c, i) \/ Travels(c, i) => i \in 1..(n + 1)
    BY <1>1, <1>2, <1>4 DEF CallInv, Quiet, Carried
  <2> QED
    BY <2>1, <1>3, <1>5, <1>8 DEF Quiet
<1>13. Pending(c)' /\ AcceptedCarried(c)'
  BY <1>6 DEF Pending, AcceptedCarried
<1>14. ResultsTrue(c)'
  <2>1. \A i \in 1..n : /\ results[c][i] = "ok" => Placed(c, i)
                        /\ results[c][i] = "rejected" => Denied(c, i)
    BY <1>1, <1>2 DEF CallInv, ResultsTrue
  <2>2. \A i \in 1..(n + 1) : /\ told[i] = "ok" => Placed(c, i)
                              /\ told[i] = "rejected" => Denied(c, i)
    <3>1. /\ told[n + 1] = "ok" => Placed(c, n + 1)
          /\ told[n + 1] = "rejected" => Denied(c, n + 1)
      BY <1>3, CreatedIsPlaced
    <3>2. \A i \in 1..(n + 1) : i = n + 1 \/ i \in 1..n
      BY <1>2
    <3> QED
      BY <2>1, <3>1, <3>2, <1>3, Zenon
  <2>3. \A i : Placed(c, i) => Placed(c, i)'
    BY <1>8, PlacedStays
  <2> QED
    BY <2>2, <2>3, <1>3, <1>5, <1>6, <1>8 DEF ResultsTrue, Denied
<1>15. CallInv(c)'
  BY <1>9, <1>10, <1>11, <1>12, <1>13, <1>14 DEF CallInv
<1>16. profile' = profile /\ counter <= counter'
  BY <1>2
<1> QED
  BY <1>5, <1>6, <1>7, <1>15, <1>16, OthersKeep

LEMMA SkipInvalidKeeps ==
  ASSUME BatchInv, NEW c \in Calls, SkipInvalid(c)
  PROVE  BatchInv'
<1> DEFINE n == Len(results[c])
<1>1. BatchTypes /\ CallInv(c) /\ stage[c] = "building" /\ ~Complete(c) /\ ~profile.one_call
  BY DEF BatchInv, SkipInvalid
<1>2. /\ ids[c] \in Seq(Ids) /\ Len(ids[c]) \in Nat /\ DOMAIN ids[c] = 1..Len(ids[c])
      /\ n \in Nat /\ DOMAIN results[c] = 1..n
  BY <1>1, CallTypes
<1>3. Len(ids[c]) = n /\ outer[c] = "none"
  BY <1>1, <1>2 DEF CallInv, Progress, Complete
<1>4. NoName \in Ids /\ NoName \notin Nat
  BY BatchAssumption DEF Ids
<1>5. /\ ids' \in [Calls -> Seq(Ids)] /\ ids'[c] = Append(ids[c], NoName)
      /\ \A d \in Calls \ {c} : ids'[d] = ids[d]
  BY <1>1, <1>2, <1>4 DEF SkipInvalid, BatchTypes
<1>6. Len(ids'[c]) = n + 1
  BY <1>2, <1>3, <1>4, <1>5
<1>7. \A i \in DOMAIN ids'[c] : ids'[c][i] \in Nat => ids'[c][i] < counter
  BY <1>1, <1>2, <1>4, <1>5 DEF CallInv, IdsFit
<1>8. Denied(c, n + 1)
  BY <1>1, <1>2, <1>3 DEF CallInv, Quiet, Denied
<1>9. Tell(c, Append(results[c], "rejected")) /\ UNCHANGED <<profile, counter, batch, frames, reply, orders>>
  BY DEF SkipInvalid
<1> QED
  BY <1>1, <1>5, <1>6, <1>7, <1>8, <1>9, TellOneKeeps

\* Orders placed in one request: the call fails as a whole.
LEMMA FailKeeps ==
  ASSUME BatchInv, NEW c \in Calls, NEW v \in {"refused", "unknown"},
         profile.one_call, stage[c] = "sent", Fail(c, v),
         UNCHANGED <<profile, counter, batch, ids, frames, reply, orders>>,
         v = "refused" => \A i \in Slots(c) : Denied(c, i)
  PROVE  BatchInv'
<1>1. BatchTypes /\ CallInv(c)
  BY DEF BatchInv
<1>2. results[c] = << >> /\ outer[c] = "none" /\ batch[c] \in Batches
  BY <1>1 DEF CallInv, Progress
<1>3. /\ stage' = [stage EXCEPT ![c] = "done"] /\ outer' = [outer EXCEPT ![c] = v] /\ results' = results
      /\ stage'[c] = "done" /\ outer'[c] = v
      /\ \A d \in Calls \ {c} : stage'[d] = stage[d] /\ outer'[d] = outer[d]
  BY <1>1 DEF Fail, BatchTypes
<1>4. BatchTypes'
  BY <1>1, <1>3 DEF BatchTypes
<1>5. \A i : (Created(c, i)' <=> Created(c, i)) /\ (Travels(c, i)' <=> Travels(c, i))
  BY DEF Created, Travels
<1>6. Progress(c)' /\ IdsFit(c)' /\ FramesFit(c)'
  BY <1>1, <1>2, <1>3 DEF CallInv, Progress, IdsFit, FramesFit, Slots
<1>7. Quiet(c)'
  <2>1. v = "refused" => \A i : ~Created(c, i) /\ ~Travels(c, i)
    BY <1>1, <1>2 DEF CallInv, Quiet, Carried, Denied
  <2> QED
    BY <2>1, <1>3, <1>5 DEF Quiet
<1>8. Pending(c)' /\ AcceptedCarried(c)'
  BY <1>3 DEF Pending, AcceptedCarried
<1>9. ResultsTrue(c)'
  BY <1>2, <1>3, <1>5 DEF ResultsTrue, Denied, Slots
<1>10. CallInv(c)'
  BY <1>6, <1>7, <1>8, <1>9 DEF CallInv
<1>11. counter <= counter'
  BY <1>1 DEF BatchTypes
<1> QED
  BY <1>3, <1>4, <1>10, <1>11, OthersKeep

\* The order that comes next, when they are placed one by one.
LEMMA NextOfMany ==
  ASSUME BatchInv, NEW c \in Calls, stage[c] = "sent", ~profile.one_call
  PROVE  /\ Len(results[c]) \in Nat /\ Len(ids[c]) = Len(results[c]) + 1
         /\ Carried(c) = {Len(results[c]) + 1} /\ ~profile.keyed
         /\ ids \in [Calls -> Seq(Ids)]
         /\ \A i \in DOMAIN ids[c] : ids[c][i] \in Nat => ids[c][i] < counter
<1>1. BatchTypes /\ CallInv(c)
  BY DEF BatchInv
<1> QED
  BY <1>1, CallTypes DEF CallInv, Progress, Complete, Carried, IdsFit, BatchTypes

LEMMA GiveUpKeeps ==
  ASSUME BatchInv, NEW c \in Calls, GiveUp(c)
  PROVE  BatchInv'
<1>1. stage[c] = "sent" /\ UNCHANGED <<profile, counter, batch, ids, frames, reply, orders>>
  BY DEF GiveUp
<1>2. CASE profile.one_call
  BY <1>1, <1>2, FailKeeps DEF GiveUp
<1>3. CASE ~profile.one_call
  <2>1. Tell(c, Append(results[c], "unknown"))
    BY <1>3 DEF GiveUp
  <2> QED
    BY <1>1, <1>3, <2>1, NextOfMany, TellOneKeeps
<1> QED
  BY <1>2, <1>3

LEMMA ReadRefusalKeeps ==
  ASSUME BatchInv, NEW c \in Calls, ReadRefusal(c)
  PROVE  BatchInv'
<1>1. /\ stage[c] = "sent" /\ reply[c].verdict = "refused"
      /\ UNCHANGED <<profile, counter, batch, ids, frames, reply, orders>>
  BY DEF ReadRefusal
<1>2. \A i \in Carried(c) : Denied(c, i)
  BY <1>1 DEF BatchInv, CallInv, Pending
<1>3. CASE profile.one_call
  BY <1>1, <1>2, <1>3, FailKeeps DEF ReadRefusal, Carried
<1>4. CASE ~profile.one_call
  <2>1. Tell(c, Append(results[c], "rejected"))
    BY <1>4 DEF ReadRefusal
  <2>2. Denied(c, Len(results[c]) + 1)
    BY <1>1, <1>2, <1>4, NextOfMany
  <2> QED
    BY <1>1, <1>4, <2>1, <2>2, NextOfMany, TellOneKeeps
<1> QED
  BY <1>3, <1>4

\* What the answer says of an order that was sent with others is so: looked up
\* by client id, only its own answer can be found, or that of a namesake.
LEMMA AcceptedIsPlaced ==
  ASSUME BatchInv, NEW c \in Calls, stage[c] = "sent", profile.one_call,
         reply[c].verdict = "elements", NEW i \in Slots(c)
  PROVE  /\ Accepted(c, i) => Placed(c, i)
         /\ ~Accepted(c, i) /\ (profile.keyed => i \notin Unnamed(c)) => Denied(c, i)
<1>1. BatchTypes /\ CallInv(c)
  BY DEF BatchInv
<1>2. /\ Slots(c) = 1..Len(batch[c]) /\ batch[c] \in Seq(Request) /\ batch[c] \in Batches
      /\ DOMAIN ids[c] = Slots(c) /\ counter \in Nat
      /\ Carried(c) = Slots(c) /\ reply[c].accepted \subseteq Slots(c)
  BY <1>1, CallTypes DEF CallInv, Progress, Complete, AcceptedCarried, Carried, BatchTypes
<1>3. \A j \in Slots(c) : ~Travels(c, j) /\ (Created(c, j) <=> j \in reply[c].accepted)
  BY <1>1, <1>2 DEF CallInv, Pending
<1>4. CASE ~profile.keyed
  BY <1>3, <1>4, CreatedIsPlaced DEF Accepted, Denied
<1>5. CASE profile.keyed /\ i \in Unnamed(c)
  <2>1. LookupId(c, i) \in Nat /\ LookupId(c, i) >= counter
    <3> DEFINE earlier == {j \in Unnamed(c) : j < i}
    <3>1. IsFiniteSet(earlier)
      <4>1. IsFiniteSet(1..Len(batch[c]))
        BY <1>1, CallTypes, FS_Interval
      <4>2. earlier \subseteq 1..Len(batch[c])
        BY <1>2 DEF Unnamed
      <4> QED
        BY <4>1, <4>2, FS_Subset
    <3>2. Cardinality(earlier) \in Nat
      BY <3>1, FS_CardinalityType
    <3>3. LookupId(c, i) = counter + Cardinality(earlier)
      BY <1>5 DEF LookupId
    <3> HIDE DEF earlier
    <3> QED
      BY <1>2, <3>2, <3>3
  <2>2. \A j \in reply[c].accepted : ids[c][j] # LookupId(c, i)
    <3> SUFFICES ASSUME NEW j \in reply[c].accepted, ids[c][j] = LookupId(c, i)
                 PROVE  FALSE
      OBVIOUS
    <3>1. j \in DOMAIN ids[c]
      BY <1>2
    <3>2. ids[c][j] < counter
      BY <1>1, <2>1, <3>1 DEF CallInv, IdsFit
    <3> QED
      BY <1>2, <2>1, <3>2
  <2> QED
    BY <1>5, <2>2 DEF Accepted
<1>6. CASE profile.keyed /\ i \notin Unnamed(c)
  <2>1. /\ LookupId(c, i) = batch[c][i].name
        /\ batch[c][i].name \in Names /\ batch[c][i].name # NoName
    <3>1. batch[c][i].name # NoName
      BY <1>6 DEF Unnamed
    <3>2. batch[c][i] \in Request
      BY <1>2
    <3> QED
      BY <1>6, <3>1, <3>2 DEF LookupId, Request
  <2>2. \A j \in DOMAIN ids[c] :
          IF batch[c][j].name = NoName THEN ids[c][j] \notin Names ELSE ids[c][j] = batch[c][j].name
    BY <1>1 DEF CallInv, IdsFit
  <2>3. ids[c][i] = LookupId(c, i)
    BY <1>2, <2>1, <2>2
  <2>4. ASSUME NEW j \in reply[c].accepted, ids[c][j] = LookupId(c, i)
        PROVE  j \in Namesakes(c, i) /\ Created(c, j)
    <3>1. j \in Slots(c) /\ batch[c][j].name = batch[c][i].name
      BY <1>2, <2>1, <2>2, <2>4
    <3>2. j \notin Unnamed(c)
      BY <2>1, <3>1 DEF Unnamed
    <3> QED
      BY <1>3, <1>6, <3>1, <3>2 DEF Namesakes
  <2>5. Accepted(c, i) => Placed(c, i)
    BY <1>6, <2>4 DEF Accepted, Placed
  <2>6. ~Accepted(c, i) => i \notin reply[c].accepted
    BY <1>6, <2>3 DEF Accepted
  <2> QED
    BY <1>3, <2>5, <2>6 DEF Denied
<1> QED
  BY <1>4, <1>5, <1>6

LEMMA UnnamedCount ==
  ASSUME BatchInv, NEW c \in Calls
  PROVE  Cardinality(Unnamed(c)) \in Nat
<1>1. Slots(c) = 1..Len(batch[c]) /\ Len(batch[c]) \in Nat
  BY CallTypes DEF BatchInv
<1>2. IsFiniteSet(1..Len(batch[c]))
  BY <1>1, FS_Interval
<1>3. Unnamed(c) \subseteq 1..Len(batch[c])
  BY <1>1 DEF Unnamed
<1>4. IsFiniteSet(Unnamed(c))
  BY <1>2, <1>3, FS_Subset
<1> QED
  BY <1>4, FS_CardinalityType

\* Orders placed in one request: the answer tells of all of them.
LEMMA TellAllKeeps ==
  ASSUME BatchInv, NEW c \in Calls, profile.one_call, ReadReply(c)
  PROVE  BatchInv'
<1> DEFINE told == [i \in Slots(c) |-> Verdict(c, i)]
<1>1. /\ BatchTypes /\ CallInv(c) /\ stage[c] = "sent" /\ reply[c].verdict = "elements"
      /\ Tell(c, told) /\ UNCHANGED <<profile, batch, ids, frames, reply, orders>>
      /\ counter' = IF profile.keyed THEN counter + Cardinality(Unnamed(c)) ELSE counter
  BY DEF BatchInv, ReadReply
<1>2. /\ Slots(c) = 1..Len(batch[c]) /\ Len(batch[c]) \in Nat /\ counter \in Nat
      /\ DOMAIN ids[c] = 1..Len(ids[c]) /\ Len(ids[c]) \in Nat
  BY <1>1, CallTypes DEF BatchTypes
<1>3. /\ results[c] = << >> /\ outer[c] = "none" /\ batch[c] \in Batches
      /\ Carried(c) = Slots(c) /\ Len(ids[c]) = Len(batch[c])
  BY <1>1 DEF CallInv, Progress, Complete, Carried
<1>4. \A i \in Slots(c) : /\ told[i] = "ok" => Placed(c, i)
                          /\ told[i] = "rejected" /\ (profile.keyed => i \notin Unnamed(c)) => Denied(c, i)
  <2>1. TAKE i \in Slots(c)
  <2>2. told[i] = IF Accepted(c, i) THEN "ok" ELSE "rejected"
    BY DEF Verdict
  <2> HIDE DEF told
  <2>3. /\ Accepted(c, i) => Placed(c, i)
        /\ ~Accepted(c, i) /\ (profile.keyed => i \notin Unnamed(c)) => Denied(c, i)
    BY <1>1, AcceptedIsPlaced
  <2> QED
    BY <2>2, <2>3
<1>5. told \in Seq({"ok", "rejected", "unknown"}) /\ Len(told) = Len(batch[c]) /\ DOMAIN told = Slots(c)
  <2>1. \A i \in Slots(c) : Verdict(c, i) \in {"ok", "rejected", "unknown"}
    BY DEF Verdict
  <2>2. told \in [1..Len(batch[c]) -> {"ok", "rejected", "unknown"}]
    BY <1>2, <2>1
  <2> HIDE DEF told
  <2> QED
    BY <1>2, <2>2
<1> HIDE DEF told
<1>6. /\ results'[c] = told /\ results' \in [Calls -> Seq({"ok", "rejected", "unknown"})]
      /\ stage' = [stage EXCEPT ![c] = "done"] /\ stage'[c] = "done"
      /\ outer' = [outer EXCEPT ![c] = "ok"] /\ outer'[c] = "ok"
      /\ \A d \in Calls \ {c} : results'[d] = results[d] /\ stage'[d] = stage[d] /\ outer'[d] = outer[d]
  BY <1>1, <1>5 DEF Tell, Finished, BatchTypes
<1>7. counter' \in Nat /\ counter <= counter'
  BY <1>1, <1>2, UnnamedCount
<1>8. BatchTypes'
  BY <1>1, <1>6, <1>7 DEF BatchTypes
<1>9. \A i : (Created(c, i)' <=> Created(c, i)) /\ (Travels(c, i)' <=> Travels(c, i))
  BY <1>1 DEF Created, Travels
<1>10. Progress(c)'
  BY <1>1, <1>2, <1>3, <1>5, <1>6 DEF Progress
<1>11. IdsFit(c)'
  <2>1. \A i \in DOMAIN ids[c] : ids[c][i] \in Nat => ids[c][i] < counter'
    BY <1>1, <1>2, <1>7 DEF CallInv, IdsFit
  <2> QED
    BY <1>1, <2>1 DEF CallInv, IdsFit
<1>12. FramesFit(c)'
  BY <1>1, <1>6 DEF CallInv, FramesFit, Slots
<1>13. Quiet(c)'
  <2>1. \A i : Created(c, i) \/ Travels(c, i) => i \in Slots(c)
    BY <1>1, <1>3 DEF CallInv, Quiet
  <2> QED
    BY <2>1, <1>5, <1>6, <1>9 DEF Quiet
<1>14. Pending(c)' /\ AcceptedCarried(c)'
  BY <1>6 DEF Pending, AcceptedCarried
<1>15. ResultsTrue(c)'
  <2>1. \A i : Placed(c, i) => Placed(c, i)'
    BY <1>1, <1>9, PlacedStays
  <2> QED
    BY <1>1, <1>4, <1>5, <1>6, <1>9, <2>1 DEF ResultsTrue, Denied, Unnamed, Slots
<1>16. CallInv(c)'
  BY <1>10, <1>11, <1>12, <1>13, <1>14, <1>15 DEF CallInv
<1> QED
  BY <1>1, <1>6, <1>7, <1>8, <1>16, OthersKeep

LEMMA ReadReplyKeeps ==
  ASSUME BatchInv, NEW c \in Calls, ReadReply(c)
  PROVE  BatchInv'
<1>1. CASE profile.one_call
  BY <1>1, TellAllKeeps
<1>2. CASE ~profile.one_call
  <2> DEFINE i == Len(results[c]) + 1
             v == Verdict(c, i)
  <2>1. /\ stage[c] = "sent" /\ reply[c].verdict = "elements" /\ Tell(c, Append(results[c], v))
        /\ UNCHANGED <<profile, batch, ids, frames, reply, orders>>
        /\ counter' = IF profile.keyed THEN counter + Cardinality(Unnamed(c)) ELSE counter
    BY <1>2 DEF ReadReply
  <2>2. i \in Carried(c) /\ ~profile.keyed
    BY <1>2, <2>1, NextOfMany
  <2>3. ~Travels(c, i) /\ (Created(c, i) <=> i \in reply[c].accepted)
    BY <2>1, <2>2 DEF BatchInv, CallInv, Pending
  <2>4. v = IF i \in reply[c].accepted THEN "ok" ELSE "rejected"
    BY <2>2 DEF Verdict, Accepted
  <2>5. /\ v \in {"ok", "rejected", "unknown"}
        /\ v = "ok" => Created(c, i)
        /\ v = "rejected" => Denied(c, i)
    BY <2>3, <2>4 DEF Denied
  <2> HIDE DEF v
  <2> QED
    BY <1>2, <2>1, <2>2, <2>5, NextOfMany, TellOneKeeps
<1> QED
  BY <1>1, <1>2
-----------------------------------------------------------------------------
\* The venue's steps.  What becomes of a request changes nothing but which of
\* its orders travel and which were created, and the answer that a call which
\* still waits for it is given.
LEMMA FrameLeavesKeeps ==
  ASSUME BatchInv, NEW c \in Calls, NEW f \in frames, f.call = c,
         frames' = frames \ {f}, reply' \in [Calls -> Replies],
         NEW made \in SUBSET f.slots,
         \A d \in Calls \ {c} : reply'[d] = reply[d],
         UNCHANGED <<profile, counter, stage, batch, ids, outer, results>>,
         \A o : o.call # c => (o \in orders' <=> o \in orders),
         \A i : Created(c, i)' <=> Created(c, i) \/ i \in made,
         \/ reply'[c] = reply[c] /\ (made # {} => ~Waits(f))
         \/ Waits(f) /\ reply'[c].verdict = "elements" /\ reply'[c].accepted = made
         \/ Waits(f) /\ reply'[c].verdict = "refused" /\ made = {}
  PROVE  BatchInv'
<1>1. BatchTypes /\ CallInv(c)
  BY DEF BatchInv
<1>2. /\ Slots(c) = 1..Len(batch[c]) /\ Len(batch[c]) \in Nat
      /\ Len(results[c]) \in Nat /\ DOMAIN results[c] = 1..Len(results[c])
      /\ profile.one_call \in BOOLEAN
  BY <1>1, CallTypes
<1>3. \A i \in f.slots : Travels(c, i)
  BY DEF Travels
<1>4. \A i : Travels(c, i)' => Travels(c, i)
  BY DEF Travels
<1>5. Carried(c)' = Carried(c) /\ Slots(c)' = Slots(c) /\ Unnamed(c)' = Unnamed(c) /\ Complete(c)' = Complete(c)
  BY DEF Carried, Slots, Unnamed, Complete
<1>6. BatchTypes'
  BY <1>1 DEF BatchTypes
<1>7. Progress(c)' /\ IdsFit(c)'
  BY <1>1, <1>5 DEF CallInv, Progress, IdsFit
<1>8. FramesFit(c)'
  BY <1>1, <1>5 DEF CallInv, FramesFit
<1>9. Quiet(c)'
  BY <1>1, <1>3, <1>4, <1>5 DEF CallInv, Quiet
<1>10. \A i : Denied(c, i) => Denied(c, i)'
  BY <1>3, <1>4 DEF Denied
<1>11. ResultsTrue(c)'
  <2>1. \A i : Placed(c, i) => Placed(c, i)'
    BY PlacedStays
  <2> QED
    BY <1>1, <1>5, <1>10, <2>1 DEF CallInv, ResultsTrue
<1>12. AcceptedCarried(c)'
  BY <1>1, <1>5 DEF CallInv, AcceptedCarried, Waits
<1>13. Pending(c)'
  <2> SUFFICES ASSUME stage[c] = "sent", NEW i \in Carried(c)
               PROVE  /\ reply'[c].verdict = "none" => ~Created(c, i)'
                      /\ reply'[c].verdict = "refused" => Denied(c, i)'
                      /\ reply'[c].verdict = "elements" =>
                           ~Travels(c, i)' /\ (Created(c, i)' <=> i \in reply'[c].accepted)
    BY <1>5 DEF Pending
  <2>1. /\ reply[c].verdict = "none" => ~Created(c, i)
        /\ reply[c].verdict = "refused" => Denied(c, i)
        /\ reply[c].verdict = "elements" =>
             ~Travels(c, i) /\ (Created(c, i) <=> i \in reply[c].accepted)
    BY <1>1 DEF CallInv, Pending
  <2>2. CASE ~Waits(f)
    <3>1. i \notin made
      BY <1>1, <2>2 DEF CallInv, FramesFit, Waits, Carried
    <3>2. reply'[c] = reply[c] /\ (Created(c, i)' <=> Created(c, i))
      BY <2>2, <3>1
    <3> QED
      BY <1>4, <2>1, <3>2 DEF Denied
  <2>3. CASE Waits(f)
    <3>1. i \in f.slots /\ Travels(c, i)
      BY <1>3, <2>3 DEF Waits
    <3>2. ~Created(c, i)
      BY <1>1, <2>1, <3>1 DEF Denied, BatchTypes, Replies, NoReply
    <3>3. ~Travels(c, i)'
      <4> SUFFICES ASSUME NEW g \in frames, g # f, g.call = c, i \in g.slots
                   PROVE  FALSE
        BY DEF Travels
      <4>1. f \in [call : Calls, slots : SUBSET Nat] /\ g \in [call : Calls, slots : SUBSET Nat]
        BY <1>1 DEF BatchTypes
      <4>2. /\ IF profile.one_call THEN f.slots = Slots(c) ELSE \E k \in Nat : f.slots = {k}
            /\ IF profile.one_call THEN g.slots = Slots(c) ELSE \E k \in Nat : g.slots = {k}
        BY <1>1 DEF CallInv, FramesFit
      <4>3. f = [call |-> f.call, slots |-> f.slots] /\ g = [call |-> g.call, slots |-> g.slots]
        BY <4>1
      <4>4. g.slots = f.slots
        BY ZenonT(40), <3>1, <4>2
      <4> QED
        BY <4>3, <4>4
    <3> QED
      BY <1>1, <2>1, <2>3, <3>1, <3>2, <3>3 DEF Denied
  <2> QED
    BY <2>2, <2>3
<1>14. CallInv(c)'
  BY <1>7, <1>8, <1>9, <1>11, <1>12, <1>13 DEF CallInv
<1>15. counter <= counter'
  BY <1>1 DEF BatchTypes
<1>16. \A g : g.call # c => (g \in frames' <=> g \in frames)
  OBVIOUS
<1> QED
  BY <1>6, <1>14, <1>15, <1>16, OthersKeep

LEMMA VenueHandlesKeeps ==
  ASSUME BatchInv, NEW c \in Calls, VenueHandles(c)
  PROVE  BatchInv'
<1>1. PICK f \in frames : f.call = c /\
        \E accepted \in SUBSET {i \in f.slots : ~Repeats(c, i)} :
          /\ \A i, j \in accepted : ~Clash(c, i, j)
          /\ AnswerFrame(f, [verdict |-> "elements", accepted |-> accepted])
          /\ orders' = orders \union
               {[call |-> c, slot |-> i, id |-> ids[c][i]] : i \in accepted}
  BY DEF VenueHandles
<1>2. PICK accepted \in SUBSET {i \in f.slots : ~Repeats(c, i)} :
        /\ AnswerFrame(f, [verdict |-> "elements", accepted |-> accepted])
        /\ orders' = orders \union {[call |-> c, slot |-> i, id |-> ids[c][i]] : i \in accepted}
  BY <1>1
<1> DEFINE r == [verdict |-> "elements", accepted |-> accepted]
<1>3. accepted \in SUBSET f.slots /\ f.slots \subseteq Nat /\ BatchTypes
  BY DEF BatchInv, BatchTypes
<1>4. r \in Replies /\ r.verdict = "elements" /\ r.accepted = accepted
  BY <1>3 DEF Replies
<1>5. /\ \A o : o.call # c => (o \in orders' <=> o \in orders)
      /\ \A i : Created(c, i)' <=> Created(c, i) \/ i \in accepted
  <2> DEFINE new(i) == [call |-> c, slot |-> i, id |-> ids[c][i]]
  <2>1. \A i : new(i).call = c /\ new(i).slot = i
    OBVIOUS
  <2>2. orders' = orders \union {new(i) : i \in accepted}
    BY <1>2
  <2> HIDE DEF new
  <2>3. \A o : o \in orders' <=> o \in orders \/ \E i \in accepted : o = new(i)
    BY <2>2
  <2> QED
    BY <2>1, <2>3 DEF Created
<1>6. AnswerFrame(f, r)
  BY <1>2
<1> HIDE DEF r
<1>7. /\ frames' = frames \ {f} /\ reply' = IF Waits(f) THEN [reply EXCEPT ![c] = r] ELSE reply
      /\ UNCHANGED <<profile, counter, stage, batch, ids, outer, results>>
  BY <1>1, <1>6 DEF AnswerFrame
<1>8. /\ reply' \in [Calls -> Replies] /\ \A d \in Calls \ {c} : reply'[d] = reply[d]
      /\ reply'[c] = IF Waits(f) THEN r ELSE reply[c]
  BY <1>3, <1>4, <1>7 DEF BatchTypes
<1> QED
  BY <1>1, <1>3, <1>4, <1>5, <1>7, <1>8, FrameLeavesKeeps

LEMMA VenueRefusesKeeps ==
  ASSUME BatchInv, NEW c \in Calls, VenueRefuses(c)
  PROVE  BatchInv'
<1> DEFINE r == [verdict |-> "refused"]
<1>1. PICK f \in frames : f.call = c /\ AnswerFrame(f, r) /\ UNCHANGED orders
  BY DEF VenueRefuses
<1>2. r \in Replies /\ r.verdict = "refused" /\ BatchTypes
  BY DEF Replies, BatchInv
<1> HIDE DEF r
<1>3. /\ frames' = frames \ {f} /\ reply' = IF Waits(f) THEN [reply EXCEPT ![c] = r] ELSE reply
      /\ UNCHANGED <<profile, counter, stage, batch, ids, outer, results, orders>>
  BY <1>1 DEF AnswerFrame
<1>4. /\ reply' \in [Calls -> Replies] /\ \A d \in Calls \ {c} : reply'[d] = reply[d]
      /\ reply'[c] = IF Waits(f) THEN r ELSE reply[c]
  BY <1>2, <1>3 DEF BatchTypes
<1>5. \A i : Created(c, i)' <=> Created(c, i) \/ i \in {}
  BY <1>3 DEF Created
<1>6. {} \in SUBSET f.slots
  OBVIOUS
<1> QED
  BY <1>1, <1>2, <1>3, <1>4, <1>5, <1>6, FrameLeavesKeeps

LEMMA FrameLostKeeps ==
  ASSUME BatchInv, NEW c \in Calls, FrameLost(c)
  PROVE  BatchInv'
<1>1. PICK f \in frames : f.call = c /\ frames' = frames \ {f}
  BY DEF FrameLost
<1>2. UNCHANGED <<profile, counter, stage, batch, ids, reply, orders, outer, results>>
  BY DEF FrameLost
<1>3. reply' \in [Calls -> Replies]
  BY <1>2 DEF BatchInv, BatchTypes
<1>4. \A i : Created(c, i)' <=> Created(c, i) \/ i \in {}
  BY <1>2 DEF Created
<1>5. {} \in SUBSET f.slots
  OBVIOUS
<1> QED
  BY <1>1, <1>2, <1>3, <1>4, <1>5, FrameLeavesKeeps

LEMMA StutterKeeps == BatchInv /\ UNCHANGED batchVars => BatchInv'
<1> SUFFICES ASSUME BatchInv, UNCHANGED batchVars
             PROVE  BatchInv'
  OBVIOUS
<1>1. BatchTypes'
  BY DEF BatchInv, BatchTypes, batchVars
<1>2. ASSUME NEW c \in Calls
      PROVE  CallInv(c)'
  <2>1. CallInv(c)
    BY DEF BatchInv
  <2>2. (Progress(c) /\ IdsFit(c) /\ FramesFit(c))'
    BY <2>1 DEF CallInv, Progress, IdsFit, FramesFit, Complete, Slots, batchVars
  <2>3. (Quiet(c) /\ Pending(c) /\ AcceptedCarried(c) /\ ResultsTrue(c))'
    BY <2>1 DEF CallInv, Quiet, Pending, AcceptedCarried, ResultsTrue, Carried, Slots, Unnamed,
                Created, Travels, Denied, Placed, Namesakes, batchVars
  <2> QED
    BY <2>2, <2>3 DEF CallInv
<1> QED
  BY <1>1, <1>2 DEF BatchInv

LEMMA NextKeeps == BatchInv /\ [BatchNext]_batchVars => BatchInv'
<1> SUFFICES ASSUME BatchInv, BatchNext
             PROVE  BatchInv'
  BY StutterKeeps
<1>1. PICK c \in Calls :
        \/ \E b \in Batches : PlaceBatch(c, b)
        \/ BuildOrder(c) \/ SkipInvalid(c) \/ SendRequest(c)
        \/ GiveUp(c) \/ ReadRefusal(c) \/ ReadReply(c)
        \/ VenueHandles(c) \/ VenueRefuses(c) \/ FrameLost(c)
  BY DEF BatchNext
<1>2. CASE \E b \in Batches : PlaceBatch(c, b)
  BY <1>2, PlaceBatchKeeps
<1>3. CASE BuildOrder(c) \/ SkipInvalid(c) \/ SendRequest(c)
  BY <1>3, BuildOrderKeeps, SkipInvalidKeeps, SendKeeps
<1>4. CASE GiveUp(c) \/ ReadRefusal(c) \/ ReadReply(c)
  BY <1>4, GiveUpKeeps, ReadRefusalKeeps, ReadReplyKeeps
<1>5. CASE VenueHandles(c) \/ VenueRefuses(c) \/ FrameLost(c)
  BY <1>5, VenueHandlesKeeps, VenueRefusesKeeps, FrameLostKeeps
<1> QED
  BY <1>1, <1>2, <1>3, <1>4, <1>5

(***************************************************************************)
(* What the trait's place_batch promises, however the venue answers and    *)
(* whatever is lost, late or in flight for other calls: the result of each *)
(* order is its own outcome.  One told as placed is at the venue, one told *)
(* as rejected is not and never will be, and a call that was refused as a  *)
(* whole placed nothing.  The client that finds answers by client id can   *)
(* only say of orders of one client id that one of them was placed, and    *)
(* its rejection of an unnamed order is not one.                           *)
(***************************************************************************)
THEOREM BatchResultsAreTrue == BatchSpec => []ResultsAreTrue
<1>1. BatchInv => ResultsAreTrue
  BY DEF BatchInv, CallInv, ResultsTrue, ResultsAreTrue
<1> QED
  BY InitBatchInv, NextKeeps, <1>1, PTL DEF BatchSpec
=============================================================================
