------------------------ MODULE SignedRequestsProofs -------------------------
(***************************************************************************)
(* The signed requests of every client, for any number of threads, calls,  *)
(* clocks and offsets.                                                     *)
(*                                                                         *)
(* The clients that sign with nonces (Kraken's two and Upbit): a nonce is  *)
(* refused only because another thread's, drawn later, came before it.     *)
(* The inductive invariant adds to the generator's that no stamp under way *)
(* is beyond its last nonce, that the stamps under way differ, and that    *)
(* none of them is one that the venue took.                                *)
(*                                                                         *)
(* Every client: a stamp carries the venue's own time once the clock is    *)
(* synced, by a second invariant over the sync, the offset and the calls,  *)
(* and what a caller is told of an answer is what the answer says.         *)
(***************************************************************************)
EXTENDS SignedRequests, TLAPS

-----------------------------------------------------------------------------
(***************************************************************************)
(* The generator.  The inductive invariant adds that `last` bounds every   *)
(* nonce issued and every floor a call started from, which is what a       *)
(* thread that swaps successfully relies on.                               *)
(***************************************************************************)
LastBounds ==
  /\ \A i \in DOMAIN issued : issued[i] <= last
  /\ \A t \in Threads : floor[t] <= last

IInv ==
  /\ TypeOK
  /\ LastBounds
  /\ NoncesIncrease
  /\ CallsSeeEarlierNonces
  /\ NonceNotBehindClock

(***************************************************************************)
(* A candidate is a natural number, whatever the clock and its offset.     *)
(***************************************************************************)
LEMMA CandidateType ==
  ASSUME TypeOK, NEW local \in Int
  PROVE  Candidate(local) \in Nat
BY DEF TypeOK, Candidate, server_time_ms

\* The initial state satisfies the inductive invariant.
LEMMA InvInit == Init => IInv
BY NonceAssumption
   DEF Init, IInv, TypeOK, LastBounds, NoncesIncrease, CallsSeeEarlierNonces,
       NonceNotBehindClock, NoResult, NonceAssumption

(***************************************************************************)
(* A successful swap hands out more than every nonce before it.            *)
(***************************************************************************)
LEMMA SwapKeeps ==
  ASSUME IInv, NEW t \in Threads, Swap(t)
  PROVE  IInv'
<1> DEFINE nonce == NextNonce(t)
<1>1. /\ nonce \in Nat /\ nonce > last /\ nonce >= candidate[t]
      /\ last \in Nat /\ last' = nonce
  BY DEF IInv, TypeOK, Swap, InPlace, NextNonce, Greater
<1>2. /\ issued' = Append(issued, nonce) /\ issued \in Seq(Nat)
      /\ Len(issued) \in Nat
  BY DEF IInv, TypeOK, Swap
<1> HIDE DEF nonce
<1>3. TypeOK'
  <2>1. issued' \in Seq(Nat) /\ Len(issued') <= MaxCalls
    BY <1>1, <1>2, NonceAssumption DEF Swap, NonceAssumption
  <2>2. result' = [result EXCEPT ![t] = nonce]
    BY DEF Swap, nonce
  <2> QED
    BY <1>1, <2>1, <2>2 DEF IInv, TypeOK, Swap
<1>4. \A i \in DOMAIN issued' :
        \/ i \in DOMAIN issued /\ issued'[i] = issued[i]
        \/ i = Len(issued) + 1 /\ issued'[i] = nonce
  BY <1>1, <1>2
<1>5. LastBounds'
  <2>1. \A i \in DOMAIN issued : issued[i] \in Nat /\ issued[i] <= last
    BY <1>2 DEF IInv, LastBounds
  <2>2. \A u \in Threads : floor'[u] = floor[u] /\ floor[u] \in Nat /\ floor[u] <= last
    BY DEF IInv, LastBounds, TypeOK, Swap
  <2>3. \A i \in DOMAIN issued' : issued'[i] <= last'
    BY <1>1, <1>4, <2>1
  <2>4. \A u \in Threads : floor'[u] <= last'
    BY <1>1, <2>2
  <2> QED
    BY <2>3, <2>4 DEF LastBounds
<1>6. NoncesIncrease'
  <2> SUFFICES ASSUME NEW i \in DOMAIN issued', NEW j \in DOMAIN issued', i < j
               PROVE  issued'[i] < issued'[j]
    BY DEF NoncesIncrease
  <2>1. \A k \in DOMAIN issued :
          /\ k \in Nat /\ k <= Len(issued)
          /\ issued[k] \in Nat /\ issued[k] <= last
    BY <1>2 DEF IInv, LastBounds
  <2>2. i \in DOMAIN issued /\ issued'[i] = issued[i]
    <3>1. CASE i = Len(issued) + 1
      BY <1>2, <1>4, <2>1, <3>1
    <3> QED
      BY <1>4, <3>1
  <2>3. CASE j \in DOMAIN issued /\ issued'[j] = issued[j]
    BY <2>2, <2>3 DEF IInv, NoncesIncrease
  <2>4. CASE issued'[j] = nonce
    BY <1>1, <2>1, <2>2, <2>4
  <2> QED
    BY <1>4, <2>3, <2>4
<1>7. ASSUME NEW u \in Threads, result'[u] # NoResult
      PROVE  result'[u] > floor'[u] /\ result'[u] >= candidate'[u]
  <2>1. CASE u = t
    <3>1. result'[u] = nonce /\ floor'[u] = floor[u] /\ candidate'[u] = candidate[u]
      BY <2>1 DEF IInv, TypeOK, Swap, nonce
    <3>2. floor[u] \in Nat /\ floor[u] <= last
      BY DEF IInv, TypeOK, LastBounds
    <3> QED
      BY <1>1, <2>1, <3>1, <3>2
  <2>2. CASE u # t
    BY <1>7, <2>2
       DEF IInv, TypeOK, Swap, CallsSeeEarlierNonces, NonceNotBehindClock
  <2> QED
    BY <2>1, <2>2
<1> QED
  BY <1>3, <1>5, <1>6, <1>7 DEF IInv, CallsSeeEarlierNonces, NonceNotBehindClock

\* So does every state in which a call of next has just begun.
LEMMA BeginKeeps ==
  ASSUME IInv, NEW t \in Threads, NEW local \in Int, BeginNext(t, local)
  PROVE  IInv'
<1>1. Candidate(local) \in Nat
  BY CandidateType DEF IInv
<1>2. LET newest == IF issued = << >> THEN 0 ELSE issued[Len(issued)]
      IN  newest \in Nat /\ newest <= last
  BY DEF IInv, TypeOK, LastBounds
<1>3. TypeOK'
  BY <1>1, <1>2 DEF IInv, TypeOK, BeginNext
<1>4. LastBounds'
  BY <1>2 DEF IInv, TypeOK, LastBounds, BeginNext
<1>5. NoncesIncrease'
  BY DEF IInv, NoncesIncrease, BeginNext
<1>6. ASSUME NEW u \in Threads, result'[u] # NoResult
      PROVE  result'[u] > floor'[u] /\ result'[u] >= candidate'[u]
  <2>1. u # t
    BY <1>6 DEF IInv, TypeOK, BeginNext
  <2> QED
    BY <1>6, <2>1
       DEF IInv, TypeOK, BeginNext, CallsSeeEarlierNonces, NonceNotBehindClock
<1> QED
  BY <1>3, <1>4, <1>5, <1>6 DEF IInv, CallsSeeEarlierNonces, NonceNotBehindClock

\* So do a sync, a load, a swap that fails and a step of something else.
LEMMA SyncKeeps ==
  ASSUME IInv, NEW offset \in Int, SyncTime(offset)
  PROVE  IInv'
BY DEF SyncTime, IInv, TypeOK, LastBounds, NoncesIncrease,
       CallsSeeEarlierNonces, NonceNotBehindClock

LEMMA LoadKeeps ==
  ASSUME IInv, NEW t \in Threads, Load(t) \/ SwapFails(t)
  PROVE  IInv'
BY DEF Load, SwapFails, IInv, TypeOK, LastBounds, NoncesIncrease,
       CallsSeeEarlierNonces, NonceNotBehindClock

LEMMA StutterKeeps ==
  ASSUME IInv, UNCHANGED vars
  PROVE  IInv'
BY DEF vars, IInv, TypeOK, LastBounds, NoncesIncrease,
       CallsSeeEarlierNonces, NonceNotBehindClock

\* Every step keeps the inductive invariant.
LEMMA InvStep == IInv /\ [Next]_vars => IInv'
<1> SUFFICES ASSUME IInv, [Next]_vars PROVE IInv'
  OBVIOUS
<1>1. Times \subseteq Int /\ Offsets \subseteq Int
  BY NonceAssumption DEF NonceAssumption
<1> QED
  BY <1>1, SyncKeeps, LoadKeeps, StutterKeeps, BeginKeeps, SwapKeeps DEF Next

\* Hence it always holds.
LEMMA Invariant == Spec => []IInv
  BY InvInit, InvStep, PTL DEF Spec

(***************************************************************************)
(* Nonces strictly increase in the order they are issued.                  *)
(***************************************************************************)
THEOREM StrictlyIncreasing == Spec => []NoncesIncrease
<1>1. IInv => NoncesIncrease
  BY DEF IInv
<1> QED
  BY <1>1, Invariant, PTL

(***************************************************************************)
(* A call returns more than every nonce issued before it began.            *)
(***************************************************************************)
THEOREM RealTimeOrder == Spec => []CallsSeeEarlierNonces
<1>1. IInv => CallsSeeEarlierNonces
  BY DEF IInv
<1> QED
  BY <1>1, Invariant, PTL

(***************************************************************************)
(* No nonce is behind the clock reading it was made from.                  *)
(***************************************************************************)
THEOREM NotBehindClock == Spec => []NonceNotBehindClock
<1>1. IInv => NonceNotBehindClock
  BY DEF IInv
<1> QED
  BY <1>1, Invariant, PTL

-----------------------------------------------------------------------------
(***************************************************************************)
(* The clients' signed requests.                                           *)
(***************************************************************************)
Syncs == [phase : {"none", "asked", "answered"},
          before : Int, at : Int, server : Int, trip : Int]

SigningType ==
  /\ client \in Clients
  /\ now \in Int /\ drift \in Int /\ trip \in Int
  /\ sync \in Syncs /\ (sync.phase # "none" => HasTime)
  /\ seen.nonce \in Int

CallsAreTold ==
  /\ call = [t \in Threads |-> call[t]]
  /\ \A t \in Threads :
       /\ call[t].stamp \in Int
       /\ (call[t].phase = "answered") <=> (call[t].verdict # "none")

UnderWay(t) == call[t].phase \in {"signed", "answered"}

StampsDiffer ==
  /\ seen.nonce <= last
  /\ \A t \in Threads : UnderWay(t) => call[t].stamp > 0 /\ call[t].stamp <= last
  /\ \A t, u \in Threads :
       t # u /\ UnderWay(t) /\ UnderWay(u) => call[t].stamp # call[u].stamp

NotYetTaken ==
  \A t \in Threads : call[t].phase = "signed" =>
    /\ call[t].stamp # seen.nonce
    /\ seen.by = t => call[t].stamp > seen.nonce

\* What may be sent again was not taken either.
RepeatsAreNew ==
  \A t \in Threads : call[t].phase = "answered" /\ call[t].verdict \notin {"judged", "stale"} =>
    /\ call[t].stamp # seen.nonce
    /\ seen.by = t => call[t].stamp > seen.nonce

\* A thread draws a nonce in a call only.
DrawnInCall == \A t \in Threads : pc[t] # "idle" => call[t].phase = "signing"

NonceInv ==
  /\ IInv /\ SigningType /\ CallsAreTold /\ DrawnInCall
  /\ StampsDiffer /\ NotYetTaken /\ RepeatsAreNew /\ RefusedNoncesWereOvertaken

SInv == client \in Clients /\ (Scheme.nonce => NonceInv)

(***************************************************************************)
(* Only three clients sign with nonces.                                    *)
(***************************************************************************)
LEMMA NonceClients ==
  ASSUME client \in Clients, Scheme.nonce
  PROVE  client.venue \in {"Kraken", "KrakenFutures", "Upbit"}
<1>1. client.venue \in Venues
  BY SigningAssumption DEF SigningAssumption
<1>2. /\ BinanceSigns.nonce = FALSE /\ BitgetSigns.nonce = FALSE /\ BybitSigns.nonce = FALSE
      /\ CoinbaseSigns.nonce = FALSE /\ GateSigns.nonce = FALSE /\ HtxSigns.nonce = FALSE
      /\ KuCoinSigns.nonce = FALSE /\ OkxSigns.nonce = FALSE
  BY DEF ByClock, BinanceSigns, BitgetSigns, BybitSigns, CoinbaseSigns, GateSigns, HtxSigns,
         KuCoinSigns, OkxSigns
<1>3. /\ Signs["Binance"] = BinanceSigns /\ Signs["Bitget"] = BitgetSigns
      /\ Signs["Bybit"] = BybitSigns /\ Signs["Coinbase"] = CoinbaseSigns
      /\ Signs["Gate"] = GateSigns /\ Signs["Htx"] = HtxSigns
      /\ Signs["KuCoin"] = KuCoinSigns /\ Signs["Okx"] = OkxSigns
  BY DEF Signs
<1> QED
  BY <1>1, <1>2, <1>3 DEF Scheme, Venues

(***************************************************************************)
(* The venue's time, of a client that signs with nonces, is an integer.    *)
(***************************************************************************)
LEMMA ServerTimeType ==
  ASSUME client \in Clients, Scheme.nonce, HasTime, NEW ms \in Int
  PROVE  ServerTime(ms) \in Int
<1>1. client.venue \in {"Kraken", "KrakenFutures"}
  BY NonceClients DEF HasTime
<1>2. ServerTime(ms) = (ms \div Second) * Second
  BY <1>1 DEF ServerTime, KrakenTime, Seconds
<1>3. Second \in Nat \ {0}
  BY SigningAssumption DEF SigningAssumption
<1>4. ms \div Second \in Int
  BY <1>3
<1> QED
  BY <1>2, <1>3, <1>4

(***************************************************************************)
(* The transport repeats no request that the venue judged.                 *)
(***************************************************************************)
LEMMA JudgedIsFinal ==
  ASSUME NEW verdict \in {"judged", "stale"}, NEW a \in AnswersTo(verdict)
  PROVE  a.status # "429"
<1>1. \A kind : kind # "tooMany" => StatusOf(kind) \in {"ok", "401", "404", "error"}
  BY DEF StatusOf
<1>2. PICK kind \in (Refusals \ {"tooMany"}) \cup {"done", "other", "stale"}, s \in Shapes :
        a = Answer(kind, StatusOf(kind), s, 0)
  BY DEF AnswersTo
<1>3. kind # "tooMany"
  BY DEF Refusals
<1> QED
  BY <1>1, <1>2, <1>3 DEF Answer

(***************************************************************************)
(* A step that changes one call only, and keeps its stamp if it has one.   *)
(***************************************************************************)
LEMMA CallMoves ==
  ASSUME NonceInv, NEW t \in Threads, NEW c,
         call' = [call EXCEPT ![t] = c], UNCHANGED <<last, client, seen>>,
         c.stamp \in Int,
         c.phase = "answered" <=> c.verdict # "none",
         c.phase \in {"signed", "answered"} => UnderWay(t) /\ c.stamp = call[t].stamp,
         c.phase = "signed" \/ (c.phase = "answered" /\ c.verdict \notin {"judged", "stale"}) =>
           c.stamp # seen.nonce /\ (seen.by = t => c.stamp > seen.nonce),
         c.verdict = "stale" => c.past > c.stamp /\ c.by # t
  PROVE  CallsAreTold' /\ StampsDiffer' /\ NotYetTaken' /\ RepeatsAreNew'
         /\ RefusedNoncesWereOvertaken'
<1>1. call' = [u \in Threads |-> IF u = t THEN c ELSE call[u]]
  BY DEF NonceInv, CallsAreTold
<1>2. \A u \in Threads : call'[u] = IF u = t THEN c ELSE call[u]
  BY <1>1
<1>3. CallsAreTold'
  BY <1>1, <1>2 DEF NonceInv, CallsAreTold
<1>4. StampsDiffer'
  BY <1>2 DEF NonceInv, StampsDiffer, UnderWay
<1>5. NotYetTaken'
  BY <1>2 DEF NonceInv, NotYetTaken
<1>6. RepeatsAreNew'
  BY <1>2 DEF NonceInv, RepeatsAreNew
<1>7. RefusedNoncesWereOvertaken'
  BY <1>2 DEF NonceInv, RefusedNoncesWereOvertaken, Scheme
<1> QED
  BY <1>3, <1>4, <1>5, <1>6, <1>7

\* A step that changes no call changes none of what is said of them.
LEMMA CallsStay ==
  ASSUME NonceInv, UNCHANGED <<last, client, seen, call>>
  PROVE  CallsAreTold' /\ StampsDiffer' /\ NotYetTaken' /\ RepeatsAreNew'
         /\ RefusedNoncesWereOvertaken'
BY DEF NonceInv, CallsAreTold, StampsDiffer, NotYetTaken, RepeatsAreNew,
       RefusedNoncesWereOvertaken, UnderWay, Scheme

LEMMA DrawsStay ==
  ASSUME NonceInv, UNCHANGED <<pc, call>>
  PROVE  DrawnInCall'
BY DEF NonceInv, DrawnInCall

LEMMA TypeStays ==
  ASSUME SigningType, UNCHANGED <<client, seen>>,
         now' \in Int, drift' \in Int, trip' \in Int,
         sync' \in Syncs, sync'.phase # "none" => HasTime
  PROVE  SigningType'
BY DEF SigningType, HasTime

(***************************************************************************)
(* The sync, the clocks and a refused call.                                *)
(***************************************************************************)
LEMMA ClockSteps ==
  ASSUME NonceInv, Scheme.nonce,
         \/ BeginSync \/ VenueTellsTime \/ EndSync \/ SyncFails \/ Tick \/ ClockIsSet
         \/ \E t \in Threads : Refuse(t)
  PROVE  NonceInv'
<1>1. CASE BeginSync
  <2>1. Local \in Int
    BY DEF NonceInv, SigningType, Local
  <2>2. sync' \in Syncs
    <3>1. sync' = [phase |-> "asked", before |-> Local, at |-> now, server |-> 0, trip |-> 0]
      BY <1>1 DEF BeginSync, NoSync
    <3>2. now \in Int
      BY DEF NonceInv, SigningType
    <3> QED
      BY <2>1, <3>1, <3>2 DEF Syncs
  <2>3. SigningType'
    BY <1>1, <2>2, TypeStays DEF BeginSync, NonceInv, SigningType
  <2>4. UNCHANGED <<vars, client, seen, call>>
    BY <1>1 DEF BeginSync
  <2> QED
    BY <2>3, <2>4, CallsStay, DrawsStay, StutterKeeps DEF NonceInv, vars
<1>2. CASE VenueTellsTime
  <2>1. ServerTime(now) \in Int /\ now - sync.at \in Int
    BY <1>2, ServerTimeType DEF VenueTellsTime, NonceInv, SigningType, Syncs
  <2>2. sync' \in Syncs
    BY <1>2, <2>1 DEF VenueTellsTime, NonceInv, SigningType, Syncs
  <2>3. SigningType'
    BY <1>2, <2>2, TypeStays DEF VenueTellsTime, NonceInv, SigningType
  <2>4. UNCHANGED <<vars, client, seen, call>>
    BY <1>2 DEF VenueTellsTime
  <2> QED
    BY <2>3, <2>4, CallsStay, DrawsStay, StutterKeeps DEF NonceInv, vars
<1>3. CASE EndSync
  <2>1. Offset \in Int /\ sync.trip \in Int
    BY DEF Offset, NonceInv, SigningType, Syncs
  <2>2. SigningType'
    <3>1. sync' \in Syncs /\ sync'.phase = "none" /\ trip' \in Int
      BY <1>3, <2>1 DEF EndSync, NoSync, Unsynced, Syncs
    <3> QED
      BY <1>3, <3>1, TypeStays DEF EndSync, NonceInv, SigningType
  <2>3. IInv'
    BY <1>3, <2>1, SyncKeeps DEF EndSync, NonceInv
  <2>4. UNCHANGED <<last, pc, client, seen, call>>
    BY <1>3 DEF EndSync, SyncTime
  <2> QED
    BY <2>2, <2>3, <2>4, CallsStay, DrawsStay DEF NonceInv
<1>4. CASE SyncFails
  <2>1. SigningType' /\ UNCHANGED <<vars, client, seen, call>>
    <3>1. sync' \in Syncs /\ sync'.phase = "none"
      BY <1>4 DEF SyncFails, NoSync, Syncs
    <3> QED
      BY <1>4, <3>1, TypeStays DEF SyncFails, NonceInv, SigningType
  <2> QED
    BY <2>1, CallsStay, DrawsStay, StutterKeeps DEF NonceInv, vars
<1>5. CASE Tick
  <2>1. SigningType' /\ UNCHANGED <<vars, client, seen, call>>
    BY <1>5 DEF Tick, NonceInv, SigningType, HasTime
  <2> QED
    BY <2>1, CallsStay, DrawsStay, StutterKeeps DEF NonceInv, vars
<1>6. CASE ClockIsSet
  <2>1. drift' \in Int
    BY <1>6, SigningAssumption DEF SigningAssumption, ClockIsSet
  <2>2. UNCHANGED <<vars, client, now, sync, seen, call>> /\ trip' \in Int
    BY <1>6 DEF ClockIsSet, Unsynced
  <2>3. SigningType'
    BY <2>1, <2>2, TypeStays DEF NonceInv, SigningType
  <2> QED
    BY <2>2, <2>3, CallsStay, DrawsStay, StutterKeeps DEF NonceInv, vars
<1>7. CASE \E t \in Threads : Refuse(t)
  <2>1. SigningType' /\ UNCHANGED <<vars, client, seen, call>>
    BY <1>7 DEF Refuse, NonceInv, SigningType, HasTime
  <2> QED
    BY <2>1, CallsStay, DrawsStay, StutterKeeps DEF NonceInv, vars
<1> QED
  BY <1>1, <1>2, <1>3, <1>4, <1>5, <1>6, <1>7

(***************************************************************************)
(* A nonce is drawn: it is beyond every one there is.                      *)
(***************************************************************************)
LEMMA BeginNonceKeeps ==
  ASSUME NonceInv, NEW t \in Threads, BeginNonce(t)
  PROVE  NonceInv'
<1> DEFINE c == Signing("signing", 0, now, trip)
<1>1. c.phase = "signing" /\ c.stamp \in Int /\ c.verdict = "none"
  BY DEF Signing
<1>2. call' = [call EXCEPT ![t] = c] /\ UNCHANGED <<client, now, drift, sync, trip, seen>>
  BY DEF BeginNonce
<1> HIDE DEF c
<1>3. UNCHANGED last /\ IInv'
  <2>1. Local \in Int
    BY DEF NonceInv, SigningType, Local
  <2> QED
    BY <2>1, BeginKeeps DEF BeginNonce, BeginNext, NonceInv
<1>4. SigningType'
  BY <1>2, TypeStays DEF NonceInv, SigningType
<1>5. DrawnInCall'
  <2>1. \A u \in Threads : call'[u] = IF u = t THEN c ELSE call[u]
    BY <1>2 DEF NonceInv, CallsAreTold
  <2>2. \A u \in Threads \ {t} : pc'[u] = pc[u]
    BY DEF NonceInv, IInv, TypeOK, BeginNonce, BeginNext
  <2> QED
    BY <1>1, <2>1, <2>2 DEF NonceInv, DrawnInCall
<1>6. CallsAreTold' /\ StampsDiffer' /\ NotYetTaken' /\ RepeatsAreNew' /\ RefusedNoncesWereOvertaken'
  BY <1>1, <1>2, <1>3, CallMoves
<1> QED
  BY <1>3, <1>4, <1>5, <1>6 DEF NonceInv

LEMMA DrawNonceKeeps ==
  ASSUME NonceInv, NEW t \in Threads, DrawNonce(t)
  PROVE  NonceInv'
<1>1. CASE (Load(t) \/ SwapFails(t)) /\ UNCHANGED <<client, now, drift, sync, trip, call, seen>>
  <2>1. SigningType'
    BY <1>1, TypeStays DEF NonceInv, SigningType
  <2>2. IInv' /\ UNCHANGED last
    BY <1>1, LoadKeeps DEF NonceInv, Load, SwapFails
  <2>3. DrawnInCall'
    BY <1>1 DEF NonceInv, IInv, TypeOK, DrawnInCall, Load, SwapFails
  <2> QED
    BY <1>1, <2>1, <2>2, <2>3, CallsStay DEF NonceInv
<1>2. CASE /\ Swap(t)
           /\ call' = [call EXCEPT ![t] = Signing("signed", result'[t], call[t].at, call[t].trip)]
           /\ UNCHANGED <<client, now, drift, sync, trip, signed, seen>>
  <2> DEFINE nonce == NextNonce(t)
             c == Signing("signed", result'[t], call[t].at, call[t].trip)
  <2>1. /\ nonce \in Nat /\ nonce > last /\ last \in Nat /\ last' = nonce /\ nonce > 0
        /\ result'[t] = nonce
    BY <1>2 DEF NonceInv, IInv, TypeOK, Swap, InPlace, NextNonce, Greater
  <2> HIDE DEF nonce
  <2>2. c.phase = "signed" /\ c.stamp = nonce /\ c.verdict = "none"
    BY <2>1 DEF Signing
  <2>3. call' = [call EXCEPT ![t] = c]
    BY <1>2
  <2> HIDE DEF c
  <2>4. /\ call' = [u \in Threads |-> IF u = t THEN c ELSE call[u]]
        /\ \A u \in Threads : call'[u] = IF u = t THEN c ELSE call[u]
    BY <2>3 DEF NonceInv, CallsAreTold
  <2>5. SigningType'
    BY <1>2, TypeStays DEF NonceInv, SigningType
  <2>6. CallsAreTold'
    BY <2>1, <2>2, <2>4 DEF NonceInv, CallsAreTold
  <2>7. seen.nonce \in Int /\ seen.nonce <= last /\ seen' = seen
    BY <1>2 DEF NonceInv, SigningType, StampsDiffer
  <2>8. StampsDiffer'
    <3>1. \A u \in Threads : UnderWay(u) =>
            call[u].stamp \in Int /\ call[u].stamp <= last /\ call[u].stamp > 0
      BY DEF NonceInv, CallsAreTold, StampsDiffer
    <3>2. \A u \in Threads \ {t} : (UnderWay(u)' <=> UnderWay(u)) /\ call'[u].stamp = call[u].stamp
      BY <2>4 DEF UnderWay
    <3>3. call'[t].stamp = nonce
      BY <2>2, <2>4
    <3>4. seen'.nonce <= last'
      BY <2>1, <2>7
    <3>5. \A u \in Threads : UnderWay(u)' => call'[u].stamp > 0 /\ call'[u].stamp <= last'
      BY <2>1, <3>1, <3>2, <3>3
    <3>6. \A u \in Threads \ {t} : UnderWay(u)' => call'[u].stamp # nonce
      BY <2>1, <3>1, <3>2
    <3>7. \A u, v \in Threads : u # v /\ UnderWay(u)' /\ UnderWay(v)' => call'[u].stamp # call'[v].stamp
      BY <3>2, <3>3, <3>6 DEF NonceInv, StampsDiffer
    <3> QED
      BY <3>4, <3>5, <3>7 DEF StampsDiffer
  <2>9. NotYetTaken'
    BY <2>1, <2>2, <2>4, <2>7 DEF NonceInv, NotYetTaken
  <2>10. RepeatsAreNew'
    BY <2>2, <2>4, <2>7 DEF NonceInv, RepeatsAreNew
  <2>11. RefusedNoncesWereOvertaken'
    BY <1>2, <2>2, <2>4 DEF NonceInv, RefusedNoncesWereOvertaken, Scheme
  <2>12. IInv'
    BY <1>2, SwapKeeps DEF NonceInv
  <2>13. DrawnInCall'
    BY <1>2, <2>4 DEF NonceInv, IInv, TypeOK, DrawnInCall, Swap
  <2> QED
    BY <2>5, <2>6, <2>8, <2>9, <2>10, <2>11, <2>12, <2>13 DEF NonceInv
<1> QED
  BY <1>1, <1>2 DEF DrawNonce

(***************************************************************************)
(* The request is judged, sent again, or its answer is read.               *)
(***************************************************************************)
LEMMA VenueHandlesKeeps ==
  ASSUME NonceInv, Scheme.nonce, NEW t \in Threads, VenueHandles(t)
  PROVE  NonceInv'
<1>1. PICK verdict \in {"judged", "stale", "tooMany"} :
        /\ verdict # "tooMany" => (verdict = "stale" <=> call[t].stamp <= seen.nonce)
        /\ call' = [call EXCEPT ![t] = Judged(call[t].stamp, verdict, seen.nonce, seen.by)]
        /\ seen' = IF verdict = "judged" THEN [nonce |-> call[t].stamp, by |-> t] ELSE seen
  BY DEF VenueHandles, Passed
<1> DEFINE c == Judged(call[t].stamp, verdict, seen.nonce, seen.by)
<1>2. /\ c.phase = "answered" /\ c.stamp = call[t].stamp /\ c.verdict = verdict
      /\ c.past = seen.nonce /\ c.by = seen.by
  BY DEF Judged
<1>3. call' = [call EXCEPT ![t] = c] /\ UNCHANGED <<vars, client, now, drift, sync, trip>>
  BY <1>1 DEF VenueHandles
<1> HIDE DEF c
<1>4. call[t].phase = "signed" /\ UnderWay(t)
  BY DEF VenueHandles, UnderWay
<1>5. /\ call[t].stamp \in Int /\ seen.nonce \in Int
      /\ call[t].stamp # seen.nonce /\ (seen.by = t => call[t].stamp > seen.nonce)
  BY <1>4 DEF NonceInv, SigningType, CallsAreTold, NotYetTaken
<1>6. IInv' /\ DrawnInCall'
  <2>1. \A u \in Threads : u # t => call'[u] = call[u]
    BY <1>3 DEF NonceInv, CallsAreTold
  <2>2. pc[t] = "idle" /\ pc' = pc
    BY <1>3, <1>4 DEF NonceInv, DrawnInCall, vars
  <2> QED
    BY <1>3, <2>1, <2>2, StutterKeeps DEF NonceInv, DrawnInCall
<1>7. CASE verdict # "judged"
  <2>1. SigningType' /\ UNCHANGED <<last, client, seen>>
    BY <1>1, <1>3, <1>7, TypeStays DEF NonceInv, SigningType, vars
  <2>2. c.verdict = "stale" => c.past > c.stamp /\ c.by # t
    BY <1>1, <1>2, <1>5
  <2>3. CallsAreTold' /\ StampsDiffer' /\ NotYetTaken' /\ RepeatsAreNew' /\ RefusedNoncesWereOvertaken'
    BY <1>2, <1>3, <1>4, <1>5, <2>1, <2>2, CallMoves
  <2> QED
    BY <1>6, <2>1, <2>3 DEF NonceInv
<1>8. CASE verdict = "judged"
  <2>1. seen' = [nonce |-> call[t].stamp, by |-> t] /\ call[t].stamp > seen.nonce
    BY <1>1, <1>5, <1>8
  <2>2. seen'.nonce = call[t].stamp /\ seen'.by = t
    BY <2>1
  <2>3. /\ call' = [u \in Threads |-> IF u = t THEN c ELSE call[u]]
        /\ \A u \in Threads : call'[u] = IF u = t THEN c ELSE call[u]
    BY <1>3 DEF NonceInv, CallsAreTold
  <2>4. SigningType'
    BY <1>3, <1>5, <2>2 DEF NonceInv, SigningType, HasTime
  <2>5. CallsAreTold'
    BY <1>2, <1>5, <2>3 DEF NonceInv, CallsAreTold
  <2>6. StampsDiffer'
    BY <1>2, <1>3, <1>4, <2>2, <2>3 DEF NonceInv, StampsDiffer, UnderWay, vars
  <2>7. \A u \in Threads \ {t} : UnderWay(u) => call[u].stamp # call[t].stamp
    BY <1>4 DEF NonceInv, StampsDiffer
  <2>8. NotYetTaken'
    BY <1>2, <2>2, <2>3, <2>7 DEF NotYetTaken, UnderWay
  <2>9. RepeatsAreNew'
    BY <1>2, <1>8, <2>2, <2>3, <2>7 DEF RepeatsAreNew, UnderWay
  <2>10. RefusedNoncesWereOvertaken'
    BY <1>2, <1>3, <1>8, <2>3 DEF NonceInv, RefusedNoncesWereOvertaken, Scheme
  <2> QED
    BY <1>6, <2>4, <2>5, <2>6, <2>8, <2>9, <2>10 DEF NonceInv
<1> QED
  BY <1>7, <1>8

LEMMA AnswerKeeps ==
  ASSUME NonceInv, NEW t \in Threads, GatewayAnswers(t) \/ Repeat(t) \/ Read(t)
  PROVE  NonceInv'
<1>1. UNCHANGED <<vars, client, now, drift, sync, trip, seen>> /\ UnderWay(t)
  BY DEF GatewayAnswers, Repeat, Read, UnderWay
<1>2. SigningType' /\ IInv' /\ UNCHANGED <<last, pc>>
  BY <1>1, TypeStays, StutterKeeps DEF NonceInv, SigningType, vars
<1>3. pc[t] = "idle"
  BY <1>1 DEF NonceInv, DrawnInCall, UnderWay
<1>4. call[t].stamp \in Int
  BY DEF NonceInv, CallsAreTold
<1>5. CASE GatewayAnswers(t)
  <2> DEFINE c == Judged(call[t].stamp, "page", 0, "nobody")
  <2>1. c.phase = "answered" /\ c.stamp = call[t].stamp /\ c.verdict = "page"
    BY DEF Judged
  <2>2. call' = [call EXCEPT ![t] = c] /\ call[t].phase = "signed"
    BY <1>5 DEF GatewayAnswers
  <2> HIDE DEF c
  <2>3. DrawnInCall'
    BY <1>2, <1>3, <2>2 DEF NonceInv, CallsAreTold, DrawnInCall
  <2>4. c.stamp # seen.nonce /\ (seen.by = t => c.stamp > seen.nonce)
    BY <2>1, <2>2 DEF NonceInv, NotYetTaken
  <2> QED
    BY <1>1, <1>2, <1>4, <2>1, <2>2, <2>3, <2>4, CallMoves DEF NonceInv
<1>6. CASE Repeat(t)
  <2> DEFINE c == Signing("signed", call[t].stamp, 0, Unsynced)
  <2>1. c.phase = "signed" /\ c.stamp = call[t].stamp /\ c.verdict = "none"
    BY DEF Signing
  <2>2. call' = [call EXCEPT ![t] = c] /\ call[t].phase = "answered"
    BY <1>6 DEF Repeat
  <2> HIDE DEF c
  <2>3. DrawnInCall'
    BY <1>2, <1>3, <2>2 DEF NonceInv, CallsAreTold, DrawnInCall
  <2>4. call[t].verdict \notin {"judged", "stale"}
    BY <1>6, JudgedIsFinal DEF Repeat
  <2>5. c.stamp # seen.nonce /\ (seen.by = t => c.stamp > seen.nonce)
    BY <2>1, <2>2, <2>4 DEF NonceInv, CallsAreTold, RepeatsAreNew
  <2> QED
    BY <1>1, <1>2, <1>4, <2>1, <2>2, <2>3, <2>5, CallMoves DEF NonceInv
<1>7. CASE Read(t)
  <2>1. NoCall.phase = "idle" /\ NoCall.stamp \in Int /\ NoCall.verdict = "none"
    BY DEF NoCall, Signing
  <2>2. call' = [call EXCEPT ![t] = NoCall]
    BY <1>7 DEF Read
  <2>3. DrawnInCall'
    BY <1>2, <1>3, <2>2 DEF NonceInv, CallsAreTold, DrawnInCall
  <2>4. CallsAreTold' /\ StampsDiffer' /\ NotYetTaken' /\ RepeatsAreNew' /\ RefusedNoncesWereOvertaken'
    BY <1>1, <1>2, <2>1, <2>2, CallMoves
  <2> QED
    BY <1>2, <2>3, <2>4 DEF NonceInv
<1> QED
  BY <1>5, <1>6, <1>7

(***************************************************************************)
(* The invariant holds at first, and every step keeps it.                  *)
(***************************************************************************)
LEMMA SInvInit ==
  ASSUME SigningInit
  PROVE  SInv
<1>1. client \in Clients
  BY DEF SigningInit
<1>2. NoCall.phase = "idle" /\ NoCall.stamp = 0 /\ NoCall.verdict = "none"
  BY DEF NoCall, Signing
<1>3. call = [t \in Threads |-> NoCall] /\ \A t \in Threads : call[t] = NoCall
  BY DEF SigningInit
<1>4. IInv
  BY InvInit DEF SigningInit
<1>5. SigningType
  <2>1. sync = [phase |-> "none", before |-> 0, at |-> 0, server |-> 0, trip |-> 0]
    BY DEF SigningInit, NoSync
  <2>2. sync \in Syncs /\ sync.phase = "none"
    BY <2>1 DEF Syncs
  <2>3. drift \in Int
    BY SigningAssumption DEF SigningAssumption, SigningInit
  <2> QED
    BY <2>2, <2>3 DEF SigningInit, SigningType, Unsynced
<1>6. CallsAreTold
  BY <1>2, <1>3 DEF CallsAreTold
<1>7. DrawnInCall
  BY DEF SigningInit, Init, DrawnInCall
<1>8. StampsDiffer
  BY <1>2, <1>3 DEF SigningInit, Init, StampsDiffer, UnderWay
<1>9. NotYetTaken /\ RepeatsAreNew /\ RefusedNoncesWereOvertaken
  BY <1>2, <1>3 DEF NotYetTaken, RepeatsAreNew, RefusedNoncesWereOvertaken
<1> QED
  BY <1>1, <1>4, <1>5, <1>6, <1>7, <1>8, <1>9 DEF SInv, NonceInv

LEMMA SInvStep ==
  ASSUME SInv, [SigningNext]_<<vars, clientVars>>
  PROVE  SInv'
<1>1. UNCHANGED client
  BY DEF SigningNext, clientVars, Refuse, Read, BeginSync, VenueTellsTime, EndSync, SyncFails,
         SignByClock, BeginNonce, DrawNonce, VenueHandles, GatewayAnswers, Repeat, Tick,
         ClockIsSet
<1>2. ASSUME Scheme.nonce PROVE NonceInv'
  <2>1. NonceInv
    BY <1>2 DEF SInv
  <2>2. CASE SigningNext
    <3>1. CASE \E t \in Threads : Refuse(t)
      BY <1>2, <2>1, <3>1, ClockSteps
    <3>2. CASE \E t \in Threads : Read(t) \/ GatewayAnswers(t) \/ Repeat(t)
      BY <2>1, <3>2, AnswerKeeps
    <3>3. CASE BeginSync \/ VenueTellsTime \/ EndSync \/ SyncFails \/ Tick \/ ClockIsSet
      BY <1>2, <2>1, <3>3, ClockSteps
    <3>4. CASE \E t \in Threads : BeginNonce(t)
      BY <2>1, <3>4, BeginNonceKeeps
    <3>5. CASE \E t \in Threads : DrawNonce(t)
      BY <2>1, <3>5, DrawNonceKeeps
    <3>6. CASE \E t \in Threads : VenueHandles(t)
      BY <1>2, <2>1, <3>6, VenueHandlesKeeps
    <3>7. ~ \E t \in Threads : SignByClock(t)
      BY <1>2 DEF SignByClock
    <3> QED
      BY <2>2, <3>1, <3>2, <3>3, <3>4, <3>5, <3>6, <3>7 DEF SigningNext
  <2>3. CASE UNCHANGED <<vars, clientVars>>
    <3>1. SigningType' /\ UNCHANGED <<vars, client, seen, call>>
      BY <2>1, <2>3, TypeStays DEF clientVars, NonceInv, SigningType
    <3> QED
      BY <2>1, <3>1, CallsStay, DrawsStay, StutterKeeps DEF NonceInv, vars
  <2> QED
    BY <2>2, <2>3
<1> QED
  BY <1>1, <1>2 DEF SInv, Scheme

(***************************************************************************)
(* A nonce is refused only when another thread's, drawn later, came before *)
(* it: for any number of threads and calls, and however the clocks move    *)
(* (clock.rs:47-50, kraken.rs:210-216).                                    *)
(***************************************************************************)
THEOREM RefusedOnlyWhenOvertaken == SigningSpec => []RefusedNoncesWereOvertaken
<1>1. SigningInit => SInv
  BY SInvInit
<1>2. SInv /\ [SigningNext]_<<vars, clientVars>> => SInv'
  BY SInvStep
<1>3. SInv => RefusedNoncesWereOvertaken
  BY DEF SInv, NonceInv, RefusedNoncesWereOvertaken
<1> QED
  BY <1>1, <1>2, <1>3, PTL DEF SigningSpec

(***************************************************************************)
(* The nonces that the client hands out increase, in the same system.      *)
(***************************************************************************)
THEOREM NoncesOfTheClientIncrease ==
  SigningSpec => [](Scheme.nonce => NoncesIncrease)
<1>1. SigningInit => SInv
  BY SInvInit
<1>2. SInv /\ [SigningNext]_<<vars, clientVars>> => SInv'
  BY SInvStep
<1>3. SInv => (Scheme.nonce => NoncesIncrease)
  BY DEF SInv, NonceInv, IInv, TypeOK, NoncesIncrease
<1> QED
  BY <1>1, <1>2, <1>3, PTL DEF SigningSpec
-----------------------------------------------------------------------------
(***************************************************************************)
(* A stamp counts whole units, so it is behind its time by less than one.  *)
(***************************************************************************)
LEMMA Rounding ==
  ASSUME NEW ms \in Int, NEW unit \in Nat \ {0}
  PROVE  /\ (ms \div unit) * unit \in Int
         /\ (ms \div unit) * unit <= ms
         /\ (ms \div unit) * unit >= ms - (unit - 1)
<1>1. unit \in Int /\ unit > 0
  OBVIOUS
<1>2. (ms \div unit) * unit \in Int
  BY <1>1
<1>3. (ms \div unit) * unit <= ms
  BY <1>1
<1>4. (ms \div unit) * unit > ms - unit
  BY <1>1
<1> QED
  BY <1>2, <1>3, <1>4

\* The unit of a stamp and the precision of the venue's time.
LEMMA Units ==
  ASSUME client \in Clients
  PROVE  /\ client.venue \in Venues
         /\ Scheme.unit \in Nat \ {0} /\ Precision \in Nat \ {0}
         /\ client.venue \in {"Kraken", "KrakenFutures"} => Precision = Second
         /\ client.venue \notin {"Kraken", "KrakenFutures"} => Precision = 1
<1>1. client.venue \in Venues
  BY SigningAssumption DEF SigningAssumption
<1> Second \in Nat \ {0}
  BY SigningAssumption DEF SigningAssumption
<1>2. \A needs : ByClock(needs, 1).unit = 1 /\ ByClock(needs, Second).unit = Second
  BY DEF ByClock
<1>3. ByNonce.unit = 1
  BY DEF ByNonce
<1>4. \A v \in Venues : Signs[v].unit \in {1, Second}
  <2>1. /\ Signs["Binance"] = BinanceSigns /\ Signs["Bitget"] = BitgetSigns
        /\ Signs["Bybit"] = BybitSigns /\ Signs["Coinbase"] = CoinbaseSigns
        /\ Signs["Gate"] = GateSigns /\ Signs["Htx"] = HtxSigns
        /\ Signs["Kraken"] = KrakenSigns /\ Signs["KrakenFutures"] = KrakenFuturesSigns
        /\ Signs["KuCoin"] = KuCoinSigns /\ Signs["Okx"] = OkxSigns
        /\ Signs["Upbit"] = UpbitSigns
    BY DEF Signs
  <2>2. /\ BinanceSigns.unit = 1 /\ BitgetSigns.unit = 1 /\ BybitSigns.unit = 1
        /\ CoinbaseSigns.unit = Second /\ GateSigns.unit = Second /\ HtxSigns.unit = Second
        /\ KrakenSigns.unit = 1 /\ KrakenFuturesSigns.unit = 1 /\ KuCoinSigns.unit = 1
        /\ OkxSigns.unit = 1 /\ UpbitSigns.unit = 1
    <3>1. CoinbaseSigns.unit = Second
      BY <1>2, Zenon DEF CoinbaseSigns
    <3> QED
      BY <1>2, <1>3, <3>1 DEF BinanceSigns, BitgetSigns, BybitSigns, GateSigns, HtxSigns,
             KrakenSigns, KrakenFuturesSigns, KuCoinSigns, OkxSigns, UpbitSigns
  <2> QED
    BY <2>1, <2>2 DEF Venues
<1>5. Scheme.unit \in {1, Second}
  BY <1>1, <1>4 DEF Scheme, Venues
<1> QED
  BY <1>1, <1>5 DEF Precision

(***************************************************************************)
(* The venue's time is read to the precision it is told with.              *)
(***************************************************************************)
LEMMA TimeIsTold ==
  ASSUME client \in Clients, HasTime, NEW ms \in Int
  PROVE  /\ ServerTime(ms) \in Int
         /\ ServerTime(ms) <= ms /\ ServerTime(ms) >= ms - (Precision - 1)
<1>1. CASE client.venue \in {"Kraken", "KrakenFutures"}
  <2>1. ServerTime(ms) = (ms \div Second) * Second
    BY <1>1 DEF ServerTime, KrakenTime, Seconds
  <2>2. Precision = Second /\ Precision \in Nat \ {0}
    BY <1>1, Units
  <2> QED
    BY <2>1, <2>2, Rounding
<1>2. CASE client.venue \notin {"Kraken", "KrakenFutures"}
  <2>1. client.venue \in Venues \ {"Kraken", "KrakenFutures", "Upbit"} /\ Precision = 1
    BY <1>2, Units DEF HasTime
  <2>2. ServerTime(ms) = ms
    BY <2>1 DEF Venues, ServerTime, BinanceTime, BitgetTime, BybitTime, CoinbaseTime, GateTime,
           HtxTime, KuCoinTime, OkxTime
  <2> QED
    BY <2>1, <2>2
<1> QED
  BY <1>1, <1>2

(***************************************************************************)
(* The second invariant: what a sync has been told is the venue's time on  *)
(* its way, the offset is as far from the local clock as the last sync     *)
(* left it while that clock was not set, and a call that draws a nonce     *)
(* took its candidate from that.                                           *)
(***************************************************************************)
ClockType == now \in Int /\ drift \in Int /\ trip \in Int

SyncIsTimely ==
  /\ sync.phase \in {"none", "asked", "answered"}
  /\ sync.phase # "none" => HasTime /\ sync.before \in Int /\ sync.at \in Int /\ sync.at <= now
  /\ sync.phase = "answered" =>
       /\ sync.server \in Int /\ sync.trip \in Nat
       /\ sync.server <= sync.at + sync.trip
       /\ sync.server >= sync.at + sync.trip - (Precision - 1)

OffsetIsTimely ==
  trip # Unsynced =>
    /\ trip \in Nat
    /\ offset_ms + drift <= trip
    /\ offset_ms + drift >= trip - (Precision - 1)

CallIsTimely(t) ==
  /\ call[t].at \in Int /\ call[t].trip \in Int /\ call[t].stamp \in Int
  /\ call[t].phase = "answered" => call[t].verdict \in {"judged", "stale", "tooMany", "page"}
  /\ pc[t] # "idle" => call[t].phase = "signing"
  /\ call[t].phase = "signing" /\ call[t].trip # Unsynced =>
       candidate[t] >= call[t].at - (Precision - 1)
  /\ call[t].phase = "signing" => Scheme.nonce
  /\ call[t].phase = "signed" /\ call[t].trip # Unsynced =>
       /\ call[t].stamp >= call[t].at - (Precision - 1) - (Scheme.unit - 1)
       /\ ~Scheme.nonce => call[t].stamp <= call[t].at + call[t].trip

CallsAreTimely ==
  /\ call = [t \in Threads |-> call[t]]
  /\ \A t \in Threads : CallIsTimely(t)

TimelyInv ==
  /\ client \in Clients
  /\ IInv /\ ClockType /\ SyncIsTimely /\ OffsetIsTimely /\ CallsAreTimely

(***************************************************************************)
(* The initial state, and a step that is none of what the invariant is     *)
(* about.                                                                  *)
(***************************************************************************)
LEMMA TimelyInit ==
  ASSUME SigningInit
  PROVE  TimelyInv
<1>1. client \in Clients /\ IInv
  BY InvInit DEF SigningInit
<1>2. ClockType /\ SyncIsTimely /\ OffsetIsTimely
  <2>1. drift \in Int
    BY SigningAssumption DEF SigningAssumption, SigningInit
  <2>2. sync.phase = "none"
    BY DEF SigningInit, NoSync
  <2> QED
    BY <2>1, <2>2 DEF SigningInit, Unsynced, ClockType, SyncIsTimely, OffsetIsTimely
<1>3. CallsAreTimely
  <2>1. /\ NoCall.phase = "idle" /\ NoCall.stamp = 0 /\ NoCall.at = 0 /\ NoCall.trip = Unsynced
    BY DEF NoCall, Signing
  <2>2. call = [t \in Threads |-> NoCall] /\ \A t \in Threads : call[t] = NoCall
    BY DEF SigningInit
  <2>3. \A t \in Threads : pc[t] = "idle"
    BY DEF SigningInit, Init
  <2> QED
    BY <2>1, <2>2, <2>3 DEF CallsAreTimely, CallIsTimely, Unsynced
<1> QED
  BY <1>1, <1>2, <1>3 DEF TimelyInv

\* A step that changes no call, thread or client.
LEMMA CallsStayTimely ==
  ASSUME CallsAreTimely, UNCHANGED <<client, call, pc, candidate>>
  PROVE  CallsAreTimely'
BY DEF CallsAreTimely, CallIsTimely, Scheme, Precision

\* A step that changes one call, and of the threads at most its own.
LEMMA CallMovesTimely ==
  ASSUME CallsAreTimely, NEW t \in Threads, NEW c,
         call' = [call EXCEPT ![t] = c], UNCHANGED client,
         \A u \in Threads \ {t} : pc'[u] = pc[u] /\ candidate'[u] = candidate[u],
         CallIsTimely(t)'
  PROVE  CallsAreTimely'
<1>1. call' = [u \in Threads |-> IF u = t THEN c ELSE call[u]]
  BY DEF CallsAreTimely
<1>2. \A u \in Threads : call'[u] = IF u = t THEN c ELSE call[u]
  BY <1>1
<1>3. ASSUME NEW u \in Threads \ {t} PROVE CallIsTimely(u)'
  BY <1>2, <1>3 DEF CallsAreTimely, CallIsTimely, Scheme, Precision
<1> QED
  BY <1>1, <1>2, <1>3 DEF CallsAreTimely

LEMMA ClocksStay ==
  ASSUME ClockType, SyncIsTimely, OffsetIsTimely,
         UNCHANGED <<client, now, drift, sync, trip, offset_ms>>
  PROVE  ClockType' /\ SyncIsTimely' /\ OffsetIsTimely'
BY DEF ClockType, SyncIsTimely, OffsetIsTimely, Precision, HasTime

(***************************************************************************)
(* The sync and the clocks.                                                *)
(***************************************************************************)
LEMMA SyncStepsKeep ==
  ASSUME TimelyInv,
         BeginSync \/ VenueTellsTime \/ EndSync \/ SyncFails \/ Tick \/ ClockIsSet
  PROVE  TimelyInv'
<1> /\ client \in Clients /\ IInv /\ ClockType /\ SyncIsTimely /\ OffsetIsTimely
    /\ CallsAreTimely
  BY DEF TimelyInv
<1>1. UNCHANGED <<client, call, pc, candidate>>
  BY DEF BeginSync, VenueTellsTime, EndSync, SyncFails, Tick, ClockIsSet, SyncTime, vars
<1>2. client' \in Clients /\ CallsAreTimely' /\ Precision' = Precision /\ HasTime' = HasTime
  BY <1>1, CallsStayTimely DEF Precision, HasTime
<1>3. Precision \in Nat \ {0} /\ offset_ms \in Int
  BY Units DEF IInv, TypeOK
<1>4. CASE BeginSync
  <2>1. Local \in Int
    BY DEF ClockType, Local
  <2>2. sync' = [phase |-> "asked", before |-> Local, at |-> now, server |-> 0, trip |-> 0]
    BY <1>4 DEF BeginSync, NoSync
  <2>3. UNCHANGED <<vars, now, drift, trip>> /\ HasTime
    BY <1>4 DEF BeginSync
  <2>4. ClockType' /\ SyncIsTimely'
    BY <1>2, <2>1, <2>2, <2>3 DEF ClockType, SyncIsTimely
  <2>5. OffsetIsTimely'
    BY <1>2, <2>3 DEF OffsetIsTimely, vars
  <2> QED
    BY <1>2, <2>3, <2>4, <2>5, StutterKeeps DEF TimelyInv
<1>5. CASE VenueTellsTime
  <2>1. /\ sync.at \in Int /\ sync.before \in Int /\ sync.at <= now /\ now \in Int /\ HasTime
    BY <1>5 DEF VenueTellsTime, SyncIsTimely, ClockType
  <2> DEFINE told == ServerTime(now)
  <2>2. told \in Int /\ told <= now /\ told >= now - (Precision - 1)
    BY <2>1, TimeIsTold
  <2> HIDE DEF told
  <2>3. /\ sync'.phase = "answered" /\ sync'.before = sync.before /\ sync'.at = sync.at
        /\ sync'.server = told /\ sync'.trip = now - sync.at
    BY <1>5 DEF VenueTellsTime, told
  <2>4. UNCHANGED <<vars, now, drift, trip>>
    BY <1>5 DEF VenueTellsTime
  <2>5. SyncIsTimely'
    BY <1>2, <1>3, <2>1, <2>2, <2>3, <2>4 DEF SyncIsTimely
  <2>6. ClockType' /\ OffsetIsTimely'
    BY <1>2, <2>4 DEF ClockType, OffsetIsTimely, vars
  <2> QED
    BY <1>2, <2>4, <2>5, <2>6, StutterKeeps DEF TimelyInv
<1>6. CASE EndSync
  <2>1. /\ sync.at \in Int /\ sync.before \in Int /\ sync.server \in Int /\ sync.trip \in Nat
        /\ sync.server <= sync.at + sync.trip
        /\ sync.server >= sync.at + sync.trip - (Precision - 1)
        /\ now \in Int /\ drift \in Int
    BY <1>6 DEF EndSync, SyncIsTimely, ClockType
  <2>2. Offset \in Int /\ Offset = sync.server - sync.before /\ offset_ms' = Offset
    BY <1>6, <2>1 DEF EndSync, SyncTime, Offset
  <2>3. /\ trip' = IF sync.before = sync.at + drift THEN sync.trip ELSE Unsynced
        /\ UNCHANGED <<now, drift>>
    BY <1>6 DEF EndSync
  <2>4. sync'.phase = "none"
    BY <1>6 DEF EndSync, NoSync
  <2>5. ClockType' /\ SyncIsTimely'
    BY <2>1, <2>3, <2>4 DEF ClockType, SyncIsTimely, Unsynced
  <2>6. OffsetIsTimely'
    <3>1. CASE sync.before = sync.at + drift
      BY <1>2, <1>3, <2>1, <2>2, <2>3, <3>1 DEF OffsetIsTimely
    <3>2. CASE sync.before # sync.at + drift
      BY <2>3, <3>2 DEF OffsetIsTimely
    <3> QED
      BY <3>1, <3>2
  <2>7. IInv'
    BY <1>6, <2>2, SyncKeeps DEF EndSync
  <2> QED
    BY <1>2, <2>5, <2>6, <2>7 DEF TimelyInv
<1>7. CASE SyncFails
  <2>1. UNCHANGED <<vars, now, drift, trip>> /\ sync'.phase = "none"
    BY <1>7 DEF SyncFails, NoSync
  <2>2. ClockType' /\ SyncIsTimely' /\ OffsetIsTimely'
    BY <1>2, <2>1 DEF ClockType, SyncIsTimely, OffsetIsTimely, vars
  <2> QED
    BY <1>2, <2>1, <2>2, StutterKeeps DEF TimelyInv
<1>8. CASE Tick
  <2>1. UNCHANGED <<vars, drift, trip, sync>> /\ now' = now + 1
    BY <1>8 DEF Tick
  <2>2. ClockType' /\ SyncIsTimely' /\ OffsetIsTimely'
    BY <1>2, <2>1 DEF ClockType, SyncIsTimely, OffsetIsTimely, vars
  <2> QED
    BY <1>2, <2>1, <2>2, StutterKeeps DEF TimelyInv
<1>9. CASE ClockIsSet
  <2>1. UNCHANGED <<vars, now, sync>> /\ trip' = Unsynced
    BY <1>9 DEF ClockIsSet
  <2>2. drift' \in Int
    BY <1>9, SigningAssumption DEF SigningAssumption, ClockIsSet
  <2>3. ClockType' /\ SyncIsTimely' /\ OffsetIsTimely'
    BY <1>2, <2>1, <2>2 DEF ClockType, SyncIsTimely, OffsetIsTimely, Unsynced
  <2> QED
    BY <1>2, <2>1, <2>3, StutterKeeps DEF TimelyInv
<1> QED
  BY <1>4, <1>5, <1>6, <1>7, <1>8, <1>9

(***************************************************************************)
(* A request is stamped: by the clock, or by a nonce that is drawn.        *)
(***************************************************************************)
LEMMA SignByClockKeeps ==
  ASSUME TimelyInv, NEW t \in Threads, SignByClock(t)
  PROVE  TimelyInv'
<1> /\ client \in Clients /\ IInv /\ ClockType /\ SyncIsTimely /\ OffsetIsTimely
    /\ CallsAreTimely
  BY DEF TimelyInv
<1> DEFINE time == server_time_ms(Local)
           stamp == Stamp(time)
           c == Signing("signed", stamp, now, trip)
<1>1. UNCHANGED <<vars, client, now, drift, sync, trip>> /\ ~Scheme.nonce /\ pc[t] = "idle"
  BY DEF SignByClock, CallsAreTimely, CallIsTimely
<1>2. /\ time \in Int /\ time = now + drift + offset_ms
      /\ now \in Int /\ drift \in Int /\ trip \in Int /\ offset_ms \in Int
  BY DEF IInv, TypeOK, ClockType, Local, server_time_ms
<1> HIDE DEF time
<1>3. stamp \in Int /\ stamp <= time /\ stamp >= time - (Scheme.unit - 1)
  BY <1>2, Units, Rounding DEF Stamp
<1>4. call' = [call EXCEPT ![t] = c]
  BY DEF SignByClock, time
<1> HIDE DEF stamp
<1>5. /\ c.phase = "signed" /\ c.stamp = stamp /\ c.at = now /\ c.trip = trip
  BY DEF Signing
<1> HIDE DEF c
<1>6. call'[t] = c
  BY <1>4 DEF CallsAreTimely
<1>7. Precision \in Nat \ {0} /\ Scheme.unit \in Nat \ {0}
  BY Units
<1>8. trip # Unsynced =>
        /\ stamp >= now - (Precision - 1) - (Scheme.unit - 1)
        /\ stamp <= now + trip
  BY <1>2, <1>3, <1>7 DEF OffsetIsTimely
<1>9. Scheme' = Scheme /\ Precision' = Precision /\ pc' = pc
  BY <1>1 DEF Scheme, Precision, vars
<1>10. CallIsTimely(t)'
  BY <1>1, <1>2, <1>3, <1>5, <1>6, <1>8, <1>9 DEF CallIsTimely
<1>11. CallsAreTimely'
  BY <1>1, <1>4, <1>10, CallMovesTimely DEF vars
<1> QED
  BY <1>1, <1>11, ClocksStay, StutterKeeps DEF TimelyInv, vars

LEMMA BeginNonceKeepsTime ==
  ASSUME TimelyInv, NEW t \in Threads, BeginNonce(t)
  PROVE  TimelyInv'
<1> /\ client \in Clients /\ IInv /\ ClockType /\ SyncIsTimely /\ OffsetIsTimely
    /\ CallsAreTimely
  BY DEF TimelyInv
<1> DEFINE c == Signing("signing", 0, now, trip)
<1>1. c.phase = "signing" /\ c.stamp = 0 /\ c.at = now /\ c.trip = trip
  BY DEF Signing
<1>2. /\ UNCHANGED <<client, now, drift, sync, trip, offset_ms>> /\ Scheme.nonce
      /\ call' = [call EXCEPT ![t] = c] /\ BeginNext(t, Local)
  BY DEF BeginNonce, BeginNext
<1> HIDE DEF c
<1>3. call'[t] = c
  BY <1>2 DEF CallsAreTimely
<1>4. /\ Local \in Int /\ Local = now + drift
      /\ now \in Int /\ drift \in Int /\ trip \in Int /\ offset_ms \in Int
  BY DEF IInv, TypeOK, ClockType, Local
<1>5. candidate'[t] = Candidate(Local) /\ \A u \in Threads \ {t} : candidate'[u] = candidate[u]
  BY <1>2 DEF IInv, TypeOK, BeginNext
<1>6. \A u \in Threads \ {t} : pc'[u] = pc[u]
  BY <1>2 DEF IInv, TypeOK, BeginNext
<1>7. Candidate(Local) \in Int /\ Candidate(Local) >= Local + offset_ms
  BY <1>4 DEF Candidate, server_time_ms
<1>8. Scheme' = Scheme /\ Precision' = Precision /\ Precision \in Nat \ {0}
  BY <1>2, Units DEF Scheme, Precision
<1>9. trip # Unsynced => Candidate(Local) >= now - (Precision - 1)
  BY <1>4, <1>7, <1>8 DEF OffsetIsTimely
<1>10. CallIsTimely(t)'
  BY <1>1, <1>2, <1>3, <1>4, <1>5, <1>8, <1>9 DEF CallIsTimely
<1>11. CallsAreTimely'
  BY <1>2, <1>5, <1>6, <1>10, CallMovesTimely
<1>12. IInv'
  BY <1>2, <1>4, BeginKeeps
<1> QED
  BY <1>2, <1>11, <1>12, ClocksStay DEF TimelyInv

LEMMA DrawNonceKeepsTime ==
  ASSUME TimelyInv, NEW t \in Threads, DrawNonce(t)
  PROVE  TimelyInv'
<1> /\ client \in Clients /\ IInv /\ ClockType /\ SyncIsTimely /\ OffsetIsTimely
    /\ CallsAreTimely
  BY DEF TimelyInv
<1>1. /\ UNCHANGED <<client, now, drift, sync, trip, offset_ms, candidate>>
      /\ Scheme' = Scheme /\ Precision' = Precision
  BY DEF DrawNonce, Load, SwapFails, Swap, Scheme, Precision
<1>2. pc[t] # "idle" /\ call[t].phase = "signing" /\ Scheme.nonce
  BY DEF DrawNonce, Load, SwapFails, Swap, CallsAreTimely, CallIsTimely
<1>3. \A u \in Threads \ {t} : pc'[u] = pc[u]
  BY DEF DrawNonce, Load, SwapFails, Swap, IInv, TypeOK
<1>4. CASE (Load(t) \/ SwapFails(t)) /\ UNCHANGED call
  <2>1. CallsAreTimely'
    BY <1>1, <1>2, <1>3, <1>4 DEF CallsAreTimely, CallIsTimely
  <2> QED
    BY <1>1, <1>4, <2>1, LoadKeeps, ClocksStay DEF TimelyInv
<1>5. CASE /\ Swap(t)
           /\ call' = [call EXCEPT ![t] = Signing("signed", result'[t], call[t].at, call[t].trip)]
  <2> DEFINE nonce == NextNonce(t)
             c == Signing("signed", nonce, call[t].at, call[t].trip)
  <2>1. nonce \in Nat /\ nonce >= candidate[t] /\ candidate[t] \in Nat /\ result'[t] = nonce
    BY <1>5 DEF IInv, TypeOK, Swap, InPlace, NextNonce, Greater
  <2> HIDE DEF nonce
  <2>2. c.phase = "signed" /\ c.stamp = nonce /\ c.at = call[t].at /\ c.trip = call[t].trip
    BY DEF Signing
  <2>3. call' = [call EXCEPT ![t] = c]
    BY <1>5, <2>1
  <2> HIDE DEF c
  <2>4. call'[t] = c /\ pc'[t] = "idle"
    BY <1>5, <2>3 DEF CallsAreTimely, Swap, IInv, TypeOK
  <2>5. /\ call[t].at \in Int /\ call[t].trip \in Int
        /\ call[t].trip # Unsynced => candidate[t] >= call[t].at - (Precision - 1)
    BY <1>2 DEF CallsAreTimely, CallIsTimely
  <2>6. Precision \in Nat \ {0} /\ Scheme.unit \in Nat \ {0}
    BY Units
  <2>7. CallIsTimely(t)'
    BY <1>1, <1>2, <2>1, <2>2, <2>4, <2>5, <2>6 DEF CallIsTimely
  <2>8. CallsAreTimely'
    BY <1>1, <1>3, <2>3, <2>7, CallMovesTimely
  <2> QED
    BY <1>1, <1>5, <2>8, SwapKeeps, ClocksStay DEF TimelyInv
<1> QED
  BY <1>4, <1>5 DEF DrawNonce

(***************************************************************************)
(* A request is judged or sent again, and an answer is read.               *)
(***************************************************************************)
LEMMA AnswerKeepsTime ==
  ASSUME TimelyInv, NEW t \in Threads,
         Refuse(t) \/ VenueHandles(t) \/ GatewayAnswers(t) \/ Repeat(t) \/ Read(t)
  PROVE  TimelyInv'
<1> /\ client \in Clients /\ IInv /\ ClockType /\ SyncIsTimely /\ OffsetIsTimely
    /\ CallsAreTimely
  BY DEF TimelyInv
<1>1. UNCHANGED <<vars, client, now, drift, sync, trip>>
  BY DEF Refuse, VenueHandles, GatewayAnswers, Repeat, Read
<1>2. ClockType' /\ SyncIsTimely' /\ OffsetIsTimely' /\ IInv'
  BY <1>1, ClocksStay, StutterKeeps DEF vars
<1>3. CASE Refuse(t)
  BY <1>1, <1>2, <1>3, CallsStayTimely DEF TimelyInv, Refuse, vars
<1>4. CASE VenueHandles(t) \/ GatewayAnswers(t) \/ Repeat(t) \/ Read(t)
  <2> DEFINE Untimed(c) ==
               /\ c.at = 0 /\ c.trip = Unsynced /\ c.stamp \in {0, call[t].stamp}
               /\ c.phase \in {"idle", "signed", "answered"}
               /\ c.phase = "answered" => c.verdict \in {"judged", "stale", "tooMany", "page"}
  <2>1. \A past, by : \A verdict \in {"judged", "stale", "tooMany", "page"} :
          Untimed(Judged(call[t].stamp, verdict, past, by))
    BY DEF Judged
  <2>2. Untimed(Signing("signed", call[t].stamp, 0, Unsynced)) /\ Untimed(NoCall)
    BY DEF Signing, NoCall
  <2> HIDE DEF Untimed
  <2>3. PICK c : call' = [call EXCEPT ![t] = c] /\ Untimed(c)
    <3>1. CASE VenueHandles(t)
      <4>1. PICK verdict \in {"judged", "stale", "tooMany"} :
              call' = [call EXCEPT ![t] = Judged(call[t].stamp, verdict, seen.nonce, seen.by)]
        BY <3>1 DEF VenueHandles
      <4> QED
        BY <2>1, <4>1
    <3>2. CASE GatewayAnswers(t)
      <4>1. call' = [call EXCEPT ![t] = Judged(call[t].stamp, "page", 0, "nobody")]
        BY <3>2 DEF GatewayAnswers
      <4> QED
        BY <2>1, <4>1
    <3>3. CASE Repeat(t)
      BY <2>2, <3>3 DEF Repeat
    <3>4. CASE Read(t)
      BY <2>2, <3>4 DEF Read
    <3> QED
      BY <1>4, <3>1, <3>2, <3>3, <3>4
  <2>4. call'[t] = c /\ call[t].stamp \in Int
    BY <2>3 DEF CallsAreTimely, CallIsTimely
  <2>5. pc'[t] = "idle" /\ UNCHANGED <<pc, candidate>>
    BY <1>1, <1>4 DEF CallsAreTimely, CallIsTimely, vars, VenueHandles, GatewayAnswers, Repeat,
           Read
  <2>6. CallIsTimely(t)'
    BY <2>3, <2>4, <2>5 DEF CallIsTimely, Unsynced, Untimed
  <2>7. CallsAreTimely'
    BY <1>1, <2>3, <2>5, <2>6, CallMovesTimely
  <2> QED
    BY <1>1, <1>2, <2>7 DEF TimelyInv
<1> QED
  BY <1>3, <1>4

LEMMA TimelyStep ==
  ASSUME TimelyInv, [SigningNext]_<<vars, clientVars>>
  PROVE  TimelyInv'
<1>1. CASE SigningNext
  BY <1>1, SyncStepsKeep, SignByClockKeeps, BeginNonceKeepsTime, DrawNonceKeepsTime,
     AnswerKeepsTime DEF SigningNext
<1>2. CASE UNCHANGED <<vars, clientVars>>
  BY <1>2, ClocksStay, CallsStayTimely, StutterKeeps DEF TimelyInv, vars, clientVars
<1> QED
  BY <1>1, <1>2

(***************************************************************************)
(* Once synced, and until the local clock is set, what is signed carries   *)
(* the venue's own time, to the precision of the stamp and of the sync:    *)
(* for any number of threads and requests, any clocks and any offsets      *)
(* (clock.rs:3-6).                                                         *)
(***************************************************************************)
THEOREM StampsCarryVenueTime == SigningSpec => []StampsAreTimely
<1>1. SigningInit => TimelyInv
  BY TimelyInit
<1>2. TimelyInv /\ [SigningNext]_<<vars, clientVars>> => TimelyInv'
  BY TimelyStep
<1>3. TimelyInv => StampsAreTimely
  BY DEF TimelyInv, CallsAreTimely, CallIsTimely, StampsAreTimely
<1> QED
  BY <1>1, <1>2, <1>3, PTL DEF SigningSpec
-----------------------------------------------------------------------------
(***************************************************************************)
(* What the answers that may be read of a judged request look like: the    *)
(* page of a gateway has no name, a name has its status where the venue    *)
(* has no envelope, and "done" comes with status "ok" only.                *)
(***************************************************************************)
AnswerShape(a) ==
  /\ a.page <=> a.kind = "page"
  /\ a.kind \in Refusals \cup {"done", "other", "stale", "page"}
  /\ a.kind = "done" => a.status = "ok"
  /\ ~a.page /\ ~InEnvelopes =>
       /\ a.status = "ok" <=> a.kind = "done"
       /\ a.status = "401" <=> a.kind = "badKey"
       /\ a.status = "404" <=> a.kind = "unknown"
       /\ a.status = "429" <=> a.kind = "tooMany"

LEMMA AnswersHaveShape ==
  ASSUME NEW verdict \in {"judged", "stale", "tooMany", "page"}, NEW a \in AnswersTo(verdict)
  PROVE  AnswerShape(a)
<1> DEFINE Kinds == Refusals \cup {"done", "other", "stale"}
<1>1. \A s, w : \A kind \in Kinds : AnswerShape(Answer(kind, StatusOf(kind), s, w))
  BY DEF AnswerShape, Answer, StatusOf, Refusals
<1>2. \A w : AnswerShape(Answer("tooMany", "429", 1, w))
  BY DEF AnswerShape, Answer, Refusals
<1>3. \A status, w : AnswerShape([Answer("page", status, 1, w) EXCEPT !.page = TRUE])
  BY DEF AnswerShape, Answer, Refusals
<1>4. CASE verdict = "judged"
  <2>1. PICK kind \in Kinds, s \in Shapes : a = Answer(kind, StatusOf(kind), s, 0)
    BY <1>4 DEF AnswersTo
  <2> QED
    BY <1>1, <2>1
<1>5. CASE verdict = "stale"
  <2>1. PICK s \in Shapes : a = Answer("stale", StatusOf("stale"), s, 0)
    BY <1>5 DEF AnswersTo
  <2> QED
    BY <1>1, <2>1
<1>6. CASE verdict = "tooMany"
  <2>1. \/ \E s \in Shapes : a = Answer("tooMany", StatusOf("tooMany"), s, 0)
        \/ \E w \in Waits : a = Answer("tooMany", "429", 1, w)
    BY <1>6 DEF AnswersTo
  <2> QED
    BY <1>1, <1>2, <2>1 DEF Refusals
<1>7. CASE verdict = "page"
  <2>1. \E status, w : a = [Answer("page", status, 1, w) EXCEPT !.page = TRUE]
    BY <1>7 DEF AnswersTo
  <2> QED
    BY <1>3, <2>1
<1> QED
  BY <1>4, <1>5, <1>6, <1>7

(***************************************************************************)
(* What each client makes of such an answer.                               *)
(***************************************************************************)
IsTold(what, a) ==
  /\ what = "done" <=> a.kind = "done"
  /\ what \in Refusals =>
       \/ what = a.kind
       \/ what = SaidByStatus(a) /\ client.venue \in {"Coinbase", "Upbit"}
       \/ what = "badKey" /\ a.kind = "stale"

\* Refusals have their own name or none, whatever the table.
LEMMA NamedIsTold ==
  ASSUME NEW a, NEW codes, codes \subseteq Refusals,
         a.kind \in Refusals \cup {"other", "stale", "page"}
  PROVE  IsTold(Named(a, codes), a)
BY DEF IsTold, Named, Refusals

LEMMA EnvelopedIsTold ==
  ASSUME NEW a, AnswerShape(a), NEW codes, codes \subseteq Refusals
  PROVE  /\ IsTold(Enveloped(a, IsDone(a), codes), a)
         /\ IsTold(Unattributed(a, codes), a)
<1>1. a.page => a.kind = "page"
  BY DEF AnswerShape
<1>2. IsTold("done", a) \/ a.kind # "done"
  BY DEF IsTold, Refusals
<1>3. a.page => IsTold("unreadable", a) /\ IsTold("exchange", a)
  BY <1>1 DEF IsTold, Refusals
<1>4. ~a.page /\ ~IsDone(a) => IsTold(Named(a, codes), a)
  BY NamedIsTold DEF AnswerShape, IsDone
<1> QED
  BY <1>2, <1>3, <1>4 DEF Enveloped, Unattributed, IsDone

LEMMA UnwrapIsTold ==
  ASSUME client.venue \in Venues, NEW a, AnswerShape(a)
  PROVE  IsTold(Unwrap(a), a)
<1>1. CASE client.venue \in {"Bitget", "Bybit", "KuCoin", "Okx", "KrakenFutures"}
  <2>1. /\ BitgetCodes \subseteq Refusals /\ BybitCodes \subseteq Refusals
        /\ KuCoinCodes \subseteq Refusals /\ OkxCodes \subseteq Refusals
        /\ KrakenFuturesCodes \subseteq Refusals
    BY DEF BitgetCodes, BybitCodes, KuCoinCodes, OkxCodes, KrakenFuturesCodes, Refusals
  <2> QED
    BY <1>1, <2>1, EnvelopedIsTold
       DEF Unwrap, BitgetUnwrap, BybitUnwrap, KuCoinUnwrap, OkxUnwrap, KrakenFuturesUnwrap
<1>2. CASE client.venue = "Kraken"
  <2>1. Unwrap(a) = KrakenUnwrap(a)
    BY <1>2 DEF Unwrap
  <2>2. CASE ~a.page /\ a.kind = "stale"
    BY <2>1, <2>2 DEF KrakenUnwrap, IsTold
  <2>3. CASE a.page \/ a.kind # "stale"
    BY <2>1, <2>3, EnvelopedIsTold DEF KrakenUnwrap, KrakenCodes
  <2> QED
    BY <2>2, <2>3
<1>3. CASE client.venue = "Htx"
  <2>1. HtxUnwrap(a) = Enveloped(a, IsDone(a), IF a.shape = 1 THEN HtxCodes ELSE {})
    BY DEF HtxUnwrap, HtxDone, IsDone
  <2> QED
    BY <1>3, <2>1, EnvelopedIsTold DEF Unwrap, HtxCodes
<1>4. CASE client.venue \in {"Binance", "Gate"}
  <2>1. a.status = "ok" /\ ~a.page <=> a.kind = "done"
    BY <1>4 DEF AnswerShape, InEnvelopes
  <2>2. \A codes : codes \subseteq Refusals /\ a.status # "ok" /\ ~a.page =>
          IsTold(Named(a, codes), a)
    BY <2>1, NamedIsTold DEF AnswerShape
  <2>3. BinanceCodes \subseteq Refusals /\ GateCodes \subseteq Refusals
    BY DEF BinanceCodes, GateCodes, Refusals
  <2>4. a.page => IsTold("unreadable", a) /\ IsTold("exchange", a)
    BY <2>1 DEF IsTold, Refusals
  <2>5. a.kind = "done" => IsTold("done", a)
    BY DEF IsTold, Refusals
  <2> QED
    BY <1>4, <2>1, <2>2, <2>3, <2>4, <2>5 DEF Unwrap, BinanceUnwrap, GateUnwrap, Body
<1>5. CASE client.venue \in {"Coinbase", "Upbit"}
  <2>1. a.status = "ok" /\ ~a.page <=> a.kind = "done"
    BY <1>5 DEF AnswerShape, InEnvelopes
  <2>2. a.status # "ok" /\ ~a.page => IsTold(Named(a, Refusals), a)
    BY <2>1, NamedIsTold DEF AnswerShape
  <2>3. a.page => IsTold("unreadable", a) /\ IsTold("exchange", a)
    BY <2>1 DEF IsTold, Refusals
  <2>4. a.kind = "done" => IsTold("done", a)
    BY DEF IsTold, Refusals
  <2>5. a.kind = "noFunds" => IsTold("noFunds", a)
    BY DEF IsTold
  <2>6. /\ a.status = "401" => IsTold("badKey", a)
        /\ a.status = "404" => IsTold("unknown", a)
        /\ a.status = "429" => IsTold("tooMany", a)
    BY <1>5 DEF IsTold, SaidByStatus, AnswerShape
  <2>7. Unwrap(a) = IF client.venue = "Coinbase" THEN CoinbaseUnwrap(a) ELSE UpbitUnwrap(a)
    BY <1>5 DEF Unwrap
  <2>8. IsTold(CoinbaseUnwrap(a), a)
    BY <2>1, <2>2, <2>3, <2>4, <2>5, <2>6 DEF CoinbaseUnwrap, CoinbaseCodes, Body
  <2>9. IsTold(UpbitUnwrap(a), a)
    BY <2>1, <2>2, <2>3, <2>4, <2>5, <2>6 DEF UpbitUnwrap, UpbitCodes, Body
  <2> QED
    BY <2>7, <2>8, <2>9
<1> QED
  BY <1>1, <1>2, <1>3, <1>4, <1>5 DEF Venues

\* What a caller was told of an answer that it read, and of none.
LEMMA ReadIsTold ==
  ASSUME client \in Clients, NEW t \in Threads, CallsAreTimely, Read(t), UNCHANGED client
  PROVE  AnswersAreTold'
<1>1. PICK a \in AnswersTo(call[t].verdict) : heard' = WithRetryAfter(Unwrap(a), a)
  BY DEF Read
<1>2. call[t].verdict \in {"judged", "stale", "tooMany", "page"}
  BY DEF Read, CallsAreTimely, CallIsTimely
<1>3. IsTold(Unwrap(a), a)
  BY <1>1, <1>2, AnswersHaveShape, UnwrapIsTold, Units
<1>4. /\ heard'.answer = a /\ heard'.what = Unwrap(a)
      /\ heard'.what = "tooMany" => heard'.wait = a.wait
  BY <1>1 DEF WithRetryAfter
<1> QED
  BY <1>3, <1>4 DEF AnswersAreTold, IsTold

LEMMA SilenceIsTold ==
  ASSUME heard.what \in {"nothing", "refused"}, heard.answer.kind = "none"
  PROVE  AnswersAreTold
BY DEF AnswersAreTold, Refusals

(***************************************************************************)
(* A call is told done exactly when the venue did it, and a refusal by its *)
(* own name or by none, with the wait that was advised: for every client,  *)
(* and every answer of the venue or of a gateway (error.rs:165-183).       *)
(***************************************************************************)
THEOREM AnswersMeanWhatTheySay == SigningSpec => []AnswersAreTold
<1> DEFINE Inv == TimelyInv /\ AnswersAreTold
<1>1. SigningInit => Inv
  <2> SUFFICES ASSUME SigningInit PROVE AnswersAreTold
    BY TimelyInit
  <2>1. heard.what = "nothing" /\ heard.answer.kind = "none"
    BY DEF SigningInit, Nothing, NoAnswer, Answer
  <2> QED
    BY <2>1, SilenceIsTold
<1>2. Inv /\ [SigningNext]_<<vars, clientVars>> => Inv'
  <2> SUFFICES ASSUME TimelyInv, AnswersAreTold, [SigningNext]_<<vars, clientVars>>
               PROVE  AnswersAreTold'
    BY TimelyStep
  <2>1. CASE \E t \in Threads : Read(t)
    <3>1. PICK t \in Threads : Read(t)
      BY <2>1
    <3> QED
      BY <3>1, ReadIsTold DEF TimelyInv, Read
  <2>2. CASE heard' = Nothing \/ heard' = [Nothing EXCEPT !.what = "refused"]
    <3>1. heard'.what \in {"nothing", "refused"} /\ heard'.answer.kind = "none"
      BY <2>2 DEF Nothing, NoAnswer, Answer
    <3> QED
      BY <3>1 DEF AnswersAreTold, Refusals
  <2>3. CASE UNCHANGED <<vars, clientVars>>
    BY <2>3 DEF clientVars, AnswersAreTold, SaidByStatus
  <2>4. CASE \E t \in Threads : Refuse(t)
    BY <2>2, <2>4 DEF Refuse
  <2> QED
    BY <2>1, <2>2, <2>3, <2>4 DEF SigningNext
<1>3. Inv => AnswersAreTold
  OBVIOUS
<1> QED
  BY <1>1, <1>2, <1>3, PTL DEF SigningSpec
=============================================================================
