--------------------------- MODULE SignedRequests ----------------------------
(***************************************************************************)
(* Signed requests: threads that share one client sign with its clock,     *)
(* which `sync_time` sets by the venue's, or with its nonces, and read     *)
(* what the venue, or a gateway before it, answers.                        *)
(*                                                                         *)
(* Time is counted in milliseconds of the venue's clock, and a second has  *)
(* few of them.  A request is what it is stamped with.                     *)
(*                                                                         *)
(* A definition named X_Fault precedes X and is X with a plausible fault   *)
(* in the code: the properties are tested with it.                         *)
(***************************************************************************)
EXTENDS NonceGenerator, FiniteSets

CONSTANTS Clients,  \* venue, whether it routes the market, what keys it has
          Drifts,   \* by how much the local clock may be ahead
          Second,   \* its milliseconds
          MaxTime,  \* bound: the venue's clock
          MaxStray  \* bound: requests that a thread signs by the clock

Venues == {"Binance", "Bitget", "Bybit", "Coinbase", "Gate", "Htx", "Kraken",
           "KrakenFutures", "KuCoin", "Okx", "Upbit"}

ASSUME SigningAssumption ==
  /\ Clients \subseteq [venue : Venues, routed : BOOLEAN,
                        keys : SUBSET {"secret", "passphrase", "private key"}]
  /\ Drifts \subseteq Int
  /\ Second \in Nat \ {0} /\ MaxTime \in Nat /\ MaxStray \in Nat

VARIABLES client,   \* never changes
          now,      \* the venue's clock
          drift,    \* of the local clock
          sync,     \* the sync that is under way
          trip,     \* how long the last one took to reach the venue, or that
                    \* there was none since the local clock was set
          call,     \* the signed call of each thread
          heard,    \* the answer that this step read, and what its caller was told
          signed,   \* how many requests the clock stamped
          seen      \* the newest nonce that the venue took, and whose it was

clientVars == <<client, now, drift, sync, trip, call, heard, signed, seen>>

Local == now + drift
Seconds(ms) == (ms \div Second) * Second

(***************************************************************************)
(* How each client signs: the keys it must have, the unit of its stamp and *)
(* whether the stamp is a nonce instead.                                   *)
(***************************************************************************)
ByClock(needs, unit) == [needs |-> needs, unit |-> unit, nonce |-> FALSE]
ByNonce == [needs |-> {"secret"}, unit |-> 1, nonce |-> TRUE]

BinanceSigns       == ByClock({"secret"}, 1)
BitgetSigns        == ByClock({"secret", "passphrase"}, 1)
BybitSigns         == ByClock({"secret"}, 1)
CoinbaseSigns      == ByClock({"private key"}, Second)
GateSigns          == ByClock({"secret"}, Second)
HtxSigns           == ByClock({"secret"}, Second)
KrakenSigns        == ByNonce
KrakenFuturesSigns == ByNonce
KuCoinSigns        == ByClock({"secret", "passphrase"}, 1)
OkxSigns           == ByClock({"secret", "passphrase"}, 1)
UpbitSigns         == ByNonce

Signs ==
  [Binance |-> BinanceSigns, Bitget |-> BitgetSigns, Bybit |-> BybitSigns,
   Coinbase |-> CoinbaseSigns, Gate |-> GateSigns, Htx |-> HtxSigns,
   Kraken |-> KrakenSigns, KrakenFutures |-> KrakenFuturesSigns,
   KuCoin |-> KuCoinSigns, Okx |-> OkxSigns, Upbit |-> UpbitSigns]

Scheme == Signs[client.venue]

\* The time that each sync reads, when the venue's clock shows ms.
BinanceTime(ms)  == ms
BitgetTime(ms)   == ms
BybitTime(ms)    == ms
CoinbaseTime(ms) == ms
GateTime(ms)     == ms
HtxTime(ms)      == ms
KrakenTime(ms)   == Seconds(ms)
KuCoinTime(ms)   == ms
OkxTime(ms)      == ms

ServerTime(ms) ==
  CASE client.venue = "Binance"  -> BinanceTime(ms)
    [] client.venue = "Bitget"   -> BitgetTime(ms)
    [] client.venue = "Bybit"    -> BybitTime(ms)
    [] client.venue = "Coinbase" -> CoinbaseTime(ms)
    [] client.venue = "Gate"     -> GateTime(ms)
    [] client.venue = "Htx"      -> HtxTime(ms)
    [] client.venue \in {"Kraken", "KrakenFutures"} -> KrakenTime(ms)
    [] client.venue = "KuCoin"   -> KuCoinTime(ms)
    [] client.venue = "Okx"      -> OkxTime(ms)

\* Upbit has no sync_time.
HasTime == client.venue # "Upbit"

(***************************************************************************)
(* What the clients make of an answer.  A page is a body that is not the   *)
(* venue's.  Each table holds the refusals that have a name of their own.  *)
(***************************************************************************)
Refusals == {"badKey", "noFunds", "tooMany", "unknown", "badSymbol"}

BinanceCodes       == {"badSymbol", "noFunds", "tooMany", "badKey"}
BitgetCodes        == {"tooMany", "badKey", "noFunds", "unknown"}
BybitCodes         == {"badKey", "tooMany", "noFunds", "unknown"}
CoinbaseCodes      == Refusals
GateCodes          == Refusals
HtxCodes           == Refusals
KrakenCodes        == Refusals
KrakenFuturesCodes == Refusals
KuCoinCodes        == {"tooMany", "badKey", "noFunds", "unknown"}
OkxCodes           == Refusals
UpbitCodes         == Refusals

Named(a, codes) == IF a.kind \in codes THEN a.kind ELSE "exchange"
Body(a) == IF a.page THEN "unreadable" ELSE "done"

\* An envelope is read whatever the status, a page is blamed on the status.
Enveloped(a, done, codes) ==
  IF a.page THEN IF a.status = "ok" THEN "unreadable" ELSE "exchange"
  ELSE IF done THEN "done" ELSE Named(a, codes)

IsDone(a) == a.kind = "done"

BinanceUnwrap(a) ==
  IF a.status = "ok" THEN Body(a) ELSE IF a.page THEN "exchange" ELSE Named(a, BinanceCodes)

BitgetUnwrap(a) == Enveloped(a, IsDone(a), BitgetCodes)
BybitUnwrap(a)  == Enveloped(a, IsDone(a), BybitCodes)
OkxUnwrap(a)    == Enveloped(a, IsDone(a), OkxCodes)

\* Kraken names a nonce refused as it names a bad key.
KrakenUnwrap(a) ==
  IF ~a.page /\ a.kind = "stale" THEN "badKey" ELSE Enveloped(a, IsDone(a), KrakenCodes)

\* Two shapes: the second's codes are numbers, which the table does not hold.
HtxDone_Fault(a) == a.kind = "done" /\ a.shape = 1
HtxDone(a)       == a.kind = "done"
HtxUnwrap(a)     == Enveloped(a, HtxDone(a), IF a.shape = 1 THEN HtxCodes ELSE {})

\* Neither blames a page on the status.
Unattributed(a, codes) ==
  IF a.page THEN "unreadable" ELSE IF IsDone(a) THEN "done" ELSE Named(a, codes)

KuCoinUnwrap(a)        == Unattributed(a, KuCoinCodes)
KrakenFuturesUnwrap(a) == Unattributed(a, KrakenFuturesCodes)

GateUnwrap(a) ==
  IF a.status = "ok" THEN Body(a) ELSE IF a.page THEN "exchange" ELSE Named(a, GateCodes)

\* The status counts where the body has no name, of a page too.
CoinbaseUnwrap(a) ==
  IF a.status = "ok" THEN Body(a)
  ELSE IF ~a.page /\ a.kind = "noFunds" THEN "noFunds"
  ELSE CASE a.status = "401" -> "badKey"
         [] a.status = "429" -> "tooMany"
         [] a.status = "404" -> "unknown"
         [] OTHER -> IF a.page THEN "exchange" ELSE Named(a, CoinbaseCodes)

UpbitUnwrap(a) ==
  IF a.status = "ok" THEN Body(a)
  ELSE IF ~a.page /\ a.kind = "noFunds" THEN "noFunds"
  ELSE CASE a.status = "401" -> "badKey"
         [] a.status = "429" -> "tooMany"
         [] OTHER -> IF a.page THEN "exchange" ELSE Named(a, UpbitCodes)

Unwrap(a) ==
  CASE client.venue = "Binance"       -> BinanceUnwrap(a)
    [] client.venue = "Bitget"        -> BitgetUnwrap(a)
    [] client.venue = "Bybit"         -> BybitUnwrap(a)
    [] client.venue = "Coinbase"      -> CoinbaseUnwrap(a)
    [] client.venue = "Gate"          -> GateUnwrap(a)
    [] client.venue = "Htx"           -> HtxUnwrap(a)
    [] client.venue = "Kraken"        -> KrakenUnwrap(a)
    [] client.venue = "KrakenFutures" -> KrakenFuturesUnwrap(a)
    [] client.venue = "KuCoin"        -> KuCoinUnwrap(a)
    [] client.venue = "Okx"           -> OkxUnwrap(a)
    [] client.venue = "Upbit"         -> UpbitUnwrap(a)

\* The header's advice joins the name that the body gave.
WithRetryAfter(what, a) ==
  [answer |-> a, what |-> what, wait |-> IF what = "tooMany" THEN a.wait ELSE 0]

(***************************************************************************)
(* The venue's answers, and a gateway's.                                   *)
(***************************************************************************)
Answer(kind, status, shape, wait) ==
  [kind |-> kind, page |-> FALSE, status |-> status, shape |-> shape, wait |-> wait]

InEnvelopes == client.venue \in {"Bitget", "Bybit", "Htx", "Kraken", "KrakenFutures", "KuCoin", "Okx"}

StatusOf(kind) ==
  IF InEnvelopes THEN "ok"
  ELSE CASE kind = "done"    -> "ok"
         [] kind = "badKey"  -> "401"
         [] kind = "unknown" -> "404"
         [] kind = "tooMany" -> "429"
         [] OTHER            -> "error"

Shapes == IF client.venue = "Htx" THEN {1, 2} ELSE {1}
Waits  == {0, 1}

\* What may be read of a request that the venue judged, and of the others.
AnswersTo(verdict) ==
  LET Plain(kinds) == {Answer(k, StatusOf(k), s, 0) : k \in kinds, s \in Shapes}
      Page(status, wait) == [Answer("page", status, 1, wait) EXCEPT !.page = TRUE]
  IN CASE verdict = "judged"  -> Plain((Refusals \ {"tooMany"}) \cup {"done", "other"})
       [] verdict = "stale"   -> Plain({"stale"})
       [] verdict = "tooMany" -> Plain({"tooMany"}) \cup {Answer("tooMany", "429", 1, w) : w \in Waits}
       [] verdict = "page"    -> {Page(s, 0) : s \in {"ok", "401", "404", "error"}}
                                   \cup {Page("429", w) : w \in Waits}
-----------------------------------------------------------------------------
Unsynced == -1
NoSync == [phase |-> "none", before |-> 0, at |-> 0, server |-> 0, trip |-> 0]
NoAnswer == Answer("none", "none", 1, 0)
Nothing  == [answer |-> NoAnswer, what |-> "nothing", wait |-> 0]

\* What is known of a call while it is signed, and once its request was judged.
Signing(phase, stamp, at, took) ==
  [phase |-> phase, stamp |-> stamp, at |-> at, trip |-> took,
   verdict |-> "none", past |-> 0, by |-> "nobody"]
Judged(stamp, verdict, past, by) ==
  [phase |-> "answered", stamp |-> stamp, at |-> 0, trip |-> Unsynced,
   verdict |-> verdict, past |-> past, by |-> by]
NoCall == Signing("idle", 0, 0, Unsynced)

SigningInit ==
  /\ Init
  /\ client \in Clients
  /\ now = 0 /\ drift \in Drifts /\ sync = NoSync /\ trip = Unsynced
  /\ call = [t \in Threads |-> NoCall] /\ signed = 0
  /\ heard = Nothing
  /\ seen = [nonce |-> 0, by |-> "nobody"]

Idle == \A t \in Threads : call[t].phase = "idle"

(***************************************************************************)
(* sync_time: its borrow is exclusive, so no call is under way.            *)
(***************************************************************************)
BeginSync ==
  /\ HasTime /\ Idle /\ sync.phase = "none"
  /\ sync' = [NoSync EXCEPT !.phase = "asked", !.before = Local, !.at = now]
  /\ UNCHANGED <<vars, client, now, drift, trip, call, signed, seen>>

VenueTellsTime ==
  /\ sync.phase = "asked"
  /\ sync' = [sync EXCEPT !.phase = "answered", !.server = ServerTime(now), !.trip = now - sync.at]
  /\ UNCHANGED <<vars, client, now, drift, trip, call, signed, seen>>

\* `sync`: the offset is to the clock as it was before the request.
Offset_Fault == sync.server - Local
Offset == sync.server - sync.before

EndSync ==
  /\ sync.phase = "answered"
  /\ SyncTime(Offset)
  /\ trip' = IF sync.before = sync.at + drift THEN sync.trip ELSE Unsynced
  /\ sync' = NoSync
  /\ UNCHANGED <<client, now, drift, call, signed, seen>>

SyncFails ==
  /\ sync.phase # "none"
  /\ sync' = NoSync
  /\ UNCHANGED <<vars, client, now, drift, trip, call, signed, seen>>

(***************************************************************************)
(* A signed call.  It is refused before a stamp is drawn when the market   *)
(* is not routed or a key is missing.                                      *)
(***************************************************************************)
MaySign == client.routed /\ Scheme.needs \subseteq client.keys

Refuse(t) ==
  /\ sync.phase = "none" /\ call[t].phase = "idle" /\ ~MaySign
  /\ heard' = [Nothing EXCEPT !.what = "refused"]
  /\ UNCHANGED <<vars, client, now, drift, sync, trip, call, signed, seen>>

Stamp(ms) == (ms \div Scheme.unit) * Scheme.unit

SignByClock(t) ==
  /\ sync.phase = "none" /\ call[t].phase = "idle" /\ MaySign /\ ~Scheme.nonce
  /\ signed < MaxStray
  /\ call' = [call EXCEPT ![t] = Signing("signed", Stamp(server_time_ms(Local)), now, trip)]
  /\ signed' = signed + 1
  /\ UNCHANGED <<vars, client, now, drift, sync, trip, seen>>

BeginNonce(t) ==
  /\ sync.phase = "none" /\ call[t].phase = "idle" /\ MaySign /\ Scheme.nonce
  /\ BeginNext(t, Local)
  /\ call' = [call EXCEPT ![t] = Signing("signing", 0, now, trip)]
  /\ UNCHANGED <<client, now, drift, sync, trip, signed, seen>>

DrawNonce(t) ==
  \/ /\ Load(t) \/ SwapFails(t)
     /\ UNCHANGED <<client, now, drift, sync, trip, call, signed, seen>>
  \/ /\ Swap(t)
     /\ call' = [call EXCEPT ![t] = Signing("signed", result'[t], call[t].at, call[t].trip)]
     /\ UNCHANGED <<client, now, drift, sync, trip, signed, seen>>

\* A venue that counts nonces takes none that it has passed.
Passed(t) == Scheme.nonce /\ call[t].stamp <= seen.nonce

VenueHandles(t) ==
  /\ call[t].phase = "signed"
  /\ \E verdict \in {"judged", "stale", "tooMany"} :
       /\ Scheme.nonce /\ verdict # "tooMany" => (verdict = "stale" <=> Passed(t))
       /\ call' = [call EXCEPT ![t] = Judged(call[t].stamp, verdict, seen.nonce, seen.by)]
       /\ seen' = IF Scheme.nonce /\ verdict = "judged"
                  THEN [nonce |-> call[t].stamp, by |-> t] ELSE seen
  /\ UNCHANGED <<vars, client, now, drift, sync, trip, signed>>

GatewayAnswers(t) ==
  /\ call[t].phase = "signed"
  /\ call' = [call EXCEPT ![t] = Judged(call[t].stamp, "page", 0, "nobody")]
  /\ UNCHANGED <<vars, client, now, drift, sync, trip, signed, seen>>

\* The transport repeats a request that was refused: it is signed once.
Repeat(t) ==
  /\ call[t].phase = "answered"
  /\ \E a \in AnswersTo(call[t].verdict) : a.status = "429"
  /\ call' = [call EXCEPT ![t] = Signing("signed", call[t].stamp, 0, Unsynced)]
  /\ UNCHANGED <<vars, client, now, drift, sync, trip, signed, seen>>

Read(t) ==
  /\ call[t].phase = "answered"
  /\ \E a \in AnswersTo(call[t].verdict) : heard' = WithRetryAfter(Unwrap(a), a)
  /\ call' = [call EXCEPT ![t] = NoCall]
  /\ UNCHANGED <<vars, client, now, drift, sync, trip, signed, seen>>

Tick ==
  /\ now < MaxTime
  /\ now' = now + 1
  /\ UNCHANGED <<vars, client, drift, sync, trip, call, signed, seen>>

\* The local clock is set: bound, once since it was synced.
ClockIsSet ==
  /\ trip # Unsynced \/ ~HasTime
  /\ \E d \in Drifts \ {drift} : drift' = d
  /\ trip' = Unsynced
  /\ UNCHANGED <<vars, client, now, sync, call, signed, seen>>

SigningNext ==
  \/ \E t \in Threads : Refuse(t) \/ Read(t)
  \/ /\ \/ BeginSync \/ VenueTellsTime \/ EndSync \/ SyncFails
        \/ \E t \in Threads :
             \/ SignByClock(t) \/ BeginNonce(t) \/ DrawNonce(t)
             \/ VenueHandles(t) \/ GatewayAnswers(t) \/ Repeat(t)
        \/ Tick \/ ClockIsSet
     /\ heard' = Nothing

SigningSpec == SigningInit /\ [][SigningNext]_<<vars, clientVars>>
-----------------------------------------------------------------------------
(* Properties *)

(***************************************************************************)
(* Once synced, and until the local clock is set, what is signed carries   *)
(* the venue's own time: behind it by less than the unit of the stamp and  *)
(* the precision of the venue's answer, and ahead by no more than the      *)
(* sync's way to the venue (clock.rs:3-6).  A nonce may run further ahead. *)
(***************************************************************************)
Precision == IF client.venue \in {"Kraken", "KrakenFutures"} THEN Second ELSE 1

StampsAreTimely ==
  \A t \in Threads : call[t].phase = "signed" /\ call[t].trip # Unsynced =>
    /\ call[t].stamp >= call[t].at - (Precision - 1) - (Scheme.unit - 1)
    /\ ~Scheme.nonce => call[t].stamp <= call[t].at + call[t].trip

(***************************************************************************)
(* A call is told done exactly when the venue did it, a refusal by its own *)
(* name or by none, and with the wait that the venue advised               *)
(* (error.rs:165-183); Coinbase's and Upbit's by its status.               *)
(***************************************************************************)
SaidByStatus(a) ==
  CASE a.status = "401" -> "badKey"
    [] a.status = "429" -> "tooMany"
    [] a.status = "404" -> "unknown"
    [] OTHER            -> "exchange"

AnswersAreTold ==
  LET a == heard.answer
  IN /\ heard.what = "done" <=> a.kind = "done"
     /\ heard.what \in Refusals =>
          \/ heard.what = a.kind
          \/ heard.what = SaidByStatus(a) /\ client.venue \in {"Coinbase", "Upbit"}
          \/ heard.what = "badKey" /\ a.kind = "stale"
     /\ heard.what = "tooMany" => heard.wait = a.wait

(***************************************************************************)
(* A nonce is refused only when another thread's, drawn later, came before *)
(* it: whatever the clock does, though threads share the generator, and    *)
(* though a request that was refused for its rate is sent again as it was  *)
(* signed (clock.rs:47-50, kraken.rs:210-216).                             *)
(***************************************************************************)
RefusedNoncesWereOvertaken ==
  \A t \in Threads :
    Scheme.nonce /\ call[t].verdict = "stale" => call[t].past > call[t].stamp /\ call[t].by # t
=============================================================================
