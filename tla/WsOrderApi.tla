----------------------------- MODULE WsOrderApi -----------------------------
(***************************************************************************)
(* Orders over a venue's WebSocket API (`place_order_ws`, `cancel_order_ws`*)
(* and the request function under both, in exchanges/binance.rs, bybit.rs, *)
(* okx.rs, gate.rs and kraken.rs): one request frame is sent on a          *)
(* dedicated connection and one frame is read back.  The venues differ in  *)
(* how the connection is made ready, which is all they differ in here:     *)
(*                                                                         *)
(*   "signed"  Binance: nothing, every request is signed                   *)
(*   "login"   Bybit, OKX, Gate: a login frame, and one read for its answer*)
(*   "token"   Kraken: a token from REST, which expires with the connection*)
(*                                                                         *)
(* `recv` never waits (net.rs): it hands out the oldest frame its reader   *)
(* thread has put in the channel, or none.  Requests are the numbers 1, 2, *)
(* ... in the order the caller makes them, and a login frame is number 0.  *)
(*                                                                         *)
(* A definition named X_Fault precedes X and is X with a plausible fault   *)
(* in the code: the properties are tested with it.                         *)
(***************************************************************************)
EXTENDS Naturals, Sequences, SequencesExt, FiniteSets

CONSTANTS MaxRequests,  \* requests the caller makes, at most
          Handshakes    \* the kinds of venue

ASSUME RequestAssumption ==
  /\ MaxRequests \in Nat
  /\ Handshakes \subseteq {"signed", "login", "token"}

VARIABLES handshake,  \* the kind of venue: it never changes
          ws_api_connection,  \* the dedicated connection, once opened
          token,     \* what the client holds of a "token" venue's token
          abandoned, \* frames queued on connections since dropped
          request,   \* the latest request
          pc,        \* "idle", or how far the call in progress has come
          verdict,   \* what the venue decided of the frames it got
          result     \* the answer each request was given

vars == <<handshake, ws_api_connection, token, abandoned, request, pc,
          verdict, result>>

Login == 0
Requests == 1..MaxRequests
Frames == Requests \union {Login}
NoAnswer == [from |-> 0, status |-> "error"]

NoConnection == [reader |-> "none"]
Held == ws_api_connection # NoConnection
Reader(state) == Held /\ ws_api_connection.reader = state

\* A new connection; its thread opens the socket later.
Fresh ==
  [reader |-> "opening", inbound |-> << >>,
   outbound |-> IF handshake = "login" THEN <<Login>> ELSE << >>]

Init ==
  /\ handshake \in Handshakes
  /\ ws_api_connection = NoConnection
  /\ token = "none"
  /\ abandoned = {}
  /\ request = 0
  /\ pc = "idle"
  /\ verdict = [f \in Frames |-> "none"]
  /\ result = << >>

(***************************************************************************)
(* A call.  First the connection is made ready (the head of `ws_request`,  *)
(* `ensure_ws_trade`, `ensure_ws_api`).  A call whose order is invalid ends *)
(* before that, changes nothing and is left out.                           *)
(***************************************************************************)
NextRequest ==
  /\ pc = "idle"
  /\ request < MaxRequests
  /\ request' = request + 1

Ready == Held /\ (handshake = "token" => token = "live")

\* The frames still queued on the connection that is let go: its thread may
\* send them yet, and nobody reads the answers.
Abandon ==
  abandoned' = abandoned \union
    (IF Held THEN ToSet(ws_api_connection.outbound) ELSE {})

Reuse ==
  /\ Ready
  /\ NextRequest
  /\ pc' = "ready"
  /\ UNCHANGED <<handshake, ws_api_connection, token, abandoned, verdict, result>>

\* `connect` returns at once, with the login frame queued if there is one.
Connect ==
  /\ ~Ready
  /\ NextRequest
  /\ ws_api_connection' = Fresh
  /\ token' = IF handshake = "token" THEN "live" ELSE token
  /\ Abandon
  /\ pc' = IF handshake = "login" THEN "login" ELSE "ready"
  /\ UNCHANGED <<handshake, verdict, result>>

\* No credentials, no token from REST, or no connection.
ConnectFails ==
  /\ ~Ready
  /\ NextRequest
  /\ ws_api_connection' = NoConnection
  /\ token' = "none"
  /\ Abandon
  /\ result' = Append(result, NoAnswer)
  /\ UNCHANGED <<handshake, pc, verdict>>

\* One `recv` for the answer to the login, kept or not by what it finds.
ReadLogin ==
  /\ pc = "login"
  /\ ws_api_connection' = [ws_api_connection EXCEPT
       !.inbound = IF @ = << >> THEN @ ELSE Tail(@)]
  /\ pc' = "ready"
  /\ UNCHANGED <<handshake, token, abandoned, request, verdict, result>>

\* The thread has ended in an error: the connection is not kept.
LoginFails ==
  /\ pc = "login"
  /\ Reader("ended")
  /\ ws_api_connection.inbound = << >>
  /\ ws_api_connection' = NoConnection
  /\ result' = Append(result, NoAnswer)
  /\ pc' = "idle"
  /\ UNCHANGED <<handshake, token, abandoned, request, verdict>>

(***************************************************************************)
(* Then the frame is queued, and one is read.  An error ends the call and  *)
(* leaves the connection as it is.                                         *)
(***************************************************************************)
Send ==
  /\ pc = "ready"
  /\ ~Reader("ended")
  /\ ws_api_connection' = [ws_api_connection EXCEPT !.outbound = Append(@, request)]
  /\ pc' = "sent"
  /\ UNCHANGED <<handshake, token, abandoned, request, verdict, result>>

SendFails ==
  /\ pc = "ready"
  /\ Reader("ended")
  /\ result' = Append(result, NoAnswer)
  /\ pc' = "idle"
  /\ UNCHANGED <<handshake, ws_api_connection, token, abandoned, request, verdict>>

Received_Newest(frames) == Last(frames)
Received(frames) == Head(frames)
Remaining(frames) == Tail(frames)

\* The oldest frame in the channel is taken for the response.  Whether its
\* fields parse as one, and to what, is left out.
ReadResponse ==
  /\ pc = "sent"
  /\ ws_api_connection.inbound # << >>
  /\ result' = Append(result, Received(ws_api_connection.inbound))
  /\ ws_api_connection' = [ws_api_connection EXCEPT !.inbound = Remaining(@)]
  /\ pc' = "idle"
  /\ UNCHANGED <<handshake, token, abandoned, request, verdict>>

\* `recv` finds no frame, or the end of the stream: NotConnected.
ReadNothing ==
  /\ pc = "sent"
  /\ ws_api_connection.inbound = << >>
  /\ result' = Append(result, NoAnswer)
  /\ pc' = "idle"
  /\ UNCHANGED <<handshake, ws_api_connection, token, abandoned, request, verdict>>

(***************************************************************************)
(* The connection's reader thread, the token's lifetime and the venue.     *)
(***************************************************************************)
SocketOpens ==
  /\ Reader("opening")
  /\ ws_api_connection' = [ws_api_connection EXCEPT !.reader = "up"]
  /\ UNCHANGED <<handshake, token, abandoned, request, pc, verdict, result>>

SocketEnds ==
  /\ Reader("opening") \/ Reader("up")
  /\ ws_api_connection' =
       [ws_api_connection EXCEPT !.reader = "ended", !.outbound = << >>]
  /\ UNCHANGED <<handshake, token, abandoned, request, pc, verdict, result>>

TokenExpires ==
  /\ token = "live"
  /\ token' = "expired"
  /\ UNCHANGED <<handshake, ws_api_connection, abandoned, request, pc, verdict, result>>

\* The venue decides in order; its answer is lost if the socket ends first.
VenueAnswers(status) ==
  /\ Reader("up")
  /\ ws_api_connection.outbound # << >>
  /\ LET f == Head(ws_api_connection.outbound) IN
       /\ verdict' = [verdict EXCEPT ![f] = status]
       /\ \/ ws_api_connection' =
               [ws_api_connection EXCEPT
                  !.outbound = Tail(@),
                  !.inbound = Append(@, [from |-> f, status |-> status])]
          \/ ws_api_connection' =
               [ws_api_connection EXCEPT !.reader = "ended", !.outbound = << >>]
  /\ UNCHANGED <<handshake, token, abandoned, request, pc, result>>

\* A frame sent on after the client let the connection go.
VenueDecidesUnheard(f, status) ==
  /\ f \in abandoned
  /\ verdict' = [verdict EXCEPT ![f] = status]
  /\ abandoned' = abandoned \ {f}
  /\ UNCHANGED <<handshake, ws_api_connection, token, request, pc, result>>

Next ==
  \/ Reuse \/ Connect \/ ConnectFails \/ ReadLogin \/ LoginFails
  \/ Send \/ SendFails \/ ReadResponse \/ ReadNothing
  \/ SocketOpens \/ SocketEnds \/ TokenExpires
  \/ \E status \in {"accepted", "rejected"} :
       VenueAnswers(status) \/ \E f \in abandoned : VenueDecidesUnheard(f, status)

Spec == Init /\ [][Next]_vars
-----------------------------------------------------------------------------
Answer == [from : Frames, status : {"accepted", "rejected"}]

(***************************************************************************)
(* The state has its types, with one result per request that returned, and *)
(* a token is held exactly while a "token" venue's connection is.          *)
(***************************************************************************)
TypeOK ==
  /\ handshake \in Handshakes
  /\ Held => /\ ws_api_connection.reader \in {"opening", "up", "ended"}
             /\ ws_api_connection.outbound \in Seq(Frames)
             /\ ws_api_connection.inbound \in Seq(Answer)
  /\ token \in {"none", "live", "expired"}
  /\ token # "none" <=> handshake = "token" /\ Held
  /\ abandoned \subseteq Requests
  /\ request \in 0..MaxRequests
  /\ pc \in {"idle", "login", "ready", "sent"}
  /\ pc # "idle" => Held
  /\ verdict \in [Frames -> {"none", "accepted", "rejected"}]
  /\ result \in Seq(Answer \union {NoAnswer})
  /\ Len(result) = IF pc = "idle" THEN request ELSE request - 1

Answered == {r \in DOMAIN result : result[r] # NoAnswer}
GaveUp == DOMAIN result \ Answered

(***************************************************************************)
(* Every answer the caller is given is the venue's verdict on a frame sent *)
(* no later than its own, each is given once and in the order sent: a late *)
(* answer may go to a later call, never to an earlier one or to two.       *)
(* Answers fall behind by no more than was left unread: one for each call  *)
(* that gave up, and one for a login whose answer came after its read.     *)
(***************************************************************************)
AnswersAreReal ==
  /\ \A r \in Answered :
       /\ result[r].from <= r
       /\ verdict[result[r].from] = result[r].status
       /\ r - result[r].from <= Cardinality({q \in GaveUp : q < r})
                                 + (IF handshake = "login" THEN 1 ELSE 0)
  /\ \A q, r \in Answered : q < r => result[q].from < result[r].from
=============================================================================
