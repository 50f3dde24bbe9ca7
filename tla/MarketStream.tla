---------------------------- MODULE MarketStream ----------------------------
(***************************************************************************)
(* A venue client's two pull streams: the public market-data connection    *)
(* (`subscribe`, exchanges/binance.rs) and the private user-data one       *)
(* (`subscribe_user_data`), both drained by `poll_events`, which also      *)
(* reopens what dropped (`reconnect_if_dropped`, wsutil.rs, and            *)
(* `reconnect_user_data_if_dropped`, binance.rs).                          *)
(*                                                                         *)
(* Each connection has a reader thread of its own (net.rs) that opens the  *)
(* socket, sends what was queued and fills an inbound channel.  The client *)
(* learns that the thread is gone only by draining that channel dry, so    *)
(* every step of a poll interleaves with the threads.                      *)
(*                                                                         *)
(* A definition named X_Fault precedes X and is X with a plausible fault   *)
(* in the code: the properties are tested with it.                         *)
(***************************************************************************)
EXTENDS Naturals, Sequences, SequencesExt

CONSTANTS Channels,       \* public channels the caller may subscribe to
          MaxFrames,      \* frames the venue pushes per stream
          MaxConnections  \* connections of a stream the peer lets drop

ASSUME StreamAssumption == MaxFrames \in Nat /\ MaxConnections \in Nat

VARIABLES connection,    \* the connection each stream holds, if any
          sub_messages,  \* the subscribe messages to replay
          user_data_active,
          pc,            \* how far the poll in progress has come
          opened,        \* connections opened so far, per stream
          received,      \* frames the reader threads put in the channels
          delivered,     \* frames `poll_events` returned, in order
          announced,     \* the last connection the caller knows is gone
          status,        \* the last status event the caller got of a stream
          orphaned       \* channels a failed reconnect has left behind

vars == <<connection, sub_messages, user_data_active, pc, opened, received,
          delivered, announced, status, orphaned>>
client == <<sub_messages, user_data_active>>
tally == <<opened, received, delivered, announced, status, orphaned>>

Streams == {"market", "user"}
NoConnection == [reader |-> "none"]
Held(s) == connection[s] # NoConnection

\* What a new connection starts as, with the messages already queued on it:
\* `connect` returns at once and the thread opens the socket later.
Fresh(s, messages, reader) ==
  [reader |-> reader, peer_closed |-> FALSE, queued |-> messages,
   carried |-> {}, inbound |-> <<>>, id |-> opened[s] + 1]

IsConnected(s) == ~connection[s].peer_closed
Dropped(s) == Held(s) /\ ~IsConnected(s)

Init ==
  /\ connection = [s \in Streams |-> NoConnection]
  /\ sub_messages = {}
  /\ user_data_active = FALSE
  /\ pc = "idle"
  /\ opened = [s \in Streams |-> 0]
  /\ received = [s \in Streams |-> 0]
  /\ delivered = [s \in Streams |-> <<>>]
  /\ announced = [s \in Streams |-> 0]
  /\ status = [s \in Streams |-> "none"]
  /\ orphaned = {}

(***************************************************************************)
(* The reader thread of the connection that stream s holds.                *)
(***************************************************************************)
Alive(s) == Held(s) /\ connection[s].reader # "ended"

SocketOpens(s) ==
  /\ Held(s) /\ connection[s].reader = "opening"
  /\ connection' = [connection EXCEPT ![s].reader = "up"]
  /\ UNCHANGED <<client, pc, tally>>

\* The socket cannot be opened, closes or fails; what was queued is lost.
SocketEnds(s) ==
  /\ Alive(s)
  /\ opened[s] < MaxConnections
  /\ connection' = [connection EXCEPT ![s].reader = "ended", ![s].queued = {}]
  /\ UNCHANGED <<client, pc, tally>>

Transmit(s) ==
  /\ Held(s) /\ connection[s].reader = "up"
  /\ \E m \in connection[s].queued :
       connection' = [connection EXCEPT ![s].queued = @ \ {m},
                                        ![s].carried = @ \union {m}]
  /\ UNCHANGED <<client, pc, tally>>

Receive(s) ==
  /\ Held(s) /\ connection[s].reader = "up"
  /\ s = "market" => connection[s].carried # {}
  /\ received[s] < MaxFrames
  /\ received' = [received EXCEPT ![s] = @ + 1]
  /\ connection' = [connection EXCEPT ![s].inbound =
       Append(@, [no |-> received[s] + 1, from |-> connection[s].id])]
  /\ UNCHANGED <<client, pc, opened, delivered, announced, status, orphaned>>

(***************************************************************************)
(* The caller subscribes.  Sending fails when the reader thread has ended. *)
(***************************************************************************)
Open(s, messages, reader) ==
  /\ connection' = [connection EXCEPT ![s] = Fresh(s, messages, reader)]
  /\ opened' = [opened EXCEPT ![s] = @ + 1]

Register(m) ==
  /\ sub_messages' = sub_messages \union {m}
  /\ orphaned' = orphaned \ {m}

\* On the connection held.
Subscribe(m) ==
  /\ pc = "idle"
  /\ Alive("market")
  /\ connection' = [connection EXCEPT !["market"].queued = @ \union {m}]
  /\ Register(m)
  /\ UNCHANGED <<user_data_active, pc, opened, received, delivered,
                 announced, status>>

\* With none held: connect, then send.
SubscribeFirst(m) ==
  /\ pc = "idle"
  /\ ~Held("market")
  /\ Open("market", {m}, "opening")
  /\ Register(m)
  /\ status' = [status EXCEPT !["market"] = "none"]
  /\ UNCHANGED <<user_data_active, pc, received, delivered, announced>>

\* Connected, but the send fails: the connection is kept, nothing registered.
SubscribeFails ==
  /\ pc = "idle"
  /\ ~Held("market")
  /\ opened["market"] < MaxConnections
  /\ Open("market", {}, "ended")
  /\ status' = [status EXCEPT !["market"] = "none"]
  /\ UNCHANGED <<client, pc, received, delivered, announced, orphaned>>

\* A new listen key and a new connection, in the place of any held before:
\* the caller itself gives up the frames left in the old one.
SubscribeUserData ==
  /\ pc = "idle"
  /\ opened["user"] < MaxConnections
  /\ Open("user", {}, "opening")
  /\ user_data_active' = TRUE
  /\ received' = [received EXCEPT !["user"] = Len(delivered["user"])]
  /\ announced' = [announced EXCEPT !["user"] = opened["user"]]
  /\ status' = [status EXCEPT !["user"] = "none"]
  /\ UNCHANGED <<sub_messages, pc, delivered, orphaned>>

(***************************************************************************)
(* `poll_events`: drain one stream, then the other, then look at what      *)
(* dropped -- the private stream first.                                    *)
(***************************************************************************)
Stage == [drain_market |-> "market", drain_user |-> "user"]
After == [drain_market |-> "drain_user", drain_user |-> "reconnect_user"]

BeginPoll ==
  /\ pc = "idle"
  /\ pc' = "drain_market"
  /\ UNCHANGED <<connection, client, tally>>

\* `recv` finds a frame.
DrainFrame ==
  /\ pc \in DOMAIN Stage
  /\ LET s == Stage[pc] IN
       /\ Held(s) /\ connection[s].inbound # <<>>
       /\ connection' = [connection EXCEPT ![s].inbound = Tail(@)]
       /\ delivered' = [delivered EXCEPT ![s] =
                          Append(@, Head(connection[s].inbound))]
  /\ UNCHANGED <<client, pc, opened, received, announced, status, orphaned>>

\* `recv` finds none: the stream is quiet, or the thread is gone, which is
\* where `peer_closed` is set.
RunsDry_WithThread(s) == connection[s].inbound = <<>> \/ connection[s].reader = "ended"
RunsDry(s) == connection[s].inbound = <<>>

DrainEnds ==
  /\ pc \in DOMAIN Stage
  /\ LET s == Stage[pc] IN
       \/ ~Held(s) /\ UNCHANGED connection
       \/ /\ Held(s) /\ RunsDry(s)
          /\ connection' = [connection EXCEPT ![s].peer_closed =
                              @ \/ connection[s].reader = "ended"]
  /\ pc' = After[pc]
  /\ UNCHANGED <<client, tally>>

Recoverable == [market |-> sub_messages # {}, user |-> user_data_active]
Replayed_Nothing == [market |-> {}, user |-> {}]
Replayed == [market |-> sub_messages, user |-> {}]
ReconnectStage == [market |-> "reconnect_market", user |-> "reconnect_user"]
NextStage == [market |-> "idle", user |-> "reconnect_market"]

\* Both helpers return at once unless the stream they hold has dropped.
NeedsReconnect_PublicOnly(s) == s = "market" /\ Dropped(s) /\ Recoverable[s]
NeedsReconnect(s) == Dropped(s) /\ Recoverable[s]

\* Nothing to do for this stream.
LeaveAlone(s) ==
  /\ pc = ReconnectStage[s]
  /\ ~NeedsReconnect(s)
  /\ pc' = NextStage[s]
  /\ UNCHANGED <<connection, client, tally>>

\* Disconnected is pushed for the connection held, and if `event` says so
\* Reconnected after it.
Tell_OnlyTheLast(s, event) ==
  /\ announced' = announced
  /\ status' = [status EXCEPT ![s] = event]
Tell(s, event) ==
  /\ announced' = [announced EXCEPT ![s] = opened[s]]
  /\ status' = [status EXCEPT ![s] = event]

\* Disconnected, every message replayed on a new connection, Reconnected.
Reconnect(s) ==
  /\ pc = ReconnectStage[s]
  /\ NeedsReconnect(s)
  /\ Open(s, Replayed[s], "opening")
  /\ Tell(s, "Reconnected")
  /\ orphaned' = IF s = "market" THEN {} ELSE orphaned
  /\ pc' = NextStage[s]
  /\ UNCHANGED <<client, received, delivered>>

\* The listen key, the connection or a replay is refused: only Disconnected
\* is told, and nothing is held.
ReconnectFails(s) ==
  /\ pc = ReconnectStage[s]
  /\ NeedsReconnect(s)
  /\ connection' = [connection EXCEPT ![s] = NoConnection]
  /\ Tell(s, "Disconnected")
  /\ orphaned' = IF s = "market" THEN sub_messages ELSE orphaned
  /\ pc' = NextStage[s]
  /\ UNCHANGED <<client, opened, received, delivered>>

Next ==
  \/ \E s \in Streams :
       \/ SocketOpens(s) \/ SocketEnds(s) \/ Transmit(s) \/ Receive(s)
       \/ LeaveAlone(s) \/ Reconnect(s) \/ ReconnectFails(s)
  \/ \E m \in Channels : Subscribe(m) \/ SubscribeFirst(m)
  \/ SubscribeFails \/ SubscribeUserData
  \/ BeginPoll \/ DrainFrame \/ DrainEnds

Spec == Init /\ [][Next]_vars

(***************************************************************************)
(* The caller keeps polling, a poll it began goes on, and a stream that is *)
(* reconnected again and again is not refused every time.                  *)
(***************************************************************************)
PollStep ==
  \/ BeginPoll \/ DrainFrame \/ DrainEnds
  \/ \E s \in Streams : LeaveAlone(s) \/ Reconnect(s) \/ ReconnectFails(s)

FairSpec ==
  /\ Spec
  /\ WF_vars(PollStep)
  /\ \A s \in Streams : SF_vars(Reconnect(s))
-----------------------------------------------------------------------------
Frame == [no : 1..MaxFrames, from : 1..(MaxConnections + 1)]

Link == [reader : {"opening", "up", "ended"}, peer_closed : BOOLEAN,
         queued : SUBSET Channels, carried : SUBSET Channels,
         inbound : Seq(Frame), id : 1..(MaxConnections + 1)]

(***************************************************************************)
(* The state has its types, and a connection known closed by the client is *)
(* one whose thread ended and whose channel was drained dry.               *)
(***************************************************************************)
TypeOK ==
  /\ \A s \in Streams :
       /\ connection[s] \in Link \union {NoConnection}
       /\ Held(s) /\ connection[s].peer_closed =>
            connection[s].reader = "ended" /\ connection[s].inbound = <<>>
       /\ delivered[s] \in Seq(Frame)
       /\ opened[s] \in 0..(MaxConnections + 1)
       /\ announced[s] \in 0..opened[s]
       /\ received[s] \in 0..MaxFrames
       /\ status[s] \in {"none", "Disconnected", "Reconnected"}
  /\ sub_messages \subseteq Channels
  /\ orphaned \subseteq Channels
  /\ user_data_active \in BOOLEAN
  /\ pc \in {"idle"} \union DOMAIN Stage \union {ReconnectStage[s] : s \in Streams}

(***************************************************************************)
(* No frame a reader thread took off the socket is lost, repeated or       *)
(* reordered, whenever the stream drops: what `poll_events` has returned,  *)
(* followed by what waits in the channel held, is everything received.     *)
(***************************************************************************)
FramesInOrder ==
  \A s \in Streams :
    LET waiting == IF Held(s) THEN connection[s].inbound ELSE <<>>
        all == delivered[s] \o waiting
    IN  [i \in DOMAIN all |-> all[i].no] = [i \in 1..received[s] |-> i]

(***************************************************************************)
(* A caller that reconciles its orders on Disconnected/Reconnected misses  *)
(* no gap: it never gets a frame of a connection before it knows that      *)
(* every earlier connection of that stream is gone.  And the last status   *)
(* event is true: after Disconnected nothing is held until the caller      *)
(* subscribes, and after Reconnected there is a connection, one that       *)
(* nothing was said of yet.                                                *)
(***************************************************************************)
GapsAreAnnounced ==
  \A s \in Streams :
    /\ \A f \in Range(delivered[s]) : f.from <= announced[s] + 1
    /\ status[s] = "Disconnected" <=> ~Held(s) /\ opened[s] > 0
    /\ Held(s) => connection[s].id = opened[s] /\ announced[s] < opened[s]

(***************************************************************************)
(* A live public connection carries, or is about to be sent, every channel *)
(* registered, but for those a failed reconnect left behind.               *)
(***************************************************************************)
LiveStreamIsSubscribed ==
  Alive("market") =>
    sub_messages \ orphaned \subseteq
      connection["market"].queued \union connection["market"].carried

(***************************************************************************)
(* A caller that keeps polling is told of every drop: no stream it asked   *)
(* for stays on a connection whose thread has ended.                       *)
(***************************************************************************)
DropsAreNoticed ==
  \A s \in Streams :
    (Held(s) /\ connection[s].reader = "ended" /\ Recoverable[s])
      ~> (~Held(s) \/ Alive(s))

(***************************************************************************)
(* What wsutil.rs promises of a reconnect that failed ("the next poll      *)
(* retries"): a caller that keeps polling gets its public stream back,     *)
(* provided connecting is not refused for ever.                            *)
(***************************************************************************)
StreamRecovers ==
  (sub_messages # {} /\ ~Held("market")) ~> Held("market")
=============================================================================
