-------------------------- MODULE MarketDataProofs --------------------------
(***************************************************************************)
(* What holds of a client's two streams for every set of channels and any  *)
(* number of frames and connections, and of the order book that is fed     *)
(* from them for every set of levels and quantities and any number of      *)
(* venue updates, and of a caller's reads of a market for every set of     *)
(* clients, intervals and prices and any number of reads, periods and      *)
(* trades (but less than a thousand).  The three share no state.           *)
(***************************************************************************)
EXTENDS MarketStream, OrderBook, MarketReads, SumTheorems, TLAPS

-----------------------------------------------------------------------------
(***************************************************************************)
(* The streams.                                                            *)
(*                                                                         *)
(* None of the three safety properties is inductive: a poll that finds the *)
(* channel of a dropped connection empty may replace it only because the   *)
(* client learns of the drop after the last frame, and a frame may be told *)
(* only because every connection but the one held was announced before.    *)
(* StreamInv says both of one stream at a time, so that a step of one      *)
(* stream leaves the other's alone.                                        *)
(***************************************************************************)
\* The frames of connection id after the first k, up to the last.
Numbered(frames, k, last, id) ==
  /\ last = k + Len(frames)
  /\ \A i \in 1..Len(frames) : frames[i] = [no |-> k + i, from |-> id]

\* What waits in the channel of the connection held are the frames after the
\* last one delivered, all of that connection.
Waiting(s) ==
  /\ connection[s].id = opened[s] /\ opened[s] = announced[s] + 1
  /\ Numbered(connection[s].inbound, Len(delivered[s]), received[s], opened[s])
  /\ connection[s].reader = "ended" => opened[s] <= MaxConnections
  /\ connection[s].peer_closed => connection[s].reader = "ended" /\ connection[s].inbound = <<>>

\* With no connection held, everything received was delivered and announced.
Quiet(s) ==
  /\ announced[s] = opened[s] /\ opened[s] <= MaxConnections
  /\ Len(delivered[s]) = received[s]

Delivered(s) ==
  \A i \in 1..Len(delivered[s]) :
    delivered[s][i].no = i /\ delivered[s][i].from <= announced[s] + 1

StreamInv(s) ==
  /\ Held(s) => Waiting(s)
  /\ ~Held(s) => Quiet(s)
  /\ Delivered(s)
  /\ status[s] = "Disconnected" <=> ~Held(s) /\ opened[s] > 0

\* The public subscriptions: nothing registered is forgotten while none is held.
Subscribed ==
  /\ LiveStreamIsSubscribed
  /\ ~Held("market") => sub_messages \subseteq orphaned

Types ==
  /\ connection \in [Streams -> Link \union {NoConnection}]
  /\ delivered \in [Streams -> Seq(Frame)]
  /\ opened \in [Streams -> 0..(MaxConnections + 1)]
  /\ announced \in [Streams -> Nat]
  /\ received \in [Streams -> 0..MaxFrames]
  /\ status \in [Streams -> {"none", "Disconnected", "Reconnected"}]
  /\ sub_messages \subseteq Channels /\ orphaned \subseteq Channels
  /\ user_data_active \in BOOLEAN
  /\ pc \in {"idle", "drain_market", "drain_user", "reconnect_user", "reconnect_market"}

IInv == Types /\ Subscribed /\ \A s \in Streams : StreamInv(s)
-----------------------------------------------------------------------------
LEMMA HeldIsALink ==
  ASSUME Types, NEW s \in Streams
  PROVE  /\ NoConnection \notin Link
         /\ Held(s) => connection[s] \in Link
         /\ ~Held(s) => connection[s] = NoConnection
BY DEF Types, Held, NoConnection, Link

LEMMA NumberOf ==
  ASSUME NEW q, NEW k \in Nat, NEW last, NEW id, Numbered(q, k, last, id), NEW i \in 1..Len(q)
  PROVE  q[i].no = k + i
<1>1. q[i] = [no |-> k + i, from |-> id]
  BY DEF Numbered
<1> QED
  BY <1>1

\* A channel takes the next frame at its end and gives up its first.
LEMMA AppendNumbers ==
  ASSUME NEW q \in Seq(Frame), NEW k \in Nat, NEW last \in Nat, NEW id, Numbered(q, k, last, id)
  PROVE  Numbered(Append(q, [no |-> last + 1, from |-> id]), k, last + 1, id)
<1> DEFINE f == [no |-> last + 1, from |-> id]
           p == Append(q, f)
<1>1. Len(p) = Len(q) + 1 /\ Len(q) \in Nat
  OBVIOUS
<1>2. ASSUME NEW i \in 1..(Len(q) + 1) PROVE p[i] = IF i = Len(q) + 1 THEN f ELSE q[i]
  BY <1>1
<1>3. ASSUME NEW i \in 1..Len(p) PROVE p[i] = [no |-> k + i, from |-> id]
  <2> HIDE DEF p
  <2>1. CASE i = Len(q) + 1
    BY <1>1, <1>2, <2>1 DEF Numbered
  <2>2. CASE i # Len(q) + 1
    <3>1. i \in 1..Len(q) /\ p[i] = q[i]
      BY <1>1, <1>2, <2>2
    <3> QED
      BY <3>1 DEF Numbered
  <2> QED
    BY <2>1, <2>2
<1> HIDE DEF p
<1>4. last + 1 = k + Len(p)
  BY <1>1 DEF Numbered
<1>5. Numbered(p, k, last + 1, id)
  BY <1>3, <1>4 DEF Numbered
<1> QED
  BY <1>5 DEF p

LEMMA TailNumbers ==
  ASSUME NEW q \in Seq(Frame), NEW k \in Nat, NEW last \in Nat, NEW id, Numbered(q, k, last, id),
         q # <<>>
  PROVE  Numbered(Tail(q), k + 1, last, id) /\ Head(q) = [no |-> k + 1, from |-> id]
<1>1. Len(q) \in Nat \ {0} /\ Len(Tail(q)) = Len(q) - 1 /\ Head(q) = q[1]
  OBVIOUS
<1>2. ASSUME NEW i \in 1..Len(Tail(q)) PROVE Tail(q)[i] = q[i + 1]
  BY <1>1
<1>3. ASSUME NEW i \in 1..Len(Tail(q)) PROVE Tail(q)[i] = [no |-> (k + 1) + i, from |-> id]
  BY <1>1, <1>2 DEF Numbered
<1> QED
  BY <1>1, <1>3 DEF Numbered

\* A stream is as it was when none of its own state has changed.
LEMMA OtherStream ==
  ASSUME NEW s \in Streams, StreamInv(s),
         connection'[s] = connection[s], opened'[s] = opened[s], received'[s] = received[s],
         delivered'[s] = delivered[s], announced'[s] = announced[s], status'[s] = status[s]
  PROVE  StreamInv(s)'
BY DEF StreamInv, Waiting, Quiet, Delivered, Held

\* The state the program starts in.
LEMMA InitInv == Init => IInv
<1> SUFFICES ASSUME Init PROVE IInv
  OBVIOUS
<1>1. Types
  <2>1. connection \in [Streams -> Link \union {NoConnection}]
    BY DEF Init
  <2>2. delivered \in [Streams -> Seq(Frame)]
    BY DEF Init
  <2>3. /\ opened \in [Streams -> 0..(MaxConnections + 1)] /\ announced \in [Streams -> Nat]
        /\ received \in [Streams -> 0..MaxFrames]
    BY StreamAssumption DEF Init, StreamAssumption
  <2> QED
    BY <2>1, <2>2, <2>3 DEF Init, Types
<1>2. Subscribed
  BY DEF Init, Subscribed, LiveStreamIsSubscribed, Alive, Held, Streams
<1>3. \A s \in Streams : StreamInv(s)
  BY StreamAssumption DEF Init, StreamInv, Waiting, Quiet, Delivered, Held, StreamAssumption
<1> QED
  BY <1>1, <1>2, <1>3 DEF IInv
-----------------------------------------------------------------------------
\* The reader thread of one stream.
LEMMA ReaderTypes ==
  ASSUME IInv, NEW t \in Streams,
         SocketOpens(t) \/ SocketEnds(t) \/ Transmit(t) \/ Receive(t)
  PROVE  Types'
<1>1. Held(t) /\ connection[t] \in Link
  BY HeldIsALink DEF IInv, SocketOpens, SocketEnds, Transmit, Receive, Alive
<1>2. CASE SocketOpens(t)
  <2>1. [connection[t] EXCEPT !.reader = "up"] \in Link
    BY <1>1 DEF Link
  <2>2. connection' = [connection EXCEPT ![t] = [connection[t] EXCEPT !.reader = "up"]]
    BY <1>2 DEF SocketOpens
  <2> QED
    BY <1>2, <2>1, <2>2 DEF IInv, Types, SocketOpens, client, tally
<1>3. CASE SocketEnds(t)
  <2>1. [connection[t] EXCEPT !.reader = "ended", !.queued = {}] \in Link
    BY <1>1 DEF Link
  <2>2. connection' = [connection EXCEPT ![t] = [connection[t] EXCEPT !.reader = "ended", !.queued = {}]]
    BY <1>1, <1>3 DEF SocketEnds, IInv, Types
  <2> QED
    BY <1>3, <2>1, <2>2 DEF IInv, Types, SocketEnds, client, tally
<1>4. CASE Transmit(t)
  <2>1. PICK m \in connection[t].queued :
          connection' = [connection EXCEPT ![t].queued = @ \ {m}, ![t].carried = @ \union {m}]
    BY <1>4 DEF Transmit
  <2> DEFINE sent == [connection[t] EXCEPT !.queued = @ \ {m}, !.carried = @ \union {m}]
  <2>2. sent \in Link
    BY <1>1, <2>1 DEF Link
  <2>3. connection' = [connection EXCEPT ![t] = sent]
    BY <1>1, <2>1 DEF IInv, Types
  <2> QED
    BY <1>4, <2>2, <2>3 DEF IInv, Types, Transmit, client, tally
<1>5. CASE Receive(t)
  <2> DEFINE frame == [no |-> received[t] + 1, from |-> connection[t].id]
             more  == [connection[t] EXCEPT !.inbound = Append(@, frame)]
  <2>1. received[t] \in 0..MaxFrames /\ MaxFrames \in Nat
    BY StreamAssumption DEF IInv, Types, StreamAssumption
  <2>2. frame \in Frame
    BY <1>1, <1>5, <2>1 DEF Receive, Frame, Link
  <2>3. more \in Link
    <3>1. connection[t].inbound \in Seq(Frame)
      BY <1>1 DEF Link
    <3>2. Append(connection[t].inbound, frame) \in Seq(Frame)
      BY <2>2, <3>1
    <3> HIDE DEF frame
    <3> QED
      BY <1>1, <3>2 DEF Link
  <2>4. connection' = [connection EXCEPT ![t] = more]
    BY <1>5 DEF Receive
  <2>5. received' \in [Streams -> 0..MaxFrames]
    BY <1>5, <2>1 DEF Receive, IInv, Types
  <2>6. connection' \in [Streams -> Link \union {NoConnection}]
    BY <2>3, <2>4 DEF IInv, Types
  <2> QED
    BY <1>5, <2>5, <2>6 DEF IInv, Types, Receive, client
<1> QED
  BY <1>2, <1>3, <1>4, <1>5

\* A step of the thread that takes nothing off the socket.
LEMMA SameChannel ==
  ASSUME NEW t \in Streams, Held(t), StreamInv(t),
         connection'[t] # NoConnection,
         connection'[t].id = connection[t].id, connection'[t].inbound = connection[t].inbound,
         connection'[t].peer_closed = connection[t].peer_closed,
         connection'[t].reader # connection[t].reader =>
           connection[t].reader # "ended" /\ (connection'[t].reader = "ended" => opened[t] <= MaxConnections),
         UNCHANGED <<opened, received, delivered, announced, status>>
  PROVE  StreamInv(t)'
BY DEF StreamInv, Waiting, Delivered, Held

LEMMA ReaderStream ==
  ASSUME IInv, NEW t \in Streams,
         SocketOpens(t) \/ SocketEnds(t) \/ Transmit(t) \/ Receive(t)
  PROVE  \A s \in Streams : StreamInv(s)'
<1>1. ASSUME NEW s \in Streams, s # t PROVE StreamInv(s)'
  BY <1>1, OtherStream
     DEF IInv, Types, SocketOpens, SocketEnds, Transmit, Receive, tally
<1>2. /\ Held(t) /\ connection[t] \in Link /\ StreamInv(t)
      /\ opened[t] \in 0..(MaxConnections + 1) /\ MaxConnections \in Nat
  BY HeldIsALink, StreamAssumption
     DEF IInv, Types, SocketOpens, SocketEnds, Transmit, Receive, Alive, StreamAssumption
<1>3. StreamInv(t)'
  <2>1. CASE SocketOpens(t)
    <3>1. connection'[t] = [connection[t] EXCEPT !.reader = "up"]
      BY <2>1 DEF IInv, Types, SocketOpens
    <3> QED
      BY <1>2, <2>1, <3>1, SameChannel DEF SocketOpens, tally, Link, NoConnection
  <2>2. CASE SocketEnds(t)
    <3>1. connection'[t] = [connection[t] EXCEPT !.reader = "ended", !.queued = {}]
      BY <1>2, <2>2 DEF IInv, Types, SocketEnds
    <3>2. /\ connection[t].reader # "ended" /\ opened[t] <= MaxConnections
          /\ connection'[t].id = connection[t].id /\ connection'[t].inbound = connection[t].inbound
          /\ connection'[t].peer_closed = connection[t].peer_closed
          /\ connection'[t] # NoConnection
      <4>1. connection[t].reader # "ended" /\ opened[t] <= MaxConnections
        BY <1>2, <2>2 DEF SocketEnds, Alive
      <4>2. /\ connection'[t].id = connection[t].id /\ connection'[t].inbound = connection[t].inbound
            /\ connection'[t].peer_closed = connection[t].peer_closed
            /\ connection'[t].reader = "ended"
        BY <1>2, <3>1 DEF Link
      <4> QED
        BY <4>1, <4>2 DEF NoConnection
    <3> QED
      BY <1>2, <2>2, <3>2, SameChannel DEF SocketEnds, tally
  <2>3. CASE Transmit(t)
    <3>1. PICK m \in connection[t].queued :
            connection'[t] = [connection[t] EXCEPT !.queued = @ \ {m}, !.carried = @ \union {m}]
      BY <2>3 DEF IInv, Types, Transmit
    <3> QED
      BY <1>2, <2>3, <3>1, SameChannel DEF Transmit, tally, Link, NoConnection
  <2>4. CASE Receive(t)
    <3>1. connection'[t] = [connection[t] EXCEPT !.inbound =
             Append(@, [no |-> received[t] + 1, from |-> connection[t].id])]
      BY <2>4 DEF IInv, Types, Receive
    <3>2. /\ connection[t].inbound \in Seq(Frame) /\ delivered[t] \in Seq(Frame)
          /\ received[t] \in Nat /\ received'[t] = received[t] + 1
      BY <1>2, <2>4, StreamAssumption DEF IInv, Types, Link, Receive, StreamAssumption
    <3>3. connection'[t] # NoConnection
      BY <1>2, <3>1 DEF Link, NoConnection
    <3>4. Waiting(t)'
      <4>1. connection'[t].inbound =
              Append(connection[t].inbound, [no |-> received[t] + 1, from |-> opened[t]])
        BY <1>2, <3>1 DEF StreamInv, Waiting, Link
      <4>2. /\ connection'[t].id = connection[t].id /\ connection'[t].reader = "up"
            /\ connection'[t].peer_closed = connection[t].peer_closed
        BY <1>2, <2>4, <3>1 DEF Receive, Link
      <4>4. /\ UNCHANGED <<opened[t], delivered[t], announced[t]>> /\ Waiting(t)
            /\ connection[t].reader = "up"
        BY <1>2, <2>4 DEF Receive, StreamInv
      <4>5. ~connection'[t].peer_closed
        BY <4>2, <4>4 DEF Waiting
      <4>6. Numbered(connection'[t].inbound, Len(delivered[t]), received'[t], opened[t])
        BY <3>2, <4>1, <4>4, AppendNumbers DEF Waiting
      <4> QED
        BY <4>2, <4>4, <4>5, <4>6 DEF Waiting
    <3> QED
      BY <1>2, <2>4, <3>3, <3>4 DEF Receive, StreamInv, Delivered, Held
  <2> QED
    BY <2>1, <2>2, <2>3, <2>4
<1> QED
  BY <1>1, <1>3

LEMMA ReaderSubscribed ==
  ASSUME IInv, NEW t \in Streams,
         SocketOpens(t) \/ SocketEnds(t) \/ Transmit(t) \/ Receive(t)
  PROVE  Subscribed'
<1>1. CASE t # "market"
  BY <1>1 DEF IInv, Types, Subscribed, LiveStreamIsSubscribed, Alive, Held, Streams,
          SocketOpens, SocketEnds, Transmit, Receive, client, tally
<1>2. CASE t = "market"
  <2>1. Held(t) /\ connection[t] \in Link /\ Subscribed
    BY HeldIsALink DEF IInv, SocketOpens, SocketEnds, Transmit, Receive, Alive
  <2>2. CASE SocketOpens(t)
    <3>1. connection'[t] = [connection[t] EXCEPT !.reader = "up"]
      BY <2>2 DEF IInv, Types, SocketOpens
    <3> QED
      BY <1>2, <2>1, <2>2, <3>1
         DEF SocketOpens, Subscribed, LiveStreamIsSubscribed, Alive, Held, Link, NoConnection, client, tally
  <2>3. CASE SocketEnds(t)
    <3>1. connection'[t] = [connection[t] EXCEPT !.reader = "ended", !.queued = {}]
      BY <2>3 DEF IInv, Types, SocketEnds
    <3>2. connection'[t] # NoConnection /\ connection'[t].reader = "ended"
      BY <2>1, <3>1 DEF Link, NoConnection
    <3> QED
      BY <1>2, <3>2 DEF Subscribed, LiveStreamIsSubscribed, Alive, Held, NoConnection
  <2>4. CASE Transmit(t)
    <3>1. PICK m \in connection[t].queued :
            connection'[t] = [connection[t] EXCEPT !.queued = @ \ {m}, !.carried = @ \union {m}]
      BY <2>4 DEF IInv, Types, Transmit
    <3>2. /\ connection'[t].queued \union connection'[t].carried
               = connection[t].queued \union connection[t].carried
          /\ connection'[t].reader = connection[t].reader
          /\ connection'[t] # NoConnection
      BY ZenonT(40), <2>1, <3>1 DEF Link, NoConnection
    <3>3. UNCHANGED <<sub_messages, orphaned>>
      BY <2>4 DEF Transmit, client, tally
    <3> QED
      BY <1>2, <2>1, <3>2, <3>3
         DEF Subscribed, LiveStreamIsSubscribed, Alive, Held, Link, NoConnection, client, tally
  <2>5. CASE Receive(t)
    <3>1. /\ connection'[t].queued = connection[t].queued
          /\ connection'[t].carried = connection[t].carried
          /\ connection'[t].reader = connection[t].reader
      <4>1. connection'[t] = [connection[t] EXCEPT !.inbound =
               Append(@, [no |-> received[t] + 1, from |-> connection[t].id])]
        BY <2>5 DEF IInv, Types, Receive
      <4> QED
        BY <2>1, <4>1 DEF Link
    <3> QED
      BY <1>2, <2>1, <2>5, <3>1
         DEF Receive, Subscribed, LiveStreamIsSubscribed, Alive, Held, Link, NoConnection, client
  <2> QED
    BY <2>2, <2>3, <2>4, <2>5
<1> QED
  BY <1>1, <1>2

LEMMA ReaderStep ==
  ASSUME IInv, NEW t \in Streams,
         SocketOpens(t) \/ SocketEnds(t) \/ Transmit(t) \/ Receive(t)
  PROVE  IInv'
BY ReaderTypes, ReaderStream, ReaderSubscribed DEF IInv
-----------------------------------------------------------------------------
\* A new connection, in the place of none or of one whose frames were all told.
LEMMA OpenTypes ==
  ASSUME IInv, NEW t \in Streams, NEW messages \in SUBSET Channels, NEW phase \in {"opening", "ended"},
         Open(t, messages, phase), opened[t] <= MaxConnections
  PROVE  /\ connection' \in [Streams -> Link \union {NoConnection}]
         /\ opened' \in [Streams -> 0..(MaxConnections + 1)]
         /\ connection'[t] = Fresh(t, messages, phase) /\ connection'[t] \in Link
         /\ opened'[t] = opened[t] + 1
         /\ \A s \in Streams : s # t => connection'[s] = connection[s] /\ opened'[s] = opened[s]
<1>1. opened[t] \in 0..(MaxConnections + 1) /\ MaxConnections \in Nat
  BY StreamAssumption DEF IInv, Types, StreamAssumption
<1>2. Fresh(t, messages, phase) \in Link
  <2>1. <<>> \in Seq(Frame)
    OBVIOUS
  <2>2. opened[t] + 1 \in 1..(MaxConnections + 1)
    BY <1>1
  <2> QED
    BY <2>1, <2>2 DEF Fresh, Link
<1> QED
  BY <1>1, <1>2 DEF Open, IInv, Types

LEMMA OpenStream ==
  ASSUME IInv, NEW t \in Streams, NEW messages \in SUBSET Channels, NEW phase \in {"opening", "ended"},
         Open(t, messages, phase), opened[t] <= MaxConnections,
         phase = "ended" => opened[t] < MaxConnections,
         announced'[t] = opened[t], received'[t] = Len(delivered[t]), delivered'[t] = delivered[t],
         status'[t] # "Disconnected"
  PROVE  Held(t)' /\ StreamInv(t)'
<1>1. /\ opened[t] \in 0..(MaxConnections + 1) /\ MaxConnections \in Nat /\ announced[t] \in Nat
      /\ delivered[t] \in Seq(Frame) /\ StreamInv(t)
  BY StreamAssumption DEF IInv, Types, StreamAssumption
<1>2. connection'[t] = Fresh(t, messages, phase) /\ connection'[t] \in Link /\ opened'[t] = opened[t] + 1
  BY OpenTypes
<1>3. connection'[t] # NoConnection
  BY <1>2 DEF Link, NoConnection
<1>4. /\ connection'[t].reader = phase /\ connection'[t].peer_closed = FALSE
      /\ connection'[t].inbound = <<>> /\ connection'[t].id = opened[t] + 1
  BY <1>2 DEF Fresh
<1>5. Numbered(<<>>, Len(delivered'[t]), received'[t], opened'[t])
  BY <1>1 DEF Numbered
<1>6. Waiting(t)'
  BY <1>1, <1>2, <1>4, <1>5 DEF Waiting
<1>7. announced[t] <= announced'[t]
  BY <1>1 DEF StreamInv, Waiting, Quiet
<1>8. Delivered(t)'
  <2>1. ASSUME NEW i \in 1..Len(delivered[t]) PROVE delivered[t][i].from <= announced[t] + 1 => delivered[t][i].from <= announced'[t] + 1
    <3>1. delivered[t][i] \in Frame
      BY <1>1
    <3>2. delivered[t][i].from \in Nat
      BY SMTT(40), <1>1, <3>1 DEF Frame
    <3> QED
      BY SMTT(40), <1>1, <1>7, <3>2
  <2> QED
    BY <1>1, <2>1 DEF StreamInv, Delivered
<1> QED
  BY <1>3, <1>6, <1>8 DEF StreamInv, Held

\* The caller subscribes.
LEMMA SubscribeStep ==
  ASSUME IInv, NEW m \in Channels, Subscribe(m)
  PROVE  IInv'
<1> DEFINE asked == [connection["market"] EXCEPT !.queued = @ \union {m}]
<1>1. Held("market") /\ connection["market"] \in Link /\ "market" \in Streams /\ Subscribed
  BY HeldIsALink DEF IInv, Subscribe, Alive, Streams
<1>2. connection' = [connection EXCEPT !["market"] = asked]
  BY DEF Subscribe
<1>3. /\ asked \in Link /\ asked # NoConnection
      /\ asked.id = connection["market"].id /\ asked.inbound = connection["market"].inbound
      /\ asked.peer_closed = connection["market"].peer_closed /\ asked.reader = connection["market"].reader
      /\ asked.queued = connection["market"].queued \union {m}
      /\ asked.carried = connection["market"].carried
  BY <1>1 DEF Link, NoConnection
<1> HIDE DEF asked
<1>4. /\ connection' \in [Streams -> Link \union {NoConnection}] /\ connection'["market"] = asked
      /\ \A s \in Streams : s # "market" => connection'[s] = connection[s]
  BY <1>1, <1>2, <1>3 DEF IInv, Types
<1>5. Types'
  BY <1>4 DEF IInv, Types, Subscribe, Register
<1>6. StreamInv("market")'
  BY <1>1, <1>3, <1>4, SameChannel DEF IInv, Subscribe
<1>7. \A s \in Streams : StreamInv(s)'
  BY <1>4, <1>6, OtherStream DEF IInv, Subscribe
<1>8. Subscribed'
  <2>1. sub_messages' = sub_messages \union {m} /\ orphaned' = orphaned \ {m} /\ Alive("market")
    BY DEF Subscribe, Register
  <2> QED
    BY <1>1, <1>3, <1>4, <2>1 DEF Subscribed, LiveStreamIsSubscribed, Alive, Held
<1> QED
  BY <1>5, <1>7, <1>8 DEF IInv

LEMMA SubscribeFirstStep ==
  ASSUME IInv, NEW m \in Channels, SubscribeFirst(m)
  PROVE  IInv'
<1>1. /\ "market" \in Streams /\ Quiet("market") /\ Subscribed /\ Types
      /\ {m} \in SUBSET Channels /\ Open("market", {m}, "opening")
  BY DEF IInv, StreamInv, SubscribeFirst, Streams
<1>2. /\ UNCHANGED <<received, delivered, announced, user_data_active, pc>>
      /\ status' = [status EXCEPT !["market"] = "none"] /\ Register(m)
  BY DEF SubscribeFirst
<1>3. /\ connection' \in [Streams -> Link \union {NoConnection}]
      /\ opened' \in [Streams -> 0..(MaxConnections + 1)]
      /\ connection'["market"] = Fresh("market", {m}, "opening")
      /\ \A s \in Streams : s # "market" => connection'[s] = connection[s] /\ opened'[s] = opened[s]
  BY <1>1, OpenTypes DEF Quiet
<1>4. Types'
  BY <1>1, <1>2, <1>3 DEF Types, Register
<1>5. Held("market")' /\ StreamInv("market")'
  BY <1>1, <1>2, OpenStream DEF Quiet, Types
<1>6. \A s \in Streams : StreamInv(s)'
  BY <1>2, <1>3, <1>5, OtherStream DEF IInv, Types
<1>7. Subscribed'
  BY <1>1, <1>2, <1>3, <1>5 DEF Register, Subscribed, LiveStreamIsSubscribed, Fresh, SubscribeFirst
<1> QED
  BY <1>4, <1>6, <1>7 DEF IInv

LEMMA SubscribeFailsStep ==
  ASSUME IInv, SubscribeFails
  PROVE  IInv'
<1>1. /\ "market" \in Streams /\ Quiet("market") /\ Types /\ opened["market"] < MaxConnections
      /\ {} \in SUBSET Channels /\ Open("market", {}, "ended")
  BY DEF IInv, StreamInv, SubscribeFails, Streams
<1>2. /\ UNCHANGED <<client, received, delivered, announced, pc, orphaned>>
      /\ status' = [status EXCEPT !["market"] = "none"]
  BY DEF SubscribeFails
<1>3. /\ connection' \in [Streams -> Link \union {NoConnection}]
      /\ opened' \in [Streams -> 0..(MaxConnections + 1)]
      /\ connection'["market"] = Fresh("market", {}, "ended")
      /\ \A s \in Streams : s # "market" => connection'[s] = connection[s] /\ opened'[s] = opened[s]
  BY <1>1, OpenTypes DEF Quiet
<1>4. Types'
  BY <1>1, <1>2, <1>3 DEF Types, client
<1>5. Held("market")' /\ StreamInv("market")'
  BY <1>1, <1>2, OpenStream DEF Quiet, Types
<1>6. \A s \in Streams : StreamInv(s)'
  BY <1>2, <1>3, <1>5, OtherStream DEF IInv, Types
<1>7. Subscribed'
  BY <1>3, <1>5 DEF Subscribed, LiveStreamIsSubscribed, Alive, Fresh
<1> QED
  BY <1>4, <1>6, <1>7 DEF IInv

LEMMA SubscribeUserDataStep ==
  ASSUME IInv, SubscribeUserData
  PROVE  IInv'
<1>1. /\ "user" \in Streams /\ "market" \in Streams /\ Types /\ Subscribed /\ StreamInv("user")
      /\ opened["user"] < MaxConnections /\ {} \in SUBSET Channels /\ Open("user", {}, "opening")
      /\ opened["user"] \in 0..(MaxConnections + 1) /\ MaxConnections \in Nat
  BY StreamAssumption DEF IInv, Types, SubscribeUserData, Streams, StreamAssumption
<1>2. /\ UNCHANGED <<sub_messages, pc, delivered, orphaned>> /\ user_data_active' = TRUE
      /\ received' = [received EXCEPT !["user"] = Len(delivered["user"])]
      /\ announced' = [announced EXCEPT !["user"] = opened["user"]]
      /\ status' = [status EXCEPT !["user"] = "none"]
  BY DEF SubscribeUserData
<1>3. /\ connection' \in [Streams -> Link \union {NoConnection}]
      /\ opened' \in [Streams -> 0..(MaxConnections + 1)]
      /\ \A s \in Streams : s # "user" => connection'[s] = connection[s] /\ opened'[s] = opened[s]
  BY <1>1, OpenTypes
<1>4. Types'
  <2>1. Len(delivered["user"]) \in 0..MaxFrames
    <3>1. delivered["user"] \in Seq(Frame) /\ received["user"] \in 0..MaxFrames /\ MaxFrames \in Nat
      BY <1>1, StreamAssumption DEF Types, StreamAssumption
    <3>2. CASE Held("user")
      <4>1. connection["user"].inbound \in Seq(Frame)
        BY <1>1, <3>2, HeldIsALink DEF Link
      <4> DEFINE told == Len(delivered["user"])
                 left == Len(connection["user"].inbound)
      <4>2. received["user"] = told + left
        BY <1>1, <3>2 DEF StreamInv, Waiting, Numbered
      <4>3. told \in Nat /\ left \in Nat
        BY <3>1, <4>1
      <4> HIDE DEF told, left
      <4>4. told \in 0..MaxFrames
        BY <3>1, <4>2, <4>3
      <4> QED
        BY <4>4 DEF told
    <3>3. CASE ~Held("user")
      BY <1>1, <3>1, <3>3 DEF StreamInv, Quiet
    <3> QED
      BY <3>2, <3>3
  <2>2. /\ received' \in [Streams -> 0..MaxFrames] /\ announced' \in [Streams -> Nat]
        /\ status' \in [Streams -> {"none", "Disconnected", "Reconnected"}]
    <3> HIDE DEF Streams
    <3> QED
      BY <1>1, <1>2, <2>1 DEF Types
  <2> QED
    BY <1>1, <1>2, <1>3, <2>2 DEF Types
<1>5. StreamInv("user")'
  <2>1. /\ announced'["user"] = opened["user"] /\ received'["user"] = Len(delivered["user"])
        /\ delivered'["user"] = delivered["user"] /\ status'["user"] # "Disconnected"
    BY <1>1, <1>2 DEF Types
  <2>2. opened["user"] <= MaxConnections
    BY <1>1
  <2> QED
    BY <1>1, <2>1, <2>2, OpenStream
<1>6. \A s \in Streams : StreamInv(s)'
  BY <1>2, <1>3, <1>5, OtherStream DEF IInv, Types
<1>7. Subscribed'
  BY <1>1, <1>2, <1>3 DEF Subscribed, LiveStreamIsSubscribed, Alive, Held
<1> QED
  BY <1>4, <1>6, <1>7 DEF IInv

\* A poll drains the channel of each stream.
LEMMA DrainFrameStep ==
  ASSUME IInv, DrainFrame
  PROVE  IInv'
<1>1. PICK s \in Streams :
        /\ Held(s) /\ connection[s].inbound # <<>>
        /\ connection' = [connection EXCEPT ![s].inbound = Tail(@)]
        /\ delivered' = [delivered EXCEPT ![s] = Append(@, Head(connection[s].inbound))]
        /\ UNCHANGED <<client, pc, opened, received, announced, status, orphaned>>
  <2>1. Stage[pc] \in Streams
    BY DEF DrainFrame, Stage, Streams
  <2> QED
    BY <2>1 DEF DrainFrame
<1> DEFINE link == connection[s]
           rest == [link EXCEPT !.inbound = Tail(@)]
           told == Append(delivered[s], Head(link.inbound))
<1>2. /\ Types /\ Subscribed /\ StreamInv(s) /\ link \in Link /\ link.inbound \in Seq(Frame)
      /\ delivered[s] \in Seq(Frame) /\ received[s] \in Nat /\ Len(delivered[s]) \in Nat
      /\ opened[s] \in Nat /\ announced[s] \in Nat
      /\ connection' = [connection EXCEPT ![s] = rest]
      /\ delivered' = [delivered EXCEPT ![s] = told]
  <2>1. Types /\ Subscribed /\ StreamInv(s)
    BY DEF IInv
  <2>2. link \in Link /\ link.inbound \in Seq(Frame)
    BY <1>1, <2>1, HeldIsALink DEF Link
  <2>3. delivered[s] \in Seq(Frame) /\ received[s] \in Nat /\ opened[s] \in Nat /\ announced[s] \in Nat
    BY <2>1, StreamAssumption DEF Types, StreamAssumption
  <2>4. Len(delivered[s]) \in Nat
    BY <2>3
  <2> QED
    BY <1>1, <2>1, <2>2, <2>3, <2>4
<1>3. /\ Numbered(Tail(link.inbound), Len(delivered[s]) + 1, received[s], opened[s])
      /\ Head(link.inbound) = [no |-> Len(delivered[s]) + 1, from |-> opened[s]]
  <2>1. Numbered(link.inbound, Len(delivered[s]), received[s], opened[s])
    BY <1>1, <1>2 DEF StreamInv, Waiting
  <2>2. link.inbound \in Seq(Frame) /\ link.inbound # <<>>
        /\ Len(delivered[s]) \in Nat /\ received[s] \in Nat
    BY <1>1, <1>2
  <2> HIDE DEF link
  <2> QED
    BY <2>1, <2>2, TailNumbers
<1>4. Tail(link.inbound) \in Seq(Frame) /\ Head(link.inbound) \in Frame
  BY <1>1, <1>2
<1>5. told \in Seq(Frame) /\ Len(told) = Len(delivered[s]) + 1
  BY <1>2, <1>4
<1>6. \A i \in 1..Len(told) : told[i] = IF i = Len(told) THEN Head(link.inbound) ELSE delivered[s][i]
  BY <1>2, <1>4, <1>5
<1>7. /\ rest \in Link /\ rest # NoConnection /\ rest.inbound = Tail(link.inbound)
      /\ rest.id = link.id /\ rest.reader = link.reader /\ rest.peer_closed = link.peer_closed
      /\ rest.queued = link.queued /\ rest.carried = link.carried
  <2>1. rest.inbound = Tail(link.inbound)
    BY <1>2 DEF Link
  <2> HIDE DEF link
  <2> QED
    BY <1>2, <1>4, <2>1 DEF Link, NoConnection
<1> HIDE DEF rest, told
<1>8. /\ connection'[s] = rest /\ delivered'[s] = told
      /\ connection' \in [Streams -> Link \union {NoConnection}] /\ delivered' \in [Streams -> Seq(Frame)]
      /\ \A t \in Streams : t # s => connection'[t] = connection[t] /\ delivered'[t] = delivered[t]
  BY ZenonT(60), <1>1, <1>2, <1>5, <1>7 DEF Types
<1>9. Types'
  BY <1>1, <1>2, <1>8 DEF Types, client
<1>10. StreamInv(s)'
  <2>1. Waiting(s) /\ Delivered(s) /\ ~link.peer_closed
    BY <1>1, <1>2 DEF StreamInv, Waiting
  <2>2. Waiting(s)'
    BY <1>1, <1>3, <1>5, <1>7, <1>8, <2>1 DEF Waiting
  <2>3. Delivered(s)'
    <3> SUFFICES ASSUME NEW i \in 1..Len(told)
                 PROVE  told[i].no = i /\ told[i].from <= announced[s] + 1
      BY <1>1, <1>8 DEF Delivered
    <3>1. CASE i = Len(told)
      <4>1. told[i] = [no |-> Len(delivered[s]) + 1, from |-> opened[s]]
        BY <1>3, <1>6, <3>1
      <4>2. opened[s] = announced[s] + 1
        BY <2>1 DEF Waiting
      <4> QED
        BY <1>2, <1>5, <3>1, <4>1, <4>2
    <3>2. CASE i # Len(told)
      <4>1. i \in 1..Len(delivered[s]) /\ told[i] = delivered[s][i]
        <5>1. i \in 1..Len(delivered[s])
          BY <1>2, <1>5, <3>2
        <5> QED
          BY <1>6, <3>2, <5>1
      <4> QED
        BY <2>1, <4>1 DEF Delivered
    <3> QED
      BY <3>1, <3>2
  <2> QED
    BY <1>1, <1>2, <1>7, <1>8, <2>2, <2>3 DEF StreamInv, Held
<1>11. \A t \in Streams : StreamInv(t)'
  BY <1>1, <1>8, <1>10, OtherStream DEF IInv
<1>12. Subscribed'
  <2>1. /\ UNCHANGED <<sub_messages, orphaned>>
        /\ connection["market"] = NoConnection <=> connection'["market"] = NoConnection
        /\ connection["market"] # NoConnection =>
             /\ connection'["market"].reader = connection["market"].reader
             /\ connection'["market"].queued = connection["market"].queued
             /\ connection'["market"].carried = connection["market"].carried
    BY <1>1, <1>7, <1>8 DEF client, Held, Streams
  <2> QED
    BY <1>2, <2>1 DEF Subscribed, LiveStreamIsSubscribed, Alive, Held
<1> QED
  BY <1>9, <1>11, <1>12 DEF IInv

LEMMA DrainEndsStep ==
  ASSUME IInv, DrainEnds
  PROVE  IInv'
<1>1. PICK s \in Streams :
        \/ ~Held(s) /\ UNCHANGED connection
        \/ /\ Held(s) /\ connection[s].inbound = <<>>
           /\ connection' = [connection EXCEPT ![s].peer_closed =
                               @ \/ connection[s].reader = "ended"]
  <2>1. Stage[pc] \in Streams
    BY DEF DrainEnds, Stage, Streams
  <2> QED
    BY <2>1 DEF DrainEnds, RunsDry
<1>2. /\ UNCHANGED <<client, tally>>
      /\ pc' \in {"drain_user", "reconnect_user"}
  BY DEF DrainEnds, Stage, After
<1>3. Types /\ Subscribed /\ \A t \in Streams : StreamInv(t)
  BY DEF IInv
<1>4. CASE UNCHANGED connection
  <2>1. Types'
    BY <1>2, <1>3, <1>4 DEF Types, client, tally
  <2>2. \A t \in Streams : StreamInv(t)'
    BY <1>2, <1>3, <1>4, OtherStream DEF tally
  <2> QED
    BY <1>2, <1>3, <1>4, <2>1, <2>2
       DEF IInv, Subscribed, LiveStreamIsSubscribed, Alive, Held, client, tally
<1>5. CASE /\ Held(s) /\ connection[s].inbound = <<>>
           /\ connection' = [connection EXCEPT ![s].peer_closed =
                               @ \/ connection[s].reader = "ended"]
  <2> DEFINE drained == [connection[s] EXCEPT !.peer_closed = @ \/ connection[s].reader = "ended"]
  <2>1. connection[s] \in Link
    BY <1>3, <1>5, HeldIsALink
  <2>2. connection' = [connection EXCEPT ![s] = drained]
    BY <1>5
  <2>3. /\ drained \in Link /\ drained # NoConnection
        /\ drained.id = connection[s].id /\ drained.inbound = connection[s].inbound
        /\ drained.reader = connection[s].reader /\ drained.queued = connection[s].queued
        /\ drained.carried = connection[s].carried
        /\ drained.peer_closed = (connection[s].peer_closed \/ connection[s].reader = "ended")
    BY <2>1 DEF Link, NoConnection
  <2> HIDE DEF drained
  <2>4. /\ connection'[s] = drained /\ connection' \in [Streams -> Link \union {NoConnection}]
        /\ \A t \in Streams : t # s => connection'[t] = connection[t]
    BY <1>3, <2>2, <2>3 DEF Types
  <2>5. Types'
    BY <1>2, <1>3, <2>4 DEF Types, client, tally
  <2>6. StreamInv(s)'
    <3>1. Waiting(s) /\ Delivered(s) /\ UNCHANGED <<opened, received, delivered, announced, status>>
      BY <1>2, <1>3, <1>5 DEF StreamInv, tally
    <3>2. Waiting(s)'
      BY <1>5, <2>3, <2>4, <3>1 DEF Waiting
    <3>3. Held(s)' /\ Delivered(s)'
      BY <2>3, <2>4, <3>1 DEF Held, Delivered
    <3> QED
      BY <1>3, <1>5, <3>1, <3>2, <3>3 DEF StreamInv
  <2>7. \A t \in Streams : StreamInv(t)'
    BY <1>2, <1>3, <2>4, <2>6, OtherStream DEF tally
  <2>8. Subscribed'
    <3>1. /\ UNCHANGED <<sub_messages, orphaned>>
          /\ connection["market"] = NoConnection <=> connection'["market"] = NoConnection
          /\ connection["market"] # NoConnection =>
               /\ connection'["market"].reader = connection["market"].reader
               /\ connection'["market"].queued = connection["market"].queued
               /\ connection'["market"].carried = connection["market"].carried
      BY <1>2, <1>5, <2>3, <2>4 DEF client, tally, Held, Streams
    <3> QED
      BY <1>3, <3>1 DEF Subscribed, LiveStreamIsSubscribed, Alive, Held
  <2> QED
    BY <2>5, <2>7, <2>8 DEF IInv
<1> QED
  BY <1>1, <1>4, <1>5

\* A poll begins, or finds a stream that has not dropped.
LEMMA QuietStep ==
  ASSUME IInv, BeginPoll \/ \E s \in Streams : LeaveAlone(s)
  PROVE  IInv'
<1>1. /\ UNCHANGED <<connection, client, tally>>
      /\ pc' \in {"drain_market", "idle", "reconnect_market"}
  BY DEF BeginPoll, LeaveAlone, NextStage, Streams
<1>2. Types'
  BY <1>1 DEF IInv, Types, client, tally
<1>3. \A s \in Streams : StreamInv(s)'
  BY <1>1, OtherStream DEF IInv, tally
<1> QED
  BY <1>1, <1>2, <1>3 DEF IInv, Subscribed, LiveStreamIsSubscribed, Alive, Held, client, tally

\* A dropped stream is replaced only after its last frame was told, and never
\* past the connections the peer lets drop.
LEMMA DroppedIsDrained ==
  ASSUME IInv, NEW s \in Streams, Dropped(s)
  PROVE  /\ Waiting(s) /\ opened[s] <= MaxConnections
         /\ received[s] = Len(delivered[s])
<1>1. Waiting(s) /\ connection[s].reader = "ended" /\ connection[s].inbound = <<>>
  BY DEF IInv, StreamInv, Waiting, Dropped, IsConnected
<1>2. delivered[s] \in Seq(Frame)
  BY DEF IInv, Types
<1>3. received[s] = Len(delivered[s])
  BY <1>1, <1>2 DEF Waiting, Numbered
<1> QED
  BY <1>1, <1>3 DEF Waiting

LEMMA ReconnectStep ==
  ASSUME IInv, NEW s \in Streams, Reconnect(s)
  PROVE  IInv'
<1>1. /\ Types /\ Subscribed /\ Dropped(s) /\ Replayed[s] \in SUBSET Channels
      /\ Open(s, Replayed[s], "opening") /\ opened[s] \in 0..(MaxConnections + 1)
  BY DEF IInv, Types, Reconnect, NeedsReconnect, Replayed, Streams
<1>2. Waiting(s) /\ opened[s] <= MaxConnections /\ received[s] = Len(delivered[s])
  BY <1>1, DroppedIsDrained
<1>3. /\ UNCHANGED <<client, received, delivered>> /\ pc' \in {"idle", "reconnect_market"}
      /\ announced' = [announced EXCEPT ![s] = opened[s]]
      /\ status' = [status EXCEPT ![s] = "Reconnected"]
      /\ orphaned' = IF s = "market" THEN {} ELSE orphaned
  BY DEF Reconnect, Tell, NextStage, Streams
<1>4. /\ connection' \in [Streams -> Link \union {NoConnection}]
      /\ opened' \in [Streams -> 0..(MaxConnections + 1)]
      /\ connection'[s] = Fresh(s, Replayed[s], "opening")
      /\ \A t \in Streams : t # s => connection'[t] = connection[t] /\ opened'[t] = opened[t]
  BY <1>1, <1>2, OpenTypes
<1>5. Types'
  <2>1. opened[s] \in Nat
    BY <1>1, StreamAssumption DEF StreamAssumption
  <2>2. /\ announced' \in [Streams -> Nat]
        /\ status' \in [Streams -> {"none", "Disconnected", "Reconnected"}]
    BY <1>1, <1>3, <2>1 DEF Types
  <2> QED
    BY <1>1, <1>3, <1>4, <2>2 DEF Types, client
<1>6. Held(s)' /\ StreamInv(s)'
  <2>1. /\ announced'[s] = opened[s] /\ status'[s] # "Disconnected"
        /\ received'[s] = Len(delivered[s]) /\ delivered'[s] = delivered[s]
    BY <1>1, <1>2, <1>3 DEF Types
  <2> QED
    BY <1>1, <1>2, <2>1, OpenStream
<1>7. \A t \in Streams : StreamInv(t)'
  BY <1>1, <1>3, <1>4, <1>6, OtherStream DEF IInv, Types
<1>8. Subscribed'
  <2>1. CASE s = "market"
    <3>1. connection'["market"].queued = sub_messages /\ sub_messages' = sub_messages
      BY <1>3, <1>4, <2>1 DEF Fresh, Replayed, client
    <3> QED
      BY <1>6, <2>1, <3>1 DEF Subscribed, LiveStreamIsSubscribed
  <2>2. CASE s # "market"
    BY <1>1, <1>3, <1>4, <2>2
       DEF Subscribed, LiveStreamIsSubscribed, Alive, Held, Streams, client
  <2> QED
    BY <2>1, <2>2
<1> QED
  BY <1>5, <1>7, <1>8 DEF IInv

LEMMA ReconnectFailsStep ==
  ASSUME IInv, NEW s \in Streams, ReconnectFails(s)
  PROVE  IInv'
<1>1. Types /\ Subscribed /\ Dropped(s) /\ opened[s] \in 0..(MaxConnections + 1) /\ StreamInv(s)
  BY DEF IInv, Types, ReconnectFails, NeedsReconnect
<1>2. Waiting(s) /\ opened[s] <= MaxConnections /\ received[s] = Len(delivered[s])
  BY <1>1, DroppedIsDrained
<1>3. /\ UNCHANGED <<client, opened, received, delivered>> /\ pc' \in {"idle", "reconnect_market"}
      /\ connection' = [connection EXCEPT ![s] = NoConnection]
      /\ announced' = [announced EXCEPT ![s] = opened[s]]
      /\ status' = [status EXCEPT ![s] = "Disconnected"]
      /\ orphaned' = IF s = "market" THEN sub_messages ELSE orphaned
  BY DEF ReconnectFails, Tell, NextStage, Streams
<1>4. /\ connection'[s] = NoConnection /\ announced'[s] = opened[s] /\ status'[s] = "Disconnected"
      /\ connection' \in [Streams -> Link \union {NoConnection}]
      /\ announced' \in [Streams -> Nat] /\ opened[s] \in Nat /\ announced[s] \in Nat
      /\ status' \in [Streams -> {"none", "Disconnected", "Reconnected"}]
      /\ \A t \in Streams : t # s => /\ connection'[t] = connection[t]
                                     /\ announced'[t] = announced[t] /\ status'[t] = status[t]
  <2>1. opened[s] \in Nat
    BY <1>1, StreamAssumption DEF StreamAssumption
  <2> QED
    BY <1>1, <1>3, <2>1 DEF Types
<1>5. Types'
  BY <1>1, <1>3, <1>4 DEF Types, client
<1>6. StreamInv(s)'
  <2>1. opened[s] = announced[s] + 1 /\ opened[s] > 0
    BY <1>2, <1>4 DEF Waiting
  <2>2. ~Held(s)' /\ Quiet(s)'
    BY <1>2, <1>3, <1>4 DEF Held, Quiet
  <2>3. Delivered(s)'
    <3>1. delivered[s] \in Seq(Frame) /\ Delivered(s)
      BY <1>1 DEF Types, StreamInv
    <3>2. ASSUME NEW i \in 1..Len(delivered[s]) PROVE delivered[s][i].from <= opened[s] + 1
      <4>1. delivered[s][i] \in Frame
        BY <3>1
      <4>2. delivered[s][i].from \in Nat
        BY <4>1, StreamAssumption DEF Frame, StreamAssumption
      <4>3. delivered[s][i].from <= announced[s] + 1
        BY <3>1 DEF Delivered
      <4> QED
        BY <1>4, <2>1, <4>2, <4>3
    <3> QED
      BY <1>3, <1>4, <3>1, <3>2 DEF Delivered
  <2> QED
    BY <1>3, <1>4, <2>1, <2>2, <2>3 DEF StreamInv
<1>7. \A t \in Streams : StreamInv(t)'
  BY <1>3, <1>4, <1>6, OtherStream DEF IInv
<1>8. Subscribed'
  <2>1. CASE s = "market"
    BY <1>3, <1>4, <2>1 DEF Subscribed, LiveStreamIsSubscribed, Alive, Held, client
  <2>2. CASE s # "market"
    BY <1>1, <1>3, <1>4, <2>2
       DEF Subscribed, LiveStreamIsSubscribed, Alive, Held, Streams, client
  <2> QED
    BY <2>1, <2>2
<1> QED
  BY <1>5, <1>7, <1>8 DEF IInv
-----------------------------------------------------------------------------
LEMMA StepInv == IInv /\ [Next]_vars => IInv'
<1> SUFFICES ASSUME IInv, [Next]_vars PROVE IInv'
  OBVIOUS
<1>1. CASE UNCHANGED vars
  <2>1. Types'
    BY <1>1 DEF IInv, Types, vars
  <2>2. \A s \in Streams : StreamInv(s)'
    BY <1>1, OtherStream DEF IInv, vars
  <2> QED
    BY <1>1, <2>1, <2>2 DEF IInv, Subscribed, LiveStreamIsSubscribed, Alive, Held, vars
<1>2. ASSUME NEW s \in Streams, SocketOpens(s) \/ SocketEnds(s) \/ Transmit(s) \/ Receive(s)
      PROVE  IInv'
  BY <1>2, ReaderStep
<1>3. ASSUME NEW s \in Streams, LeaveAlone(s) \/ Reconnect(s) \/ ReconnectFails(s)
      PROVE  IInv'
  BY <1>3, QuietStep, ReconnectStep, ReconnectFailsStep
<1>4. ASSUME NEW m \in Channels, Subscribe(m) \/ SubscribeFirst(m)
      PROVE  IInv'
  BY <1>4, SubscribeStep, SubscribeFirstStep
<1>5. CASE SubscribeFails \/ SubscribeUserData
  BY <1>5, SubscribeFailsStep, SubscribeUserDataStep
<1>6. CASE BeginPoll \/ DrainFrame \/ DrainEnds
  BY <1>6, QuietStep, DrainFrameStep, DrainEndsStep
<1> QED
  BY <1>1, <1>2, <1>3, <1>4, <1>5, <1>6 DEF Next

LEMMA StreamsAreSound == Spec => []IInv
BY InitInv, StepInv, PTL DEF Spec
-----------------------------------------------------------------------------
(***************************************************************************)
(* The state of the two streams has its types, and the client takes a      *)
(* connection for closed only when its thread has ended and its channel    *)
(* was drained dry (wsutil.rs, net.rs).                                    *)
(***************************************************************************)
THEOREM TypeCorrect == Spec => []TypeOK
<1>1. IInv => TypeOK
  <2> SUFFICES ASSUME IInv PROVE TypeOK
    OBVIOUS
  <2>1. ASSUME NEW s \in Streams
        PROVE  /\ connection[s] \in Link \union {NoConnection}
               /\ delivered[s] \in Seq(Frame) /\ opened[s] \in 0..(MaxConnections + 1)
               /\ received[s] \in 0..MaxFrames
               /\ status[s] \in {"none", "Disconnected", "Reconnected"}
               /\ Held(s) /\ connection[s].peer_closed =>
                    connection[s].reader = "ended" /\ connection[s].inbound = <<>>
    BY DEF IInv, Types, StreamInv, Waiting
  <2>2. ASSUME NEW s \in Streams PROVE announced[s] \in 0..opened[s]
    <3>1. opened[s] \in Nat /\ announced[s] \in Nat
      BY StreamAssumption DEF IInv, Types, StreamAssumption
    <3>2. announced[s] <= opened[s]
      BY <3>1 DEF IInv, StreamInv, Waiting, Quiet
    <3> QED
      BY <3>1, <3>2
  <2>3. pc \in {"idle"} \union DOMAIN Stage \union {ReconnectStage[s] : s \in Streams}
    <3>1. /\ ReconnectStage["market"] = "reconnect_market" /\ ReconnectStage["user"] = "reconnect_user"
          /\ DOMAIN Stage = {"drain_market", "drain_user"}
      BY DEF ReconnectStage, Stage
    <3> QED
      BY <3>1 DEF IInv, Types, Streams
  <2> QED
    BY <2>1, <2>2, <2>3 DEF TypeOK, IInv, Types
<1> QED
  BY <1>1, StreamsAreSound, PTL

(***************************************************************************)
(* Whenever a stream drops, is replaced or is given up, no frame taken off *)
(* a socket is lost, repeated or reordered on its way to `poll_events`.    *)
(***************************************************************************)
THEOREM FramesStayInOrder == Spec => []FramesInOrder
<1>1. IInv => FramesInOrder
  <2> SUFFICES ASSUME IInv, NEW s \in Streams
               PROVE  LET waiting == IF Held(s) THEN connection[s].inbound ELSE <<>>
                          all == delivered[s] \o waiting
                      IN  [i \in DOMAIN all |-> all[i].no] = [i \in 1..received[s] |-> i]
    BY DEF FramesInOrder
  <2> DEFINE waiting == IF Held(s) THEN connection[s].inbound ELSE <<>>
             told == delivered[s]
             all == told \o waiting
  <2>1. StreamInv(s) /\ told \in Seq(Frame) /\ waiting \in Seq(Frame)
    <3>1. <<>> \in Seq(Frame)
      OBVIOUS
    <3> QED
      BY <3>1, HeldIsALink DEF IInv, Types, Link
  <2>2. /\ received[s] = Len(told) + Len(waiting)
        /\ \A i \in 1..Len(waiting) : waiting[i].no = Len(told) + i
    <3>1. CASE Held(s)
      <4>1. Numbered(waiting, Len(told), received[s], opened[s])
        BY <2>1, <3>1 DEF StreamInv, Waiting
      <4> HIDE DEF waiting, told
      <4>2. received[s] = Len(told) + Len(waiting)
        BY <4>1 DEF Numbered
      <4>3. ASSUME NEW i \in 1..Len(waiting) PROVE waiting[i].no = Len(told) + i
        <5>1. Len(told) \in Nat
          BY <2>1
        <5> QED
          BY <4>1, <5>1, NumberOf
      <4> QED
        BY <4>2, <4>3
    <3>2. CASE ~Held(s)
      <4>1. Len(waiting) = 0 /\ Len(told) \in Nat
        BY <2>1, <3>2
      <4> QED
        BY <2>1, <3>2, <4>1 DEF StreamInv, Quiet
    <3> QED
      BY <3>1, <3>2
  <2>3. \A i \in 1..Len(told) : told[i].no = i
    BY <2>1 DEF StreamInv, Delivered
  <2> HIDE DEF waiting, told
  <2>4. /\ Len(told) \in Nat /\ Len(waiting) \in Nat /\ Len(all) = Len(told) + Len(waiting)
        /\ DOMAIN all = 1..Len(all)
    BY <2>1
  <2>5. ASSUME NEW i \in 1..Len(all) PROVE all[i].no = i
    <3>1. CASE i <= Len(told)
      <4>1. i \in 1..Len(told) /\ all[i] = told[i]
        BY <2>1, <2>4, <3>1
      <4> QED
        BY <2>3, <4>1
    <3>2. CASE ~(i <= Len(told))
      <4>1. i - Len(told) \in 1..Len(waiting) /\ all[i] = waiting[i - Len(told)]
        BY <2>1, <2>4, <3>2
      <4> QED
        BY <2>2, <2>4, <4>1
    <3> QED
      BY <3>1, <3>2
  <2> HIDE DEF all
  <2>6. [i \in DOMAIN all |-> all[i].no] = [i \in 1..received[s] |-> i]
    BY <2>2, <2>4, <2>5
  <2> QED
    BY <2>6 DEF all, told, waiting
<1> QED
  BY <1>1, StreamsAreSound, PTL

(***************************************************************************)
(* No frame of a connection reaches the caller before the caller was told  *)
(* that every earlier one of that stream is gone, and the last status      *)
(* event it got is true (`reconnect_if_dropped`, binance.rs).              *)
(***************************************************************************)
THEOREM EveryGapIsAnnounced == Spec => []GapsAreAnnounced
<1>1. IInv => GapsAreAnnounced
  <2> SUFFICES ASSUME IInv PROVE GapsAreAnnounced
    OBVIOUS
  <2>1. ASSUME NEW s \in Streams
        PROVE  \A f \in Range(delivered[s]) : f.from <= announced[s] + 1
    <3>1. Delivered(s) /\ delivered[s] \in Seq(Frame)
      BY DEF IInv, StreamInv, Types
    <3> QED
      BY <3>1 DEF Delivered, Range
  <2>2. ASSUME NEW s \in Streams
        PROVE  status[s] = "Disconnected" <=> ~Held(s) /\ opened[s] > 0
    BY DEF IInv, StreamInv
  <2>3. ASSUME NEW s \in Streams, Held(s)
        PROVE  connection[s].id = opened[s] /\ announced[s] < opened[s]
    <3>1. opened[s] \in Nat /\ announced[s] \in Nat
      BY StreamAssumption DEF IInv, Types, StreamAssumption
    <3> QED
      BY <2>3, <3>1 DEF IInv, StreamInv, Waiting
  <2> QED
    BY <2>1, <2>2, <2>3 DEF GapsAreAnnounced
<1> QED
  BY <1>1, StreamsAreSound, PTL

(***************************************************************************)
(* While the public stream's thread lives, every channel the caller asked  *)
(* for, and no failed reconnect has left behind, is queued on or sent over *)
(* the connection held.                                                    *)
(***************************************************************************)
THEOREM LiveStreamStaysSubscribed == Spec => []LiveStreamIsSubscribed
BY StreamsAreSound, PTL DEF IInv, Subscribed

-----------------------------------------------------------------------------
(***************************************************************************)
(* The order book.  The types hold however a client fills the update ids;  *)
(* the rest is proved for the clients that pass the venue's own range of   *)
(* ids, as Binance's does.                                                 *)
(*                                                                         *)
(* Why a diff that overlaps what the builder has may be applied at all is  *)
(* the invariant Continuity: a level whose quantity differs between two    *)
(* ladders was changed by an update in between.  It is kept step by step   *)
(* as the venue updates, so that no induction over a diff is needed.       *)
(***************************************************************************)
Continuity ==
  \A k \in Levels : \A a, l \in Updates :
    a <= l /\ venue[a][k] # venue[l][k] =>
      \E i \in (a + 1)..l : venue[i][k] # venue[i - 1][k]

Synced ==
  initialized =>
    /\ last_update_id \in Updates
    /\ seen = 1..last_update_id
    /\ levels = Visible(venue[last_update_id])

BookInv == BookTypeOK /\ Continuity /\ Synced

(***************************************************************************)
(* Every id a client fills in is a natural number.                         *)
(***************************************************************************)
LEMMA FinalIdType == ASSUME NEW l \in Nat PROVE FinalId(l) \in Nat
  BY BookAssumption DEF BookAssumption, FinalId, FirstId, Ids, RangeIds, LastIds, ClockIds,
           NoIds, Milliseconds

(***************************************************************************)
(* An update appends a ladder and changes none of those before.            *)
(***************************************************************************)
LEMMA VenueGrows ==
  ASSUME BookTypeOK, NEW k \in Levels, NEW quantity \in Quantities,
         VenueUpdates(k, quantity)
  PROVE  /\ venue' \in Seq(Ladder) /\ Len(venue') = Len(venue) + 1
         /\ \A i \in 1..Len(venue) : venue'[i] = venue[i]
         /\ Updates' = 1..(Len(venue) + 1)
<1>1. venue[Len(venue)] \in Ladder
  BY DEF BookTypeOK
<1>2. [venue[Len(venue)] EXCEPT ![k] = quantity] \in Ladder
  BY <1>1 DEF Ladder
<1> QED
  BY <1>2 DEF BookTypeOK, VenueUpdates, Updates

(***************************************************************************)
(* What the builder shows of a ladder has no level without quantity.       *)
(***************************************************************************)
LEMMA VisibleType ==
  ASSUME BookAssumption, NEW ladder \in Ladder
  PROVE  /\ DOMAIN Visible(ladder) \subseteq Levels
         /\ \A k \in DOMAIN Visible(ladder) :
              Visible(ladder)[k] \in Quantities \ {0}
BY DEF BookAssumption, Ladder, Visible

(***************************************************************************)
(* Applying a diff keeps the builder's levels well-formed.                 *)
(***************************************************************************)
LEMMA ApplyType ==
  ASSUME BookTypeOK, NEW f \in 1..MaxUpdates, NEW l \in 1..MaxUpdates, IsDiff(f, l)
  PROVE  LET new == ApplyLevels(levels, Changed(f, l))
         IN  /\ DOMAIN new \subseteq Levels
             /\ \A k \in DOMAIN new : new[k] \in Quantities \ {0}
<1>1. venue[l] \in Ladder
  BY DEF BookTypeOK, IsDiff, Updates
<1>2. /\ DOMAIN Changed(f, l) \subseteq Levels
      /\ \A k \in DOMAIN Changed(f, l) : Changed(f, l)[k] \in Quantities
  BY <1>1 DEF Changed, Ladder
<1> QED
  BY <1>2 DEF ApplyLevels, BookTypeOK

\* The initial state is well-typed.
LEMMA TypeInit == BookInit => BookTypeOK
<1> SUFFICES ASSUME BookInit PROVE BookTypeOK
  OBVIOUS
<1>1. PICK ladder \in Ladder : venue = <<ladder>>
  BY DEF BookInit, Ladder
<1>2. DOMAIN levels = {}
  BY DEF BookInit
<1>3. venue \in Seq(Ladder) /\ venue # << >> /\ Len(venue) = 1
  BY <1>1
<1>4. Len(venue) <= MaxUpdates
  BY <1>3, BookAssumption DEF BookAssumption
<1> QED
  BY <1>2, <1>3, <1>4 DEF BookInit, BookTypeOK

\* Every step keeps the types.
LEMMA TypeStep == BookTypeOK /\ [BookNext]_bookVars => BookTypeOK'
<1> SUFFICES ASSUME BookTypeOK, [BookNext]_bookVars PROVE BookTypeOK'
  OBVIOUS
<1>1. ASSUME NEW k \in Levels, NEW quantity \in Quantities,
             VenueUpdates(k, quantity)
      PROVE  BookTypeOK'
  BY SMTT(40), <1>1, VenueGrows, BookAssumption
     DEF BookTypeOK, VenueUpdates, Updates, BookAssumption
<1>2. ASSUME NEW i \in 1..MaxUpdates, ApplySnapshot(i)
      PROVE  BookTypeOK'
  <2>1. venue[i] \in Ladder /\ FinalId(i) \in Nat
    BY <1>2, FinalIdType DEF ApplySnapshot, BookTypeOK, Updates
  <2>2. /\ DOMAIN levels' \subseteq Levels
        /\ \A k \in DOMAIN levels' : levels'[k] \in Quantities \ {0}
    BY <1>2, <2>1, VisibleType, BookAssumption DEF ApplySnapshot
  <2> QED
    BY <1>2, <2>1, <2>2 DEF ApplySnapshot, BookTypeOK, Updates
<1>3. ASSUME NEW f \in 1..MaxUpdates, NEW l \in 1..MaxUpdates,
             DeltaStale(f, l) \/ DeltaGap(f, l)
      PROVE  BookTypeOK'
  <2>1. f..l \subseteq Updates
    BY <1>3 DEF DeltaStale, DeltaGap, IsDiff, Updates, BookTypeOK
  <2>2. CASE DeltaStale(f, l)
    BY <2>1, <2>2 DEF DeltaStale, BookTypeOK, Updates
  <2>3. CASE DeltaGap(f, l)
    BY <2>3 DEF DeltaGap, BookTypeOK, Updates
  <2> QED
    BY <1>3, <2>2, <2>3
<1>4. ASSUME NEW f \in 1..MaxUpdates, NEW l \in 1..MaxUpdates,
             DeltaApplied(f, l)
      PROVE  BookTypeOK'
  <2>1. FinalId(l) \in Nat
    BY FinalIdType
  <2>2. /\ DOMAIN levels' \subseteq Levels
        /\ \A k \in DOMAIN levels' : levels'[k] \in Quantities \ {0}
    BY <1>4, ApplyType DEF DeltaApplied
  <2>3. venue' = venue /\ initialized' = initialized /\ last_update_id' \in Nat
    BY <1>4, <2>1 DEF DeltaApplied
  <2>4. seen' \subseteq Updates
    <3>1. f..l \subseteq Updates
      BY <1>4 DEF DeltaApplied, IsDiff, Updates, BookTypeOK
    <3> QED
      BY <1>4, <3>1 DEF DeltaApplied, BookTypeOK
  <2>5. venue' \in Seq(Ladder) /\ venue' # << >> /\ Len(venue') <= MaxUpdates /\ initialized' \in BOOLEAN
    <3>1. venue \in Seq(Ladder) /\ venue # << >> /\ Len(venue) <= MaxUpdates /\ initialized \in BOOLEAN
      BY DEF BookTypeOK
    <3> QED
      BY <2>3, <3>1
  <2> QED
    BY <2>2, <2>3, <2>4, <2>5 DEF BookTypeOK, Updates
<1>5. CASE UNCHANGED bookVars
  BY <1>5 DEF bookVars, BookTypeOK, Updates
<1> QED
  BY <1>1, <1>2, <1>3, <1>4, <1>5 DEF BookNext

(***************************************************************************)
(* The types hold, and the book never keeps a level without quantity,      *)
(* whatever the numbering.                                                 *)
(***************************************************************************)
THEOREM BookTypeCorrect == BookSpec => []BookTypeOK
  BY TypeInit, TypeStep, PTL DEF BookSpec

-----------------------------------------------------------------------------
\* Continuity holds of the initial ladder, which has no updates.
LEMMA ContinuityInit == BookInit => Continuity
<1> SUFFICES ASSUME BookInit PROVE Continuity
  OBVIOUS
<1>1. Len(venue) = 1
  BY DEF BookInit
<1> QED
  BY <1>1 DEF Continuity, Updates

(***************************************************************************)
(* A new ladder differs from an older one by the update that made it, or   *)
(* by one the ladder before it already had.                                *)
(***************************************************************************)
LEMMA ContinuityStep ==
  BookTypeOK /\ Continuity /\ [BookNext]_bookVars => Continuity'
<1> SUFFICES ASSUME BookTypeOK, Continuity, [BookNext]_bookVars PROVE Continuity'
  OBVIOUS
<1>1. ASSUME NEW k \in Levels, NEW quantity \in Quantities,
             VenueUpdates(k, quantity)
      PROVE  Continuity'
  <2> DEFINE n == Len(venue)
  <2>1. /\ n \in Nat \ {0}
        /\ \A i \in 1..n : venue'[i] = venue[i]
        /\ Updates' = 1..(n + 1)
        /\ Updates = 1..n
    BY <1>1, VenueGrows DEF BookTypeOK, Updates
  <2> SUFFICES ASSUME NEW j \in Levels, NEW a \in Updates', NEW l \in Updates',
                      a <= l, venue'[a][j] # venue'[l][j]
               PROVE  \E i \in (a + 1)..l : venue'[i][j] # venue'[i - 1][j]
    BY DEF Continuity
  <2> HIDE DEF n
  <2>a. a \in 1..(n + 1) /\ l \in 1..(n + 1) /\ (l <= n \/ l = n + 1)
    BY <2>1
  <2>2. CASE l <= n
    <3>1. PICK i \in (a + 1)..l : venue[i][j] # venue[i - 1][j]
      BY SMTT(40), <2>1, <2>a, <2>2 DEF Continuity
    <3> QED
      BY <2>1, <2>a, <2>2, <3>1
  <2>3. CASE l = n + 1 /\ venue'[n + 1][j] # venue'[n][j]
    <3>1. a <= n
      BY <2>1, <2>a, <2>3
    <3> QED
      BY <2>1, <2>a, <2>3, <3>1
  <2>4. CASE l = n + 1 /\ venue'[n + 1][j] = venue'[n][j]
    <3>1. a <= n /\ venue[a][j] # venue[n][j]
      BY <2>1, <2>a, <2>4
    <3>2. PICK i \in (a + 1)..n : venue[i][j] # venue[i - 1][j]
      BY <2>1, <2>a, <3>1 DEF Continuity
    <3> QED
      BY <2>1, <2>a, <2>4, <3>2
  <2> QED
    BY <2>a, <2>2, <2>3, <2>4
<1>2. CASE UNCHANGED venue
  BY <1>2 DEF Continuity, Updates
<1> QED
  BY <1>1, <1>2
     DEF BookNext, bookVars, ApplySnapshot, DeltaStale, DeltaGap, DeltaApplied

(***************************************************************************)
(* A diff that starts no later than the update after the builder's last    *)
(* one, and ends after it, turns the ladder of the one into the ladder of  *)
(* the other: what it does not mention did not change.                     *)
(***************************************************************************)
LEMMA ApplyCatchesUp ==
  ASSUME BookTypeOK, Continuity,
         NEW f \in 1..MaxUpdates, NEW l \in 1..MaxUpdates, IsDiff(f, l),
         NEW last \in Updates, f <= last + 1, last < l,
         levels = Visible(venue[last])
  PROVE  ApplyLevels(levels, Changed(f, l)) = Visible(venue[l])
<1> DEFINE touched == {k \in Levels : \E i \in f..l : venue[i][k] # venue[i - 1][k]}
           kept == {k \in Levels : venue[last][k] > 0}
<1>0. MaxUpdates \in Nat /\ Len(venue) \in Nat
  BY BookAssumption DEF BookAssumption, BookTypeOK
<1>1. ASSUME NEW k \in Levels, k \notin touched
      PROVE  venue[l][k] = venue[last][k]
  <2> SUFFICES ASSUME venue[last][k] # venue[l][k] PROVE FALSE
    OBVIOUS
  <2>1. PICK i \in (last + 1)..l : venue[i][k] # venue[i - 1][k]
    BY <1>0 DEF Continuity, Updates, IsDiff
  <2>2. i \in f..l
    BY <1>0, <2>1 DEF Updates
  <2> QED
    BY <1>1, <2>1, <2>2
<1>2. DOMAIN levels = kept /\ \A k \in kept : levels[k] = venue[last][k]
  BY DEF Visible
<1>3. /\ DOMAIN Changed(f, l) = touched
      /\ \A k \in touched : Changed(f, l)[k] = venue[l][k]
  BY DEF Changed
<1>4. {k \in DOMAIN levels \union DOMAIN Changed(f, l) :
         k \in DOMAIN Changed(f, l) => Changed(f, l)[k] > 0}
        = {k \in Levels : venue[l][k] > 0}
  <2> HIDE DEF touched, kept
  <2>1. touched \subseteq Levels /\ kept \subseteq Levels
    BY DEF touched, kept
  <2>2. \A k \in Levels \ touched : k \in kept <=> venue[l][k] > 0
    BY <1>1 DEF kept
  <2> QED
    BY <1>2, <1>3, <2>1, <2>2
<1>5. ASSUME NEW k \in Levels, venue[l][k] > 0
      PROVE  (IF k \in DOMAIN Changed(f, l) THEN Changed(f, l)[k] ELSE levels[k])
               = venue[l][k]
  <2>1. CASE k \in touched
    BY <1>3, <2>1
  <2>2. CASE k \notin touched
    <3>1. venue[l][k] = venue[last][k]
      BY <1>1, <2>2
    <3>2. k \in kept
      BY <1>5, <3>1
    <3> QED
      BY <1>2, <1>3, <2>2, <3>1, <3>2
  <2> QED
    BY <2>1, <2>2
<1> HIDE DEF touched, kept
<1> QED
  BY <1>4, <1>5 DEF ApplyLevels, Visible

(***************************************************************************)
(* For a client that passes the venue's ids on, the ids say which updates  *)
(* the builder has.                                                        *)
(***************************************************************************)
LEMMA SyncedStep ==
  ASSUME Numbering = "range", BookInv, [BookNext]_bookVars
  PROVE  Synced'
<1> USE DEF BookInv
<1>0. /\ MaxUpdates \in Nat /\ Len(venue) \in Nat
      /\ \A i \in Nat : FinalId(i) = i
      /\ \A i, j \in Nat : FirstId(i, j) = i
  BY BookAssumption DEF BookAssumption, FinalId, FirstId, Ids, RangeIds, LastIds, ClockIds,
           NoIds, Milliseconds, BookTypeOK
<1>1. ASSUME NEW k \in Levels, NEW quantity \in Quantities,
             VenueUpdates(k, quantity)
      PROVE  Synced'
  <2>1. /\ \A i \in Updates : i \in Updates' /\ venue'[i] = venue[i]
    BY <1>0, <1>1, VenueGrows DEF Updates
  <2> QED
    BY <1>1, <2>1 DEF VenueUpdates, Synced
<1>2. ASSUME NEW i \in 1..MaxUpdates, ApplySnapshot(i)
      PROVE  Synced'
  <2>1. last_update_id' = i
    BY <1>0, <1>2 DEF ApplySnapshot
  <2> QED
    BY <1>2, <2>1 DEF ApplySnapshot, Synced, Updates
<1>3. ASSUME NEW f \in 1..MaxUpdates, NEW l \in 1..MaxUpdates,
             DeltaStale(f, l)
      PROVE  Synced'
  <2>1. l <= last_update_id /\ last_update_id \in Nat /\ l \in Nat
    BY <1>0, <1>3 DEF DeltaStale, IsStale, BookTypeOK
  <2>2. seen' = 1..last_update_id
    BY <1>0, <1>3, <2>1 DEF DeltaStale, Synced, Updates
  <2> QED
    BY <1>3, <2>2 DEF DeltaStale, Synced, Updates
<1>4. ASSUME NEW f \in 1..MaxUpdates, NEW l \in 1..MaxUpdates,
             DeltaGap(f, l)
      PROVE  Synced'
  BY <1>4 DEF DeltaGap, Synced
<1>5. ASSUME NEW f \in 1..MaxUpdates, NEW l \in 1..MaxUpdates,
             DeltaApplied(f, l)
      PROVE  Synced'
  <2>1. /\ last_update_id' = l /\ last_update_id < l /\ f <= last_update_id + 1
        /\ last_update_id \in Updates /\ l \in Updates
        /\ seen = 1..last_update_id
        /\ levels = Visible(venue[last_update_id])
    BY <1>0, <1>5
       DEF DeltaApplied, IsDiff, IsStale, IsGap, Synced, BookTypeOK, Updates
  <2>2. levels' = Visible(venue[l])
    BY <1>5, <2>1, ApplyCatchesUp DEF DeltaApplied
  <2>3. seen' = 1..l
    BY <1>0, <1>5, <2>1 DEF DeltaApplied, Updates
  <2> QED
    BY <1>5, <2>1, <2>2, <2>3 DEF DeltaApplied, Synced, Updates
<1>6. CASE UNCHANGED bookVars
  BY <1>6 DEF bookVars, Synced, Updates
<1> QED
  BY <1>1, <1>2, <1>3, <1>4, <1>5, <1>6 DEF BookNext

\* The inductive invariant always holds when the client passes ids on.
LEMMA SyncInvariant ==
  ASSUME Numbering = "range"
  PROVE  BookSpec => []BookInv
<1>1. BookInit => BookInv
  BY TypeInit, ContinuityInit DEF BookInit, BookInv, Synced
<1>2. BookInv /\ [BookNext]_bookVars => BookInv'
  BY TypeStep, ContinuityStep, SyncedStep DEF BookInv
<1> QED
  BY <1>1, <1>2, PTL DEF BookSpec

(***************************************************************************)
(* An initialized book is the venue's at its last update id, for a client  *)
(* that passes the venue's ids on.                                         *)
(***************************************************************************)
THEOREM BookCorrect ==
  ASSUME Numbering = "range"
  PROVE  BookSpec => []BookIsVenueBook
<1>1. BookInv => BookIsVenueBook
  BY DEF BookInv, Synced, BookIsVenueBook
<1> QED
  BY <1>1, SyncInvariant, PTL

(***************************************************************************)
(* Such a book never drifts silently: given every update and no gap, it is *)
(* the venue's current one.                                                *)
(***************************************************************************)
THEOREM NeverDrifts ==
  ASSUME Numbering = "range"
  PROVE  BookSpec => []NoSilentDrift
<1>1. ASSUME BookInv, initialized, seen = Updates
      PROVE  last_update_id = Len(venue)
  <2>1. 1..last_update_id = 1..Len(venue)
    BY <1>1 DEF BookInv, Synced, Updates
  <2>2. last_update_id \in Nat /\ Len(venue) \in Nat
    BY <1>1 DEF BookInv, BookTypeOK
  <2>3. last_update_id \in 1..Len(venue)
    BY <1>1 DEF BookInv, Synced, Updates
  <2> QED
    BY <2>1, <2>2, <2>3
<1>2. BookInv => NoSilentDrift
  BY <1>1 DEF BookInv, Synced, NoSilentDrift
<1> QED
  BY <1>2, SyncInvariant, PTL

(***************************************************************************)
(* Such a book reports a gap only when a diff is missing.                  *)
(***************************************************************************)
THEOREM GapsMeanMissingDiffs ==
  ASSUME Numbering = "range"
  PROVE  BookSpec => GapsAreReal
<1>1. ASSUME BookInv,
             NEW f \in 1..MaxUpdates, NEW l \in 1..MaxUpdates, DeltaGap(f, l)
      PROVE  ~(1..(f - 1) \subseteq seen)
  <2>1. /\ f > last_update_id + 1 /\ seen = 1..last_update_id
        /\ last_update_id \in Nat /\ f \in Nat
    BY <1>1, BookAssumption
       DEF DeltaGap, IsGap, FinalId, FirstId, Ids, RangeIds, LastIds, ClockIds,
           NoIds, Milliseconds, BookInv, Synced, BookTypeOK, BookAssumption
  <2>2. f - 1 \in 1..(f - 1) /\ f - 1 \notin seen
    BY <2>1
  <2> QED
    BY <2>2
<1>2. BookInv /\ [BookNext]_bookVars =>
        [\A f, l \in 1..MaxUpdates :
           DeltaGap(f, l) => ~(1..(f - 1) \subseteq seen)]_bookVars
  BY <1>1
<1> QED
  BY <1>2, SyncInvariant, PTL DEF BookSpec, GapsAreReal

-----------------------------------------------------------------------------
(***************************************************************************)
(* The reads.                                                              *)
(*                                                                         *)
(* What is kept is true only of candles that were over when they were      *)
(* told: the market changes none of these any more, and the stamps that    *)
(* each client gives them are in the order of time, Upbit's because the    *)
(* last trade of a candle is within its period.  So what is kept is a      *)
(* sequence of candles that are over, in the order of their stamps, and a  *)
(* new answer, wherever it overlaps, takes the place of those between its  *)
(* first and its last.  A read's figure needs of the state only that a     *)
(* read that is under way is not one that the client refuses.              *)
(***************************************************************************)
CandleRec ==
  [open : Nat, high : Nat, low : Nat, close : Nat, volume : Nat, time : Nat]

\* The client's stamp of a candle, and the candle as it tells it.
StampOf(k) ==
  IF reader.venue = "upbit" THEN LastTrade(k)
  ELSE IF reader.venue \in {"binance", "bitget", "bybit", "okx"} \/ (reader.venue = "kraken" /\ Linear(reader))
       THEN Millis(k.time) ELSE k.time
ReadAs(k) == Candle(k.open, k.high, k.low, k.close, k.volume, StampOf(k))

\* Each client reads the columns of its venue's rows.
LEMMA ColumnsAreRead ==
  ASSUME NEW k, reader \in Readers
  PROVE  /\ reader.venue = "binance" => BinanceCandle(Columns(k, Millis(k.time))) = ReadAs(k)
         /\ reader.venue = "bitget" => BitgetCandle(Columns(k, Millis(k.time))) = ReadAs(k)
         /\ reader.venue = "bybit" => BybitCandle(Columns(k, Millis(k.time))) = ReadAs(k)
         /\ reader.venue = "okx" => OkxCandle(Columns(k, Millis(k.time))) = ReadAs(k)
         /\ reader.venue = "coinbase" => CoinbaseCandle(Named(k)) = ReadAs(k)
         /\ reader.venue = "gate" => GateFuturesCandle(Named(k)) = ReadAs(k)
         /\ reader.venue = "gate" => GateCandle(GateColumns(k)) = ReadAs(k)
         /\ reader.venue = "htx" => HtxCandle(HtxNamed(k)) = ReadAs(k)
         /\ reader.venue = "kraken" /\ ~Linear(reader) => KrakenCandle(KrakenColumns(k)) = ReadAs(k)
         /\ reader.venue = "kucoin" => KuCoinCandle(KuCoinColumns(k)) = ReadAs(k)
         /\ reader.venue = "upbit" => UpbitCandle(UpbitNamed(k)) = ReadAs(k)
<1>1. reader.venue = "binance" => BinanceCandle(Columns(k, Millis(k.time))) = ReadAs(k)
  BY DEF BinanceCandle, Columns, ReadAs, StampOf, Millis, LastTrade
<1>2. reader.venue = "bitget" => BitgetCandle(Columns(k, Millis(k.time))) = ReadAs(k)
  BY DEF BitgetCandle, Columns, ReadAs, StampOf, Millis, LastTrade
<1>3. reader.venue = "bybit" => BybitCandle(Columns(k, Millis(k.time))) = ReadAs(k)
  BY DEF BybitCandle, Columns, ReadAs, StampOf, Millis, LastTrade
<1>4. reader.venue = "okx" => OkxCandle(Columns(k, Millis(k.time))) = ReadAs(k)
  BY DEF OkxCandle, Columns, ReadAs, StampOf, Millis, LastTrade
<1>5. reader.venue = "coinbase" => CoinbaseCandle(Named(k)) = ReadAs(k)
  BY DEF CoinbaseCandle, Named, ReadAs, StampOf, Millis, LastTrade
<1>6. reader.venue = "gate" => GateFuturesCandle(Named(k)) = ReadAs(k)
  BY DEF GateFuturesCandle, Named, ReadAs, StampOf, Millis, LastTrade
<1>7. reader.venue = "gate" => GateCandle(GateColumns(k)) = ReadAs(k)
  BY DEF GateCandle, GateColumns, ReadAs, StampOf, Millis, LastTrade
<1>8. reader.venue = "htx" => HtxCandle(HtxNamed(k)) = ReadAs(k)
  BY DEF HtxCandle, HtxNamed, ReadAs, StampOf, Millis, LastTrade
<1>9. reader.venue = "kraken" /\ ~Linear(reader) => KrakenCandle(KrakenColumns(k)) = ReadAs(k)
  BY DEF KrakenCandle, KrakenColumns, ReadAs, StampOf, Millis, LastTrade
<1>10. reader.venue = "kucoin" => KuCoinCandle(KuCoinColumns(k)) = ReadAs(k)
  BY DEF KuCoinCandle, KuCoinColumns, ReadAs, StampOf, Millis, LastTrade
<1>11. reader.venue = "upbit" => UpbitCandle(UpbitNamed(k)) = ReadAs(k)
  BY DEF UpbitCandle, UpbitNamed, ReadAs, StampOf, Millis, LastTrade
<1> QED
  BY <1>1, <1>2, <1>3, <1>4, <1>5, <1>6, <1>7, <1>8, <1>9, <1>10, <1>11

\* Reversing what is told newest first gives the order of time.
LEMMA ReversedTwice ==
  ASSUME NEW n \in Nat, NEW v, v = [i \in 1..n |-> v[i]], NEW r, r = [i \in 1..n |-> v[n - i + 1]]
  PROVE  Reverse(r) = v
<1>1. Len(r) = n /\ \A i \in 1..n : n - i + 1 \in 1..n /\ n - (n - i + 1) + 1 = i
  OBVIOUS
<1>2. \A i \in 1..n : r[n - i + 1] = v[i]
  BY <1>1
<1>3. Reverse(r) = [i \in 1..n |-> r[n - i + 1]]
  BY <1>1 DEF Reverse
<1> QED
  BY <1>2, <1>3

\* The venues whose REST answers the clients read.
LEMMA VenuesRead ==
  ASSUME reader \in Readers
  PROVE  reader.venue \in {"binance", "bitget", "bybit", "coinbase", "gate", "htx", "kraken", "kucoin",
                            "okx", "upbit"}
BY ReadAssumption DEF ReadAssumption

\* What a sequence has of a set.
LEMMA SequenceHas ==
  ASSUME NEW S, NEW ks \in Seq(S)
  PROVE  Len(ks) \in Nat /\ DOMAIN ks = 1..Len(ks) /\ \A i \in 1..Len(ks) : ks[i] \in S
OBVIOUS

\* Each client gives the candles of an answer in the order of time.
LEMMA RowsAreRead ==
  ASSUME reader \in Readers, NEW window, NEW ks \in Seq(CandleRec),
         ks = SubSeq(Series, IF window[1] < 1 THEN 1 ELSE window[1], window[2])
  PROVE  Klines(window) = [i \in 1..Len(ks) |-> ReadAs(ks[i])]
<1> DEFINE n == Len(ks)
           v == [i \in 1..n |-> ReadAs(ks[i])]
           newest == Reverse(ks)
<1>1. n \in Nat /\ DOMAIN ks = 1..n /\ \A i \in 1..n : ks[i] \in CandleRec
  BY SequenceHas
<1>2. newest = [i \in 1..n |-> ks[n - i + 1]]
  BY DEF Reverse
<1>3. \A i \in 1..n : n - i + 1 \in 1..n
  BY <1>1
<1>4. DOMAIN newest = 1..n /\ \A i \in 1..n : newest[i] = ks[n - i + 1]
  BY <1>2
<1>5. v = [i \in 1..n |-> v[i]] /\ \A i \in 1..n : v[i] = ReadAs(ks[i])
  OBVIOUS
<1>6. \A i \in 1..n : ReadAs(newest[i]) = v[n - i + 1]
  BY <1>3, <1>4, <1>5
<1> HIDE DEF newest, v, n
<1>7. Reverse([i \in 1..n |-> v[n - i + 1]]) = v
  BY <1>1, <1>5, ReversedTwice
<1>8. ASSUME reader.venue = "binance" PROVE Klines(window) = v
  <2> DEFINE rows == InMillis(Columns, ks)
  <2>1. DOMAIN rows = 1..n /\ \A i \in 1..n : rows[i] = Columns(ks[i], Millis(ks[i].time))
    BY <1>1 DEF InMillis
  <2>2. \A i \in 1..n : BinanceCandle(Columns(ks[i], Millis(ks[i].time))) = v[i]
    BY <1>5, <1>8, ColumnsAreRead
  <2> HIDE DEF rows
  <2>3. [i \in DOMAIN rows |-> BinanceCandle(rows[i])] = v
    BY <1>5, <2>1, <2>2
  <2>4. BinanceKlines(InMillis(Columns, ks)) = v
    BY <1>8, <2>3 DEF BinanceKlines, PerRow, rows
  <2> QED
    BY <1>8, <2>4 DEF Klines
<1>9. ASSUME reader.venue = "bitget" PROVE Klines(window) = v
  <2> DEFINE rows == InMillis(Columns, ks)
  <2>1. DOMAIN rows = 1..n /\ \A i \in 1..n : rows[i] = Columns(ks[i], Millis(ks[i].time))
    BY <1>1 DEF InMillis
  <2>2. \A i \in 1..n : BitgetCandle(Columns(ks[i], Millis(ks[i].time))) = v[i]
    BY <1>5, <1>9, ColumnsAreRead
  <2> HIDE DEF rows
  <2>3. [i \in DOMAIN rows |-> BitgetCandle(rows[i])] = v
    BY <1>5, <2>1, <2>2
  <2>4. BitgetKlines(InMillis(Columns, ks)) = v
    BY <1>9, <2>3 DEF BitgetKlines, PerRow, rows
  <2> QED
    BY <1>9, <2>4 DEF Klines
<1>10. ASSUME reader.venue = "gate", Linear(reader) PROVE Klines(window) = v
  <2> DEFINE rows == PerRow(Named, ks)
  <2>1. DOMAIN rows = 1..n /\ \A i \in 1..n : rows[i] = Named(ks[i])
    BY <1>1 DEF PerRow
  <2>2. \A i \in 1..n : GateFuturesCandle(Named(ks[i])) = v[i]
    BY <1>5, <1>10, ColumnsAreRead
  <2> HIDE DEF rows
  <2>3. [i \in DOMAIN rows |-> GateFuturesCandle(rows[i])] = v
    BY <1>5, <2>1, <2>2
  <2>4. GateKlines(PerRow(Named, ks)) = v
    BY <1>10, <2>3 DEF GateKlines, PerRow, rows
  <2> QED
    BY <1>10, <2>4 DEF Klines
<1>11. ASSUME reader.venue = "gate", ~Linear(reader) PROVE Klines(window) = v
  <2> DEFINE rows == PerRow(GateColumns, ks)
  <2>1. DOMAIN rows = 1..n /\ \A i \in 1..n : rows[i] = GateColumns(ks[i])
    BY <1>1 DEF PerRow
  <2>2. \A i \in 1..n : GateCandle(GateColumns(ks[i])) = v[i]
    BY <1>5, <1>11, ColumnsAreRead
  <2> HIDE DEF rows
  <2>3. [i \in DOMAIN rows |-> GateCandle(rows[i])] = v
    BY <1>5, <2>1, <2>2
  <2>4. GateKlines(PerRow(GateColumns, ks)) = v
    BY <1>11, <2>3 DEF GateKlines, PerRow, rows
  <2> QED
    BY <1>11, <2>4 DEF Klines
<1>12. ASSUME reader.venue = "kraken", ~Linear(reader) PROVE Klines(window) = v
  <2> DEFINE rows == PerRow(KrakenColumns, ks)
  <2>1. DOMAIN rows = 1..n /\ \A i \in 1..n : rows[i] = KrakenColumns(ks[i])
    BY <1>1 DEF PerRow
  <2>2. \A i \in 1..n : KrakenCandle(KrakenColumns(ks[i])) = v[i]
    BY <1>5, <1>12, ColumnsAreRead
  <2> HIDE DEF rows
  <2>3. [i \in DOMAIN rows |-> KrakenCandle(rows[i])] = v
    BY <1>5, <2>1, <2>2
  <2>4. KrakenKlines(PerRow(KrakenColumns, ks)) = v
    BY <1>12, <2>3 DEF KrakenKlines, PerRow, rows
  <2> QED
    BY <1>12, <2>4 DEF Klines
<1>13. ASSUME reader.venue = "kraken", Linear(reader)
      PROVE  Klines(window) = v
  <2> DEFINE rows == [i \in DOMAIN ks |-> [ks[i] EXCEPT !.time = Millis(@)]]
  <2>1. DOMAIN rows = 1..n /\ \A i \in 1..n : rows[i] = [ks[i] EXCEPT !.time = Millis(@)]
    BY <1>1
  <2>2. ASSUME NEW k \in CandleRec
        PROVE  KrakenFuturesCandle([k EXCEPT !.time = Millis(@)]) = ReadAs(k)
    BY <1>13 DEF KrakenFuturesCandle, ReadAs, StampOf, Millis, CandleRec
  <2>3. \A i \in 1..n : KrakenFuturesCandle(rows[i]) = v[i]
    BY <1>1, <1>5, <2>1, <2>2
  <2> HIDE DEF rows
  <2>4. [i \in DOMAIN rows |-> KrakenFuturesCandle(rows[i])] = v
    BY <1>5, <2>1, <2>3
  <2>5. KrakenFuturesKlines([i \in DOMAIN ks |-> [ks[i] EXCEPT !.time = Millis(@)]]) = v
    BY <2>4 DEF KrakenFuturesKlines, PerRow, rows
  <2> QED
    BY <1>13, <2>5 DEF Klines
<1>14. ASSUME reader.venue = "bybit" PROVE Klines(window) = v
  <2> DEFINE rows == InMillis(Columns, newest)
  <2>1. DOMAIN rows = 1..n /\ \A i \in 1..n : rows[i] = Columns(newest[i], Millis(newest[i].time))
    BY <1>4 DEF InMillis
  <2>2. \A i \in 1..n : BybitCandle(Columns(newest[i], Millis(newest[i].time))) = v[n - i + 1]
    BY <1>6, <1>14, ColumnsAreRead
  <2> HIDE DEF rows
  <2>3. [i \in DOMAIN rows |-> BybitCandle(rows[i])] = [i \in 1..n |-> v[n - i + 1]]
    BY <2>1, <2>2
  <2>4. BybitKlines(InMillis(Columns, newest)) = v
    BY <1>7, <2>3 DEF BybitKlines, PerRow, rows
  <2> QED
    BY <1>14, <2>4 DEF Klines, newest
<1>15. ASSUME reader.venue = "coinbase" PROVE Klines(window) = v
  <2> DEFINE rows == PerRow(Named, newest)
  <2>1. DOMAIN rows = 1..n /\ \A i \in 1..n : rows[i] = Named(newest[i])
    BY <1>4 DEF PerRow
  <2>2. \A i \in 1..n : CoinbaseCandle(Named(newest[i])) = v[n - i + 1]
    BY <1>6, <1>15, ColumnsAreRead
  <2> HIDE DEF rows
  <2>3. [i \in DOMAIN rows |-> CoinbaseCandle(rows[i])] = [i \in 1..n |-> v[n - i + 1]]
    BY <2>1, <2>2
  <2>4. CoinbaseKlines(PerRow(Named, newest)) = v
    BY <1>7, <2>3 DEF CoinbaseKlines, PerRow, rows
  <2> QED
    BY <1>15, <2>4 DEF Klines, newest
<1>16. ASSUME reader.venue = "htx" PROVE Klines(window) = v
  <2> DEFINE rows == PerRow(HtxNamed, newest)
  <2>1. DOMAIN rows = 1..n /\ \A i \in 1..n : rows[i] = HtxNamed(newest[i])
    BY <1>4 DEF PerRow
  <2>2. \A i \in 1..n : HtxCandle(HtxNamed(newest[i])) = v[n - i + 1]
    BY <1>6, <1>16, ColumnsAreRead
  <2> HIDE DEF rows
  <2>3. [i \in DOMAIN rows |-> HtxCandle(rows[i])] = [i \in 1..n |-> v[n - i + 1]]
    BY <2>1, <2>2
  <2>4. HtxKlines(PerRow(HtxNamed, newest)) = v
    BY <1>7, <2>3 DEF HtxKlines, PerRow, rows
  <2> QED
    BY <1>16, <2>4 DEF Klines, newest
<1>17. ASSUME reader.venue = "kucoin" PROVE Klines(window) = v
  <2> DEFINE rows == PerRow(KuCoinColumns, newest)
  <2>1. DOMAIN rows = 1..n /\ \A i \in 1..n : rows[i] = KuCoinColumns(newest[i])
    BY <1>4 DEF PerRow
  <2>2. \A i \in 1..n : KuCoinCandle(KuCoinColumns(newest[i])) = v[n - i + 1]
    BY <1>6, <1>17, ColumnsAreRead
  <2> HIDE DEF rows
  <2>3. [i \in DOMAIN rows |-> KuCoinCandle(rows[i])] = [i \in 1..n |-> v[n - i + 1]]
    BY <2>1, <2>2
  <2>4. KuCoinKlines(PerRow(KuCoinColumns, newest)) = v
    BY <1>7, <2>3 DEF KuCoinKlines, PerRow, rows
  <2> QED
    BY <1>17, <2>4 DEF Klines, newest
<1>18. ASSUME reader.venue = "okx" PROVE Klines(window) = v
  <2> DEFINE rows == InMillis(Columns, newest)
  <2>1. DOMAIN rows = 1..n /\ \A i \in 1..n : rows[i] = Columns(newest[i], Millis(newest[i].time))
    BY <1>4 DEF InMillis
  <2>2. \A i \in 1..n : OkxCandle(Columns(newest[i], Millis(newest[i].time))) = v[n - i + 1]
    BY <1>6, <1>18, ColumnsAreRead
  <2> HIDE DEF rows
  <2>3. [i \in DOMAIN rows |-> OkxCandle(rows[i])] = [i \in 1..n |-> v[n - i + 1]]
    BY <2>1, <2>2
  <2>4. OkxKlines(InMillis(Columns, newest)) = v
    BY <1>7, <2>3 DEF OkxKlines, PerRow, rows
  <2> QED
    BY <1>18, <2>4 DEF Klines, newest
<1>19. ASSUME reader.venue = "upbit" PROVE Klines(window) = v
  <2> DEFINE rows == PerRow(UpbitNamed, newest)
  <2>1. DOMAIN rows = 1..n /\ \A i \in 1..n : rows[i] = UpbitNamed(newest[i])
    BY <1>4 DEF PerRow
  <2>2. \A i \in 1..n : UpbitCandle(UpbitNamed(newest[i])) = v[n - i + 1]
    BY <1>6, <1>19, ColumnsAreRead
  <2> HIDE DEF rows
  <2>3. [i \in DOMAIN rows |-> UpbitCandle(rows[i])] = [i \in 1..n |-> v[n - i + 1]]
    BY <2>1, <2>2
  <2>4. UpbitKlines(PerRow(UpbitNamed, newest)) = v
    BY <1>7, <2>3 DEF UpbitKlines, PerRow, rows
  <2> QED
    BY <1>19, <2>4 DEF Klines, newest
<1> QED
  <2>1. reader.venue \in {"binance", "bitget", "bybit", "coinbase", "gate", "htx", "kraken", "kucoin",
                          "okx", "upbit"}
    BY VenuesRead
  <2>2. Klines(window) = v
    BY <2>1, <1>8, <1>9, <1>10, <1>11, <1>12, <1>13, <1>14, <1>15, <1>16, <1>17, <1>18, <1>19 
  <2> QED
    BY <2>2 DEF v, n

-----------------------------------------------------------------------------
\* The market's candles are numbered from one on, and no candle's volume
\* exceeds the trades there were.
MarketFits ==
  /\ reader \in Readers
  /\ candles \in Seq(CandleRec) /\ candles # <<>>
  /\ book_id \in Nat /\ 1 <= book_id /\ book_id <= MaxTrades + 1
  /\ \A i \in 1..Len(candles) : candles[i].time = i /\ candles[i].volume < book_id
  /\ bid \in Nat

\* What is assumed of the caller's numbers.
LEMMA ReadConstants ==
  /\ Limit \in Nat \ {0} /\ Depth \in Nat \ {0} /\ MaxTrades \in Nat /\ MaxTrades < 1000
  /\ \A p \in Prices : p \in Nat
BY ReadAssumption DEF ReadAssumption

\* An hour's candle begins with its first half, and has both halves' trades.
LEMMA MergedCandles ==
  ASSUME NEW k \in CandleRec, NEW l \in CandleRec
  PROVE  /\ Merged(k, l) \in CandleRec /\ Merged(k, l).time = k.time
         /\ Merged(k, l).volume <= k.volume + l.volume
<1>1. /\ k.open \in Nat /\ k.high \in Nat /\ k.low \in Nat /\ k.volume \in Nat /\ k.time \in Nat
      /\ l.high \in Nat /\ l.low \in Nat /\ l.close \in Nat /\ l.volume \in Nat
  BY DEF CandleRec
<1> DEFINE high == IF l.high > k.high THEN l.high ELSE k.high
           low == IF l.low < k.low THEN l.low ELSE k.low
           volume == IF k = l THEN k.volume ELSE k.volume + l.volume
<1>2. high \in Nat /\ low \in Nat /\ volume \in Nat /\ volume <= k.volume + l.volume
  BY <1>1
<1>3. Merged(k, l) = Candle(k.open, high, low, l.close, volume, k.time)
  BY DEF Merged
<1> HIDE DEF high, low, volume
<1>4. /\ Candle(k.open, high, low, l.close, volume, k.time) \in CandleRec
      /\ Candle(k.open, high, low, l.close, volume, k.time).time = k.time
      /\ Candle(k.open, high, low, l.close, volume, k.time).volume = volume
  BY <1>1, <1>2 DEF Candle, CandleRec
<1> QED
  BY <1>2, <1>3, <1>4

\* Hours are made of the candles of their two halves.
LEMMA HoursAreCandles ==
  ASSUME MarketFits
  PROVE  /\ Hourly \in Seq(CandleRec) /\ Len(Hourly) = (Len(candles) + 1) \div 2
         /\ \A h \in 1..Len(Hourly) : Hourly[h].time = 2 * h - 1 /\ Hourly[h].volume < 2000
<1> DEFINE n == (Len(candles) + 1) \div 2
           EndOf(h) == IF 2 * h > Len(candles) THEN Len(candles) ELSE 2 * h
<1>1. Len(candles) \in Nat /\ n \in Nat /\ \A i \in 1..Len(candles) : candles[i] \in CandleRec
  BY DEF MarketFits
<1>2. \A h \in 1..n : 2 * h - 1 \in 1..Len(candles) /\ EndOf(h) \in 1..Len(candles)
  BY <1>1
<1>3. Hourly = [h \in 1..n |-> Merged(candles[2 * h - 1], candles[EndOf(h)])]
  BY DEF Hourly, Period
<1> HIDE DEF n, EndOf
<1>4. ASSUME NEW h \in 1..n
      PROVE  Hourly[h] \in CandleRec /\ Hourly[h].time = 2 * h - 1 /\ Hourly[h].volume < 2000
  <2>1. /\ 2 * h - 1 \in 1..Len(candles) /\ EndOf(h) \in 1..Len(candles)
        /\ Hourly[h] = Merged(candles[2 * h - 1], candles[EndOf(h)])
    BY <1>2, <1>3
  <2>2. candles[2 * h - 1] \in CandleRec /\ candles[EndOf(h)] \in CandleRec
    BY <1>1, <2>1
  <2>3. /\ Hourly[h] \in CandleRec /\ Hourly[h].time = candles[2 * h - 1].time
        /\ Hourly[h].volume <= candles[2 * h - 1].volume + candles[EndOf(h)].volume
    BY <2>1, <2>2, MergedCandles
  <2>4. candles[2 * h - 1].time = 2 * h - 1
    BY <2>1 DEF MarketFits
  <2>5. \A i \in 1..Len(candles) : candles[i].volume \in Nat /\ candles[i].volume < 1000
    <3>1. \A i \in 1..Len(candles) : candles[i].volume \in Nat
      BY <1>1 DEF CandleRec
    <3> QED
      BY <3>1, ReadConstants DEF MarketFits
  <2>6. Hourly[h].volume \in Nat
    BY <2>3 DEF CandleRec
  <2>7. /\ candles[2 * h - 1].volume \in Nat /\ candles[2 * h - 1].volume < 1000
        /\ candles[EndOf(h)].volume \in Nat /\ candles[EndOf(h)].volume < 1000
    BY <2>1, <2>5
  <2> QED
    BY <2>3, <2>4, <2>6, <2>7
<1>5. Hourly \in Seq(CandleRec) /\ Len(Hourly) = n
  BY <1>1, <1>3, <1>4
<1> QED
  BY <1>4, <1>5 DEF n

\* The venue's candles of what is asked for are in the order of time, and so
\* are their stamps.
LEMMA SeriesFits ==
  ASSUME MarketFits
  PROVE  /\ Series \in Seq(CandleRec) /\ Len(Series) \in Nat \ {0}
         /\ \A i \in 1..Len(Series) : Series[i] \in CandleRec /\ StampOf(Series[i]) \in Nat
         /\ \A i, j \in 1..Len(Series) : i < j => StampOf(Series[i]) < StampOf(Series[j])
<1>1. Len(candles) \in Nat \ {0} /\ \A i \in 1..Len(candles) : candles[i] \in CandleRec
  BY DEF MarketFits
<1>2. \A i \in 1..Len(candles) : candles[i].time = i /\ candles[i].volume < 1000
  <2>1. \A i \in 1..Len(candles) : candles[i].volume \in Nat
    BY <1>1 DEF CandleRec
  <2> QED
    BY <2>1, ReadConstants DEF MarketFits
<1>3. /\ Series \in Seq(CandleRec) /\ Len(Series) \in Nat \ {0}
      /\ \/ \A i \in 1..Len(Series) : Series[i].time = i /\ Series[i].volume < 1000
         \/ \A i \in 1..Len(Series) : Series[i].time = 2 * i - 1 /\ Series[i].volume < 2000
  <2>1. CASE AsksFor = interval
    <3>1. Series = candles
      BY <2>1 DEF Series
    <3> QED
      BY <1>1, <1>2, <3>1 DEF MarketFits
  <2>2. CASE AsksFor # interval
    <3>1. Series = Hourly
      BY <2>2 DEF Series
    <3>2. (Len(candles) + 1) \div 2 \in Nat \ {0}
      BY <1>1
    <3> QED
      BY <3>1, <3>2, HoursAreCandles
  <2> QED
    BY <2>1, <2>2
<1>4. \A i \in 1..Len(Series) : /\ Series[i] \in CandleRec
                                /\ Series[i].time \in Nat /\ Series[i].volume \in Nat
  <2>1. \A i \in 1..Len(Series) : Series[i] \in CandleRec
    BY <1>3, SequenceHas
  <2> QED
    BY <2>1 DEF CandleRec
<1>5. \A i \in 1..Len(Series) : StampOf(Series[i]) \in Nat
  BY <1>4 DEF StampOf, LastTrade, Millis
<1>6. ASSUME NEW i \in 1..Len(Series), NEW j \in 1..Len(Series), i < j
      PROVE  StampOf(Series[i]) < StampOf(Series[j])
  <2>1. Series[i].time < Series[j].time
    BY <1>3, <1>6
  <2>2. LastTrade(Series[i]) < LastTrade(Series[j])
    <3> DEFINE ti == Series[i].time
               tj == Series[j].time
               vi == Series[i].volume
               vj == Series[j].volume
    <3>1. ti \in Nat /\ tj \in Nat /\ vi \in Nat /\ vj \in Nat
      BY <1>4
    <3>2. \/ ti + 1 <= tj /\ vi < 1000
          \/ ti + 2 <= tj /\ vi < 2000
      BY <1>3, <1>6
    <3> HIDE DEF ti, tj, vi, vj
    <3>3. 1000 * ti + vi < 1000 * tj + vj
      BY <3>1, <3>2
    <3> QED
      BY <3>3 DEF LastTrade, Millis, ti, tj, vi, vj
  <2> QED
    BY <1>4, <2>1, <2>2 DEF StampOf, Millis
<1> QED
  BY <1>3, <1>4, <1>5, <1>6

\* What the market does next changes none of its candles but the last one.
LEMMA SeriesGrows ==
  ASSUME MarketFits, UNCHANGED <<reader, interval>>, candles' \in Seq(CandleRec),
         Len(candles') \in {Len(candles), Len(candles) + 1},
         \A i \in 1..(Len(candles) - 1) : candles'[i] = candles[i],
         Len(candles') > Len(candles) => candles'[Len(candles)] = candles[Len(candles)]
  PROVE  /\ Len(Series') \in Nat /\ Len(Series') >= Len(Series)
         /\ \A i \in 1..(Len(Series) - 1) : Series'[i] = Series[i]
<1>1. Len(candles) \in Nat \ {0} /\ Len(candles') \in Nat
  BY DEF MarketFits
<1>2. AsksFor' = AsksFor
  BY DEF AsksFor, Linear
<1>3. CASE AsksFor = interval
  BY <1>1, <1>2, <1>3 DEF Series
<1>4. CASE AsksFor # interval
  <2>1. Series = Hourly /\ Series' = Hourly'
    BY <1>2, <1>4 DEF Series
  <2> DEFINE EndOf(h, n) == IF 2 * h > n THEN n ELSE 2 * h
             n == Len(candles)
             m == Len(candles')
  <2>2. /\ Hourly = [h \in 1..((n + 1) \div 2) |-> Merged(candles[2 * h - 1], candles[EndOf(h, n)])]
        /\ Hourly' = [h \in 1..((m + 1) \div 2) |-> Merged(candles'[2 * h - 1], candles'[EndOf(h, m)])]
    BY DEF Hourly, Period, Merged, Candle
  <2> HIDE DEF EndOf, n, m
  <2>3. n \in Nat \ {0} /\ m \in {n, n + 1}
    BY <1>1 DEF n, m
  <2>4. (n + 1) \div 2 \in Nat /\ (m + 1) \div 2 \in Nat /\ (m + 1) \div 2 >= (n + 1) \div 2
    BY <2>3
  <2>5. Len(Hourly) = (n + 1) \div 2 /\ Len(Hourly') = (m + 1) \div 2
    BY <2>2, <2>4
  <2>6. ASSUME NEW h \in 1..((n + 1) \div 2 - 1)
        PROVE  /\ 2 * h - 1 \in 1..(n - 1) /\ 2 * h \in 1..(n - 1)
               /\ EndOf(h, n) = 2 * h /\ EndOf(h, m) = 2 * h
               /\ h \in 1..((n + 1) \div 2) /\ h \in 1..((m + 1) \div 2)
    <3>1. 2 * h - 1 \in 1..(n - 1) /\ 2 * h \in 1..(n - 1)
      BY <2>3
    <3> QED
      BY <2>3, <2>4, <3>1 DEF EndOf
  <2>7. ASSUME NEW h \in 1..((n + 1) \div 2 - 1)
        PROVE  Hourly'[h] = Hourly[h]
    <3>1. candles'[2 * h - 1] = candles[2 * h - 1] /\ candles'[2 * h] = candles[2 * h]
      BY <2>6 DEF n
    <3>2. /\ Hourly[h] = Merged(candles[2 * h - 1], candles[EndOf(h, n)])
          /\ Hourly'[h] = Merged(candles'[2 * h - 1], candles'[EndOf(h, m)])
      BY <2>2, <2>6
    <3> QED
      BY <2>6, <3>1, <3>2
  <2> QED
    BY <2>1, <2>4, <2>5, <2>7
<1> QED
  BY <1>3, <1>4

-----------------------------------------------------------------------------
\* What the caller keeps: candles that were over, as its client tells them, in
\* the order of their stamps.
Ordered(h) == \A i, j \in 1..Len(h) : i < j => h[i].time < h[j].time
WasTold(h) ==
  \A i \in 1..Len(h) : \E j \in 1..(Len(Series) - 1) : h[i] = ReadAs(Series[j])
HistoryFits == history \in Seq(CandleRec) /\ Ordered(history) /\ WasTold(history)

\* A part of a sequence, entry by entry.
LEMMA PartOf ==
  ASSUME NEW S, NEW q \in Seq(S), NEW a \in Nat \ {0}, NEW b \in Nat, b <= Len(q), a <= b + 1
  PROVE  /\ SubSeq(q, a, b) \in Seq(S) /\ Len(SubSeq(q, a, b)) = b - a + 1
         /\ \A i \in 1..(b - a + 1) : SubSeq(q, a, b)[i] = q[a + i - 1]
OBVIOUS

\* The first entries of a sequence.
LEMMA FrontOf ==
  ASSUME NEW S, NEW q \in Seq(S), NEW m \in Nat, m <= Len(q)
  PROVE  /\ SubSeq(q, 1, m) \in Seq(S) /\ Len(SubSeq(q, 1, m)) = m
         /\ \A i \in 1..m : SubSeq(q, 1, m)[i] = q[i]
OBVIOUS

\* Two sequences joined, entry by entry.
LEMMA JoinOf ==
  ASSUME NEW S, NEW p \in Seq(S), NEW q \in Seq(S)
  PROVE  /\ p \o q \in Seq(S) /\ Len(p \o q) = Len(p) + Len(q)
         /\ \A i \in 1..Len(p) : (p \o q)[i] = p[i]
         /\ \A i \in 1..Len(q) : (p \o q)[Len(p) + i] = q[i]
OBVIOUS

\* There is a place in the history before which all are older than a time, and
\* after which none is.
LEMMA ThereIsACut ==
  ASSUME history \in Seq(CandleRec), Ordered(history), NEW time \in Nat
  PROVE  /\ Before(time) \in 0..Len(history)
         /\ \A i \in 1..Len(history) : i <= Before(time) <=> history[i].time < time
<1> DEFINE n == Len(history)
           Cut(m, l) == m \in 0..l /\ \A i \in 1..l : i <= m <=> history[i].time < time
           Q == {l \in Nat : \E m \in 0..l : Cut(m, l)}
<1>1. n \in Nat /\ DOMAIN history = 1..n /\ \A i \in 1..n : history[i].time \in Nat
  <2>1. n \in Nat /\ DOMAIN history = 1..n /\ \A i \in 1..n : history[i] \in CandleRec
    OBVIOUS
  <2> QED
    BY <2>1 DEF CandleRec
<1>2. 0 \in Q
  BY Cut(0, 0)
<1>3. ASSUME NEW l \in 1..n, l - 1 \in Q PROVE l \in Q
  <2>1. PICK m \in 0..(l - 1) : Cut(m, l - 1)
    BY <1>3
  <2>2. CASE history[l].time < time
    <3>1. ASSUME NEW i \in 1..l PROVE history[i].time < time
      BY <1>1, <2>2 DEF Ordered
    <3>2. \A i \in 1..l : i <= l
      OBVIOUS
    <3>3. Cut(l, l) /\ l \in 0..l
      BY <3>1, <3>2
    <3> QED
      BY <3>3
  <2>3. CASE ~(history[l].time < time)
    <3>1. ASSUME NEW i \in 1..l PROVE i <= m <=> history[i].time < time
      BY <2>1, <2>3
    <3>2. \E k \in 0..l : Cut(k, l)
      <4>1. Cut(m, l) /\ m \in 0..l
        BY <2>1, <3>1
      <4> QED
        BY <4>1
    <3>3. l \in Nat
      BY <1>1
    <3> HIDE DEF Cut
    <3> QED
      BY <3>2, <3>3
  <2> QED
    BY <2>2, <2>3
<1>4. n \in Q
  <2>1. Q \in SUBSET Nat
    OBVIOUS
  <2> HIDE DEF Q
  <2>2. \A i \in 0..n : i \in Q
    BY <1>1, <1>2, <1>3, <2>1, UpTo
  <2> QED
    BY <1>1, <2>2
<1>5. \E m \in 0..n : \A i \in 1..n : i <= m <=> history[i].time < time
  BY <1>4
<1> QED
  BY <1>1, <1>5 DEF Before

\* Keeping an answer keeps that.
LEMMA KeptFits ==
  ASSUME MarketFits, HistoryFits, NEW from \in Nat \ {0}, NEW n \in Nat, from + n - 1 <= Len(Series),
         NEW rows, rows = [i \in 1..n |-> ReadAs(Series[from + i - 1])]
  PROVE  Kept(rows) \in Seq(CandleRec) /\ Ordered(Kept(rows)) /\ WasTold(Kept(rows))
<1> DEFINE over == SubSeq(rows, 1, Len(rows) - 1)
<1>1. \A i \in 1..Len(Series) : Series[i] \in CandleRec /\ StampOf(Series[i]) \in Nat
  BY SeriesFits
<1>2. \A i \in 1..Len(Series) : /\ ReadAs(Series[i]) \in CandleRec
                                /\ ReadAs(Series[i]).time = StampOf(Series[i])
  BY <1>1 DEF ReadAs, Candle, CandleRec
<1>3. \A i \in 1..n : from + i - 1 \in 1..Len(Series)
  BY SeriesFits
<1>4. rows \in Seq(CandleRec) /\ Len(rows) = n
  BY <1>2, <1>3
<1>5. CASE n <= 1
  <2>1. over = <<>>
    BY <1>4, <1>5
  <2> QED
    BY <2>1 DEF Kept, HistoryFits
<1>6. CASE n > 1
  <2> DEFINE m == n - 1
             h == Len(history)
             s == Before(over[1].time)
             e == Before(over[m].time + 1)
             head == SubSeq(history, 1, s)
             tail == SubSeq(history, e + 1, h)
             new == head \o over \o tail
  <2>1. /\ m \in Nat \ {0} /\ over \in Seq(CandleRec) /\ Len(over) = m
        /\ \A i \in 1..m : over[i] = rows[i]
    <3>1. m \in Nat \ {0} /\ 1 <= m + 1 /\ m <= Len(rows)
      BY <1>4, <1>6
    <3>2. over = SubSeq(rows, 1, m)
      BY <1>4
    <3> HIDE DEF m, over
    <3>3. /\ SubSeq(rows, 1, m) \in Seq(CandleRec) /\ Len(SubSeq(rows, 1, m)) = m
          /\ \A i \in 1..m : SubSeq(rows, 1, m)[i] = rows[i]
      <4>1. m \in Nat /\ m <= Len(rows) /\ rows \in Seq(CandleRec)
        BY <1>4, <3>1
      <4> QED
        BY <4>1, FrontOf
    <3> QED
      BY <3>1, <3>2, <3>3
  <2>2. \A i \in 1..m : over[i] = ReadAs(Series[from + i - 1])
    <3>1. \A i \in 1..m : i \in 1..n
      OBVIOUS
    <3> QED
      BY <2>1, <3>1
  <2>3. Kept(rows) = new
    <3>1. over # <<>>
      BY <2>1
    <3> QED
      BY <2>1, <3>1 DEF Kept
  <2>4. \A i \in 1..m : /\ from + i - 1 \in 1..(Len(Series) - 1)
                        /\ over[i].time = StampOf(Series[from + i - 1]) /\ over[i].time \in Nat
    <3>1. \A i \in 1..m : from + i - 1 \in 1..(Len(Series) - 1)
      BY SeriesFits
    <3> QED
      BY <1>1, <1>2, <2>2, <3>1
  <2> HIDE DEF over, s, e, m
  <2>5. \A i, j \in 1..m : i < j => over[i].time < over[j].time
    <3>1. ASSUME NEW i \in 1..m, NEW j \in 1..m, i < j
          PROVE  /\ from + i - 1 \in 1..Len(Series) /\ from + j - 1 \in 1..Len(Series)
                 /\ from + i - 1 < from + j - 1
      BY <2>1, <2>4, <3>1
    <3> QED
      BY <2>4, <3>1, SeriesFits
  <2>6. /\ h \in Nat /\ history \in Seq(CandleRec)
        /\ \A i \in 1..h : history[i].time \in Nat
    <3>1. h \in Nat /\ \A i \in 1..h : history[i] \in CandleRec
      BY DEF HistoryFits
    <3> QED
      BY <3>1 DEF HistoryFits, CandleRec
  <2>7. /\ s \in 0..h /\ \A i \in 1..h : i <= s <=> history[i].time < over[1].time
        /\ e \in 0..h /\ \A i \in 1..h : i <= e <=> history[i].time < over[m].time + 1
    <3>1. over[1].time \in Nat /\ over[m].time + 1 \in Nat
      BY <2>1, <2>4
    <3> QED
      BY <3>1, ThereIsACut DEF HistoryFits, s, e
  <2>8. \A i \in 1..m : over[1].time <= over[i].time /\ over[i].time <= over[m].time
    <3> SUFFICES ASSUME NEW i \in 1..m
                 PROVE  over[1].time <= over[i].time /\ over[i].time <= over[m].time
      OBVIOUS
    <3>1. 1 \in 1..m /\ m \in 1..m /\ (i = 1 \/ 1 < i) /\ (i = m \/ i < m)
      BY <2>1
    <3>2. over[1].time \in Nat /\ over[i].time \in Nat /\ over[m].time \in Nat
      BY <2>4, <3>1
    <3>3. over[1].time <= over[i].time
      <4>1. CASE i = 1
        BY <3>2, <4>1
      <4>2. CASE 1 < i
        <5>1. over[1].time < over[i].time
          BY <2>5, <3>1, <4>2
        <5> QED
          BY <3>2, <5>1
      <4> QED
        BY <3>1, <4>1, <4>2
    <3>4. over[i].time <= over[m].time
      <4>1. CASE i = m
        BY <3>2, <4>1
      <4>2. CASE i < m
        <5>1. over[i].time < over[m].time
          BY <2>5, <3>1, <4>2
        <5> QED
          BY <3>2, <5>1
      <4> QED
        BY <3>1, <4>1, <4>2
    <3> QED
      BY <3>3, <3>4
  <2>9. /\ head \in Seq(CandleRec) /\ Len(head) = s /\ \A i \in 1..s : head[i] = history[i]
        /\ tail \in Seq(CandleRec) /\ Len(tail) = h - e /\ \A i \in 1..(h - e) : tail[i] = history[e + i]
    <3>1. head \in Seq(CandleRec) /\ Len(head) = s /\ \A i \in 1..s : head[i] = history[i]
      BY <2>6, <2>7, PartOf
    <3>2. /\ tail \in Seq(CandleRec) /\ Len(tail) = h - (e + 1) + 1
          /\ \A i \in 1..(h - (e + 1) + 1) : tail[i] = history[(e + 1) + i - 1]
      <4>1. e + 1 \in Nat \ {0} /\ e + 1 <= h + 1 /\ h <= Len(history)
        BY <2>6, <2>7
      <4> QED
        BY <2>6, <4>1, PartOf
    <3>3. h - (e + 1) + 1 = h - e /\ \A i \in 1..(h - e) : (e + 1) + i - 1 = e + i
      BY <2>6, <2>7
    <3> QED
      BY <3>1, <3>2, <3>3
  <2> HIDE DEF head, tail, h
  <2>10. /\ new \in Seq(CandleRec) /\ Len(new) = s + m + (h - e)
         /\ \A i \in 1..s : new[i] = history[i]
         /\ \A i \in 1..m : new[s + i] = over[i]
         /\ \A i \in 1..(h - e) : new[s + m + i] = history[e + i]
    <3>1. /\ head \o over \in Seq(CandleRec) /\ Len(head \o over) = s + m
          /\ \A i \in 1..s : (head \o over)[i] = head[i]
          /\ \A i \in 1..m : (head \o over)[s + i] = over[i]
      <4>1. /\ head \o over \in Seq(CandleRec) /\ Len(head \o over) = Len(head) + Len(over)
            /\ \A i \in 1..Len(head) : (head \o over)[i] = head[i]
            /\ \A i \in 1..Len(over) : (head \o over)[Len(head) + i] = over[i]
        <5>1. head \in Seq(CandleRec) /\ over \in Seq(CandleRec)
          BY <2>1, <2>9
        <5> QED
          BY <5>1, JoinOf
      <4> QED
        BY <2>1, <2>9, <4>1
    <3>2. /\ new \in Seq(CandleRec) /\ Len(new) = s + m + (h - e)
          /\ \A i \in 1..(s + m) : new[i] = (head \o over)[i]
          /\ \A i \in 1..(h - e) : new[s + m + i] = tail[i]
      <4> DEFINE front == head \o over
      <4>1. front \in Seq(CandleRec) /\ tail \in Seq(CandleRec)
        BY <2>9, <3>1
      <4>2. new = front \o tail
        OBVIOUS
      <4> HIDE DEF front, new
      <4>3. /\ new \in Seq(CandleRec) /\ Len(new) = Len(front) + Len(tail)
            /\ \A i \in 1..Len(front) : new[i] = front[i]
            /\ \A i \in 1..Len(tail) : new[Len(front) + i] = tail[i]
        BY <4>1, <4>2, JoinOf
      <4> QED
        BY <2>9, <3>1, <4>3 DEF front
    <3>3. \A i \in 1..s : i \in 1..(s + m)
      BY <2>1, <2>7
    <3>4. \A i \in 1..m : s + i \in 1..(s + m)
      BY <2>1, <2>7
    <3> QED
      BY <2>9, <3>1, <3>2, <3>3, <3>4
  <2> HIDE DEF new
  \* Each candle of it is one of the old or one of the answer's, and is on its
  \* side of the other parts.
  <2>11. ASSUME NEW k \in 1..Len(new), k <= s
         PROVE  /\ k \in 1..h /\ new[k] = history[k]
                /\ new[k].time \in Nat /\ new[k].time < over[1].time
    <3>1. k \in 1..h /\ k \in 1..s
      BY <2>6, <2>7, <2>10, <2>11
    <3>2. new[k] = history[k]
      BY <2>10, <3>1
    <3> QED
      BY <2>6, <2>7, <2>11, <3>1, <3>2
  <2>12. ASSUME NEW k \in 1..Len(new), s < k, k <= s + m
         PROVE  /\ k - s \in 1..m /\ new[k] = over[k - s] /\ new[k].time \in Nat
                /\ over[1].time <= new[k].time /\ new[k].time <= over[m].time
    <3>1. k - s \in 1..m /\ s + (k - s) = k
      BY <2>1, <2>6, <2>7, <2>10, <2>12
    <3>2. new[k] = over[k - s]
      BY <2>10, <3>1
    <3> QED
      BY <2>4, <2>8, <3>1, <3>2
  <2>13. ASSUME NEW k \in 1..Len(new), s + m < k
         PROVE  /\ e + (k - s - m) \in 1..h /\ new[k] = history[e + (k - s - m)]
                /\ new[k].time \in Nat /\ over[m].time < new[k].time
    <3> DEFINE i == k - s - m
    <3>1. i \in 1..(h - e) /\ s + m + i = k /\ e + i \in 1..h /\ ~(e + i <= e)
      BY <2>1, <2>6, <2>7, <2>10, <2>13
    <3> HIDE DEF i
    <3>2. new[k] = history[e + i]
      BY <2>10, <3>1
    <3>3. ~(history[e + i].time < over[m].time + 1)
      BY <2>7, <3>1
    <3>4. history[e + i].time \in Nat /\ over[m].time \in Nat
      <4>1. m \in 1..m
        BY <2>1
      <4>2. over[m].time \in Nat
        BY <2>4, <4>1
      <4> QED
        BY <2>6, <3>1, <4>2
    <3>5. over[m].time < history[e + i].time
      BY <3>3, <3>4
    <3> QED
      BY <3>1, <3>2, <3>4, <3>5 DEF i
  <2>14. s \in Nat /\ e \in Nat /\ h \in Nat /\ m \in Nat /\ Len(new) \in Nat
    BY <2>1, <2>6, <2>7, <2>10
  <2>15. over[1].time <= over[m].time /\ over[1].time \in Nat /\ over[m].time \in Nat
    <3>1. 1 \in 1..m /\ m \in 1..m
      BY <2>1
    <3> QED
      BY <2>4, <2>8, <3>1
  <2>16. Ordered(new)
    <3> SUFFICES ASSUME NEW k \in 1..Len(new), NEW l \in 1..Len(new), k < l
                 PROVE  new[k].time < new[l].time
      BY DEF Ordered
    <3>1. \A i, j \in 1..h : i < j => history[i].time < history[j].time
      BY DEF HistoryFits, Ordered, h
    <3>2. CASE l <= s
      <4>1. k <= s
        BY <2>14, <3>2
      <4>2. new[k] = history[k] /\ new[l] = history[l] /\ k \in 1..h /\ l \in 1..h
        BY <2>11, <3>2, <4>1
      <4> QED
        BY <3>1, <4>2
    <3>3. CASE k <= s /\ s < l
      <4>1. new[k].time \in Nat /\ new[k].time < over[1].time
        BY <2>11, <3>3
      <4>2. CASE l <= s + m
        <5>1. new[l].time \in Nat /\ over[1].time <= new[l].time
          BY <2>12, <3>3, <4>2
        <5> QED
          BY <2>15, <4>1, <5>1
      <4>3. CASE s + m < l
        <5>1. new[l].time \in Nat /\ over[m].time < new[l].time
          BY <2>13, <4>3
        <5> QED
          BY SMTT(40), <2>15, <4>1, <5>1
      <4> QED
        BY <2>14, <4>2, <4>3
    <3>4. CASE s < k /\ l <= s + m
      <4>1. k <= s + m /\ s < l
        BY <2>14, <3>4
      <4>2. k - s \in 1..m /\ new[k] = over[k - s]
        BY <2>12, <3>4, <4>1
      <4>3. l - s \in 1..m /\ new[l] = over[l - s]
        BY <2>12, <3>4, <4>1
      <4>4. k - s < l - s
        BY <2>14
      <4> QED
        BY <2>5, <4>2, <4>3, <4>4
    <3>5. CASE s < k /\ k <= s + m /\ s + m < l
      <4>1. new[k].time \in Nat /\ new[k].time <= over[m].time
        BY <2>12, <3>5
      <4>2. new[l].time \in Nat /\ over[m].time < new[l].time
        BY <2>13, <3>5
      <4> QED
        BY <2>15, <4>1, <4>2
    <3>6. CASE s + m < k
      <4>1. s + m < l
        BY <2>14, <3>6
      <4>2. e + (k - s - m) \in 1..h /\ new[k] = history[e + (k - s - m)]
        BY <2>13, <3>6
      <4>3. e + (l - s - m) \in 1..h /\ new[l] = history[e + (l - s - m)]
        BY <2>13, <4>1
      <4>4. e + (k - s - m) < e + (l - s - m)
        BY <2>14
      <4> QED
        BY <3>1, <4>2, <4>3, <4>4
    <3> QED
      BY <2>14, <3>2, <3>3, <3>4, <3>5, <3>6
  <2>17. WasTold(new)
    <3> SUFFICES ASSUME NEW k \in 1..Len(new)
                 PROVE  \E j \in 1..(Len(Series) - 1) : new[k] = ReadAs(Series[j])
      BY DEF WasTold
    <3>1. \A i \in 1..h : \E j \in 1..(Len(Series) - 1) : history[i] = ReadAs(Series[j])
      BY DEF HistoryFits, WasTold, h
    <3>2. CASE k <= s
      BY <2>11, <3>1, <3>2
    <3>3. CASE s < k /\ k <= s + m
      BY <2>2, <2>4, <2>12, <3>3
    <3>4. CASE s + m < k
      BY <2>13, <3>1, <3>4
    <3> QED
      BY <2>14, <3>2, <3>3, <3>4
  <2> QED
    BY <2>3, <2>10, <2>16, <2>17
<1> QED
  BY <1>5, <1>6

\* Whichever of its candles the venue answers with.
LEMMA AnswersAreKept ==
  ASSUME MarketFits, HistoryFits, NEW window \in Windows
  PROVE  /\ Kept(Klines(window)) \in Seq(CandleRec) /\ Ordered(Kept(Klines(window)))
         /\ WasTold(Kept(Klines(window)))
<1> DEFINE from == IF window[1] < 1 THEN 1 ELSE window[1]
           to == window[2]
           ks == SubSeq(Series, from, to)
           len == Len(Series)
<1>1. Series \in Seq(CandleRec) /\ len \in Nat \ {0}
  BY SeriesFits
<1>2. \E e \in {len - 1, len}, b \in Int : window = <<b, e>> /\ (b <= e \/ b = 1)
  <2>1. CASE reader.venue = "coinbase"
    <3>1. PICK e \in {len - 1, len}, inside \in {0, 1} : window = <<e - Limit + inside, e>>
      BY <2>1 DEF Windows
    <3>2. e - Limit + inside \in Int /\ e - Limit + inside <= e
      BY <1>1, ReadConstants
    <3> QED
      BY <3>1, <3>2
  <2>2. CASE reader.venue \in {"kraken", "kucoin"}
    BY <2>2 DEF Windows
  <2>3. CASE reader.venue \notin {"coinbase", "kraken", "kucoin"}
    <3>1. window = <<len - Limit + 1, len>>
      <4>1. Windows = {<<len - Limit + 1, len>>}
        BY <2>3 DEF Windows
      <4> QED
        BY <4>1
    <3>2. len - Limit + 1 \in Int /\ len - Limit + 1 <= len
      BY <1>1, ReadConstants
    <3> QED
      BY <3>1, <3>2
  <2> QED
    BY <2>1, <2>2, <2>3
<1>3. /\ from \in Nat \ {0} /\ to \in Nat /\ to <= len /\ from <= len
  <2>1. PICK e \in {len - 1, len}, b \in Int : window = <<b, e>> /\ (b <= e \/ b = 1)
    BY <1>2
  <2>2. window[1] = b /\ window[2] = e
    BY <2>1
  <2> QED
    BY <1>1, <2>1, <2>2
<1> HIDE DEF from, to
<1> DEFINE n == IF from <= to THEN to - from + 1 ELSE 0
<1>4. n \in Nat /\ from + n - 1 <= len
  BY <1>1, <1>3
<1>5. /\ ks \in Seq(CandleRec) /\ Len(ks) = n
      /\ \A i \in 1..n : ks[i] = Series[from + i - 1]
  <2>1. CASE from <= to
    <3>1. from <= to + 1
      BY <1>3, <2>1
    <3>2. to - from + 1 = n
      BY <2>1
    <3> HIDE DEF n
    <3> QED
      BY <1>1, <1>3, <3>1, <3>2, PartOf
  <2>2. CASE ~(from <= to)
    <3>1. ks = <<>> /\ n = 0
      BY <1>1, <1>3, <2>2
    <3> QED
      BY <3>1
  <2> QED
    BY <2>1, <2>2
<1>6. Klines(window) = [i \in 1..n |-> ReadAs(Series[from + i - 1])]
  <2>1. Klines(window) = [i \in 1..Len(ks) |-> ReadAs(ks[i])]
    BY <1>5, RowsAreRead DEF from, to, MarketFits
  <2> HIDE DEF ks, n
  <2> QED
    BY <1>5, <2>1
<1> HIDE DEF n
<1> QED
  BY <1>3, <1>4, <1>6, KeptFits

-----------------------------------------------------------------------------
MomentRec ==
  [last : Nat, bid : Nat, ask : Nat, volume : Nat, change : Nat, time : Nat \ {0}]

TickerTold(v, f, m) ==
  /\ v.last = f.last /\ Stamped(v.time, f)
  /\ TwoRequests(reader) \/ f = m
  /\ reader.venue # "htx" => v.volume = IF reader.venue = "coinbase" THEN 0 ELSE f.volume
  /\ IF reader.venue = "upbit" THEN v.bid = v.last /\ v.ask = v.last
     ELSE v.bid = m.bid /\ v.ask = m.ask

BookTold(v, m) ==
  /\ Len(v.bids) = Len(v.asks) /\ Len(v.bids) >= Depth
  /\ Len(v.bids) > Depth => IgnoresDepth(reader)
  /\ \A i \in DOMAIN v.bids : v.bids[i] = Level(m.bid + 1 - i, i)
  /\ \A i \in DOMAIN v.asks : v.asks[i] = Level(m.ask - 1 + i, i)
  /\ Stamped(v.time, m) /\ v.id \in {0, m.change, v.time}

RatioTold(v, m) ==
  LET counted == LongsOf(m.time) + ShortsOf(m.time) + (IF reader.venue = "htx" THEN 1 ELSE 0)
  IN /\ Same(v.long, Fraction(LongsOf(m.time), counted))
     /\ Same(v.short, Fraction(ShortsOf(m.time), counted))
     /\ v.time = Millis(m.time)

InterestTold(v, m) ==
  /\ v.amount = IF reader.venue \in {"gate", "htx"} THEN Contracts(m) ELSE Coins(m)
  /\ Stamped(v.time, m)

\* The two sides of every venue's book, level by level.
Bids(m, n) == [i \in 1..n |-> Level(m.bid + 1 - i, i)]
Asks(m, n) == [i \in 1..n |-> Level(m.ask - 1 + i, i)]

\* Four clients read a side's pairs of price and quantity.
LEMMA PairsAreRead ==
  ASSUME NEW m \in MomentRec, NEW n \in Nat
  PROVE  /\ PairLevels(BidPairs(m, n)) = Bids(m, n) /\ PairLevels(AskPairs(m, n)) = Asks(m, n)
         /\ HtxLevels(BidPairs(m, n)) = Bids(m, n) /\ HtxLevels(AskPairs(m, n)) = Asks(m, n)
         /\ KrakenLevels(BidPairs(m, n)) = Bids(m, n) /\ KrakenLevels(AskPairs(m, n)) = Asks(m, n)
         /\ OkxLevels(BidPairs(m, n)) = Bids(m, n) /\ OkxLevels(AskPairs(m, n)) = Asks(m, n)
<1>1. /\ DOMAIN BidPairs(m, n) = 1..n /\ DOMAIN AskPairs(m, n) = 1..n
      /\ \A i \in 1..n : BidPairs(m, n)[i][1] = m.bid + 1 - i /\ BidPairs(m, n)[i][2] = i
      /\ \A i \in 1..n : AskPairs(m, n)[i][1] = m.ask - 1 + i /\ AskPairs(m, n)[i][2] = i
  BY DEF BidPairs, AskPairs
<1>2. /\ [i \in DOMAIN BidPairs(m, n) |-> Level(BidPairs(m, n)[i][1], BidPairs(m, n)[i][2])] = Bids(m, n)
      /\ [i \in DOMAIN AskPairs(m, n) |-> Level(AskPairs(m, n)[i][1], AskPairs(m, n)[i][2])] = Asks(m, n)
  BY <1>1 DEF Bids, Asks
<1> QED
  BY <1>2 DEF PairLevels, HtxLevels, KrakenLevels, OkxLevels, PerRow

\* Coinbase's client reads a side's objects.
LEMMA ObjectsAreRead ==
  ASSUME NEW m \in MomentRec
  PROVE  /\ ObjectLevels(CoinbasePricebook(m).bids) = Bids(m, Depth)
         /\ ObjectLevels(CoinbasePricebook(m).asks) = Asks(m, Depth)
<1> DEFINE b == [i \in DOMAIN BidPairs(m, Depth) |-> [price |-> BidPairs(m, Depth)[i][1], size |-> BidPairs(m, Depth)[i][2]]]
           a == [i \in DOMAIN AskPairs(m, Depth) |-> [price |-> AskPairs(m, Depth)[i][1], size |-> AskPairs(m, Depth)[i][2]]]
<1>1. CoinbasePricebook(m).bids = b /\ CoinbasePricebook(m).asks = a
  BY DEF CoinbasePricebook, PerRow
<1>2. /\ DOMAIN b = 1..Depth /\ DOMAIN a = 1..Depth
      /\ \A i \in 1..Depth : b[i].price = m.bid + 1 - i /\ b[i].size = i
      /\ \A i \in 1..Depth : a[i].price = m.ask - 1 + i /\ a[i].size = i
  BY DEF BidPairs, AskPairs
<1> HIDE DEF a, b
<1>3. /\ [i \in DOMAIN b |-> Level(b[i].price, b[i].size)] = Bids(m, Depth)
      /\ [i \in DOMAIN a |-> Level(a[i].price, a[i].size)] = Asks(m, Depth)
  BY <1>2 DEF Bids, Asks
<1> QED
  BY <1>1, <1>3 DEF ObjectLevels, PerRow

\* Gate's futures client reads a side's contracts, an ask's without their sign.
LEMMA ContractsAreRead ==
  ASSUME NEW m \in MomentRec
  PROVE  /\ GateFuturesBook(GateContracts(m)).bids = Bids(m, Depth)
         /\ GateFuturesBook(GateContracts(m)).asks = Asks(m, Depth)
         /\ GateFuturesBook(GateContracts(m)).id = m.change /\ GateFuturesBook(GateContracts(m)).time = 0
<1> DEFINE b == [i \in DOMAIN BidPairs(m, Depth) |-> [p |-> BidPairs(m, Depth)[i][1], s |-> BidPairs(m, Depth)[i][2]]]
           a == [i \in DOMAIN AskPairs(m, Depth) |-> [p |-> AskPairs(m, Depth)[i][1], s |-> -AskPairs(m, Depth)[i][2]]]
           Size(level) == IF level.s < 0 THEN -level.s ELSE level.s
<1>1. GateContracts(m) = [id |-> m.change, bids |-> b, asks |-> a]
  BY DEF GateContracts, PerRow
<1>2. /\ DOMAIN b = 1..Depth /\ DOMAIN a = 1..Depth
      /\ \A i \in 1..Depth : b[i].p = m.bid + 1 - i /\ b[i].s = i
      /\ \A i \in 1..Depth : a[i].p = m.ask - 1 + i /\ a[i].s = -i
  BY DEF BidPairs, AskPairs
<1> HIDE DEF a, b
<1>3. \A i \in 1..Depth : Size(b[i]) = i /\ Size(a[i]) = i
  BY <1>2, ReadConstants
<1> HIDE DEF Size
<1>4. /\ [i \in DOMAIN b |-> Level(b[i].p, Size(b[i]))] = Bids(m, Depth)
      /\ [i \in DOMAIN a |-> Level(a[i].p, Size(a[i]))] = Asks(m, Depth)
  BY <1>2, <1>3 DEF Bids, Asks
<1>5. GateLevels(b) = Bids(m, Depth) /\ GateLevels(a) = Asks(m, Depth)
  BY <1>4 DEF GateLevels, PerRow, Size
<1>6. GateFuturesBook(GateContracts(m)) = Snapshot(m.change, GateLevels(b), GateLevels(a), 0)
  BY <1>1 DEF GateFuturesBook
<1> QED
  BY <1>5, <1>6 DEF Snapshot

\* The quote that Gate's futures client takes from the book.
LEMMA GateBooks ==
  ASSUME NEW m \in MomentRec
  PROVE  LET book == GateFuturesBook(GateContracts(m))
         IN  book.bids # <<>> /\ book.bids[1].price = m.bid /\ book.asks # <<>> /\ book.asks[1].price = m.ask
<1>1. 1 \in 1..Depth /\ m.bid \in Nat /\ m.ask \in Nat
  BY ReadConstants DEF MomentRec
<1>2. /\ Bids(m, Depth) # <<>> /\ Bids(m, Depth)[1] = Level(m.bid + 1 - 1, 1)
      /\ Asks(m, Depth) # <<>> /\ Asks(m, Depth)[1] = Level(m.ask - 1 + 1, 1)
  BY <1>1 DEF Bids, Asks
<1>3. m.bid + 1 - 1 = m.bid /\ m.ask - 1 + 1 = m.ask
  BY <1>1
<1> QED
  BY <1>2, <1>3, ContractsAreRead DEF Level

\* Our product's entry in Kraken's list.
KrakenEntry(m) ==
  [symbol |-> "btc", last |-> m.last, bid |-> m.bid, ask |-> m.ask, vol24h |-> m.volume,
   openInterest |-> Millis(m.time)]

\* Of the list of every product, ours is found.
LEMMA OursIsFound ==
  ASSUME NEW m, NEW listed \in BOOLEAN
  PROVE  OfProduct(KrakenTickers(m, listed)) = IF listed THEN <<KrakenEntry(m)>> ELSE <<>>
<1> DEFINE other == [symbol |-> "eth", last |-> 9, bid |-> 8, ask |-> 10, vol24h |-> 1, openInterest |-> 7]
<1>1. KrakenTickers(m, listed) = <<other>> \o (IF listed THEN <<KrakenEntry(m)>> ELSE <<>>)
  BY DEF KrakenTickers, KrakenEntry, ListOf
<1>2. other.symbol = "eth" /\ KrakenEntry(m).symbol = "btc"
  BY DEF KrakenEntry
<1> HIDE DEF other
<1>3. CASE listed
  <2>1. KrakenTickers(m, listed) = <<other, KrakenEntry(m)>>
    <3>1. ASSUME NEW x, NEW y PROVE <<x>> \o <<y>> = <<x, y>>
      <4> DEFINE S == {x, y}
                 q == <<x>> \o <<y>>
      <4>1. <<x>> \in Seq(S) /\ <<y>> \in Seq(S) /\ Len(<<x>>) = 1 /\ Len(<<y>>) = 1
        OBVIOUS
      <4>2. /\ q \in Seq(S) /\ Len(q) = Len(<<x>>) + Len(<<y>>)
            /\ \A i \in 1..Len(<<x>>) : q[i] = <<x>>[i]
            /\ \A i \in 1..Len(<<y>>) : q[Len(<<x>>) + i] = <<y>>[i]
        BY <4>1, JoinOf
      <4>3. Len(q) = 2 /\ q[1] = x /\ q[2] = y
        BY <4>1, <4>2
      <4> HIDE DEF q
      <4>4. q = <<x, y>>
        BY <4>2, <4>3
      <4> QED
        BY <4>4 DEF q
    <3> QED
      BY <1>1, <1>3, <3>1
  <2> DEFINE ts == KrakenTickers(m, listed)
             ours == {i \in DOMAIN ts : ts[i].symbol = "btc"}
  <2>2. DOMAIN ts = {1, 2} /\ ts[1] = other /\ ts[2] = KrakenEntry(m)
    BY <2>1
  <2> HIDE DEF ts
  <2>3. ours = {2}
    BY <1>2, <2>2
  <2>4. OfProduct(ts) = IF ours = {} THEN <<>> ELSE <<ts[CHOOSE i \in ours : \A j \in ours : i <= j]>>
    BY DEF OfProduct
  <2> HIDE DEF ours
  <2>5. (CHOOSE i \in ours : \A j \in ours : i <= j) = 2
    BY <2>3
  <2> QED
    BY <1>3, <2>2, <2>3, <2>4, <2>5 DEF ts
<1>4. CASE ~listed
  <2>1. KrakenTickers(m, listed) = <<other>>
    BY <1>1, <1>4
  <2>2. \A i \in DOMAIN <<other>> : <<other>>[i].symbol # "btc"
    BY <1>2
  <2> QED
    BY <1>4, <2>1, <2>2 DEF OfProduct
<1> QED
  BY <1>3, <1>4

\* Every client's ticker.
LEMMA TickersAreTrue ==
  ASSUME reader \in Readers, NEW first, NEW m \in MomentRec, NEW listed \in BOOLEAN
  PROVE  \/ TickerOf(first, m, listed) = NoFigure
         \/ TickerTold(TickerOf(first, m, listed), IF TwoRequests(reader) THEN first ELSE m, m)
<1> DEFINE v == TickerOf(first, m, listed)
           f == IF TwoRequests(reader) THEN first ELSE m
           Good == v = NoFigure \/ TickerTold(v, f, m)
<1>1. ASSUME reader.venue = "binance" PROVE Good
  <2>1. CASE Linear(reader)
    <3>1. f = first
      BY <1>1, <2>1 DEF TwoRequests
    <3>2. v = Ticker(first.last, m.bid, m.ask, first.volume, Millis(first.time))
      BY <1>1, <2>1 DEF TickerOf, BinanceFuturesTicker, BinanceStats, BinanceQuote
    <3>3. TwoRequests(reader)
      BY <1>1, <2>1 DEF TwoRequests
    <3> QED
      BY <1>1, <3>1, <3>2, <3>3 DEF TickerTold, Stamped, Ticker
  <2>2. CASE ~Linear(reader)
    <3>1. f = m
      BY <2>2 DEF TwoRequests
    <3>2. v = Ticker(m.last, m.bid, m.ask, m.volume, Millis(m.time))
      BY <1>1, <2>2 DEF TickerOf, BinanceTicker, BinanceDay
    <3> QED
      BY <1>1, <3>1, <3>2 DEF TickerTold, Stamped, Ticker
  <2> QED
    BY <2>1, <2>2
<1>2. ASSUME reader.venue = "gate" PROVE Good
  <2>1. CASE Linear(reader)
    <3>1. f = first
      BY <1>2, <2>1 DEF TwoRequests
    <3> DEFINE book == GateFuturesBook(GateContracts(m))
    <3>2. book.bids # <<>> /\ book.bids[1].price = m.bid /\ book.asks # <<>> /\ book.asks[1].price = m.ask
      BY GateBooks
    <3> HIDE DEF book
    <3>3. v = Ticker(first.last, m.bid, m.ask, first.volume, 0)
      <4>1. v = GateFuturesTicker(<<GateStats(first)>>, book)
        BY <1>2, <2>1 DEF TickerOf, book
      <4>2. BestPrice(book.bids) = m.bid /\ BestPrice(book.asks) = m.ask
        BY <3>2 DEF BestPrice
      <4> QED
        BY <4>1, <4>2 DEF GateFuturesTicker, FirstOf, GateStats
    <3>4. TwoRequests(reader)
      BY <1>2, <2>1 DEF TwoRequests
    <3> QED
      BY <1>2, <3>1, <3>3, <3>4 DEF TickerTold, Stamped, Ticker
  <2>2. CASE ~Linear(reader)
    <3>1. f = m
      BY <2>2 DEF TwoRequests
    <3>2. v = NoFigure \/ v = Ticker(m.last, m.bid, m.ask, m.volume, 0)
      BY <1>2, <2>2 DEF TickerOf, GateTicker, GateEntry, FirstOf, ListOf
    <3> QED
      BY <1>2, <3>1, <3>2 DEF TickerTold, Stamped, Ticker
  <2> QED
    BY <2>1, <2>2
<1>3. ASSUME reader.venue \notin {"binance", "gate"} PROVE f = m
  BY <1>3 DEF TwoRequests
<1>4. ASSUME reader.venue = "bitget" PROVE Good
  <2>1. v = NoFigure \/ v = Ticker(m.last, m.bid, m.ask, m.volume, Millis(m.time))
    BY <1>4 DEF TickerOf, BitgetTicker, BitgetEntry, FirstOf, ListOf
  <2> QED
    BY <1>3, <1>4, <2>1 DEF TickerTold, Stamped, Ticker
<1>5. ASSUME reader.venue = "bybit" PROVE Good
  <2>1. v = NoFigure \/ v = Ticker(m.last, m.bid, m.ask, m.volume, 0)
    BY <1>5 DEF TickerOf, BybitTicker, BybitEntry, FirstOf, ListOf
  <2> QED
    BY <1>3, <1>5, <2>1 DEF TickerTold, Stamped, Ticker
<1>6. ASSUME reader.venue = "coinbase" PROVE Good
  <2>1. v = NoFigure \/ v = Ticker(m.last, m.bid, m.ask, 0, 0)
    BY <1>6 DEF TickerOf, CoinbaseTicker, CoinbaseLast, FirstOf, ListOf
  <2> QED
    BY <1>3, <1>6, <2>1 DEF TickerTold, Stamped, Ticker
<1>7. ASSUME reader.venue = "htx" PROVE Good
  <2>1. v = Ticker(m.last, m.bid, m.ask, HtxVol(m), Millis(m.time))
    BY <1>7 DEF TickerOf, HtxTicker, HtxMerged
  <2> QED
    BY <1>3, <1>7, <2>1 DEF TickerTold, Stamped, Ticker
<1>8. ASSUME reader.venue = "kraken" PROVE Good
  <2>1. CASE Linear(reader)
    <3>1. OfProduct(KrakenTickers(m, listed)) = IF listed THEN <<KrakenEntry(m)>> ELSE <<>>
      BY OursIsFound
    <3>2. v = NoFigure \/ v = Ticker(m.last, m.bid, m.ask, m.volume, 0)
      BY <1>8, <2>1, <3>1 DEF TickerOf, KrakenFuturesTicker, FirstOf, KrakenEntry
    <3> QED
      BY <1>3, <1>8, <3>2 DEF TickerTold, Stamped, Ticker
  <2>2. CASE ~Linear(reader)
    <3>1. v = Ticker(m.last, m.bid, m.ask, m.volume, 0)
      BY <1>8, <2>2 DEF TickerOf, KrakenTicker, KrakenTick
    <3> QED
      BY <1>3, <1>8, <3>1 DEF TickerTold, Stamped, Ticker
  <2> QED
    BY <2>1, <2>2
<1>9. ASSUME reader.venue = "kucoin" PROVE Good
  <2>1. v = Ticker(m.last, m.bid, m.ask, m.volume, Millis(m.time))
    BY <1>9 DEF TickerOf, KuCoinTicker, KuCoinStats
  <2> QED
    BY <1>3, <1>9, <2>1 DEF TickerTold, Stamped, Ticker
<1>10. ASSUME reader.venue = "okx" PROVE Good
  <2>1. v = NoFigure \/ v = Ticker(m.last, m.bid, m.ask, m.volume, Millis(m.time))
    BY <1>10 DEF TickerOf, OkxTicker, OkxEntry, FirstOf, ListOf
  <2> QED
    BY <1>3, <1>10, <2>1 DEF TickerTold, Stamped, Ticker
<1>11. ASSUME reader.venue = "upbit" PROVE Good
  <2>1. v = NoFigure \/ v = Ticker(m.last, m.last, m.last, m.volume, Millis(m.time))
    BY <1>11 DEF TickerOf, UpbitTicker, UpbitEntry, FirstOf, ListOf
  <2> QED
    BY <1>3, <1>11, <2>1 DEF TickerTold, Stamped, Ticker
<1> HIDE DEF v, f
<1> QED
  BY VenuesRead, <1>1, <1>2, <1>4, <1>5, <1>6, <1>7, <1>8, <1>9, <1>10, <1>11 DEF v, f

\* A side has the levels that were asked for.
LEMMA SidesAreTrue ==
  ASSUME NEW m \in MomentRec, NEW n \in {Depth, AllLevels}
  PROVE  /\ n \in Nat /\ n >= Depth /\ Len(Bids(m, n)) = n /\ Len(Asks(m, n)) = n
         /\ \A i \in DOMAIN Bids(m, n) : Bids(m, n)[i] = Level(m.bid + 1 - i, i)
         /\ \A i \in DOMAIN Asks(m, n) : Asks(m, n)[i] = Level(m.ask - 1 + i, i)
<1>1. n \in Nat /\ n >= Depth
  BY ReadConstants DEF AllLevels
<1>2. Len(Bids(m, n)) = n /\ Len(Asks(m, n)) = n
  BY <1>1 DEF Bids, Asks
<1> QED
  BY <1>1, <1>2 DEF Bids, Asks

\* A book of these sides, numbered and stamped as some venue does, is true.
LEMMA SuchBooksAreTrue ==
  ASSUME NEW m \in MomentRec, NEW n \in {Depth, AllLevels}, NEW time \in {0, Millis(m.time)},
         NEW id \in {0, m.change, time}, n = Depth \/ IgnoresDepth(reader)
  PROVE  BookTold(Snapshot(id, Bids(m, n), Asks(m, n), time), m)
<1> DEFINE v == Snapshot(id, Bids(m, n), Asks(m, n), time)
<1>1. v.id = id /\ v.bids = Bids(m, n) /\ v.asks = Asks(m, n) /\ v.time = time
  BY DEF Snapshot
<1> HIDE DEF v
<1>2. BookTold(v, m)
  BY <1>1, SidesAreTrue DEF BookTold, Stamped
<1> QED
  BY <1>2 DEF v

\* Every client's book.
LEMMA BooksAreTrue ==
  ASSUME reader \in Readers, NEW m \in MomentRec, NEW listed \in BOOLEAN
  PROVE  BookOf(m, listed) = NoFigure \/ BookTold(BookOf(m, listed), m)
<1> DEFINE v == BookOf(m, listed)
           Such == \E n \in {Depth, AllLevels}, time \in {0, Millis(m.time)} :
                     \E id \in {0, m.change, time} :
                       /\ n = Depth \/ IgnoresDepth(reader)
                       /\ v = Snapshot(id, Bids(m, n), Asks(m, n), time)
           Good == v = NoFigure \/ Such
<1>1. Depth \in Nat /\ AllLevels \in Nat
  BY ReadConstants DEF AllLevels
<1>2. \A n \in {Depth, AllLevels} :
        /\ PairLevels(BidPairs(m, n)) = Bids(m, n) /\ PairLevels(AskPairs(m, n)) = Asks(m, n)
        /\ HtxLevels(BidPairs(m, n)) = Bids(m, n) /\ HtxLevels(AskPairs(m, n)) = Asks(m, n)
        /\ KrakenLevels(BidPairs(m, n)) = Bids(m, n) /\ KrakenLevels(AskPairs(m, n)) = Asks(m, n)
        /\ OkxLevels(BidPairs(m, n)) = Bids(m, n) /\ OkxLevels(AskPairs(m, n)) = Asks(m, n)
  BY <1>1, PairsAreRead
<1> DEFINE Told(id, n, time) == v = Snapshot(id, Bids(m, n), Asks(m, n), time)
<1>3. ASSUME reader.venue = "binance" PROVE Good
  <2>1. CASE Linear(reader)
    <3>1. Told(m.change, Depth, Millis(m.time))
      BY <1>2, <1>3, <2>1 DEF BookOf, BinanceBook, BinanceDepth
    <3> QED
      BY <3>1
  <2>2. CASE ~Linear(reader)
    <3>1. "T" \notin DOMAIN BinanceDepth(m)
      BY <2>2 DEF BinanceDepth
    <3>2. Told(m.change, Depth, 0)
      <4>1. v = BinanceBook(BinanceDepth(m))
        BY <1>3 DEF BookOf
      <4>2. /\ BinanceDepth(m).lastUpdateId = m.change
            /\ BinanceDepth(m).bids = BidPairs(m, Depth) /\ BinanceDepth(m).asks = AskPairs(m, Depth)
        BY <2>2 DEF BinanceDepth
      <4> QED
        BY <1>2, <3>1, <4>1, <4>2 DEF BinanceBook
    <3> QED
      BY <3>2
  <2> QED
    BY <2>1, <2>2
<1>4. ASSUME reader.venue = "bitget" PROVE Good
  <2>1. Told(Millis(m.time), Depth, Millis(m.time))
    BY <1>2, <1>4 DEF BookOf, BitgetBook, StampedDepth
  <2> QED
    BY <2>1
<1>5. ASSUME reader.venue = "bybit" PROVE Good
  <2>1. Told(m.change, Depth, Millis(m.time))
    BY <1>2, <1>5 DEF BookOf, BybitBook, BybitDepth
  <2> QED
    BY <2>1
<1>6. ASSUME reader.venue = "coinbase" PROVE Good
  <2>1. Told(0, Depth, 0)
    BY <1>6, ObjectsAreRead DEF BookOf, CoinbaseBook
  <2> QED
    BY <2>1
<1>7. ASSUME reader.venue = "gate" PROVE Good
  <2>1. CASE Linear(reader)
    <3>1. Told(m.change, Depth, 0)
      <4>1. v = GateFuturesBook(GateContracts(m))
        BY <1>7, <2>1 DEF BookOf
      <4> QED
        BY <4>1, ContractsAreRead DEF GateFuturesBook, Snapshot
    <3> QED
      BY <3>1
  <2>2. CASE ~Linear(reader)
    <3>1. Told(Millis(m.time), Depth, Millis(m.time))
      BY <1>2, <1>7, <2>2 DEF BookOf, GateBook, StampedDepth
    <3> QED
      BY <3>1
  <2> QED
    BY <2>1, <2>2
<1>8. ASSUME reader.venue = "htx" PROVE Good
  <2>1. Told(m.change, AllLevels, Millis(m.time))
    BY <1>2, <1>8 DEF BookOf, HtxBook, HtxTick
  <2>2. IgnoresDepth(reader)
    BY <1>8 DEF IgnoresDepth
  <2> QED
    BY <2>1, <2>2
<1>9. ASSUME reader.venue = "kraken" PROVE Good
  <2>1. Told(0, IF Linear(reader) THEN AllLevels ELSE Depth, 0)
    BY <1>2, <1>9 DEF BookOf, KrakenBook, KrakenDepth
  <2>2. Linear(reader) => IgnoresDepth(reader)
    BY <1>9 DEF IgnoresDepth
  <2> QED
    BY <2>1, <2>2
<1>10. ASSUME reader.venue = "kucoin" PROVE Good
  <2>1. Told(m.change, AllLevels, Millis(m.time))
    BY <1>2, <1>10 DEF BookOf, KuCoinBook, KuCoinDepth
  <2>2. IgnoresDepth(reader)
    BY <1>10 DEF IgnoresDepth
  <2> QED
    BY <2>1, <2>2
<1>11. ASSUME reader.venue = "okx" PROVE Good
  <2>1. v = NoFigure \/ Told(Millis(m.time), Depth, Millis(m.time))
    BY <1>2, <1>11 DEF BookOf, OkxBook, StampedDepth, FirstOf, ListOf
  <2> QED
    BY <2>1
<1>12. ASSUME reader.venue = "upbit" PROVE Good
  <2> DEFINE units == [i \in 1..AllLevels |->
       [bid_price |-> BidPairs(m, i)[i][1], bid_size |-> i, ask_price |-> AskPairs(m, i)[i][1], ask_size |-> i]]
  <2>1. UpbitDepth(m) = [timestamp |-> Millis(m.time), orderbook_units |-> units]
    BY DEF UpbitDepth
  <2>2. /\ DOMAIN units = 1..AllLevels
        /\ \A i \in 1..AllLevels : /\ units[i].bid_price = m.bid + 1 - i /\ units[i].bid_size = i
                                   /\ units[i].ask_price = m.ask - 1 + i /\ units[i].ask_size = i
    <3>1. ASSUME NEW i \in 1..AllLevels
          PROVE  BidPairs(m, i)[i][1] = m.bid + 1 - i /\ AskPairs(m, i)[i][1] = m.ask - 1 + i
      BY <1>1 DEF BidPairs, AskPairs
    <3> QED
      BY <3>1
  <2> HIDE DEF units
  <2>3. /\ [i \in DOMAIN units |-> Level(units[i].bid_price, units[i].bid_size)] = Bids(m, AllLevels)
        /\ [i \in DOMAIN units |-> Level(units[i].ask_price, units[i].ask_size)] = Asks(m, AllLevels)
    BY <2>2 DEF Bids, Asks
  <2>4. v = NoFigure \/ Told(0, AllLevels, Millis(m.time))
    BY <1>12, <2>1, <2>3 DEF BookOf, UpbitBook, FirstOf, ListOf, PerRow
  <2>5. IgnoresDepth(reader)
    BY <1>12 DEF IgnoresDepth
  <2> QED
    BY <2>4, <2>5
<1>13. Good
  <2> HIDE DEF Good, v
  <2> QED
    BY VenuesRead, <1>3, <1>4, <1>5, <1>6, <1>7, <1>8, <1>9, <1>10, <1>11, <1>12
<1> HIDE DEF v
<1>14. Such => BookTold(v, m)
  BY SuchBooksAreTrue
<1> QED
  BY <1>13, <1>14 DEF v

\* A ratio of longs to shorts is of their shares.
LEMMA SharesOfRatio ==
  ASSUME NEW t \in Nat, NEW time
  PROVE  LET v == OfRatio(Ratio(t), time)
         IN  /\ Same(v.long, Fraction(t, t + 1)) /\ Same(v.short, Fraction(1, t + 1)) /\ v.time = time
<1> DEFINE r == Ratio(t)
<1>1. r.above = t /\ r.below = 1
  BY DEF Ratio, Fraction, LongsOf, ShortsOf
<1> HIDE DEF r
<1>2. 1 + t # 0
  OBVIOUS
<1>3. OfRatio(r, time) = Positioning(Fraction(t * 1, 1 * (1 + t)), Fraction(1, 1 + t), time)
  BY <1>1, <1>2 DEF OfRatio, Fraction
<1>4. t * 1 = t /\ 1 * (1 + t) = t + 1 /\ 1 + t = t + 1
  OBVIOUS
<1>5. OfRatio(r, time) = Positioning(Fraction(t, t + 1), Fraction(1, t + 1), time)
  BY <1>3, <1>4
<1> QED
  BY <1>5 DEF r, Positioning, Same, Fraction

\* Of points told newest first, the first is of now.
LEMMA NewestIsFirst ==
  ASSUME NEW t \in Nat \ {0}, NEW points, points = [i \in 1..t |-> points[i]]
  PROVE  Reverse(points) # <<>> /\ Reverse(points)[1] = points[t]
<1>1. Len(points) = t /\ 1 \in 1..t /\ t - 1 + 1 = t
  OBVIOUS
<1>2. Reverse(points) = [i \in 1..t |-> points[t - i + 1]]
  BY <1>1 DEF Reverse
<1>3. 1 \in DOMAIN Reverse(points) /\ Reverse(points)[1] = points[t - 1 + 1]
  BY <1>1, <1>2
<1>4. DOMAIN <<>> = {}
  OBVIOUS
<1> QED
  BY <1>1, <1>3, <1>4

\* Every client's positioning.
LEMMA RatiosAreTrue ==
  ASSUME reader \in Readers, NEW m \in MomentRec, NEW listed \in BOOLEAN,
         ~RefusesRead(reader, "long_short_ratio")
  PROVE  LongShortOf(m, listed) = NoFigure \/ RatioTold(LongShortOf(m, listed), m)
<1> DEFINE v == LongShortOf(m, listed)
           t == m.time
           Good == v = NoFigure \/ RatioTold(v, m)
<1>1. reader.venue \in {"binance", "bitget", "bybit", "gate", "htx", "okx"}
  <2>1. Linear(reader) /\ reader.venue \notin {"kraken", "kucoin"}
    BY DEF RefusesRead, SpotRefuses, KrakenPublishesNone, KuCoinPublishesNone
  <2>2. reader.venue \notin {"coinbase", "upbit"}
    BY <2>1, ReadAssumption DEF ReadAssumption, Linear
  <2> QED
    BY <2>1, <2>2, VenuesRead
<1>2. t \in Nat /\ t >= 1 /\ t \in 1..t
  BY DEF MomentRec
<1> HIDE DEF t
<1>3. m.time = t
  BY DEF t
<1>4. /\ Share(t, LongsOf(t)) = Fraction(t, t + 1) /\ Share(t, ShortsOf(t)) = Fraction(1, t + 1)
  BY DEF Share, LongsOf, ShortsOf
<1>5. \A f, g : f = g => Same(f, g)
  BY DEF Same
<1>6. ASSUME reader.venue # "htx", NEW long, NEW short,
             Same(long, Fraction(t, t + 1)), Same(short, Fraction(1, t + 1))
      PROVE  RatioTold(Positioning(long, short, Millis(t)), m)
  <2>1. t + 1 + 0 = t + 1
    BY <1>2
  <2> QED
    BY <1>3, <1>6, <2>1 DEF RatioTold, Positioning, LongsOf, ShortsOf
<1>7. ASSUME reader.venue = "binance" PROVE Good
  <2>1. v = NoFigure \/ v = Positioning(Share(t, LongsOf(t)), Share(t, ShortsOf(t)), Millis(t))
    BY <1>3, <1>7 DEF LongShortOf, BinanceLongShort, BinanceRatios, FirstOf
  <2> QED
    BY <1>4, <1>5, <1>6, <1>7, <2>1
<1>8. ASSUME reader.venue = "bybit" PROVE Good
  <2>1. v = NoFigure \/ v = Positioning(Share(t, LongsOf(t)), Share(t, ShortsOf(t)), Millis(t))
    BY <1>3, <1>8 DEF LongShortOf, BybitLongShort, BybitRatios, FirstOf
  <2> QED
    BY <1>4, <1>5, <1>6, <1>8, <2>1
<1>9. ASSUME reader.venue = "bitget" PROVE Good
  <2> DEFINE points == [i \in 1..t |-> [longAccountRatio |-> Share(i, LongsOf(i)),
                                        shortAccountRatio |-> Share(i, ShortsOf(i)), ts |-> Millis(i)]]
  <2>1. BitgetRatios(m) = Reverse(points)
    BY <1>3 DEF BitgetRatios
  <2>2. Reverse(points) # <<>> /\ Reverse(points)[1] = points[t]
    BY <1>2, NewestIsFirst
  <2>3. points[t] = [longAccountRatio |-> Share(t, LongsOf(t)),
                     shortAccountRatio |-> Share(t, ShortsOf(t)), ts |-> Millis(t)]
    BY <1>2
  <2> HIDE DEF points
  <2>4. v = NoFigure \/ v = Positioning(Share(t, LongsOf(t)), Share(t, ShortsOf(t)), Millis(t))
    BY <1>9, <2>1, <2>2, <2>3 DEF LongShortOf, BitgetLongShort, FirstOf
  <2> QED
    BY <1>4, <1>5, <1>6, <1>9, <2>4
<1>10. ASSUME reader.venue \in {"gate", "okx"} PROVE RatioTold(OfRatio(Ratio(t), Millis(t)), m)
  <2> DEFINE w == OfRatio(Ratio(t), Millis(t))
  <2>1. Same(w.long, Fraction(t, t + 1)) /\ Same(w.short, Fraction(1, t + 1)) /\ w.time = Millis(t)
    BY <1>2, SharesOfRatio
  <2>2. t + 1 + 0 = t + 1
    BY <1>2
  <2> HIDE DEF w
  <2>3. RatioTold(w, m)
    BY <1>3, <1>10, <2>1, <2>2 DEF RatioTold, LongsOf, ShortsOf
  <2> QED
    BY <2>3 DEF w
<1>11. ASSUME reader.venue = "okx" PROVE Good
  <2> DEFINE points == [i \in 1..t |-> <<Millis(i), Ratio(i)>>]
  <2>1. OkxRatios(m) = Reverse(points)
    BY <1>3 DEF OkxRatios
  <2>2. Reverse(points) # <<>> /\ Reverse(points)[1] = points[t]
    BY SMTT(40), <1>2, NewestIsFirst
  <2>3. points[t] = <<Millis(t), Ratio(t)>>
    BY <1>2
  <2> HIDE DEF points
  <2>4. v = NoFigure \/ v = OfRatio(Ratio(t), Millis(t))
    BY <1>11, <2>1, <2>2, <2>3 DEF LongShortOf, OkxLongShort, FirstOf
  <2> QED
    BY <1>10, <1>11, <2>4
<1>12. ASSUME reader.venue = "gate" PROVE Good
  <2>1. v = NoFigure \/ v = OfRatio(Ratio(t), Millis(t))
    BY <1>3, <1>12 DEF LongShortOf, GateLongShort, ContractStats, FirstOf, StatsMillis, Millis
  <2> QED
    BY <1>10, <1>12, <2>1
<1>13. ASSUME reader.venue = "htx" PROVE Good
  <2> DEFINE points == [i \in 1..t |-> [buy_ratio |-> Fraction(LongsOf(i), LongsOf(i) + ShortsOf(i) + 1),
                                        sell_ratio |-> Fraction(ShortsOf(i), LongsOf(i) + ShortsOf(i) + 1),
                                        ts |-> Millis(i)]]
  <2>1. HtxElite(m) = points
    BY <1>3 DEF HtxElite
  <2>2. Reverse(points) # <<>> /\ Reverse(points)[1] = points[t]
    BY <1>2, NewestIsFirst
  <2>3. points[t] = [buy_ratio |-> Fraction(LongsOf(t), LongsOf(t) + ShortsOf(t) + 1),
                     sell_ratio |-> Fraction(ShortsOf(t), LongsOf(t) + ShortsOf(t) + 1), ts |-> Millis(t)]
    BY <1>2
  <2>4. Reverse(<<>>) = <<>>
    BY DEF Reverse
  <2> HIDE DEF points
  <2>5. \/ v = NoFigure
        \/ v = Positioning(Fraction(LongsOf(t), LongsOf(t) + ShortsOf(t) + 1),
                           Fraction(ShortsOf(t), LongsOf(t) + ShortsOf(t) + 1), Millis(t))
    BY <1>13, <2>1, <2>2, <2>3, <2>4 DEF LongShortOf, HtxLongShort, FirstOf
  <2> QED
    BY <1>3, <1>5, <1>13, <2>5 DEF RatioTold, Positioning
<1> QED
  <2> HIDE DEF Good
  <2>1. Good
    BY <1>1, <1>7, <1>8, <1>9, <1>11, <1>12, <1>13
  <2> QED
    BY <2>1 DEF Good

\* Every client's open interest.
LEMMA InterestIsTrue ==
  ASSUME reader \in Readers, NEW m \in MomentRec, NEW listed \in BOOLEAN,
         ~RefusesRead(reader, "open_interest")
  PROVE  InterestOf(m, listed) = NoFigure \/ InterestTold(InterestOf(m, listed), m)
<1> DEFINE v == InterestOf(m, listed)
           Good == v = NoFigure \/ InterestTold(v, m)
<1>1. reader.venue \notin {"coinbase", "upbit"}
  <2>1. Linear(reader)
    BY DEF RefusesRead, SpotRefuses
  <2> QED
    BY <2>1, ReadAssumption DEF ReadAssumption, Linear
<1>2. ASSUME reader.venue \in {"gate", "htx"}, NEW time \in {0, Millis(m.time)}
      PROVE  InterestTold(OpenInterest(Contracts(m), time), m)
  BY <1>2 DEF InterestTold, OpenInterest, Stamped
<1>3. ASSUME reader.venue \notin {"gate", "htx"}, NEW time \in {0, Millis(m.time)}
      PROVE  InterestTold(OpenInterest(Coins(m), time), m)
  BY <1>3 DEF InterestTold, OpenInterest, Stamped
<1>4. ASSUME reader.venue = "binance" PROVE Good
  <2>1. v = OpenInterest(Coins(m), Millis(m.time))
    BY <1>4 DEF InterestOf, BinanceInterest
  <2> QED
    BY <1>3, <1>4, <2>1
<1>5. ASSUME reader.venue = "bitget" PROVE Good
  <2>1. v = NoFigure \/ v = OpenInterest(Coins(m), Millis(m.time))
    BY <1>5 DEF InterestOf, BitgetInterest, FirstOf, ListOf
  <2> QED
    BY <1>3, <1>5, <2>1
<1>6. ASSUME reader.venue = "bybit" PROVE Good
  <2>1. v = NoFigure \/ v = OpenInterest(Coins(m), Millis(m.time))
    BY <1>6 DEF InterestOf, BybitInterest, FirstOf, ListOf
  <2> QED
    BY <1>3, <1>6, <2>1
<1>7. ASSUME reader.venue = "gate" PROVE Good
  <2>1. v = NoFigure \/ v = OpenInterest(Contracts(m), Millis(m.time))
    BY <1>7 DEF InterestOf, GateInterest, ContractStats, StatsMillis, Millis, FirstOf, ListOf
  <2> QED
    BY <1>2, <1>7, <2>1
<1>8. ASSUME reader.venue = "htx" PROVE Good
  <2>1. v = NoFigure \/ v = OpenInterest(Contracts(m), Millis(m.time))
    BY <1>8 DEF InterestOf, HtxInterest, HtxOpen, FirstOf, ListOf
  <2> QED
    BY <1>2, <1>8, <2>1
<1>9. ASSUME reader.venue = "kraken" PROVE Good
  <2>1. Coins(m) = Millis(m.time)
    BY DEF Coins, Contracts, ContractSize, Millis, MomentRec
  <2>2. OfProduct(KrakenTickers(m, listed)) = IF listed THEN <<KrakenEntry(m)>> ELSE <<>>
    BY OursIsFound
  <2>3. v = NoFigure \/ v = OpenInterest(Millis(m.time), 0)
    BY <1>9, <2>2 DEF InterestOf, KrakenInterest, KrakenEntry, FirstOf
  <2> QED
    BY <1>3, <1>9, <2>1, <2>3
<1>10. ASSUME reader.venue = "kucoin" PROVE Good
  <2>1. Contracts(m) * ContractSize = Coins(m)
    BY DEF Coins, Contracts, ContractSize, MomentRec
  <2>2. v = OpenInterest(Contracts(m) * ContractSize, 0)
    BY <1>10 DEF InterestOf, KuCoinInterest
  <2> QED
    BY <1>3, <1>10, <2>1, <2>2
<1>11. ASSUME reader.venue = "okx" PROVE Good
  <2>1. v = NoFigure \/ v = OpenInterest(Coins(m), Millis(m.time))
    BY <1>11 DEF InterestOf, OkxInterest, OkxOpen, FirstOf, ListOf
  <2> QED
    BY <1>3, <1>11, <2>1
<1>12. Good
  <2> HIDE DEF Good, v
  <2> QED
    BY VenuesRead, <1>1, <1>4, <1>5, <1>6, <1>7, <1>8, <1>9, <1>10, <1>11
<1> QED
  BY <1>12

-----------------------------------------------------------------------------
\* A read that is not over is one that the client does not refuse, and the
\* first of two answers was of a moment of the market.
ReadingFits ==
  /\ reading = [op |-> reading.op, pc |-> reading.pc, first |-> reading.first]
  /\ reading.pc \in {"over", "asked", "quote"}
  /\ reading.pc # "over" => reading.op \in Ops /\ ~RefusesRead(reader, reading.op)

ReadInv == MarketFits /\ HistoryFits /\ ReadingFits /\ ReadsAreTrue

\* What is kept is what the market had.
LEMMA HistoryFollows == ASSUME ReadInv PROVE HistoryIsTrue
<1>1. /\ Len(Series) \in Nat \ {0}
      /\ \A j \in 1..Len(Series) : Series[j] \in CandleRec
  BY SeriesFits DEF ReadInv
<1>2. Len(history) \in Nat /\ DOMAIN history = 1..Len(history)
  BY DEF ReadInv, HistoryFits
<1>3. \A i, j \in DOMAIN history : i < j => history[i].time < history[j].time
  BY <1>2 DEF ReadInv, HistoryFits, Ordered
<1>4. ASSUME NEW i \in DOMAIN history
      PROVE  \E j \in DOMAIN Series :
               /\ [history[i] EXCEPT !.time = 0] = [Series[j] EXCEPT !.time = 0]
               /\ history[i].time \in {Series[j].time, Millis(Series[j].time), LastTrade(Series[j])}
  <2>1. PICK j \in 1..(Len(Series) - 1) : history[i] = ReadAs(Series[j])
    BY <1>2, <1>4 DEF ReadInv, HistoryFits, WasTold
  <2>2. j \in 1..Len(Series) /\ j \in DOMAIN Series
    <3>1. Series \in Seq(CandleRec)
      BY SeriesFits DEF ReadInv
    <3> QED
      BY <1>1, <3>1
  <2>3. Series[j] \in CandleRec
    BY <1>1, <2>2
  <2> DEFINE k == Series[j]
  <2> HIDE DEF k
  <2>4. k \in CandleRec /\ history[i] = ReadAs(k)
    BY <2>1, <2>3 DEF k
  <2>5. k = [open |-> k.open, high |-> k.high, low |-> k.low, close |-> k.close, volume |-> k.volume,
             time |-> k.time]
    BY <2>4 DEF CandleRec
  <2>6. [ReadAs(k) EXCEPT !.time = 0] = [k EXCEPT !.time = 0]
    BY <2>5 DEF ReadAs, Candle
  <2>7. ReadAs(k).time \in {k.time, Millis(k.time), LastTrade(k)}
    BY DEF ReadAs, Candle, StampOf
  <2> QED
    BY <2>2, <2>4, <2>6, <2>7 DEF k
<1> QED
  BY <1>3, <1>4 DEF HistoryIsTrue

\* Before the first trade and the first read.
LEMMA ReadInit == ASSUME MarketInit PROVE ReadInv
<1>1. PICK p \in Prices : candles = <<Candle(p, p, p, p, 0, 1)>> /\ bid = p
  BY DEF MarketInit
<1>2. p \in Nat
  BY ReadConstants
<1>3. Candle(p, p, p, p, 0, 1) \in CandleRec /\ Candle(p, p, p, p, 0, 1).time = 1
      /\ Candle(p, p, p, p, 0, 1).volume = 0
  BY <1>2 DEF Candle, CandleRec
<1> DEFINE k == Candle(p, p, p, p, 0, 1)
<1> HIDE DEF k
<1>4. k \in CandleRec /\ k.time = 1 /\ k.volume = 0 /\ candles = <<k>>
  BY <1>1, <1>3 DEF k
<1>5. /\ candles \in Seq(CandleRec) /\ candles # <<>>
      /\ \A i \in 1..Len(candles) : candles[i].time = i /\ candles[i].volume < 1
  <2>1. candles \in Seq(CandleRec) /\ Len(candles) = 1 /\ candles[1] = k
    BY <1>4
  <2> QED
    BY <1>4, <2>1
<1>6. MarketFits
  BY <1>1, <1>2, <1>5, ReadConstants DEF MarketInit, MarketFits
<1>7. HistoryFits
  BY DEF MarketInit, HistoryFits, Ordered, WasTold
<1>8. ReadingFits /\ ReadsAreTrue
  BY DEF MarketInit, ReadingFits, NoReading, ReadsAreTrue, NoGot
<1> QED
  BY <1>6, <1>7, <1>8 DEF ReadInv

\* What the market does next changes no candle that is over.
LEMMA MarketGoesOn ==
  ASSUME MarketFits, MarketFits', HistoryFits, UNCHANGED <<reader, interval, history>>,
         Len(candles') \in {Len(candles), Len(candles) + 1},
         \A i \in 1..(Len(candles) - 1) : candles'[i] = candles[i],
         Len(candles') > Len(candles) => candles'[Len(candles)] = candles[Len(candles)]
  PROVE  HistoryFits'
<1>1. candles' \in Seq(CandleRec)
  BY DEF MarketFits
<1>2. /\ Len(Series') \in Nat /\ Len(Series') >= Len(Series)
      /\ \A i \in 1..(Len(Series) - 1) : Series'[i] = Series[i]
  BY <1>1, SeriesGrows
<1>3. Len(Series) \in Nat
  BY SeriesFits
<1>4. ASSUME NEW i \in 1..Len(history)
      PROVE  \E j \in 1..(Len(Series') - 1) : history[i] = Candle(Series'[j].open, Series'[j].high,
               Series'[j].low, Series'[j].close, Series'[j].volume, StampOf(Series'[j]))
  <2>1. PICK j \in 1..(Len(Series) - 1) : history[i] = ReadAs(Series[j])
    BY DEF HistoryFits, WasTold
  <2>2. j \in 1..(Len(Series') - 1) /\ Series'[j] = Series[j]
    BY <1>2, <1>3
  <2> QED
    BY <2>1, <2>2 DEF ReadAs
<1>5. WasTold(history)'
  BY <1>4 DEF WasTold, ReadAs, StampOf, Linear
<1> QED
  BY <1>5 DEF HistoryFits, Ordered

\* A trade changes the candle that is not over, which nobody has kept.
LEMMA TradesKeep == ASSUME ReadInv, NEW p \in Prices, Trade(p) PROVE ReadInv'
<1> DEFINE n == Len(candles)
           k == candles[n]
           k2 == Candle(k.open, IF p > k.high THEN p ELSE k.high, IF p < k.low THEN p ELSE k.low, p,
                        k.volume + 1, k.time)
<1>1. n \in Nat \ {0} /\ k \in CandleRec /\ k.time = n /\ k.volume < book_id /\ p \in Nat
  <2>1. n \in Nat \ {0} /\ \A i \in 1..n : candles[i] \in CandleRec
    BY DEF ReadInv, MarketFits
  <2> QED
    BY <2>1, ReadConstants DEF ReadInv, MarketFits
<1>2. candles' = [candles EXCEPT ![n] = k2]
  BY DEF Trade, Period
<1> HIDE DEF k, n
<1>3. /\ k.open \in Nat /\ k.high \in Nat /\ k.low \in Nat /\ k.volume \in Nat /\ k.time \in Nat
  BY <1>1 DEF CandleRec
<1>4. k2 \in CandleRec /\ k2.time = n /\ k2.volume = k.volume + 1
  <2> DEFINE high == IF p > k.high THEN p ELSE k.high
             low == IF p < k.low THEN p ELSE k.low
  <2>1. high \in Nat /\ low \in Nat /\ k.volume + 1 \in Nat
    BY <1>1, <1>3
  <2> HIDE DEF high, low
  <2>2. k2 = Candle(k.open, high, low, p, k.volume + 1, k.time)
    BY DEF high, low
  <2> QED
    BY <1>1, <1>3, <2>1, <2>2 DEF Candle, CandleRec
<1> HIDE DEF k2
<1>5. /\ candles' \in Seq(CandleRec) /\ Len(candles') = n
      /\ candles'[n] = k2 /\ \A i \in 1..(n - 1) : candles'[i] = candles[i]
  BY <1>1, <1>2, <1>4 DEF n, ReadInv, MarketFits
<1>6. book_id \in Nat /\ book_id' = book_id + 1 /\ book_id' <= MaxTrades + 1
  BY ReadConstants DEF Trade, ReadInv, MarketFits
<1>7. \A i \in 1..n : candles'[i].time = i /\ candles'[i].volume < book_id'
  <2> SUFFICES ASSUME NEW i \in 1..n PROVE candles'[i].time = i /\ candles'[i].volume < book_id'
    OBVIOUS
  <2>1. CASE i = n
    BY <1>1, <1>3, <1>4, <1>5, <1>6, <2>1
  <2>2. CASE i # n
    <3>1. candles'[i] = candles[i]
      BY <1>1, <1>5, <2>2
    <3>2. candles[i].time = i /\ candles[i].volume < book_id /\ candles[i] \in CandleRec
      BY DEF n, ReadInv, MarketFits
    <3>3. candles[i].volume \in Nat
      BY <3>2 DEF CandleRec
    <3> QED
      BY <1>6, <3>1, <3>2, <3>3
  <2> QED
    BY <2>1, <2>2
<1>8. MarketFits'
  <2>1. reader' \in Readers /\ bid' \in Nat
    BY <1>1 DEF Trade, ReadInv, MarketFits
  <2>2. candles' # <<>>
    BY <1>1, <1>5
  <2> QED
    BY <1>5, <1>6, <1>7, <2>1, <2>2 DEF MarketFits
<1>9. HistoryFits'
  <2>1. UNCHANGED <<reader, interval, history>>
    BY DEF Trade
  <2> QED
    BY <1>1, <1>5, <1>8, <2>1, MarketGoesOn DEF n, ReadInv
<1>10. UNCHANGED <<reader, reading, got>>
  BY DEF Trade
<1>11. ReadingFits' /\ ReadsAreTrue'
  BY <1>10 DEF ReadInv, ReadingFits, RefusesRead, SpotRefuses, KrakenPublishesNone, KuCoinPublishesNone, Linear,
              ReadsAreTrue, IgnoresDepth, TwoRequests, Linear, Stamped, Same, Level, Millis
<1> QED
  BY <1>8, <1>9, <1>11 DEF ReadInv

\* The end of a period leaves its candle as it was.
LEMMA PeriodsKeep == ASSUME ReadInv, NextPeriod PROVE ReadInv'
<1> DEFINE n == Len(candles)
           k == candles[n]
           k2 == Candle(k.close, k.close, k.close, k.close, 0, n + 1)
<1>1. n \in Nat \ {0} /\ k \in CandleRec /\ candles \in Seq(CandleRec)
  BY DEF ReadInv, MarketFits
<1>2. candles' = Append(candles, k2)
  BY DEF NextPeriod, Period, Latest
<1> HIDE DEF k, n
<1>3. k2 \in CandleRec /\ k2.time = n + 1 /\ k2.volume = 0
  BY <1>1 DEF Candle, CandleRec
<1> HIDE DEF k2
<1>4. /\ candles' \in Seq(CandleRec) /\ Len(candles') = n + 1
      /\ candles'[n + 1] = k2 /\ \A i \in 1..n : candles'[i] = candles[i]
  BY <1>1, <1>2, <1>3 DEF n
<1>5. UNCHANGED <<reader, interval, bid, book_id, reading, reads, history, got>>
  BY DEF NextPeriod
<1>6. \A i \in 1..(n + 1) : candles'[i].time = i /\ candles'[i].volume < book_id
  <2>1. \A i \in 1..n : candles[i].time = i /\ candles[i].volume < book_id
    BY DEF n, ReadInv, MarketFits
  <2>2. \A i \in 1..(n + 1) : i = n + 1 \/ i \in 1..n
    BY <1>1
  <2>3. 0 < book_id
    BY DEF ReadInv, MarketFits
  <2> QED
    BY <1>3, <1>4, <2>1, <2>2, <2>3
<1>7. MarketFits'
  <2>1. candles' # <<>>
    BY <1>1, <1>4
  <2> QED
    BY <1>4, <1>5, <1>6, <2>1 DEF MarketFits, ReadInv
<1>8. HistoryFits'
  <2>1. \A i \in 1..(Len(candles) - 1) : candles'[i] = candles[i]
    BY <1>1, <1>4 DEF n
  <2>2. candles'[Len(candles)] = candles[Len(candles)]
    BY <1>1, <1>4 DEF n
  <2> QED
    BY <1>1, <1>4, <1>5, <1>7, <2>1, <2>2, MarketGoesOn DEF n, ReadInv
<1>9. ReadingFits' /\ ReadsAreTrue'
  BY <1>5 DEF ReadInv, ReadingFits, RefusesRead, SpotRefuses, KrakenPublishesNone, KuCoinPublishesNone, Linear,
              ReadsAreTrue, IgnoresDepth, TwoRequests, Linear, Stamped, Same, Level, Millis
<1> QED
  BY <1>7, <1>8, <1>9 DEF ReadInv

\* A step of the caller's changes nothing of the market.
LEMMA MarketStays ==
  ASSUME ReadInv, UNCHANGED <<reader, interval, candles, bid, book_id>>
  PROVE  /\ MarketFits' /\ (UNCHANGED history => HistoryFits')
         /\ (UNCHANGED <<reading>> => ReadingFits') /\ (UNCHANGED got => ReadsAreTrue')
         /\ reader \in Readers /\ reader' \in Readers
<1>1. MarketFits' /\ reader \in Readers /\ reader' \in Readers
  BY DEF ReadInv, MarketFits
<1>2. Series' = Series
  BY DEF Series, AsksFor, Hourly, Period, Linear
<1>3. UNCHANGED history => HistoryFits'
  BY <1>2 DEF ReadInv, HistoryFits, Ordered, WasTold, ReadAs, StampOf, Linear
<1>4. UNCHANGED <<reading>> => ReadingFits'
  BY DEF ReadInv, ReadingFits, RefusesRead, SpotRefuses, KrakenPublishesNone, KuCoinPublishesNone, Linear
<1>5. UNCHANGED got => ReadsAreTrue'
  BY DEF ReadInv, ReadsAreTrue, IgnoresDepth, TwoRequests, Linear, Stamped, Same, Level, Millis
<1> QED
  BY <1>1, <1>3, <1>4, <1>5

\* A read that ends, however it ends.
LEMMA ReadsOver ==
  ASSUME ReadingFits, UNCHANGED reader, Over PROVE ReadingFits'
<1>1. reading' = [op |-> reading.op, pc |-> "over", first |-> NoReading.first]
  BY DEF ReadingFits, Over
<1> QED
  BY <1>1 DEF ReadingFits

\* The caller begins a read, unless its client refuses it.
LEMMA ReadsBegin == ASSUME ReadInv, NEW op \in Ops, BeginRead(op) PROVE ReadInv'
<1>1. UNCHANGED <<reader, interval, candles, bid, book_id, history>>
  BY DEF BeginRead
<1>2. MarketFits' /\ HistoryFits'
  BY <1>1, MarketStays
<1>3. ReadingFits'
  <2>1. reading' = [op |-> op, pc |-> IF RefusesRead(reader, op) THEN "over" ELSE "asked", first |-> NoReading.first]
    BY DEF BeginRead
  <2>2. RefusesRead(reader', op) = RefusesRead(reader, op)
    BY <1>1
  <2> QED
    BY <2>1, <2>2 DEF ReadingFits
<1>4. ReadsAreTrue'
  BY DEF BeginRead, NoGot, ReadsAreTrue
<1> QED
  BY <1>2, <1>3, <1>4 DEF ReadInv

\* The first of a ticker's two answers.
LEMMA StatsKeep == ASSUME ReadInv, NEW listed \in BOOLEAN, AnswerStats(listed) PROVE ReadInv'
<1>1. UNCHANGED <<reader, interval, candles, bid, book_id, history, got>>
  BY DEF AnswerStats
<1>2. MarketFits' /\ HistoryFits' /\ ReadsAreTrue'
  BY <1>1, MarketStays
<1>3. ReadingFits'
  <2>1. \E first, now : /\ now \in {"over", "quote"}
                       /\ reading' = [op |-> reading.op, pc |-> now, first |-> first]
    <3>1. CASE listed \/ reader.venue = "binance"
      BY <3>1 DEF AnswerStats, ReadInv, ReadingFits
    <3>2. CASE ~(listed \/ reader.venue = "binance")
      BY <3>2 DEF AnswerStats, ReadInv, ReadingFits
    <3> QED
      BY <3>1, <3>2
  <2>2. reading.op \in Ops /\ ~RefusesRead(reader, reading.op)
    BY DEF AnswerStats, ReadInv, ReadingFits
  <2>3. RefusesRead(reader', reading.op) = RefusesRead(reader, reading.op)
    BY <1>1
  <2> QED
    BY <2>1, <2>2, <2>3 DEF ReadingFits
<1> QED
  BY <1>2, <1>3 DEF ReadInv

\* An answer of candles.
LEMMA KlinesKeep == ASSUME ReadInv, AnswerKlines PROVE ReadInv'
<1>1. UNCHANGED <<reader, interval, candles, bid, book_id, got>> /\ Over
  BY DEF AnswerKlines
<1>2. MarketFits' /\ ReadsAreTrue'
  BY <1>1, MarketStays
<1>3. ReadingFits'
  BY <1>1, ReadsOver DEF ReadInv
<1>4. HistoryFits'
  <2>1. PICK window \in Windows : history' = Kept(Klines(window))
    BY DEF AnswerKlines
  <2>2. history' \in Seq(CandleRec) /\ Ordered(history') /\ WasTold(history')
    BY <2>1, AnswersAreKept DEF ReadInv
  <2>3. Series' = Series
    BY <1>1 DEF Series, AsksFor, Hourly, Period, Linear
  <2> QED
    BY <1>1, <2>2, <2>3 DEF HistoryFits, Ordered, WasTold, ReadAs, StampOf, Linear
<1> QED
  BY <1>2, <1>3, <1>4 DEF ReadInv

\* A moment of the market is one.
LEMMA MomentIsOne == ASSUME MarketFits PROVE Moment \in MomentRec
<1>1. Len(candles) \in Nat \ {0} /\ candles[Len(candles)] \in CandleRec
  BY DEF MarketFits
<1>2. Latest \in Nat /\ Period \in Nat \ {0}
  BY <1>1 DEF Latest, Period, CandleRec
<1> QED
  BY <1>2 DEF Moment, MomentRec, MarketFits

\* An answer of any other read.
LEMMA AnswersKeep == ASSUME ReadInv, NEW listed \in BOOLEAN, AnswerFigure(listed) PROVE ReadInv'
<1>1. UNCHANGED <<reader, interval, candles, bid, book_id, history>> /\ Over
  BY DEF AnswerFigure
<1>2. MarketFits' /\ HistoryFits' /\ reader \in Readers
  BY <1>1, MarketStays
<1>3. ReadingFits'
  BY <1>1, ReadsOver DEF ReadInv
<1> DEFINE m == Moment
           f == IF reading.pc = "quote" THEN reading.first ELSE Moment
           value == CASE reading.op = "ticker"           -> TickerOf(reading.first, Moment, listed)
                      [] reading.op = "order_book"       -> BookOf(Moment, listed)
                      [] reading.op = "open_interest"    -> InterestOf(Moment, listed)
                      [] reading.op = "long_short_ratio" -> LongShortOf(Moment, listed)
<1>4. /\ got' = IF value = NoFigure THEN NoGot
                ELSE [op |-> reading.op, value |-> value, last |-> m, first |-> f]
      /\ reading.op \in {"ticker", "order_book", "open_interest", "long_short_ratio"}
      /\ reading.pc = IF reading.op = "ticker" /\ TwoRequests(reader) THEN "quote" ELSE "asked"
  BY DEF AnswerFigure, Ops
<1>5. m \in MomentRec /\ ~RefusesRead(reader, reading.op)
  <2>1. reading.pc # "over"
    BY <1>4
  <2> QED
    BY <2>1, MomentIsOne DEF ReadInv, ReadingFits
<1>6. \/ value = NoFigure
      \/ reading.op = "ticker" /\ TickerTold(value, f, m)
      \/ reading.op = "order_book" /\ BookTold(value, m)
      \/ reading.op = "long_short_ratio" /\ RatioTold(value, m)
      \/ reading.op = "open_interest" /\ InterestTold(value, m)
  <2>1. CASE reading.op = "ticker"
    <3>1. f = IF TwoRequests(reader) THEN reading.first ELSE m
      BY <1>4, <2>1
    <3>2. value = TickerOf(reading.first, m, listed)
      BY <2>1
    <3> HIDE DEF value, f, m
    <3> QED
      BY <1>2, <1>5, <2>1, <3>1, <3>2, TickersAreTrue
  <2>2. CASE reading.op = "order_book"
    <3>1. value = BookOf(m, listed)
      BY <2>2
    <3> HIDE DEF value, f, m
    <3> QED
      BY <1>2, <1>5, <2>2, <3>1, BooksAreTrue
  <2>3. CASE reading.op = "open_interest"
    <3>1. value = InterestOf(m, listed)
      BY <2>3
    <3> HIDE DEF value, f, m
    <3> QED
      BY <1>2, <1>5, <2>3, <3>1, InterestIsTrue
  <2>4. CASE reading.op = "long_short_ratio"
    <3>1. value = LongShortOf(m, listed)
      BY <2>4
    <3> HIDE DEF value, f, m
    <3> QED
      BY <1>2, <1>5, <2>4, <3>1, RatiosAreTrue
  <2> QED
    BY <1>4, <2>1, <2>2, <2>3, <2>4
<1> HIDE DEF value, f, m
<1>7. ReadsAreTrue'
  <2>1. CASE got' = NoGot
    BY <2>1 DEF ReadsAreTrue, NoGot
  <2>2. CASE value # NoFigure
    <3>1. /\ got'.op = reading.op /\ got'.value = value /\ got'.last = m /\ got'.first = f
          /\ reader' = reader
      BY <1>1, <1>4, <2>2
    <3>2. CASE reading.op = "ticker"
      <4>1. TickerTold(value, f, m)
        BY <1>6, <2>2, <3>2
      <4> QED
        BY <3>1, <3>2, <4>1 DEF ReadsAreTrue, TickerTold, TwoRequests, Linear, Stamped, Millis
    <3>3. CASE reading.op = "order_book"
      <4>1. BookTold(value, m)
        BY <1>6, <2>2, <3>3
      <4> QED
        BY <3>1, <3>3, <4>1 DEF ReadsAreTrue, BookTold, IgnoresDepth, Linear, Stamped, Millis, Level
    <3>4. CASE reading.op = "long_short_ratio"
      <4>1. RatioTold(value, m)
        BY <1>6, <2>2, <3>4
      <4> QED
        BY <3>1, <3>4, <4>1 DEF ReadsAreTrue, RatioTold, Same, Fraction, LongsOf, ShortsOf, Millis
    <3>5. CASE reading.op = "open_interest"
      <4>1. InterestTold(value, m)
        BY <1>6, <2>2, <3>5
      <4> QED
        BY <3>1, <3>5, <4>1 DEF ReadsAreTrue, InterestTold, Contracts, Coins, ContractSize, Stamped, Millis
    <3> QED
      BY <1>4, <3>2, <3>3, <3>4, <3>5
  <2> QED
    BY <1>4, <2>1, <2>2
<1> QED
  BY <1>2, <1>3, <1>7 DEF ReadInv

\* An answer that is lost.
LEMMA LossesKeep == ASSUME ReadInv, ReadIsLost PROVE ReadInv'
<1>1. UNCHANGED <<reader, interval, candles, bid, book_id, history, got>> /\ Over
  BY DEF ReadIsLost
<1> QED
  BY <1>1, MarketStays, ReadsOver DEF ReadInv

\* Every step.
LEMMA ReadStep == ASSUME ReadInv, [MarketNext]_marketVars PROVE ReadInv'
<1>1. ASSUME UNCHANGED marketVars PROVE ReadInv'
  BY <1>1, MarketStays DEF marketVars, ReadInv
<1> QED
  BY <1>1, TradesKeep, PeriodsKeep, ReadsBegin, StatsKeep, AnswersKeep, KlinesKeep, LossesKeep DEF MarketNext

\* Whoever asks for candles again and again has the market's candles, in the
\* order of time, as they ended.
THEOREM HistoryOfMarket == MarketSpec => []HistoryIsTrue
<1>1. MarketInit => ReadInv
  BY ReadInit
<1>2. ReadInv /\ [MarketNext]_marketVars => ReadInv'
  BY ReadStep
<1>3. ReadInv => HistoryIsTrue
  BY HistoryFollows
<1> QED
  BY <1>1, <1>2, <1>3, PTL DEF MarketSpec

\* What a read gives is the market's figure of a moment within the call.
THEOREM FiguresAreTrue == MarketSpec => []ReadsAreTrue
<1>1. MarketInit => ReadInv
  BY ReadInit
<1>2. ReadInv /\ [MarketNext]_marketVars => ReadInv'
  BY ReadStep
<1>3. ReadInv => ReadsAreTrue
  BY DEF ReadInv
<1> QED
  BY <1>1, <1>2, <1>3, PTL DEF MarketSpec
=============================================================================
