----------------------- MODULE StreamController_proofs -----------------------
(***************************************************************************)
(* What StreamController promises for every value of its constants.        *)
(*                                                                         *)
(* TypeCorrect and ProtocolCorrect are the ground of everything.  The      *)
(* drift theorems relate the counts to the places of the log; the theorem  *)
(* on tracking uses them together with the protocol, and Refinement        *)
(* shows that the channel is the one DeliveryChannel describes.            *)
(***************************************************************************)
EXTENDS StreamController, FiniteSetTheorems, TLAPS

\* What a frame is made of.
LEMMA FrameParts ==
    /\ \A s \in Streams \cup {Untracked} :
          /\ Item(s) \in Frames /\ Terminal(s) \in Frames
          /\ Item(s).stream = s /\ ~Item(s).terminal
          /\ Terminal(s).stream = s /\ Terminal(s).terminal
    /\ \A f \in Frames : f.stream \in Streams \cup {Untracked} /\ f.terminal \in BOOLEAN
BY DEF Item, Terminal, Frames

\* A frame is an item or a terminal frame of its stream.
LEMMA ItemOrTerminal ==
    \A f \in Frames : f = IF f.terminal THEN Terminal(f.stream) ELSE Item(f.stream)
BY DEF Item, Terminal, Frames

\* Every variable keeps its type, and a thread in the middle of an operation
\* on a tracked stream (Subscriber::recv, send, ack_stream) has one in hand.
THEOREM TypeCorrect == Spec => []TypeOK
<1> USE UntrackedIsNoStream, CapacityIsPositive, WatermarksAreSizes, BoundsAreNat,
        AckedAreStreams, FrameParts
    DEF TypeOK, Threads, RouterLabels, SubscriberLabels, OwnerLabels, Goto
<1>1. Init => TypeOK
  <2> SUFFICES ASSUME Init
               PROVE  TypeOK
    OBVIOUS
  <2>1. log \in Seq(Frames) /\ recvd \in 0 .. Len(log)
    BY DEF Init
  <2>2. frame \in [Threads -> Frames]
    BY DEF Init
  <2>3. counts \in [Streams -> Nat] /\ sent \in [Streams \cup {Untracked} -> Nat]
    BY DEF Init
  <2>4. QED
    BY <2>1, <2>2, <2>3 DEF Init
<1>2. TypeOK /\ [Next]_vars => TypeOK'
  <2> SUFFICES ASSUME TypeOK, [Next]_vars
               PROVE  TypeOK'
    OBVIOUS
  <2>1. CASE UNCHANGED vars
    BY <2>1 DEF vars
  <2>2. ASSUME NEW s \in Streams, SendItem(s)
        PROVE  TypeOK'
    BY <2>2 DEF SendItem
  <2>3. ASSUME NEW s \in Streams, SendTerminal(s)
        PROVE  TypeOK'
    BY <2>3 DEF SendTerminal
  <2>4. CASE SendUntracked
    BY <2>4 DEF SendUntracked
  <2>5. CASE FlowState
    <3>1. frame["router"].stream \in Streams
      BY <2>5 DEF FlowState
    <3>2. QED
      BY <2>5, <3>1 DEF FlowState, SyncPaused
  <2>6. ASSUME pc["router"] \in {"try", "block"}, Delivered
        PROVE  TypeOK'
    <3>1. log' \in Seq(Frames) /\ Len(log') = Len(log) + 1
      BY <2>6 DEF Delivered
    <3>2. recvd' \in 0 .. Len(log')
      BY <2>6, <3>1 DEF Delivered
    <3>3. frame["router"] \in Frames
      OBVIOUS
    <3>4. QED
      BY <2>6, <3>1, <3>2, <3>3 DEF Delivered, AfterDelivered
  <2>7. ASSUME pc["router"] \in {"try", "block"}, Closed
        PROVE  TypeOK'
    BY <2>7 DEF Closed, AfterFailed
  <2>8. CASE TryDeliver
    <3>1. CASE Delivered
      BY <2>6, <2>8, <3>1 DEF TryDeliver
    <3>2. CASE Closed
      BY <2>7, <2>8, <3>2 DEF TryDeliver
    <3>3. CASE ~Delivered /\ ~Closed
      BY <2>8, <3>3 DEF TryDeliver
    <3>4. QED
      BY <3>1, <3>2, <3>3
  <2>9. CASE BlockingDeliver
    BY <2>6, <2>7, <2>9 DEF BlockingDeliver
  <2>10. CASE Stalled
    BY <2>10 DEF Stalled, AfterFailed
  <2>11. CASE Increment
    BY <2>11 DEF Increment
  <2>12. CASE Recv
    <3>1. log[recvd + 1] \in Frames /\ recvd + 1 \in 0 .. Len(log)
      BY <2>12 DEF Recv
    <3>2. frame' \in [Threads -> Frames]
      BY <2>12, <3>1 DEF Recv
    <3>3. log[recvd + 1].stream # Untracked => log[recvd + 1].stream \in Streams
      BY <3>1
    <3>4. QED
      BY <2>12, <3>1, <3>2, <3>3 DEF Recv
  <2>13. CASE Decrement
    BY <2>13 DEF Decrement
  <2>14. CASE DropSubscriber
    BY <2>14 DEF DropSubscriber
  <2>15. ASSUME NEW s \in Streams, AckStream(s)
         PROVE  TypeOK'
    BY <2>15 DEF AckStream
  <2>16. ASSUME NEW t \in Threads, Critical(t)
         PROVE  TypeOK'
    <3>1. CASE Reread(t)
      BY <2>16, <3>1 DEF Reread
    <3>2. CASE UpdateFlowState(t)
      BY <2>16, <3>2 DEF UpdateFlowState, SyncPaused
    <3>3. CASE RemoveStream(t)
      BY <2>16, <3>3 DEF RemoveStream
    <3>4. CASE ResumeStream(t)
      BY <2>16, <3>4 DEF ResumeStream
    <3>5. QED
      BY <2>16, <3>1, <3>2, <3>3, <3>4 DEF Critical
  <2>17. QED
    BY <2>1, <2>2, <2>3, <2>4, <2>5, <2>8, <2>9, <2>10, <2>11, <2>12, <2>13, <2>14,
       <2>15, <2>16
    DEF Next, Call, Sending, Acking
<1>3. QED
  BY <1>1, <1>2, PTL DEF Spec
-----------------------------------------------------------------------------
(* What the router's sends and the subscriber's acknowledgements know of the *)
(* streams: a terminal frame is on its way only for a stream that has ended, *)
(* only terminal frames and ack_stream remove a stream, and a frame about to *)
(* be delivered is of a stream whose terminal frame is not in the channel.   *)

Bounded == Len(log) - recvd <= Capacity

StreamsEnd ==
    /\ \A i \in 1 .. Len(log) : log[i].terminal => log[i].stream \in ended
    /\ \A t \in {"router", "subscriber"} : frame[t].terminal => frame[t].stream \in ended
    /\ frame["owner"].terminal => frame["owner"].stream \in acked
    /\ \A t \in Threads : pc[t] = "remove" => frame[t].terminal

DeliveryIsFresh ==
    pc["router"] \in {"decide", "try", "block"} =>
        \A i \in 1 .. Len(log) : log[i].terminal => log[i].stream # frame["router"].stream

Protocol == Bounded /\ StreamsEnd /\ DeliveryIsFresh

\* The channel never holds more than its capacity, and nothing of a stream is
\* delivered, or on its way, after the terminal frame of that stream.
THEOREM ProtocolCorrect == Spec => []Protocol
<1> USE UntrackedIsNoStream, CapacityIsPositive, FrameParts
    DEF TypeOK, Threads, RouterLabels, SubscriberLabels, OwnerLabels, Goto, Protocol
<1>1. Init => Protocol
  BY DEF Init, Bounded, StreamsEnd, DeliveryIsFresh
<1>2. TypeOK /\ Protocol /\ [Next]_vars => Protocol'
  <2> SUFFICES ASSUME TypeOK, Protocol, [Next]_vars
               PROVE  Protocol'
    OBVIOUS
  <2>1. CASE UNCHANGED vars
    BY <2>1 DEF vars, Bounded, StreamsEnd, DeliveryIsFresh
  <2>2. ASSUME NEW s \in Streams, SendItem(s)
        PROVE  Protocol'
    BY <2>2 DEF SendItem, Bounded, StreamsEnd, DeliveryIsFresh
  <2>3. ASSUME NEW s \in Streams, SendTerminal(s)
        PROVE  Protocol'
    BY <2>3 DEF SendTerminal, Bounded, StreamsEnd, DeliveryIsFresh
  <2>4. CASE SendUntracked
    BY <2>4 DEF SendUntracked, Bounded, StreamsEnd, DeliveryIsFresh
  <2>5. CASE FlowState
    BY <2>5 DEF FlowState, Bounded, StreamsEnd, DeliveryIsFresh
  <2>6. ASSUME pc["router"] \in {"try", "block"}, Delivered
        PROVE  Protocol'
    <3>1. /\ Len(log') = Len(log) + 1
          /\ \A i \in 1 .. Len(log') :
                log'[i] = IF i = Len(log) + 1 THEN frame["router"] ELSE log[i]
      BY <2>6 DEF Delivered
    <3>2. pc' = [pc EXCEPT !["router"] = AfterDelivered(frame["router"])]
      BY <2>6 DEF Delivered
    <3>3. Bounded'
      BY <2>6, <3>1 DEF Delivered, HasRoom, Bounded
    <3>4. StreamsEnd'
      BY <2>6, <3>1, <3>2 DEF Delivered, AfterDelivered, StreamsEnd
    <3>5. DeliveryIsFresh'
      BY <2>6, <3>2 DEF AfterDelivered, DeliveryIsFresh
    <3>6. QED
      BY <3>3, <3>4, <3>5
  <2>7. ASSUME pc["router"] \in {"try", "block"}, Closed
        PROVE  Protocol'
    BY <2>7 DEF Closed, AfterFailed, Bounded, StreamsEnd, DeliveryIsFresh
  <2>8. CASE TryDeliver
    <3>1. CASE Delivered
      BY <2>6, <2>8, <3>1 DEF TryDeliver
    <3>2. CASE Closed
      BY <2>7, <2>8, <3>2 DEF TryDeliver
    <3>3. CASE ~Delivered /\ ~Closed
      BY <2>8, <3>3 DEF TryDeliver, Bounded, StreamsEnd, DeliveryIsFresh
    <3>4. QED
      BY <3>1, <3>2, <3>3
  <2>9. CASE BlockingDeliver
    BY <2>6, <2>7, <2>9 DEF BlockingDeliver
  <2>10. CASE Stalled
    BY <2>10 DEF Stalled, AfterFailed, Bounded, StreamsEnd, DeliveryIsFresh
  <2>11. CASE Increment
    BY <2>11 DEF Increment, Bounded, StreamsEnd, DeliveryIsFresh
  <2>12. CASE Recv
    <3>1. /\ log[recvd + 1] \in Frames
          /\ log[recvd + 1].terminal => log[recvd + 1].stream \in ended
      BY <2>12 DEF Recv, StreamsEnd
    <3>2. Bounded'
      BY <2>12 DEF Recv, Bounded
    <3>3. StreamsEnd'
      BY <2>12, <3>1 DEF Recv, StreamsEnd
    <3>4. DeliveryIsFresh'
      BY <2>12 DEF Recv, DeliveryIsFresh
    <3>5. QED
      BY <3>2, <3>3, <3>4
  <2>13. CASE Decrement
    BY <2>13 DEF Decrement, Bounded, StreamsEnd, DeliveryIsFresh
  <2>14. CASE DropSubscriber
    BY <2>14 DEF DropSubscriber, Bounded, StreamsEnd, DeliveryIsFresh
  <2>15. ASSUME NEW s \in Streams, AckStream(s)
         PROVE  Protocol'
    BY <2>15 DEF AckStream, Bounded, StreamsEnd, DeliveryIsFresh
  <2>16. ASSUME NEW t \in Threads, Critical(t)
         PROVE  Protocol'
    <3>1. CASE Reread(t)
      BY <3>1 DEF Reread, Bounded, StreamsEnd, DeliveryIsFresh
    <3>2. CASE UpdateFlowState(t)
      BY <3>2 DEF UpdateFlowState, Bounded, StreamsEnd, DeliveryIsFresh
    <3>3. CASE RemoveStream(t)
      BY <3>3 DEF RemoveStream, Bounded, StreamsEnd, DeliveryIsFresh
    <3>4. CASE ResumeStream(t)
      BY <3>4 DEF ResumeStream, Bounded, StreamsEnd, DeliveryIsFresh
    <3>5. QED
      BY <2>16, <3>1, <3>2, <3>3, <3>4 DEF Critical
  <2>17. QED
    BY <2>1, <2>2, <2>3, <2>4, <2>5, <2>8, <2>9, <2>10, <2>11, <2>12, <2>13, <2>14,
       <2>15, <2>16
    DEF Next, Call, Sending, Acking
<1>3. QED
  BY <1>1, <1>2, TypeCorrect, PTL DEF Spec
-----------------------------------------------------------------------------
(* The items of a stream in the channel, as places of the log.              *)

Places(l, r, s) == {i \in r + 1 .. Len(l) : l[i] = Item(s)}

\* There are finitely many of them, and no more than the channel holds.
LEMMA PlacesFinite ==
    ASSUME NEW l \in Seq(Frames), NEW r \in 0 .. Len(l), NEW s
    PROVE  /\ IsFiniteSet(Places(l, r, s))
           /\ Cardinality(Places(l, r, s)) \in 0 .. Len(l) - r
<1>1. IsFiniteSet(r + 1 .. Len(l)) /\ Cardinality(r + 1 .. Len(l)) = Len(l) - r
  <2>1. r + 1 \in Int /\ Len(l) \in Int /\ r <= Len(l)
    OBVIOUS
  <2>2. /\ IsFiniteSet(r + 1 .. Len(l))
        /\ Cardinality(r + 1 .. Len(l)) = IF r + 1 > Len(l) THEN 0 ELSE Len(l) - (r + 1) + 1
    BY <2>1, FS_Interval
  <2>3. QED
    BY <2>1, <2>2
<1>2. Places(l, r, s) \in SUBSET (r + 1 .. Len(l))
  BY DEF Places
<1>3. /\ IsFiniteSet(Places(l, r, s))
      /\ Cardinality(Places(l, r, s)) <= Cardinality(r + 1 .. Len(l))
  BY <1>1, <1>2, FS_Subset
<1>4. QED
  BY <1>1, <1>3, FS_CardinalityType

\* A frame entering the channel adds one place if it is an item of s.
LEMMA PlacesAppend ==
    ASSUME NEW l \in Seq(Frames), NEW r \in 0 .. Len(l), NEW f \in Frames, NEW s
    PROVE  Cardinality(Places(Append(l, f), r, s)) =
               Cardinality(Places(l, r, s)) + IF f = Item(s) THEN 1 ELSE 0
<1>1. /\ Len(Append(l, f)) = Len(l) + 1
      /\ \A i \in 1 .. Len(l) : Append(l, f)[i] = l[i]
      /\ Append(l, f)[Len(l) + 1] = f
  OBVIOUS
<1>2. CASE f = Item(s)
  <2>1. Places(Append(l, f), r, s) = Places(l, r, s) \cup {Len(l) + 1}
    BY <1>1, <1>2 DEF Places
  <2>2. Len(l) + 1 \notin Places(l, r, s)
    BY DEF Places
  <2>3. QED
    BY <1>2, <2>1, <2>2, PlacesFinite, FS_AddElement
<1>3. CASE f # Item(s)
  <2>1. Places(Append(l, f), r, s) = Places(l, r, s)
    BY <1>1, <1>3 DEF Places
  <2>2. QED
    BY <1>3, <2>1, PlacesFinite
<1>4. QED
  BY <1>2, <1>3

\* A frame leaving the channel takes its place away.
LEMMA PlacesTake ==
    ASSUME NEW l \in Seq(Frames), NEW r \in 0 .. Len(l) - 1, NEW s
    PROVE  Cardinality(Places(l, r, s)) =
               Cardinality(Places(l, r + 1, s)) + IF l[r + 1] = Item(s) THEN 1 ELSE 0
<1>1. Places(l, r + 1, s) = Places(l, r, s) \ {r + 1}
  BY DEF Places
<1>2. r + 1 \in Places(l, r, s) <=> l[r + 1] = Item(s)
  BY DEF Places
<1>3. IsFiniteSet(Places(l, r, s)) /\ Cardinality(Places(l, r, s)) \in Nat
  BY PlacesFinite
<1>4. Cardinality(Places(l, r, s) \ {r + 1}) =
          IF r + 1 \in Places(l, r, s) THEN Cardinality(Places(l, r, s)) - 1
                                       ELSE Cardinality(Places(l, r, s))
  BY <1>3, FS_RemoveElement
<1>5. CASE l[r + 1] = Item(s)
  <2>1. Cardinality(Places(l, r + 1, s)) = Cardinality(Places(l, r, s)) - 1
    BY <1>1, <1>2, <1>4, <1>5
  <2>2. QED
    BY <1>3, <1>5, <2>1
<1>6. CASE l[r + 1] # Item(s)
  <2>1. Cardinality(Places(l, r + 1, s)) = Cardinality(Places(l, r, s))
    BY <1>1, <1>2, <1>4, <1>6
  <2>2. QED
    BY <1>3, <1>6, <2>1
<1>7. QED
  BY <1>5, <1>6

\* The buffered frames of a stream are places in the log.
LEMMA BufferedPlaces ==
    \A s : Buffered(s) = Places(log, recvd, s)
BY DEF Buffered, Places

-----------------------------------------------------------------------------
(* The drift between the count of a stream and what is really buffered.     *)

Drift(s) ==
    /\ Counted(s) <= Unacked(s) + 1
    /\ s \notin ended \cup acked => Unacked(s) <= Counted(s)

\* A step that touches neither the count of s nor its frames on their way
\* between the channel and the count leaves the drift as it was.
LEMMA DriftKept ==
    ASSUME TypeOK, NEW s \in Streams, Drift(s),
           log' = log, recvd' = recvd, counts'[s] = counts[s],
           At("router", "increment", s)' = At("router", "increment", s),
           At("subscriber", "decrement", s)' = At("subscriber", "decrement", s),
           ended \subseteq ended', acked \subseteq acked'
    PROVE  Drift(s)'
<1>1. Buffered(s)' = Buffered(s)
  BY DEF Buffered
<1>2. Counted(s)' = Counted(s) /\ Unacked(s)' = Unacked(s)
  BY <1>1 DEF Counted, Unacked
<1>3. QED
  BY <1>2 DEF Drift

\* The two sides of the drift are natural numbers.
LEMMA DriftTypes ==
    ASSUME TypeOK, NEW s \in Streams
    PROVE  /\ Cardinality(Buffered(s)) \in 0 .. Len(log) - recvd
           /\ counts[s] \in Nat
           /\ \A t \in Threads : \A l : At(t, l, s) \in {0, 1}
BY PlacesFinite, BufferedPlaces DEF TypeOK, At

\* A frame is counted right after it is delivered.
LEMMA DriftDelivered ==
    ASSUME TypeOK, NEW s \in Streams, Drift(s),
           pc["router"] \in {"try", "block"}, Delivered
    PROVE  Drift(s)'
<1> DEFINE f == frame["router"]
<1>1. f \in Frames
  BY DEF TypeOK, Threads
<1>2. /\ log' = Append(log, f) /\ recvd' = recvd /\ counts' = counts
      /\ frame' = frame /\ ended' = ended /\ acked' = acked
      /\ pc' = [pc EXCEPT !["router"] = AfterDelivered(f)]
  BY DEF Delivered, Goto
<1>3. Cardinality(Buffered(s)') = Cardinality(Buffered(s)) + IF f = Item(s) THEN 1 ELSE 0
  <2>1. Buffered(s)' = Places(Append(log, f), recvd, s)
    BY <1>2 DEF Buffered, Places
  <2>2. log \in Seq(Frames) /\ recvd \in 0 .. Len(log)
    BY DEF TypeOK
  <2>3. QED
    BY <1>1, <2>1, <2>2, PlacesAppend, BufferedPlaces
<1>4. At("router", "increment", s) = 0
  BY DEF At
<1>5. At("router", "increment", s)' = IF f = Item(s) THEN 1 ELSE 0
  BY <1>1, <1>2, FrameParts, ItemOrTerminal, UntrackedIsNoStream
  DEF At, AfterDelivered, TypeOK, Threads
<1>6. At("subscriber", "decrement", s)' = At("subscriber", "decrement", s)
  BY <1>2 DEF At, TypeOK, Threads
<1>7. QED
  BY <1>2, <1>3, <1>4, <1>5, <1>6, DriftTypes DEF Drift, Counted, Unacked, Threads

\* The frame recv takes from the channel is the one it acknowledges next.
LEMMA DriftRecv ==
    ASSUME TypeOK, NEW s \in Streams, Drift(s), Recv
    PROVE  Drift(s)'
<1> DEFINE f == log[recvd + 1]
<1>1. f \in Frames /\ recvd \in 0 .. Len(log) - 1
  BY DEF TypeOK, Recv
<1>2. /\ log' = log /\ recvd' = recvd + 1 /\ counts' = counts
      /\ ended' = ended /\ acked' = acked
      /\ frame' = [frame EXCEPT !["subscriber"] = f]
      /\ pc' = [pc EXCEPT !["subscriber"] =
                   IF f.stream = Untracked THEN "idle"
                   ELSE IF f.terminal THEN "remove" ELSE "decrement"]
  BY DEF Recv, Goto
<1>3. Cardinality(Buffered(s)) = Cardinality(Buffered(s)') + IF f = Item(s) THEN 1 ELSE 0
  <2>1. Buffered(s)' = Places(log, recvd + 1, s)
    BY <1>2 DEF Buffered, Places
  <2>2. log \in Seq(Frames)
    BY DEF TypeOK
  <2>3. QED
    BY <1>1, <2>1, <2>2, PlacesTake, BufferedPlaces
<1>4. Cardinality(Buffered(s)') \in Nat
  <2>1. Buffered(s)' = Places(log, recvd + 1, s)
    BY <1>2 DEF Buffered, Places
  <2>2. log \in Seq(Frames) /\ recvd + 1 \in 0 .. Len(log)
    BY <1>1 DEF TypeOK
  <2>3. QED
    BY <2>1, <2>2, PlacesFinite
<1>5. At("subscriber", "decrement", s) = 0
  BY DEF At, Recv
<1>6. At("subscriber", "decrement", s)' = IF f = Item(s) THEN 1 ELSE 0
  BY <1>1, <1>2, FrameParts, ItemOrTerminal, UntrackedIsNoStream
  DEF At, TypeOK, Threads
<1>7. At("router", "increment", s)' = At("router", "increment", s)
  BY <1>2 DEF At, TypeOK, Threads
<1>8. QED
  BY <1>2, <1>3, <1>4, <1>5, <1>6, <1>7, DriftTypes DEF Drift, Counted, Unacked, Threads

\* What the router was about to count is counted.
LEMMA DriftIncrement ==
    ASSUME TypeOK, NEW s \in Streams, Drift(s), Increment
    PROVE  Drift(s)'
<1>1. /\ log' = log /\ recvd' = recvd /\ frame' = frame /\ ended' = ended /\ acked' = acked
      /\ counts' = [counts EXCEPT ![frame["router"].stream] = @ + 1]
      /\ pc' = [pc EXCEPT !["router"] = "reread"]
      /\ pc["router"] = "increment"
  BY DEF Increment, Goto
<1>2. Unacked(s)' = Unacked(s)
  BY <1>1 DEF Unacked, Buffered, At, TypeOK, Threads
<1>3. At("router", "increment", s)' = 0
  BY <1>1 DEF At, TypeOK, Threads
<1>4. counts'[s] = counts[s] + At("router", "increment", s)
  BY <1>1, DriftTypes DEF At, TypeOK
<1>5. Counted(s)' = Counted(s)
  BY <1>1, <1>3, <1>4, DriftTypes DEF Counted, TypeOK, Threads
<1>6. QED
  BY <1>1, <1>2, <1>5 DEF Drift

\* An acknowledgement lowers the count, or finds no entry: the latter only when
\* the router has yet to count one of the frames not acknowledged.
LEMMA DriftDecrement ==
    ASSUME TypeOK, NEW s \in Streams, Drift(s), Decrement
    PROVE  Drift(s)'
<1>1. /\ log' = log /\ recvd' = recvd /\ frame' = frame /\ ended' = ended /\ acked' = acked
      /\ counts' = [counts EXCEPT ![frame["subscriber"].stream] = IF @ <= 1 THEN 0 ELSE @ - 1]
      /\ pc' = [pc EXCEPT !["subscriber"] = "reread"]
      /\ pc["subscriber"] = "decrement"
  BY DEF Decrement, Goto
<1>2. At("router", "increment", s)' = At("router", "increment", s)
  BY <1>1 DEF At, TypeOK, Threads
<1>3. At("subscriber", "decrement", s)' = 0
  BY <1>1 DEF At, TypeOK, Threads
<1>4. Buffered(s)' = Buffered(s)
  BY <1>1 DEF Buffered
<1>5. CASE frame["subscriber"].stream = s
  <2>1. At("subscriber", "decrement", s) = 1
    BY <1>1, <1>5 DEF At
  <2>2. counts'[s] = IF counts[s] <= 1 THEN 0 ELSE counts[s] - 1
    BY <1>1, <1>5 DEF TypeOK
  <2>3. QED
    BY <1>1, <1>2, <1>3, <1>4, <2>1, <2>2, DriftTypes DEF Drift, Counted, Unacked, Threads
<1>6. CASE frame["subscriber"].stream # s
  <2>1. At("subscriber", "decrement", s) = 0
    BY <1>6 DEF At
  <2>2. counts'[s] = counts[s]
    BY <1>1, <1>6 DEF TypeOK
  <2>3. QED
    BY <1>1, <1>2, <1>3, <1>4, <2>1, <2>2, DriftTypes DEF Drift, Counted, Unacked, Threads
<1>7. QED
  BY <1>5, <1>6

\* Forgetting a stream lowers its count; it is a stream that has ended, or one
\* on which ack_stream was called.
LEMMA DriftRemove ==
    ASSUME TypeOK, StreamsEnd, NEW s \in Streams, Drift(s),
           NEW t \in Threads, RemoveStream(t)
    PROVE  Drift(s)'
<1>1. /\ log' = log /\ recvd' = recvd /\ frame' = frame /\ ended' = ended /\ acked' = acked
      /\ counts' = [counts EXCEPT ![frame[t].stream] = 0]
      /\ pc' = [pc EXCEPT ![t] = "resume"]
      /\ pc[t] = "remove"
  BY DEF RemoveStream, Goto
<1>2. /\ At("router", "increment", s)' = At("router", "increment", s)
      /\ At("subscriber", "decrement", s)' = At("subscriber", "decrement", s)
  BY <1>1 DEF At, TypeOK, Threads
<1>3. CASE frame[t].stream = s
  <2>1. s \in ended \cup acked
    BY <1>1, <1>3 DEF StreamsEnd, Threads
  <2>2. counts'[s] = 0
    BY <1>1, <1>3 DEF TypeOK
  <2>3. Buffered(s)' = Buffered(s)
    BY <1>1 DEF Buffered
  <2>4. QED
    BY <1>1, <1>2, <2>1, <2>2, <2>3, DriftTypes DEF Drift, Counted, Unacked, Threads
<1>4. CASE frame[t].stream # s
  <2>1. counts'[s] = counts[s]
    BY <1>1, <1>4 DEF TypeOK
  <2>2. QED
    BY <1>1, <1>2, <2>1, DriftKept
<1>5. QED
  BY <1>3, <1>4

AllDrift == \A s \in Streams : Drift(s)

\* However the three threads interleave, the count of a stream is at most one
\* above the frames really unacknowledged and, while the stream is open, never
\* below them.
THEOREM DriftCorrect == Spec => []AllDrift
<1>1. Init => AllDrift
  <2> SUFFICES ASSUME Init, NEW s \in Streams
               PROVE  Drift(s)
    BY DEF AllDrift
  <2>1. Buffered(s) = {}
    BY DEF Init, Buffered
  <2>2. Cardinality(Buffered(s)) = 0
    BY <2>1, FS_EmptySet
  <2>3. QED
    BY <2>2 DEF Init, Drift, Counted, Unacked, At, Threads
<1>2. TypeOK /\ StreamsEnd /\ AllDrift /\ [Next]_vars => AllDrift'
  <2> SUFFICES ASSUME TypeOK, StreamsEnd, AllDrift, [Next]_vars, NEW s \in Streams
               PROVE  Drift(s)'
    BY DEF AllDrift
  <2>0. Drift(s)
    BY DEF AllDrift
  <2> DEFINE Quiet == /\ log' = log /\ recvd' = recvd /\ counts' = counts
                      /\ At("router", "increment", s)' = At("router", "increment", s)
                      /\ At("subscriber", "decrement", s)' = At("subscriber", "decrement", s)
                      /\ ended \subseteq ended' /\ acked \subseteq acked'
  <2>1. Quiet => Drift(s)'
    BY <2>0, DriftKept
  <2> HIDE DEF Quiet
  <2>2. CASE UNCHANGED vars
    BY <2>1, <2>2 DEF vars, At, Quiet
  <2>3. ASSUME NEW r \in Streams, SendItem(r) \/ SendTerminal(r) \/ AckStream(r)
        PROVE  Quiet
    BY <2>3 DEF SendItem, SendTerminal, AckStream, Goto, At, Quiet, TypeOK, Threads
  <2>4. ASSUME SendUntracked \/ FlowState \/ DropSubscriber
        PROVE  Quiet
    BY <2>4 DEF SendUntracked, FlowState, DropSubscriber, Goto, At, Quiet, TypeOK, Threads
  <2>5. ASSUME pc["router"] \in {"try", "block"}, Closed
        PROVE  Quiet
    BY <2>5 DEF Closed, AfterFailed, Goto, At, Quiet, TypeOK, Threads
  <2>6. CASE TryDeliver
    <3>1. CASE Delivered
      BY <2>0, <2>6, <3>1, DriftDelivered DEF TryDeliver
    <3>2. CASE Closed
      BY <2>1, <2>5, <2>6, <3>2 DEF TryDeliver
    <3>3. ASSUME ~Delivered, ~Closed
          PROVE  Quiet
      BY <2>6, <3>3 DEF TryDeliver, Goto, At, Quiet, TypeOK, Threads
    <3>4. QED
      BY <2>1, <3>1, <3>2, <3>3
  <2>7. CASE BlockingDeliver
    BY <2>0, <2>1, <2>5, <2>7, DriftDelivered DEF BlockingDeliver
  <2>8. ASSUME Stalled
        PROVE  Quiet
    BY <2>8 DEF Stalled, AfterFailed, Goto, At, Quiet, TypeOK, Threads
  <2>9. ASSUME NEW t \in Threads, Reread(t) \/ UpdateFlowState(t) \/ ResumeStream(t)
        PROVE  Quiet
    <3>1. t = "router" => pc'["router"] # "increment" /\ pc["router"] # "increment"
      BY <2>9 DEF Reread, UpdateFlowState, ResumeStream, Goto, TypeOK, Threads
    <3>2. QED
      BY <2>9, <3>1
      DEF Reread, UpdateFlowState, ResumeStream, Goto, At, Quiet, TypeOK, Threads
  <2>10. ASSUME NEW t \in Threads, Critical(t)
         PROVE  Drift(s)'
    BY <2>0, <2>1, <2>9, <2>10, DriftRemove DEF Critical
  <2>11. QED
    BY <2>0, <2>1, <2>2, <2>3, <2>4, <2>6, <2>7, <2>8, <2>10,
       DriftRecv, DriftIncrement, DriftDecrement
    DEF Next, Call, Sending, Acking, Threads
<1>3. QED
  BY <1>1, <1>2, TypeCorrect, ProtocolCorrect, PTL DEF Spec, Protocol

\* The count of a stream is never more than one above what is really buffered.
THEOREM CountUpperCorrect == Spec => []CountUpper
<1>1. AllDrift => CountUpper
  BY DEF AllDrift, Drift, CountUpper
<1>2. QED
  BY <1>1, DriftCorrect, PTL

\* The count of an open stream is never below what is really buffered, so that
\* a stream whose consumer lags cannot stay below its watermark.
THEOREM CountLowerCorrect == Spec => []CountLower
<1>1. AllDrift => CountLower
  BY DEF AllDrift, Drift, CountLower
<1>2. QED
  BY <1>1, DriftCorrect, PTL

-----------------------------------------------------------------------------
(* A watermark out of the channel's reach.                                  *)

Unpaused ==
    HighWatermark > Capacity + 2 =>
        /\ paused = {}
        /\ \A t \in Threads : seen[t] <= Capacity + 2

\* With HighWatermark above Capacity + 2 no stream is ever paused.  This is the
\* kernel's default: channels of 256 frames and a watermark of 1000.
THEOREM PausedUnreachableCorrect == Spec => []PausedUnreachable
<1>1. Init => Unpaused
  BY CapacityIsPositive DEF Init, Unpaused
<1>2. TypeOK /\ Protocol /\ AllDrift => \A s \in Streams : counts[s] <= Capacity + 2
  <2> SUFFICES ASSUME TypeOK, Protocol, AllDrift, NEW s \in Streams
               PROVE  counts[s] <= Capacity + 2
    OBVIOUS
  <2>1. Len(log) - recvd <= Capacity /\ Len(log) \in Nat /\ recvd \in Nat
    BY DEF Protocol, Bounded, TypeOK
  <2>2. Counted(s) <= Unacked(s) + 1
    BY DEF AllDrift, Drift
  <2>3. QED
    BY <2>1, <2>2, DriftTypes, CapacityIsPositive DEF Counted, Unacked, Threads
<1>3. TypeOK /\ Protocol /\ AllDrift /\ Unpaused /\ [Next]_vars => Unpaused'
  <2> SUFFICES ASSUME TypeOK, Unpaused, [Next]_vars, HighWatermark > Capacity + 2,
                      \A s \in Streams : counts[s] <= Capacity + 2
               PROVE  Unpaused'
    BY <1>2 DEF Unpaused
  <2> USE CapacityIsPositive, WatermarksAreSizes DEF TypeOK, Threads, Unpaused
  <2>1. CASE UNCHANGED <<paused, seen>>
    BY <2>1
  <2>2. ASSUME NEW s \in Streams, SendItem(s)
        PROVE  Unpaused'
    BY <2>2 DEF SendItem
  <2>3. CASE FlowState
    BY <2>3 DEF FlowState, SyncPaused, PausedAt
  <2>4. ASSUME NEW t \in Threads, Reread(t)
        PROVE  Unpaused'
    <3>1. frame[t].stream \in Streams
      BY <2>4 DEF Reread
    <3>2. QED
      BY <2>4, <3>1 DEF Reread
  <2>5. ASSUME NEW t \in Threads, UpdateFlowState(t)
        PROVE  Unpaused'
    BY <2>5 DEF UpdateFlowState, SyncPaused, PausedAt
  <2>6. ASSUME NEW t \in Threads, RemoveStream(t) \/ ResumeStream(t)
        PROVE  Unpaused'
    BY <2>6 DEF RemoveStream, ResumeStream
  <2>7. ASSUME TryDeliver \/ BlockingDeliver \/ Stalled \/ Increment
        PROVE  UNCHANGED <<paused, seen>>
    BY <2>7 DEF TryDeliver, BlockingDeliver, Delivered, Closed, Stalled, Increment
  <2>8. ASSUME Recv \/ Decrement \/ DropSubscriber \/ SendUntracked
        PROVE  UNCHANGED <<paused, seen>>
    BY <2>8 DEF Recv, Decrement, DropSubscriber, SendUntracked
  <2>9. ASSUME NEW s \in Streams, SendTerminal(s) \/ AckStream(s)
        PROVE  UNCHANGED <<paused, seen>>
    BY <2>9 DEF SendTerminal, AckStream
  <2>10. QED
    BY <2>1, <2>2, <2>3, <2>4, <2>5, <2>6, <2>7, <2>8, <2>9
    DEF Next, Call, Sending, Acking, Critical, vars
<1>4. Unpaused => PausedUnreachable
  BY DEF Unpaused, PausedUnreachable
<1>5. QED
  BY <1>1, <1>3, <1>4, TypeCorrect, ProtocolCorrect, DriftCorrect, PTL DEF Spec
-----------------------------------------------------------------------------
(* A stream is forgotten once both sides are done with its terminal frame.  *)

TerminalDelivered(s) == \E i \in 1 .. Len(log) : log[i] = Terminal(s)
TerminalReceived(s) == \E i \in 1 .. recvd : log[i] = Terminal(s)
Busy(t, labels, s) == pc[t] \in labels /\ frame[t].stream = s

\* Nothing of a stream follows its terminal frame in the channel.
TerminalIsLast ==
    \A i, j \in 1 .. Len(log) : i < j /\ log[i].terminal => log[j].stream # log[i].stream

\* After the terminal frame of s neither side handles an item of s any more,
\* the router's remove_stream is the last word on the count, and the later of
\* the two resume_stream calls the last word on the paused flag.
Reclaiming(s) ==
    /\ TerminalDelivered(s) => ~Busy("router", {"increment", "reread", "update"}, s)
    /\ TerminalReceived(s) => ~Busy("subscriber", {"decrement", "reread", "update"}, s)
    /\ TerminalDelivered(s) /\ ~Busy("router", {"remove"}, s) => counts[s] = 0
    /\ /\ TerminalReceived(s)
       /\ ~Busy("router", {"remove", "resume"}, s)
       /\ ~Busy("subscriber", {"remove", "resume"}, s)
       => s \notin paused

Reclaim == TerminalIsLast /\ \A s \in Streams : Reclaiming(s)

\* A step of the router before delivery is of a stream still open.
LEMMA NotAfterTerminal ==
    ASSUME TypeOK, DeliveryIsFresh, NEW s \in Streams, TerminalDelivered(s),
           pc["router"] \in {"decide", "try", "block"}
    PROVE  frame["router"].stream # s
<1>1. PICK i \in 1 .. Len(log) : log[i] = Terminal(s)
  BY DEF TerminalDelivered
<1>2. log[i].terminal /\ log[i].stream = s
  BY <1>1, FrameParts
<1>3. QED
  BY <1>2 DEF DeliveryIsFresh

\* What was received was delivered.
LEMMA ReceivedIsDelivered ==
    ASSUME TypeOK, NEW s
    PROVE  TerminalReceived(s) => TerminalDelivered(s)
BY DEF TypeOK, TerminalReceived, TerminalDelivered

\* A step that leaves the channel, the count and the paused flag of s alone,
\* and moves no thread to or from the labels that matter, keeps Reclaiming(s).
LEMMA ReclaimKept ==
    ASSUME TypeOK, NEW s \in Streams, Reclaiming(s),
           UNCHANGED <<log, recvd>>, counts'[s] \in {0, counts[s]},
           s \in paused' => s \in paused,
           Busy("router", {"increment", "reread", "update"}, s)' =>
               Busy("router", {"increment", "reread", "update"}, s),
           Busy("subscriber", {"decrement", "reread", "update"}, s)' =>
               Busy("subscriber", {"decrement", "reread", "update"}, s),
           Busy("router", {"remove"}, s) /\ ~Busy("router", {"remove"}, s)' => counts'[s] = 0,
           Busy("router", {"remove", "resume"}, s) /\ ~Busy("router", {"remove", "resume"}, s)'
               => s \notin paused',
           Busy("subscriber", {"remove", "resume"}, s)
               /\ ~Busy("subscriber", {"remove", "resume"}, s)' => s \notin paused'
    PROVE  Reclaiming(s)'
<1>1. /\ TerminalDelivered(s)' <=> TerminalDelivered(s)
      /\ TerminalReceived(s)' <=> TerminalReceived(s)
  BY DEF TerminalDelivered, TerminalReceived
<1> HIDE DEF TerminalDelivered, TerminalReceived, Busy
<1>2. QED
  BY <1>1 DEF Reclaiming

\* The same, when the stream has no terminal frame in the channel.
LEMMA ReclaimVacuous ==
    ASSUME TypeOK, TypeOK', NEW s \in Streams, ~TerminalDelivered(s)'
    PROVE  Reclaiming(s)'
<1>1. ~TerminalReceived(s)'
  BY DEF TypeOK, TerminalReceived, TerminalDelivered
<1>2. QED
  BY <1>1 DEF Reclaiming

\* Delivering a frame of an open stream puts it after no terminal frame.
LEMMA LastDelivered ==
    ASSUME TypeOK, DeliveryIsFresh, TerminalIsLast,
           pc["router"] \in {"try", "block"}, Delivered
    PROVE  TerminalIsLast'
<1> DEFINE f == frame["router"]
<1>1. log \in Seq(Frames)
  BY DEF TypeOK
<1>2. /\ Len(log') = Len(log) + 1
      /\ \A i \in 1 .. Len(log') : log'[i] = IF i = Len(log) + 1 THEN f ELSE log[i]
  BY <1>1 DEF Delivered
<1>3. SUFFICES ASSUME NEW i \in 1 .. Len(log'), NEW j \in 1 .. Len(log'),
                      i < j, log'[i].terminal
               PROVE  log'[j].stream # log'[i].stream
  BY DEF TerminalIsLast
<1>4. i \in 1 .. Len(log) /\ log'[i] = log[i]
  BY <1>1, <1>2, <1>3
<1>5. CASE j = Len(log) + 1
  BY <1>2, <1>3, <1>4, <1>5 DEF DeliveryIsFresh
<1>6. CASE j # Len(log) + 1
  <2>1. j \in 1 .. Len(log) /\ log'[j] = log[j]
    BY <1>1, <1>2, <1>3, <1>6
  <2>2. QED
    BY <1>3, <1>4, <2>1 DEF TerminalIsLast
<1>7. QED
  BY <1>5, <1>6

\* A delivery keeps Reclaiming.
LEMMA ReclaimDelivered ==
    ASSUME TypeOK, TypeOK', StreamsEnd, DeliveryIsFresh, Reclaim, NEW s \in Streams,
           pc["router"] \in {"try", "block"}, Delivered
    PROVE  Reclaiming(s)'
<1> DEFINE f == frame["router"]
<1>1. f \in Frames /\ log \in Seq(Frames) /\ recvd \in 0 .. Len(log)
  BY DEF TypeOK, Threads
<1>2. /\ Len(log') = Len(log) + 1
      /\ \A i \in 1 .. Len(log') : log'[i] = IF i = Len(log) + 1 THEN f ELSE log[i]
  BY <1>1 DEF Delivered
<1>3. /\ recvd' = recvd /\ counts' = counts /\ paused' = paused /\ frame' = frame
      /\ pc' = [pc EXCEPT !["router"] = AfterDelivered(f)]
  BY DEF Delivered, Goto
<1>5. TerminalReceived(s)' <=> TerminalReceived(s)
  BY <1>1, <1>2, <1>3 DEF TerminalReceived
<1>6. TerminalDelivered(s)' <=> TerminalDelivered(s) \/ f = Terminal(s)
  BY <1>1, <1>2 DEF TerminalDelivered
<1>7. CASE f = Terminal(s)
  <2>1. f.stream = s /\ f.terminal /\ s # Untracked
    BY <1>7, FrameParts, UntrackedIsNoStream
  <2>2. ~TerminalReceived(s)'
    BY <1>5, <2>1, NotAfterTerminal, ReceivedIsDelivered
  <2>3. pc'["router"] = "remove"
    BY <1>3, <2>1 DEF AfterDelivered, TypeOK, Threads
  <2>4. QED
    BY <1>3, <2>1, <2>2, <2>3 DEF Reclaiming, Busy
<1>8. CASE f.stream = s /\ f # Terminal(s)
  BY <1>6, <1>8, NotAfterTerminal, ReclaimVacuous
<1>9. CASE f.stream # s
  <2>1. f # Terminal(s)
    BY <1>9, FrameParts
  <2>2. /\ \A ls : ~Busy("router", ls, s) /\ ~Busy("router", ls, s)'
        /\ \A ls : Busy("subscriber", ls, s)' <=> Busy("subscriber", ls, s)
    BY <1>3, <1>9 DEF Busy, TypeOK, Threads
  <2>3. QED
    BY <1>3, <1>5, <1>6, <2>1, <2>2 DEF Reclaim, Reclaiming
<1>10. QED
  BY <1>7, <1>8, <1>9

\* A receive keeps Reclaiming.
LEMMA ReclaimRecv ==
    ASSUME TypeOK, Reclaim, NEW s \in Streams, Recv
    PROVE  Reclaiming(s)'
<1> DEFINE f == log[recvd + 1]
<1>1. f \in Frames /\ log \in Seq(Frames) /\ recvd \in 0 .. Len(log) - 1
  BY DEF TypeOK, Recv
<1>2. /\ log' = log /\ recvd' = recvd + 1 /\ counts' = counts /\ paused' = paused
      /\ frame' = [frame EXCEPT !["subscriber"] = f]
      /\ pc["subscriber"] = "idle"
      /\ pc' = [pc EXCEPT !["subscriber"] =
                   IF f.stream = Untracked THEN "idle"
                   ELSE IF f.terminal THEN "remove" ELSE "decrement"]
  BY DEF Recv, Goto
<1>3. TerminalDelivered(s)' <=> TerminalDelivered(s)
  BY <1>2 DEF TerminalDelivered
<1>4. TerminalReceived(s)' <=> TerminalReceived(s) \/ f = Terminal(s)
  BY <1>1, <1>2 DEF TerminalReceived
<1>5. /\ \A ls : Busy("router", ls, s)' <=> Busy("router", ls, s)
  BY <1>2 DEF Busy, TypeOK, Threads
<1>6. CASE f = Terminal(s)
  <2>1. f.stream = s /\ f.terminal /\ s # Untracked
    BY <1>6, FrameParts, UntrackedIsNoStream
  <2>2. pc'["subscriber"] = "remove" /\ frame'["subscriber"] = f
    BY <1>2, <2>1 DEF TypeOK, Threads
  <2>3. QED
    BY <1>2, <1>3, <1>5, <2>1, <2>2 DEF Reclaim, Reclaiming, Busy
<1>7. CASE f.stream = s /\ f # Terminal(s)
  <2>1. ~TerminalReceived(s)
    BY <1>1, <1>7, FrameParts DEF TerminalReceived, Reclaim, TerminalIsLast
  <2>2. QED
    BY <1>2, <1>3, <1>4, <1>5, <1>7, <2>1 DEF Reclaim, Reclaiming
<1>8. CASE f.stream # s
  <2>1. f # Terminal(s)
    BY <1>8, FrameParts
  <2>2. /\ ~Busy("subscriber", {"decrement", "reread", "update"}, s)'
        /\ ~Busy("subscriber", {"remove", "resume"}, s)
    BY <1>2, <1>8 DEF Busy, TypeOK, Threads
  <2>3. QED
    BY <1>2, <1>3, <1>4, <1>5, <2>1, <2>2 DEF Reclaim, Reclaiming
<1>9. QED
  BY <1>6, <1>7, <1>8

\* A decrement keeps Reclaiming.
LEMMA ReclaimDecrement ==
    ASSUME TypeOK, Reclaim, NEW s \in Streams, Decrement
    PROVE  Reclaiming(s)'
<1>1. /\ log' = log /\ recvd' = recvd /\ paused' = paused /\ frame' = frame
      /\ counts[s] = 0 => counts'[s] = 0
      /\ pc["subscriber"] = "decrement"
      /\ pc' = [pc EXCEPT !["subscriber"] = "reread"]
  BY DEF Decrement, Goto, TypeOK
<1>2. /\ TerminalDelivered(s)' <=> TerminalDelivered(s)
      /\ TerminalReceived(s)' <=> TerminalReceived(s)
  BY <1>1 DEF TerminalDelivered, TerminalReceived
<1>3. /\ \A ls : Busy("router", ls, s)' <=> Busy("router", ls, s)
      /\ Busy("subscriber", {"decrement", "reread", "update"}, s)'
            => Busy("subscriber", {"decrement", "reread", "update"}, s)
      /\ ~Busy("subscriber", {"remove", "resume"}, s)
  BY <1>1 DEF Busy, TypeOK, Threads
<1>4. QED
  BY <1>1, <1>2, <1>3 DEF Reclaim, Reclaiming

\* Once both sides are done with the terminal frame of a stream, the controller
\* keeps neither a count nor a paused flag for it.
THEOREM TrackingReclaimedCorrect == Spec => []TrackingReclaimed
<1>1. Init => Reclaim
  BY DEF Init, Reclaim, TerminalIsLast, Reclaiming, TerminalDelivered, TerminalReceived
<1>2. TypeOK /\ TypeOK' /\ Protocol /\ Reclaim /\ [Next]_vars => Reclaim'
  <2> SUFFICES ASSUME TypeOK, TypeOK', StreamsEnd, DeliveryIsFresh, Reclaim, [Next]_vars
               PROVE  TerminalIsLast' /\ \A s \in Streams : Reclaiming(s)'
    BY DEF Reclaim, Protocol
  <2>1. TerminalIsLast'
    <3>1. log' = log => TerminalIsLast'
      BY DEF Reclaim, TerminalIsLast
    <3>2. TryDeliver \/ BlockingDeliver => TerminalIsLast'
      BY <3>1, LastDelivered DEF TryDeliver, BlockingDeliver, Closed, Reclaim
    <3>3. Next /\ ~(TryDeliver \/ BlockingDeliver) => log' = log
      BY DEF Next, Call, Sending, Acking, Critical, SendItem, SendTerminal, SendUntracked,
         FlowState, Stalled, Increment, Recv, Decrement, DropSubscriber, AckStream, Reread,
         UpdateFlowState, RemoveStream, ResumeStream
    <3>4. QED
      BY <3>1, <3>2, <3>3 DEF vars
  <2> SUFFICES ASSUME NEW s \in Streams
               PROVE  Reclaiming(s)'
    BY <2>1
  <2>0. Reclaiming(s)
    BY DEF Reclaim
  <2>2. CASE UNCHANGED vars
    BY <2>0, <2>2, ReclaimKept DEF vars, Busy, TypeOK
  <2>3. ASSUME NEW r \in Streams, SendItem(r) \/ SendTerminal(r) \/ AckStream(r)
        PROVE  Reclaiming(s)'
    BY <2>0, <2>3, ReclaimKept
    DEF SendItem, SendTerminal, AckStream, Goto, Busy, TypeOK, Threads
  <2>4. ASSUME SendUntracked \/ DropSubscriber
        PROVE  Reclaiming(s)'
    BY <2>0, <2>4, ReclaimKept DEF SendUntracked, DropSubscriber, Goto, Busy, TypeOK, Threads
  <2>5. ASSUME frame["router"].stream = s, pc["router"] \in {"decide", "try", "block"},
               UNCHANGED log
        PROVE  Reclaiming(s)'
    <3>1. ~TerminalDelivered(s)'
      BY <2>5, NotAfterTerminal DEF TerminalDelivered
    <3>2. QED
      BY <3>1, ReclaimVacuous
  <2>6. ASSUME frame["router"].stream # s, pc'["router"] \in RouterLabels,
               frame' = frame, pc' = [pc EXCEPT !["router"] = pc'["router"]],
               UNCHANGED <<log, recvd, counts>>, s \in paused' <=> s \in paused
        PROVE  Reclaiming(s)'
    BY <2>0, <2>6, ReclaimKept DEF Busy, TypeOK, Threads
  <2>7. ASSUME FlowState
        PROVE  Reclaiming(s)'
    <3>1. CASE frame["router"].stream # s
      BY <2>6, <2>7, <3>1 DEF FlowState, SyncPaused, Goto, TypeOK, Threads, RouterLabels
    <3>2. QED
      BY <2>5, <2>7, <3>1 DEF FlowState
  <2>8. ASSUME pc["router"] \in {"try", "block"}, UNCHANGED <<log, recvd, counts, paused, frame>>,
               NEW l \in RouterLabels, Goto("router", l)
        PROVE  Reclaiming(s)'
    <3>1. CASE frame["router"].stream # s
      BY <2>6, <2>8, <3>1 DEF Goto, TypeOK, Threads, RouterLabels
    <3>2. QED
      BY <2>5, <2>8, <3>1
  <2>9. ASSUME TryDeliver \/ BlockingDeliver \/ Stalled
        PROVE  Reclaiming(s)'
    <3>1. pc["router"] \in {"try", "block"}
      BY <2>9 DEF TryDeliver, BlockingDeliver, Stalled
    <3>2. CASE Delivered
      BY <3>1, <3>2, ReclaimDelivered
    <3>3. CASE ~Delivered
      <4>1. PICK l \in RouterLabels :
                Goto("router", l) /\ UNCHANGED <<log, recvd, counts, paused, frame>>
        BY <2>9, <3>3
        DEF TryDeliver, BlockingDeliver, Stalled, Closed, AfterFailed, RouterLabels
      <4>2. QED
        BY <2>8, <3>1, <4>1
    <3>4. QED
      BY <3>2, <3>3
  <2>10. ASSUME Increment
         PROVE  Reclaiming(s)'
    <3>1. CASE frame["router"].stream = s
      <4>1. ~TerminalDelivered(s)'
        BY <2>0, <2>10, <3>1 DEF Increment, Reclaiming, Busy, TerminalDelivered
      <4>2. QED
        BY <4>1, ReclaimVacuous
    <3>2. CASE frame["router"].stream # s
      <4>1. counts'[s] = counts[s]
        BY <2>10, <3>2 DEF Increment, TypeOK
      <4>2. QED
        BY <2>0, <2>10, <3>2, <4>1, ReclaimKept DEF Increment, Goto, Busy, TypeOK, Threads
    <3>3. QED
      BY <3>1, <3>2
  <2>11. ASSUME NEW t \in Threads, Reread(t)
         PROVE  Reclaiming(s)'
    BY <2>0, <2>11, ReclaimKept DEF Reread, Goto, Busy, TypeOK, Threads
  <2>12. ASSUME NEW t \in Threads, UpdateFlowState(t)
         PROVE  Reclaiming(s)'
    <3>1. /\ log' = log /\ recvd' = recvd /\ counts' = counts /\ frame' = frame
          /\ pc[t] = "update" /\ pc' = [pc EXCEPT ![t] = "idle"]
          /\ frame[t].stream # s => (s \in paused' <=> s \in paused)
      BY <2>12 DEF UpdateFlowState, SyncPaused, Goto
    <3>2. CASE frame[t].stream # s
      BY <2>0, <3>1, <3>2, ReclaimKept DEF Busy, TypeOK, Threads
    <3>3. CASE frame[t].stream = s /\ t = "router"
      <4>1. ~TerminalDelivered(s)'
        BY <2>0, <3>1, <3>3 DEF Reclaiming, Busy, TerminalDelivered
      <4>2. QED
        BY <4>1, ReclaimVacuous
    <3>4. CASE frame[t].stream = s /\ t = "subscriber"
      <4>1. ~TerminalReceived(s)'
        BY <2>0, <3>1, <3>4 DEF Reclaiming, Busy, TerminalReceived
      <4>2. TerminalDelivered(s)' <=> TerminalDelivered(s)
        BY <3>1 DEF TerminalDelivered
      <4>3. \A ls : Busy("router", ls, s)' <=> Busy("router", ls, s)
        BY <3>1, <3>4 DEF Busy, TypeOK, Threads
      <4>4. QED
        BY <2>0, <3>1, <4>1, <4>2, <4>3 DEF Reclaiming
    <3>5. QED
      BY <3>1, <3>2, <3>3, <3>4 DEF Threads, TypeOK, OwnerLabels
  <2>13. ASSUME NEW t \in Threads, RemoveStream(t)
         PROVE  Reclaiming(s)'
    <3>1. /\ counts'[s] \in {0, counts[s]}
          /\ frame[t].stream = s => counts'[s] = 0
      BY <2>13 DEF RemoveStream, TypeOK
    <3>2. QED
      BY <2>0, <2>13, <3>1, ReclaimKept DEF RemoveStream, Goto, Busy, TypeOK, Threads
  <2>14. ASSUME NEW t \in Threads, ResumeStream(t)
         PROVE  Reclaiming(s)'
    BY <2>0, <2>14, ReclaimKept DEF ResumeStream, Goto, Busy, TypeOK, Threads
  <2>15. QED
    BY <2>2, <2>3, <2>4, <2>7, <2>9, <2>10, <2>11, <2>12, <2>13, <2>14,
       ReclaimRecv, ReclaimDecrement
    DEF Next, Call, Sending, Acking, Critical, Threads
<1>3. TypeOK /\ Reclaim => TrackingReclaimed
  BY DEF Reclaim, Reclaiming, TrackingReclaimed, TerminalReceived, TerminalDelivered, Busy,
     TypeOK
<1>4. QED
  BY <1>1, <1>2, <1>3, TypeCorrect, ProtocolCorrect, PTL DEF Spec

-----------------------------------------------------------------------------
(* The controller implements the channel promised to its subscriber.        *)

\* Delivering a frame is accepting it, recv is taking it, dropping the
\* Subscriber closes the channel; every other step leaves the channel alone.
THEOREM Refinement == Spec => ImplementsDeliveryChannel
<1>1. Init => Promised!Init
  BY DEF Init, Promised!Init
<1>2. TypeOK /\ Protocol /\ [Next]_vars => [Promised!Next]_Promised!vars
  <2> SUFFICES ASSUME TypeOK, Protocol, [Next]_vars
               PROVE  [Promised!Next]_Promised!vars
    OBVIOUS
  <2> USE DEF Promised!vars
  <2>1. ASSUME UNCHANGED channel
        PROVE  UNCHANGED Promised!vars
    BY <2>1 DEF channel
  <2>2. ASSUME pc["router"] \in {"try", "block"}, Delivered
        PROVE  Promised!Next
    <3>1. frame["router"] \in Promised!Frames
      BY DEF TypeOK, Threads, Frames, Promised!Frames
    <3>2. Promised!StreamIsOpen(frame["router"])
      BY <2>2 DEF Protocol, DeliveryIsFresh, Promised!StreamIsOpen
    <3>3. Promised!Accept(frame["router"])
      BY <2>2, <3>2 DEF Delivered, HasRoom, Promised!Accept
    <3>4. QED
      BY <3>1, <3>3 DEF Promised!Next
  <2>3. ASSUME TryDeliver \/ BlockingDeliver
        PROVE  [Promised!Next]_Promised!vars
    BY <2>2, <2>3 DEF TryDeliver, BlockingDeliver, Closed
  <2>4. ASSUME Recv
        PROVE  Promised!Next
    BY <2>4 DEF Recv, TypeOK, Promised!Take, Promised!Next
  <2>5. ASSUME DropSubscriber
        PROVE  Promised!Next
    BY <2>5 DEF DropSubscriber, TypeOK, Promised!Close, Promised!Next
  <2>6. ASSUME NEW s \in Streams, SendItem(s) \/ SendTerminal(s) \/ AckStream(s)
        PROVE  UNCHANGED channel
    BY <2>6 DEF SendItem, SendTerminal, AckStream, channel
  <2>7. ASSUME SendUntracked \/ FlowState \/ Stalled \/ Increment \/ Decrement
        PROVE  UNCHANGED channel
    BY <2>7 DEF SendUntracked, FlowState, Stalled, Increment, Decrement, channel
  <2>8. ASSUME NEW t \in Threads, Critical(t)
        PROVE  UNCHANGED channel
    BY <2>8 DEF Critical, Reread, UpdateFlowState, RemoveStream, ResumeStream, channel
  <2>9. UNCHANGED vars => UNCHANGED channel
    BY DEF vars, channel
  <2>10. QED
    BY <2>1, <2>3, <2>4, <2>5, <2>6, <2>7, <2>8, <2>9
    DEF Next, Call, Sending, Acking, Threads
<1>3. QED
  BY <1>1, <1>2, TypeCorrect, ProtocolCorrect, PTL
  DEF Spec, Promised!Spec, ImplementsDeliveryChannel
=============================================================================
