----------------------------- MODULE Pipe_proofs -----------------------------
(***************************************************************************)
(* The properties of Pipe, for every number of calls, ids and frames and   *)
(* every capacity.                                                         *)
(*                                                                         *)
(* A frame is looked up, sent to its stream and its entry removed in three *)
(* steps, between which the streams come and go.  The invariant relates    *)
(* the entry, the frame in the hands of the dispatcher and the stream.     *)
(***************************************************************************)
EXTENDS Pipe, ChannelFacts

Live == {"registered", "streaming", "ended"}
Gone == {"dropped", "failed", "abandoned"}
Started == {"streaming", "ended", "dropping", "dropped"}

-----------------------------------------------------------------------------
(* The map, whether or not ids are used again.                              *)

\* What the dispatcher holds belongs to the call it found.
FoundItsCall == found # None => idOf[found] = current.parent

\* A call that is not made yet has got nothing.
NewIsEmpty == \A c \in Calls : call[c] = "new" => stream[c] = <<>>

\* Once a call was sent a terminal frame its entry is gone, or about to go.
StreamEnds ==
    \A c \in Calls : \A k \in 1 .. Len(stream[c]) :
        stream[c][k].terminal => pending[idOf[c]] # c \/ (dispatcher = "remove" /\ found = c)

MapInv == FoundItsCall /\ NewIsEmpty /\ StreamEnds /\ OnlyAbandonedLeak

-----------------------------------------------------------------------------
(* Ids that are used once.                                                  *)

\* The number of frames taken out of the channel.
Taken == Len(sent) - Len(in)

\* The channel holds the last of the frames sent, each of which has its number.
Numbered ==
    /\ Len(in) <= Len(sent)
    /\ \A k \in 1 .. Len(in) : in[k] = sent[Taken + k]
    /\ \A k \in 1 .. Len(sent) : sent[k].nr = k

Distinct == \A c, d \in Calls : idOf[c] = idOf[d] /\ idOf[c] # None => c = d

IsStarted(i) == \E c \in Calls : idOf[c] = i /\ call[c] \in Started

\* A request on its way to the peer was sent once, and is not answered yet.
OutIsNew ==
    /\ \A k \in 1 .. Len(out) :
          /\ IsStarted(out[k])
          /\ out[k] \notin served
          /\ \A n \in 1 .. Len(sent) : sent[n].parent # out[k]
    /\ \A j, k \in 1 .. Len(out) : out[j] = out[k] => j = k

\* A request the peer serves was sent, and got no terminal answer.
ServedIsOpen ==
    \A i \in served :
        /\ IsStarted(i)
        /\ \A n \in 1 .. Len(sent) : sent[n].parent = i => ~sent[n].terminal

\* An answer belongs to a request that was sent, and nothing of it follows its
\* terminal one.
AnswersEnd ==
    /\ \A n \in 1 .. Len(sent) : sent[n].parent # None => IsStarted(sent[n].parent)
    /\ \A n \in 1 .. Len(sent) : sent[n].terminal => sent[n].parent # None
    /\ \A m, n \in 1 .. Len(sent) :
          m < n /\ sent[m].terminal => sent[n].parent # sent[m].parent

\* The entry of a live call stands until its terminal frame was taken.
EntryStands ==
    dispatcher # "exited" =>
        \A c \in Calls :
            call[c] \in Live =>
                \/ pending[idOf[c]] = c
                \/ \E m \in 1 .. Taken : sent[m].terminal /\ sent[m].parent = idOf[c]

\* The frame in hand was the last one taken.
InHand == found # None => Taken >= 1 /\ current = sent[Taken]

\* Why the dispatcher removes an entry, and that it is on before the first call.
RemovesForAReason ==
    /\ dispatcher = "remove" => current.terminal \/ call[found] \in Gone
    /\ dispatcher = "off" => \A c \in Calls : call[c] = "new"

\* Streams and recv hold frames that were taken, the one in hand not yet.
HeldWereTaken ==
    /\ \A c \in Calls : \A k \in 1 .. Len(stream[c]) :
          stream[c][k].nr <= Taken /\ (dispatcher = "send" => stream[c][k].nr < Taken)
    /\ \A k \in 1 .. Len(default) : default[k].nr <= Taken

OnceInv ==
    /\ Numbered
    /\ Distinct
    /\ OutIsNew
    /\ ServedIsOpen
    /\ AnswersEnd
    /\ EntryStands
    /\ InHand
    /\ RemovesForAReason
    /\ HeldWereTaken
    /\ FramesFindTheirCall

-----------------------------------------------------------------------------
(* Types.                                                                   *)

\* What a frame is made of.
LEMMA FrameFacts ==
    /\ \A n \in Nat : Request(n) \in Frames
                      /\ Request(n).parent = None /\ ~Request(n).terminal /\ Request(n).nr = n
    /\ \A i \in Ids, t \in BOOLEAN, n \in Nat :
          Response(i, t, n) \in Frames /\ Response(i, t, n).parent = i
          /\ Response(i, t, n).terminal = t /\ Response(i, t, n).nr = n
    /\ \A f \in Frames : f.parent \in Ids \cup {None} /\ f.terminal \in BOOLEAN /\ f.nr \in Nat
BY DEF Request, Response, Frames

\* The initial values have their types.
LEMMA InitType == Init => TypeOK
BY NoneIsNone, CapacityIsPositive, FrameFacts
DEF Init, TypeOK, ChannelsType, CallsType, StreamsType, TaskType, EndType, PeerType, CallStates,
    Labels

\* The frames of the channels, whoever puts them in or takes them out.
LEMMA ChannelsTyped == ASSUME TypeOK, Next PROVE ChannelsType'
<1> USE CapacityIsPositive DEF TypeOK, ChannelsType
<1>1. ASSUME NEW c \in Calls, SendRequest(c) PROVE ChannelsType'
  <2>1. idOf[c] \in Ids
      BY <1>1 DEF SendRequest, CallsType
  <2> QED
      BY <1>1, <2>1, AppendFacts DEF SendRequest, peer
<1>2. ASSUME NEW c \in Calls, Caller(c), ~SendRequest(c) PROVE ChannelsType'
  BY <1>2 DEF Caller, Insert, Unregister, Abandon, StreamRecv, DropStream, CloseStream, peer
<1>3. CASE Dispatch \/ EndRecv
  <2>1. in # <<>> /\ in' = Tail(in) /\ UNCHANGED <<out, outOpen, inOpen>>
      BY <1>3 DEF Dispatch, EndRecv, peer
  <2> QED
      BY <2>1, TailFacts
<1>4. CASE SendToStream \/ RemoveEntry \/ RawClosed \/ ClearPending \/ EnsureDispatcher \/ DropEnd
  BY <1>4 DEF SendToStream, RemoveEntry, RawClosed, ClearPending, EnsureDispatcher, DropEnd, peer
<1>5. CASE PeerRecv
  BY <1>5, TailFacts DEF PeerRecv
<1>6. ASSUME NEW f \in Frames, PeerSend(f) PROVE ChannelsType'
  BY <1>6, AppendFacts DEF PeerSend
<1>7. CASE PeerDropSender \/ PeerDropReceiver
  BY <1>7 DEF PeerDropSender, PeerDropReceiver
<1>8. Len(sent) \in Nat
  BY EmptyFacts DEF PeerType
<1>9. CASE PeerRequest \/ \E i \in Ids, t \in BOOLEAN : PeerAnswer(i, t)
  BY <1>6, <1>8, <1>9, FrameFacts DEF PeerRequest, PeerAnswer
<1> QED
  BY <1>1, <1>2, <1>3, <1>4, <1>5, <1>7, <1>9 DEF Next, Dispatcher

\* The map, and the progress of the calls.
LEMMA CallsTyped == ASSUME TypeOK, Next PROVE CallsType'
<1> USE NoneIsNone DEF TypeOK, CallsType, CallStates, Step
<1>1. ASSUME NEW c \in Calls, NEW i \in Ids, Insert(c, i) PROVE CallsType'
  BY <1>1 DEF Insert
<1>2. ASSUME NEW c \in Calls, SendRequest(c) \/ Abandon(c) \/ StreamRecv(c) \/ CloseStream(c)
      PROVE CallsType'
  BY <1>2 DEF SendRequest, Abandon, StreamRecv, CloseStream
<1>3. ASSUME NEW c \in Calls, Unregister(c) \/ DropStream(c) PROVE CallsType'
  BY <1>3 DEF Unregister, DropStream
<1>4. CASE Dispatcher
  BY <1>4 DEF Dispatcher, Dispatch, SendToStream, RemoveEntry, RawClosed, ClearPending
<1>5. CASE EnsureDispatcher \/ EndRecv \/ DropEnd
  BY <1>5 DEF EnsureDispatcher, EndRecv, DropEnd
<1>6. CASE PeerRecv \/ PeerDropSender \/ PeerDropReceiver \/ PeerRequest
           \/ \E i \in Ids, t \in BOOLEAN : PeerAnswer(i, t)
  BY <1>6 DEF PeerRecv, PeerDropSender, PeerDropReceiver, PeerRequest, PeerAnswer, PeerSend
<1> QED
  BY <1>1, <1>2, <1>3, <1>4, <1>5, <1>6 DEF Next, Caller

\* The streams.
LEMMA StreamsTyped == ASSUME TypeOK, Next PROVE StreamsType'
<1> USE DEF TypeOK, StreamsType
<1>0. \A c \in Calls : Len(stream[c]) \in Nat
  BY EmptyFacts
<1>1. ASSUME NEW c \in Calls, StreamRecv(c) PROVE StreamsType'
  BY <1>0, <1>1 DEF StreamRecv
<1>2. ASSUME NEW c \in Calls, Caller(c), ~StreamRecv(c) PROVE StreamsType'
  BY <1>2 DEF Caller, Insert, SendRequest, Unregister, Abandon, DropStream, CloseStream, streams
<1>3. CASE SendToStream
  <2>1. found \in Calls /\ current \in Frames
      BY <1>3 DEF SendToStream, TaskType
  <2>2. /\ Append(stream[found], current) \in Seq(Frames)
        /\ Len(Append(stream[found], current)) = Len(stream[found]) + 1
      BY <2>1, AppendFacts
  <2> QED
      BY <1>0, <1>3, <2>1, <2>2 DEF SendToStream
<1>4. CASE Dispatch \/ RemoveEntry \/ RawClosed \/ ClearPending
  BY <1>4 DEF Dispatch, RemoveEntry, RawClosed, ClearPending, streams
<1>5. CASE EnsureDispatcher \/ EndRecv \/ DropEnd
  BY <1>5 DEF EnsureDispatcher, EndRecv, DropEnd, streams
<1>6. CASE PeerRecv \/ PeerDropSender \/ PeerDropReceiver \/ PeerRequest
           \/ \E i \in Ids, t \in BOOLEAN : PeerAnswer(i, t)
  BY <1>6
  DEF PeerRecv, PeerDropSender, PeerDropReceiver, PeerRequest, PeerAnswer, PeerSend, streams
<1> QED
  BY <1>1, <1>2, <1>3, <1>4, <1>5, <1>6 DEF Next, Dispatcher

\* The dispatcher and the PipeEnd.
LEMMA TaskTyped == ASSUME TypeOK, Next PROVE TaskType' /\ EndType'
<1> USE NoneIsNone DEF TypeOK, TaskType, EndType, Labels, Goto
<1>1. ASSUME NEW c \in Calls, Caller(c) PROVE TaskType' /\ EndType'
  BY <1>1 DEF Caller, Insert, SendRequest, Unregister, Abandon, StreamRecv, DropStream,
              CloseStream, task
<1>2. CASE Dispatch
  <2>1. PICK f : f = Head(in)
      OBVIOUS
  <2>2. f \in Frames
      BY <1>2, <2>1, TailFacts DEF Dispatch, ChannelsType
  <2>3. f.parent \in Ids \cup {None}
      BY <2>2, FrameFacts
  <2>4. f.parent # None => pending[f.parent] \in Calls \cup {None}
      BY <2>3 DEF CallsType
  <2>5. Append(default, f) \in Seq(Frames)
      BY <2>2, AppendFacts
  <2> QED
      BY <1>2, <2>1, <2>2, <2>3, <2>4, <2>5 DEF Dispatch
<1>3. CASE SendToStream \/ RemoveEntry \/ RawClosed \/ ClearPending \/ EnsureDispatcher \/ DropEnd
  BY <1>3 DEF SendToStream, RemoveEntry, RawClosed, ClearPending, EnsureDispatcher, DropEnd, task
<1>4. CASE EndRecv
  BY <1>4, TailFacts, AppendFacts DEF EndRecv, ChannelsType
<1>5. CASE PeerRecv \/ PeerDropSender \/ PeerDropReceiver \/ PeerRequest
           \/ \E i \in Ids, t \in BOOLEAN : PeerAnswer(i, t)
  BY <1>5
  DEF PeerRecv, PeerDropSender, PeerDropReceiver, PeerRequest, PeerAnswer, PeerSend, task
<1> QED
  BY <1>1, <1>2, <1>3, <1>4, <1>5 DEF Next, Dispatcher

\* The peer.
LEMMA PeerTyped == ASSUME TypeOK, Next PROVE PeerType'
<1> USE DEF TypeOK, PeerType
<1>1. ASSUME NEW c \in Calls, Caller(c) PROVE PeerType'
  BY <1>1 DEF Caller, Insert, SendRequest, Unregister, Abandon, StreamRecv, DropStream,
              CloseStream, peer
<1>2. CASE Dispatcher \/ EnsureDispatcher \/ EndRecv \/ DropEnd
  BY <1>2 DEF Dispatcher, Dispatch, SendToStream, RemoveEntry, RawClosed, ClearPending,
              EnsureDispatcher, EndRecv, DropEnd, peer
<1>3. CASE PeerRecv
  BY <1>3, TailFacts DEF PeerRecv, ChannelsType
<1>4. CASE PeerDropSender \/ PeerDropReceiver
  BY <1>4 DEF PeerDropSender, PeerDropReceiver
<1>5. Len(sent) + 1 \in Nat
  BY EmptyFacts
<1>6. CASE PeerRequest
  BY <1>5, <1>6, FrameFacts, AppendFacts DEF PeerRequest, PeerSend
<1>7. ASSUME NEW i \in Ids, NEW t \in BOOLEAN, PeerAnswer(i, t) PROVE PeerType'
  BY <1>5, <1>7, FrameFacts, AppendFacts DEF PeerAnswer, PeerSend
<1> QED
  BY <1>1, <1>2, <1>3, <1>4, <1>6, <1>7 DEF Next

\* Every step keeps the types.
LEMMA TypeStep == TypeOK /\ [Next]_vars => TypeOK'
<1> SUFFICES ASSUME TypeOK, [Next]_vars PROVE TypeOK'
  OBVIOUS
<1>1. CASE Next
  BY <1>1, ChannelsTyped, CallsTyped, StreamsTyped, TaskTyped, PeerTyped DEF TypeOK
<1>2. CASE UNCHANGED vars
  BY <1>2 DEF vars, TypeOK, ChannelsType, CallsType, StreamsType, TaskType, EndType, PeerType
<1> QED
  BY <1>1, <1>2

\* Every reachable state is type-correct: the channels stay within their
\* capacity, an idle dispatcher holds no sender of a stream, and a call has an
\* id exactly once it was made.
THEOREM TypeCorrect == Spec => []TypeOK
BY InitType, TypeStep, PTL DEF Spec

-----------------------------------------------------------------------------
(* The pending map.                                                         *)

\* Who touches the map, the calls, their streams and the dispatcher.
mapped == <<pending, call, idOf, stream, dispatcher, current, found>>

\* Only callers and the dispatcher change the map, the calls and what was found.
LEMMA WhoTouchesTheMap ==
    ASSUME [Next]_vars
    PROVE  (\E c \in Calls : Caller(c)) \/ Dispatcher \/ EnsureDispatcher \/ UNCHANGED mapped
BY DEF Next, vars, mapped, EndRecv, DropEnd, PeerRecv, PeerDropSender, PeerDropReceiver,
       PeerRequest, PeerAnswer, PeerSend, streams, task

\* The dispatcher looks a call up, and what it finds is the call of the frame.
LEMMA LookupFacts ==
    ASSUME TypeOK, OnlyAbandonedLeak, Dispatch, NEW f, f = Head(in),
           f.parent # None, pending[f.parent] # None
    PROVE  /\ f \in Frames /\ f.parent \in Ids
           /\ current' = f /\ found' = pending[f.parent] /\ found' \in Calls
           /\ idOf[found'] = f.parent /\ dispatcher' = "send" /\ default' = default
<1>1. in \in Seq(Frames) /\ in # <<>>
    BY DEF TypeOK, ChannelsType, Dispatch
<1>2. f \in Frames
    BY <1>1, TailFacts
<1>3. f.parent \in Ids
    BY <1>2, FrameFacts
<1>4. pending[f.parent] \in Calls
    BY <1>3 DEF TypeOK, CallsType
<1>5. idOf[pending[f.parent]] = f.parent
    BY <1>3, <1>4 DEF OnlyAbandonedLeak
<1> QED
    BY <1>2, <1>3, <1>4, <1>5 DEF Dispatch, Goto

\* The dispatcher finds no call, and keeps nothing of the frame.
LEMMA StrayFacts ==
    ASSUME TypeOK, Dispatch, NEW f, f = Head(in), f.parent # None => pending[f.parent] = None
    PROVE  /\ UNCHANGED <<pending, call, idOf, streams, current, found>>
           /\ default' = IF endOpen THEN Append(default, f) ELSE default
           /\ dispatcher' = IF endOpen THEN "idle" ELSE "clear"
           /\ dispatcher = "idle" /\ found = None
BY DEF Dispatch, Goto, TypeOK, TaskType, streams

\* Every step keeps FoundItsCall.
LEMMA FoundStep ==
    ASSUME TypeOK, MapInv, [Next]_vars
    PROVE  FoundItsCall'
<1> USE DEF TypeOK, MapInv, FoundItsCall
<1>1. ASSUME NEW c \in Calls, NEW i \in Ids, Insert(c, i) PROVE FoundItsCall'
  <2>1. idOf[c] = None
      BY <1>1 DEF Insert, CallsType
  <2>2. found # c
      BY <2>1, NoneIsNone DEF TaskType
  <2> QED
      BY <1>1, <2>2 DEF Insert, task, TaskType, CallsType
<1>2. ASSUME NEW c \in Calls, Caller(c), \A i \in Ids : ~Insert(c, i) PROVE FoundItsCall'
  BY <1>2
  DEF Caller, SendRequest, Unregister, Abandon, StreamRecv, DropStream, CloseStream, task
<1>3. CASE Dispatch
  <2>1. PICK f : f = Head(in)
      OBVIOUS
  <2>2. CASE f.parent # None /\ pending[f.parent] # None
      BY <1>3, <2>1, <2>2, LookupFacts DEF Dispatch
  <2>3. CASE ~(f.parent # None /\ pending[f.parent] # None)
      BY <1>3, <2>1, <2>3, StrayFacts
  <2> QED
      BY <2>2, <2>3
<1>4. CASE SendToStream \/ RemoveEntry \/ RawClosed \/ ClearPending \/ EnsureDispatcher
  BY <1>4 DEF SendToStream, RemoveEntry, RawClosed, ClearPending, EnsureDispatcher
<1>5. CASE UNCHANGED mapped
  BY <1>5 DEF mapped
<1> QED
  BY <1>1, <1>2, <1>3, <1>4, <1>5, WhoTouchesTheMap DEF Dispatcher

\* Every step keeps NewIsEmpty.
LEMMA NewStep ==
    ASSUME TypeOK, MapInv, [Next]_vars
    PROVE  NewIsEmpty'
<1> USE DEF TypeOK, MapInv, NewIsEmpty
<1>1. ASSUME NEW c \in Calls, Caller(c) PROVE NewIsEmpty'
  <2>1. stream' = stream
      BY <1>1 DEF Caller, Insert, SendRequest, Unregister, Abandon, StreamRecv, DropStream,
                  CloseStream, streams
  <2>2. \A d \in Calls : call'[d] = "new" => call[d] = "new"
      BY <1>1 DEF Caller, Insert, SendRequest, Unregister, Abandon, StreamRecv, DropStream,
                  CloseStream, Step, CallsType
  <2> QED
      BY <2>1, <2>2
<1>2. CASE SendToStream
  <2>1. found \in Calls /\ idOf[found] # None
      BY <1>2, NoneIsNone DEF SendToStream, TaskType, FoundItsCall
  <2>2. call[found] # "new"
      BY <2>1 DEF CallsType
  <2> QED
      BY <1>2, <2>2 DEF SendToStream, StreamsType
<1>3. CASE Dispatch \/ RemoveEntry \/ RawClosed \/ ClearPending \/ EnsureDispatcher
  BY <1>3 DEF Dispatch, RemoveEntry, RawClosed, ClearPending, EnsureDispatcher, streams
<1>4. CASE UNCHANGED mapped
  BY <1>4 DEF mapped
<1> QED
  BY <1>1, <1>2, <1>3, <1>4, WhoTouchesTheMap DEF Dispatcher

\* One entry of the map is replaced.
LEMMA EntryFacts ==
    ASSUME TypeOK, NEW i \in Ids, NEW c, pending' = [pending EXCEPT ![i] = c]
    PROVE  pending'[i] = c /\ \A j \in Ids : j # i => pending'[j] = pending[j]
BY DEF TypeOK, CallsType

\* The dispatcher removes the entry of the call it found.
LEMMA RemoveFacts ==
    ASSUME TypeOK, MapInv, RemoveEntry
    PROVE  /\ UNCHANGED <<call, idOf, streams>>
           /\ found \in Calls /\ idOf[found] \in Ids /\ dispatcher = "remove" /\ dispatcher' = "idle"
           /\ found' = None
           /\ pending'[idOf[found]] = None
           /\ \A j \in Ids : j # idOf[found] => pending'[j] = pending[j]
<1>1. /\ found \in Calls /\ current.parent \in Ids /\ dispatcher = "remove"
      /\ idOf[found] = current.parent
    BY DEF RemoveEntry, TypeOK, TaskType, MapInv, FoundItsCall
<1> QED
    BY <1>1, EntryFacts DEF RemoveEntry, Goto, streams

\* Every step keeps StreamEnds.
LEMMA EndsStep ==
    ASSUME TypeOK, MapInv, [Next]_vars
    PROVE  StreamEnds'
<1> USE DEF StreamEnds
<1>0. \A c \in Calls : (stream[c] # <<>> => idOf[c] \in Ids)
  BY DEF MapInv, NewIsEmpty, TypeOK, CallsType
<1>1. ASSUME NEW c \in Calls, NEW i \in Ids, Insert(c, i) PROVE StreamEnds'
  <2>1. SUFFICES ASSUME NEW d \in Calls, NEW k \in 1 .. Len(stream[d]), stream[d][k].terminal
                 PROVE  pending'[idOf'[d]] # d \/ (dispatcher = "remove" /\ found = d)
      BY <1>1 DEF Insert, streams, task
  <2>2. d # c /\ stream[d] # <<>>
      BY <1>1, <2>1 DEF Insert, MapInv, NewIsEmpty
  <2>3. idOf'[d] = idOf[d] /\ idOf[d] \in Ids
      BY <1>0, <1>1, <2>2 DEF Insert, TypeOK, CallsType
  <2>4. pending'[i] = c /\ (idOf[d] # i => pending'[idOf[d]] = pending[idOf[d]])
      BY <1>1, <2>3, EntryFacts DEF Insert
  <2>5. pending[idOf[d]] # d \/ (dispatcher = "remove" /\ found = d)
      BY <2>1 DEF MapInv
  <2> QED
      BY <2>2, <2>3, <2>4, <2>5
<1>2. ASSUME NEW c \in Calls, SendRequest(c) \/ Abandon(c) \/ StreamRecv(c) \/ CloseStream(c)
      PROVE StreamEnds'
  <2>1. UNCHANGED <<pending, idOf, stream, dispatcher, found>>
      BY <1>2 DEF SendRequest, Abandon, StreamRecv, CloseStream, streams, task
  <2> QED
      BY <2>1 DEF MapInv
<1>3. ASSUME NEW c \in Calls, Unregister(c) \/ DropStream(c) PROVE StreamEnds'
  <2>1. /\ UNCHANGED <<idOf, stream, dispatcher, found>> /\ idOf[c] \in Ids
        /\ pending' = [pending EXCEPT ![idOf[c]] = None]
      BY <1>3 DEF Unregister, DropStream, streams, task, TypeOK, CallsType
  <2>2. \A j \in Ids : pending'[j] = pending[j] \/ pending'[j] = None
      BY <2>1, EntryFacts
  <2> QED
      BY <1>0, <2>1, <2>2, NoneIsNone DEF MapInv
<1>4. CASE Dispatch \/ RawClosed \/ EnsureDispatcher
  <2>1. UNCHANGED <<pending, idOf, stream>> /\ dispatcher # "remove"
      BY <1>4 DEF Dispatch, RawClosed, EnsureDispatcher, streams
  <2> QED
      BY <2>1 DEF MapInv
<1>5. CASE SendToStream
  <2>1. found \in Calls /\ current \in Frames /\ dispatcher = "send"
      BY <1>5 DEF SendToStream, TypeOK, TaskType
  <2>2. UNCHANGED <<pending, idOf>>
      BY <1>5 DEF SendToStream
  <2>3. SUFFICES ASSUME NEW d \in Calls, NEW k \in 1 .. Len(stream'[d]), stream'[d][k].terminal
                 PROVE  pending[idOf[d]] # d \/ (dispatcher' = "remove" /\ found' = d)
      BY <2>2
  <2>4. CASE k \in 1 .. Len(stream[d]) /\ stream'[d][k] = stream[d][k]
      BY <2>1, <2>3, <2>4 DEF MapInv
  <2>5. CASE ~(k \in 1 .. Len(stream[d]) /\ stream'[d][k] = stream[d][k])
    <3>1. d = found /\ stream'[d] = Append(stream[d], current)
        BY <1>5, <2>5 DEF SendToStream, TypeOK, StreamsType
    <3>2. stream'[d][k] = current
        BY <2>1, <2>5, <3>1, AppendFacts DEF TypeOK, StreamsType
    <3> QED
        BY <1>5, <2>3, <3>1, <3>2 DEF SendToStream, Goto
  <2> QED
      BY <2>4, <2>5
<1>6. CASE RemoveEntry
  <2>1. SUFFICES ASSUME NEW d \in Calls, NEW k \in 1 .. Len(stream[d]), stream[d][k].terminal
                 PROVE  pending'[idOf[d]] # d
      BY <1>6, RemoveFacts DEF streams
  <2>2. stream[d] # <<>>
      BY <2>1
  <2>3. idOf[d] \in Ids
      BY <1>0, <2>2
  <2>4. pending[idOf[d]] # d \/ found = d
      BY <2>1 DEF MapInv
  <2> QED
      BY <1>6, <2>3, <2>4, RemoveFacts, NoneIsNone
<1>7. CASE ClearPending
  BY <1>0, <1>7, NoneIsNone DEF ClearPending, streams
<1>8. CASE UNCHANGED mapped
  BY <1>8 DEF mapped, MapInv
<1> QED
  BY <1>1, <1>2, <1>3, <1>4, <1>5, <1>6, <1>7, <1>8, WhoTouchesTheMap DEF Dispatcher, Caller

\* A call whose entry may be in the map.
MayBePending(c) ==
    \/ call[c] \in {"registered", "streaming", "failing"}
    \/ call[c] = "ended" /\ dispatcher = "remove" /\ found = c
    \/ call[c] = "abandoned"

\* Every step keeps OnlyAbandonedLeak.
LEMMA PendingStep ==
    ASSUME TypeOK, MapInv, [Next]_vars
    PROVE  OnlyAbandonedLeak'
<1>0. \A c \in Calls, i \in Ids : pending[i] = c => idOf[c] = i /\ MayBePending(c)
  BY DEF MapInv, OnlyAbandonedLeak, MayBePending
<1>1. SUFFICES ASSUME NEW c \in Calls, NEW i \in Ids, pending'[i] = c
               PROVE  idOf'[c] = i /\ MayBePending(c)'
  BY DEF OnlyAbandonedLeak, MayBePending
<1>2. ASSUME NEW d \in Calls, NEW j \in Ids, Insert(d, j) PROVE idOf'[c] = i /\ MayBePending(c)'
  <2>1. /\ call[d] = "new" /\ call' = [call EXCEPT ![d] = "registered"]
        /\ idOf' = [idOf EXCEPT ![d] = j] /\ UNCHANGED <<dispatcher, found>>
        /\ pending' = [pending EXCEPT ![j] = d]
      BY <1>2 DEF Insert, Step, task
  <2>2. CASE i = j
    <3>1. c = d
        BY <1>1, <2>1, <2>2, EntryFacts
    <3> QED
        BY <2>1, <2>2, <3>1 DEF TypeOK, CallsType, MayBePending
  <2>3. CASE i # j
    <3>1. pending[i] = c
        BY <1>1, <2>1, <2>3, EntryFacts
    <3>2. c # d
        BY <1>0, <2>1, <3>1 DEF MayBePending
    <3> QED
        BY <1>0, <2>1, <3>1, <3>2 DEF MayBePending, TypeOK, CallsType
  <2> QED
      BY <2>2, <2>3
<1>3. ASSUME NEW d \in Calls, SendRequest(d) \/ Abandon(d) \/ CloseStream(d)
      PROVE idOf'[c] = i /\ MayBePending(c)'
  BY <1>0, <1>1, <1>3
  DEF SendRequest, Abandon, CloseStream, Step, task, TypeOK, CallsType, MayBePending
<1>4. ASSUME NEW d \in Calls, StreamRecv(d) PROVE idOf'[c] = i /\ MayBePending(c)'
  <2>1. UNCHANGED <<pending, idOf, dispatcher, found>>
      BY <1>4 DEF StreamRecv, task
  <2>2. pending[i] = c /\ idOf[c] = i /\ MayBePending(c)
      BY <1>0, <1>1, <2>1
  <2>3. CASE c # d \/ UNCHANGED call
    BY <1>4, <2>1, <2>2, <2>3 DEF StreamRecv, Step, MayBePending, TypeOK, CallsType
  <2>4. CASE c = d /\ ~UNCHANGED call
    <3>1. /\ call' = [call EXCEPT ![c] = "ended"]
          /\ \/ got[c] < Len(stream[c]) /\ stream[c][got[c] + 1].terminal
             \/ pending[idOf[c]] # c
        BY <1>4, <2>4 DEF StreamRecv, Step, Fed
    <3>2. Len(stream[c]) \in Nat /\ got[c] \in Nat
        BY EmptyFacts DEF TypeOK, StreamsType
    <3>3. stream[c][got[c] + 1].terminal /\ got[c] + 1 \in 1 .. Len(stream[c])
        BY <2>2, <3>1, <3>2
    <3>4. dispatcher = "remove" /\ found = c
        BY <2>2, <3>3 DEF MapInv, StreamEnds
    <3>5. call'[c] = "ended"
        BY <3>1 DEF TypeOK, CallsType
    <3> QED
        BY <2>1, <2>2, <3>4, <3>5 DEF MayBePending
  <2> QED
      BY <2>3, <2>4
<1>5. ASSUME NEW d \in Calls, Unregister(d) \/ DropStream(d) PROVE idOf'[c] = i /\ MayBePending(c)'
  <2>1. /\ UNCHANGED <<idOf, dispatcher, found>> /\ idOf[d] \in Ids
        /\ pending' = [pending EXCEPT ![idOf[d]] = None]
        /\ call' = [call EXCEPT ![d] = "failed"] \/ call' = [call EXCEPT ![d] = "dropping"]
      BY <1>5 DEF Unregister, DropStream, task, TypeOK, CallsType, Step
  <2>2. i # idOf[d] /\ pending[i] = c
      BY <1>1, <2>1, EntryFacts, NoneIsNone
  <2> QED
      BY <1>0, <2>1, <2>2 DEF MayBePending, TypeOK, CallsType
<1>6. CASE Dispatch \/ SendToStream \/ RawClosed \/ EnsureDispatcher
  <2>1. UNCHANGED <<pending, idOf, call>> /\ dispatcher # "remove"
      BY <1>6 DEF Dispatch, SendToStream, RawClosed, EnsureDispatcher
  <2> QED
      BY <1>0, <1>1, <2>1 DEF MayBePending
<1>7. CASE RemoveEntry
  BY <1>0, <1>1, <1>7, RemoveFacts, NoneIsNone DEF MayBePending
<1>8. CASE ClearPending
  BY <1>1, <1>8, NoneIsNone DEF ClearPending
<1>9. CASE UNCHANGED mapped
  BY <1>0, <1>1, <1>9 DEF mapped, MayBePending
<1> QED
  BY <1>2, <1>3, <1>4, <1>5, <1>6, <1>7, <1>8, <1>9, WhoTouchesTheMap DEF Dispatcher, Caller

\* The map is empty in the beginning.
LEMMA InitMap == Init => MapInv
BY NoneIsNone DEF Init, MapInv, FoundItsCall, NewIsEmpty, StreamEnds, OnlyAbandonedLeak

\* Every step keeps the invariant of the map.
LEMMA MapStep == TypeOK /\ MapInv /\ [Next]_vars => MapInv'
BY FoundStep, NewStep, EndsStep, PendingStep DEF MapInv

\* The invariant of the pending map.
THEOREM MapCorrect == Spec => [](TypeOK /\ MapInv)
<1>1. Init => TypeOK /\ MapInv
  BY InitType, InitMap
<1>2. TypeOK /\ MapInv /\ [Next]_vars => (TypeOK /\ MapInv)'
  BY TypeStep, MapStep
<1> QED
  BY <1>1, <1>2, PTL DEF Spec

\* The entry of a call that was sent or failed is gone when the call is over,
\* whichever of the stream's drop, the failed send and the dispatcher comes
\* first, and whether or not a request is called again.  What is left are the
\* entries of calls abandoned while they waited for room (pipe.rs:188-199,
\* 253-268 and 322-331).
THEOREM OnlyAbandonedLeakCorrect == Spec => []OnlyAbandonedLeak
<1>1. MapInv => OnlyAbandonedLeak
  BY DEF MapInv
<1> QED
  BY <1>1, MapCorrect, PTL

-----------------------------------------------------------------------------
(* Frames and the channel from the peer.                                    *)

\* The frames in a channel that gets one more, or is taken from.
LEMMA HeldFacts ==
    ASSUME NEW q \in Seq(Frames)
    PROVE  /\ \A f \in Frames : Held(Append(q, f)) = Held(q) \cup {f}
           /\ q # <<>> => Held(q) = Held(Tail(q)) \cup {Head(q)}
<1>1. \A p : Held(p) = Elements(p)
  BY DEF Held, Elements
<1> QED
  BY <1>1, ElementsFacts

\* The frames of a call in a channel that gets one more, or is taken from.
LEMMA OfFacts ==
    ASSUME NEW q \in Seq(Frames), NEW p
    PROVE  /\ \A f \in Frames :
                 Of(Append(q, f), p) = Of(q, p) \cup (IF f.parent = p THEN {f} ELSE {})
           /\ q # <<>> =>
                 Of(q, p) = Of(Tail(q), p) \cup (IF Head(q).parent = p THEN {Head(q)} ELSE {})
BY HeldFacts DEF Of

\* How many frames were taken.
LEMMA TakenFacts ==
    ASSUME TypeOK, Numbered
    PROVE  /\ Len(in) \in Nat /\ Len(sent) \in Nat /\ Taken \in 0 .. Len(sent)
           /\ Taken + Len(in) = Len(sent)
           /\ \A k \in 1 .. Len(sent) : sent[k] \in Frames
<1>1. in \in Seq(Frames) /\ sent \in Seq(Frames)
    BY DEF TypeOK, ChannelsType, PeerType
<1> QED
    BY <1>1, EmptyFacts DEF Numbered, Taken

\* A frame is taken: it is the next one that was sent.
LEMMA TakeFacts ==
    ASSUME TypeOK, Numbered, in # <<>>, in' = Tail(in), sent' = sent, NEW f, f = Head(in)
    PROVE  /\ f \in Frames /\ f.nr = Taken + 1 /\ f = sent[Taken + 1]
           /\ Taken + 1 \in 1 .. Len(sent) /\ Taken' = Taken + 1
           /\ Numbered'
           /\ \A p : Of(in, p) = Of(in', p) \cup (IF f.parent = p THEN {f} ELSE {})
<1>1. in \in Seq(Frames)
    BY DEF TypeOK, ChannelsType
<1>2. /\ Len(in) \in Nat \ {0} /\ Len(in') = Len(in) - 1
      /\ \A k \in 1 .. Len(in') : in'[k] = in[k + 1]
      /\ f \in Frames /\ f = in[1]
    BY <1>1, TailFacts
<1>3. Taken' = Taken + 1 /\ Taken + 1 \in 1 .. Len(sent)
    BY <1>2, TakenFacts DEF Taken
<1>4. 1 \in 1 .. Len(in)
    BY <1>2
<1>5. f = sent[Taken + 1]
    BY <1>2, <1>4 DEF Numbered
<1>6. f.nr = Taken + 1
    BY <1>3, <1>5 DEF Numbered
<1>7. Numbered'
  <2>1. Len(in') <= Len(sent)
      BY <1>2, TakenFacts DEF Numbered
  <2>2. ASSUME NEW k \in 1 .. Len(in') PROVE in'[k] = sent[Taken' + k]
    <3>1. k + 1 \in 1 .. Len(in) /\ Taken' + k = Taken + (k + 1)
        BY <1>2, <1>3, TakenFacts
    <3>2. in[k + 1] = sent[Taken + (k + 1)]
        BY <3>1 DEF Numbered
    <3> QED
        BY <1>2, <3>1, <3>2
  <2> QED
      BY <2>1, <2>2 DEF Numbered
<1> QED
    BY <1>1, <1>2, <1>3, <1>5, <1>6, <1>7, OfFacts

\* A frame is sent: nobody has taken it yet.
LEMMA SendFacts ==
    ASSUME TypeOK, Numbered, NEW f \in Frames, f.nr = Len(sent) + 1, PeerSend(f)
    PROVE  /\ Taken' = Taken /\ Len(sent') = Len(sent) + 1
           /\ \A k \in 1 .. Len(sent) : sent'[k] = sent[k]
           /\ sent'[Len(sent) + 1] = f
           /\ Numbered'
           /\ \A p : Of(in', p) = Of(in, p) \cup (IF f.parent = p THEN {f} ELSE {})
           /\ \A p : Of(sent', p) = Of(sent, p) \cup (IF f.parent = p THEN {f} ELSE {})
<1>1. /\ in \in Seq(Frames) /\ sent \in Seq(Frames)
      /\ in' = Append(in, f) /\ sent' = Append(sent, f)
    BY DEF TypeOK, ChannelsType, PeerType, PeerSend
<1>2. /\ Len(in') = Len(in) + 1 /\ Len(sent') = Len(sent) + 1
      /\ \A k \in 1 .. Len(in) : in'[k] = in[k]
      /\ \A k \in 1 .. Len(sent) : sent'[k] = sent[k]
      /\ in'[Len(in) + 1] = f /\ sent'[Len(sent) + 1] = f
    BY <1>1, AppendFacts
<1>3. Taken' = Taken
    BY <1>2, TakenFacts DEF Taken
<1>4. ASSUME NEW k \in 1 .. Len(in') PROVE in'[k] = sent'[Taken + k]
  <2>1. CASE k = Len(in) + 1
      BY <1>2, <2>1, TakenFacts
  <2>2. CASE k # Len(in) + 1
    <3>1. k \in 1 .. Len(in) /\ Taken + k \in 1 .. Len(sent)
        BY <1>2, <2>2, TakenFacts
    <3>2. in[k] = sent[Taken + k]
        BY <3>1 DEF Numbered
    <3> QED
        BY <1>2, <3>1, <3>2
  <2> QED
      BY <2>1, <2>2
<1>5. ASSUME NEW k \in 1 .. Len(sent') PROVE sent'[k].nr = k
  <2>1. CASE k = Len(sent) + 1
      BY <1>2, <2>1
  <2>2. CASE k # Len(sent) + 1
    <3>1. k \in 1 .. Len(sent)
        BY <1>2, <2>2, TakenFacts
    <3> QED
        BY <1>2, <3>1 DEF Numbered
  <2> QED
      BY <2>1, <2>2
<1>6. Len(in') <= Len(sent')
    BY <1>2, TakenFacts DEF Numbered
<1>7. Numbered'
    BY <1>3, <1>4, <1>5, <1>6 DEF Numbered
<1> QED
    BY <1>1, <1>2, <1>3, <1>7, OfFacts

\* The two kinds of frames the peer sends.
LEMMA PeerSends ==
    ASSUME TypeOK, Numbered
    PROVE  /\ PeerRequest => \E f \in Frames :
                 /\ f.nr = Len(sent) + 1 /\ f.parent = None /\ ~f.terminal
                 /\ PeerSend(f) /\ served' = served
           /\ \A i \in Ids, t \in BOOLEAN : PeerAnswer(i, t) => \E f \in Frames :
                 /\ f.nr = Len(sent) + 1 /\ f.parent = i /\ f.terminal = t
                 /\ PeerSend(f) /\ i \in served
                 /\ served' = IF t THEN served \ {i} ELSE served
<1>1. Len(sent) + 1 \in Nat
    BY TakenFacts
<1> QED
    BY <1>1, FrameFacts DEF PeerRequest, PeerAnswer

\* Who sends a frame or takes one.
LEMMA WhoTouchesTheChannel ==
    ASSUME [Next]_vars
    PROVE  \/ Dispatch \/ EndRecv \/ PeerRequest
           \/ \E i \in Ids, t \in BOOLEAN : PeerAnswer(i, t)
           \/ UNCHANGED <<in, sent>>
BY DEF Next, Caller, Dispatcher, vars, Insert, SendRequest, Unregister, Abandon, StreamRecv,
       DropStream, CloseStream, SendToStream, RemoveEntry, RawClosed, ClearPending,
       EnsureDispatcher, DropEnd, PeerRecv, PeerDropSender, PeerDropReceiver, peer

\* Frames are numbered as they are sent, and taken in that order.
LEMMA NumberedStep ==
    ASSUME TypeOK, Numbered, [Next]_vars
    PROVE  Numbered'
<1>1. CASE Dispatch \/ EndRecv
  BY <1>1, TakeFacts DEF Dispatch, EndRecv, peer
<1>2. CASE PeerRequest
  BY <1>2, PeerSends, SendFacts
<1>3. ASSUME NEW i \in Ids, NEW t \in BOOLEAN, PeerAnswer(i, t) PROVE Numbered'
  BY <1>3, PeerSends, SendFacts
<1>4. CASE UNCHANGED <<in, sent>>
  BY <1>4 DEF Numbered, Taken
<1> QED
  BY <1>1, <1>2, <1>3, <1>4, WhoTouchesTheChannel

-----------------------------------------------------------------------------
(* Ids that are used once: who owns what is on its way.                     *)

\* A request that was sent stays sent.
LEMMA StartedStays ==
    ASSUME TypeOK, [Next]_vars, NEW i \in Ids, IsStarted(i)
    PROVE  IsStarted(i)'
<1>1. PICK c \in Calls : idOf[c] = i /\ call[c] \in Started
    BY DEF IsStarted
<1>2. idOf'[c] = i /\ call'[c] \in Started
  <2>1. ASSUME NEW d \in Calls, Caller(d) PROVE idOf'[c] = i /\ call'[c] \in Started
      BY <1>1, <2>1
      DEF Caller, Insert, SendRequest, Unregister, Abandon, StreamRecv, DropStream, CloseStream,
          Step, Started, TypeOK, CallsType
  <2>2. CASE UNCHANGED <<call, idOf>>
      BY <1>1, <2>2
  <2> QED
      BY <2>1, <2>2, WhoTouchesTheMap
      DEF mapped, Dispatcher, Dispatch, SendToStream, RemoveEntry, RawClosed, ClearPending,
          EnsureDispatcher
<1> QED
    BY <1>2 DEF IsStarted

\* A registered call has not been sent.
LEMMA RegisteredIsNotStarted ==
    ASSUME TypeOK, Distinct, NEW c \in Calls, call[c] = "registered"
    PROVE  idOf[c] \in Ids /\ ~IsStarted(idOf[c])
<1>1. idOf[c] \in Ids /\ idOf[c] # None
    BY DEF TypeOK, CallsType
<1>2. ASSUME NEW d \in Calls, idOf[d] = idOf[c], call[d] \in Started PROVE FALSE
    BY <1>1, <1>2 DEF Distinct, Started
<1> QED
    BY <1>1, <1>2 DEF IsStarted

\* A call that is made gets an id of its own.
LEMMA DistinctStep ==
    ASSUME ReuseIds = FALSE, TypeOK, Distinct, [Next]_vars
    PROVE  Distinct'
<1>1. ASSUME NEW c \in Calls, NEW i \in Ids, Insert(c, i) PROVE Distinct'
  <2>1. /\ idOf' = [idOf EXCEPT ![c] = i] /\ \A d \in Calls : idOf[d] # i
      BY <1>1 DEF Insert, Callable
  <2> QED
      BY <2>1 DEF Distinct, TypeOK, CallsType
<1>2. ASSUME NEW c \in Calls, Caller(c), \A i \in Ids : ~Insert(c, i) PROVE Distinct'
  BY <1>2
  DEF Distinct, Caller, SendRequest, Unregister, Abandon, StreamRecv, DropStream, CloseStream
<1>3. CASE UNCHANGED idOf
  BY <1>3 DEF Distinct
<1> QED
  BY <1>1, <1>2, <1>3, WhoTouchesTheMap
  DEF mapped, Dispatcher, Dispatch, SendToStream, RemoveEntry, RawClosed, ClearPending,
      EnsureDispatcher

\* Who sends requests to the peer, and what the peer does with them.
LEMMA WhoTouchesRequests ==
    ASSUME [Next]_vars
    PROVE  \/ \E c \in Calls : SendRequest(c) /\ out' # out /\ UNCHANGED <<served, sent>>
           \/ PeerRecv \/ PeerRequest
           \/ \E i \in Ids, t \in BOOLEAN : PeerAnswer(i, t)
           \/ UNCHANGED <<out, served, sent>>
BY DEF Next, Caller, Dispatcher, vars, Insert, SendRequest, Unregister, Abandon, StreamRecv,
       DropStream, CloseStream, Dispatch, SendToStream, RemoveEntry, RawClosed, ClearPending,
       EnsureDispatcher, EndRecv, DropEnd, PeerDropSender, PeerDropReceiver, peer

\* A request leaves the channel.
LEMMA PeerRecvFacts ==
    ASSUME TypeOK, PeerRecv, NEW h, h = Head(out)
    PROVE  /\ h \in Ids /\ h = out[1] /\ 1 \in 1 .. Len(out)
           /\ served' = served \cup {h} /\ sent' = sent
           /\ \A k \in 1 .. Len(out') : k + 1 \in 1 .. Len(out) /\ out'[k] = out[k + 1]
<1>1. out \in Seq(Ids) /\ out # <<>> /\ out' = Tail(out)
    BY DEF TypeOK, ChannelsType, PeerRecv
<1>2. /\ Len(out) \in Nat \ {0} /\ Len(out') = Len(out) - 1
      /\ \A k \in 1 .. Len(out') : out'[k] = out[k + 1]
      /\ h \in Ids /\ h = out[1]
    BY <1>1, TailFacts
<1> QED
    BY <1>2 DEF PeerRecv

\* The frames sent: those before, and the new one.
LEMMA SentGrows ==
    ASSUME TypeOK, Numbered, NEW f \in Frames, f.nr = Len(sent) + 1, PeerSend(f),
           NEW n \in 1 .. Len(sent')
    PROVE  IF n = Len(sent) + 1 THEN sent'[n] = f
                                ELSE n \in 1 .. Len(sent) /\ sent'[n] = sent[n]
BY SendFacts, TakenFacts

\* Every request on its way has an id.
LEMMA OutFacts ==
    ASSUME TypeOK
    PROVE  Len(out) \in Nat /\ \A k \in 1 .. Len(out) : out[k] \in Ids
BY EmptyFacts DEF TypeOK, ChannelsType

\* A request is sent once, and answered after it was taken.
LEMMA OutStep ==
    ASSUME TypeOK, Numbered, Distinct, OutIsNew, ServedIsOpen, AnswersEnd, [Next]_vars
    PROVE  OutIsNew'
<1>1. ASSUME NEW c \in Calls, SendRequest(c), out' # out, UNCHANGED <<served, sent>>
      PROVE OutIsNew'
  <2>1. PICK r : r = idOf[c]
      OBVIOUS
  <2>2. r \in Ids /\ ~IsStarted(r)
      BY <1>1, <2>1, RegisteredIsNotStarted DEF SendRequest
  <2>3. /\ Len(out) \in Nat /\ Len(out') = Len(out) + 1
        /\ \A k \in 1 .. Len(out) : out'[k] = out[k]
        /\ out'[Len(out) + 1] = r
      BY <1>1, <2>1, <2>2, AppendFacts DEF SendRequest, TypeOK, ChannelsType
  <2>4. IsStarted(r)'
    <3>1. idOf'[c] = r /\ call'[c] = "streaming"
        BY <1>1, <2>1 DEF SendRequest, Step, TypeOK, CallsType
    <3> QED
        BY <3>1 DEF IsStarted, Started
  <2>5. /\ r \notin served
        /\ \A n \in 1 .. Len(sent) : sent[n].parent # r
        /\ \A k \in 1 .. Len(out) : out[k] # r
      BY <2>2, NoneIsNone DEF ServedIsOpen, AnswersEnd, OutIsNew
  <2>6. ASSUME NEW k \in 1 .. Len(out'), NEW i, i = out'[k]
        PROVE  IsStarted(i)' /\ i \notin served /\ \A n \in 1 .. Len(sent) : sent[n].parent # i
    <3>1. CASE k = Len(out) + 1
        BY <2>3, <2>4, <2>5, <2>6, <3>1
    <3>2. CASE k # Len(out) + 1
      <4>1. k \in 1 .. Len(out) /\ i = out[k]
          BY <2>3, <2>6, <3>2
      <4>2. i \in Ids /\ IsStarted(i)
          BY <4>1, OutFacts DEF OutIsNew
      <4> QED
          BY <4>1, <4>2, StartedStays DEF OutIsNew
    <3> QED
        BY <3>1, <3>2
  <2>7. ASSUME NEW j \in 1 .. Len(out'), NEW k \in 1 .. Len(out'), out'[j] = out'[k] PROVE j = k
      BY <2>3, <2>5, <2>7 DEF OutIsNew
  <2> QED
      BY <1>1, <2>6, <2>7 DEF OutIsNew
<1>2. CASE PeerRecv
  <2>1. PICK h : h = Head(out)
      OBVIOUS
  <2>2. ASSUME NEW k \in 1 .. Len(out'), NEW i, i = out'[k]
        PROVE  /\ IsStarted(i)' /\ i \notin served'
               /\ \A n \in 1 .. Len(sent') : sent'[n].parent # i
    <3>1. k + 1 \in 1 .. Len(out) /\ i = out[k + 1] /\ h = out[1] /\ 1 \in 1 .. Len(out)
          /\ served' = served \cup {h} /\ sent' = sent
        BY <1>2, <2>1, <2>2, PeerRecvFacts
    <3>2. i \in Ids /\ IsStarted(i)
        BY <3>1, OutFacts DEF OutIsNew
    <3>3. i # h
        BY <3>1, OutFacts DEF OutIsNew
    <3> QED
        BY <3>1, <3>2, <3>3, StartedStays DEF OutIsNew
  <2>3. ASSUME NEW j \in 1 .. Len(out'), NEW k \in 1 .. Len(out'), out'[j] = out'[k] PROVE j = k
    <3>1. /\ j + 1 \in 1 .. Len(out) /\ out'[j] = out[j + 1]
          /\ k + 1 \in 1 .. Len(out) /\ out'[k] = out[k + 1]
        BY <1>2, <2>1, PeerRecvFacts
    <3>2. j + 1 = k + 1
        BY <2>3, <3>1 DEF OutIsNew
    <3> QED
        BY <3>2
  <2> QED
      BY <2>2, <2>3 DEF OutIsNew
<1>3. ASSUME NEW f \in Frames, f.nr = Len(sent) + 1, PeerSend(f), f.parent \in served \cup {None},
             served' \subseteq served
      PROVE  OutIsNew'
  <2>1. out' = out
      BY <1>3 DEF PeerSend
  <2>2. ASSUME NEW k \in 1 .. Len(out), NEW i, i = out[k]
        PROVE  /\ IsStarted(i)' /\ i \notin served'
               /\ \A n \in 1 .. Len(sent') : sent'[n].parent # i
    <3>1. i \in Ids /\ IsStarted(i) /\ i \notin served
        BY <2>2, OutFacts DEF OutIsNew
    <3>2. f.parent # i
        BY <1>3, <3>1, NoneIsNone
    <3>3. ASSUME NEW n \in 1 .. Len(sent') PROVE sent'[n].parent # i
        BY <1>3, <2>2, <3>2, SentGrows DEF OutIsNew
    <3> QED
        BY <1>3, <3>1, <3>3, StartedStays
  <2> QED
      BY <2>1, <2>2 DEF OutIsNew
<1>4. CASE PeerRequest
  BY <1>3, <1>4, PeerSends
<1>5. ASSUME NEW i \in Ids, NEW t \in BOOLEAN, PeerAnswer(i, t) PROVE OutIsNew'
  BY <1>3, <1>5, PeerSends
<1>6. CASE UNCHANGED <<out, served, sent>>
  <2>1. ASSUME NEW k \in 1 .. Len(out), NEW i, i = out[k] PROVE IsStarted(i)'
      BY <2>1, OutFacts, StartedStays DEF OutIsNew
  <2> QED
      BY <1>6, <2>1 DEF OutIsNew
<1> QED
  BY <1>1, <1>2, <1>4, <1>5, <1>6, WhoTouchesRequests

\* The peer serves what it was sent, until its terminal answer.
LEMMA ServedStep ==
    ASSUME TypeOK, Numbered, Distinct, OutIsNew, ServedIsOpen, AnswersEnd, [Next]_vars
    PROVE  ServedIsOpen'
<1>0. served \subseteq Ids
  BY DEF TypeOK, PeerType
<1>1. CASE UNCHANGED <<served, sent>>
  BY <1>0, <1>1, StartedStays DEF ServedIsOpen
<1>2. CASE PeerRecv
  <2>1. PICK h : h = Head(out)
      OBVIOUS
  <2>2. /\ h \in Ids /\ h = out[1] /\ 1 \in 1 .. Len(out)
        /\ served' = served \cup {h} /\ sent' = sent
      BY <1>2, <2>1, PeerRecvFacts
  <2>3. IsStarted(h) /\ \A n \in 1 .. Len(sent) : sent[n].parent # h
      BY <2>2 DEF OutIsNew
  <2> QED
      BY <1>0, <2>2, <2>3, StartedStays DEF ServedIsOpen
<1>3. ASSUME NEW f \in Frames, f.nr = Len(sent) + 1, PeerSend(f),
             served' \subseteq served, f.terminal => f.parent \notin served'
      PROVE  ServedIsOpen'
  <2>1. ASSUME NEW i \in served', NEW n \in 1 .. Len(sent'), sent'[n].parent = i
        PROVE ~sent'[n].terminal
      BY <1>3, <2>1, SentGrows DEF ServedIsOpen
  <2> QED
      BY <1>0, <1>3, <2>1, StartedStays DEF ServedIsOpen
<1>4. CASE PeerRequest
  BY <1>3, <1>4, PeerSends
<1>5. ASSUME NEW i \in Ids, NEW t \in BOOLEAN, PeerAnswer(i, t) PROVE ServedIsOpen'
  BY <1>3, <1>5, PeerSends
<1> QED
  BY <1>1, <1>2, <1>4, <1>5, WhoTouchesRequests

\* The peer answers what it serves.
LEMMA AnswersStep ==
    ASSUME TypeOK, Numbered, ServedIsOpen, AnswersEnd, [Next]_vars
    PROVE  AnswersEnd'
<1>0. \A n \in 1 .. Len(sent) : sent[n].parent \in Ids \cup {None}
  BY TakenFacts, FrameFacts
<1>1. CASE UNCHANGED sent
  <2>1. ASSUME NEW n \in 1 .. Len(sent), NEW i, i = sent[n].parent, i # None PROVE IsStarted(i)'
      BY <1>0, <2>1, StartedStays DEF AnswersEnd
  <2> QED
      BY <1>1, <2>1 DEF AnswersEnd
<1>2. ASSUME NEW f \in Frames, f.nr = Len(sent) + 1, PeerSend(f),
             f.parent \in served \cup {None}, f.terminal => f.parent # None
      PROVE  AnswersEnd'
  <2>1. ASSUME NEW n \in 1 .. Len(sent'), NEW i, i = sent'[n].parent, i # None PROVE IsStarted(i)'
    <3>1. IsStarted(i)
        BY <1>2, <2>1, SentGrows DEF AnswersEnd, ServedIsOpen
    <3>2. i \in Ids
        BY <1>0, <1>2, <2>1, SentGrows, FrameFacts
    <3> QED
        BY <3>1, <3>2, StartedStays
  <2>2. ASSUME NEW n \in 1 .. Len(sent'), sent'[n].terminal PROVE sent'[n].parent # None
      BY <1>2, <2>2, SentGrows DEF AnswersEnd
  <2>3. ASSUME NEW m \in 1 .. Len(sent'), NEW n \in 1 .. Len(sent'), m < n, sent'[m].terminal
        PROVE  sent'[n].parent # sent'[m].parent
    <3>1. m \in 1 .. Len(sent) /\ sent'[m] = sent[m]
        BY <1>2, <2>3, SendFacts, TakenFacts
    <3>2. CASE n = Len(sent) + 1
      <4>1. sent'[n] = f
          BY <1>2, <3>2, SentGrows
      <4>2. sent[m].parent # None /\ sent[m].parent \notin served
          BY <2>3, <3>1 DEF AnswersEnd, ServedIsOpen
      <4> QED
          BY <1>2, <3>1, <4>1, <4>2
    <3>3. CASE n # Len(sent) + 1
        BY <1>2, <2>3, <3>1, <3>3, SentGrows DEF AnswersEnd
    <3> QED
        BY <3>2, <3>3
  <2> QED
      BY <2>1, <2>2, <2>3 DEF AnswersEnd
<1>3. CASE PeerRequest
  BY <1>2, <1>3, PeerSends
<1>4. ASSUME NEW i \in Ids, NEW t \in BOOLEAN, PeerAnswer(i, t) PROVE AnswersEnd'
  <2>1. i # None
      BY NoneIsNone
  <2> QED
      BY <1>2, <1>4, <2>1, PeerSends
<1> QED
  BY <1>1, <1>3, <1>4, WhoTouchesRequests DEF PeerRecv

-----------------------------------------------------------------------------
(* Ids that are used once: the entry and the frame in hand.                 *)

\* What was taken stays as it is.
LEMMA TakenStays ==
    ASSUME TypeOK, Numbered, [Next]_vars
    PROVE  /\ Taken \in Nat /\ Taken' \in Nat /\ Taken' >= Taken
           /\ \A m \in 1 .. Taken : sent'[m] = sent[m] /\ m \in 1 .. Len(sent)
<1>0. Len(sent) \in Nat /\ Taken \in 0 .. Len(sent)
  BY TakenFacts
<1>1. CASE Dispatch \/ EndRecv
  <2>1. in # <<>> /\ in' = Tail(in) /\ sent' = sent
      BY <1>1 DEF Dispatch, EndRecv, peer
  <2> QED
      BY <1>0, <2>1, TakeFacts
<1>2. CASE PeerRequest
  BY <1>0, <1>2, PeerSends, SendFacts
<1>3. ASSUME NEW i \in Ids, NEW t \in BOOLEAN, PeerAnswer(i, t)
      PROVE  Taken' = Taken /\ \A m \in 1 .. Taken : sent'[m] = sent[m]
  BY <1>0, <1>3, PeerSends, SendFacts
<1>4. CASE UNCHANGED <<in, sent>>
  BY <1>0, <1>4 DEF Taken
<1> QED
  BY <1>0, <1>1, <1>2, <1>3, <1>4, WhoTouchesTheChannel

\* What is said of the frame in the hands of the dispatcher stays true.
LEMMA InHandStep ==
    ASSUME TypeOK, MapInv, Numbered, InHand, [Next]_vars
    PROVE  InHand'
<1>1. CASE Dispatch
  <2>1. PICK f : f = Head(in)
      OBVIOUS
  <2>2. /\ f = sent[Taken + 1] /\ Taken' = Taken + 1 /\ Taken + 1 >= 1 /\ sent' = sent
      BY <1>1, <2>1, TakeFacts, TakenFacts DEF Dispatch, peer
  <2>3. CASE f.parent # None /\ pending[f.parent] # None
      BY <1>1, <2>1, <2>2, <2>3, LookupFacts DEF InHand, MapInv
  <2>4. CASE ~(f.parent # None /\ pending[f.parent] # None)
      BY <1>1, <2>1, <2>4, StrayFacts DEF InHand
  <2> QED
      BY <2>3, <2>4
<1>2. CASE EndRecv
  BY <1>2 DEF EndRecv, InHand, TypeOK, TaskType
<1>3. CASE UNCHANGED <<in, sent>> /\ (found' = found \/ found' = None) /\ UNCHANGED current
  BY <1>3 DEF InHand, Taken
<1>4. CASE UNCHANGED task /\ Taken' = Taken /\ \A m \in 1 .. Taken : sent'[m] = sent[m]
  <2>1. Taken \in Nat
      BY TakenStays
  <2>2. Taken >= 1 => sent'[Taken] = sent[Taken]
      BY <1>4, <2>1
  <2> QED
      BY <1>4, <2>2 DEF InHand, task
<1>5. CASE PeerRequest
  BY <1>4, <1>5, PeerSends, SendFacts, TakenStays DEF PeerSend
<1>6. ASSUME NEW i \in Ids, NEW t \in BOOLEAN, PeerAnswer(i, t) PROVE InHand'
  BY <1>4, <1>6, PeerSends, SendFacts, TakenStays DEF PeerSend
<1>7. ASSUME NEW c \in Calls, Caller(c) PROVE InHand'
  BY <1>3, <1>7
  DEF Caller, Insert, SendRequest, Unregister, Abandon, StreamRecv, DropStream, CloseStream,
      task, peer
<1>8. CASE SendToStream \/ RemoveEntry \/ RawClosed \/ ClearPending \/ EnsureDispatcher \/ DropEnd
           \/ PeerRecv \/ PeerDropSender \/ PeerDropReceiver \/ UNCHANGED vars
  BY <1>3, <1>8
  DEF SendToStream, RemoveEntry, RawClosed, ClearPending, EnsureDispatcher, DropEnd, PeerRecv,
      PeerDropSender, PeerDropReceiver, vars, task, peer
<1> QED
  BY <1>1, <1>2, <1>5, <1>6, <1>7, <1>8 DEF Next, Dispatcher

\* What is said of the way of the dispatcher stays true.
LEMMA ReasonStep ==
    ASSUME TypeOK, MapInv, RemovesForAReason, [Next]_vars
    PROVE  RemovesForAReason'
<1> USE DEF RemovesForAReason
<1>1. ASSUME NEW c \in Calls, Caller(c) PROVE RemovesForAReason'
  <2>1. UNCHANGED <<dispatcher, found, current>>
      BY <1>1 DEF Caller, Insert, SendRequest, Unregister, Abandon, StreamRecv, DropStream,
                  CloseStream, task
  <2>2. dispatcher # "off"
      BY <1>1 DEF Caller, Insert, SendRequest, Unregister, Abandon, StreamRecv, DropStream,
                  CloseStream
  <2>3. \A d \in Calls : call[d] \in Gone => call'[d] \in Gone
      BY <1>1 DEF Caller, Insert, SendRequest, Unregister, Abandon, StreamRecv, DropStream,
                  CloseStream, Step, Gone, TypeOK, CallsType
  <2>4. dispatcher = "remove" => found \in Calls
      BY DEF TypeOK, TaskType
  <2> QED
      BY <2>1, <2>2, <2>3, <2>4
<1>2. CASE SendToStream
  BY <1>2 DEF SendToStream, Goto, Gone
<1>3. CASE Dispatch \/ RemoveEntry \/ RawClosed \/ ClearPending \/ EnsureDispatcher
  BY <1>3 DEF Dispatch, RemoveEntry, RawClosed, ClearPending, EnsureDispatcher, Goto
<1>4. CASE UNCHANGED mapped
  BY <1>4 DEF mapped
<1> QED
  BY <1>1, <1>2, <1>3, <1>4, WhoTouchesTheMap DEF Dispatcher

\* The terminal frame of request i was taken.
EndTaken(i) == \E m \in 1 .. Taken : sent[m].terminal /\ sent[m].parent = i

\* A terminal frame that was taken was taken for good.
LEMMA EndTakenStays ==
    ASSUME TypeOK, Numbered, [Next]_vars, NEW i, EndTaken(i)
    PROVE  EndTaken(i)'
<1>1. PICK m \in 1 .. Taken : sent[m].terminal /\ sent[m].parent = i
    BY DEF EndTaken
<1>2. m \in 1 .. Taken' /\ sent'[m] = sent[m]
    BY TakenStays
<1> QED
    BY <1>1, <1>2 DEF EndTaken

\* The entry of a live call stays.
LEMMA EntryStep ==
    ASSUME ReuseIds = FALSE, TypeOK, MapInv, Numbered, Distinct, InHand, RemovesForAReason,
           EntryStands, [Next]_vars
    PROVE  EntryStands'
<1>0. dispatcher # "exited" =>
          \A c \in Calls : call[c] \in Live => pending[idOf[c]] = c \/ EndTaken(idOf[c])
  BY DEF EntryStands, EndTaken
<1>1. SUFFICES ASSUME dispatcher' # "exited", NEW c \in Calls, call'[c] \in Live,
                      NEW i, i = idOf'[c]
               PROVE  pending'[i] = c \/ EndTaken(i)'
  BY DEF EntryStands, EndTaken
<1>2. CASE /\ dispatcher # "exited" /\ call[c] \in Live /\ idOf[c] = i
           /\ pending[i] = c => pending'[i] = c
  BY <1>0, <1>2, EndTakenStays
<1>3. ASSUME NEW d \in Calls, NEW j \in Ids, Insert(d, j) PROVE pending'[i] = c \/ EndTaken(i)'
  <2>1. /\ call' = [call EXCEPT ![d] = "registered"] /\ \A e \in Calls : idOf[e] # j
        /\ idOf' = [idOf EXCEPT ![d] = j] /\ UNCHANGED dispatcher
        /\ pending' = [pending EXCEPT ![j] = d]
      BY <1>3 DEF Insert, Callable, Step, task
  <2>2. CASE c = d
      BY <1>1, <2>1, <2>2, EntryFacts DEF TypeOK, CallsType
  <2>3. CASE c # d
    <3>1. call[c] \in Live /\ idOf[c] = i /\ i # j
        BY <1>1, <2>1, <2>3 DEF TypeOK, CallsType
    <3>2. i \in Ids
        BY <3>1 DEF TypeOK, CallsType, Live
    <3>3. pending'[i] = pending[i]
        BY <2>1, <3>1, <3>2, EntryFacts
    <3> QED
        BY <1>1, <1>2, <2>1, <3>1, <3>3
  <2> QED
      BY <2>2, <2>3
<1>4. ASSUME NEW d \in Calls, SendRequest(d) \/ Abandon(d) \/ StreamRecv(d) \/ CloseStream(d)
      PROVE pending'[i] = c \/ EndTaken(i)'
  <2>1. UNCHANGED <<pending, idOf, dispatcher>>
      BY <1>4 DEF SendRequest, Abandon, StreamRecv, CloseStream, task
  <2>2. call[c] \in Live
      BY <1>1, <1>4
      DEF SendRequest, Abandon, StreamRecv, CloseStream, Step, Live, TypeOK, CallsType
  <2> QED
      BY <1>1, <1>2, <2>1, <2>2
<1>5. ASSUME NEW d \in Calls, Unregister(d) \/ DropStream(d)
      PROVE pending'[i] = c \/ EndTaken(i)'
  <2>1. /\ UNCHANGED <<idOf, dispatcher>> /\ idOf[d] \in Ids
        /\ pending' = [pending EXCEPT ![idOf[d]] = None]
        /\ call' = [call EXCEPT ![d] = "failed"] \/ call' = [call EXCEPT ![d] = "dropping"]
      BY <1>5 DEF Unregister, DropStream, task, TypeOK, CallsType, Step
  <2>2. c # d /\ call[c] \in Live
      BY <1>1, <2>1 DEF Live, TypeOK, CallsType
  <2>3. idOf[c] = i /\ i \in Ids /\ i # None
      BY <1>1, <2>1, <2>2 DEF Live, TypeOK, CallsType
  <2>4. i # idOf[d]
      BY <2>2, <2>3 DEF Distinct
  <2>5. pending'[i] = pending[i]
      BY <2>1, <2>3, <2>4, EntryFacts
  <2> QED
      BY <1>1, <1>2, <2>1, <2>2, <2>3, <2>5
<1>6. CASE Dispatch \/ SendToStream \/ RawClosed \/ EnsureDispatcher
  <2>1. UNCHANGED <<pending, idOf, call>> /\ dispatcher # "exited"
      BY <1>6 DEF Dispatch, SendToStream, RawClosed, EnsureDispatcher
  <2> QED
      BY <1>1, <1>2, <2>1
<1>7. CASE RemoveEntry
  <2>1. /\ UNCHANGED <<call, idOf>> /\ found \in Calls /\ idOf[found] \in Ids
        /\ dispatcher = "remove"
        /\ \A j \in Ids : j # idOf[found] => pending'[j] = pending[j]
      BY <1>7, RemoveFacts
  <2>2. idOf[c] = i /\ call[c] \in Live /\ i \in Ids /\ i # None
      BY <1>1, <2>1 DEF Live, TypeOK, CallsType
  <2>3. CASE i # idOf[found]
      BY <1>2, <2>1, <2>2, <2>3
  <2>4. CASE i = idOf[found]
    <3>1. c = found
        BY <2>1, <2>2, <2>4 DEF Distinct
    <3>2. current.terminal
        BY <2>1, <2>2, <3>1 DEF RemovesForAReason, Live, Gone
    <3>3. Taken >= 1 /\ current = sent[Taken] /\ current.parent = i
        BY <2>1, <2>4, NoneIsNone DEF InHand, MapInv, FoundItsCall
    <3>4. Taken \in 1 .. Taken
        BY <3>3, TakenStays
    <3>5. EndTaken(i)
        BY <3>2, <3>3, <3>4 DEF EndTaken
    <3> QED
        BY <3>5, EndTakenStays
  <2> QED
      BY <2>3, <2>4
<1>8. CASE ClearPending
  BY <1>1, <1>8 DEF ClearPending, Goto
<1>9. CASE UNCHANGED mapped
  BY <1>1, <1>2, <1>9 DEF mapped
<1> QED
  BY <1>3, <1>4, <1>5, <1>6, <1>7, <1>8, <1>9, WhoTouchesTheMap DEF Dispatcher, Caller

-----------------------------------------------------------------------------
(* Ids that are used once: the streams.                                     *)

\* What streams and recv hold are frames.
LEMMA StreamFacts ==
    ASSUME TypeOK
    PROVE  /\ \A c \in Calls : /\ stream[c] \in Seq(Frames) /\ Len(stream[c]) \in Nat
                               /\ \A k \in 1 .. Len(stream[c]) : stream[c][k].nr \in Nat
           /\ default \in Seq(Frames) /\ Len(default) \in Nat
           /\ \A k \in 1 .. Len(default) : default[k].nr \in Nat
<1>1. /\ \A c \in Calls : stream[c] \in Seq(Frames)
      /\ default \in Seq(Frames)
    BY DEF TypeOK, StreamsType, EndType
<1> QED
    BY <1>1, EmptyFacts, FrameFacts

\* The dispatcher is about to send the frame with the highest number taken.
LEMMA InHandFacts ==
    ASSUME TypeOK, MapInv, Numbered, InHand, SendToStream
    PROVE  /\ found \in Calls /\ current \in Frames /\ current.parent = idOf[found]
           /\ current.nr = Taken /\ dispatcher = "send" /\ dispatcher' # "send"
           /\ dispatcher' # "exited"
           /\ UNCHANGED <<call, idOf, in, sent, default, endOpen, current>>
           /\ Taken' = Taken
           /\ stream' = IF call[found] \in Gone THEN stream
                        ELSE [stream EXCEPT ![found] = Append(@, current)]
<1>1. /\ found \in Calls /\ found # None /\ current \in Frames
      /\ dispatcher = "send" /\ dispatcher' # "send" /\ dispatcher' # "exited"
      /\ UNCHANGED <<call, idOf, in, sent, default, endOpen, current>>
      /\ stream' = IF call[found] \in Gone THEN stream
                   ELSE [stream EXCEPT ![found] = Append(@, current)]
    BY DEF SendToStream, Goto, Gone, TypeOK, TaskType, peer
<1>2. current.parent = idOf[found]
    BY <1>1 DEF MapInv, FoundItsCall
<1>3. Taken >= 1 /\ current = sent[Taken] /\ Taken \in 1 .. Len(sent)
    BY <1>1, TakenFacts DEF InHand
<1>4. current.nr = Taken
    BY <1>3 DEF Numbered
<1>5. Taken' = Taken
    BY <1>1 DEF Taken
<1> QED
    BY <1>1, <1>2, <1>4, <1>5

\* The stream of the call found gets the frame in hand.
LEMMA StreamGets ==
    ASSUME TypeOK, MapInv, Numbered, InHand, SendToStream, call[found] \notin Gone
    PROVE  /\ \A c \in Calls : c # found => stream'[c] = stream[c]
           /\ stream'[found] = Append(stream[found], current)
           /\ Len(stream'[found]) = Len(stream[found]) + 1
           /\ \A k \in 1 .. Len(stream[found]) : stream'[found][k] = stream[found][k]
           /\ stream'[found][Len(stream[found]) + 1] = current
           /\ Held(stream'[found]) = Held(stream[found]) \cup {current}
<1>1. found \in Calls /\ current \in Frames
    BY InHandFacts
<1>2. /\ stream'[found] = Append(stream[found], current)
      /\ \A c \in Calls : c # found => stream'[c] = stream[c]
    BY <1>1, InHandFacts DEF TypeOK, StreamsType
<1>3. stream[found] \in Seq(Frames)
    BY <1>1, StreamFacts
<1> QED
    BY <1>1, <1>2, <1>3, AppendFacts, HeldFacts

\* recv is given the frame that was taken.
LEMMA DefaultGets ==
    ASSUME TypeOK, NEW f \in Frames, default' = Append(default, f)
    PROVE  /\ Len(default') = Len(default) + 1
           /\ \A k \in 1 .. Len(default) : default'[k] = default[k]
           /\ default'[Len(default) + 1] = f
           /\ \A p : Of(default', p) = Of(default, p) \cup (IF f.parent = p THEN {f} ELSE {})
<1>1. default \in Seq(Frames)
    BY StreamFacts
<1> QED
    BY <1>1, AppendFacts, OfFacts

\* What a step of the dispatcher or of recv takes, and whom it is for.
LEMMA DispatchFacts ==
    ASSUME TypeOK, MapInv, Numbered, Dispatch \/ EndRecv
    PROVE  \E f \in Frames :
              /\ f.nr = Taken + 1 /\ f = sent[Taken + 1] /\ Taken' = Taken + 1
              /\ Taken + 1 \in 1 .. Len(sent)
              /\ \A p : Of(in, p) = Of(in', p) \cup (IF f.parent = p THEN {f} ELSE {})
              /\ UNCHANGED <<call, idOf, stream, sent, endOpen>>
              /\ found = None /\ dispatcher \in {"off", "idle"}
              /\ \/ /\ f.parent \in Ids /\ found' \in Calls /\ idOf[found'] = f.parent
                    /\ current' = f /\ dispatcher' = "send" /\ default' = default
                 \/ /\ found' = None /\ dispatcher' # "send" /\ dispatcher' # "exited"
                    /\ default' = IF endOpen THEN Append(default, f) ELSE default
                    /\ f.parent = None \/ pending[f.parent] = None \/ dispatcher = "off"
<1>1. PICK f : f = Head(in)
    OBVIOUS
<1>2. /\ in # <<>> /\ in' = Tail(in)
      /\ UNCHANGED <<call, idOf, stream, sent, endOpen>>
      /\ found = None /\ dispatcher \in {"off", "idle"}
    BY DEF Dispatch, EndRecv, peer, streams, TypeOK, TaskType
<1>3. /\ f \in Frames /\ f.nr = Taken + 1 /\ f = sent[Taken + 1] /\ Taken' = Taken + 1
      /\ Taken + 1 \in 1 .. Len(sent)
      /\ \A p : Of(in, p) = Of(in', p) \cup (IF f.parent = p THEN {f} ELSE {})
    BY <1>1, <1>2, TakeFacts
<1>4. CASE EndRecv
    BY <1>1, <1>2, <1>3, <1>4 DEF EndRecv
<1>5. CASE Dispatch /\ f.parent # None /\ pending[f.parent] # None
    BY <1>1, <1>2, <1>3, <1>5, LookupFacts DEF MapInv
<1>6. CASE Dispatch /\ ~(f.parent # None /\ pending[f.parent] # None)
    BY <1>1, <1>2, <1>3, <1>6, StrayFacts
<1> QED
    BY <1>4, <1>5, <1>6

\* Streams and recv keep what they hold.
LEMMA HeldStep ==
    ASSUME TypeOK, MapInv, Numbered, InHand, HeldWereTaken, [Next]_vars
    PROVE  HeldWereTaken'
<1>0. Taken \in Nat /\ Taken' \in Nat /\ Taken' >= Taken
  BY TakenStays
<1>1. CASE Dispatch \/ EndRecv
  <2>1. PICK f \in Frames :
          /\ f.nr = Taken + 1 /\ Taken' = Taken + 1
          /\ stream' = stream /\ default' \in {default, Append(default, f)}
      BY <1>1, DispatchFacts
  <2>2. \A c \in Calls : \A k \in 1 .. Len(stream[c]) : stream[c][k].nr < Taken'
      BY <1>0, <2>1, StreamFacts DEF HeldWereTaken
  <2>3. \A k \in 1 .. Len(default') : default'[k].nr <= Taken'
    <3>1. CASE default' = default
        BY <1>0, <2>1, <3>1, StreamFacts DEF HeldWereTaken
    <3>2. CASE default' = Append(default, f)
        BY <1>0, <2>1, <3>2, DefaultGets, StreamFacts DEF HeldWereTaken
    <3> QED
        BY <2>1, <3>1, <3>2
  <2>4. \A c \in Calls : \A k \in 1 .. Len(stream[c]) : stream[c][k].nr <= Taken'
      BY <1>0, <2>2, StreamFacts
  <2> QED
      BY <2>1, <2>2, <2>3, <2>4 DEF HeldWereTaken
<1>2. CASE SendToStream
  <2>1. SUFFICES ASSUME NEW c \in Calls, NEW k \in 1 .. Len(stream'[c])
                 PROVE  stream'[c][k].nr <= Taken
      BY <1>2, InHandFacts DEF HeldWereTaken
  <2>2. CASE stream'[c] = stream[c]
      BY <2>1, <2>2 DEF HeldWereTaken
  <2>3. CASE stream'[c] # stream[c]
    <3>1. c = found /\ call[found] \notin Gone
        BY <1>2, <2>3, InHandFacts, StreamGets
    <3>2. CASE k = Len(stream[c]) + 1
        BY <1>0, <1>2, <3>1, <3>2, StreamGets, InHandFacts
    <3>3. CASE k # Len(stream[c]) + 1
      <4>1. k \in 1 .. Len(stream[c]) /\ stream'[c][k] = stream[c][k]
          BY <1>2, <2>1, <3>1, <3>3, StreamGets, StreamFacts
      <4> QED
          BY <4>1 DEF HeldWereTaken
    <3> QED
        BY <3>2, <3>3
  <2> QED
      BY <2>2, <2>3
<1>3. CASE /\ UNCHANGED <<stream, default>> /\ Taken' = Taken
           /\ dispatcher' = "send" => dispatcher = "send"
  BY <1>3 DEF HeldWereTaken
<1>4. CASE PeerRequest
  BY <1>3, <1>4, PeerSends, SendFacts DEF PeerSend, streams, task
<1>5. ASSUME NEW i \in Ids, NEW t \in BOOLEAN, PeerAnswer(i, t) PROVE HeldWereTaken'
  BY <1>3, <1>5, PeerSends, SendFacts DEF PeerSend, streams, task
<1>6. ASSUME NEW c \in Calls, Caller(c) PROVE HeldWereTaken'
  BY <1>3, <1>6
  DEF Caller, Insert, SendRequest, Unregister, Abandon, StreamRecv, DropStream, CloseStream,
      task, peer, streams, Taken
<1>7. CASE RemoveEntry \/ RawClosed \/ ClearPending \/ EnsureDispatcher \/ DropEnd
           \/ PeerRecv \/ PeerDropSender \/ PeerDropReceiver \/ UNCHANGED vars
  BY <1>3, <1>7
  DEF RemoveEntry, RawClosed, ClearPending, EnsureDispatcher, DropEnd, PeerRecv,
      PeerDropSender, PeerDropReceiver, vars, task, peer, streams, Taken, Goto
<1> QED
  BY <1>1, <1>2, <1>4, <1>5, <1>6, <1>7 DEF Next, Dispatcher

-----------------------------------------------------------------------------
(* Ids that are used once: frames find their call.                          *)

\* A sequence in order gets a frame with a higher number.
LEMMA InOrderAppend ==
    ASSUME NEW q \in Seq(Frames), NEW f \in Frames, InOrder(q),
           \A k \in 1 .. Len(q) : q[k].nr < f.nr
    PROVE  InOrder(Append(q, f))
BY AppendFacts DEF InOrder

\* The frames to call c that are in hand.
Hand(c) == IF found = c /\ dispatcher = "send" THEN {current} ELSE {}

\* Frames to c are told apart from the others by its id.
LEMMA ToldIs ==
    /\ \A c \in Calls : CallIsTold(c) <=>
          /\ InOrder(stream[c])
          /\ Of(sent, idOf[c]) = Held(stream[c]) \cup Hand(c) \cup Of(in, idOf[c])
    /\ \A c \in Calls : CallIsTold(c)' <=>
          /\ InOrder(stream'[c])
          /\ Of(sent', idOf'[c]) = Held(stream'[c]) \cup Hand(c)' \cup Of(in', idOf'[c])
BY DEF CallIsTold, Hand

\* Nothing of what the property is about changes but the progress of a call.
LEMMA ToldStays ==
    ASSUME FramesFindTheirCall,
           UNCHANGED <<stream, idOf, sent, in, current, default>>,
           endOpen' => endOpen,
           dispatcher' # "exited" => dispatcher # "exited",
           \/ UNCHANGED <<found, dispatcher>>
           \/ dispatcher # "send" /\ dispatcher' # "send",
           \A c \in Calls : call'[c] \in Live => call[c] \in Live
    PROVE  FramesFindTheirCall'
<1>1. ASSUME NEW c \in Calls, CallIsTold(c) PROVE CallIsTold(c)'
    BY <1>1 DEF CallIsTold
<1>2. EndIsTold => EndIsTold'
    BY DEF EndIsTold
<1> QED
    BY <1>1, <1>2 DEF FramesFindTheirCall, Live

\* A new call is owed nothing: nobody had its id before.
LEMMA ToldWhenNew ==
    ASSUME ReuseIds = FALSE, TypeOK, MapInv, Numbered, AnswersEnd,
           NEW c \in Calls, NEW i \in Ids, Insert(c, i)
    PROVE  CallIsTold(c)'
<1>1. /\ call[c] = "new" /\ \A d \in Calls : idOf[d] # i
      /\ idOf' = [idOf EXCEPT ![c] = i]
      /\ UNCHANGED <<stream, sent, in, found, dispatcher>>
    BY DEF Insert, Callable, peer, streams, task
<1>2. idOf'[c] = i /\ idOf[c] = None
    BY <1>1 DEF TypeOK, CallsType
<1>3. stream[c] = <<>>
    BY <1>1 DEF MapInv, NewIsEmpty
<1>4. found # c
    BY <1>2, NoneIsNone DEF MapInv, FoundItsCall, TypeOK, TaskType
<1>5. ~IsStarted(i)
    BY <1>1 DEF IsStarted
<1>6. \A n \in 1 .. Len(sent) : sent[n].parent # i
    BY <1>5, NoneIsNone DEF AnswersEnd
<1>7. Of(sent, i) = {}
    BY <1>6 DEF Of, Held
<1>8. Of(in, i) = {}
  <2>1. ASSUME NEW k \in 1 .. Len(in) PROVE in[k].parent # i
    <3>1. Taken + k \in 1 .. Len(sent) /\ in[k] = sent[Taken + k]
        BY TakenFacts DEF Numbered
    <3> QED
        BY <1>6, <3>1
  <2> QED
      BY <2>1 DEF Of, Held
<1>9. Held(stream[c]) = {} /\ InOrder(stream[c])
    BY <1>3 DEF Held, InOrder
<1>10. Hand(c)' = {}
    BY <1>1, <1>4 DEF Hand
<1> QED
    BY <1>1, <1>2, <1>7, <1>8, <1>9, <1>10, ToldIs

\* A frame is looked up: it goes to its call, or it is for no call in progress.
LEMMA ToldWhenDispatched ==
    ASSUME TypeOK, MapInv, Numbered, Distinct, AnswersEnd, EntryStands, RemovesForAReason,
           HeldWereTaken, FramesFindTheirCall, Dispatch \/ EndRecv
    PROVE  FramesFindTheirCall'
<1>1. PICK f \in Frames :
          /\ f.nr = Taken + 1 /\ f = sent[Taken + 1] /\ Taken' = Taken + 1
          /\ Taken + 1 \in 1 .. Len(sent)
          /\ \A p : Of(in, p) = Of(in', p) \cup (IF f.parent = p THEN {f} ELSE {})
          /\ UNCHANGED <<call, idOf, stream, sent, endOpen>>
          /\ found = None /\ dispatcher \in {"off", "idle"}
          /\ \/ /\ f.parent \in Ids /\ found' \in Calls /\ idOf[found'] = f.parent
                /\ current' = f /\ dispatcher' = "send" /\ default' = default
             \/ /\ found' = None /\ dispatcher' # "send" /\ dispatcher' # "exited"
                /\ default' = IF endOpen THEN Append(default, f) ELSE default
                /\ f.parent = None \/ pending[f.parent] = None \/ dispatcher = "off"
    BY DispatchFacts
<1>2. ASSUME NEW c \in Calls, call[c] \in Live PROVE CallIsTold(c)'
  <2>1. PICK i : i = idOf[c]
      OBVIOUS
  <2>2. /\ InOrder(stream[c])
        /\ Of(sent, i) = Held(stream[c]) \cup Hand(c) \cup Of(in, i)
        /\ idOf'[c] = i
      BY <1>1, <1>2, <2>1, ToldIs DEF FramesFindTheirCall, Live
  <2>3. Hand(c) = {}
      BY <1>1 DEF Hand
  <2>4. i \in Ids /\ i # None /\ c # None
      BY <1>2, <2>1, NoneIsNone DEF Live, TypeOK, CallsType
  <2>5. Hand(c)' = IF f.parent = i THEN {f} ELSE {}
    <3>1. CASE dispatcher' = "send"
      <4>1. /\ f.parent \in Ids /\ found' \in Calls /\ idOf[found'] = f.parent /\ current' = f
          BY <1>1, <3>1
      <4>2. found' = c <=> f.parent = i
          BY <2>1, <2>4, <4>1 DEF Distinct
      <4> QED
          BY <3>1, <4>1, <4>2 DEF Hand
    <3>2. CASE dispatcher' # "send"
      <4>1. dispatcher # "off"
          BY <1>2 DEF RemovesForAReason, Live
      <4>2. f.parent = None \/ pending[f.parent] = None
          BY <1>1, <3>2, <4>1
      <4>3. ASSUME f.parent = i PROVE FALSE
        <5>1. pending[i] # c
            BY <2>4, <4>2, <4>3
        <5>2. dispatcher # "exited"
            BY <1>1
        <5>3. PICK m \in 1 .. Taken : sent[m].terminal /\ sent[m].parent = i
            BY <1>2, <2>1, <5>1, <5>2 DEF EntryStands
        <5>4. m \in 1 .. Len(sent) /\ m < Taken + 1
            BY <1>1, TakenFacts
        <5>5. sent[Taken + 1].parent # sent[m].parent
            BY <1>1, <5>3, <5>4 DEF AnswersEnd
        <5> QED
            BY <1>1, <4>3, <5>3, <5>5
      <4> QED
          BY <3>2, <4>3 DEF Hand
    <3> QED
        BY <3>1, <3>2
  <2>6. Of(in, i) = Of(in', i) \cup (IF f.parent = i THEN {f} ELSE {})
      BY <1>1
  <2>7. Of(sent, i) = Held(stream[c]) \cup Hand(c)' \cup Of(in', i)
      BY <2>2, <2>3, <2>5, <2>6
  <2>8. stream'[c] = stream[c] /\ sent' = sent
      BY <1>1
  <2> QED
      BY <2>2, <2>7, <2>8, ToldIs
<1>3. ASSUME endOpen' PROVE EndIsTold'
  <2>1. InOrder(default) /\ Of(sent, None) = Of(default, None) \cup Of(in, None)
      BY <1>1, <1>3 DEF FramesFindTheirCall, EndIsTold
  <2>2. Of(in, None) = Of(in', None) \cup (IF f.parent = None THEN {f} ELSE {})
      BY <1>1
  <2>3. CASE default' = default /\ f.parent \in Ids
      BY <1>1, <2>1, <2>2, <2>3, NoneIsNone DEF EndIsTold
  <2>4. CASE default' = Append(default, f)
    <3>1. Of(default', None) = Of(default, None) \cup (IF f.parent = None THEN {f} ELSE {})
        BY <2>4, DefaultGets
    <3>2. \A k \in 1 .. Len(default) : default[k].nr < f.nr
        BY <1>1, TakenFacts, StreamFacts DEF HeldWereTaken
    <3>3. InOrder(default')
        BY <2>1, <2>4, <3>2, InOrderAppend, StreamFacts
    <3>4. Of(sent, None) = Of(default', None) \cup Of(in', None)
        BY <2>1, <2>2, <3>1
    <3> QED
        BY <1>1, <3>3, <3>4 DEF EndIsTold
  <2> QED
      BY <1>1, <1>3, <2>3, <2>4
<1> QED
    BY <1>1, <1>2, <1>3 DEF FramesFindTheirCall, Live

\* The frame in hand goes into the stream of its call, at the end.
LEMMA ToldWhenSent ==
    ASSUME TypeOK, MapInv, Numbered, InHand, HeldWereTaken, FramesFindTheirCall, SendToStream
    PROVE  FramesFindTheirCall'
<1>0. /\ found \in Calls /\ current \in Frames /\ dispatcher = "send" /\ dispatcher' # "send"
      /\ UNCHANGED <<call, idOf, in, sent, default, endOpen>>
      /\ current.nr = Taken
    BY InHandFacts
<1>1. ASSUME NEW c \in Calls, call[c] \in Live PROVE CallIsTold(c)'
  <2>1. /\ InOrder(stream[c])
        /\ Of(sent, idOf[c]) = Held(stream[c]) \cup Hand(c) \cup Of(in, idOf[c])
      BY <1>0, <1>1, ToldIs DEF FramesFindTheirCall, Live
  <2>2. Hand(c)' = {}
      BY <1>0 DEF Hand
  <2>3. CASE c # found
    <3>1. Hand(c) = {}
        BY <2>3 DEF Hand
    <3>2. stream'[c] = stream[c]
        BY <2>3, InHandFacts, StreamGets
    <3> QED
        BY <1>0, <2>1, <2>2, <3>1, <3>2, ToldIs
  <2>4. CASE c = found
    <3>1. call[found] \notin Gone
        BY <1>1, <2>4 DEF Live, Gone
    <3>2. Hand(c) = {current}
        BY <1>0, <2>4 DEF Hand
    <3>3. /\ stream'[c] = Append(stream[c], current)
          /\ Held(stream'[c]) = Held(stream[c]) \cup {current}
        BY <2>4, <3>1, StreamGets
    <3>4. \A k \in 1 .. Len(stream[c]) : stream[c][k].nr < current.nr
        BY <1>0 DEF HeldWereTaken
    <3>5. InOrder(stream'[c])
        BY <1>0, <2>1, <3>3, <3>4, InOrderAppend, StreamFacts
    <3>6. Of(sent, idOf[c]) = Held(stream'[c]) \cup Hand(c)' \cup Of(in, idOf[c])
        BY <2>1, <2>2, <3>2, <3>3
    <3> QED
        BY <1>0, <3>5, <3>6, ToldIs
  <2> QED
      BY <2>3, <2>4
<1>2. EndIsTold => EndIsTold'
    BY <1>0 DEF EndIsTold
<1> QED
    BY <1>0, <1>1, <1>2 DEF FramesFindTheirCall, Live

\* The peer sends a frame: it is in the channel.
LEMMA ToldWhenAnswered ==
    ASSUME TypeOK, Numbered, FramesFindTheirCall,
           NEW f \in Frames, f.nr = Len(sent) + 1, PeerSend(f)
    PROVE  FramesFindTheirCall'
<1>0. /\ \A p : Of(in', p) = Of(in, p) \cup (IF f.parent = p THEN {f} ELSE {})
      /\ \A p : Of(sent', p) = Of(sent, p) \cup (IF f.parent = p THEN {f} ELSE {})
      /\ UNCHANGED <<call, idOf, stream, found, dispatcher, current, default, endOpen>>
    BY SendFacts DEF PeerSend, streams, task
<1>1. ASSUME NEW c \in Calls, CallIsTold(c) PROVE CallIsTold(c)'
  <2>1. PICK i : i = idOf[c]
      OBVIOUS
  <2>2. InOrder(stream[c]) /\ Of(sent, i) = Held(stream[c]) \cup Hand(c) \cup Of(in, i)
      BY <1>1, <2>1, ToldIs
  <2>3. Of(sent', i) = Held(stream[c]) \cup Hand(c) \cup Of(in', i)
      BY <1>0, <2>2
  <2>4. Hand(c)' = Hand(c) /\ idOf'[c] = i
      BY <1>0, <2>1 DEF Hand
  <2> QED
      BY <1>0, <2>2, <2>3, <2>4, ToldIs
<1>2. ASSUME EndIsTold PROVE EndIsTold'
  <2>1. InOrder(default) /\ Of(sent, None) = Of(default, None) \cup Of(in, None)
      BY <1>2 DEF EndIsTold
  <2>2. Of(sent', None) = Of(default, None) \cup Of(in', None)
      BY <1>0, <2>1
  <2> QED
      BY <1>0, <2>1, <2>2 DEF EndIsTold
<1> QED
    BY <1>0, <1>1, <1>2 DEF FramesFindTheirCall

\* Every step keeps FramesFindTheirCall.
LEMMA ToldStep ==
    ASSUME ReuseIds = FALSE, TypeOK, MapInv, OnceInv, [Next]_vars
    PROVE  FramesFindTheirCall'
<1> USE DEF OnceInv
<1>1. ASSUME NEW c \in Calls, NEW i \in Ids, Insert(c, i) PROVE FramesFindTheirCall'
  <2>1. /\ idOf' = [idOf EXCEPT ![c] = i] /\ call' = [call EXCEPT ![c] = "registered"]
        /\ UNCHANGED <<stream, sent, in, found, dispatcher, current, default, endOpen>>
      BY <1>1 DEF Insert, Step, streams, peer, task
  <2>2. ASSUME NEW d \in Calls, d # c, call'[d] \in Live, dispatcher # "exited"
        PROVE  CallIsTold(d)'
    <3>1. call[d] \in Live /\ idOf'[d] = idOf[d]
        BY <2>1, <2>2 DEF TypeOK, CallsType
    <3>2. CallIsTold(d)
        BY <2>2, <3>1 DEF FramesFindTheirCall, Live
    <3> QED
        BY <2>1, <3>1, <3>2 DEF CallIsTold
  <2>3. EndIsTold => EndIsTold'
      BY <2>1 DEF EndIsTold
  <2> QED
      BY <1>1, <2>1, <2>2, <2>3, ToldWhenNew DEF FramesFindTheirCall, Live
<1>2. ASSUME NEW c \in Calls, Caller(c), \A i \in Ids : ~Insert(c, i) PROVE FramesFindTheirCall'
  <2>1. /\ UNCHANGED <<stream, idOf, sent, in, current, default, endOpen, found, dispatcher>>
      BY <1>2
      DEF Caller, SendRequest, Unregister, Abandon, StreamRecv, DropStream, CloseStream,
          streams, peer, task
  <2>2. \A d \in Calls : call'[d] \in Live => call[d] \in Live
      BY <1>2
      DEF Caller, SendRequest, Unregister, Abandon, StreamRecv, DropStream, CloseStream,
          Step, Live, TypeOK, CallsType
  <2> QED
      BY <2>1, <2>2, ToldStays
<1>3. CASE Dispatch \/ EndRecv
  BY <1>3, ToldWhenDispatched
<1>4. CASE SendToStream
  BY <1>4, ToldWhenSent
<1>5. CASE RemoveEntry \/ RawClosed \/ ClearPending \/ EnsureDispatcher \/ DropEnd
           \/ PeerRecv \/ PeerDropSender \/ PeerDropReceiver \/ UNCHANGED vars
  <2>1. UNCHANGED <<stream, idOf, sent, in, current, default, call>> /\ (endOpen' => endOpen)
      BY <1>5
      DEF RemoveEntry, RawClosed, ClearPending, EnsureDispatcher, DropEnd, PeerRecv,
          PeerDropSender, PeerDropReceiver, vars, task, peer, streams
  <2>2. /\ dispatcher' # "exited" => dispatcher # "exited"
        /\ UNCHANGED <<found, dispatcher>> \/ (dispatcher # "send" /\ dispatcher' # "send")
      BY <1>5
      DEF RemoveEntry, RawClosed, ClearPending, EnsureDispatcher, DropEnd, PeerRecv,
          PeerDropSender, PeerDropReceiver, vars, task, Goto
  <2> QED
      BY <2>1, <2>2, ToldStays
<1>6. CASE PeerRequest
  BY <1>6, PeerSends, ToldWhenAnswered
<1>7. ASSUME NEW i \in Ids, NEW t \in BOOLEAN, PeerAnswer(i, t) PROVE FramesFindTheirCall'
  BY <1>7, PeerSends, ToldWhenAnswered
<1> QED
  BY <1>1, <1>2, <1>3, <1>4, <1>5, <1>6, <1>7 DEF Next, Dispatcher

\* There are no frames in the beginning.
LEMMA InitOnce == Init => OnceInv
<1> SUFFICES ASSUME Init PROVE OnceInv
  OBVIOUS
<1>1. /\ sent = <<>> /\ in = <<>> /\ out = <<>> /\ default = <<>> /\ served = {}
      /\ found = None /\ dispatcher = "off"
      /\ \A c \in Calls : stream[c] = <<>> /\ call[c] = "new" /\ idOf[c] = None
  BY DEF Init
<1>2. Numbered /\ Distinct /\ OutIsNew /\ ServedIsOpen /\ AnswersEnd
  BY <1>1 DEF Numbered, Distinct, OutIsNew, ServedIsOpen, AnswersEnd, Taken
<1>3. EntryStands /\ InHand /\ RemovesForAReason /\ HeldWereTaken
  BY <1>1 DEF EntryStands, InHand, RemovesForAReason, HeldWereTaken, Live
<1>4. FramesFindTheirCall
  BY <1>1 DEF FramesFindTheirCall, EndIsTold, InOrder, Of, Held
<1> QED
  BY <1>2, <1>3, <1>4 DEF OnceInv

\* Every step keeps the invariant of the frames.
LEMMA OnceStep ==
    ASSUME ReuseIds = FALSE, TypeOK, MapInv, OnceInv, [Next]_vars
    PROVE  OnceInv'
BY NumberedStep, DistinctStep, OutStep, ServedStep, AnswersStep, EntryStep, InHandStep,
   ReasonStep, HeldStep, ToldStep DEF OnceInv

\* The invariant of the frames, if no request is called twice.
THEOREM OnceCorrect ==
    ASSUME ReuseIds = FALSE
    PROVE  Spec => [](TypeOK /\ MapInv /\ OnceInv)
<1>1. Init => TypeOK /\ MapInv /\ OnceInv
  BY InitType, InitMap, InitOnce
<1>2. (TypeOK /\ MapInv /\ OnceInv) /\ [Next]_vars => (TypeOK /\ MapInv /\ OnceInv)'
  BY TypeStep, MapStep, OnceStep
<1> QED
  BY <1>1, <1>2, PTL DEF Spec

\* If no request is called twice (each has a fresh id: frame.rs), what a call
\* in progress is sent is in its stream, in the hands of the dispatcher or in
\* the channel, complete and in order, and what answers no call is at recv.
THEOREM FramesFindTheirCallCorrect ==
    ASSUME ReuseIds = FALSE
    PROVE  Spec => []FramesFindTheirCall
<1>1. OnceInv => FramesFindTheirCall
  BY DEF OnceInv
<1> QED
  BY <1>1, OnceCorrect, PTL
=============================================================================
