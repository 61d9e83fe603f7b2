-------------------------------- MODULE Pipe --------------------------------
(***************************************************************************)
(* One end of a pipe in dispatched mode (pipe.rs): its Callers and their   *)
(* CallStreams, the dispatcher task, and recv.  The other end is the peer  *)
(* (for a subsystem, the kernel), which takes requests, answers them, sends*)
(* requests of its own, and may go away.                                   *)
(*                                                                         *)
(* The pending map is shared by the Callers, the CallStreams and the       *)
(* dispatcher under a mutex that nobody holds across a send: one step is   *)
(* one critical section, or one operation of a channel.                    *)
(***************************************************************************)
EXTENDS Integers, Sequences

CONSTANTS
    Calls,        \* invocations of Caller::call
    Ids,          \* request ids
    None,         \* no parent_id, no call
    Capacity,     \* of each of the two mpsc channels
    MaxFrames,    \* bound: frames the peer sends
    ReuseIds      \* a request is called again once its stream has ended

ASSUME NoneIsNone         == None \notin Ids \cup Calls
ASSUME CapacityIsPositive == Capacity \in Nat \ {0}
ASSUME BoundIsNat         == MaxFrames \in Nat
ASSUME ReuseIsBoolean     == ReuseIds \in BOOLEAN

\* A frame from the peer: a request (parent None) or a response to a request id.
\* What tells it from the others, its id, is its place among the frames sent.
Frames == [parent : Ids \cup {None}, terminal : BOOLEAN, nr : Nat]
Request(n) == [parent |-> None, terminal |-> FALSE, nr |-> n]
Response(i, t, n) == [parent |-> i, terminal |-> t, nr |-> n]

VARIABLES
    out,        \* channel to the peer: request ids
    outOpen,    \* the peer's receiver exists
    in,         \* channel from the peer
    inOpen,     \* a sender of it exists
    pending,    \* request id -> the call whose stream gets its responses
    call,       \* progress of each call
    idOf,       \* the request id of each call
    stream,     \* history: frames sent into the channel of each CallStream
    got,        \* how many of them its recv returned
    dispatcher, \* step the dispatcher task is about to take
    current,    \* the frame the dispatcher works on
    found,      \* the call whose sender it cloned out of the map
    default,    \* history: frames recv got, or will get, of the PipeEnd
    endOpen,    \* the PipeEnd exists
    served,     \* requests the peer has taken and still answers
    sent        \* history: frames the peer has sent, in order

vars == <<out, outOpen, in, inOpen, pending, call, idOf, stream, got, dispatcher, current,
          found, default, endOpen, served, sent>>
peer == <<outOpen, inOpen, served, sent>>
streams == <<stream, got>>
task == <<dispatcher, current, found, default>>

Init ==
    /\ out = <<>> /\ outOpen = TRUE
    /\ in = <<>> /\ inOpen = TRUE
    /\ pending = [i \in Ids |-> None]
    /\ call = [c \in Calls |-> "new"]
    /\ idOf = [c \in Calls |-> None]
    /\ stream = [c \in Calls |-> <<>>]
    /\ got = [c \in Calls |-> 0]
    /\ dispatcher = "off"
    /\ current = Request(0)
    /\ found = None
    /\ default = <<>>
    /\ endOpen = TRUE
    /\ served = {}
    /\ sent = <<>>

Goto(l) == dispatcher' = l
Step(c, l) == call' = [call EXCEPT ![c] = l]

-----------------------------------------------------------------------------
(* Caller and CallStream.                                                   *)

\* The id of a request not called before, or of one whose stream has ended.
Callable(i) ==
    \A c \in Calls : idOf[c] = i => ReuseIds /\ call[c] \in {"ended", "dropped"}

\* Caller::call registers the stream, under the lock...
Insert(c, i) ==
    /\ dispatcher # "off"
    /\ call[c] = "new"
    /\ Callable(i)
    /\ idOf' = [idOf EXCEPT ![c] = i]
    /\ pending' = [pending EXCEPT ![i] = c]
    /\ Step(c, "registered")
    /\ UNCHANGED <<out, in, streams, task, peer, endOpen>>

\* ... and then sends the request, waiting for room.
SendRequest(c) ==
    /\ call[c] = "registered"
    /\ \/ /\ outOpen
          /\ Len(out) < Capacity
          /\ out' = Append(out, idOf[c])
          /\ Step(c, "streaming")
       \/ /\ ~outOpen
          /\ Step(c, "failing")
          /\ UNCHANGED out
    /\ UNCHANGED <<in, pending, idOf, streams, task, peer, endOpen>>

\* The send failed: the entry is removed and call returns SendFailed.
Unregister(c) ==
    /\ call[c] = "failing"
    /\ pending' = [pending EXCEPT ![idOf[c]] = None]
    /\ Step(c, "failed")
    /\ UNCHANGED <<out, in, idOf, streams, task, peer, endOpen>>

\* The future of a call that waits for room may be dropped (a timeout around
\* it): its receiver goes, its entry stays.
Abandon(c) ==
    /\ call[c] = "registered"
    /\ Step(c, "abandoned")
    /\ UNCHANGED <<out, in, pending, idOf, streams, task, peer, endOpen>>

\* A sender of the stream of c exists: in the map, or cloned by the dispatcher.
Fed(c) == pending[idOf[c]] = c \/ found = c

\* CallStream::recv, to the terminal frame (collect) or to None.
StreamRecv(c) ==
    /\ call[c] = "streaming"
    /\ \/ /\ got[c] < Len(stream[c])
          /\ got' = [got EXCEPT ![c] = @ + 1]
          /\ IF stream[c][got[c] + 1].terminal THEN Step(c, "ended") ELSE UNCHANGED call
       \/ /\ got[c] = Len(stream[c])
          /\ ~Fed(c)
          /\ Step(c, "ended")
          /\ UNCHANGED got
    /\ UNCHANGED <<out, in, pending, idOf, stream, task, peer, endOpen>>

\* Mutant: no Drop for CallStream.
DropWithoutRemove(c) ==
    /\ call[c] \in {"streaming", "ended"}
    /\ Step(c, "dropping")
    /\ UNCHANGED <<out, in, pending, idOf, streams, task, peer, endOpen>>

\* Dropping the CallStream removes its entry, then closes its channel.  An
\* ended stream is dropped too; it may be dropped late.
DropStream(c) ==
    /\ call[c] \in {"streaming", "ended"}
    /\ pending' = [pending EXCEPT ![idOf[c]] = None]
    /\ Step(c, "dropping")
    /\ UNCHANGED <<out, in, idOf, streams, task, peer, endOpen>>

CloseStream(c) ==
    /\ call[c] = "dropping"
    /\ Step(c, "dropped")
    /\ UNCHANGED <<out, in, pending, idOf, streams, task, peer, endOpen>>

-----------------------------------------------------------------------------
(* PipeEnd.                                                                 *)

\* The first caller() hands the receiver of the raw channel to the dispatcher.
EnsureDispatcher ==
    /\ endOpen
    /\ dispatcher = "off"
    /\ Goto("idle")
    /\ UNCHANGED <<out, in, pending, call, idOf, streams, current, found, default, peer, endOpen>>

\* PipeEnd::recv on the raw channel.  (In dispatched mode it takes from the
\* default channel, which is unbounded: nobody else is affected by when it does.)
EndRecv ==
    /\ endOpen
    /\ dispatcher = "off"
    /\ in # <<>>
    /\ in' = Tail(in)
    /\ default' = Append(default, Head(in))
    /\ UNCHANGED <<out, pending, call, idOf, streams, dispatcher, current, found, endOpen, peer>>

\* The PipeEnd is dropped; Callers may outlive it.
DropEnd ==
    /\ endOpen
    /\ dispatcher # "off"
    /\ endOpen' = FALSE
    /\ UNCHANGED <<out, in, pending, call, idOf, streams, task, peer>>

-----------------------------------------------------------------------------
(* run_dispatcher.                                                          *)

\* A frame is taken and its stream looked up; without one it goes to the
\* default channel, and the task exits if the PipeEnd is gone.
Dispatch ==
    LET f == Head(in)
        c == IF f.parent = None THEN None ELSE pending[f.parent]
    IN  /\ dispatcher = "idle"
        /\ in # <<>>
        /\ in' = Tail(in)
        /\ IF c # None
           THEN /\ current' = f
                /\ found' = c
                /\ Goto("send")
                /\ UNCHANGED default
           ELSE /\ default' = IF endOpen THEN Append(default, f) ELSE default
                /\ Goto(IF endOpen THEN "idle" ELSE "clear")
                /\ UNCHANGED <<current, found>>
        /\ UNCHANGED <<out, pending, call, idOf, streams, peer, endOpen>>

\* Mutant: the entry is removed after any frame.
SendOnceToStream ==
    LET failed == call[found] \in {"dropped", "failed", "abandoned"}
    IN  /\ dispatcher = "send"
        /\ stream' = IF failed THEN stream
                     ELSE [stream EXCEPT ![found] = Append(@, current)]
        /\ Goto("remove")
        /\ UNCHANGED <<out, in, pending, call, idOf, got, current, found, default, peer, endOpen>>

\* The lock is not held while the frame is sent to the stream found before.
SendToStream ==
    LET failed == call[found] \in {"dropped", "failed", "abandoned"}
        cleanup == current.terminal \/ failed
    IN  /\ dispatcher = "send"
        /\ stream' = IF failed THEN stream
                     ELSE [stream EXCEPT ![found] = Append(@, current)]
        /\ Goto(IF cleanup THEN "remove" ELSE "idle")
        /\ found' = IF cleanup THEN found ELSE None
        /\ UNCHANGED <<out, in, pending, call, idOf, got, current, default, peer, endOpen>>

RemoveEntry ==
    /\ dispatcher = "remove"
    /\ pending' = [pending EXCEPT ![current.parent] = None]
    /\ found' = None
    /\ Goto("idle")
    /\ UNCHANGED <<out, in, call, idOf, streams, current, default, peer, endOpen>>

\* Mutant: the task stops for a closed channel with a frame in its hands.
RawClosedEarly ==
    /\ dispatcher \in {"idle", "send"}
    /\ in = <<>>
    /\ ~inOpen
    /\ Goto("clear")
    /\ UNCHANGED <<out, in, pending, call, idOf, streams, current, found, default, peer, endOpen>>

\* The raw channel is closed and drained.
RawClosed ==
    /\ dispatcher = "idle"
    /\ in = <<>>
    /\ ~inOpen
    /\ Goto("clear")
    /\ UNCHANGED <<out, in, pending, call, idOf, streams, current, found, default, peer, endOpen>>

\* Mutant: the task exits without clearing the map.
ExitUncleared ==
    /\ dispatcher = "clear"
    /\ Goto("exited")
    /\ UNCHANGED <<out, in, pending, call, idOf, streams, current, found, default, peer, endOpen>>

\* Before it exits the task drops every sender, to wake the streams up.
ClearPending ==
    /\ dispatcher = "clear"
    /\ pending' = [i \in Ids |-> None]
    /\ Goto("exited")
    /\ UNCHANGED <<out, in, call, idOf, streams, current, found, default, peer, endOpen>>

Dispatcher == Dispatch \/ SendToStream \/ RemoveEntry \/ RawClosed \/ ClearPending

-----------------------------------------------------------------------------
(* The peer.                                                                *)

PeerRecv ==
    /\ outOpen
    /\ out # <<>>
    /\ out' = Tail(out)
    /\ served' = served \cup {Head(out)}
    /\ UNCHANGED <<in, pending, call, idOf, streams, task, endOpen, outOpen, inOpen, sent>>

PeerSend(f) ==
    /\ inOpen
    /\ dispatcher # "exited"
    /\ Len(sent) < MaxFrames
    /\ Len(in) < Capacity
    /\ in' = Append(in, f)
    /\ sent' = Append(sent, f)
    /\ UNCHANGED <<out, pending, call, idOf, streams, task, endOpen, outOpen, inOpen>>

PeerRequest ==
    /\ PeerSend(Request(Len(sent) + 1))
    /\ UNCHANGED served

\* An answer to a request the peer has taken, which gets nothing after its
\* terminal answer, unless it is sent again.
PeerAnswer(i, t) ==
    /\ i \in served
    /\ PeerSend(Response(i, t, Len(sent) + 1))
    /\ served' = IF t THEN served \ {i} ELSE served

\* The peer goes away.  Its senders are cloned (PipeEnd::sender), so that they
\* may outlive its receiver, or the other way round.
PeerDropSender ==
    /\ inOpen
    /\ inOpen' = FALSE
    /\ UNCHANGED <<out, in, pending, call, idOf, streams, task, endOpen, outOpen, served, sent>>

PeerDropReceiver ==
    /\ outOpen
    /\ outOpen' = FALSE
    /\ UNCHANGED <<out, in, pending, call, idOf, streams, task, endOpen, inOpen, served, sent>>

-----------------------------------------------------------------------------
Caller(c) ==
    \/ \E i \in Ids : Insert(c, i)
    \/ SendRequest(c) \/ Unregister(c) \/ Abandon(c) \/ StreamRecv(c) \/ DropStream(c) \/ CloseStream(c)

Next ==
    \/ Dispatcher
    \/ \E c \in Calls : Caller(c)
    \/ EnsureDispatcher \/ EndRecv \/ DropEnd
    \/ PeerRecv \/ PeerDropSender \/ PeerDropReceiver
    \/ PeerRequest
    \/ \E i \in Ids, t \in BOOLEAN : PeerAnswer(i, t)

Spec == Init /\ [][Next]_vars

\* The dispatcher's task is scheduled, and a call that failed cleans up.
FairSpec == Spec /\ WF_vars(Dispatcher) /\ \A c \in Calls : WF_vars(Unregister(c))
-----------------------------------------------------------------------------
Labels == {"off", "idle", "send", "remove", "clear", "exited"}
CallStates == {"new", "registered", "streaming", "failing", "failed", "abandoned", "ended",
               "dropping", "dropped"}

\* Types, the bounds of the channels, and what the dispatcher holds at each step.
ChannelsType ==
    /\ out \in Seq(Ids) /\ Len(out) <= Capacity
    /\ in \in Seq(Frames) /\ Len(in) <= Capacity
    /\ outOpen \in BOOLEAN /\ inOpen \in BOOLEAN

CallsType ==
    /\ pending \in [Ids -> Calls \cup {None}]
    /\ call \in [Calls -> CallStates]
    /\ idOf \in [Calls -> Ids \cup {None}]
    /\ \A c \in Calls : idOf[c] = None <=> call[c] = "new"

StreamsType ==
    /\ stream \in [Calls -> Seq(Frames)]
    /\ got \in [Calls -> Nat]
    /\ \A c \in Calls : got[c] <= Len(stream[c])

TaskType ==
    /\ dispatcher \in Labels
    /\ current \in Frames
    /\ found \in Calls \cup {None}
    /\ found # None <=> dispatcher \in {"send", "remove"}
    /\ dispatcher \in {"send", "remove"} => current.parent \in Ids

EndType ==
    /\ default \in Seq(Frames)
    /\ endOpen \in BOOLEAN

PeerType ==
    /\ served \subseteq Ids
    /\ sent \in Seq(Frames)

TypeOK == ChannelsType /\ CallsType /\ StreamsType /\ TaskType /\ EndType /\ PeerType

\* The frames q holds, those with parent p, and that they are as they were sent.
Held(q) == {q[k] : k \in 1 .. Len(q)}
Of(q, p) == {f \in Held(q) : f.parent = p}
InOrder(q) == \A j, k \in 1 .. Len(q) : j < k => q[j].nr < q[k].nr

\* Frames to a call that is not over: each is in its stream, in the hands of the
\* dispatcher, or still in the channel.
CallIsTold(c) ==
    /\ InOrder(stream[c])
    /\ Of(sent, idOf[c]) =
          Held(stream[c])
              \cup (IF found = c /\ dispatcher = "send" THEN {current} ELSE {})
              \cup Of(in, idOf[c])

EndIsTold ==
    /\ InOrder(default)
    /\ Of(sent, None) = Of(default, None) \cup Of(in, None)

\* What a call is sent arrives in its stream, in order and complete, and what
\* answers no call arrives at recv: the lookup, the send and the removal of an
\* entry are separate critical sections, but no frame of a live call is ever
\* surfaced as a stray, given to another call, or lost with its entry.
FramesFindTheirCall ==
    /\ \A c \in Calls :
          call[c] \in {"registered", "streaming", "ended"} /\ dispatcher # "exited" => CallIsTold(c)
    /\ endOpen => EndIsTold

\* The only dead entries of the pending map are those of calls abandoned while
\* they waited for room: every other entry belongs to a call in progress, or is
\* the one the dispatcher is about to remove.  pipe.rs:222-224 and 285-287 say
\* that the map does not accumulate entries of abandoned calls; it does, as no
\* frame ever answers a request that was not sent (pipe.rs:192).
OnlyAbandonedLeak ==
    \A c \in Calls, i \in Ids :
        pending[i] = c =>
            /\ idOf[c] = i
            /\ \/ call[c] \in {"registered", "streaming", "failing"}
               \/ call[c] = "ended" /\ dispatcher = "remove" /\ found = c
               \/ call[c] = "abandoned"

\* If the pipe closes, every call in flight loses its sender: its stream wakes
\* up with None once it has read what was sent.
StreamsWakeUp ==
    \A c \in Calls :
        call[c] = "streaming" /\ ~inOpen /\ dispatcher \notin {"off", "exited"}
            ~> call[c] # "streaming" \/ ~Fed(c)

\* What the comment on the exit of the dispatcher says (334-335): CallStreams in
\* flight wake up instead of hanging forever.  A stream whose sender is still
\* in the map when the dispatcher is gone never does.
NoStreamHangs ==
    dispatcher = "exited" => \A c \in Calls : call[c] = "streaming" => ~Fed(c)
=============================================================================
