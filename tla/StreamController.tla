-------------------------- MODULE StreamController --------------------------
(***************************************************************************)
(* One subscriber channel and its flow control (backpressure.rs).          *)
(*                                                                         *)
(* Three threads touch the controller: the router task, which sends; the   *)
(* subscriber's task, whose recv acknowledges each frame; and an owner of  *)
(* the controller that may call ack_stream.  The buffered counts and the   *)
(* paused set are guarded by two different mutexes, and no operation holds *)
(* both: every step below is the critical section of one of the two, or    *)
(* one operation of the mpsc channel, so that the model interleaves the    *)
(* threads wherever the code can.                                          *)
(***************************************************************************)
EXTENDS Integers, Sequences, FiniteSets

CONSTANTS
    Streams,        \* ids of the response streams (parent_id of their frames)
    Untracked,      \* stands for parent_id = None
    Capacity,       \* size of the mpsc channel
    HighWatermark,
    LowWatermark,
    MaxItems,       \* bound: non-terminal frames sent per stream
    MaxUntracked,   \* bound: frames without parent_id sent
    AckedStreams    \* bound: streams on which ack_stream is called, once each

ASSUME UntrackedIsNoStream == Untracked \notin Streams
ASSUME CapacityIsPositive  == Capacity \in Nat \ {0}
ASSUME WatermarksAreSizes  == HighWatermark \in Nat /\ LowWatermark \in Nat
ASSUME BoundsAreNat        == MaxItems \in Nat /\ MaxUntracked \in Nat
ASSUME AckedAreStreams     == AckedStreams \subseteq Streams

Frames == [stream : Streams \cup {Untracked}, terminal : BOOLEAN]

Item(s) == [stream |-> s, terminal |-> FALSE]
Terminal(s) == [stream |-> s, terminal |-> TRUE]

Threads == {"router", "subscriber", "owner"}

VARIABLES
    log,     \* history: the frames the channel accepted, in order
    recvd,   \* how many of them the subscriber has received
    open,    \* the receiving half of the channel exists
    counts,  \* buffered count of each stream, 0 when it has no entry
    paused,  \* the streams on the slow path
    pc,      \* the step each thread is about to take
    frame,   \* the frame (or stream) each thread is working on
    seen,    \* the count each thread read and has not used yet, else 0
    sent,    \* bound: frames handed to send so far, per stream
    ended,   \* streams whose terminal frame was handed to send
    acked    \* streams on which ack_stream was called

channel == <<log, recvd, open>>
vars == <<log, recvd, open, counts, paused, pc, frame, seen, sent, ended, acked>>

Init ==
    /\ log = <<>>
    /\ recvd = 0
    /\ open = TRUE
    /\ counts = [s \in Streams |-> 0]
    /\ paused = {}
    /\ pc = [t \in Threads |-> "idle"]
    /\ frame = [t \in Threads |-> Item(Untracked)]
    /\ seen = [t \in Threads |-> 0]
    /\ sent = [s \in Streams \cup {Untracked} |-> 0]
    /\ ended = {}
    /\ acked = {}

Goto(t, l) == pc' = [pc EXCEPT ![t] = l]

\* Mutant: a channel one frame too large.
HasRoomOffByOne == Len(log) - recvd <= Capacity

HasRoom == Len(log) - recvd < Capacity

\* Whether s is paused once the paused set is synchronised with count n:
\* entered at the high watermark, left at the low one.
PausedAt(s, n) == IF s \in paused THEN n > LowWatermark ELSE n >= HighWatermark

SyncPaused(s, n) == paused' = IF PausedAt(s, n) THEN paused \cup {s} ELSE paused \ {s}

-----------------------------------------------------------------------------
(* StreamController::send, called by the router.  Its caller sends nothing  *)
(* of a stream after that stream's terminal frame (see Router).             *)

\* An item: flow_state begins by reading the count, under the counts lock.
SendItem(s) ==
    /\ pc["router"] = "idle"
    /\ s \notin ended
    /\ sent[s] < MaxItems
    /\ sent' = [sent EXCEPT ![s] = @ + 1]
    /\ frame' = [frame EXCEPT !["router"] = Item(s)]
    /\ seen' = [seen EXCEPT !["router"] = counts[s]]
    /\ Goto("router", "decide")
    /\ UNCHANGED <<log, recvd, open, counts, paused, ended, acked>>

SendTerminal(s) ==
    /\ pc["router"] = "idle"
    /\ s \notin ended
    /\ ended' = ended \cup {s}
    /\ frame' = [frame EXCEPT !["router"] = Terminal(s)]
    /\ Goto("router", "try")
    /\ UNCHANGED <<log, recvd, open, counts, paused, seen, sent, acked>>

\* A frame without parent_id bypasses flow control.
SendUntracked ==
    /\ pc["router"] = "idle"
    /\ sent[Untracked] < MaxUntracked
    /\ sent' = [sent EXCEPT ![Untracked] = @ + 1]
    /\ frame' = [frame EXCEPT !["router"] = Item(Untracked)]
    /\ Goto("router", "try")
    /\ UNCHANGED <<log, recvd, open, counts, paused, seen, ended, acked>>

\* The rest of flow_state: the paused set is read and updated with the count
\* read before, and the answer picks the delivery path.
FlowState ==
    LET s == frame["router"].stream
        n == seen["router"]
    IN  /\ pc["router"] = "decide"
        /\ SyncPaused(s, n)
        /\ Goto("router", IF PausedAt(s, n) THEN "block" ELSE "try")
        /\ seen' = [seen EXCEPT !["router"] = 0]
        /\ UNCHANGED <<log, recvd, open, counts, frame, sent, ended, acked>>

\* Mutant: send forgets to count a delivered item.
AfterDeliveredUncounted(f) ==
    IF f.stream = Untracked THEN "idle" ELSE IF f.terminal THEN "remove" ELSE "reread"

\* Where send goes on once a delivery has succeeded, or failed.
AfterDelivered(f) ==
    IF f.stream = Untracked THEN "idle" ELSE IF f.terminal THEN "remove" ELSE "increment"
AfterFailed(f) ==
    IF f.stream # Untracked /\ f.terminal THEN "remove" ELSE "idle"

Delivered ==
    /\ open
    /\ HasRoom
    /\ log' = Append(log, frame["router"])
    /\ Goto("router", AfterDelivered(frame["router"]))
    /\ UNCHANGED <<recvd, open, counts, paused, frame, seen, sent, ended, acked>>

Closed ==
    /\ ~open
    /\ Goto("router", AfterFailed(frame["router"]))
    /\ UNCHANGED <<log, recvd, open, counts, paused, frame, seen, sent, ended, acked>>

\* try_deliver: a full channel falls back to the blocking path.
TryDeliver ==
    /\ pc["router"] = "try"
    /\ \/ Delivered
       \/ Closed
       \/ /\ open
          /\ ~HasRoom
          /\ Goto("router", "block")
          /\ UNCHANGED <<log, recvd, open, counts, paused, frame, seen, sent, ended, acked>>

\* blocking_deliver, up to its timeout.
BlockingDeliver ==
    /\ pc["router"] = "block"
    /\ Delivered \/ Closed

\* Mutant: the timeout bounds the paused path only, not the fallback.
StalledOnlyIfPaused ==
    /\ pc["router"] = "block"
    /\ open
    /\ ~HasRoom
    /\ frame["router"].stream \in paused
    /\ Goto("router", AfterFailed(frame["router"]))
    /\ UNCHANGED <<log, recvd, open, counts, paused, frame, seen, sent, ended, acked>>

\* stall_timeout has run out with the channel still full: the frame is lost.
Stalled ==
    /\ pc["router"] = "block"
    /\ open
    /\ ~HasRoom
    /\ Goto("router", AfterFailed(frame["router"]))
    /\ UNCHANGED <<log, recvd, open, counts, paused, frame, seen, sent, ended, acked>>

Increment ==
    /\ pc["router"] = "increment"
    /\ counts' = [counts EXCEPT ![frame["router"].stream] = @ + 1]
    /\ Goto("router", "reread")
    /\ UNCHANGED <<log, recvd, open, paused, frame, seen, sent, ended, acked>>

-----------------------------------------------------------------------------
(* Subscriber::recv: the frame leaves the channel, then ack_frame runs.     *)

\* Mutant: recv does not acknowledge items.
RecvWithoutDecrement ==
    LET f == log[recvd + 1]
    IN  /\ pc["subscriber"] = "idle"
        /\ recvd < Len(log)
        /\ recvd' = recvd + 1
        /\ frame' = [frame EXCEPT !["subscriber"] = f]
        /\ Goto("subscriber", IF f.stream = Untracked THEN "idle"
                              ELSE IF f.terminal THEN "remove" ELSE "reread")
        /\ UNCHANGED <<log, open, counts, paused, seen, sent, ended, acked>>

Recv ==
    LET f == log[recvd + 1]
    IN  /\ pc["subscriber"] = "idle"
        /\ recvd < Len(log)
        /\ recvd' = recvd + 1
        /\ frame' = [frame EXCEPT !["subscriber"] = f]
        /\ Goto("subscriber", IF f.stream = Untracked THEN "idle"
                              ELSE IF f.terminal THEN "remove" ELSE "decrement")
        /\ UNCHANGED <<log, open, counts, paused, seen, sent, ended, acked>>

\* Mutant: decrement without the check for a missing entry.
DecrementUnguarded ==
    /\ pc["subscriber"] = "decrement"
    /\ counts' = [counts EXCEPT ![frame["subscriber"].stream] = @ - 1]
    /\ Goto("subscriber", "reread")
    /\ UNCHANGED <<log, recvd, open, paused, frame, seen, sent, ended, acked>>

\* decrement: nothing to do without an entry, the entry goes when it reaches 0.
Decrement ==
    /\ pc["subscriber"] = "decrement"
    /\ counts' = [counts EXCEPT ![frame["subscriber"].stream] = IF @ <= 1 THEN 0 ELSE @ - 1]
    /\ Goto("subscriber", "reread")
    /\ UNCHANGED <<log, recvd, open, paused, frame, seen, sent, ended, acked>>

\* The application drops its Subscriber; what the channel holds is lost.
DropSubscriber ==
    /\ pc["subscriber"] = "idle"
    /\ open' = FALSE
    /\ Goto("subscriber", "gone")
    /\ UNCHANGED <<log, recvd, counts, paused, frame, seen, sent, ended, acked>>

\* ack_stream, called by an owner of the controller.
AckStream(s) ==
    /\ pc["owner"] = "idle"
    /\ s \in AckedStreams \ acked
    /\ acked' = acked \cup {s}
    /\ frame' = [frame EXCEPT !["owner"] = Terminal(s)]
    /\ Goto("owner", "remove")
    /\ UNCHANGED <<log, recvd, open, counts, paused, seen, sent, ended>>

-----------------------------------------------------------------------------
(* The critical sections that several threads execute.                      *)

\* update_flow_state, first half: the count, under the counts lock.
Reread(t) ==
    /\ pc[t] = "reread"
    /\ seen' = [seen EXCEPT ![t] = counts[frame[t].stream]]
    /\ Goto(t, "update")
    /\ UNCHANGED <<log, recvd, open, counts, paused, frame, sent, ended, acked>>

\* update_flow_state, second half: the paused set, under its own lock.
UpdateFlowState(t) ==
    /\ pc[t] = "update"
    /\ SyncPaused(frame[t].stream, seen[t])
    /\ seen' = [seen EXCEPT ![t] = 0]
    /\ Goto(t, "idle")
    /\ UNCHANGED <<log, recvd, open, counts, frame, sent, ended, acked>>

\* Mutant: a terminal frame leaves the count in place.
RemoveNothing(t) ==
    /\ pc[t] = "remove"
    /\ Goto(t, "resume")
    /\ UNCHANGED <<log, recvd, open, counts, paused, frame, seen, sent, ended, acked>>

RemoveStream(t) ==
    /\ pc[t] = "remove"
    /\ counts' = [counts EXCEPT ![frame[t].stream] = 0]
    /\ Goto(t, "resume")
    /\ UNCHANGED <<log, recvd, open, paused, frame, seen, sent, ended, acked>>

\* Mutant: a terminal frame leaves the paused flag in place.
ResumeNothing(t) ==
    /\ pc[t] = "resume"
    /\ Goto(t, "idle")
    /\ UNCHANGED <<log, recvd, open, counts, paused, frame, seen, sent, ended, acked>>

ResumeStream(t) ==
    /\ pc[t] = "resume"
    /\ paused' = paused \ {frame[t].stream}
    /\ Goto(t, "idle")
    /\ UNCHANGED <<log, recvd, open, counts, frame, seen, sent, ended, acked>>

Critical(t) == Reread(t) \/ UpdateFlowState(t) \/ RemoveStream(t) \/ ResumeStream(t)

-----------------------------------------------------------------------------
Call == SendUntracked \/ \E s \in Streams : SendItem(s) \/ SendTerminal(s)
Sending == FlowState \/ TryDeliver \/ BlockingDeliver \/ Stalled \/ Increment \/ Critical("router")
Acking == Decrement \/ Critical("subscriber")

Next ==
    \/ Call
    \/ Sending
    \/ Recv
    \/ Acking
    \/ DropSubscriber
    \/ \E s \in Streams : AckStream(s)
    \/ Critical("owner")

Spec == Init /\ [][Next]_vars

\* The router's task and the subscriber's task are scheduled once a call is
\* under way; nothing makes the application call recv again.
FairSpec == Spec /\ WF_vars(Sending) /\ WF_vars(Acking)

-----------------------------------------------------------------------------
RouterLabels == {"idle", "decide", "try", "block", "increment", "reread", "update",
                 "remove", "resume"}
SubscriberLabels == {"idle", "decrement", "reread", "update", "remove", "resume", "gone"}
OwnerLabels == {"idle", "remove", "resume"}

\* Types, and that a thread inside a tracked operation works on a stream.
TypeOK ==
    /\ log \in Seq(Frames)
    /\ recvd \in 0 .. Len(log)
    /\ open = (pc["subscriber"] # "gone")
    /\ counts \in [Streams -> Nat]
    /\ paused \subseteq Streams
    /\ pc \in [Threads -> RouterLabels \cup SubscriberLabels \cup OwnerLabels]
    /\ pc["router"] \in RouterLabels
    /\ pc["subscriber"] \in SubscriberLabels
    /\ pc["owner"] \in OwnerLabels
    /\ frame \in [Threads -> Frames]
    /\ seen \in [Threads -> Nat]
    /\ sent \in [Streams \cup {Untracked} -> Nat]
    /\ ended \subseteq Streams
    /\ acked \subseteq Streams
    /\ \A t \in Threads :
          pc[t] \notin {"idle", "try", "block", "gone"} => frame[t].stream \in Streams

\* The items of s the channel holds, by their place in the log.
Buffered(s) == {i \in recvd + 1 .. Len(log) : log[i] = Item(s)}

\* 1 while thread t stands at label l with a frame of stream s.
At(t, l, s) == IF pc[t] = l /\ frame[t].stream = s THEN 1 ELSE 0

\* Items of s delivered whose acknowledgement has not reached the count, and
\* the count the router's unfinished send is about to give s.
Unacked(s) == Cardinality(Buffered(s)) + At("subscriber", "decrement", s)
Counted(s) == counts[s] + At("router", "increment", s)

\* The router counts a frame only after the channel has it, so the subscriber
\* may acknowledge it first, to no effect: the count then stays one too high.
\* However send, recv and ack_stream interleave, it is never off by more.
CountUpper == \A s \in Streams : Counted(s) <= Unacked(s) + 1

\* The count never falls below what is really buffered while the stream is
\* open: a slow stream cannot hide from its watermark.
CountLower == \A s \in Streams \ (ended \cup acked) : Unacked(s) <= Counted(s)

\* The stream of a terminal frame that the subscriber has acknowledged, after
\* the send of that frame returned, has neither a count nor a paused flag.
TrackingReclaimed ==
    \A s \in Streams :
        /\ \E i \in 1 .. recvd : log[i] = Terminal(s)
        /\ pc["router"] # "idle" => frame["router"].stream # s
        /\ pc["subscriber"] \in {"remove", "resume"} => frame["subscriber"].stream # s
        => counts[s] = 0 /\ s \notin paused

\* A watermark that the channel is too small to reach disables the slow path.
\* (The kernel's channels hold 256 frames; the default watermark is 1000.)
PausedUnreachable == HighWatermark > Capacity + 2 => paused = {}

\* A send always returns, even when the subscriber never receives again: the
\* stall timeout bounds the wait on a full channel.
SendReturns == pc["router"] # "idle" ~> pc["router"] = "idle"

\* If the application keeps calling recv, a stream whose terminal frame was
\* delivered is sooner or later forgotten for good.
EndedStreamForgotten ==
    WF_vars(Recv) =>
        \A s \in Streams :
            (\E i \in 1 .. Len(log) : log[i] = Terminal(s))
                ~> ~open \/ [](counts[s] = 0 /\ s \notin paused)

\* The controller implements the channel its subscriber is promised.
Promised == INSTANCE DeliveryChannel WITH accepted <- log, taken <- recvd
ImplementsDeliveryChannel == Promised!Spec
=============================================================================
