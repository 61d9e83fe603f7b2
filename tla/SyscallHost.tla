----------------------------- MODULE SyscallHost -----------------------------
(***************************************************************************)
(* How the kernel runs a Syscall handler (Kernel::register_syscall): the   *)
(* receive loop, the map of CancellationTokens it shares with the cancel   *)
(* hook and with the handler tasks, and one task per request.              *)
(*                                                                         *)
(* The router (see Router) dispatches requests and cancels; the pipe's     *)
(* dispatcher (see Pipe) moves frames from the bounded pipe to the         *)
(* unbounded channel that the loop reads.  The map is only touched under   *)
(* its mutex: one step is one such critical section or one operation of a  *)
(* channel.  Handlers are cooperative: they may ignore their token.        *)
(***************************************************************************)
EXTENDS Integers, Sequences

CONSTANTS
    Requests,       \* ids of the requests, dispatched once each
    NoRequest,
    Capacity,       \* of the pipe towards the handler
    ReplyCapacity,  \* of the channels back to the router
    MaxItems,       \* bound: items a handler sends per request
    Panics,         \* requests whose handler may panic
    Swallowed       \* those with an item that does not serialize, and a handler
                    \* that ignores the error finish_items returns

ASSUME NoRequestIsNone   == NoRequest \notin Requests
ASSUME ChannelsHaveRoom  == Capacity \in Nat \ {0} /\ ReplyCapacity \in Nat \ {0}
ASSUME BoundIsNat        == MaxItems \in Nat
ASSUME PanicsAreRequests == Panics \subseteq Requests /\ Swallowed \subseteq Requests

Frames == [kind : {"request", "cancel"}, req : Requests]
Frame(k, r) == [kind |-> k, req |-> r]
Replies == [req : Requests, terminal : BOOLEAN]

VARIABLES
    active,     \* requests the router can still cancel
    forwarding, \* the request whose cancel frame the router is about to forward
    raw,        \* the pipe towards the handler
    inbox,      \* the default channel the loop receives from
    spawning,   \* the request whose task the loop is about to spawn
    tokens,     \* requests with an entry in active_tokens
    triggered,  \* requests whose token was cancelled
    task,       \* progress of the task of each request
    replies,    \* history: frames sent back, in order
    routed,     \* how many of them the router has taken
    items,      \* bound: items sent for each request
    seen,       \* requests the router has dispatched
    forwarded,  \* history: cancelled requests whose cancel frame was queued
    dropped     \* history: those whose cancel frame met a full channel

vars == <<active, forwarding, raw, inbox, spawning, tokens, triggered, task, replies, routed,
          items, seen, forwarded, dropped>>
router == <<active, forwarding, seen, forwarded, dropped>>
handlers == <<replies, items>>

Init ==
    /\ active = {}
    /\ forwarding = NoRequest
    /\ raw = <<>>
    /\ inbox = <<>>
    /\ spawning = NoRequest
    /\ tokens = {}
    /\ triggered = {}
    /\ task = [r \in Requests |-> "none"]
    /\ replies = <<>>
    /\ routed = 0
    /\ items = [r \in Requests |-> 0]
    /\ seen = {}
    /\ forwarded = {}
    /\ dropped = {}

Step(r, l) == task' = [task EXCEPT ![r] = l]

\* Take the token of r out of the map, if it is there, and cancel it.
Trigger(r) ==
    /\ tokens' = tokens \ {r}
    /\ triggered' = IF r \in tokens THEN triggered \cup {r} ELSE triggered

-----------------------------------------------------------------------------
(* The router's task.                                                       *)

\* Mutant: a channel one frame too large.
HasRoomOffByOne == Len(raw) <= Capacity

HasRoom == Len(raw) < Capacity

\* A request that meets a full pipe is answered by the router and never gets here.
RouteRequest(r) ==
    /\ forwarding = NoRequest
    /\ r \notin seen
    /\ HasRoom
    /\ raw' = Append(raw, Frame("request", r))
    /\ active' = active \cup {r}
    /\ seen' = seen \cup {r}
    /\ UNCHANGED <<forwarding, inbox, spawning, tokens, triggered, task, handlers, routed,
                   forwarded, dropped>>

\* Mutant: the hook takes the token without cancelling it.
CancelHookForgets(r) ==
    /\ forwarding = NoRequest
    /\ r \in active
    /\ active' = active \ {r}
    /\ tokens' = tokens \ {r}
    /\ forwarding' = r
    /\ UNCHANGED <<raw, inbox, spawning, triggered, task, handlers, routed, seen, forwarded,
                   dropped>>

\* A cancel: the active entry is consumed and the hook runs...
CancelHook(r) ==
    /\ forwarding = NoRequest
    /\ r \in active
    /\ active' = active \ {r}
    /\ Trigger(r)
    /\ forwarding' = r
    /\ UNCHANGED <<raw, inbox, spawning, task, handlers, routed, seen, forwarded, dropped>>

\* ... and then the frame is forwarded, if the pipe has room.
ForwardCancel ==
    LET r == forwarding
    IN  /\ r # NoRequest
        /\ forwarding' = NoRequest
        /\ IF HasRoom
           THEN /\ raw' = Append(raw, Frame("cancel", r))
                /\ forwarded' = forwarded \cup {r}
                /\ UNCHANGED dropped
           ELSE /\ dropped' = dropped \cup {r}
                /\ UNCHANGED <<raw, forwarded>>
        /\ UNCHANGED <<active, inbox, spawning, tokens, triggered, task, handlers, routed, seen>>

RouteReply ==
    LET f == replies[routed + 1]
    IN  /\ forwarding = NoRequest
        /\ routed < Len(replies)
        /\ routed' = routed + 1
        /\ active' = IF f.terminal THEN active \ {f.req} ELSE active
        /\ UNCHANGED <<forwarding, raw, inbox, spawning, tokens, triggered, task, handlers, seen,
                       forwarded, dropped>>

-----------------------------------------------------------------------------
(* The dispatcher of the pipe, and the receive loop.                        *)

Surface ==
    /\ raw # <<>>
    /\ raw' = Tail(raw)
    /\ inbox' = Append(inbox, Head(raw))
    /\ UNCHANGED <<router, spawning, tokens, triggered, task, handlers, routed>>

\* The loop receives f.
Takes(f) ==
    /\ spawning = NoRequest
    /\ inbox # <<>>
    /\ inbox' = Tail(inbox)

\* Mutant: a cancel frame is left to the hook.
IgnoreCancel ==
    LET f == Head(inbox)
    IN  /\ Takes(f)
        /\ f.kind = "cancel"
        /\ UNCHANGED <<router, raw, spawning, tokens, triggered, task, handlers, routed>>

LoopCancel ==
    LET f == Head(inbox)
    IN  /\ Takes(f)
        /\ f.kind = "cancel"
        /\ Trigger(f.req)
        /\ UNCHANGED <<router, raw, spawning, task, handlers, routed>>

\* Mutant: the loop awaits the handler instead of spawning it.
LoopRequestAwaits ==
    LET f == Head(inbox)
    IN  /\ Takes(f)
        /\ f.kind = "request"
        /\ \A r \in Requests : task[r] \in {"none", "done", "silent", "panicked"}
        /\ tokens' = tokens \cup {f.req}
        /\ spawning' = f.req
        /\ UNCHANGED <<router, raw, triggered, task, handlers, routed>>

\* The token is inserted before the task exists.
LoopRequest ==
    LET f == Head(inbox)
    IN  /\ Takes(f)
        /\ f.kind = "request"
        /\ tokens' = tokens \cup {f.req}
        /\ spawning' = f.req
        /\ UNCHANGED <<router, raw, triggered, task, handlers, routed>>

Spawn ==
    /\ spawning # NoRequest
    /\ Step(spawning, "dispatch")
    /\ spawning' = NoRequest
    /\ UNCHANGED <<router, raw, inbox, tokens, triggered, handlers, routed>>

Loop == LoopCancel \/ LoopRequest \/ Spawn

-----------------------------------------------------------------------------
(* The task of a request.                                                   *)

Reply(r, t) ==
    /\ Len(replies) - routed < ReplyCapacity
    /\ replies' = Append(replies, [req |-> r, terminal |-> t])

SendItem(r) ==
    /\ task[r] = "dispatch"
    /\ items[r] < MaxItems
    /\ Reply(r, FALSE)
    /\ items' = [items EXCEPT ![r] = @ + 1]
    /\ UNCHANGED <<router, raw, inbox, spawning, tokens, triggered, task, routed>>

\* FrameSender::finish, finish_item and finish_items: after the items, the
\* terminal frame.  The handler returns Ok.
ReturnOk(r) ==
    /\ task[r] = "dispatch"
    /\ Reply(r, TRUE)
    /\ Step(r, "cleanup")
    /\ UNCHANGED <<router, raw, inbox, spawning, tokens, triggered, items, routed>>

\* An item does not serialize: finish_item and finish_items return at once, with
\* neither a Done nor an Error sent, and the handler returns Ok all the same.
ReturnSilently(r) ==
    /\ task[r] = "dispatch"
    /\ r \in Swallowed
    /\ Step(r, "silent cleanup")
    /\ UNCHANGED <<router, raw, inbox, spawning, tokens, triggered, handlers, routed>>

\* The handler fails, or passes on what finish_items returned.
ReturnErr(r) ==
    /\ task[r] = "dispatch"
    /\ Step(r, "failing")
    /\ UNCHANGED <<router, raw, inbox, spawning, tokens, triggered, handlers, routed>>

Panic(r) ==
    /\ task[r] = "dispatch"
    /\ r \in Panics
    /\ Step(r, "panicked")
    /\ UNCHANGED <<router, raw, inbox, spawning, tokens, triggered, handlers, routed>>

\* Mutant: a cancelled handler's error is not reported.
SendErrorUnlessCancelled(r) ==
    /\ task[r] = "failing"
    /\ IF r \in triggered THEN UNCHANGED replies ELSE Reply(r, TRUE)
    /\ Step(r, "cleanup")
    /\ UNCHANGED <<router, raw, inbox, spawning, tokens, triggered, items, routed>>

\* The kernel sends the error frame for a handler that returned Err.
SendError(r) ==
    /\ task[r] = "failing"
    /\ Reply(r, TRUE)
    /\ Step(r, "cleanup")
    /\ UNCHANGED <<router, raw, inbox, spawning, tokens, triggered, items, routed>>

Cleanup(r) ==
    /\ task[r] \in {"cleanup", "silent cleanup"}
    /\ tokens' = tokens \ {r}
    /\ Step(r, IF task[r] = "cleanup" THEN "done" ELSE "silent")
    /\ UNCHANGED <<router, raw, inbox, spawning, triggered, handlers, routed>>

Task(r) ==
    \/ SendItem(r) \/ ReturnOk(r) \/ ReturnSilently(r) \/ ReturnErr(r) \/ Panic(r)
    \/ SendError(r) \/ Cleanup(r)

-----------------------------------------------------------------------------
Next ==
    \/ \E r \in Requests : RouteRequest(r) \/ CancelHook(r)
    \/ ForwardCancel \/ RouteReply
    \/ Surface
    \/ Loop
    \/ \E r \in Requests : Task(r)

Spec == Init /\ [][Next]_vars

\* The dispatcher and the loop are tasks that wait for nothing but frames.  No
\* fairness for handlers, nor for the router: both may be stuck.
FairSpec == Spec /\ WF_vars(Surface) /\ WF_vars(Loop)
-----------------------------------------------------------------------------
Finished == {"done", "silent", "panicked"}
TaskStates == {"none", "dispatch", "failing", "cleanup", "silent cleanup"} \cup Finished

TypeOK ==
    /\ active \subseteq seen /\ seen \subseteq Requests
    /\ forwarding \in seen \cup {NoRequest} /\ forwarding \notin active
    /\ raw \in Seq(Frames) /\ Len(raw) <= Capacity
    /\ inbox \in Seq(Frames)
    /\ spawning \in Requests \cup {NoRequest}
    /\ tokens \subseteq Requests /\ triggered \subseteq Requests
    /\ task \in [Requests -> TaskStates]
    /\ spawning # NoRequest => task[spawning] = "none"
    /\ replies \in Seq(Replies) /\ routed \in 0 .. Len(replies)
    /\ Len(replies) - routed <= ReplyCapacity
    /\ items \in [Requests -> 0 .. MaxItems]
    /\ forwarded \subseteq seen /\ dropped \subseteq seen

\* Every handler task that can still be cancelled has its token in the map, and
\* the map has no others: whatever the hook, the loop and the tasks do to it in
\* whatever order, no entry is left behind.  (A handler that panics leaks its.)
TokensMatchTasks ==
    \A r \in Requests :
        r \in tokens <=>
            /\ r \notin triggered
            /\ r = spawning \/ task[r] \in {"dispatch", "failing", "cleanup", "silent cleanup"}
               \/ task[r] = "panicked"

TerminalsOf(r) == {i \in 1 .. Len(replies) : replies[i] = [req |-> r, terminal |-> TRUE]}

\* The router gets exactly one terminal frame for a request whose task ran to
\* its end, after everything else the handler sent, cancelled or not - but none
\* from a handler that panics or ignores that an item did not serialize
\* (kernel.rs:190-195, sender.rs:79-109).
OneTerminalFrame ==
    \A r \in Requests :
        /\ task[r] \in {"cleanup", "done"} <=> TerminalsOf(r) # {}
        /\ \A i \in TerminalsOf(r) : \A j \in i + 1 .. Len(replies) : replies[j].req # r

\* A cancel whose frame was queued reaches its handler: the token is cancelled
\* sooner or later, whether the request was still queued or already running,
\* unless the task ends first.
CancelReachesHandler ==
    \A r \in Requests : r \in forwarded ~> r \in triggered \/ task[r] \in Finished

\* The loop starts the handler of every request, even if no handler ever
\* returns and no reply is ever taken.
RequestsAreStarted == \A r \in Requests : r \in seen ~> task[r] # "none"

\* What the comment in route_cancel says (router.rs 261-263): a cancel frame
\* that cannot be delivered does not matter, the token is already triggered.
DroppedCancelIsHarmless ==
    \A r \in dropped : r \in triggered \/ task[r] \in Finished
=============================================================================
