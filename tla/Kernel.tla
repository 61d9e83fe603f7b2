------------------------------- MODULE Kernel -------------------------------
(***************************************************************************)
(* The running kernel as Kernel::start wires it up (kernel.rs): clients,   *)
(* the inbound channel, the router's task, and for each registered         *)
(* subsystem a pipe and a bridge task that forwards what the subsystem     *)
(* sends to the inbound channel.                                           *)
(*                                                                         *)
(* The questions here are those no single component can answer: who waits  *)
(* for whom when every channel is full, which channels close when, what a  *)
(* stop loses, and where the answer to a call between subsystems goes.  A  *)
(* channel is closed when nobody holds a sender of it any more; the        *)
(* operators *Closed and *Gone say who holds what.                         *)
(*                                                                         *)
(* Each part is reduced to what the others see of it: the two maps of the  *)
(* router to one (their keys agree: Router!MapsAgree), every call to a     *)
(* call with a built-in route, the steps of Caller and of the dispatcher   *)
(* (Pipe) and of a handler's task (SyscallHost) to one each, and the       *)
(* subscriber to the sequence of what the router sends it: whether its     *)
(* channel accepts a frame is StreamController's question.                 *)
(***************************************************************************)
EXTENDS Integers, Sequences, FiniteSets

CONSTANTS
    Subsystems,         \* registered prefixes
    Dispatched,         \* those whose PipeEnd is in dispatched mode
    Requests,           \* ids of the requests, each made once
    Calls,              \* those made by a subsystem through its Caller
    Callee,             \* the subsystem that each request calls
    None,
    InboundCapacity,
    PipeCapacity,       \* of each direction of a pipe
    MaxItems,           \* bound: items a handler sends for a request
    MaxCancels,         \* bound: cancels clients send
    Mortal,             \* subsystems that may leave or fail
    MayAbort            \* the task of the router may be aborted

ASSUME DispatchedAreSubsystems == Dispatched \subseteq Subsystems
ASSUME CallsAreRequests        == Calls \subseteq Requests
ASSUME CalleesAreSubsystems    == Callee \in [Requests -> Subsystems]
ASSUME NoneIsNone              == None \notin Subsystems
ASSUME ChannelsHaveRoom        == /\ InboundCapacity \in Nat \ {0}
                                  /\ PipeCapacity \in Nat \ {0}
ASSUME BoundsAreNat            == MaxItems \in Nat /\ MaxCancels \in Nat
ASSUME AbortIsBoolean          == MayAbort \in BOOLEAN

Kinds == {"request", "item", "done", "error", "cancel"}
Terminals == {"done", "error", "cancel"}
Frames == [kind : Kinds, req : Requests]
Frame(k, r) == [kind |-> k, req |-> r]
IsTerminal(f) == f.kind \in Terminals

VARIABLES
    clients,     \* a client holds a sender of inbound
    inbound,     \* channel to the router
    router,      \* its task: running, stopped or aborted
    delivering,  \* the frame it is sending to the subscriber, if any
    inflight,    \* handler of each request it routes the answers of
    bridge,      \* subsystems whose bridge task runs
    carrying,    \* the frame each bridge is forwarding, if any
    toSub,       \* pipe of each subsystem, towards it
    toKernel,    \* and back
    dispatcher,  \* dispatched subsystems whose dispatcher task runs
    default,     \* the frames it has surfaced
    running,     \* subsystems that hold their PipeEnd
    held,        \* requests each subsystem is working on
    items,       \* items sent for each request
    made,        \* requests made
    caller,      \* the subsystem that made each call
    answered,    \* calls whose CallStream has received a frame
    log,         \* history: kinds of the frames of each request sent to the subscriber
    cancels,     \* bound: cancels sent
    quit         \* history: requests whose handler is gone without an answer

tasks == <<inbound, router, delivering, inflight, bridge, carrying>>
pipes == <<toSub, toKernel>>
subsystems == <<dispatcher, default, running, held, items, answered>>
calls == <<made, caller, cancels>>
history == <<log, quit>>
vars == <<clients, tasks, pipes, subsystems, calls, history>>

Init ==
    /\ clients = TRUE
    /\ inbound = <<>>
    /\ router = "running"
    /\ delivering = <<>>
    /\ inflight = [r \in {} |-> None]
    /\ bridge = Subsystems
    /\ carrying = [s \in Subsystems |-> <<>>]
    /\ toSub = [s \in Subsystems |-> <<>>]
    /\ toKernel = [s \in Subsystems |-> <<>>]
    /\ dispatcher = Dispatched
    /\ default = [s \in Dispatched |-> <<>>]
    /\ running = Subsystems
    /\ held = [s \in Subsystems |-> {}]
    /\ items = [r \in Requests |-> 0]
    /\ made = {}
    /\ caller = [r \in {} |-> None]
    /\ answered = {}
    /\ log = [r \in Requests |-> <<>>]
    /\ cancels = 0
    /\ quit = {}

RangeOf(q) == {q[i] : i \in 1 .. Len(q)}
Remember(f, r, v) == [x \in DOMAIN f \cup {r} |-> IF x = r THEN v ELSE f[x]]
Forget(f, r) == [x \in DOMAIN f \ {r} |-> f[x]]

-----------------------------------------------------------------------------
(* Who holds which end of which channel.                                    *)

\* A subsystem sends through its PipeEnd and through the senders and Callers
\* that its handler tasks hold.
Sending(s) == s \in running \/ held[s] # {}

\* Mutant: start keeps a sender of inbound for itself.
InboundNeverClosed == FALSE

\* Mutant: the bridges hold no senders of inbound.
InboundClosedEarly == ~clients

\* The clients and the bridges hold the senders of inbound.
InboundClosed == ~clients /\ bridge = {}

\* The route table, active and the kernel's end of the pipe (in the bridge)
\* hold the senders towards a subsystem.
ToSubClosed(s) == router # "running" /\ s \notin bridge

\* The receiver towards a subsystem is its PipeEnd's, or its dispatcher's.
ToSubGone(s) == IF s \in Dispatched THEN s \notin dispatcher ELSE s \notin running

-----------------------------------------------------------------------------
(* Clients.                                                                 *)

HasInboundRoom == router = "running" /\ Len(inbound) < InboundCapacity

Submit(r) ==
    /\ clients
    /\ r \in Requests \ (Calls \cup made)
    /\ HasInboundRoom
    /\ inbound' = Append(inbound, Frame("request", r))
    /\ made' = made \cup {r}
    /\ UNCHANGED <<clients, router, delivering, inflight, bridge, carrying, pipes,
                   subsystems, caller, cancels, history>>

Cancel(r) ==
    /\ clients
    /\ r \in made
    /\ cancels < MaxCancels
    /\ HasInboundRoom
    /\ inbound' = Append(inbound, Frame("cancel", r))
    /\ cancels' = cancels + 1
    /\ UNCHANGED <<clients, router, delivering, inflight, bridge, carrying, pipes,
                   subsystems, made, caller, history>>

\* The last client drops its sender.
ClientsLeave ==
    /\ clients
    /\ clients' = FALSE
    /\ UNCHANGED <<tasks, pipes, subsystems, calls, history>>

-----------------------------------------------------------------------------
(* The router's task (see Router for each handler in full).                 *)

Takes(f) ==
    /\ router = "running"
    /\ delivering = <<>>
    /\ inbound # <<>>
    /\ f = Head(inbound)
    /\ inbound' = Tail(inbound)

\* Mutant: one frame more than the pipe holds.
CanSendOffByOne(s) == ~ToSubGone(s) /\ Len(toSub[s]) <= PipeCapacity

\* try_send to subsystem s.
CanSend(s) == ~ToSubGone(s) /\ Len(toSub[s]) < PipeCapacity
TrySend(s, f) ==
    toSub' = IF CanSend(s) THEN [toSub EXCEPT ![s] = Append(@, f)] ELSE toSub

\* A request is passed on, or refused at once when the handler is full or gone.
RouteRequest ==
    \E f \in Frames :
        LET s == Callee[f.req]
        IN  /\ Takes(f)
            /\ f.kind = "request"
            /\ TrySend(s, f)
            /\ inflight' = IF CanSend(s) THEN Remember(inflight, f.req, s) ELSE inflight
            /\ delivering' = IF CanSend(s) THEN <<>> ELSE <<Frame("error", f.req)>>
            /\ UNCHANGED <<clients, router, bridge, carrying, toKernel, subsystems, calls,
                           history>>

\* A response goes to the subscriber, whoever made the request.
RouteResponse ==
    \E f \in Frames :
        /\ Takes(f)
        /\ f.kind \in {"item", "done"}
        /\ delivering' = IF f.req \in DOMAIN inflight THEN <<f>> ELSE <<>>
        /\ UNCHANGED <<clients, router, inflight, bridge, carrying, pipes, subsystems,
                       calls, history>>

\* Mutant: the router waits for room to pass a cancel on.
RouteCancelWaits ==
    \E f \in Frames :
        /\ Takes(f)
        /\ f.kind = "cancel"
        /\ IF f.req \in DOMAIN inflight
           THEN /\ ToSubGone(inflight[f.req]) \/ CanSend(inflight[f.req])
                /\ TrySend(inflight[f.req], f)
                /\ inflight' = Forget(inflight, f.req)
                /\ delivering' = <<f>>
           ELSE UNCHANGED <<toSub, inflight, delivering>>
        /\ UNCHANGED <<clients, router, bridge, carrying, toKernel, subsystems, calls,
                       history>>

\* A cancel is passed on, if there is room, and its request is settled.
RouteCancel ==
    \E f \in Frames :
        /\ Takes(f)
        /\ f.kind = "cancel"
        /\ IF f.req \in DOMAIN inflight
           THEN /\ TrySend(inflight[f.req], f)
                /\ inflight' = Forget(inflight, f.req)
                /\ delivering' = <<f>>
           ELSE UNCHANGED <<toSub, inflight, delivering>>
        /\ UNCHANGED <<clients, router, bridge, carrying, toKernel, subsystems, calls,
                       history>>

\* StreamController::send returns, the frame delivered or given up.  A terminal
\* response ends the routing.
Deliver ==
    LET f == delivering[1]
    IN  /\ router = "running"
        /\ delivering # <<>>
        /\ delivering' = <<>>
        /\ log' = [log EXCEPT ![f.req] = Append(@, f.kind)]
        /\ inflight' = IF IsTerminal(f) THEN Forget(inflight, f.req) ELSE inflight
        /\ UNCHANGED <<clients, inbound, router, bridge, carrying, pipes, subsystems,
                       calls, quit>>

\* The loop ends when inbound is closed and drained; the Router is dropped.
Stop ==
    /\ router = "running"
    /\ delivering = <<>>
    /\ inbound = <<>>
    /\ InboundClosed
    /\ router' = "stopped"
    /\ inflight' = [r \in {} |-> None]
    /\ UNCHANGED <<clients, inbound, delivering, bridge, carrying, pipes, subsystems,
                   calls, history>>

\* The application aborts the task through the JoinHandle that start returned.
Abort ==
    /\ MayAbort
    /\ router = "running"
    /\ router' = "aborted"
    /\ inbound' = <<>>
    /\ delivering' = <<>>
    /\ inflight' = [r \in {} |-> None]
    /\ UNCHANGED <<clients, bridge, carrying, pipes, subsystems, calls, history>>

Route == RouteRequest \/ RouteResponse \/ RouteCancel \/ Deliver \/ Stop

-----------------------------------------------------------------------------
(* The bridge of subsystem s.                                               *)

BridgeRecv(s) ==
    /\ s \in bridge
    /\ carrying[s] = <<>>
    /\ toKernel[s] # <<>>
    /\ carrying' = [carrying EXCEPT ![s] = <<Head(toKernel[s])>>]
    /\ toKernel' = [toKernel EXCEPT ![s] = Tail(@)]
    /\ UNCHANGED <<clients, inbound, router, delivering, inflight, bridge, toSub,
                   subsystems, calls, history>>

\* Mutant: the bridge does not wait for room.
BridgeTrySend(s) ==
    /\ s \in bridge
    /\ carrying[s] # <<>>
    /\ router = "running"
    /\ inbound' = IF HasInboundRoom THEN inbound \o carrying[s] ELSE inbound
    /\ carrying' = [carrying EXCEPT ![s] = <<>>]
    /\ UNCHANGED <<clients, router, delivering, inflight, bridge, pipes, subsystems,
                   calls, history>>

BridgeSend(s) ==
    /\ s \in bridge
    /\ carrying[s] # <<>>
    /\ HasInboundRoom
    /\ inbound' = inbound \o carrying[s]
    /\ carrying' = [carrying EXCEPT ![s] = <<>>]
    /\ UNCHANGED <<clients, router, delivering, inflight, bridge, pipes, subsystems,
                   calls, history>>

\* The task ends and drops the kernel's end of the pipe.
EndBridge(s) ==
    /\ bridge' = bridge \ {s}
    /\ carrying' = [carrying EXCEPT ![s] = <<>>]
    /\ toKernel' = [toKernel EXCEPT ![s] = <<>>]
    /\ UNCHANGED <<clients, inbound, router, delivering, inflight, toSub, subsystems,
                   calls, history>>

\* It ends when a frame meets a closed inbound channel...
BridgeFails(s) ==
    /\ s \in bridge
    /\ carrying[s] # <<>>
    /\ router # "running"
    /\ EndBridge(s)

\* Mutant: it ends with the PipeEnd, whatever the handler tasks still send.
BridgeEndsEarly(s) ==
    /\ s \in bridge
    /\ carrying[s] = <<>>
    /\ s \notin running
    /\ EndBridge(s)

\* ... or when the pipe is closed and drained.
BridgeEnds(s) ==
    /\ s \in bridge
    /\ carrying[s] = <<>>
    /\ toKernel[s] = <<>>
    /\ ~Sending(s)
    /\ EndBridge(s)

Bridge(s) == BridgeRecv(s) \/ BridgeSend(s) \/ BridgeFails(s) \/ BridgeEnds(s)

-----------------------------------------------------------------------------
(* Subsystem s.                                                             *)

RequestsIn(q) == {f.req : f \in {g \in RangeOf(q) : g.kind = "request"}}

\* The dispatcher gives a response to its call, and surfaces everything else;
\* it exits if nobody is there to receive it.
Surface(s) ==
    LET f == Head(toSub[s])
        mine == f.kind # "request" /\ f.req \in DOMAIN caller /\ caller[f.req] = s
    IN  /\ s \in dispatcher
        /\ toSub[s] # <<>>
        /\ \/ /\ mine
              /\ answered' = answered \cup {f.req}
              /\ toSub' = [toSub EXCEPT ![s] = Tail(@)]
              /\ UNCHANGED <<default, dispatcher, quit>>
           \/ /\ ~mine
              /\ s \in running
              /\ default' = [default EXCEPT ![s] = Append(@, f)]
              /\ toSub' = [toSub EXCEPT ![s] = Tail(@)]
              /\ UNCHANGED <<answered, dispatcher, quit>>
           \/ /\ ~mine
              /\ s \notin running
              /\ dispatcher' = dispatcher \ {s}
              /\ quit' = quit \cup RequestsIn(toSub[s])
              /\ toSub' = [toSub EXCEPT ![s] = <<>>]
              /\ UNCHANGED <<answered, default>>
        /\ UNCHANGED <<clients, tasks, toKernel, running, held, items, log, calls>>

DispatcherEnds(s) ==
    /\ s \in dispatcher
    /\ toSub[s] = <<>>
    /\ ToSubClosed(s)
    /\ dispatcher' = dispatcher \ {s}
    /\ UNCHANGED <<clients, tasks, pipes, default, running, held, items, answered, calls,
                   history>>

\* PipeEnd::recv.  A request is worked on, in a task of its own or not; what a
\* cancel does to it is the handler's affair.
Take(s) ==
    LET queue == IF s \in Dispatched THEN default[s] ELSE toSub[s]
        f == Head(queue)
    IN  /\ s \in running
        /\ queue # <<>>
        /\ IF s \in Dispatched
           THEN default' = [default EXCEPT ![s] = Tail(@)] /\ UNCHANGED toSub
           ELSE toSub' = [toSub EXCEPT ![s] = Tail(@)] /\ UNCHANGED default
        /\ held' = [held EXCEPT ![s] = IF f.kind = "request" THEN @ \cup {f.req} ELSE @]
        /\ UNCHANGED <<clients, tasks, toKernel, dispatcher, running, items, answered,
                       calls, history>>

HasReplyRoom(s) == s \in bridge /\ Len(toKernel[s]) < PipeCapacity
Send(s, f) ==
    /\ HasReplyRoom(s)
    /\ toKernel' = [toKernel EXCEPT ![s] = Append(@, f)]

SendItem(s, r) ==
    /\ r \in held[s]
    /\ items[r] < MaxItems
    /\ Send(s, Frame("item", r))
    /\ items' = [items EXCEPT ![r] = @ + 1]
    /\ UNCHANGED <<clients, tasks, toSub, dispatcher, default, running, held, answered,
                   calls, history>>

SendDone(s, r) ==
    /\ r \in held[s]
    /\ Send(s, Frame("done", r))
    /\ held' = [held EXCEPT ![s] = @ \ {r}]
    /\ UNCHANGED <<clients, tasks, toSub, dispatcher, default, running, items, answered,
                   calls, history>>

\* Caller::call: the request goes the way of a reply.
Call(s, r) ==
    /\ s \in Dispatched
    /\ Sending(s)
    /\ r \in Calls \ made
    /\ Send(s, Frame("request", r))
    /\ made' = made \cup {r}
    /\ caller' = Remember(caller, r, s)
    /\ UNCHANGED <<clients, tasks, toSub, subsystems, cancels, history>>

\* A handler ends without a terminal frame: it fails, or it cannot send.
GiveUp(s, r) ==
    /\ r \in held[s]
    /\ s \in Mortal \/ s \notin bridge
    /\ held' = [held EXCEPT ![s] = @ \ {r}]
    /\ quit' = quit \cup {r}
    /\ UNCHANGED <<clients, tasks, pipes, dispatcher, default, running, items, answered,
                   log, calls>>

\* The PipeEnd is dropped, with what was queued for recv.
DropEnd(s) ==
    /\ s \in running
    /\ running' = running \ {s}
    /\ IF s \in Dispatched
       THEN /\ quit' = quit \cup RequestsIn(default[s])
            /\ default' = [default EXCEPT ![s] = <<>>]
            /\ UNCHANGED toSub
       ELSE /\ quit' = quit \cup RequestsIn(toSub[s])
            /\ toSub' = [toSub EXCEPT ![s] = <<>>]
            /\ UNCHANGED default
    /\ UNCHANGED <<clients, tasks, toKernel, dispatcher, held, items, answered, log,
                   calls>>

Leave(s) == s \in Mortal /\ DropEnd(s)

\* The receive loop ends: recv returned None.
LoopEnds(s) ==
    /\ IF s \in Dispatched
       THEN s \notin dispatcher /\ default[s] = <<>>
       ELSE ToSubClosed(s) /\ toSub[s] = <<>>
    /\ DropEnd(s)

Subsystem(s) ==
    \/ Surface(s) \/ DispatcherEnds(s) \/ Take(s) \/ Leave(s) \/ LoopEnds(s)
    \/ \E r \in Requests : SendItem(s, r) \/ SendDone(s, r) \/ GiveUp(s, r) \/ Call(s, r)

-----------------------------------------------------------------------------
Next ==
    \/ \E r \in Requests : Submit(r) \/ Cancel(r)
    \/ ClientsLeave
    \/ Route \/ Abort
    \/ \E s \in Subsystems : Bridge(s) \/ Subsystem(s)

Spec == Init /\ [][Next]_vars

\* The router and the bridges are tasks.  A bridge that waits for room in
\* inbound competes with the clients and the other bridges; the channel serves
\* those who wait in turn.  No fairness for anybody else.
FairSpec == Spec /\ WF_vars(Route) /\ \A s \in Subsystems : SF_vars(Bridge(s))

-----------------------------------------------------------------------------
(* Properties.                                                              *)

\* Every channel stays within its capacity, and every frame belongs to a
\* request that was made (kernel.rs:66, 96; router.rs:170).
RouterType ==
    /\ clients \in BOOLEAN
    /\ router \in {"running", "stopped", "aborted"}
    /\ inbound \in Seq(Frames) /\ Len(inbound) <= InboundCapacity
    /\ delivering \in Seq(Frames) /\ Len(delivering) <= 1
    /\ DOMAIN inflight \subseteq made
    /\ \A r \in DOMAIN inflight : inflight[r] = Callee[r]

PipesType ==
    /\ bridge \subseteq Subsystems
    /\ carrying \in [Subsystems -> Seq(Frames)]
    /\ toSub \in [Subsystems -> Seq(Frames)]
    /\ toKernel \in [Subsystems -> Seq(Frames)]
    /\ \A s \in Subsystems :
        /\ Len(carrying[s]) <= 1
        /\ Len(toSub[s]) <= PipeCapacity
        /\ Len(toKernel[s]) <= PipeCapacity

SubsystemsType ==
    /\ dispatcher \subseteq Dispatched
    /\ default \in [Dispatched -> Seq(Frames)]
    /\ running \subseteq Subsystems
    /\ held \in [Subsystems -> SUBSET made]
    /\ \A s \in Subsystems : \A r \in held[s] : Callee[r] = s
    /\ items \in [Requests -> Nat]
    /\ answered \subseteq DOMAIN caller

RequestsType ==
    /\ made \subseteq Requests
    /\ DOMAIN caller = made \cap Calls
    /\ \A r \in DOMAIN caller : caller[r] \in Dispatched
    /\ log \in [Requests -> Seq(Kinds)]
    /\ cancels \in 0 .. MaxCancels
    /\ quit \subseteq made

TypeOK == RouterType /\ PipesType /\ SubsystemsType /\ RequestsType

\* The frames on the way to the subscriber through the bridge of s, in order.
TowardsRouter(s) == inbound \o carrying[s] \o toKernel[s]
TowardsHandler(s) == toSub[s] \o (IF s \in Dispatched THEN default[s] ELSE <<>>)

\* How often q holds f.
Count(q, f) == Cardinality({i \in 1 .. Len(q) : q[i] = f})

Told(r) == \E i \in 1 .. Len(log[r]) : log[r][i] \in Terminals

\* The subscriber is being told, or the handler's end of the request is coming.
Ending(r) == \E f \in RangeOf(delivering \o TowardsRouter(Callee[r])) :
                f.req = r /\ IsTerminal(f)

\* The request has not reached its handler, or the handler works on it.
Waiting(r) ==
    \/ r \in held[Callee[r]]
    \/ r \in RequestsIn(TowardsHandler(Callee[r]))
    \/ r \in RequestsIn(inbound)
    \/ \E s \in Subsystems : r \in RequestsIn(carrying[s] \o toKernel[s])

\* Through bridges, full channels, handlers that go away and the stop of the
\* loop, a request is never just forgotten: somebody works on it, its end is on
\* the way, the subscriber has been told, or its handler went away
\* (kernel.rs:260-264, router.rs:106-114 and 170-188).
NoRequestForgotten ==
    router # "aborted" =>
        \A r \in made : Waiting(r) \/ Ending(r) \/ Told(r) \/ r \in quit

\* What a handler has sent for a request in flight arrives complete and in
\* order over its pipe, the bridge and the channel they all share: the frames
\* sent on, being sent and under way are the items sent, and then at most the
\* Done (kernel.rs:257-266, router.rs:197-215).
ResponsesConserved ==
    \A r \in DOMAIN inflight :
        LET way == delivering \o TowardsRouter(Callee[r])
            item == Frame("item", r)
            done == Frame("done", r)
        IN  /\ \A i \in 1 .. Len(log[r]) : log[r][i] = "item"
            /\ Len(log[r]) + Count(way, item) = items[r]
            /\ Count(way, done) = IF Waiting(r) \/ r \in quit THEN 0 ELSE 1
            /\ \A i, j \in 1 .. Len(way) : way[i] = item /\ way[j] = done => i < j

\* The loop ends only when every request has its end: it was told, or its
\* handler is gone and took it along (kernel.rs:253-279: clients and bridges
\* hold the senders of inbound, and start keeps none).
StopsSettled ==
    router = "stopped" =>
        \A r \in made :
            \/ Told(r)
            \/ r \in quit
            \/ Callee[r] \notin running /\ r \in RequestsIn(toSub[Callee[r]])

\* However full the channels are, what a handler ended with reaches the
\* subscriber, unless the router's task is aborted: the router never waits for
\* a subsystem, so bridges that wait for the router do not wait for ever
\* (router.rs:166-170, kernel.rs:260-264).
AnswersArrive ==
    \A r \in Requests :
        Frame("done", r) \in RangeOf(toKernel[Callee[r]]) ~> Told(r) \/ router = "aborted"

\* When the clients and the subsystems have all gone, the bridges and then the
\* router end by themselves, whatever the channels still hold (kernel.rs:260,
\* router.rs:107).
ShutdownCompletes ==
    ~clients /\ running = {} /\ (\A s \in Subsystems : held[s] = {}) ~> router # "running"

\* Violated.  DESIGN.md:203 says of Caller: "A cloneable handle for making
\* outbound syscall requests through the kernel and receiving correlated
\* responses."  A call whose end the subscriber was told of has a response in
\* its CallStream, or on the way to it, while its subsystem runs.
SettledCallsAreAnswered ==
    \A r \in DOMAIN caller :
        LET s == caller[r]
        IN  Told(r) /\ s \in running =>
                r \in answered \/ \E f \in RangeOf(toSub[s]) : f.req = r /\ f.kind # "request"

\* Violated.  router.rs:168-169 says: "A closed channel means the subsystem has
\* gone away - fail fast with E_NO_ROUTE."  The router sends no request to a
\* subsystem that has gone.
GoneFailsFast ==
    [][\A r \in DOMAIN inflight' \ DOMAIN inflight : Callee[r] \in running]_vars
=============================================================================
