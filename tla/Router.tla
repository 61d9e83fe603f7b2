------------------------------- MODULE Router -------------------------------
(***************************************************************************)
(* The kernel's event loop (router.rs): one task that takes frames from    *)
(* the inbound channel, routes requests to handlers, fans responses out to *)
(* every subscriber and forwards cancels.                                  *)
(*                                                                         *)
(* The loop awaits nothing but the delivery to a subscriber, so handling a *)
(* frame is one step, followed by one step per subscriber and frame to     *)
(* deliver.  Clients, handlers, subscribers and the owners of sigcalls are *)
(* the environment and run between any two of these steps.  Handlers are   *)
(* not trusted: one may answer after its terminal frame, after a cancel,   *)
(* or never.                                                               *)
(***************************************************************************)
EXTENDS Integers, Sequences, FiniteSets

CONSTANTS
    Requests,         \* ids of the requests, each submitted once
    NoRequest,        \* stands for parent_id = None
    Subsystems,       \* handlers with a built-in route, under their prefix
    Hooked,           \* those registered through register_syscall: they have a hook
    Owners,           \* handlers reached through the sigcall registry
    Names,            \* sigcall names that may be registered
    NoOwner,
    NumSubscribers,
    InboundCapacity,
    QueueCapacity,    \* of a handler's channel
    Capacity,         \* of a subscriber's channel
    MaxResponses,     \* bound: responses handlers send
    MaxCancels,       \* bound: cancels clients send
    MaxChanges,       \* bound: changes of the sigcall registry
    MaxStrays,        \* bound: frames without parent_id from a handler
    Mortal            \* bound: handlers and subscribers that may go away

Handlers == Subsystems \cup Owners
Subscribers == 1 .. NumSubscribers

ASSUME NoRequestIsNone  == NoRequest \notin Requests
ASSUME NoOwnerIsNone    == NoOwner \notin Handlers
ASSUME HandlersDisjoint == Subsystems \cap Owners = {} /\ Hooked \subseteq Subsystems
ASSUME ChannelsHaveRoom == /\ InboundCapacity \in Nat \ {0}
                           /\ QueueCapacity \in Nat \ {0}
                           /\ Capacity \in Nat \ {0}
ASSUME BoundsAreNat     == /\ NumSubscribers \in Nat /\ MaxResponses \in Nat
                           /\ MaxCancels \in Nat /\ MaxChanges \in Nat /\ MaxStrays \in Nat

\* What the call of a request resolves to: a prefix, a name, or the sigcall
\* operations that the router answers itself.
Targets == Subsystems \cup Names \cup {"sigcall:list", "sigcall:other"}

Terminals == {"done", "error", "cancel"}  \* Status::is_terminal
Responses == {"item", "done", "error"}

Frames == [kind : {"request", "cancel"} \cup Responses, req : Requests \cup {NoRequest}]
Frame(k, r) == [kind |-> k, req |-> r]
IsTerminal(f) == f.kind \in Terminals

VARIABLES
    inbound,    \* frames waiting for the router
    pending,    \* requests whose responses are routed (to all subscribers)
    active,     \* handler of each request that can be cancelled
    delivering, \* frames being fanned out, in order
    next,       \* the subscriber the first of them goes to next
    settling,   \* the fan-out ends the routing of its request
    queue,      \* channel of each handler
    registry,   \* owner of each sigcall name, NoOwner when not registered
    target,     \* what each request calls
    alive,      \* handlers whose channel is open
    log,        \* history: frames accepted by the channel of each subscriber
    taken,      \* how many of them the subscriber received
    open,       \* subscribers whose channel is open
    held,       \* requests each handler has taken
    used,       \* bound: what was used of each of the bounds
    handled,    \* history: requests the router has taken from inbound
    hooked,     \* history: requests whose cancel hook was called
    forwarded,  \* history: frames put in the channel of each handler
    lost        \* history: <<subscriber, frame>> given up on by a full channel

routing == <<pending, active, delivering, next, settling>>
channels == <<queue, log, taken, open, alive>>
environment == <<registry, target, held, used>>
history == <<handled, hooked, forwarded, lost>>
vars == <<inbound, pending, active, delivering, next, settling, queue, registry, target,
          alive, log, taken, open, held, used, handled, hooked, forwarded, lost>>

NoUse == [responses |-> 0, cancels |-> 0, changes |-> 0, strays |-> 0]

Init ==
    /\ inbound = <<>>
    /\ pending = {}
    /\ active = [r \in {} |-> NoOwner]
    /\ delivering = <<>>
    /\ next = 1
    /\ settling = FALSE
    /\ queue = [h \in Handlers |-> <<>>]
    /\ registry = [n \in Names |-> NoOwner]
    /\ target = [r \in {} |-> NoOwner]
    /\ alive = Handlers
    /\ log = [s \in Subscribers |-> <<>>]
    /\ taken = [s \in Subscribers |-> 0]
    /\ open = Subscribers
    /\ held = [h \in Handlers |-> {}]
    /\ used = NoUse
    /\ handled = {}
    /\ hooked = {}
    /\ forwarded = [h \in Handlers |-> <<>>]
    /\ lost = {}

Forget(f, r) == [x \in DOMAIN f \ {r} |-> f[x]]
Remember(f, r, v) == [x \in DOMAIN f \cup {r} |-> IF x = r THEN v ELSE f[x]]

-----------------------------------------------------------------------------
(* The router.                                                              *)

\* The loop takes f, the first frame of inbound.
Takes(f) ==
    /\ delivering = <<>>
    /\ inbound # <<>>
    /\ inbound' = Tail(inbound)
    /\ handled' = IF f.kind = "request" THEN handled \cup {f.req} ELSE handled

\* Start delivering frames to the subscribers; ends says whether the request
\* is forgotten afterwards.
FanOut(frames, ends) ==
    /\ delivering' = frames
    /\ next' = 1
    /\ settling' = ends

\* Mutant: a channel one frame too large.
HasRoomOffByOne(h) == h \in alive /\ Len(queue[h]) <= QueueCapacity

\* try_send to the channel of handler h.
HasRoom(h) == h \in alive /\ Len(queue[h]) < QueueCapacity
TrySend(h, f) ==
    IF HasRoom(h)
    THEN /\ queue' = [queue EXCEPT ![h] = Append(@, f)]
         /\ forwarded' = [forwarded EXCEPT ![h] = Append(@, f)]
    ELSE UNCHANGED <<queue, forwarded>>

\* The handler of a call: a built-in route, else the registered owner.
Resolve(t) == IF t \in Subsystems THEN t ELSE registry[t]

\* Mutant: the inline answer leaves its pending entry behind.
ManageWithoutCleanup(f) ==
    /\ target[f.req] \in {"sigcall:list", "sigcall:other"}
    /\ pending' = pending \cup {f.req}
    /\ FanOut(<<Frame("done", f.req)>>, FALSE)
    /\ UNCHANGED <<active, queue, hooked, forwarded>>

\* handle_sigcall_management: the router answers; list sends an item for each
\* registered name.  pending holds the request while the answer goes out.
ManageSigcalls(f) ==
    LET r == f.req
        count == Cardinality({n \in Names : registry[n] # NoOwner})
        answer == IF target[r] = "sigcall:list"
                  THEN [i \in 1 .. count |-> Frame("item", r)] \o <<Frame("done", r)>>
                  ELSE <<Frame("error", r)>>
    IN  /\ target[r] \in {"sigcall:list", "sigcall:other"}
        /\ pending' = pending \cup {r}
        /\ FanOut(answer, TRUE)
        /\ UNCHANGED <<active, queue, hooked, forwarded>>

\* Mutant: no error for a call without a handler.
RejectSilently(f) ==
    /\ target[f.req] \in Names
    /\ Resolve(target[f.req]) = NoOwner
    /\ UNCHANGED <<pending, active, delivering, next, settling, queue, hooked, forwarded>>

RejectUnroutable(f) ==
    /\ target[f.req] \in Names
    /\ Resolve(target[f.req]) = NoOwner
    /\ FanOut(<<Frame("error", f.req)>>, FALSE)
    /\ UNCHANGED <<pending, active, queue, hooked, forwarded>>

\* Mutant: no error when the queue of the handler is full.
DispatchSilently(f) ==
    LET h == Resolve(target[f.req])
    IN  /\ target[f.req] \in Subsystems \cup Names
        /\ h # NoOwner
        /\ TrySend(h, f)
        /\ pending' = IF HasRoom(h) THEN pending \cup {f.req} ELSE pending
        /\ active' = IF HasRoom(h) THEN Remember(active, f.req, h) ELSE active
        /\ UNCHANGED <<delivering, next, settling, hooked>>

Dispatch(f) ==
    LET h == Resolve(target[f.req])
    IN  /\ target[f.req] \in Subsystems \cup Names
        /\ h # NoOwner
        /\ TrySend(h, f)
        /\ IF HasRoom(h)
           THEN /\ pending' = pending \cup {f.req}
                /\ active' = Remember(active, f.req, h)
                /\ UNCHANGED <<delivering, next, settling>>
           ELSE /\ pending' = pending \ {f.req}
                /\ active' = Forget(active, f.req)
                /\ FanOut(<<Frame("error", f.req)>>, FALSE)
        /\ UNCHANGED hooked

RouteRequest ==
    LET f == Head(inbound)
    IN  /\ Takes(f)
        /\ f.kind = "request"
        /\ ManageSigcalls(f) \/ RejectUnroutable(f) \/ Dispatch(f)
        /\ UNCHANGED <<registry, target, alive, log, taken, open, held, used, lost>>

\* Mutant: responses are fanned out without a pending entry.
RouteAnyResponse ==
    LET f == Head(inbound)
    IN  /\ Takes(f)
        /\ f.kind \in Responses
        /\ FanOut(<<f>>, IsTerminal(f))
        /\ UNCHANGED <<pending, active, channels, environment, hooked, forwarded, lost>>

\* A response is fanned out if its request is still pending, else dropped.
RouteResponse ==
    LET f == Head(inbound)
    IN  /\ Takes(f)
        /\ f.kind \in Responses
        /\ IF f.req \in pending THEN FanOut(<<f>>, IsTerminal(f))
                                ELSE UNCHANGED <<delivering, next, settling>>
        /\ UNCHANGED <<pending, active, channels, environment, hooked, forwarded, lost>>

\* Mutant: the active entry is read, not consumed.
TellHandlerAgain(f) ==
    /\ UNCHANGED active
    /\ IF f.req \in DOMAIN active
       THEN /\ hooked' = IF active[f.req] \in Hooked THEN hooked \cup {f.req} ELSE hooked
            /\ TrySend(active[f.req], f)
       ELSE UNCHANGED <<hooked, queue, forwarded>>

\* The handler is told once: its hook is called, and the cancel frame is sent to
\* it if there is room.
TellHandler(f) ==
    IF f.req \in DOMAIN active
    THEN /\ active' = Forget(active, f.req)
         /\ hooked' = IF active[f.req] \in Hooked THEN hooked \cup {f.req} ELSE hooked
         /\ TrySend(active[f.req], f)
    ELSE UNCHANGED <<active, hooked, queue, forwarded>>

\* Mutant: the terminal frame is left to the handler.
TellSubscribersLater(f) == UNCHANGED <<pending, delivering, next, settling>>

\* The subscribers get a terminal frame at once, if they had none yet.
TellSubscribers(f) ==
    IF f.req \in pending
    THEN /\ pending' = pending \ {f.req}
         /\ FanOut(<<f>>, FALSE)
    ELSE UNCHANGED <<pending, delivering, next, settling>>

RouteCancel ==
    LET f == Head(inbound)
    IN  /\ Takes(f)
        /\ f.kind = "cancel"
        /\ TellHandler(f)
        /\ TellSubscribers(f)
        /\ UNCHANGED <<registry, target, alive, log, taken, open, held, used, lost>>

\* Mutant: delivery without a stall timeout.
AcceptsInTheEnd(s, f) ==
    \/ /\ s \in open
       /\ Len(log[s]) - taken[s] < Capacity
       /\ log' = [log EXCEPT ![s] = Append(@, f)]
       /\ UNCHANGED lost
    \/ s \notin open /\ UNCHANGED <<log, lost>>

\* Subscriber s accepts f, or f is given up on because the channel of s stayed
\* full for stall_timeout, or because s is gone.
Accepts(s, f) ==
    \/ /\ s \in open
       /\ Len(log[s]) - taken[s] < Capacity
       /\ log' = [log EXCEPT ![s] = Append(@, f)]
       /\ UNCHANGED lost
    \/ /\ s \in open
       /\ Len(log[s]) - taken[s] = Capacity
       /\ lost' = lost \cup {<<s, f>>}
       /\ UNCHANGED log
    \/ s \notin open /\ UNCHANGED <<log, lost>>

\* One delivery of a fan-out; its outcome makes no difference to the loop.
Deliver ==
    /\ delivering # <<>>
    /\ next \in Subscribers
    /\ Accepts(next, Head(delivering))
    /\ next' = next + 1
    /\ UNCHANGED <<inbound, pending, active, delivering, settling, queue, taken, open,
                   alive, environment, handled, hooked, forwarded>>

\* Mutant: a terminal response cleans up one map only.
EndFanOutKeepsActive ==
    LET ends == settling /\ Len(delivering) = 1
    IN  /\ delivering # <<>>
        /\ next = NumSubscribers + 1
        /\ delivering' = Tail(delivering)
        /\ next' = 1
        /\ settling' = (settling /\ ~ends)
        /\ pending' = IF ends THEN pending \ {Head(delivering).req} ELSE pending
        /\ UNCHANGED <<active, inbound, channels, environment, history>>

\* The frame went to every subscriber.
EndFanOut ==
    LET r == Head(delivering).req
        ends == settling /\ Len(delivering) = 1
    IN  /\ delivering # <<>>
        /\ next = NumSubscribers + 1
        /\ delivering' = Tail(delivering)
        /\ next' = 1
        /\ settling' = (settling /\ ~ends)
        /\ pending' = IF ends THEN pending \ {r} ELSE pending
        /\ active' = IF ends THEN Forget(active, r) ELSE active
        /\ UNCHANGED <<inbound, channels, environment, history>>

Route == RouteRequest \/ RouteResponse \/ RouteCancel \/ Deliver \/ EndFanOut

-----------------------------------------------------------------------------
(* Clients, handlers, subscribers and sigcall owners.                       *)

Send(f) ==
    /\ Len(inbound) < InboundCapacity
    /\ inbound' = Append(inbound, f)

Submit(r, t) ==
    /\ r \notin DOMAIN target
    /\ Send(Frame("request", r))
    /\ target' = Remember(target, r, t)
    /\ UNCHANGED <<routing, channels, registry, held, used, history>>

\* A client may cancel before it submits, or have another task cancel: the
\* cancel of a request may overtake it.
Cancel(r) ==
    /\ used.cancels < MaxCancels
    /\ Send(Frame("cancel", r))
    /\ used' = [used EXCEPT !.cancels = @ + 1]
    /\ UNCHANGED <<routing, channels, registry, target, held, history>>

\* A handler receives a frame; what a cancel means to it is its own affair.
TakeFrame(h) ==
    /\ h \in alive
    /\ queue[h] # <<>>
    /\ queue' = [queue EXCEPT ![h] = Tail(@)]
    /\ held' = [held EXCEPT ![h] = @ \cup {Head(queue[h]).req}]
    /\ UNCHANGED <<inbound, routing, registry, target, alive, log, taken, open, used, history>>

\* A handler answers; a frame of status Cancel is one of the answers it may give.
Respond(h, r, k) ==
    /\ r \in held[h]
    /\ used.responses < MaxResponses
    /\ Send(Frame(k, r))
    /\ used' = [used EXCEPT !.responses = @ + 1]
    /\ UNCHANGED <<routing, channels, registry, target, held, history>>

\* A handler sends a frame that answers nothing.
Stray(k) ==
    /\ used.strays < MaxStrays
    /\ Send(Frame(k, NoRequest))
    /\ used' = [used EXCEPT !.strays = @ + 1]
    /\ UNCHANGED <<routing, channels, registry, target, held, history>>

\* A handler drops its receiver.  Its tasks and its bridge go on sending what
\* answers the requests it has taken.
HandlerGone(h) ==
    /\ h \in alive \cap Mortal
    /\ alive' = alive \ {h}
    /\ UNCHANGED <<inbound, routing, queue, log, taken, open, environment, history>>

Receive(s) ==
    /\ s \in open
    /\ taken[s] < Len(log[s])
    /\ taken' = [taken EXCEPT ![s] = @ + 1]
    /\ UNCHANGED <<inbound, routing, queue, log, open, alive, environment, history>>

SubscriberGone(s) ==
    /\ s \in open \cap Mortal
    /\ open' = open \ {s}
    /\ UNCHANGED <<inbound, routing, queue, log, taken, alive, environment, history>>

\* Register, unregister or take over a name (see SigcallRegistry).
ChangeRegistry(n, h) ==
    /\ used.changes < MaxChanges
    /\ registry[n] # h
    /\ registry' = [registry EXCEPT ![n] = h]
    /\ used' = [used EXCEPT !.changes = @ + 1]
    /\ UNCHANGED <<inbound, routing, channels, target, held, history>>

Environment ==
    \/ \E r \in Requests :
          \/ \E t \in Targets : Submit(r, t)
          \/ Cancel(r)
          \/ \E h \in Handlers, k \in Responses \cup {"cancel"} : Respond(h, r, k)
    \/ \E k \in {"item", "cancel"} : Stray(k)
    \/ \E h \in Handlers : TakeFrame(h) \/ HandlerGone(h)
    \/ \E s \in Subscribers : Receive(s) \/ SubscriberGone(s)
    \/ \E n \in Names, h \in Owners \cup {NoOwner} : ChangeRegistry(n, h)

Next == Route \/ Environment

Spec == Init /\ [][Next]_vars

\* The router's task is scheduled; the stall timeout ends every delivery.
FairSpec == Spec /\ WF_vars(Route)
-----------------------------------------------------------------------------
RangeOf(q) == {q[i] : i \in 1 .. Len(q)}

RoutingType ==
    /\ pending \subseteq Requests
    /\ DOMAIN active \subseteq Requests /\ active \in [DOMAIN active -> Handlers]
    /\ delivering \in Seq(Frames)
    /\ next \in 1 .. NumSubscribers + 1
    /\ settling \in BOOLEAN

ChannelsType ==
    /\ queue \in [Handlers -> Seq(Frames)]
    /\ \A h \in Handlers : Len(queue[h]) <= QueueCapacity
    /\ log \in [Subscribers -> Seq(Frames)] /\ taken \in [Subscribers -> Nat]
    /\ \A s \in Subscribers : taken[s] <= Len(log[s])
    /\ open \subseteq Subscribers
    /\ alive \subseteq Handlers

EnvironmentType ==
    /\ registry \in [Names -> Owners \cup {NoOwner}]
    /\ DOMAIN target \subseteq Requests /\ target \in [DOMAIN target -> Targets]
    /\ held \in [Handlers -> SUBSET Requests]
    /\ used \in [responses : Nat, cancels : Nat, changes : Nat, strays : Nat]

HistoryType ==
    /\ handled \subseteq DOMAIN target /\ hooked \subseteq handled
    /\ forwarded \in [Handlers -> Seq(Frames)]
    /\ lost \subseteq Subscribers \X Frames

InboundType == inbound \in Seq(Frames) /\ Len(inbound) <= InboundCapacity

\* Types, and the bounds of the channels.
TypeOK == InboundType /\ RoutingType /\ ChannelsType /\ EnvironmentType /\ HistoryType

HasTerminal(s, r) == \E f \in RangeOf(log[s]) : f.req = r /\ IsTerminal(f)
LostTerminal(s, r) == \E k \in Terminals : <<s, Frame(k, r)>> \in lost

\* The router is done with r.
Settled(r) ==
    /\ r \in handled \ pending
    /\ \A f \in RangeOf(delivering) : f.req # r

\* Each subscriber's channel is used as its flow control requires: whatever
\* handlers and clients do, nothing of a request follows its terminal frame.
Channel(s) ==
    INSTANCE DeliveryChannel WITH
        Streams <- Requests,
        Untracked <- NoRequest,
        accepted <- [i \in 1 .. Len(log[s]) |->
                        [stream |-> log[s][i].req, terminal |-> IsTerminal(log[s][i])]],
        taken <- taken[s],
        open <- (s \in open)
ChannelsAsPromised ==
    /\ \A s \in Subscribers : Channel(s)!Init
    /\ [][\A s \in Subscribers : [Channel(s)!Next]_(Channel(s)!vars)]_<<log, taken, open>>

\* The router forgets a request only when every subscriber has its terminal
\* frame, unless the channel of that subscriber stayed full or was closed.
SettledMeansTold ==
    \A r \in Requests :
        Settled(r) => \A s \in open : HasTerminal(s, r) \/ LostTerminal(s, r)

\* Between two frames, the requests that can be cancelled are those whose
\* responses are routed: neither map leaks an entry the other has dropped.
MapsAgree == delivering = <<>> => DOMAIN active = pending

\* A handler gets at most one cancel frame for a request, and after the request,
\* though clients and handlers send several and a cancel may come first.
CancelFollowsRequest ==
    \A h \in Handlers : \A j \in 1 .. Len(forwarded[h]) :
        forwarded[h][j].kind = "cancel" =>
            /\ \E i \in 1 .. j - 1 : forwarded[h][i] = Frame("request", forwarded[h][j].req)
            /\ \A i \in 1 .. Len(forwarded[h]) : forwarded[h][i] = forwarded[h][j] => i = j

\* Once the token of a request was triggered, no subscriber is told that the
\* request was done or failed.
HookedMeansCancelled ==
    \A r \in hooked, s \in Subscribers :
        \A f \in RangeOf(log[s]) : f.req = r /\ IsTerminal(f) => f.kind = "cancel"

\* The router reaches every submitted request, even if no subscriber and no
\* handler ever takes a frame again.
RequestsAreHandled == \A r \in Requests : r \in DOMAIN target ~> r \in handled

\* A cancel ends the routing of its request without the help of the handler, if
\* the router has taken the request.  (A cancel that the router takes before the
\* request is dropped, and the request runs: router.rs:257-273.)
CancelUnblocks ==
    \A r \in Requests :
        r \in handled /\ Frame("cancel", r) \in RangeOf(inbound) ~> Settled(r)

\* What backpressure.rs says of the stall timeout (57, 68): the stream is
\* cancelled.  So a subscriber that missed an item is not told Done.
StalledStreamIsCancelled ==
    \A s \in open, r \in Requests :
        <<s, Frame("item", r)>> \in lost => Frame("done", r) \notin RangeOf(log[s])
=============================================================================
