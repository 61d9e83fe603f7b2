---------------------------- MODULE Router_proofs ----------------------------
(***************************************************************************)
(* The properties of Router, for every number of requests, handlers and    *)
(* subscribers and every capacity of their channels.                       *)
(*                                                                         *)
(* None of them is inductive: a fan-out takes one step per subscriber and  *)
(* frame, and between these steps the maps, the frames still to deliver    *)
(* and the logs of the subscribers are out of step with each other.  The   *)
(* invariant says what they owe each other in the middle of a fan-out.     *)
(***************************************************************************)
EXTENDS Router, ChannelFacts, FiniteSetTheorems

\* The request whose answer is being fanned out.
Current == delivering[1].req
LastFrame == delivering[Len(delivering)]

\* A request is in the inbound channel once, before the router knows it.
RequestsOnce ==
    /\ \A i \in 1 .. Len(inbound) :
          inbound[i].kind = "request" => inbound[i].req \in DOMAIN target \ handled
    /\ \A i, j \in 1 .. Len(inbound) :
          inbound[i].kind = "request" /\ inbound[j] = inbound[i] => i = j
    /\ IsFiniteSet({n \in Names : registry[n] # NoOwner})
    /\ pending \subseteq handled /\ DOMAIN active \subseteq handled
    /\ \A h \in Handlers : \A i \in 1 .. Len(queue[h]) : queue[h][i].req \in Requests

\* What is fanned out: the answer to one request, whose last frame is terminal
\* exactly if the request is settled or will be at the end of the fan-out.
FanOutShape ==
    /\ delivering = <<>> => ~settling
    /\ delivering # <<>> =>
          /\ Current \in handled
          /\ settling => Current \in pending
          /\ IsTerminal(LastFrame) <=> settling \/ Current \notin pending
    /\ \A i \in 1 .. Len(delivering) :
          /\ delivering[i].req = Current
          /\ IsTerminal(delivering[i]) => i = Len(delivering)

\* The two maps have the same keys but for the request about to be settled.
MapsInStep ==
    IF settling THEN pending \ {Current} = DOMAIN active \ {Current}
                ELSE pending = DOMAIN active

Told(s, r) == s \in open => HasTerminal(s, r) \/ LostTerminal(s, r)

\* Whoever is not told of the end of a request yet is in front of the fan-out.
EndIsTold ==
    /\ \A r \in handled \ pending :
          \/ delivering # <<>> /\ Current = r
          \/ \A s \in Subscribers : Told(s, r)
    /\ Len(delivering) = 1 /\ IsTerminal(delivering[1]) =>
          \A s \in 1 .. next - 1 : Told(s, Current)

\* A subscriber has a terminal frame only of a request that is settled, or whose
\* last frame is past it in the fan-out.
EndIsLast ==
    \A s \in Subscribers, r \in Requests : HasTerminal(s, r) =>
        /\ r \in handled
        /\ r \in pending => settling /\ r = Current
        /\ delivering # <<>> /\ r = Current => Len(delivering) = 1 /\ s < next

\* A request whose hook was called is settled, and by its cancel frame.
HookedIsSettled ==
    \A r \in hooked :
        /\ r \notin pending /\ r \notin DOMAIN active
        /\ \A i \in 1 .. Len(delivering) : delivering[i].req = r => delivering[i].kind = "cancel"

\* A request that can be cancelled has been sent to its handler, and nobody was
\* sent a cancel of it.
CancelIsNew ==
    /\ \A h \in Handlers : \A i \in 1 .. Len(forwarded[h]) : forwarded[h][i].req \in handled
    /\ \A r \in DOMAIN active :
          /\ \E i \in 1 .. Len(forwarded[active[r]]) :
                forwarded[active[r]][i] = Frame("request", r)
          /\ \A h \in Handlers : \A i \in 1 .. Len(forwarded[h]) :
                forwarded[h][i] # Frame("cancel", r)

FanOutInv == RequestsOnce /\ FanOutShape /\ MapsInStep /\ EndIsTold /\ EndIsLast
CancelInv == HookedIsSettled /\ HookedMeansCancelled /\ CancelIsNew /\ CancelFollowsRequest

-----------------------------------------------------------------------------
(* What the proofs need to know of frames and of the router's operators.    *)

Kinds == {"request", "cancel"} \cup Responses

\* What a frame is made of.
LEMMA FrameParts ==
    /\ \A f \in Frames : f.kind \in Kinds /\ f.req \in Requests \cup {NoRequest}
                         /\ f = Frame(f.kind, f.req)
    /\ \A k \in Kinds, r \in Requests \cup {NoRequest} :
          Frame(k, r) \in Frames /\ Frame(k, r).kind = k /\ Frame(k, r).req = r
    /\ \A f \in Frames : IsTerminal(f) <=> f.kind \in {"done", "error", "cancel"}
BY DEF Frame, Frames, Kinds, Responses, IsTerminal, Terminals

\* A call resolves to a handler or to nothing.
LEMMA Resolves ==
    ASSUME TypeOK, NEW t \in Subsystems \cup Names, Resolve(t) # NoOwner
    PROVE  Resolve(t) \in Handlers
BY DEF Resolve, TypeOK, EnvironmentType, Handlers

\* The frame the loop takes from the inbound channel.
LEMMA TakeFacts ==
    ASSUME TypeOK, RequestsOnce, NEW f, f = Head(inbound), Takes(f)
    PROVE  /\ f \in Frames /\ delivering = <<>>
           /\ inbound' \in Seq(Frames)
           /\ Len(inbound) \in Nat \ {0} /\ Len(inbound') = Len(inbound) - 1
           /\ \A i \in 1 .. Len(inbound') : inbound'[i] = inbound[i + 1]
           /\ f = inbound[1]
           /\ f.kind = "request" => /\ f.req \in DOMAIN target \ handled
                                    /\ f.req \in Requests /\ f = Frame("request", f.req)
                                    /\ handled' = handled \cup {f.req}
           /\ f.kind # "request" => handled' = handled
<1>1. inbound \in Seq(Frames) /\ inbound # <<>>
    BY DEF TypeOK, InboundType, Takes
<1>2. /\ f \in Frames /\ f = inbound[1] /\ inbound' \in Seq(Frames)
      /\ Len(inbound) \in Nat \ {0} /\ Len(inbound') = Len(inbound) - 1
      /\ \A i \in 1 .. Len(inbound') : inbound'[i] = inbound[i + 1]
    BY <1>1, TailFacts DEF Takes
<1>3. f.kind = "request" => f.req \in DOMAIN target \ handled
    BY <1>2 DEF RequestsOnce
<1>4. DOMAIN target \subseteq Requests
    BY DEF TypeOK, EnvironmentType
<1> QED
    BY <1>2, <1>3, <1>4, FrameParts DEF Takes

\* What the router may fan out for r.
Answers(r, frames) ==
    /\ frames \in Seq(Frames) /\ Len(frames) \in Nat \ {0} /\ frames # <<>>
    /\ \A i \in 1 .. Len(frames) :
          frames[i].req = r /\ (IsTerminal(frames[i]) => i = Len(frames))

\* One frame is an answer.
LEMMA SingleAnswers ==
    ASSUME NEW f \in Frames
    PROVE  Answers(f.req, <<f>>) /\ Len(<<f>>) = 1 /\ <<f>>[1] = f
BY DEF Answers

\* The answer to a sigcall operation is items and one terminal frame at the end.
LEMMA ManageFacts ==
    ASSUME TypeOK, RequestsOnce, NEW f \in Frames, f.req \in Requests, ManageSigcalls(f)
    PROVE  /\ pending' = pending \cup {f.req}
           /\ next' = 1 /\ settling' = TRUE
           /\ Answers(f.req, delivering') /\ IsTerminal(delivering'[Len(delivering')])
           /\ \A i \in 1 .. Len(delivering') : delivering'[i].kind # "cancel"
           /\ UNCHANGED <<active, queue, hooked, forwarded>>
<1> DEFINE r == f.req
           count == Cardinality({n \in Names : registry[n] # NoOwner})
           all == [i \in 1 .. count |-> Frame("item", r)] \o <<Frame("done", r)>>
<1>1. count \in Nat
    BY FS_CardinalityType DEF RequestsOnce
<1>2. Frame("item", r) \in Frames /\ Frame("done", r) \in Frames /\ Frame("error", r) \in Frames
    BY FrameParts DEF Kinds, Responses
<1>3. /\ pending' = pending \cup {r} /\ next' = 1 /\ settling' = TRUE
      /\ UNCHANGED <<active, queue, hooked, forwarded>>
    BY DEF ManageSigcalls, FanOut
<1>4. /\ all \in Seq(Frames) /\ Len(all) = count + 1
      /\ \A i \in 1 .. count + 1 :
            all[i] = IF i = count + 1 THEN Frame("done", r) ELSE Frame("item", r)
    <2> HIDE DEF count
    <2> QED
        BY <1>1, <1>2, RepeatThenFacts
<1>5. CASE target[r] = "sigcall:list"
    <2>1. delivering' = all
        BY <1>5 DEF ManageSigcalls, FanOut
    <2> HIDE DEF all, count
    <2>2. \A i \in 1 .. Len(all) : /\ all[i].req = r /\ all[i].kind # "cancel"
                                   /\ IsTerminal(all[i]) <=> i = Len(all)
        BY <1>1, <1>2, <1>4, FrameParts DEF Kinds, Responses
    <2>3. Len(all) \in 1 .. Len(all) /\ Len(all) \in Nat \ {0} /\ all # <<>>
        BY <1>1, <1>4
    <2> QED
        BY <1>3, <1>4, <2>1, <2>2, <2>3 DEF Answers
<1>6. CASE target[r] # "sigcall:list"
    <2>1. delivering' = <<Frame("error", r)>>
        BY <1>6 DEF ManageSigcalls, FanOut
    <2>2. IsTerminal(Frame("error", r)) /\ Frame("error", r).req = r /\ Frame("error", r).kind # "cancel"
        BY <1>2, FrameParts DEF Kinds, Responses
    <2>3. Answers(r, delivering') /\ Len(delivering') = 1 /\ delivering'[1] = Frame("error", r)
        BY <1>2, <2>1, <2>2, SingleAnswers
    <2> QED
        BY <1>3, <2>2, <2>3
<1> QED
    BY <1>5, <1>6

\* A frame put in the channel of a handler, if there is room.
LEMMA TrySendFacts ==
    ASSUME TypeOK, NEW h \in Handlers, NEW f \in Frames, TrySend(h, f)
    PROVE  /\ queue' \in [Handlers -> Seq(Frames)] /\ forwarded' \in [Handlers -> Seq(Frames)]
           /\ \A g \in Handlers :
                 /\ Len(queue'[g]) <= QueueCapacity
                 /\ IF g = h /\ HasRoom(h)
                    THEN /\ queue'[g] = Append(queue[g], f)
                         /\ forwarded'[g] = Append(forwarded[g], f)
                    ELSE queue'[g] = queue[g] /\ forwarded'[g] = forwarded[g]
<1>1. /\ queue \in [Handlers -> Seq(Frames)] /\ forwarded \in [Handlers -> Seq(Frames)]
      /\ \A g \in Handlers : Len(queue[g]) <= QueueCapacity
    BY DEF TypeOK, ChannelsType, HistoryType
<1>2. CASE HasRoom(h)
    <2>1. /\ Append(queue[h], f) \in Seq(Frames) /\ Append(forwarded[h], f) \in Seq(Frames)
          /\ Len(Append(queue[h], f)) = Len(queue[h]) + 1 /\ Len(queue[h]) \in Nat
        BY <1>1, AppendFacts
    <2>2. Len(queue[h]) + 1 <= QueueCapacity
        BY <1>2, <2>1, ChannelsHaveRoom DEF HasRoom
    <2> QED
        BY <1>1, <1>2, <2>1, <2>2 DEF TrySend
<1>3. CASE ~HasRoom(h)
    BY <1>1, <1>3 DEF TrySend
<1> QED
    BY <1>2, <1>3

-----------------------------------------------------------------------------
(* Types, and what the inbound channel holds.                               *)

\* What every step of the loop that takes a frame keeps.
LEMMA TakesType ==
    ASSUME TypeOK, RequestsOnce, NEW f, f = Head(inbound), Takes(f),
           UNCHANGED <<registry, target, alive, log, taken, open, held, used, lost>>
    PROVE  InboundType' /\ EnvironmentType' /\ handled' \subseteq DOMAIN target'
<1>1. InboundType'
    <2>1. inbound' \in Seq(Frames) /\ Len(inbound') = Len(inbound) - 1 /\ Len(inbound) \in Nat
        BY TakeFacts
    <2>2. Len(inbound) <= InboundCapacity
        BY DEF TypeOK, InboundType
    <2> QED
        BY <2>1, <2>2, ChannelsHaveRoom DEF InboundType
<1>2. EnvironmentType'
    BY DEF TypeOK, EnvironmentType
<1>3. handled' \subseteq DOMAIN target'
    BY TakeFacts DEF TypeOK, HistoryType
<1> QED
    BY <1>1, <1>2, <1>3

\* The router starts a fan-out.
LEMMA FanOutType ==
    ASSUME TypeOK, NEW r, Answers(r, delivering'), next' = 1, settling' \in BOOLEAN,
           pending' \subseteq Requests,
           active' = active \/ \E x \in Requests : active' = Forget(active, x)
    PROVE  RoutingType'
<1>1. DOMAIN active' \subseteq Requests /\ active' \in [DOMAIN active' -> Handlers]
    BY DEF Forget, TypeOK, RoutingType
<1>2. next' \in 1 .. NumSubscribers + 1
    BY BoundsAreNat
<1> QED
    BY <1>1, <1>2 DEF RoutingType, Answers

\* RouteRequest keeps the types: every answer it starts is of known frames.
LEMMA RouteRequestType ==
    ASSUME TypeOK, RequestsOnce, RouteRequest
    PROVE  TypeOK'
<1>1. PICK f : /\ f = Head(inbound) /\ Takes(f) /\ f.kind = "request"
               /\ ManageSigcalls(f) \/ RejectUnroutable(f) \/ Dispatch(f)
               /\ UNCHANGED <<registry, target, alive, log, taken, open, held, used, lost>>
    BY DEF RouteRequest
<1>2. /\ f \in Frames /\ f.req \in Requests /\ f.req \in DOMAIN target
      /\ handled' = handled \cup {f.req}
    BY <1>1, TakeFacts
<1>3. InboundType' /\ EnvironmentType' /\ handled' \subseteq DOMAIN target'
    BY <1>1, TakesType
<1>4. RoutingType' /\ ChannelsType' /\ HistoryType'
    <2>1. pending \subseteq Requests /\ hooked \subseteq handled
        BY DEF TypeOK, RoutingType, HistoryType
    <2>2. UNCHANGED <<queue, hooked, forwarded>> => ChannelsType' /\ HistoryType'
        BY <1>1, <1>2, <1>3, <2>1 DEF TypeOK, ChannelsType, HistoryType
    <2>3. Frame("error", f.req) \in Frames /\ Frame("error", f.req).req = f.req
        BY <1>2, FrameParts DEF Kinds, Responses
    <2>4. Answers(f.req, <<Frame("error", f.req)>>)
        BY <2>3, SingleAnswers
    <2>5. CASE ManageSigcalls(f)
        <3>1. /\ pending' = pending \cup {f.req} /\ next' = 1 /\ settling' = TRUE
              /\ Answers(f.req, delivering')
              /\ UNCHANGED <<active, queue, hooked, forwarded>>
            BY <1>2, <2>5, ManageFacts
        <3>2. RoutingType'
            BY <1>2, <2>1, <3>1, FanOutType
        <3> QED
            BY <2>2, <3>1, <3>2
    <2>6. CASE RejectUnroutable(f)
        <3>1. /\ delivering' = <<Frame("error", f.req)>> /\ next' = 1 /\ settling' = FALSE
              /\ UNCHANGED <<pending, active, queue, hooked, forwarded>>
            BY <2>6 DEF RejectUnroutable, FanOut
        <3>2. RoutingType'
            BY <2>1, <2>4, <3>1, FanOutType
        <3> QED
            BY <2>2, <3>1, <3>2
    <2>7. CASE Dispatch(f)
        <3>1. PICK h \in Handlers : /\ TrySend(h, f) /\ hooked' = hooked
                                    /\ h = Resolve(target[f.req])
            BY <2>7, Resolves DEF Dispatch
        <3>2. /\ queue' \in [Handlers -> Seq(Frames)] /\ forwarded' \in [Handlers -> Seq(Frames)]
              /\ \A g \in Handlers : Len(queue'[g]) <= QueueCapacity
            BY <1>2, <3>1, TrySendFacts
        <3>3. ChannelsType' /\ HistoryType'
            BY <1>1, <1>2, <1>3, <3>1, <3>2 DEF TypeOK, ChannelsType, HistoryType
        <3>4. CASE HasRoom(h)
            <4>1. /\ pending' = pending \cup {f.req}
                  /\ active' = Remember(active, f.req, h)
                  /\ UNCHANGED <<delivering, next, settling>>
                BY <2>7, <3>1, <3>4 DEF Dispatch
            <4>2. RoutingType'
                BY <1>2, <3>1, <4>1 DEF Remember, TypeOK, RoutingType
            <4> QED
                BY <3>3, <4>2
        <3>5. CASE ~HasRoom(h)
            <4>1. /\ pending' = pending \ {f.req}
                  /\ active' = Forget(active, f.req)
                  /\ delivering' = <<Frame("error", f.req)>> /\ next' = 1 /\ settling' = FALSE
                BY <2>7, <3>1, <3>5 DEF Dispatch, FanOut
            <4>2. RoutingType'
                BY <1>2, <2>1, <2>4, <4>1, FanOutType
            <4> QED
                BY <3>3, <4>2
        <3> QED
            BY <3>4, <3>5
    <2> QED
        BY <1>1, <2>5, <2>6, <2>7
<1> QED
    BY <1>3, <1>4 DEF TypeOK

\* RouteResponse keeps the types.
LEMMA RouteResponseType ==
    ASSUME TypeOK, RequestsOnce, RouteResponse
    PROVE  TypeOK'
<1>1. PICK f : /\ f = Head(inbound) /\ Takes(f) /\ f.kind \in Responses
               /\ IF f.req \in pending THEN FanOut(<<f>>, IsTerminal(f))
                                       ELSE UNCHANGED <<delivering, next, settling>>
               /\ UNCHANGED <<registry, target, alive, log, taken, open, held, used, lost>>
               /\ UNCHANGED <<pending, active, queue, hooked, forwarded>>
    BY DEF RouteResponse, channels, environment
<1>2. f \in Frames /\ handled' = handled
    BY <1>1, TakeFacts DEF Responses
<1>3. InboundType' /\ EnvironmentType' /\ handled' \subseteq DOMAIN target'
    BY <1>1, TakesType
<1>4. ChannelsType' /\ HistoryType'
    BY <1>1, <1>2, <1>3 DEF TypeOK, ChannelsType, HistoryType
<1>5. RoutingType'
    <2>1. CASE f.req \in pending
        <3>1. Answers(f.req, delivering') /\ next' = 1 /\ settling' \in BOOLEAN
            BY <1>1, <1>2, <2>1, SingleAnswers DEF FanOut, IsTerminal
        <3>2. pending' \subseteq Requests /\ active' = active
            BY <1>1 DEF TypeOK, RoutingType
        <3> QED
            BY <3>1, <3>2, FanOutType
    <2>2. CASE f.req \notin pending
        BY <1>1, <2>2 DEF TypeOK, RoutingType
    <2> QED
        BY <2>1, <2>2
<1> QED
    BY <1>3, <1>4, <1>5 DEF TypeOK

\* RouteCancel keeps the types: a hook is called for a known request.
LEMMA RouteCancelType ==
    ASSUME TypeOK, RequestsOnce, RouteCancel
    PROVE  TypeOK'
<1>1. PICK f : /\ f = Head(inbound) /\ Takes(f) /\ f.kind = "cancel"
               /\ TellHandler(f) /\ TellSubscribers(f)
               /\ UNCHANGED <<registry, target, alive, log, taken, open, held, used, lost>>
    BY DEF RouteCancel
<1>2. f \in Frames /\ handled' = handled
    BY <1>1, TakeFacts
<1>3. InboundType' /\ EnvironmentType' /\ handled' \subseteq DOMAIN target'
    BY <1>1, TakesType
<1>4. ChannelsType' /\ HistoryType'
    <2>1. CASE f.req \in DOMAIN active
        <3>1. TrySend(active[f.req], f) /\ hooked' \subseteq hooked \cup {f.req}
            BY <1>1, <2>1 DEF TellHandler
        <3>2. active[f.req] \in Handlers /\ f.req \in handled
            BY <2>1 DEF TypeOK, RoutingType, RequestsOnce
        <3>3. /\ queue' \in [Handlers -> Seq(Frames)] /\ forwarded' \in [Handlers -> Seq(Frames)]
              /\ \A g \in Handlers : Len(queue'[g]) <= QueueCapacity
            BY <1>2, <3>1, <3>2, TrySendFacts
        <3> QED
            BY <1>1, <1>2, <1>3, <3>1, <3>2, <3>3 DEF TypeOK, ChannelsType, HistoryType
    <2>2. CASE f.req \notin DOMAIN active
        BY <1>1, <1>2, <1>3, <2>2 DEF TellHandler, TypeOK, ChannelsType, HistoryType
    <2> QED
        BY <2>1, <2>2
<1>5. RoutingType'
    <2>1. active' = active \/ (f.req \in DOMAIN active /\ active' = Forget(active, f.req))
        BY <1>1 DEF TellHandler
    <2>2. DOMAIN active \subseteq Requests
        BY DEF TypeOK, RoutingType
    <2>3. active' = active \/ \E x \in Requests : active' = Forget(active, x)
        BY <2>1, <2>2
    <2>4. CASE f.req \in pending
        <3>1. Answers(f.req, delivering') /\ next' = 1 /\ settling' \in BOOLEAN
            BY <1>1, <1>2, <2>4, SingleAnswers DEF TellSubscribers, FanOut
        <3>2. pending' \subseteq Requests
            BY <1>1, <2>4 DEF TypeOK, RoutingType, TellSubscribers
        <3> QED
            BY <2>3, <3>1, <3>2, FanOutType
    <2>5. CASE f.req \notin pending
        <3>1. UNCHANGED <<pending, delivering, next, settling>>
            BY <1>1, <2>5 DEF TellSubscribers
        <3> QED
            BY <2>3, <3>1 DEF Forget, TypeOK, RoutingType
    <2> QED
        BY <2>4, <2>5
<1> QED
    BY <1>3, <1>4, <1>5 DEF TypeOK

\* The outcome of one delivery.
LEMMA DeliverFacts ==
    ASSUME TypeOK, Deliver
    PROVE  /\ delivering # <<>> /\ Len(delivering) \in Nat \ {0}
           /\ delivering[1] \in Frames /\ next \in Subscribers /\ next' = next + 1
           /\ log' \in [Subscribers -> Seq(Frames)]
           /\ \A s \in Subscribers : s # next => log'[s] = log[s]
           /\ \/ /\ next \in open /\ Len(log[next]) - taken[next] < Capacity
                 /\ log'[next] = Append(log[next], delivering[1]) /\ lost' = lost
              \/ log' = log /\ lost' = lost \cup {<<next, delivering[1]>>}
              \/ next \notin open /\ log' = log /\ lost' = lost
<1>1. delivering \in Seq(Frames) /\ delivering # <<>>
    BY DEF TypeOK, RoutingType, Deliver
<1>2. /\ Len(delivering) \in Nat \ {0} /\ Head(delivering) \in Frames
      /\ Head(delivering) = delivering[1]
    BY <1>1, TailFacts
<1>3. next \in Subscribers /\ next' = next + 1 /\ Accepts(next, delivering[1])
    BY <1>2 DEF Deliver
<1>4. log \in [Subscribers -> Seq(Frames)]
    BY DEF TypeOK, ChannelsType
<1>5. Append(log[next], delivering[1]) \in Seq(Frames)
    BY <1>2, <1>3, <1>4, AppendFacts
<1> QED
    BY <1>1, <1>2, <1>3, <1>4, <1>5 DEF Accepts

\* The fan-out keeps the types.
LEMMA DeliverType ==
    ASSUME TypeOK, Deliver
    PROVE  TypeOK'
<1>1. /\ UNCHANGED <<inbound, pending, active, delivering, settling, queue, taken, open, alive>>
      /\ UNCHANGED <<registry, target, held, used, handled, hooked, forwarded>>
    BY DEF Deliver, environment
<1>2. InboundType' /\ EnvironmentType'
    BY <1>1 DEF TypeOK, InboundType, EnvironmentType
<1>3. RoutingType'
    BY <1>1, DeliverFacts, BoundsAreNat DEF TypeOK, RoutingType, Subscribers
<1>4. ChannelsType'
    <2>1. \A s \in Subscribers : taken[s] <= Len(log'[s])
        <3> SUFFICES ASSUME NEW s \in Subscribers PROVE taken[s] <= Len(log'[s])
            OBVIOUS
        <3>1. taken[s] \in Nat /\ log[s] \in Seq(Frames) /\ taken[s] <= Len(log[s])
            BY DEF TypeOK, ChannelsType
        <3>2. log'[s] = log[s] \/ log'[s] = Append(log[s], delivering[1])
            BY DeliverFacts
        <3>3. Len(Append(log[s], delivering[1])) = Len(log[s]) + 1 /\ Len(log[s]) \in Nat
            BY <3>1, DeliverFacts, AppendFacts
        <3> QED
            BY <3>1, <3>2, <3>3
    <2> QED
        BY <1>1, <2>1, DeliverFacts DEF TypeOK, ChannelsType
<1>5. HistoryType'
    <2>1. lost' \subseteq Subscribers \X Frames
        BY DeliverFacts DEF TypeOK, HistoryType
    <2> QED
        BY <1>1, <2>1 DEF TypeOK, HistoryType
<1> QED
    BY <1>2, <1>3, <1>4, <1>5 DEF TypeOK

\* The end of the fan-out of one frame.
LEMMA EndFanOutFacts ==
    ASSUME TypeOK, EndFanOut
    PROVE  /\ delivering # <<>> /\ Len(delivering) \in Nat \ {0}
           /\ delivering' \in Seq(Frames) /\ Len(delivering') = Len(delivering) - 1
           /\ \A i \in 1 .. Len(delivering') : delivering'[i] = delivering[i + 1]
           /\ delivering' = <<>> <=> Len(delivering) = 1
           /\ next = NumSubscribers + 1 /\ next' = 1
           /\ IF settling /\ Len(delivering) = 1
              THEN /\ settling' = FALSE /\ pending' = pending \ {Current}
                   /\ active' = Forget(active, Current)
              ELSE UNCHANGED <<settling, pending, active>>
           /\ UNCHANGED <<inbound, queue, log, taken, open, alive>>
           /\ UNCHANGED <<registry, target, held, used, handled, hooked, forwarded, lost>>
<1>1. delivering \in Seq(Frames) /\ delivering # <<>> /\ settling \in BOOLEAN
    BY DEF TypeOK, RoutingType, EndFanOut
<1>2. /\ Len(delivering) \in Nat \ {0} /\ Head(delivering) = delivering[1]
      /\ Tail(delivering) \in Seq(Frames) /\ Len(Tail(delivering)) = Len(delivering) - 1
      /\ \A i \in 1 .. Len(Tail(delivering)) : Tail(delivering)[i] = delivering[i + 1]
    BY <1>1, TailFacts
<1>3. Tail(delivering) = <<>> <=> Len(delivering) = 1
    <2>1. Tail(delivering) = <<>> <=> Len(Tail(delivering)) = 0
        BY <1>2, EmptyFacts
    <2> QED
        BY <1>2, <2>1
<1>4. delivering' = Tail(delivering)
    BY DEF EndFanOut
<1> QED
    BY <1>1, <1>2, <1>3, <1>4 DEF EndFanOut, Current, channels, environment, history

\* So does its end.
LEMMA EndFanOutType ==
    ASSUME TypeOK, EndFanOut
    PROVE  TypeOK'
<1>1. InboundType' /\ EnvironmentType' /\ HistoryType' /\ ChannelsType'
    BY EndFanOutFacts DEF TypeOK, InboundType, EnvironmentType, HistoryType, ChannelsType
<1>2. /\ pending' \subseteq Requests /\ settling' \in BOOLEAN
      /\ DOMAIN active' \subseteq Requests /\ active' \in [DOMAIN active' -> Handlers]
    BY EndFanOutFacts DEF TypeOK, RoutingType, Forget
<1>3. delivering' \in Seq(Frames) /\ next' \in 1 .. NumSubscribers + 1
    BY EndFanOutFacts, BoundsAreNat
<1> QED
    BY <1>1, <1>2, <1>3 DEF TypeOK, RoutingType

\* A frame sent to the router.
LEMMA SendFacts ==
    ASSUME TypeOK, NEW f \in Frames, Send(f)
    PROVE  /\ InboundType'
           /\ Len(inbound) \in Nat /\ Len(inbound') = Len(inbound) + 1
           /\ \A i \in 1 .. Len(inbound) : inbound'[i] = inbound[i]
           /\ inbound'[Len(inbound) + 1] = f
<1>1. inbound \in Seq(Frames)
    BY DEF TypeOK, InboundType
<1>2. /\ Append(inbound, f) \in Seq(Frames)
      /\ Len(inbound) \in Nat /\ Len(Append(inbound, f)) = Len(inbound) + 1
      /\ \A i \in 1 .. Len(inbound) : Append(inbound, f)[i] = inbound[i]
      /\ Append(inbound, f)[Len(inbound) + 1] = f
    BY <1>1, AppendFacts
<1> QED
    BY <1>2, ChannelsHaveRoom DEF Send, InboundType

\* Clients, handlers and subscribers leave the routing alone, but for frames
\* they send.
EnvironmentEffect ==
    /\ UNCHANGED <<pending, active, delivering, next, settling>>
    /\ UNCHANGED <<log, handled, hooked, forwarded, lost>>
    /\ open' \subseteq open

\* Each step of the environment keeps the types and what RequestsOnce says of
\* the inbound channel and the queues.
LEMMA SubmitStep ==
    ASSUME TypeOK, RequestsOnce, NEW r \in Requests, NEW t \in Targets, Submit(r, t)
    PROVE  TypeOK' /\ RequestsOnce' /\ EnvironmentEffect
<1> DEFINE f == Frame("request", r)
<1>1. f \in Frames /\ f.req = r /\ f.kind = "request"
    BY FrameParts DEF Kinds
<1>2. /\ r \notin DOMAIN target /\ Send(f) /\ target' = Remember(target, r, t)
      /\ UNCHANGED <<routing, channels, registry, held, used, history>>
    BY DEF Submit
<1> HIDE DEF f
<1>3. /\ InboundType'
      /\ Len(inbound) \in Nat /\ Len(inbound') = Len(inbound) + 1
      /\ \A i \in 1 .. Len(inbound) : inbound'[i] = inbound[i]
      /\ inbound'[Len(inbound) + 1] = f
    BY <1>1, <1>2, SendFacts
<1>4. /\ DOMAIN target' = DOMAIN target \cup {r} /\ target' \in [DOMAIN target' -> Targets]
    BY <1>2 DEF Remember, TypeOK, EnvironmentType
<1>5. handled \subseteq DOMAIN target
    BY DEF TypeOK, HistoryType
<1>6. EnvironmentEffect
    BY <1>2 DEF EnvironmentEffect, routing, channels, history
<1>7. TypeOK'
    <2>1. RoutingType' /\ ChannelsType'
        BY <1>2 DEF TypeOK, RoutingType, ChannelsType, routing, channels
    <2>2. EnvironmentType'
        BY <1>2, <1>4 DEF TypeOK, EnvironmentType
    <2>3. HistoryType'
        BY <1>2, <1>4 DEF TypeOK, HistoryType, history
    <2> QED
        BY <1>3, <2>1, <2>2, <2>3 DEF TypeOK
<1>8. RequestsOnce'
    <2>1. \A i \in 1 .. Len(inbound') :
              inbound'[i].kind = "request" => inbound'[i].req \in DOMAIN target' \ handled'
        BY <1>1, <1>2, <1>3, <1>4, <1>5 DEF RequestsOnce, history
    <2>2. \A i, j \in 1 .. Len(inbound') :
              inbound'[i].kind = "request" /\ inbound'[j] = inbound'[i] => i = j
        BY <1>1, <1>2, <1>3 DEF RequestsOnce
    <2> QED
        BY <1>2, <2>1, <2>2 DEF RequestsOnce, routing, channels, history
<1> QED
    BY <1>6, <1>7, <1>8

\* A frame that is no request.
LEMMA OtherSendStep ==
    ASSUME TypeOK, RequestsOnce, NEW f \in Frames, f.kind # "request", Send(f),
           used' \in [responses : Nat, cancels : Nat, changes : Nat, strays : Nat],
           UNCHANGED <<routing, channels, registry, target, held, history>>
    PROVE  TypeOK' /\ RequestsOnce' /\ EnvironmentEffect
<1>1. /\ InboundType'
      /\ Len(inbound) \in Nat /\ Len(inbound') = Len(inbound) + 1
      /\ \A i \in 1 .. Len(inbound) : inbound'[i] = inbound[i]
      /\ inbound'[Len(inbound) + 1] = f
    BY SendFacts
<1>2. EnvironmentEffect
    BY DEF EnvironmentEffect, routing, channels, history
<1>3. TypeOK'
    BY <1>1 DEF TypeOK, RoutingType, ChannelsType, EnvironmentType, HistoryType, routing, channels, history
<1>4. RequestsOnce'
    <2>1. \A i \in 1 .. Len(inbound') :
              inbound'[i].kind = "request" => inbound'[i].req \in DOMAIN target' \ handled'
        BY <1>1 DEF RequestsOnce, history
    <2>2. \A i, j \in 1 .. Len(inbound') :
              inbound'[i].kind = "request" /\ inbound'[j] = inbound'[i] => i = j
        BY <1>1 DEF RequestsOnce
    <2> QED
        BY <2>1, <2>2 DEF RequestsOnce, routing, channels, history
<1> QED
    BY <1>2, <1>3, <1>4

\* What clients, handlers and subscribers do.
LEMMA EnvironmentStep ==
    ASSUME TypeOK, RequestsOnce, Environment
    PROVE  TypeOK' /\ RequestsOnce' /\ EnvironmentEffect
<1>1. ASSUME NEW r \in Requests, NEW t \in Targets, Submit(r, t)
      PROVE  TypeOK' /\ RequestsOnce' /\ EnvironmentEffect
    BY <1>1, SubmitStep
<1>2. used \in [responses : Nat, cancels : Nat, changes : Nat, strays : Nat]
    BY DEF TypeOK, EnvironmentType
<1>3. ASSUME NEW r \in Requests, Cancel(r)
      PROVE  TypeOK' /\ RequestsOnce' /\ EnvironmentEffect
    <2>1. Frame("cancel", r) \in Frames /\ Frame("cancel", r).kind # "request"
        BY FrameParts DEF Kinds
    <2>2. used' \in [responses : Nat, cancels : Nat, changes : Nat, strays : Nat]
        BY <1>2, <1>3 DEF Cancel
    <2> QED
        BY <1>3, <2>1, <2>2, OtherSendStep DEF Cancel
<1>4. ASSUME NEW r \in Requests, NEW h \in Handlers, NEW k \in Responses \cup {"cancel"},
             Respond(h, r, k)
      PROVE  TypeOK' /\ RequestsOnce' /\ EnvironmentEffect
    <2>1. Frame(k, r) \in Frames /\ Frame(k, r).kind # "request"
        BY FrameParts DEF Kinds, Responses
    <2>2. used' \in [responses : Nat, cancels : Nat, changes : Nat, strays : Nat]
        BY <1>2, <1>4 DEF Respond
    <2> QED
        BY <1>4, <2>1, <2>2, OtherSendStep DEF Respond
<1>5. ASSUME NEW k \in {"item", "cancel"}, Stray(k)
      PROVE  TypeOK' /\ RequestsOnce' /\ EnvironmentEffect
    <2>1. Frame(k, NoRequest) \in Frames /\ Frame(k, NoRequest).kind # "request"
        BY FrameParts DEF Kinds, Responses
    <2>2. used' \in [responses : Nat, cancels : Nat, changes : Nat, strays : Nat]
        BY <1>2, <1>5 DEF Stray
    <2> QED
        BY <1>5, <2>1, <2>2, OtherSendStep DEF Stray
<1>6. ASSUME NEW h \in Handlers, TakeFrame(h)
      PROVE  TypeOK' /\ RequestsOnce' /\ EnvironmentEffect
    <2>1. queue[h] \in Seq(Frames) /\ queue[h] # <<>> /\ Len(queue[h]) <= QueueCapacity
        BY <1>6 DEF TakeFrame, TypeOK, ChannelsType
    <2>2. /\ Tail(queue[h]) \in Seq(Frames) /\ Len(queue[h]) \in Nat \ {0}
          /\ Len(Tail(queue[h])) = Len(queue[h]) - 1 /\ Head(queue[h]) = queue[h][1]
          /\ \A i \in 1 .. Len(Tail(queue[h])) : Tail(queue[h])[i] = queue[h][i + 1]
        BY <2>1, TailFacts
    <2>3. Head(queue[h]).req \in Requests
        BY <2>2 DEF RequestsOnce
    <2>4. /\ queue' = [queue EXCEPT ![h] = Tail(@)]
          /\ held' = [held EXCEPT ![h] = @ \cup {Head(queue[h]).req}]
          /\ UNCHANGED <<inbound, pending, active, delivering, next, settling, registry, target,
                         alive, log, taken, open, used, handled, hooked, forwarded, lost>>
        BY <1>6 DEF TakeFrame, routing, history
    <2>5. Len(Tail(queue[h])) <= QueueCapacity
        BY <2>1, <2>2, ChannelsHaveRoom
    <2>6. ChannelsType'
        BY <2>2, <2>4, <2>5 DEF TypeOK, ChannelsType
    <2>7. EnvironmentType'
        BY <2>3, <2>4 DEF TypeOK, EnvironmentType
    <2>8. InboundType' /\ RoutingType' /\ HistoryType'
        BY <2>4 DEF TypeOK, InboundType, RoutingType, HistoryType
    <2>9. \A g \in Handlers : \A i \in 1 .. Len(queue'[g]) : queue'[g][i].req \in Requests
        BY <2>2, <2>4 DEF RequestsOnce, TypeOK, ChannelsType
    <2>10. RequestsOnce'
        BY <2>4, <2>9 DEF RequestsOnce
    <2> QED
        BY <2>4, <2>6, <2>7, <2>8, <2>10 DEF TypeOK, EnvironmentEffect
<1>7. ASSUME NEW h \in Handlers, HandlerGone(h)
      PROVE  TypeOK' /\ RequestsOnce' /\ EnvironmentEffect
    <2>1. TypeOK'
        BY <1>7 DEF HandlerGone, TypeOK, InboundType, RoutingType, ChannelsType, EnvironmentType,
                    HistoryType, routing, environment, history
    <2> QED
        BY <1>7, <2>1 DEF HandlerGone, RequestsOnce, EnvironmentEffect, routing, environment, history
<1>8. ASSUME NEW s \in Subscribers, Receive(s)
      PROVE  TypeOK' /\ RequestsOnce' /\ EnvironmentEffect
    <2>1. /\ taken' = [taken EXCEPT ![s] = @ + 1] /\ taken[s] < Len(log[s])
          /\ UNCHANGED <<inbound, pending, active, delivering, next, settling, queue, log, open,
                         alive, registry, target, held, used, handled, hooked, forwarded, lost>>
        BY <1>8 DEF Receive, routing, environment, history
    <2>2. ChannelsType'
        BY <2>1 DEF TypeOK, ChannelsType
    <2>3. TypeOK'
        BY <2>1, <2>2 DEF TypeOK, InboundType, RoutingType, EnvironmentType, HistoryType
    <2> QED
        BY <2>1, <2>3 DEF RequestsOnce, EnvironmentEffect
<1>9. ASSUME NEW s \in Subscribers, SubscriberGone(s)
      PROVE  TypeOK' /\ RequestsOnce' /\ EnvironmentEffect
    <2>1. TypeOK'
        BY <1>9 DEF SubscriberGone, TypeOK, InboundType, RoutingType, ChannelsType, EnvironmentType,
                    HistoryType, routing, environment, history
    <2> QED
        BY <1>9, <2>1 DEF SubscriberGone, RequestsOnce, EnvironmentEffect, routing, environment,
                          history
<1>10. ASSUME NEW n \in Names, NEW h \in Owners \cup {NoOwner}, ChangeRegistry(n, h)
       PROVE  TypeOK' /\ RequestsOnce' /\ EnvironmentEffect
    <2>1. /\ registry' = [registry EXCEPT ![n] = h]
          /\ used' = [used EXCEPT !.changes = @ + 1]
          /\ UNCHANGED <<inbound, pending, active, delivering, next, settling, queue, log, taken,
                         open, alive, target, held, handled, hooked, forwarded, lost>>
        BY <1>10 DEF ChangeRegistry, routing, channels, history
    <2>2. EnvironmentType'
        BY <2>1 DEF TypeOK, EnvironmentType
    <2>3. TypeOK'
        BY <2>1, <2>2 DEF TypeOK, InboundType, RoutingType, ChannelsType, HistoryType
    <2>4. IsFiniteSet({m \in Names : registry'[m] # NoOwner})
        <3> DEFINE old == {m \in Names : registry[m] # NoOwner}
                   new == {m \in Names : registry'[m] # NoOwner}
        <3>1. IsFiniteSet(old \cup {n})
            BY FS_AddElement DEF RequestsOnce
        <3>2. new \subseteq old \cup {n}
            BY <2>1 DEF TypeOK, EnvironmentType
        <3> HIDE DEF old, new
        <3>3. IsFiniteSet(new)
            BY <3>1, <3>2, FS_Subset
        <3> QED
            BY <3>3 DEF new
    <2> QED
        BY <2>1, <2>3, <2>4 DEF RequestsOnce, EnvironmentEffect
<1> QED
    BY <1>1, <1>3, <1>4, <1>5, <1>6, <1>7, <1>8, <1>9, <1>10 DEF Environment

-----------------------------------------------------------------------------
(* What taking a frame does to the routing.                                 *)

\* The router admits r, answers it, or settles it, and starts the fan-out of
\* that; a request it passed on has nothing to fan out yet.
Routes(r) ==
    /\ r \in Requests /\ handled' = handled \cup {r}
    /\ r \in handled => r \in pending
    /\ pending' \ {r} = pending \ {r} /\ DOMAIN active' \ {r} = DOMAIN active \ {r}
    /\ \/ /\ Answers(r, delivering') /\ next' = 1
          /\ settling' => r \in pending'
          /\ IsTerminal(LastFrame') <=> settling' \/ r \notin pending'
          /\ settling' \/ (r \in pending' <=> r \in DOMAIN active')
       \/ /\ delivering' = <<>> /\ ~settling'
          /\ r \in pending' /\ r \in DOMAIN active'

\* The frame changes nothing.
Drops == UNCHANGED <<pending, active, delivering, settling, handled, hooked, queue, forwarded>>

\* Between two frames nothing is settling, and the maps have the same keys.
LEMMA BetweenFrames ==
    ASSUME TypeOK, FanOutShape, MapsInStep, delivering = <<>>
    PROVE  settling = FALSE /\ pending = DOMAIN active
BY DEF TypeOK, RoutingType, FanOutShape, MapsInStep

\* A fan-out of one frame.
LEMMA OneFrame ==
    ASSUME NEW f \in Frames, delivering' = <<f>>
    PROVE  Answers(f.req, delivering') /\ LastFrame' = f /\ Len(delivering') = 1
           /\ delivering'[1] = f
BY SingleAnswers DEF LastFrame

\* What the handler of requests does.
LEMMA RouteRequestEffect ==
    ASSUME TypeOK, RequestsOnce, FanOutShape, MapsInStep, RouteRequest
    PROVE  \E r \in Requests \ handled :
              /\ Routes(r) /\ hooked' = hooked
              /\ \A i \in 1 .. Len(delivering') : delivering'[i].req = r
<1>1. PICK f : /\ f = Head(inbound) /\ Takes(f) /\ f.kind = "request"
               /\ ManageSigcalls(f) \/ RejectUnroutable(f) \/ Dispatch(f)
    BY DEF RouteRequest
<1> DEFINE r == f.req
<1>2. /\ f \in Frames /\ r \in Requests \ handled /\ handled' = handled \cup {r}
      /\ delivering = <<>>
    BY <1>1, TakeFacts
<1>3. settling = FALSE /\ pending = DOMAIN active /\ r \notin pending /\ r \notin DOMAIN active
    BY <1>2, BetweenFrames DEF RequestsOnce
<1>4. /\ Frame("error", r) \in Frames /\ Frame("error", r).req = r
      /\ IsTerminal(Frame("error", r))
    BY <1>2, FrameParts DEF Kinds, Responses
<1>5. CASE ManageSigcalls(f)
    <2>1. /\ pending' = pending \cup {r} /\ next' = 1 /\ settling' = TRUE
          /\ Answers(r, delivering') /\ IsTerminal(LastFrame')
          /\ active' = active /\ hooked' = hooked
        BY <1>2, <1>5, ManageFacts DEF LastFrame
    <2>2. Routes(r)
        BY <1>2, <1>3, <2>1 DEF Routes
    <2> QED
        BY <1>2, <2>1, <2>2 DEF Answers
<1>6. ASSUME delivering' = <<Frame("error", r)>>, next' = 1, settling' = FALSE,
             pending' = pending, DOMAIN active' = DOMAIN active
      PROVE  Routes(r) /\ \A i \in 1 .. Len(delivering') : delivering'[i].req = r
    <2>1. Answers(r, delivering') /\ LastFrame' = Frame("error", r)
        BY <1>4, <1>6, OneFrame
    <2>2. Routes(r)
        BY <1>2, <1>3, <1>4, <1>6, <2>1 DEF Routes
    <2> QED
        BY <2>1, <2>2 DEF Answers
<1>7. CASE RejectUnroutable(f)
    <2>1. /\ delivering' = <<Frame("error", r)>> /\ next' = 1 /\ settling' = FALSE
          /\ pending' = pending /\ active' = active /\ hooked' = hooked
        BY <1>7 DEF RejectUnroutable, FanOut
    <2> QED
        BY <1>2, <1>6, <2>1
<1>8. CASE Dispatch(f)
    <2> DEFINE h == Resolve(target[r])
    <2>1. CASE HasRoom(h)
        <3>1. /\ pending' = pending \cup {r} /\ active' = Remember(active, r, h)
              /\ delivering' = <<>> /\ settling' = FALSE /\ hooked' = hooked
            BY <1>2, <1>3, <1>8, <2>1 DEF Dispatch
        <3> HIDE DEF h
        <3>2. DOMAIN active' = DOMAIN active \cup {r}
            BY <3>1 DEF Remember
        <3>3. Routes(r)
            BY <1>2, <1>3, <3>1, <3>2 DEF Routes
        <3> QED
            BY <1>2, <3>1, <3>3
    <2>2. CASE ~HasRoom(h)
        <3>1. /\ pending' = pending \ {r} /\ active' = Forget(active, r)
              /\ delivering' = <<Frame("error", r)>> /\ next' = 1 /\ settling' = FALSE
              /\ hooked' = hooked
            BY <1>8, <2>2 DEF Dispatch, FanOut
        <3>2. DOMAIN active' = DOMAIN active /\ pending' = pending
            BY <1>3, <3>1 DEF Forget
        <3> QED
            BY <1>2, <1>6, <3>1, <3>2
    <2> QED
        BY <2>1, <2>2
<1> QED
    BY <1>1, <1>5, <1>7, <1>8

\* What the handler of responses does.
LEMMA RouteResponseEffect ==
    ASSUME TypeOK, RequestsOnce, FanOutShape, MapsInStep, RouteResponse
    PROVE  \/ Drops
           \/ \E r \in pending : /\ Routes(r)
                                 /\ UNCHANGED <<pending, active, handled, hooked, queue, forwarded>>
                                 /\ \A i \in 1 .. Len(delivering') : delivering'[i].req = r
<1>1. PICK f : /\ f = Head(inbound) /\ Takes(f) /\ f.kind \in Responses
               /\ IF f.req \in pending THEN FanOut(<<f>>, IsTerminal(f))
                                       ELSE UNCHANGED <<delivering, next, settling>>
               /\ UNCHANGED <<pending, active, queue, hooked, forwarded>>
    BY DEF RouteResponse, channels
<1>2. /\ f \in Frames /\ handled' = handled /\ delivering = <<>>
    BY <1>1, TakeFacts DEF Responses
<1>3. settling = FALSE /\ pending = DOMAIN active
    BY <1>2, BetweenFrames
<1>4. CASE f.req \in pending
    <2>1. delivering' = <<f>> /\ next' = 1 /\ settling' = IsTerminal(f)
        BY <1>1, <1>4 DEF FanOut
    <2>2. Answers(f.req, delivering') /\ LastFrame' = f
        BY <1>2, <2>1, OneFrame
    <2>3. f.req \in Requests /\ f.req \in handled
        BY <1>4 DEF TypeOK, RoutingType, RequestsOnce
    <2>4. IsTerminal(LastFrame') <=> settling'
        BY <2>1, <2>2
    <2>5. Routes(f.req)
        BY <1>1, <1>2, <1>3, <1>4, <2>1, <2>2, <2>3, <2>4 DEF Routes
    <2> QED
        BY <1>1, <1>2, <1>4, <2>2, <2>5 DEF Answers
<1>5. CASE f.req \notin pending
    BY <1>1, <1>2, <1>5 DEF Drops
<1> QED
    BY <1>4, <1>5

\* What the handler of cancels does.
LEMMA RouteCancelEffect ==
    ASSUME TypeOK, RequestsOnce, FanOutShape, MapsInStep, RouteCancel
    PROVE  \/ Drops
           \/ \E r \in pending :
                 /\ Routes(r) /\ handled' = handled
                 /\ pending' = pending \ {r} /\ active' = Forget(active, r)
                 /\ hooked' = IF active[r] \in Hooked THEN hooked \cup {r} ELSE hooked
                 /\ TrySend(active[r], Frame("cancel", r))
                 /\ \A i \in 1 .. Len(delivering') : delivering'[i] = Frame("cancel", r)
<1>1. PICK f : /\ f = Head(inbound) /\ Takes(f) /\ f.kind = "cancel"
               /\ TellHandler(f) /\ TellSubscribers(f)
    BY DEF RouteCancel
<1> DEFINE r == f.req
<1>2. /\ f \in Frames /\ handled' = handled /\ delivering = <<>> /\ f = Frame("cancel", r)
      /\ IsTerminal(f)
    BY <1>1, TakeFacts, FrameParts
<1>3. settling = FALSE /\ pending = DOMAIN active
    BY <1>2, BetweenFrames
<1>4. CASE r \in pending
    <2>1. /\ active' = Forget(active, r) /\ TrySend(active[r], f)
          /\ hooked' = IF active[r] \in Hooked THEN hooked \cup {r} ELSE hooked
        BY <1>1, <1>3, <1>4 DEF TellHandler
    <2>2. pending' = pending \ {r} /\ delivering' = <<f>> /\ next' = 1 /\ settling' = FALSE
        BY <1>1, <1>4 DEF TellSubscribers, FanOut
    <2>3. r \in Requests /\ r \in handled
        BY <1>4 DEF TypeOK, RoutingType, RequestsOnce
    <2>4. DOMAIN active' = DOMAIN active \ {r}
        BY <2>1 DEF Forget
    <2>5. /\ Answers(r, delivering') /\ LastFrame' = f
          /\ Len(delivering') = 1 /\ delivering'[1] = f
        BY <1>2, <2>2, OneFrame
    <2>6. Routes(r)
        BY <1>2, <1>3, <1>4, <2>2, <2>3, <2>4, <2>5 DEF Routes
    <2>7. \A i \in 1 .. Len(delivering') : delivering'[i] = Frame("cancel", r)
        BY <1>2, <2>5
    <2> QED
        BY <1>2, <1>4, <2>1, <2>2, <2>6, <2>7
<1>5. CASE r \notin pending
    BY <1>1, <1>2, <1>3, <1>5 DEF TellHandler, TellSubscribers, Drops
<1> QED
    BY <1>4, <1>5

\* Taking a frame keeps RequestsOnce: a request that is admitted is not in the
\* inbound channel again.
LEMMA InboundOnce ==
    ASSUME TypeOK, RequestsOnce, NEW f, f = Head(inbound), Takes(f), target' = target
    PROVE  /\ \A i \in 1 .. Len(inbound') :
                 inbound'[i].kind = "request" => inbound'[i].req \in DOMAIN target' \ handled'
           /\ \A i, j \in 1 .. Len(inbound') :
                 inbound'[i].kind = "request" /\ inbound'[j] = inbound'[i] => i = j
<1>1. /\ Len(inbound) \in Nat \ {0} /\ Len(inbound') = Len(inbound) - 1
      /\ \A i \in 1 .. Len(inbound') : inbound'[i] = inbound[i + 1]
      /\ f = inbound[1] /\ f \in Frames
      /\ handled' = IF f.kind = "request" THEN handled \cup {f.req} ELSE handled
    BY TakeFacts DEF Takes
<1>2. \A i \in 1 .. Len(inbound) : inbound[i] \in Frames
    BY DEF TypeOK, InboundType
<1>3. ASSUME NEW i \in 1 .. Len(inbound'), inbound'[i].kind = "request"
      PROVE  inbound'[i].req \in DOMAIN target' \ handled'
    <2>1. i + 1 \in 1 .. Len(inbound) /\ 1 \in 1 .. Len(inbound) /\ inbound'[i] = inbound[i + 1]
        BY <1>1
    <2>2. inbound[i + 1].req \in DOMAIN target \ handled
        BY <1>3, <2>1 DEF RequestsOnce
    <2>3. inbound[i + 1] # inbound[1]
        BY <1>1, <1>3, <2>1 DEF RequestsOnce
    <2>4. f.kind = "request" => inbound[i + 1].req # f.req
        BY <1>1, <1>2, <1>3, <2>1, <2>3, FrameParts
    <2> QED
        BY <1>1, <2>1, <2>2, <2>4
<1>4. \A i, j \in 1 .. Len(inbound') :
          inbound'[i].kind = "request" /\ inbound'[j] = inbound'[i] => i = j
    <2> SUFFICES ASSUME NEW i \in 1 .. Len(inbound'), NEW j \in 1 .. Len(inbound'),
                        inbound'[i].kind = "request", inbound'[j] = inbound'[i]
                 PROVE  i = j
        OBVIOUS
    <2>1. /\ i + 1 \in 1 .. Len(inbound) /\ j + 1 \in 1 .. Len(inbound)
          /\ inbound'[i] = inbound[i + 1] /\ inbound'[j] = inbound[j + 1]
        BY <1>1
    <2>2. i + 1 = j + 1
        BY <2>1 DEF RequestsOnce
    <2> QED
        BY <2>2
<1> QED
    BY <1>3, <1>4

\* What stands in the queue of a handler is about requests.
LEMMA QueuesOnce ==
    ASSUME TypeOK, RequestsOnce, NEW h \in Handlers, NEW f \in Frames, f.req \in Requests,
           TrySend(h, f)
    PROVE  \A g \in Handlers : \A i \in 1 .. Len(queue'[g]) : queue'[g][i].req \in Requests
<1> SUFFICES ASSUME NEW g \in Handlers, NEW i \in 1 .. Len(queue'[g])
             PROVE  queue'[g][i].req \in Requests
    OBVIOUS
<1>1. queue'[g] = queue[g] \/ queue'[g] = Append(queue[g], f)
    BY TrySendFacts
<1>2. /\ Len(queue[g]) \in Nat /\ Len(Append(queue[g], f)) = Len(queue[g]) + 1
      /\ \A k \in 1 .. Len(queue[g]) : Append(queue[g], f)[k] = queue[g][k]
      /\ Append(queue[g], f)[Len(queue[g]) + 1] = f
    BY AppendFacts DEF TypeOK, ChannelsType
<1>3. \A k \in 1 .. Len(queue[g]) : queue[g][k].req \in Requests
    BY DEF RequestsOnce
<1>4. CASE queue'[g] = Append(queue[g], f)
    <2>1. i \in 1 .. Len(queue[g]) \/ i = Len(queue[g]) + 1
        BY <1>2, <1>4
    <2> QED
        BY <1>2, <1>3, <1>4, <2>1
<1> QED
    BY <1>1, <1>3, <1>4

\* A request is routed once.
LEMMA RouteOnce ==
    ASSUME TypeOK, RequestsOnce, FanOutShape, MapsInStep,
           RouteRequest \/ RouteResponse \/ RouteCancel
    PROVE  RequestsOnce'
<1>1. PICK f : f = Head(inbound) /\ Takes(f) /\ UNCHANGED <<target, registry>>
    BY DEF RouteRequest, RouteResponse, RouteCancel, environment
<1>2. /\ \A i \in 1 .. Len(inbound') :
            inbound'[i].kind = "request" => inbound'[i].req \in DOMAIN target' \ handled'
      /\ \A i, j \in 1 .. Len(inbound') :
            inbound'[i].kind = "request" /\ inbound'[j] = inbound'[i] => i = j
    BY <1>1, InboundOnce
<1>3. IsFiniteSet({n \in Names : registry'[n] # NoOwner})
    BY <1>1 DEF RequestsOnce
<1>4. pending' \subseteq handled' /\ DOMAIN active' \subseteq handled'
    <2>1. \/ UNCHANGED <<pending, active, handled>>
          \/ \E r \in Requests : Routes(r)
        BY RouteRequestEffect, RouteResponseEffect, RouteCancelEffect DEF Drops, TypeOK, RoutingType
    <2> QED
        BY <2>1 DEF Routes, RequestsOnce
<1>5. \A h \in Handlers : \A i \in 1 .. Len(queue'[h]) : queue'[h][i].req \in Requests
    <2>1. CASE queue' = queue
        BY <2>1 DEF RequestsOnce
    <2>2. CASE RouteRequest /\ queue' # queue
        <3>1. PICK g : /\ g = Head(inbound) /\ Takes(g) /\ g.kind = "request"
                       /\ ManageSigcalls(g) \/ RejectUnroutable(g) \/ Dispatch(g)
            BY <2>2 DEF RouteRequest
        <3>2. g \in Frames /\ g.req \in Requests
            BY <3>1, TakeFacts
        <3>3. Dispatch(g)
            BY <2>2, <3>1 DEF ManageSigcalls, RejectUnroutable
        <3>4. Resolve(target[g.req]) \in Handlers /\ TrySend(Resolve(target[g.req]), g)
            BY <3>3, Resolves DEF Dispatch
        <3> QED
            BY <3>2, <3>4, QueuesOnce
    <2>3. CASE RouteResponse
        BY <2>1, <2>3 DEF RouteResponse, channels
    <2>4. CASE RouteCancel /\ queue' # queue
        <3>1. PICK r \in pending : TrySend(active[r], Frame("cancel", r))
            BY <2>4, RouteCancelEffect DEF Drops
        <3>2. r \in Requests /\ pending = DOMAIN active
            BY <1>1, BetweenFrames DEF Takes, TypeOK, RoutingType
        <3>3. active[r] \in Handlers /\ Frame("cancel", r) \in Frames /\ Frame("cancel", r).req = r
            BY <3>2, FrameParts DEF TypeOK, RoutingType, Kinds
        <3> QED
            BY <3>1, <3>2, <3>3, QueuesOnce
    <2> QED
        BY <2>1, <2>2, <2>3, <2>4
<1> QED
    BY <1>2, <1>3, <1>4, <1>5 DEF RequestsOnce

-----------------------------------------------------------------------------
(* The fan-out.                                                             *)

\* Whether a subscriber was told depends on its log and on what was given up.
LEMMA HasTerminalFacts ==
    ASSUME TypeOK, NEW s \in Subscribers, NEW r
    PROVE  HasTerminal(s, r) <=>
               \E i \in 1 .. Len(log[s]) : log[s][i].req = r /\ IsTerminal(log[s][i])
BY DEF HasTerminal, RangeOf

\* A step that starts a fan-out.
LEMMA RoutesStep ==
    ASSUME TypeOK, FanOutInv, delivering = <<>>, NEW r, Routes(r),
           UNCHANGED <<log, open, lost>>
    PROVE  FanOutShape' /\ MapsInStep' /\ EndIsTold' /\ EndIsLast'
<1>1. settling = FALSE /\ pending = DOMAIN active
    BY BetweenFrames DEF FanOutInv
<1>2. CASE delivering' # <<>>
    <2>1. /\ Answers(r, delivering') /\ next' = 1
          /\ settling' => r \in pending'
          /\ IsTerminal(LastFrame') <=> settling' \/ r \notin pending'
          /\ settling' \/ (r \in pending' <=> r \in DOMAIN active')
        BY <1>2 DEF Routes
    <2>2. Current' = r
        <3>1. \A i \in 1 .. Len(delivering') : delivering'[i].req = r
            BY <2>1 DEF Answers
        <3>2. 1 \in 1 .. Len(delivering')
            BY <2>1 DEF Answers
        <3> QED
            BY <3>1, <3>2 DEF Current
    <2>3. FanOutShape'
        BY <1>2, <2>1, <2>2 DEF FanOutShape, Answers, Routes
    <2>4. MapsInStep'
        BY <1>1, <2>1, <2>2 DEF MapsInStep, Routes
    <2>5. EndIsTold'
        BY <1>2, <2>1, <2>2 DEF FanOutInv, EndIsTold, Told, HasTerminal, LostTerminal, Routes
    <2>6. EndIsLast'
        BY <1>1, <1>2, <2>1, <2>2 DEF FanOutInv, EndIsLast, HasTerminal, Routes
    <2> QED
        BY <2>3, <2>4, <2>5, <2>6
<1>3. CASE delivering' = <<>>
    <2>1. ~settling' /\ r \in pending' /\ r \in DOMAIN active' /\ Len(delivering') = 0
        BY <1>3 DEF Routes, Answers
    <2>2. FanOutShape'
        BY <1>3, <2>1 DEF FanOutShape
    <2>3. MapsInStep'
        BY <1>1, <2>1 DEF MapsInStep, Routes
    <2>4. EndIsTold'
        BY <1>3, <2>1 DEF FanOutInv, EndIsTold, Told, HasTerminal, LostTerminal, Routes
    <2>5. EndIsLast'
        BY <1>1, <1>3, <2>1 DEF FanOutInv, EndIsLast, HasTerminal, Routes
    <2> QED
        BY <2>2, <2>3, <2>4, <2>5
<1> QED
    BY <1>2, <1>3

\* The frame that is next to be delivered.
LEMMA FirstFrame ==
    ASSUME TypeOK, FanOutShape, delivering # <<>>
    PROVE  /\ Len(delivering) \in Nat \ {0} /\ delivering[1] \in Frames
           /\ Current \in Requests /\ Current \in handled
           /\ IsTerminal(delivering[1]) => Len(delivering) = 1 /\ LastFrame = delivering[1]
<1>1. delivering \in Seq(Frames)
    BY DEF TypeOK, RoutingType
<1>2. Len(delivering) \in Nat \ {0} /\ \A i \in 1 .. Len(delivering) : delivering[i] \in Frames
    BY <1>1, EmptyFacts
<1>3. Current \in handled /\ handled \subseteq DOMAIN target /\ DOMAIN target \subseteq Requests
    BY DEF FanOutShape, TypeOK, HistoryType, EnvironmentType
<1>4. IsTerminal(delivering[1]) => Len(delivering) = 1
    <2>1. 1 \in 1 .. Len(delivering)
        BY <1>2
    <2> QED
        BY <2>1 DEF FanOutShape
<1> QED
    BY <1>2, <1>3, <1>4 DEF LastFrame

\* A delivery adds at most the first frame to the log of the next subscriber.
LEMMA DeliverAdds ==
    ASSUME TypeOK, Deliver, NEW s \in Subscribers, NEW r
    PROVE  /\ HasTerminal(s, r) => HasTerminal(s, r)'
           /\ HasTerminal(s, r)' => \/ HasTerminal(s, r)
                                    \/ /\ s = next /\ log'[s] = Append(log[s], delivering[1])
                                       /\ delivering[1].req = r /\ IsTerminal(delivering[1])
           /\ LostTerminal(s, r) => LostTerminal(s, r)'
<1>1. log[s] \in Seq(Frames) /\ log'[s] \in Seq(Frames) /\ delivering[1] \in Frames
    BY DeliverFacts DEF TypeOK, ChannelsType
<1>2. /\ Len(log[s]) \in Nat
      /\ Len(Append(log[s], delivering[1])) = Len(log[s]) + 1
      /\ \A i \in 1 .. Len(log[s]) : Append(log[s], delivering[1])[i] = log[s][i]
      /\ Append(log[s], delivering[1])[Len(log[s]) + 1] = delivering[1]
    BY <1>1, AppendFacts
<1>3. CASE log'[s] = log[s]
    BY <1>3, DeliverFacts DEF HasTerminal, LostTerminal
<1>4. CASE s = next /\ log'[s] = Append(log[s], delivering[1])
    <2>1. HasTerminal(s, r)' <=>
              \E i \in 1 .. Len(log[s]) + 1 : log'[s][i].req = r /\ IsTerminal(log'[s][i])
        BY <1>2, <1>4 DEF HasTerminal, RangeOf
    <2>2. HasTerminal(s, r) <=>
              \E i \in 1 .. Len(log[s]) : log'[s][i].req = r /\ IsTerminal(log'[s][i])
        BY <1>2, <1>4, HasTerminalFacts
    <2>3. log'[s][Len(log[s]) + 1] = delivering[1]
        BY <1>2, <1>4
    <2>4. lost \subseteq lost'
        BY DeliverFacts
    <2>5. LostTerminal(s, r) => LostTerminal(s, r)'
        BY <2>4 DEF LostTerminal
    <2> QED
        BY <1>2, <1>4, <2>1, <2>2, <2>3, <2>5
<1> QED
    BY <1>3, <1>4, DeliverFacts

\* The subscriber in front of the fan-out of a terminal frame is told.
LEMMA DeliverTells ==
    ASSUME TypeOK, FanOutShape, Deliver, IsTerminal(delivering[1]),
           NEW s \in Subscribers, s = next, NEW r, r = Current
    PROVE  Told(s, r)'
<1>1. /\ delivering[1] \in Frames /\ delivering[1].req = r /\ open' = open
    BY DeliverFacts DEF Deliver, Current
<1>2. CASE log'[s] = Append(log[s], delivering[1])
    <2>1. log[s] \in Seq(Frames)
        BY DEF TypeOK, ChannelsType
    <2>2. /\ Len(log[s]) + 1 \in 1 .. Len(log'[s])
          /\ log'[s][Len(log[s]) + 1] = delivering[1]
        BY <1>1, <1>2, <2>1, AppendFacts
    <2>3. HasTerminal(s, r)'
        BY <1>1, <2>2 DEF HasTerminal, RangeOf
    <2> QED
        BY <2>3 DEF Told
<1>3. CASE lost' = lost \cup {<<s, delivering[1]>>}
    <2>1. delivering[1].kind \in Terminals /\ delivering[1] = Frame(delivering[1].kind, r)
        BY <1>1, FrameParts DEF IsTerminal
    <2>2. LostTerminal(s, r)'
        BY <1>3, <2>1 DEF LostTerminal
    <2> QED
        BY <2>2 DEF Told
<1>4. CASE s \notin open
    BY <1>1, <1>4 DEF Told
<1> QED
    BY <1>2, <1>3, <1>4, DeliverFacts

\* A delivery keeps what the fan-out owes.
LEMMA DeliverStep ==
    ASSUME TypeOK, FanOutInv, Deliver
    PROVE  FanOutInv'
<1> USE DEF FanOutInv
<1>1. /\ UNCHANGED <<inbound, pending, active, delivering, settling, queue, registry, target>>
      /\ UNCHANGED <<handled, open>>
      /\ delivering # <<>> /\ next \in Subscribers /\ next' = next + 1
    BY DeliverFacts DEF Deliver, environment
<1>2. Current' = Current /\ LastFrame' = LastFrame
    BY <1>1 DEF Current, LastFrame
<1>3. RequestsOnce'
    BY <1>1 DEF RequestsOnce
<1>4. FanOutShape'
    BY <1>1, <1>2 DEF FanOutShape
<1>5. MapsInStep'
    BY <1>1, <1>2 DEF MapsInStep
<1>6. EndIsTold'
    <2>1. \A s \in Subscribers, r \in Requests : Told(s, r) => Told(s, r)'
        BY <1>1, DeliverAdds DEF Told
    <2>2. ASSUME NEW r \in handled' \ pending'
          PROVE  (delivering' # <<>> /\ Current' = r) \/ \A s \in Subscribers : Told(s, r)'
        <3>1. r \in Requests
            BY <1>1 DEF TypeOK, HistoryType, EnvironmentType
        <3> QED
            BY <1>1, <1>2, <2>1, <3>1 DEF EndIsTold
    <2>3. ASSUME Len(delivering) = 1, IsTerminal(delivering[1]), NEW s \in 1 .. next' - 1,
                 NEW r, r = Current
          PROVE  Told(s, r)'
        <3>1. s \in Subscribers /\ r \in Requests
            <4>1. next \in Nat /\ next <= NumSubscribers
                BY <1>1, BoundsAreNat DEF Subscribers
            <4> QED
                BY <1>1, <2>3, <4>1, FirstFrame, BoundsAreNat DEF Subscribers
        <3>2. CASE s = next
            BY <2>3, <3>1, <3>2, DeliverTells
        <3>3. CASE s # next
            <4>1. s \in 1 .. next - 1
                BY <1>1, <3>3 DEF Subscribers
            <4>2. Told(s, r)
                BY <2>3, <4>1 DEF EndIsTold
            <4> QED
                BY <2>1, <3>1, <4>2
        <3> QED
            BY <3>2, <3>3
    <2> QED
        BY <1>1, <1>2, <2>2, <2>3 DEF EndIsTold
<1>7. EndIsLast'
    <2> SUFFICES ASSUME NEW s \in Subscribers, NEW r \in Requests, HasTerminal(s, r)'
                 PROVE  /\ r \in handled
                        /\ r \in pending => settling /\ r = Current
                        /\ r = Current => Len(delivering) = 1 /\ s < next + 1
        BY <1>1, <1>2 DEF EndIsLast
    <2>1. CASE HasTerminal(s, r)
        BY <1>1, <2>1 DEF EndIsLast, Subscribers
    <2>2. CASE s = next /\ delivering[1].req = r /\ IsTerminal(delivering[1])
        <3>1. Len(delivering) = 1 /\ LastFrame = delivering[1] /\ r = Current /\ r \in handled
            BY <1>1, <2>2, FirstFrame DEF Current
        <3>2. settling \/ r \notin pending
            BY <1>1, <2>2, <3>1 DEF FanOutShape
        <3> QED
            BY <1>1, <2>2, <3>1, <3>2 DEF Subscribers
    <2> QED
        BY <2>1, <2>2, DeliverAdds
<1> QED
    BY <1>3, <1>4, <1>5, <1>6, <1>7

\* When the last frame has gone to every subscriber, nobody is left to be told.
LEMMA EndFanOutStep ==
    ASSUME TypeOK, FanOutInv, EndFanOut
    PROVE  FanOutInv'
<1> USE DEF FanOutInv
<1>1. /\ delivering # <<>> /\ Len(delivering) \in Nat \ {0}
      /\ delivering' \in Seq(Frames) /\ Len(delivering') = Len(delivering) - 1
      /\ \A i \in 1 .. Len(delivering') : delivering'[i] = delivering[i + 1]
      /\ delivering' = <<>> <=> Len(delivering) = 1
      /\ next = NumSubscribers + 1 /\ next' = 1
      /\ UNCHANGED <<inbound, queue, log, open, registry, target, handled, lost>>
    BY EndFanOutFacts
<1>2. /\ delivering[1] \in Frames /\ Current \in Requests /\ Current \in handled
      /\ IsTerminal(delivering[1]) => Len(delivering) = 1 /\ LastFrame = delivering[1]
    BY <1>1, FirstFrame
<1>3. \A s \in Subscribers, r \in Requests : /\ HasTerminal(s, r)' <=> HasTerminal(s, r)
                                             /\ Told(s, r)' <=> Told(s, r)
    BY <1>1 DEF HasTerminal, Told, LostTerminal
<1>4. settling \in BOOLEAN
    BY DEF TypeOK, RoutingType
<1>5. CASE Len(delivering) > 1
    <2>1. /\ UNCHANGED <<settling, pending, active>> /\ delivering' # <<>>
          /\ Len(delivering') \in Nat \ {0}
        <3>1. Len(delivering) # 1
            BY <1>1, <1>5
        <3>2. UNCHANGED <<settling, pending, active>>
            BY <3>1, EndFanOutFacts
        <3>3. Len(delivering') \in Nat \ {0}
            BY <1>1, <1>5
        <3> QED
            BY <1>1, <3>1, <3>2, <3>3
    <2>2. Current' = Current /\ LastFrame' = LastFrame
        <3>1. /\ 1 \in 1 .. Len(delivering') /\ Len(delivering') \in 1 .. Len(delivering')
              /\ 2 \in 1 .. Len(delivering)
            BY <1>1, <1>5
        <3>2. delivering'[1] = delivering[2] /\ delivering'[Len(delivering')] = delivering[Len(delivering)]
            BY <1>1, <3>1
        <3>3. delivering[2].req = Current
            BY <3>1 DEF FanOutShape
        <3> QED
            BY <3>2, <3>3 DEF Current, LastFrame
    <2>3. RequestsOnce'
        BY <1>1, <2>1 DEF RequestsOnce
    <2>4. FanOutShape'
        <3>1. \A i \in 1 .. Len(delivering') :
                  /\ i + 1 \in 1 .. Len(delivering) /\ delivering'[i] = delivering[i + 1]
                  /\ i + 1 = Len(delivering) => i = Len(delivering')
            BY <1>1
        <3>2. \A i \in 1 .. Len(delivering') :
                  /\ delivering'[i].req = Current'
                  /\ IsTerminal(delivering'[i]) => i = Len(delivering')
            BY <2>2, <3>1 DEF FanOutShape
        <3> QED
            BY <1>1, <2>1, <2>2, <3>2 DEF FanOutShape
    <2>5. MapsInStep'
        BY <2>1, <2>2 DEF MapsInStep
    <2>6. EndIsTold'
        <3>1. \A r \in handled' \ pending' : r \in Requests
            BY <1>1 DEF TypeOK, HistoryType, EnvironmentType
        <3>2. \A r \in handled' \ pending' :
                  (delivering' # <<>> /\ Current' = r) \/ \A s \in Subscribers : Told(s, r)'
            BY <1>1, <1>3, <2>1, <2>2, <3>1 DEF EndIsTold
        <3>3. \A s \in 1 .. next' - 1 : FALSE
            BY <1>1
        <3> QED
            BY <3>2, <3>3 DEF EndIsTold
    <2>7. EndIsLast'
        BY <1>1, <1>3, <1>5, <2>1, <2>2 DEF EndIsLast
    <2> QED
        BY <2>3, <2>4, <2>5, <2>6, <2>7
<1>6. CASE Len(delivering) = 1
    <2>1. /\ delivering' = <<>> /\ Len(delivering') = 0 /\ LastFrame = delivering[1]
        BY <1>1, <1>6 DEF LastFrame
    <2>2. /\ settling' = FALSE
          /\ pending' = IF settling THEN pending \ {Current} ELSE pending
          /\ DOMAIN active' = IF settling THEN DOMAIN active \ {Current} ELSE DOMAIN active
        BY <1>4, <1>6, EndFanOutFacts DEF Forget
    <2>3. RequestsOnce'
        BY <1>1, <2>2 DEF RequestsOnce
    <2>4. FanOutShape'
        BY <2>1, <2>2 DEF FanOutShape
    <2>5. MapsInStep'
        BY <2>2 DEF MapsInStep
    <2>6. EndIsTold'
        <3> SUFFICES ASSUME NEW r \in handled \ pending' PROVE \A s \in Subscribers : Told(s, r)
            <4>1. \A r \in handled : r \in Requests
                BY DEF TypeOK, HistoryType, EnvironmentType
            <4> QED
                BY <1>1, <1>3, <2>1, <4>1 DEF EndIsTold
        <3>1. CASE r = Current
            <4>1. IsTerminal(delivering[1])
                BY <1>1, <2>1, <2>2, <3>1 DEF FanOutShape
            <4>2. Subscribers = 1 .. next - 1
                BY <1>1, BoundsAreNat DEF Subscribers
            <4> QED
                BY <1>6, <3>1, <4>1, <4>2 DEF EndIsTold
        <3>2. CASE r # Current
            BY <2>2, <3>2 DEF EndIsTold
        <3> QED
            BY <3>1, <3>2
    <2>7. EndIsLast'
        BY <1>1, <1>3, <2>1, <2>2 DEF EndIsLast
    <2> QED
        BY <2>3, <2>4, <2>5, <2>6, <2>7
<1> QED
    BY <1>1, <1>5, <1>6

\* The environment closes subscribers and sends frames; nobody has to be told
\* more for it.
LEMMA EnvironmentKeepsFanOut ==
    ASSUME TypeOK, FanOutInv, RequestsOnce', EnvironmentEffect
    PROVE  FanOutInv'
<1>1. /\ UNCHANGED <<pending, active, delivering, next, settling, log, handled, lost>>
      /\ open' \subseteq open
    BY DEF EnvironmentEffect
<1>2. Current' = Current /\ LastFrame' = LastFrame
    BY <1>1 DEF Current, LastFrame
<1>3. FanOutShape' /\ MapsInStep'
    BY <1>1, <1>2 DEF FanOutInv, FanOutShape, MapsInStep
<1>4. EndIsTold'
    BY <1>1, <1>2 DEF FanOutInv, EndIsTold, Told, HasTerminal, LostTerminal
<1>5. EndIsLast'
    BY <1>1, <1>2 DEF FanOutInv, EndIsLast, HasTerminal
<1> QED
    BY <1>3, <1>4, <1>5 DEF FanOutInv

\* What one step of the fan-out owes the next holds throughout.
THEOREM FanOutCorrect == Spec => [](TypeOK /\ FanOutInv)
<1>1. Init => TypeOK /\ FanOutInv
    <2> SUFFICES ASSUME Init PROVE TypeOK /\ FanOutInv
        OBVIOUS
    <2>1. TypeOK
        <3>1. /\ <<>> \in Seq(Frames) /\ Len(<<>>) = 0
            OBVIOUS
        <3>2. InboundType /\ RoutingType
            <4>1. InboundType
                BY <3>1, ChannelsHaveRoom DEF Init, InboundType
            <4>2. 1 \in 1 .. NumSubscribers + 1
                BY BoundsAreNat
            <4>3. DOMAIN active = {} /\ active \in [DOMAIN active -> Handlers]
                BY DEF Init
            <4> QED
                BY <3>1, <4>1, <4>2, <4>3 DEF Init, RoutingType
        <3>3. ChannelsType
            BY <3>1, ChannelsHaveRoom DEF Init, ChannelsType
        <3>4. EnvironmentType
            BY DEF Init, NoUse, EnvironmentType
        <3>5. HistoryType
            BY <3>1 DEF Init, HistoryType
        <3> QED
            BY <3>2, <3>3, <3>4, <3>5 DEF TypeOK
    <2>2. RequestsOnce
        <3>1. {n \in Names : registry[n] # NoOwner} = {}
            BY DEF Init
        <3>2. \A i \in 1 .. Len(inbound) : FALSE
            BY DEF Init
        <3>3. \A h \in Handlers : \A i \in 1 .. Len(queue[h]) : FALSE
            BY DEF Init
        <3>4. pending = {} /\ DOMAIN active = {}
            BY DEF Init
        <3> QED
            BY <3>1, <3>2, <3>3, <3>4, FS_EmptySet DEF RequestsOnce
    <2>3. FanOutShape /\ MapsInStep /\ EndIsTold
        BY DEF Init, FanOutShape, MapsInStep, EndIsTold
    <2>4. EndIsLast
        BY DEF Init, EndIsLast, HasTerminal, RangeOf
    <2> QED
        BY <2>1, <2>2, <2>3, <2>4 DEF FanOutInv
<1>2. TypeOK /\ FanOutInv /\ [Next]_vars => TypeOK' /\ FanOutInv'
    <2> SUFFICES ASSUME TypeOK, FanOutInv, [Next]_vars PROVE TypeOK' /\ FanOutInv'
        OBVIOUS
    <2>1. RequestsOnce /\ FanOutShape /\ MapsInStep
        BY DEF FanOutInv
    <2>2. CASE RouteRequest \/ RouteResponse \/ RouteCancel
        <3>1. TypeOK' /\ RequestsOnce'
            BY <2>1, <2>2, RouteRequestType, RouteResponseType, RouteCancelType, RouteOnce
        <3>2. delivering = <<>> /\ UNCHANGED <<log, open, lost>>
            BY <2>2 DEF RouteRequest, RouteResponse, RouteCancel, Takes, channels
        <3>3. Drops \/ \E r : Routes(r)
            BY <2>1, <2>2, RouteRequestEffect, RouteResponseEffect, RouteCancelEffect
        <3>4. CASE Drops
            <4>1. UNCHANGED <<pending, active, delivering, settling, handled>>
                BY <3>4 DEF Drops
            <4>2. Len(delivering) = 0
                BY <3>2
            <4>3. FanOutShape' /\ MapsInStep'
                BY <2>1, <3>2, <4>1 DEF FanOutShape, MapsInStep
            <4>4. EndIsTold' /\ EndIsLast'
                BY <3>2, <4>1, <4>2
                DEF FanOutInv, EndIsTold, EndIsLast, Told, HasTerminal, LostTerminal, Current
            <4> QED
                BY <3>1, <4>3, <4>4 DEF FanOutInv
        <3>5. CASE \E r : Routes(r)
            BY <3>1, <3>2, <3>5, RoutesStep DEF FanOutInv
        <3> QED
            BY <3>3, <3>4, <3>5
    <2>3. CASE Deliver
        BY <2>3, DeliverType, DeliverStep
    <2>4. CASE EndFanOut
        BY <2>4, EndFanOutType, EndFanOutStep
    <2>5. CASE Environment
        BY <2>1, <2>5, EnvironmentStep, EnvironmentKeepsFanOut
    <2>6. CASE UNCHANGED vars
        <3>1. TypeOK'
            BY <2>6 DEF vars, TypeOK, InboundType, RoutingType, ChannelsType, EnvironmentType, HistoryType
        <3>2. RequestsOnce' /\ EnvironmentEffect
            BY <2>1, <2>6 DEF vars, RequestsOnce, EnvironmentEffect
        <3> QED
            BY <3>1, <3>2, EnvironmentKeepsFanOut
    <2> QED
        BY <2>2, <2>3, <2>4, <2>5, <2>6 DEF Next, Route
<1> QED
    BY <1>1, <1>2, PTL DEF Spec

\* Every variable keeps its type, and no channel exceeds its capacity.
THEOREM TypeCorrect == Spec => []TypeOK
BY FanOutCorrect, PTL

\* The router forgets a request only when every subscriber has its terminal
\* frame, unless the channel of that subscriber stayed full or was closed: the
\* fan-out ends the routing, it does not overtake it.
THEOREM SettledMeansToldCorrect == Spec => []SettledMeansTold
<1>1. TypeOK /\ FanOutInv => SettledMeansTold
    <2> SUFFICES ASSUME TypeOK, FanOutInv, NEW r \in Requests, Settled(r), NEW s \in open
                 PROVE  HasTerminal(s, r) \/ LostTerminal(s, r)
        BY DEF SettledMeansTold
    <2>1. ~(delivering # <<>> /\ Current = r)
        <3> SUFFICES ASSUME delivering # <<>> PROVE Current # r
            OBVIOUS
        <3>1. 1 \in 1 .. Len(delivering)
            BY FirstFrame DEF FanOutInv
        <3> QED
            BY <3>1 DEF Settled, RangeOf, Current
    <2>2. r \in handled \ pending /\ s \in Subscribers
        BY DEF Settled, TypeOK, ChannelsType
    <2> QED
        BY <2>1, <2>2 DEF FanOutInv, EndIsTold, Told
<1> QED
    BY <1>1, FanOutCorrect, PTL

\* Between two frames, the requests that can be cancelled are those whose
\* responses are routed, although the two maps are changed one after the other
\* (router.rs:149-183, 222-223, 257-271).
THEOREM MapsAgreeCorrect == Spec => []MapsAgree
<1>1. TypeOK /\ FanOutInv => MapsAgree
    BY BetweenFrames DEF FanOutInv, MapsAgree
<1> QED
    BY <1>1, FanOutCorrect, PTL

-----------------------------------------------------------------------------
(* Cancels.                                                                 *)

\* The frames of the subscribers' logs and of the handlers' channels, by place.
LEMMA HookedFacts ==
    ASSUME TypeOK
    PROVE  HookedMeansCancelled <=>
               \A r \in hooked, s \in Subscribers : \A i \in 1 .. Len(log[s]) :
                   log[s][i].req = r /\ IsTerminal(log[s][i]) => log[s][i].kind = "cancel"
BY DEF HookedMeansCancelled, RangeOf

\* A request that is routed is not settled: nobody was told of its end, and
\* its hook was not called.
LEMMA PendingIsOpen ==
    ASSUME TypeOK, FanOutInv, CancelInv, delivering = <<>>, NEW r \in pending
    PROVE  /\ r \in Requests /\ r \in DOMAIN active /\ active[r] \in Handlers /\ r \notin hooked
           /\ \A s \in Subscribers : ~HasTerminal(s, r)
<1>1. settling = FALSE /\ pending = DOMAIN active /\ r \in Requests
    BY BetweenFrames DEF FanOutInv, TypeOK, RoutingType
<1>2. \A s \in Subscribers : ~HasTerminal(s, r)
    BY <1>1 DEF FanOutInv, EndIsLast
<1> QED
    BY <1>1, <1>2 DEF TypeOK, RoutingType, CancelInv, HookedIsSettled

\* One more frame is put in the channel of handler h.
Forwards(h, f) == forwarded' = [forwarded EXCEPT ![h] = Append(@, f)]

\* What the channels of the handlers hold afterwards.
LEMMA ForwardFacts ==
    ASSUME TypeOK, NEW h \in Handlers, NEW f \in Frames, Forwards(h, f)
    PROVE  /\ \A g \in Handlers :
                 /\ Len(forwarded[g]) \in Nat
                 /\ \A i \in 1 .. Len(forwarded[g]) : forwarded'[g][i] = forwarded[g][i]
                 /\ g # h => Len(forwarded'[g]) = Len(forwarded[g])
                 /\ g = h => /\ Len(forwarded'[g]) = Len(forwarded[g]) + 1
                             /\ forwarded'[g][Len(forwarded[g]) + 1] = f
           /\ \A g \in Handlers : \A i \in 1 .. Len(forwarded'[g]) :
                 \/ i \in 1 .. Len(forwarded[g]) /\ forwarded'[g][i] = forwarded[g][i]
                 \/ g = h /\ i = Len(forwarded[g]) + 1 /\ forwarded'[g][i] = f
<1>1. forwarded \in [Handlers -> Seq(Frames)]
    BY DEF TypeOK, HistoryType
<1>2. \A g \in Handlers :
          /\ Len(forwarded[g]) \in Nat
          /\ \A i \in 1 .. Len(forwarded[g]) : forwarded'[g][i] = forwarded[g][i]
          /\ g # h => Len(forwarded'[g]) = Len(forwarded[g])
          /\ g = h => /\ Len(forwarded'[g]) = Len(forwarded[g]) + 1
                      /\ forwarded'[g][Len(forwarded[g]) + 1] = f
    BY <1>1, AppendFacts DEF Forwards
<1> QED
    BY <1>2

\* A request is passed on to a handler, or to nobody.
LEMMA RequestCancelInv ==
    ASSUME TypeOK, FanOutInv, CancelInv, TypeOK', RouteRequest
    PROVE  CancelInv'
<1> USE DEF CancelInv
<1>1. PICK r \in Requests \ handled : /\ Routes(r) /\ hooked' = hooked
                                      /\ \A i \in 1 .. Len(delivering') : delivering'[i].req = r
    BY RouteRequestEffect DEF FanOutInv
<1>2. handled' = handled \cup {r} /\ log' = log
    BY <1>1 DEF Routes, RouteRequest
<1>3. HookedIsSettled'
    BY <1>1 DEF HookedIsSettled, Routes, TypeOK, HistoryType
<1>4. HookedMeansCancelled'
    BY <1>1, <1>2 DEF HookedMeansCancelled
<1>5. \/ UNCHANGED <<forwarded>> /\ \A x \in DOMAIN active' : x \in DOMAIN active /\ active'[x] = active[x]
      \/ \E h \in Handlers :
            /\ Forwards(h, Frame("request", r))
            /\ active' = Remember(active, r, h)
    <2>1. PICK f : /\ f = Head(inbound) /\ Takes(f) /\ f.kind = "request"
                   /\ ManageSigcalls(f) \/ RejectUnroutable(f) \/ Dispatch(f)
        BY DEF RouteRequest
    <2>2. f.req = r /\ f = Frame("request", r)
        BY <1>1, <1>2, <2>1, TakeFacts DEF FanOutInv
    <2>3. CASE Dispatch(f)
        <3>1. PICK h \in Handlers : /\ TrySend(h, f) /\ h = Resolve(target[f.req])
            BY <2>3, Resolves DEF Dispatch
        <3>2. CASE HasRoom(h)
            BY <2>2, <2>3, <3>1, <3>2 DEF Dispatch, TrySend, Forwards
        <3>3. CASE ~HasRoom(h)
            BY <2>2, <2>3, <3>1, <3>3 DEF Dispatch, TrySend, Forget
        <3> QED
            BY <3>2, <3>3
    <2>4. CASE ManageSigcalls(f) \/ RejectUnroutable(f)
        BY <2>4 DEF ManageSigcalls, RejectUnroutable
    <2> QED
        BY <2>1, <2>3, <2>4
<1>6. CASE UNCHANGED <<forwarded>> /\ \A x \in DOMAIN active' : x \in DOMAIN active /\ active'[x] = active[x]
    <2>1. CancelIsNew'
        BY <1>2, <1>6 DEF CancelIsNew
    <2>2. CancelFollowsRequest'
        BY <1>6 DEF CancelFollowsRequest
    <2> QED
        BY <1>3, <1>4, <2>1, <2>2
<1>7. ASSUME NEW h \in Handlers, Forwards(h, Frame("request", r)),
             active' = Remember(active, r, h)
      PROVE  CancelIsNew' /\ CancelFollowsRequest'
    <2>1. /\ Frame("request", r) \in Frames /\ Frame("request", r).kind = "request"
          /\ Frame("request", r).req = r /\ Frame("request", r) # Frame("cancel", r)
          /\ \A x : Frame("cancel", x).kind = "cancel" /\ Frame("cancel", x).req = x
        BY FrameParts DEF Kinds, Frame
    <2>2. /\ \A g \in Handlers :
                /\ Len(forwarded[g]) \in Nat
                /\ \A i \in 1 .. Len(forwarded[g]) : forwarded'[g][i] = forwarded[g][i]
                /\ g # h => Len(forwarded'[g]) = Len(forwarded[g])
                /\ g = h => /\ Len(forwarded'[g]) = Len(forwarded[g]) + 1
                            /\ forwarded'[g][Len(forwarded[g]) + 1] = Frame("request", r)
          /\ \A g \in Handlers : \A i \in 1 .. Len(forwarded'[g]) :
                \/ i \in 1 .. Len(forwarded[g]) /\ forwarded'[g][i] = forwarded[g][i]
                \/ g = h /\ i = Len(forwarded[g]) + 1 /\ forwarded'[g][i] = Frame("request", r)
        <3>1. Frame("request", r) \in Frames
            BY <2>1
        <3> QED
            BY <1>7, <3>1, ForwardFacts
    <2>3. \A g \in Handlers :
              /\ Len(forwarded[g]) \in Nat
              /\ \A i \in 1 .. Len(forwarded[g]) : forwarded'[g][i] = forwarded[g][i]
              /\ g # h => Len(forwarded'[g]) = Len(forwarded[g])
              /\ g = h => /\ Len(forwarded'[g]) = Len(forwarded[g]) + 1
                          /\ forwarded'[g][Len(forwarded[g]) + 1] = Frame("request", r)
        BY <2>2
    <2>4. \A g \in Handlers : \A i \in 1 .. Len(forwarded'[g]) :
              \/ i \in 1 .. Len(forwarded[g]) /\ forwarded'[g][i] = forwarded[g][i]
              \/ g = h /\ i = Len(forwarded[g]) + 1 /\ forwarded'[g][i] = Frame("request", r)
        BY <2>2
    <2>5. DOMAIN active' = DOMAIN active \cup {r} /\ active'[r] = h
          /\ \A x \in DOMAIN active \ {r} : active'[x] = active[x]
        BY <1>7 DEF Remember
    <2>6. \A g \in Handlers : \A i \in 1 .. Len(forwarded'[g]) : forwarded'[g][i].req \in handled'
        BY <1>2, <2>1, <2>4 DEF CancelIsNew
    <2>7. ASSUME NEW x \in DOMAIN active'
          PROVE  /\ \E i \in 1 .. Len(forwarded'[active'[x]]) :
                        forwarded'[active'[x]][i] = Frame("request", x)
                 /\ \A g \in Handlers : \A i \in 1 .. Len(forwarded'[g]) :
                        forwarded'[g][i] # Frame("cancel", x)
        <3>1. CASE x = r
            <4>1. Len(forwarded[h]) + 1 \in 1 .. Len(forwarded'[h])
                BY <2>3
            <4>2. \A g \in Handlers : \A i \in 1 .. Len(forwarded[g]) : forwarded[g][i].req # r
                BY <1>1 DEF CancelIsNew
            <4> QED
                BY <2>1, <2>3, <2>4, <2>5, <3>1, <4>1, <4>2
        <3>2. CASE x # r
            <4>1. x \in DOMAIN active /\ active'[x] = active[x] /\ active[x] \in Handlers
                BY <2>5, <3>2 DEF TypeOK, RoutingType
            <4>2. /\ \E i \in 1 .. Len(forwarded[active[x]]) :
                        forwarded[active[x]][i] = Frame("request", x)
                  /\ \A g \in Handlers : \A i \in 1 .. Len(forwarded[g]) :
                        forwarded[g][i] # Frame("cancel", x)
                BY <4>1 DEF CancelIsNew
            <4>3. Len(forwarded[active[x]]) <= Len(forwarded'[active[x]])
                  /\ Len(forwarded'[active[x]]) \in Nat
                BY <2>3, <4>1
            <4>4. Frame("request", r) # Frame("cancel", x)
                BY <2>1
            <4>5. \E i \in 1 .. Len(forwarded'[active'[x]]) :
                      forwarded'[active'[x]][i] = Frame("request", x)
                BY <2>3, <4>1, <4>2, <4>3
            <4>6. \A g \in Handlers : \A i \in 1 .. Len(forwarded'[g]) :
                      forwarded'[g][i] # Frame("cancel", x)
                BY <2>4, <4>2, <4>4
            <4> QED
                BY <4>5, <4>6
        <3> QED
            BY <3>1, <3>2
    <2>8. CancelFollowsRequest'
        <3> SUFFICES ASSUME NEW g \in Handlers, NEW j \in 1 .. Len(forwarded'[g]),
                            forwarded'[g][j].kind = "cancel"
                     PROVE  /\ \E i \in 1 .. j - 1 :
                                  forwarded'[g][i] = Frame("request", forwarded'[g][j].req)
                            /\ \A i \in 1 .. Len(forwarded'[g]) :
                                  forwarded'[g][i] = forwarded'[g][j] => i = j
            BY DEF CancelFollowsRequest
        <3>1. j \in 1 .. Len(forwarded[g]) /\ forwarded'[g][j] = forwarded[g][j]
            BY <2>1, <2>4
        <3>2. /\ \E i \in 1 .. j - 1 :
                    forwarded[g][i] = Frame("request", forwarded[g][j].req)
              /\ \A i \in 1 .. Len(forwarded[g]) : forwarded[g][i] = forwarded[g][j] => i = j
            BY <3>1 DEF CancelFollowsRequest
        <3>3. \A i \in 1 .. j - 1 : i \in 1 .. Len(forwarded[g])
            BY <2>3, <3>1
        <3> QED
            BY <2>1, <2>3, <2>4, <3>1, <3>2, <3>3
    <2> QED
        BY <2>6, <2>7, <2>8 DEF CancelIsNew
<1> QED
    BY <1>3, <1>4, <1>5, <1>6, <1>7

\* A response changes nothing here but what is fanned out, and that of a
\* request whose hook was not called.
LEMMA ResponseCancelInv ==
    ASSUME TypeOK, FanOutInv, CancelInv, RouteResponse
    PROVE  CancelInv'
<1> USE DEF CancelInv
<1>1. /\ UNCHANGED <<pending, active, hooked, forwarded, handled, log>> /\ delivering = <<>>
    BY DEF RouteResponse, Takes, channels, Responses
<1>2. CASE Drops
    BY <1>1, <1>2 DEF Drops, HookedIsSettled, HookedMeansCancelled, CancelIsNew, CancelFollowsRequest
<1>3. ASSUME NEW r \in pending, \A i \in 1 .. Len(delivering') : delivering'[i].req = r
      PROVE  CancelInv'
    <2>1. r \notin hooked
        BY <1>1, PendingIsOpen
    <2>2. HookedIsSettled'
        BY <1>1, <1>3, <2>1 DEF HookedIsSettled
    <2> QED
        BY <1>1, <2>2 DEF HookedMeansCancelled, CancelIsNew, CancelFollowsRequest
<1> QED
    BY <1>2, <1>3, RouteResponseEffect DEF FanOutInv

\* The cancel of a routed request: its handler has the request, and no cancel
\* of it; the subscribers have nothing terminal.
LEMMA CancelCancelInv ==
    ASSUME TypeOK, FanOutInv, CancelInv, RouteCancel
    PROVE  CancelInv'
<1> USE DEF CancelInv
<1>1. delivering = <<>> /\ log' = log
    BY DEF RouteCancel, Takes
<1>2. CASE Drops
    BY <1>1, <1>2 DEF Drops, HookedIsSettled, HookedMeansCancelled, CancelIsNew, CancelFollowsRequest
<1>3. ASSUME NEW r \in pending, Routes(r), handled' = handled,
             pending' = pending \ {r}, active' = Forget(active, r),
             hooked' = IF active[r] \in Hooked THEN hooked \cup {r} ELSE hooked,
             TrySend(active[r], Frame("cancel", r)),
             \A i \in 1 .. Len(delivering') : delivering'[i] = Frame("cancel", r)
      PROVE  CancelInv'
    <2>1. /\ r \in Requests /\ r \in DOMAIN active /\ active[r] \in Handlers /\ r \in handled
          /\ \A s \in Subscribers : ~HasTerminal(s, r)
        BY <1>1, PendingIsOpen DEF FanOutInv, RequestsOnce
    <2>2. /\ Frame("cancel", r) \in Frames
          /\ \A x : /\ Frame("cancel", x).kind = "cancel" /\ Frame("cancel", x).req = x
                    /\ Frame("cancel", r) # Frame("request", x)
        BY <2>1, FrameParts DEF Kinds, Frame
    <2>3. /\ DOMAIN active' = DOMAIN active \ {r} /\ \A x \in DOMAIN active' : active'[x] = active[x]
        BY <1>3 DEF Forget
    <2>4. HookedIsSettled'
        BY <1>3, <2>2, <2>3 DEF HookedIsSettled
    <2>5. HookedMeansCancelled'
        BY <1>1, <1>3, <2>1 DEF HookedMeansCancelled, HasTerminal
    <2>6. CASE UNCHANGED forwarded
        BY <1>3, <2>3, <2>4, <2>5, <2>6 DEF CancelIsNew, CancelFollowsRequest
    <2>7. CASE Forwards(active[r], Frame("cancel", r))
        <3>3. PICK h \in Handlers : h = active[r]
            BY <2>1
        <3>10. /\ \A g \in Handlers :
                     /\ Len(forwarded[g]) \in Nat
                     /\ \A i \in 1 .. Len(forwarded[g]) : forwarded'[g][i] = forwarded[g][i]
                     /\ g # h => Len(forwarded'[g]) = Len(forwarded[g])
                     /\ g = h => /\ Len(forwarded'[g]) = Len(forwarded[g]) + 1
                                 /\ forwarded'[g][Len(forwarded[g]) + 1] = Frame("cancel", r)
               /\ \A g \in Handlers : \A i \in 1 .. Len(forwarded'[g]) :
                     \/ i \in 1 .. Len(forwarded[g]) /\ forwarded'[g][i] = forwarded[g][i]
                     \/ /\ g = h /\ i = Len(forwarded[g]) + 1
                        /\ forwarded'[g][i] = Frame("cancel", r)
            <4>1. Frame("cancel", r) \in Frames
                BY <2>2
            <4>2. Forwards(h, Frame("cancel", r))
                BY <2>7, <3>3
            <4> QED
                BY <4>1, <4>2, ForwardFacts
        <3>1. \A g \in Handlers :
                  /\ Len(forwarded[g]) \in Nat
                  /\ \A i \in 1 .. Len(forwarded[g]) : forwarded'[g][i] = forwarded[g][i]
                  /\ g # h => Len(forwarded'[g]) = Len(forwarded[g])
                  /\ g = h => /\ Len(forwarded'[g]) = Len(forwarded[g]) + 1
                              /\ forwarded'[g][Len(forwarded[g]) + 1] = Frame("cancel", r)
            BY <3>10
        <3>2. \A g \in Handlers : \A i \in 1 .. Len(forwarded'[g]) :
                  \/ i \in 1 .. Len(forwarded[g]) /\ forwarded'[g][i] = forwarded[g][i]
                  \/ /\ g = h /\ i = Len(forwarded[g]) + 1
                     /\ forwarded'[g][i] = Frame("cancel", r)
            BY <3>10
        <3>4. /\ \E i \in 1 .. Len(forwarded[h]) : forwarded[h][i] = Frame("request", r)
              /\ \A g \in Handlers : \A i \in 1 .. Len(forwarded[g]) :
                    forwarded[g][i] # Frame("cancel", r)
            BY <2>1, <3>3 DEF CancelIsNew
        <3>5. \A g \in Handlers : \A i \in 1 .. Len(forwarded'[g]) : forwarded'[g][i].req \in handled'
            <4>1. Frame("cancel", r).req = r /\ r \in handled'
                BY <1>3, <2>1, <2>2
            <4>2. \A g \in Handlers : \A i \in 1 .. Len(forwarded[g]) : forwarded[g][i].req \in handled'
                BY <1>3 DEF CancelIsNew
            <4> QED
                BY <3>2, <4>1, <4>2
        <3>6. ASSUME NEW x \in DOMAIN active'
              PROVE  /\ \E i \in 1 .. Len(forwarded'[active'[x]]) :
                            forwarded'[active'[x]][i] = Frame("request", x)
                     /\ \A g \in Handlers : \A i \in 1 .. Len(forwarded'[g]) :
                            forwarded'[g][i] # Frame("cancel", x)
            <4>1. x \in DOMAIN active /\ active'[x] = active[x] /\ active[x] \in Handlers /\ x # r
                BY <2>3 DEF TypeOK, RoutingType
            <4>2. /\ \E i \in 1 .. Len(forwarded[active[x]]) :
                        forwarded[active[x]][i] = Frame("request", x)
                  /\ \A g \in Handlers : \A i \in 1 .. Len(forwarded[g]) :
                        forwarded[g][i] # Frame("cancel", x)
                BY <4>1 DEF CancelIsNew
            <4>3. Frame("cancel", r) # Frame("cancel", x)
                BY <2>2, <4>1
            <4>4. \E i \in 1 .. Len(forwarded'[active'[x]]) :
                      forwarded'[active'[x]][i] = Frame("request", x)
                BY <3>1, <4>1, <4>2
            <4>5. \A g \in Handlers : \A i \in 1 .. Len(forwarded'[g]) :
                      forwarded'[g][i] # Frame("cancel", x)
                BY <3>2, <4>2, <4>3
            <4> QED
                BY <4>4, <4>5
        <3>7. CancelFollowsRequest'
            <4> SUFFICES ASSUME NEW g \in Handlers, NEW j \in 1 .. Len(forwarded'[g]),
                                forwarded'[g][j].kind = "cancel"
                         PROVE  /\ \E i \in 1 .. j - 1 :
                                      forwarded'[g][i] = Frame("request", forwarded'[g][j].req)
                                /\ \A i \in 1 .. Len(forwarded'[g]) :
                                      forwarded'[g][i] = forwarded'[g][j] => i = j
                BY DEF CancelFollowsRequest
            <4>1. CASE j \in 1 .. Len(forwarded[g]) /\ forwarded'[g][j] = forwarded[g][j]
                <5>1. /\ \E i \in 1 .. j - 1 :
                            forwarded[g][i] = Frame("request", forwarded[g][j].req)
                      /\ \A i \in 1 .. Len(forwarded[g]) :
                            forwarded[g][i] = forwarded[g][j] => i = j
                    BY <4>1 DEF CancelFollowsRequest
                <5>2. forwarded[g][j] # Frame("cancel", r)
                    BY <3>4, <4>1
                <5>3. \A i \in 1 .. j - 1 : i \in 1 .. Len(forwarded[g])
                    BY <3>1, <4>1
                <5>4. \A i \in 1 .. Len(forwarded'[g]) : forwarded'[g][i] = forwarded'[g][j] => i = j
                    BY <3>2, <4>1, <5>1, <5>2
                <5>5. \E i \in 1 .. j - 1 : forwarded'[g][i] = Frame("request", forwarded'[g][j].req)
                    BY <3>1, <4>1, <5>1, <5>3
                <5> QED
                    BY <5>4, <5>5
            <4>2. CASE g = h /\ j = Len(forwarded[g]) + 1 /\ forwarded'[g][j] = Frame("cancel", r)
                <5>1. \E i \in 1 .. j - 1 : forwarded'[g][i] = Frame("request", r)
                    BY <3>1, <3>3, <3>4, <4>2
                <5>2. \A i \in 1 .. Len(forwarded'[g]) : forwarded'[g][i] = Frame("cancel", r) => i = j
                    BY <3>2, <3>4, <4>2
                <5> QED
                    BY <2>2, <4>2, <5>1, <5>2
            <4> QED
                BY <3>2, <4>1, <4>2
        <3> QED
            BY <2>4, <2>5, <3>5, <3>6, <3>7 DEF CancelIsNew
    <2> QED
        BY <1>3, <2>6, <2>7 DEF TrySend, Forwards
<1> QED
    BY <1>2, <1>3, RouteCancelEffect DEF FanOutInv

\* What is delivered of a request whose hook was called is its cancel frame.
LEMMA DeliverCancelInv ==
    ASSUME TypeOK, FanOutInv, CancelInv, Deliver
    PROVE  CancelInv'
<1> USE DEF CancelInv
<1>1. /\ UNCHANGED <<pending, active, delivering, handled, hooked, forwarded>>
    BY DEF Deliver
<1>2. HookedIsSettled' /\ CancelIsNew' /\ CancelFollowsRequest'
    BY <1>1 DEF HookedIsSettled, CancelIsNew, CancelFollowsRequest
<1>3. HookedMeansCancelled'
    <2> SUFFICES ASSUME NEW r \in hooked, NEW s \in Subscribers, NEW f \in RangeOf(log'[s]),
                        f.req = r, IsTerminal(f)
                 PROVE  f.kind = "cancel"
        BY <1>1 DEF HookedMeansCancelled
    <2>1. \A f1 \in RangeOf(log[s]) : f1.req = r /\ IsTerminal(f1) => f1.kind = "cancel"
        BY DEF HookedMeansCancelled
    <2>2. delivering[1].req = r => delivering[1].kind = "cancel"
        BY DeliverFacts DEF HookedIsSettled
    <2>3. log[s] \in Seq(Frames) /\ delivering[1] \in Frames
        BY DeliverFacts DEF TypeOK, ChannelsType
    <2>4. log'[s] = log[s] \/ log'[s] = Append(log[s], delivering[1])
        BY DeliverFacts
    <2>5. f \in RangeOf(log[s]) \/ f = delivering[1]
        BY <2>3, <2>4, AppendFacts DEF RangeOf
    <2> QED
        BY <2>1, <2>2, <2>5
<1> QED
    BY <1>2, <1>3

\* The end of a fan-out keeps what is said of cancels.
LEMMA EndFanOutCancelInv ==
    ASSUME TypeOK, FanOutInv, CancelInv, EndFanOut
    PROVE  CancelInv'
<1> USE DEF CancelInv
<1>1. /\ Len(delivering) \in Nat \ {0} /\ Len(delivering') = Len(delivering) - 1
      /\ \A i \in 1 .. Len(delivering') : delivering'[i] = delivering[i + 1]
      /\ UNCHANGED <<log, handled, hooked, forwarded>>
      /\ pending' \subseteq pending
    BY EndFanOutFacts
<1>2. DOMAIN active' \subseteq DOMAIN active /\ \A x \in DOMAIN active' : active'[x] = active[x]
    BY EndFanOutFacts DEF Forget
<1>3. HookedIsSettled'
    BY <1>1, <1>2 DEF HookedIsSettled
<1>4. HookedMeansCancelled' /\ CancelFollowsRequest'
    BY <1>1 DEF HookedMeansCancelled, CancelFollowsRequest
<1>5. CancelIsNew'
    BY <1>1, <1>2 DEF CancelIsNew
<1> QED
    BY <1>3, <1>4, <1>5

\* What one cancel owes the next holds throughout.
THEOREM CancelInvCorrect == Spec => []CancelInv
<1>1. Init => CancelInv
    BY DEF Init, CancelInv, HookedIsSettled, HookedMeansCancelled, CancelIsNew, CancelFollowsRequest
<1>2. TypeOK /\ FanOutInv /\ CancelInv /\ TypeOK' /\ [Next]_vars => CancelInv'
    <2> SUFFICES ASSUME TypeOK, FanOutInv, CancelInv, TypeOK', [Next]_vars PROVE CancelInv'
        OBVIOUS
    <2>1. CASE Route
        BY <2>1, RequestCancelInv, ResponseCancelInv, CancelCancelInv, DeliverCancelInv,
           EndFanOutCancelInv
        DEF Route
    <2>2. CASE UNCHANGED <<pending, active, delivering, log, handled, hooked, forwarded>>
        BY <2>2 DEF CancelInv, HookedIsSettled, HookedMeansCancelled, CancelIsNew,
                    CancelFollowsRequest
    <2>3. CASE Environment
        BY <2>2, <2>3, EnvironmentStep DEF FanOutInv, EnvironmentEffect
    <2> QED
        BY <2>1, <2>2, <2>3 DEF Next, vars
<1> QED
    BY <1>1, <1>2, FanOutCorrect, PTL DEF Spec

\* A handler gets at most one cancel frame for a request, after the request,
\* whoever sends cancels and however often.
THEOREM CancelFollowsRequestCorrect == Spec => []CancelFollowsRequest
BY CancelInvCorrect, PTL DEF CancelInv

\* Once the hook of a request was called, no subscriber is told that the
\* request was done or failed, whatever its handler still sends
\* (router.rs:206-215, 257-284).
THEOREM HookedMeansCancelledCorrect == Spec => []HookedMeansCancelled
BY CancelInvCorrect, PTL DEF CancelInv

-----------------------------------------------------------------------------
(* The channel of each subscriber.                                          *)

\* A frame as the channel sees it.
Seen(f) == [stream |-> f.req, terminal |-> IsTerminal(f)]

\* The first frame is accepted by the channel of the next subscriber: nothing
\* of its request follows a terminal frame there.
LEMMA DeliverAccepts ==
    ASSUME TypeOK, FanOutInv, Deliver, next \in open, NEW s \in Subscribers, s = next,
           log'[s] = Append(log[s], delivering[1]), Len(log[s]) - taken[s] < Capacity
    PROVE  \E g \in Channel(s)!Frames : Channel(s)!Accept(g)
<1> DEFINE f == delivering[1]
<1>1. /\ f \in Frames /\ f.req = Current /\ Current \in Requests
      /\ delivering # <<>> /\ UNCHANGED <<taken, open>>
    BY DeliverFacts, FirstFrame DEF FanOutInv, Current, Deliver
<1>2. log[s] \in Seq(Frames)
    BY DEF TypeOK, ChannelsType
<1>3. /\ Len(log[s]) \in Nat /\ Len(log'[s]) = Len(log[s]) + 1
      /\ \A i \in 1 .. Len(log[s]) : log'[s][i] = log[s][i]
      /\ log'[s][Len(log[s]) + 1] = f
    BY <1>1, <1>2, AppendFacts
<1>4. \A i \in 1 .. Len(log[s]) : log[s][i].req = f.req => ~IsTerminal(log[s][i])
    <2>1. ~HasTerminal(s, Current)
        BY <1>1, BoundsAreNat DEF FanOutInv, EndIsLast, Subscribers
    <2> QED
        BY <1>1, <2>1, HasTerminalFacts
<1>5. [i \in 1 .. Len(log'[s]) |-> Seen(log'[s][i])] =
          Append([i \in 1 .. Len(log[s]) |-> Seen(log[s][i])], Seen(f))
    BY <1>3
<1>6. PICK g : g = Seen(f)
    OBVIOUS
<1>7. g \in Channel(s)!Frames
    BY <1>1, <1>6 DEF Seen, IsTerminal, Channel!Frames
<1>8. Channel(s)!Accept(g)
    BY <1>1, <1>3, <1>4, <1>5, <1>6 DEF Channel!Accept, Channel!StreamIsOpen, Seen
<1> QED
    BY <1>7, <1>8

\* Each subscriber's channel is used as its flow control requires, whatever
\* handlers and clients send: nothing of a request follows its terminal frame.
THEOREM ChannelsCorrect == Spec => ChannelsAsPromised
<1>1. Init => \A s \in Subscribers : Channel(s)!Init
    <2> SUFFICES ASSUME Init, NEW s \in Subscribers PROVE Channel(s)!Init
        OBVIOUS
    <2>1. log[s] = <<>> /\ taken[s] = 0 /\ s \in open
        BY DEF Init
    <2>2. [i \in 1 .. Len(log[s]) |-> [stream |-> log[s][i].req, terminal |-> IsTerminal(log[s][i])]]
              = <<>>
        BY <2>1
    <2> QED
        BY <2>1, <2>2 DEF Channel!Init
<1>2. TypeOK /\ FanOutInv /\ [Next]_vars =>
          [\A s \in Subscribers : [Channel(s)!Next]_(Channel(s)!vars)]_<<log, taken, open>>
    <2> SUFFICES ASSUME TypeOK, FanOutInv, [Next]_vars, NEW s \in Subscribers
                 PROVE  [Channel(s)!Next]_(Channel(s)!vars) \/ UNCHANGED <<log, taken, open>>
        OBVIOUS
    <2>1. CASE UNCHANGED <<log, taken, open>>
        BY <2>1
    <2>2. CASE log'[s] = log[s] /\ taken'[s] = taken[s] /\ (s \in open <=> s \in open')
        BY <2>2 DEF Channel!vars
    <2>3. CASE Deliver
        <3>1. /\ \A x \in Subscribers : x # next => log'[x] = log[x]
              /\ \/ /\ next \in open /\ Len(log[next]) - taken[next] < Capacity
                    /\ log'[next] = Append(log[next], delivering[1])
                 \/ log' = log
              /\ UNCHANGED <<taken, open>>
            BY <2>3, DeliverFacts DEF Deliver
        <3>2. CASE s # next \/ log' = log
            BY <2>2, <3>1, <3>2
        <3>3. CASE s = next /\ log' # log
            <4>2. \E g \in Channel(s)!Frames : Channel(s)!Accept(g)
                BY <2>3, <3>1, <3>3, DeliverAccepts
            <4>3. Channel(s)!Next
                BY <4>2 DEF Channel!Next
            <4> QED
                BY <4>3
        <3> QED
            BY <3>2, <3>3
    <2>4. ASSUME NEW x \in Subscribers, Receive(x)
          PROVE  [Channel(s)!Next]_(Channel(s)!vars)
        <3>1. /\ x \in open /\ taken[x] < Len(log[x]) /\ taken' = [taken EXCEPT ![x] = @ + 1]
              /\ UNCHANGED <<log, open>>
            BY <2>4 DEF Receive
        <3>2. CASE s = x
            <4>1. /\ s \in open /\ taken[s] < Len(log[s]) /\ taken'[s] = taken[s] + 1
                  /\ UNCHANGED <<log, open>>
                BY <3>1, <3>2 DEF TypeOK, ChannelsType
            <4>2. Len([i \in 1 .. Len(log[s]) |->
                          [stream |-> log[s][i].req, terminal |-> IsTerminal(log[s][i])]])
                      = Len(log[s])
                BY DEF TypeOK, ChannelsType
            <4>3. Channel(s)!Take
                BY <4>1, <4>2 DEF Channel!Take
            <4> QED
                BY <4>3 DEF Channel!Next
        <3>3. CASE s # x
            BY <2>2, <3>1, <3>3 DEF TypeOK, ChannelsType
        <3> QED
            BY <3>2, <3>3
    <2>5. ASSUME NEW x \in Subscribers, SubscriberGone(x)
          PROVE  [Channel(s)!Next]_(Channel(s)!vars)
        <3>1. x \in open /\ open' = open \ {x} /\ UNCHANGED <<log, taken>>
            BY <2>5 DEF SubscriberGone
        <3>2. CASE s = x
            <4>1. Channel(s)!Close
                BY <3>1, <3>2 DEF Channel!Close
            <4> QED
                BY <4>1 DEF Channel!Next
        <3>3. CASE s # x
            BY <2>2, <3>1, <3>3
        <3> QED
            BY <3>2, <3>3
    <2>6. CASE \/ RouteRequest \/ RouteResponse \/ RouteCancel \/ EndFanOut \/ UNCHANGED vars
        BY <2>1, <2>6 DEF RouteRequest, RouteResponse, RouteCancel, EndFanOut, vars, channels
    <2>7. ASSUME NEW r \in Requests, NEW t \in Targets, Submit(r, t)
          PROVE  UNCHANGED <<log, taken, open>>
        BY <2>7 DEF Submit, channels
    <2>8. ASSUME NEW r \in Requests, Cancel(r)
          PROVE  UNCHANGED <<log, taken, open>>
        BY <2>8 DEF Cancel, channels
    <2>9. ASSUME NEW r \in Requests, NEW h, NEW k, Respond(h, r, k)
          PROVE  UNCHANGED <<log, taken, open>>
        BY <2>9 DEF Respond, channels
    <2>10. ASSUME NEW k, Stray(k)
           PROVE  UNCHANGED <<log, taken, open>>
        BY <2>10 DEF Stray, channels
    <2>11. ASSUME NEW h, TakeFrame(h) \/ HandlerGone(h)
           PROVE  UNCHANGED <<log, taken, open>>
        BY <2>11 DEF TakeFrame, HandlerGone
    <2>12. ASSUME NEW n, NEW h, ChangeRegistry(n, h)
           PROVE  UNCHANGED <<log, taken, open>>
        BY <2>12 DEF ChangeRegistry, channels
    <2> QED
        BY <2>1, <2>3, <2>4, <2>5, <2>6, <2>7, <2>8, <2>9, <2>10, <2>11, <2>12
        DEF Next, Route, Environment
<1> QED
    BY <1>1, <1>2, FanOutCorrect, PTL DEF Spec, ChannelsAsPromised
=============================================================================
