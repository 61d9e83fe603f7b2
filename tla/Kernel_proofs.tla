---------------------------- MODULE Kernel_proofs ----------------------------
(***************************************************************************)
(* The safety properties of Kernel, for every set of subsystems and        *)
(* requests and every capacity.                                            *)
(*                                                                         *)
(* A request and what its handler sends for it pass through up to five     *)
(* channels and the hands of three tasks.  The invariant says that each is *)
(* in one place at a time, and what the tasks leave behind when they end.  *)
(***************************************************************************)
EXTENDS Kernel, ChannelFacts, FiniteSetTheorems

-----------------------------------------------------------------------------
(* The invariant.                                                           *)

\* What the bridge of s has still to forward, and what s has still to receive.
Way(s) == carrying[s] \o toKernel[s]
Handed(s) == (IF s \in Dispatched THEN default[s] ELSE <<>>) \o toSub[s]

\* The frames on their way to the router.
UnderWay == RangeOf(inbound) \cup UNION {RangeOf(Way(s)) : s \in Subsystems}

\* The router has not seen the request yet.
Unrouted(r) == Frame("request", r) \in UnderWay

\* A request frame is in q at most once.
Once(q) == \A i, j \in 1 .. Len(q) : q[i].kind = "request" /\ q[i] = q[j] => i = j

\* Every frame belongs to a request that was made, and is where it belongs.
FramesMade ==
    /\ \A f \in UnderWay \cup RangeOf(delivering) : f.req \in made
    /\ \A s \in Subsystems : \A f \in RangeOf(Handed(s)) :
          f.req \in made /\ (f.kind = "request" => Callee[f.req] = s)
    /\ \A s \in Subsystems : \A f \in RangeOf(Way(s)) :
          f.kind # "request" => f.kind \in {"item", "done"} /\ Callee[f.req] = s
    /\ \A f \in RangeOf(delivering) : f.kind # "request"

\* A request is on its way to the router once...
RoutedOnce ==
    /\ Once(inbound)
    /\ \A s \in Subsystems :
          /\ Once(Way(s))
          /\ \A r \in Requests : Frame("request", r) \in RangeOf(Way(s)) =>
                /\ Frame("request", r) \notin RangeOf(inbound)
                /\ \A t \in Subsystems \ {s} : Frame("request", r) \notin RangeOf(Way(t))

\* ... and nothing was done about it before.
Untouched(r) ==
    /\ items[r] = 0 /\ log[r] = <<>>
    /\ Frame("item", r) \notin UnderWay /\ Frame("done", r) \notin UnderWay
    /\ \A f \in RangeOf(delivering) : f.req # r
    /\ r \notin DOMAIN inflight /\ r \notin quit
    /\ \A s \in Subsystems : r \notin held[s] /\ Frame("request", r) \notin RangeOf(Handed(s))

UnroutedIsNew == \A r \in Requests : r \notin made \/ Unrouted(r) => Untouched(r)

\* A request is handed to its handler once.
HandedOnce ==
    \A s \in Subsystems :
        /\ Once(Handed(s))
        /\ \A r \in held[s] : r \notin quit
        /\ \A r \in held[s] \cup quit : Frame("request", r) \notin RangeOf(Handed(s))

\* A request the router has seen is in flight, or its end is told or being told.
Settled ==
    router = "running" =>
        \A r \in made :
            \/ r \in DOMAIN inflight \/ Unrouted(r) \/ Told(r)
            \/ \E f \in RangeOf(delivering) : f.req = r /\ IsTerminal(f)

\* A bridge ends after its subsystem, and leaves nothing behind.
BridgesEnded ==
    /\ \A s \in Subsystems \ bridge : carrying[s] = <<>> /\ toKernel[s] = <<>>
    /\ router # "aborted" => \A s \in Subsystems \ bridge : ~Sending(s)
    /\ \A s \in Dispatched \ running : default[s] = <<>>

\* The router ends after the clients and the bridges, and leaves nothing behind.
RouterEnded ==
    /\ router # "running" => inflight = [r \in {} |-> None] /\ delivering = <<>> /\ inbound = <<>>
    /\ router = "stopped" => InboundClosed

-----------------------------------------------------------------------------
(* What the proofs need to know of frames and of the actions.               *)

\* What a frame is made of.
LEMMA FrameFacts ==
    /\ \A k \in Kinds, r \in Requests :
          Frame(k, r) \in Frames /\ Frame(k, r).kind = k /\ Frame(k, r).req = r
    /\ \A f \in Frames : f.kind \in Kinds /\ f.req \in Requests /\ f = Frame(f.kind, f.req)
BY DEF Frame, Frames, Kinds

\* The requests among the frames of a channel.
LEMMA RequestsInFacts ==
    ASSUME NEW q \in Seq(Frames)
    PROVE  /\ RequestsIn(q) \subseteq Requests
           /\ \A r : r \in RequestsIn(q) <=> r \in Requests /\ Frame("request", r) \in RangeOf(q)
           /\ RangeOf(q) \subseteq Frames
<1>1. RangeOf(q) \subseteq Frames
    BY EmptyFacts DEF RangeOf
<1>2. \A r : r \in RequestsIn(q) <=> \E f \in RangeOf(q) : f.kind = "request" /\ f.req = r
    BY DEF RequestsIn
<1>3. "request" \in Kinds
    BY DEF Kinds
<1> QED
    BY <1>1, <1>2, <1>3, FrameFacts

\* What channels hold.
LEMMA RangeFacts ==
    ASSUME NEW S, NEW q \in Seq(S)
    PROVE  /\ RangeOf(q) \subseteq S
           /\ \A f \in S : RangeOf(Append(q, f)) = RangeOf(q) \cup {f}
           /\ q # <<>> => RangeOf(q) = RangeOf(Tail(q)) \cup {Head(q)} /\ Head(q) \in S
           /\ \A p \in Seq(S) : RangeOf(p \o q) = RangeOf(p) \cup RangeOf(q)
<1>1. \A p : RangeOf(p) = Elements(p)
    BY DEF RangeOf, Elements
<1>2. RangeOf(q) \subseteq S
    BY EmptyFacts DEF RangeOf
<1> QED
    BY <1>1, <1>2, ElementsFacts, ElementsConcat, TailFacts

\* Nothing, and one frame.
LEMMA RangeOfFew ==
    /\ RangeOf(<<>>) = {}
    /\ \A f : RangeOf(<<f>>) = {f} /\ Len(<<f>>) = 1 /\ <<f>> # <<>> /\ <<f>>[1] = f
BY DEF RangeOf

\* The channels in front of the router and of the handlers.
LEMMA WayFacts ==
    ASSUME TypeOK, NEW s \in Subsystems
    PROVE  /\ carrying[s] \in Seq(Frames) /\ toKernel[s] \in Seq(Frames) /\ Way(s) \in Seq(Frames)
           /\ toSub[s] \in Seq(Frames) /\ Handed(s) \in Seq(Frames)
           /\ s \in Dispatched => default[s] \in Seq(Frames)
           /\ RangeOf(Way(s)) = RangeOf(carrying[s]) \cup RangeOf(toKernel[s])
           /\ RangeOf(Way(s)) \subseteq UnderWay /\ RangeOf(inbound) \subseteq UnderWay
           /\ UnderWay \subseteq Frames
           /\ RangeOf(Handed(s)) =
                 RangeOf(toSub[s]) \cup (IF s \in Dispatched THEN RangeOf(default[s]) ELSE {})
<1>1. /\ \A t \in Subsystems : carrying[t] \in Seq(Frames) /\ toKernel[t] \in Seq(Frames)
      /\ toSub[s] \in Seq(Frames)
      /\ s \in Dispatched => default[s] \in Seq(Frames)
      /\ inbound \in Seq(Frames)
    BY DEF TypeOK, PipesType, SubsystemsType, RouterType
<1>2. \A t \in Subsystems : /\ Way(t) \in Seq(Frames)
                            /\ RangeOf(Way(t)) = RangeOf(carrying[t]) \cup RangeOf(toKernel[t])
                            /\ RangeOf(Way(t)) \subseteq Frames
    BY <1>1, RangeFacts, ConcatFacts DEF Way
<1>3. RangeOf(inbound) \subseteq Frames
    BY <1>1, RangeFacts
<1>4. CASE s \in Dispatched
    BY <1>1, <1>2, <1>3, <1>4, RangeFacts, ConcatFacts DEF UnderWay, Handed
<1>5. CASE s \notin Dispatched
  <2>1. Handed(s) = toSub[s]
      BY <1>1, <1>5, ConcatSingle, FrameFacts DEF Handed
  <2> QED
      BY <1>1, <1>2, <1>3, <1>5, <2>1 DEF UnderWay
<1> QED
    BY <1>4, <1>5

\* The router takes the first frame of its channel.
LEMMA TakesFacts ==
    ASSUME TypeOK, NEW f, Takes(f)
    PROVE  /\ f \in Frames /\ f \in RangeOf(inbound) /\ f.req \in Requests
           /\ RangeOf(inbound) = RangeOf(inbound') \cup {f}
           /\ inbound' \in Seq(Frames) /\ Len(inbound') <= InboundCapacity
           /\ router = "running" /\ delivering = <<>> /\ inbound # <<>>
           /\ f = Head(inbound) /\ inbound' = Tail(inbound)
<1>1. inbound \in Seq(Frames) /\ inbound # <<>> /\ Len(inbound) <= InboundCapacity
    BY DEF TypeOK, RouterType, Takes
<1>2. RangeOf(inbound) = RangeOf(inbound') \cup {f}
    BY <1>1, RangeFacts DEF Takes
<1>3. /\ inbound' \in Seq(Frames) /\ f \in Frames
      /\ Len(inbound) \in Nat /\ Len(inbound') = Len(inbound) - 1
    BY <1>1, TailFacts DEF Takes
<1>4. Len(inbound') <= InboundCapacity
    BY <1>1, <1>3, ChannelsHaveRoom
<1> QED
    BY <1>1, <1>2, <1>3, <1>4, FrameFacts DEF Takes

\* try_send to subsystem s.
LEMMA TrySendFacts ==
    ASSUME TypeOK, NEW s \in Subsystems, NEW f \in Frames, TrySend(s, f)
    PROVE  /\ toSub' \in [Subsystems -> Seq(Frames)]
           /\ \A t \in Subsystems : Len(toSub'[t]) <= PipeCapacity
           /\ toSub'[s] = IF CanSend(s) THEN Append(toSub[s], f) ELSE toSub[s]
           /\ \A t \in Subsystems \ {s} : toSub'[t] = toSub[t]
<1>1. /\ toSub \in [Subsystems -> Seq(Frames)]
      /\ \A t \in Subsystems : Len(toSub[t]) <= PipeCapacity
    BY DEF TypeOK, PipesType
<1>2. /\ Append(toSub[s], f) \in Seq(Frames)
      /\ Len(toSub[s]) \in Nat /\ Len(Append(toSub[s], f)) = Len(toSub[s]) + 1
    BY <1>1, AppendFacts
<1>3. CanSend(s) => Len(Append(toSub[s], f)) <= PipeCapacity
    BY <1>2, ChannelsHaveRoom DEF CanSend
<1> QED
    BY <1>1, <1>2, <1>3 DEF TrySend

\* Every frame under way has its request.
LEMMA MadeFacts ==
    ASSUME TypeOK, FramesMade
    PROVE  /\ \A f \in RangeOf(inbound) : f.req \in made
           /\ \A s \in Subsystems : \A r \in RequestsIn(toSub[s]) : r \in made /\ Callee[r] = s
           /\ \A s \in Dispatched : s \in Subsystems /\
                 \A r \in RequestsIn(default[s]) : r \in made /\ Callee[r] = s
<1>0. Dispatched \subseteq Subsystems
    BY DispatchedAreSubsystems
<1>1. RangeOf(inbound) \subseteq UnderWay
    BY DEF UnderWay
<1>2. ASSUME NEW s \in Subsystems, NEW r \in RequestsIn(toSub[s]) PROVE r \in made /\ Callee[r] = s
  <2>1. Frame("request", r) \in RangeOf(Handed(s)) /\ r \in Requests
      BY <1>2, WayFacts, RequestsInFacts
  <2> QED
      BY <2>1, FrameFacts DEF FramesMade, Kinds
<1>3. ASSUME NEW s \in Dispatched, NEW r \in RequestsIn(default[s]) PROVE r \in made /\ Callee[r] = s
  <2>1. Frame("request", r) \in RangeOf(Handed(s)) /\ r \in Requests
      BY <1>0, <1>3, WayFacts, RequestsInFacts
  <2> QED
      BY <1>0, <2>1, FrameFacts DEF FramesMade, Kinds
<1> QED
    BY <1>0, <1>1, <1>2, <1>3 DEF FramesMade

\* A request is passed on or refused.
LEMMA RouteRequestFacts ==
    ASSUME TypeOK, RouteRequest
    PROVE  \E f \in Frames, s \in Subsystems :
              /\ Takes(f) /\ f.kind = "request" /\ s = Callee[f.req] /\ TrySend(s, f)
              /\ inflight' = IF CanSend(s) THEN Remember(inflight, f.req, s) ELSE inflight
              /\ delivering' = IF CanSend(s) THEN <<>> ELSE <<Frame("error", f.req)>>
              /\ UNCHANGED <<clients, router, bridge, carrying, toKernel, subsystems, calls,
                             history>>
<1>1. \A f \in Frames : Callee[f.req] \in Subsystems
    BY FrameFacts, CalleesAreSubsystems
<1> QED
    BY <1>1 DEF RouteRequest

\* A cancel settles its request, or is ignored.
LEMMA RouteCancelFacts ==
    ASSUME TypeOK, RouteCancel
    PROVE  \E f \in Frames, s \in Subsystems :
              /\ Takes(f) /\ f.kind = "cancel" /\ s = Callee[f.req]
              /\ \/ /\ f.req \in DOMAIN inflight
                    /\ TrySend(s, f)
                    /\ inflight' = Forget(inflight, f.req)
                    /\ delivering' = <<f>>
                 \/ /\ f.req \notin DOMAIN inflight
                    /\ UNCHANGED <<toSub, inflight, delivering>>
              /\ UNCHANGED <<clients, router, bridge, carrying, toKernel, subsystems, calls,
                             history>>
<1>1. \A f \in Frames : Callee[f.req] \in Subsystems
    BY FrameFacts, CalleesAreSubsystems
<1>2. \A f \in Frames : f.req \in DOMAIN inflight => inflight[f.req] = Callee[f.req]
    BY DEF TypeOK, RouterType
<1> QED
    BY <1>1, <1>2 DEF RouteCancel

\* A channel of at most one frame.
LEMMA OneFrame ==
    ASSUME NEW q \in Seq(Frames), q # <<>>, Len(q) <= 1
    PROVE  \E f \in Frames : q = <<f>> /\ q[1] = f
<1>1. Len(q) \in Nat /\ Len(q) # 0
    BY EmptyFacts
<1>2. \A n \in Nat : n # 0 /\ n <= 1 => n = 1
    OBVIOUS
<1>3. Len(q) = 1
    BY <1>1, <1>2
<1>4. q[1] \in Frames
    BY <1>3, EmptyFacts
<1>5. q = <<q[1]>>
    BY <1>3, <1>4
<1> QED
    BY <1>4, <1>5

\* What is remembered and forgotten of the requests in flight.
LEMMA InflightFacts ==
    /\ \A r, s : /\ DOMAIN Remember(inflight, r, s) = DOMAIN inflight \cup {r}
                 /\ Remember(inflight, r, s)[r] = s
                 /\ \A x \in DOMAIN inflight : x # r => Remember(inflight, r, s)[x] = inflight[x]
    /\ \A r : /\ DOMAIN Forget(inflight, r) = DOMAIN inflight \ {r}
              /\ \A x \in DOMAIN inflight : x # r => Forget(inflight, r)[x] = inflight[x]
BY DEF Remember, Forget

\* Only requests that were made are in flight, each to its callee.
InflightType(f) == DOMAIN f \subseteq made /\ \A r \in DOMAIN f : f[r] = Callee[r]

\* Remembering a request that was made and forgetting one keep that type.
LEMMA InflightTyped ==
    ASSUME TypeOK
    PROVE  /\ InflightType(inflight)
           /\ \A r \in made : InflightType(Remember(inflight, r, Callee[r]))
           /\ \A r : InflightType(Forget(inflight, r))
           /\ InflightType([r \in {} |-> None])
BY DEF InflightType, Remember, Forget, TypeOK, RouterType

\* The frame being sent to the subscriber.
LEMMA DeliverFacts ==
    ASSUME TypeOK, Deliver
    PROVE  \E f \in Frames :
              /\ delivering = <<f>> /\ f.req \in Requests /\ RangeOf(delivering) = {f}
              /\ router = "running" /\ delivering' = <<>>
              /\ log' = [log EXCEPT ![f.req] = Append(@, f.kind)]
              /\ inflight' = IF IsTerminal(f) THEN Forget(inflight, f.req) ELSE inflight
              /\ UNCHANGED <<clients, inbound, router, bridge, carrying, pipes, subsystems,
                             calls, quit>>
<1>1. PICK f \in Frames : delivering = <<f>> /\ delivering[1] = f
    BY OneFrame DEF TypeOK, RouterType, Deliver
<1> QED
    BY <1>1, RangeOfFew, FrameFacts DEF Deliver

-----------------------------------------------------------------------------
(* Types.                                                                   *)

\* The initial values have their types.
LEMMA InitType == Init => TypeOK
BY ChannelsHaveRoom, BoundsAreNat, CallsAreRequests
DEF Init, TypeOK, RouterType, PipesType, SubsystemsType, RequestsType

\* The router and its channel.
LEMMA RouterTyped == ASSUME TypeOK, FramesMade, Next PROVE RouterType'
<1> USE DEF RouterType
<1>0. /\ Len(inbound) \in Nat /\ Len(delivering) \in Nat
      /\ made \subseteq Requests /\ DOMAIN inflight \subseteq made
  BY EmptyFacts DEF TypeOK, RequestsType
<1>1. ASSUME NEW f \in Frames, inbound' = Append(inbound, f), Len(inbound) < InboundCapacity,
             made \subseteq made', UNCHANGED <<delivering, inflight, router, clients>>
      PROVE  RouterType'
  BY <1>0, <1>1, AppendFacts, ChannelsHaveRoom DEF TypeOK
<1>2. ASSUME NEW r \in Requests, Submit(r) \/ Cancel(r) PROVE RouterType'
  BY <1>1, <1>2, FrameFacts DEF Submit, Cancel, HasInboundRoom, Kinds
<1>3. CASE ClientsLeave
  BY <1>3 DEF ClientsLeave, tasks, calls, TypeOK
<1>4. CASE RouteRequest
  <2>1. PICK f \in Frames, s \in Subsystems :
              /\ Takes(f) /\ f.kind = "request" /\ s = Callee[f.req]
              /\ inflight' = IF CanSend(s) THEN Remember(inflight, f.req, s) ELSE inflight
              /\ delivering' = IF CanSend(s) THEN <<>> ELSE <<Frame("error", f.req)>>
              /\ UNCHANGED <<clients, router, calls>>
      BY <1>4, RouteRequestFacts
  <2>2. f.req \in made
      BY <2>1, TakesFacts, MadeFacts
  <2>3. made' = made /\ InflightType(inflight')
      BY <2>1, <2>2, InflightTyped DEF calls
  <2>4. delivering' \in Seq(Frames) /\ Len(delivering') <= 1
      BY <1>0, <2>1, <2>2, FrameFacts DEF Kinds
  <2> QED
      BY <2>1, <2>3, <2>4, TakesFacts DEF TypeOK, InflightType
<1>5. CASE RouteResponse
  <2>1. PICK f \in Frames :
              /\ Takes(f)
              /\ delivering' = IF f.req \in DOMAIN inflight THEN <<f>> ELSE <<>>
              /\ UNCHANGED <<clients, router, inflight, calls>>
      BY <1>5 DEF RouteResponse
  <2>2. delivering' \in Seq(Frames) /\ Len(delivering') <= 1
      BY <2>1
  <2> QED
      BY <2>1, <2>2, TakesFacts DEF TypeOK, calls
<1>6. CASE RouteCancel
  <2>1. PICK f \in Frames, s \in Subsystems :
              /\ Takes(f)
              /\ \/ inflight' = Forget(inflight, f.req) /\ delivering' = <<f>>
                 \/ UNCHANGED <<inflight, delivering>>
              /\ UNCHANGED <<clients, router, calls>>
      BY <1>6, RouteCancelFacts
  <2>2. delivering' \in Seq(Frames) /\ Len(delivering') <= 1
    <3>1. <<f>> \in Seq(Frames) /\ Len(<<f>>) <= 1
        OBVIOUS
    <3> QED
        BY <2>1, <3>1 DEF TypeOK
  <2>3. made' = made /\ InflightType(inflight')
      BY <2>1, InflightTyped DEF calls
  <2> QED
      BY <2>1, <2>2, <2>3, TakesFacts DEF TypeOK, InflightType
<1>7. CASE Deliver
  <2>1. /\ inflight' = inflight \/ \E r : inflight' = Forget(inflight, r)
        /\ delivering' = <<>> /\ UNCHANGED <<clients, inbound, router, made>>
      BY <1>7 DEF Deliver, calls
  <2>2. InflightType(inflight')
      BY <2>1, InflightTyped
  <2> QED
      BY <2>1, <2>2 DEF TypeOK, InflightType
<1>8. CASE Stop \/ Abort
  <2>1. InflightType(inflight') /\ made' = made
      BY <1>8, InflightTyped DEF Stop, Abort, calls
  <2>2. /\ inbound' \in Seq(Frames) /\ Len(inbound') <= InboundCapacity
        /\ delivering' \in Seq(Frames) /\ Len(delivering') <= 1
    <3>1. CASE Stop
        BY <3>1 DEF Stop, TypeOK
    <3>2. CASE Abort
        BY <3>2, ChannelsHaveRoom DEF Abort
    <3> QED
        BY <1>8, <3>1, <3>2
  <2> QED
      BY <1>8, <2>1, <2>2 DEF Stop, Abort, TypeOK, InflightType
<1>9. ASSUME NEW s \in Subsystems, BridgeSend(s) PROVE RouterType'
  <2>1. /\ carrying[s] \in Seq(Frames) /\ carrying[s] # <<>> /\ Len(carrying[s]) <= 1
      BY <1>9 DEF BridgeSend, TypeOK, PipesType
  <2>2. PICK f \in Frames : carrying[s] = <<f>>
      BY <2>1, OneFrame
  <2>3. inbound' = Append(inbound, f)
      BY <1>9, <2>2, ConcatSingle DEF BridgeSend, TypeOK
  <2> QED
      BY <1>1, <1>9, <2>3 DEF BridgeSend, HasInboundRoom, calls
<1>10. ASSUME NEW s \in Subsystems, BridgeRecv(s) \/ BridgeFails(s) \/ BridgeEnds(s)
       PROVE RouterType'
  BY <1>10 DEF BridgeRecv, BridgeFails, BridgeEnds, EndBridge, TypeOK, calls
<1>11. ASSUME NEW s \in Subsystems, Subsystem(s) PROVE RouterType'
  <2>1. UNCHANGED tasks /\ UNCHANGED clients /\ made \subseteq made'
      BY <1>11 DEF Subsystem, Surface, DispatcherEnds, Take, Leave, LoopEnds, DropEnd, SendItem,
                   SendDone, GiveUp, Call, calls
  <2> QED
      BY <1>0, <2>1 DEF tasks, TypeOK
<1> QED
  BY <1>2, <1>3, <1>4, <1>5, <1>6, <1>7, <1>8, <1>9, <1>10, <1>11 DEF Next, Route, Bridge

\* A subsystem puts a frame into its pipe.
LEMMA SendFacts ==
    ASSUME TypeOK, NEW s \in Subsystems, NEW f \in Frames, Send(s, f)
    PROVE  /\ toKernel' \in [Subsystems -> Seq(Frames)]
           /\ \A t \in Subsystems : Len(toKernel'[t]) <= PipeCapacity
           /\ toKernel'[s] = Append(toKernel[s], f) /\ s \in bridge
           /\ \A t \in Subsystems \ {s} : toKernel'[t] = toKernel[t]
<1>1. /\ toKernel \in [Subsystems -> Seq(Frames)]
      /\ \A t \in Subsystems : Len(toKernel[t]) <= PipeCapacity
    BY DEF TypeOK, PipesType
<1>2. /\ Append(toKernel[s], f) \in Seq(Frames)
      /\ Len(toKernel[s]) \in Nat /\ Len(Append(toKernel[s], f)) = Len(toKernel[s]) + 1
    BY <1>1, AppendFacts
<1>3. Len(Append(toKernel[s], f)) <= PipeCapacity
    BY <1>2, ChannelsHaveRoom DEF Send, HasReplyRoom
<1> QED
    BY <1>1, <1>2, <1>3 DEF Send, HasReplyRoom

\* A subsystem sends an item, a Done or a request.
LEMMA SendsFacts ==
    ASSUME TypeOK, NEW s \in Subsystems, NEW r \in Requests,
           SendItem(s, r) \/ SendDone(s, r) \/ Call(s, r)
    PROVE  /\ \E k \in Kinds : Frame(k, r) \in Frames /\ Send(s, Frame(k, r))
           /\ UNCHANGED <<clients, tasks, toSub, dispatcher, default, running, answered>>
BY FrameFacts DEF SendItem, SendDone, Call, Kinds, subsystems

\* The task of the bridge moves a frame.
LEMMA BridgeFacts ==
    ASSUME TypeOK, NEW s \in Subsystems, BridgeRecv(s) \/ BridgeSend(s)
    PROVE  \E f \in Frames :
              \/ /\ BridgeRecv(s)
                 /\ carrying[s] = <<>> /\ toKernel[s] # <<>> /\ f = Head(toKernel[s])
                 /\ carrying' = [carrying EXCEPT ![s] = <<f>>]
                 /\ toKernel' = [toKernel EXCEPT ![s] = Tail(toKernel[s])]
                 /\ UNCHANGED inbound
              \/ /\ BridgeSend(s)
                 /\ carrying[s] = <<f>> /\ router = "running"
                 /\ Len(inbound) < InboundCapacity
                 /\ inbound' = Append(inbound, f)
                 /\ carrying' = [carrying EXCEPT ![s] = <<>>]
                 /\ UNCHANGED toKernel
<1>1. /\ carrying[s] \in Seq(Frames) /\ Len(carrying[s]) <= 1
      /\ toKernel[s] \in Seq(Frames) /\ inbound \in Seq(Frames)
    BY DEF TypeOK, PipesType, RouterType
<1>2. CASE BridgeRecv(s)
  <2>1. Head(toKernel[s]) \in Frames
      BY <1>1, <1>2, TailFacts DEF BridgeRecv
  <2> QED
      BY <1>2, <2>1 DEF BridgeRecv
<1>3. CASE BridgeSend(s)
  <2>1. PICK f \in Frames : carrying[s] = <<f>>
      BY <1>1, <1>3, OneFrame DEF BridgeSend
  <2>2. inbound \o carrying[s] = Append(inbound, f)
      BY <1>1, <2>1, ConcatSingle
  <2> QED
      BY <1>3, <2>1, <2>2 DEF BridgeSend, pipes, HasInboundRoom
<1> QED
    BY <1>2, <1>3

\* Nothing fits into every channel.
LEMMA NothingFits ==
    <<>> \in Seq(Frames) /\ Len(<<>>) <= 1 /\ Len(<<>>) <= PipeCapacity
BY ChannelsHaveRoom

\* The bridges and the pipes.
LEMMA PipesTyped == ASSUME TypeOK, Next PROVE PipesType'
<1> USE DEF PipesType
<1>0. PipesType
  BY DEF TypeOK
<1>1. CASE RouteRequest
  <2>1. PICK f \in Frames, s \in Subsystems :
            TrySend(s, f) /\ UNCHANGED <<bridge, carrying, toKernel>>
      BY <1>1, RouteRequestFacts
  <2> QED
      BY <1>0, <2>1, TrySendFacts
<1>2. CASE RouteCancel
  <2>1. PICK f \in Frames, s \in Subsystems :
            (TrySend(s, f) \/ UNCHANGED toSub) /\ UNCHANGED <<bridge, carrying, toKernel>>
      BY <1>2, RouteCancelFacts
  <2> QED
      BY <1>0, <2>1, TrySendFacts
<1>3. ASSUME NEW s \in Subsystems, BridgeRecv(s) PROVE PipesType'
  <2>1. PICK f \in Frames :
                 /\ carrying[s] = <<>> /\ toKernel[s] # <<>>
                 /\ carrying' = [carrying EXCEPT ![s] = <<f>>]
                 /\ toKernel' = [toKernel EXCEPT ![s] = Tail(toKernel[s])]
                 /\ UNCHANGED <<bridge, toSub>>
      BY <1>3, BridgeFacts DEF BridgeRecv, BridgeSend
  <2>2. /\ <<f>> \in Seq(Frames) /\ Len(<<f>>) <= 1
        /\ Tail(toKernel[s]) \in Seq(Frames) /\ Len(Tail(toKernel[s])) <= PipeCapacity
      BY <1>0, <2>1, TailFacts, ChannelsHaveRoom
  <2> QED
      BY <1>0, <2>1, <2>2
<1>4. ASSUME NEW s \in Subsystems, BridgeSend(s) \/ BridgeFails(s) \/ BridgeEnds(s)
      PROVE PipesType'
  <2>1. /\ carrying' = [carrying EXCEPT ![s] = <<>>]
        /\ toKernel' = toKernel \/ toKernel' = [toKernel EXCEPT ![s] = <<>>]
        /\ bridge' \subseteq bridge /\ toSub' = toSub
      BY <1>4 DEF BridgeSend, BridgeFails, BridgeEnds, EndBridge, pipes
  <2> QED
      BY <1>0, <2>1, NothingFits
<1>5. ASSUME NEW s \in Subsystems, NEW r \in Requests,
             SendItem(s, r) \/ SendDone(s, r) \/ Call(s, r)
      PROVE  PipesType'
  BY <1>0, <1>5, SendsFacts, SendFacts DEF tasks
<1>6. ASSUME NEW s \in Subsystems, Surface(s) \/ Take(s) PROVE PipesType'
  <2>1. /\ UNCHANGED <<bridge, carrying, toKernel>>
        /\ \/ toSub' = toSub
           \/ toSub' = [toSub EXCEPT ![s] = <<>>]
           \/ toSub[s] # <<>> /\ toSub' = [toSub EXCEPT ![s] = Tail(@)]
      BY <1>6 DEF Surface, Take, tasks
  <2>2. toSub[s] # <<>> => /\ Tail(toSub[s]) \in Seq(Frames)
                           /\ Len(Tail(toSub[s])) <= PipeCapacity
      BY <1>0, TailFacts, ChannelsHaveRoom
  <2>3. CASE toSub' = toSub
      BY <1>0, <2>1, <2>3
  <2>4. CASE toSub' = [toSub EXCEPT ![s] = <<>>]
      BY <1>0, <2>1, <2>4, NothingFits
  <2>5. CASE toSub[s] # <<>> /\ toSub' = [toSub EXCEPT ![s] = Tail(@)]
      BY <1>0, <2>1, <2>2, <2>5
  <2> QED
      BY <2>1, <2>3, <2>4, <2>5
<1>7. ASSUME NEW s \in Subsystems, Leave(s) \/ LoopEnds(s) PROVE PipesType'
  <2>1. /\ UNCHANGED <<bridge, carrying, toKernel>>
        /\ toSub' = toSub \/ toSub' = [toSub EXCEPT ![s] = <<>>]
      BY <1>7 DEF Leave, LoopEnds, DropEnd, tasks
  <2> QED
      BY <1>0, <2>1, NothingFits
<1>8. ASSUME NEW s \in Subsystems, NEW r \in Requests, GiveUp(s, r) PROVE PipesType'
  BY <1>0, <1>8 DEF GiveUp, tasks, pipes
<1>9. ASSUME NEW s \in Subsystems, DispatcherEnds(s) PROVE PipesType'
  BY <1>0, <1>9 DEF DispatcherEnds, tasks, pipes
<1>10. CASE RouteResponse \/ Deliver \/ Stop \/ Abort \/ ClientsLeave
           \/ \E r \in Requests : Submit(r) \/ Cancel(r)
  BY <1>0, <1>10 DEF RouteResponse, Deliver, Stop, Abort, ClientsLeave, Submit, Cancel, pipes,
                     tasks
<1> QED
  BY <1>1, <1>2, <1>3, <1>4, <1>5, <1>6, <1>7, <1>8, <1>9, <1>10
  DEF Next, Route, Bridge, Subsystem

\* What the requests in front of a handler are moved to.
LEMMA TakeFacts ==
    ASSUME TypeOK, NEW s \in Subsystems, Take(s)
    PROVE  \E f \in Frames, q \in Seq(Frames) :
              /\ q # <<>> /\ f = Head(q)
              /\ \/ /\ s \in Dispatched /\ q = default[s] /\ UNCHANGED toSub
                    /\ default' = [default EXCEPT ![s] = Tail(q)]
                 \/ /\ s \notin Dispatched /\ q = toSub[s] /\ UNCHANGED default
                    /\ toSub' = [toSub EXCEPT ![s] = Tail(q)]
              /\ s \in running
              /\ held' = [held EXCEPT ![s] = IF f.kind = "request" THEN @ \cup {f.req} ELSE @]
              /\ UNCHANGED <<clients, tasks, toKernel, dispatcher, running, items, answered,
                             calls, history>>
<1>1. PICK q : q = IF s \in Dispatched THEN default[s] ELSE toSub[s]
    OBVIOUS
<1>2. q \in Seq(Frames) /\ q # <<>>
    BY <1>1, WayFacts DEF Take
<1>3. Head(q) \in Frames
    BY <1>2, TailFacts
<1> QED
    BY <1>1, <1>2, <1>3 DEF Take

\* A request that is taken was on its way to its handler.
LEMMA TakenRequest ==
    ASSUME TypeOK, FramesMade, NEW s \in Subsystems, NEW q \in Seq(Frames), q # <<>>,
           NEW f \in Frames, f = Head(q), f.kind = "request",
           \/ s \in Dispatched /\ q = default[s]
           \/ s \notin Dispatched /\ q = toSub[s]
    PROVE  f.req \in made /\ Callee[f.req] = s /\ f.req \in RequestsIn(q)
<1>1. f \in RangeOf(q)
    BY RangeFacts
<1>2. f.req \in RequestsIn(q)
    BY <1>1, RequestsInFacts, FrameFacts
<1> QED
    BY <1>2, MadeFacts

\* The dispatcher gives a frame to its call, surfaces it, or exits.
LEMMA SurfaceFacts ==
    ASSUME TypeOK, NEW s \in Subsystems, Surface(s)
    PROVE  \E f \in Frames :
              /\ s \in Dispatched /\ s \in dispatcher
              /\ toSub[s] # <<>> /\ f = Head(toSub[s])
              /\ \/ /\ f.kind # "request" /\ f.req \in DOMAIN caller
                    /\ answered' = answered \cup {f.req}
                    /\ toSub' = [toSub EXCEPT ![s] = Tail(toSub[s])]
                    /\ UNCHANGED <<default, dispatcher, quit>>
                 \/ /\ s \in running
                    /\ default' = [default EXCEPT ![s] = Append(default[s], f)]
                    /\ toSub' = [toSub EXCEPT ![s] = Tail(toSub[s])]
                    /\ UNCHANGED <<answered, dispatcher, quit>>
                 \/ /\ s \notin running
                    /\ dispatcher' = dispatcher \ {s}
                    /\ quit' = quit \cup RequestsIn(toSub[s])
                    /\ toSub' = [toSub EXCEPT ![s] = <<>>]
                    /\ UNCHANGED <<answered, default>>
              /\ UNCHANGED <<clients, tasks, toKernel, running, held, items, log, calls>>
<1>1. toSub[s] \in Seq(Frames) /\ toSub[s] # <<>>
    BY DEF TypeOK, PipesType, Surface
<1>2. Head(toSub[s]) \in Frames
    BY <1>1, TailFacts
<1>3. s \in Dispatched
    BY DEF TypeOK, SubsystemsType, Surface
<1> QED
    BY <1>1, <1>2, <1>3 DEF Surface

\* The subsystems.
LEMMA SubsystemsTyped == ASSUME TypeOK, FramesMade, Next PROVE SubsystemsType'
<1> USE DEF SubsystemsType
<1>0. SubsystemsType /\ made \subseteq made' /\ DOMAIN caller \subseteq DOMAIN caller'
  <2>1. \/ UNCHANGED <<made, caller>> \/ (made \subseteq made' /\ UNCHANGED caller)
        \/ \E s \in Subsystems, r \in Requests : Call(s, r)
      BY DEF Next, Submit, Cancel, ClientsLeave, Route, RouteRequest, RouteResponse, RouteCancel,
             Deliver, Stop, Abort, Bridge, BridgeRecv, BridgeSend, BridgeFails, BridgeEnds,
             EndBridge, Subsystem, Surface, DispatcherEnds, Take, Leave, LoopEnds, DropEnd,
             SendItem, SendDone, GiveUp, calls
  <2> QED
      BY <2>1 DEF TypeOK, Call, Remember
<1>1. ASSUME NEW s \in Subsystems, Surface(s) PROVE SubsystemsType'
  <2>1. PICK f \in Frames :
              /\ s \in Dispatched
              /\ answered' = answered \/ (f.req \in DOMAIN caller /\ answered' = answered \cup {f.req})
              /\ \/ default' = default
                 \/ default' = [default EXCEPT ![s] = Append(default[s], f)]
              /\ dispatcher' \subseteq dispatcher
              /\ UNCHANGED <<made, caller, running, held, items>>
      BY <1>1, SurfaceFacts DEF calls
  <2>2. Append(default[s], f) \in Seq(Frames)
      BY <1>0, <2>1, AppendFacts
  <2> QED
      BY <1>0, <2>1, <2>2
<1>2. ASSUME NEW s \in Subsystems, Take(s) PROVE SubsystemsType'
  <2>1. PICK f \in Frames, q \in Seq(Frames) :
              /\ q # <<>> /\ f = Head(q)
              /\ \/ /\ s \in Dispatched /\ q = default[s]
                    /\ default' = [default EXCEPT ![s] = Tail(q)]
                 \/ /\ s \notin Dispatched /\ q = toSub[s] /\ UNCHANGED default
              /\ held' = [held EXCEPT ![s] = IF f.kind = "request" THEN @ \cup {f.req} ELSE @]
              /\ UNCHANGED <<dispatcher, running, items, answered, made, caller>>
      BY <1>2, TakeFacts DEF calls
  <2>2. f.kind = "request" => f.req \in made /\ Callee[f.req] = s
      BY <2>1, TakenRequest
  <2>3. Tail(q) \in Seq(Frames)
      BY <2>1, TailFacts
  <2>4. default' \in [Dispatched -> Seq(Frames)]
      BY <1>0, <2>1, <2>3
  <2>5. held' \in [Subsystems -> SUBSET made] /\ \A t \in Subsystems : \A r \in held'[t] : Callee[r] = t
      BY <1>0, <2>1, <2>2
  <2> QED
      BY <1>0, <2>1, <2>4, <2>5
<1>3. ASSUME NEW s \in Subsystems, Leave(s) \/ LoopEnds(s) PROVE SubsystemsType'
  <2>1. /\ UNCHANGED <<dispatcher, held, items, answered, made, caller>>
        /\ running' \subseteq running
        /\ default' = default \/ default' = [default EXCEPT ![s] = <<>>]
      BY <1>3 DEF Leave, LoopEnds, DropEnd, calls
  <2> QED
      BY <1>0, <2>1, NothingFits
<1>4. ASSUME NEW s \in Subsystems, NEW r \in Requests, SendItem(s, r) \/ SendDone(s, r) \/ GiveUp(s, r)
      PROVE  SubsystemsType'
  <2>1. /\ UNCHANGED <<dispatcher, default, running, answered, made, caller>>
        /\ items' = items \/ items' = [items EXCEPT ![r] = @ + 1]
        /\ held' = held \/ held' = [held EXCEPT ![s] = @ \ {r}]
      BY <1>4 DEF SendItem, SendDone, GiveUp, calls
  <2> QED
      BY <1>0, <2>1
<1>5. ASSUME NEW s \in Subsystems, NEW r \in Requests, Call(s, r) PROVE SubsystemsType'
  BY <1>0, <1>5 DEF Call, subsystems
<1>6. ASSUME NEW s \in Subsystems, DispatcherEnds(s) PROVE SubsystemsType'
  BY <1>0, <1>6 DEF DispatcherEnds, calls
<1>7. ASSUME UNCHANGED subsystems PROVE SubsystemsType'
  BY <1>0, <1>7 DEF subsystems
<1>8. CASE Route \/ Abort \/ ClientsLeave \/ \E r \in Requests : Submit(r) \/ Cancel(r)
  BY <1>7, <1>8 DEF Route, RouteRequest, RouteResponse, RouteCancel, Deliver, Stop, Abort,
                    ClientsLeave, Submit, Cancel
<1>9. ASSUME NEW s \in Subsystems, Bridge(s) PROVE SubsystemsType'
  BY <1>7, <1>9 DEF Bridge, BridgeRecv, BridgeSend, BridgeFails, BridgeEnds, EndBridge
<1> QED
  BY <1>1, <1>2, <1>3, <1>4, <1>5, <1>6, <1>8, <1>9 DEF Next, Subsystem

\* The requests and what is remembered of them.
LEMMA RequestsTyped == ASSUME TypeOK, FramesMade, Next PROVE RequestsType'
<1> USE DEF RequestsType
<1>0. RequestsType
  BY DEF TypeOK
<1>1. ASSUME NEW r \in Requests, Submit(r) PROVE RequestsType'
  BY <1>0, <1>1 DEF Submit, history
<1>2. ASSUME NEW r \in Requests, Cancel(r) PROVE RequestsType'
  BY <1>0, <1>2, BoundsAreNat DEF Cancel, history
<1>3. ASSUME NEW s \in Subsystems, NEW r \in Requests, Call(s, r) PROVE RequestsType'
  BY <1>0, <1>3 DEF Call, Remember, history
<1>4. CASE Deliver
  <2>1. PICK f \in Frames :
              log' = [log EXCEPT ![f.req] = Append(@, f.kind)] /\ UNCHANGED <<calls, quit>>
      BY <1>4, DeliverFacts
  <2>2. f.req \in Requests /\ f.kind \in Kinds
      BY FrameFacts
  <2>3. Append(log[f.req], f.kind) \in Seq(Kinds)
      BY <1>0, <2>2, AppendFacts
  <2> QED
      BY <1>0, <2>1, <2>2, <2>3 DEF calls
<1>5. ASSUME NEW s \in Subsystems, Surface(s) PROVE RequestsType'
  <2>1. /\ UNCHANGED <<calls, log>>
        /\ quit' = quit \/ quit' = quit \cup RequestsIn(toSub[s])
      BY <1>5 DEF Surface
  <2>2. RequestsIn(toSub[s]) \subseteq made
      BY MadeFacts
  <2> QED
      BY <1>0, <2>1, <2>2 DEF calls
<1>6. ASSUME NEW s \in Subsystems, Leave(s) \/ LoopEnds(s) PROVE RequestsType'
  <2>1. /\ UNCHANGED <<calls, log>>
        /\ \/ s \in Dispatched /\ quit' = quit \cup RequestsIn(default[s])
           \/ quit' = quit \cup RequestsIn(toSub[s])
      BY <1>6 DEF Leave, LoopEnds, DropEnd
  <2>2. RequestsIn(toSub[s]) \subseteq made /\ (s \in Dispatched => RequestsIn(default[s]) \subseteq made)
      BY MadeFacts
  <2> QED
      BY <1>0, <2>1, <2>2 DEF calls
<1>7. ASSUME NEW s \in Subsystems, NEW r \in Requests, GiveUp(s, r) PROVE RequestsType'
  <2>1. r \in made
      BY <1>7 DEF GiveUp, TypeOK, SubsystemsType
  <2> QED
      BY <1>0, <1>7, <2>1 DEF GiveUp, calls
<1>8. ASSUME UNCHANGED <<calls, history>> PROVE RequestsType'
  BY <1>0, <1>8 DEF calls, history
<1>9. CASE RouteRequest \/ RouteResponse \/ RouteCancel \/ Stop \/ Abort \/ ClientsLeave
           \/ \E s \in Subsystems : Bridge(s)
  BY <1>8, <1>9 DEF RouteRequest, RouteResponse, RouteCancel, Stop, Abort, ClientsLeave, Bridge,
                    BridgeRecv, BridgeSend, BridgeFails, BridgeEnds, EndBridge
<1>10. ASSUME NEW s \in Subsystems, NEW r \in Requests,
              DispatcherEnds(s) \/ Take(s) \/ SendItem(s, r) \/ SendDone(s, r)
       PROVE  RequestsType'
  BY <1>8, <1>10 DEF DispatcherEnds, Take, SendItem, SendDone
<1>11. ASSUME NEW s \in Subsystems, DispatcherEnds(s) \/ Take(s) PROVE RequestsType'
  BY <1>8, <1>11 DEF DispatcherEnds, Take
<1> QED
  BY <1>1, <1>2, <1>3, <1>4, <1>5, <1>6, <1>7, <1>9, <1>10, <1>11 DEF Next, Route, Subsystem

\* Every step keeps the types.
LEMMA TypeStep == TypeOK /\ FramesMade /\ [Next]_vars => TypeOK'
<1> SUFFICES ASSUME TypeOK, FramesMade, [Next]_vars PROVE TypeOK'
  OBVIOUS
<1>1. CASE Next
  BY <1>1, RouterTyped, PipesTyped, SubsystemsTyped, RequestsTyped DEF TypeOK
<1>2. CASE UNCHANGED vars
  BY <1>2 DEF vars, tasks, pipes, subsystems, calls, history, TypeOK, RouterType, PipesType,
              SubsystemsType, RequestsType
<1> QED
  BY <1>1, <1>2

-----------------------------------------------------------------------------
(* What each action does to the frames that are under way.                  *)

\* Nothing moves towards the router, or nothing moves towards a handler.
WaysSame == \A s \in Subsystems : Way(s)' = Way(s)
HandedSame == \A s \in Subsystems : Handed(s)' = Handed(s)

\* Who leaves these channels alone.
LEMMA SameFacts ==
    /\ UNCHANGED <<carrying, toKernel>> => WaysSame
    /\ UNCHANGED <<toSub, default>> => HandedSame
BY DEF WaysSame, HandedSame, Way, Handed

\* A frame put in behind two channels is put in behind the second.
LEMMA AppendBehind ==
    \A p, q \in Seq(Frames), f \in Frames :
        p \o Append(q, f) = Append(p \o q, f) /\ p \o <<f>> = Append(p, f)
<1> SUFFICES ASSUME NEW p \in Seq(Frames), NEW q \in Seq(Frames), NEW f \in Frames
             PROVE  p \o Append(q, f) = Append(p \o q, f) /\ p \o <<f>> = Append(p, f)
    OBVIOUS
<1> QED
    BY ConcatSingle

\* The frames under way follow from what the channels hold.
LEMMA UnderWayFacts ==
    /\ \A f : f \in UnderWay <=>
          f \in RangeOf(inbound) \/ \E s \in Subsystems : f \in RangeOf(Way(s))
    /\ \A f : f \in UnderWay' <=>
          f \in RangeOf(inbound') \/ \E s \in Subsystems : f \in RangeOf(Way(s)')
BY DEF UnderWay

\* A client puts a frame into the channel of the router.
LEMMA ClientEffect ==
    ASSUME TypeOK, NEW r \in Requests, Submit(r) \/ Cancel(r)
    PROVE  \E f \in Frames :
              /\ \/ /\ Submit(r) /\ f = Frame("request", r)
                    /\ r \notin made /\ made' = made \cup {r}
                 \/ /\ Cancel(r) /\ f = Frame("cancel", r)
                    /\ r \in made /\ made' = made
              /\ inbound' = Append(inbound, f)
              /\ RangeOf(inbound') = RangeOf(inbound) \cup {f}
              /\ WaysSame /\ HandedSame
<1>1. PICK f \in Frames :
              /\ \/ /\ Submit(r) /\ f = Frame("request", r)
                    /\ r \notin made /\ made' = made \cup {r}
                 \/ /\ Cancel(r) /\ f = Frame("cancel", r)
                    /\ r \in made /\ made' = made
              /\ inbound' = Append(inbound, f)
  BY FrameFacts DEF Submit, Cancel, Kinds
<1>2. inbound \in Seq(Frames)
  BY DEF TypeOK, RouterType
<1>3. RangeOf(inbound') = RangeOf(inbound) \cup {f}
  BY <1>1, <1>2, RangeFacts
<1>4. WaysSame /\ HandedSame
  BY SameFacts DEF Submit, Cancel, pipes, subsystems
<1> QED
  BY <1>1, <1>3, <1>4

\* The router takes a frame, and may pass it on to a handler.
LEMMA RouterEffect ==
    ASSUME TypeOK, RouteRequest \/ RouteResponse \/ RouteCancel
    PROVE  \E f \in Frames, s \in Subsystems :
              /\ Takes(f) /\ s = Callee[f.req]
              /\ RangeOf(inbound) = RangeOf(inbound') \cup {f}
              /\ WaysSame
              /\ \A t \in Subsystems \ {s} : Handed(t)' = Handed(t)
              /\ \/ Handed(s)' = Handed(s)
                 \/ /\ Handed(s)' = Append(Handed(s), f) /\ f.kind \in {"request", "cancel"}
                    /\ CanSend(s)
              /\ UNCHANGED <<made, held, items, log, quit, running>>
<1>1. CASE RouteResponse
  <2>1. PICK f \in Frames : Takes(f) /\ UNCHANGED <<carrying, pipes, subsystems, calls, history>>
      BY <1>1 DEF RouteResponse
  <2>2. Callee[f.req] \in Subsystems
      BY FrameFacts, CalleesAreSubsystems
  <2>3. WaysSame /\ HandedSame
      BY <2>1, SameFacts DEF pipes, subsystems
  <2> QED
      BY <2>1, <2>2, <2>3, TakesFacts DEF HandedSame, subsystems, calls, history
<1>2. CASE RouteRequest \/ RouteCancel
  <2>1. PICK f \in Frames, s \in Subsystems :
              /\ Takes(f) /\ s = Callee[f.req] /\ f.kind \in {"request", "cancel"}
              /\ TrySend(s, f) \/ UNCHANGED toSub
              /\ UNCHANGED <<carrying, toKernel, subsystems, calls, history>>
      BY <1>2, RouteRequestFacts, RouteCancelFacts
  <2>2. WaysSame
      BY <2>1, SameFacts
  <2>3. \A t \in Subsystems : default[t]' = default[t]
      BY <2>1 DEF subsystems
  <2>4. CASE UNCHANGED toSub
    <3>1. HandedSame
        BY <2>1, <2>4, SameFacts DEF subsystems
    <3> QED
        BY <2>1, <2>2, <3>1, TakesFacts DEF HandedSame, subsystems, calls, history
  <2>5. CASE TrySend(s, f)
    <3>1. /\ toSub'[s] = IF CanSend(s) THEN Append(toSub[s], f) ELSE toSub[s]
          /\ \A t \in Subsystems \ {s} : toSub'[t] = toSub[t]
        BY <2>1, <2>5, TrySendFacts
    <3>2. \A t \in Subsystems \ {s} : Handed(t)' = Handed(t)
        BY <2>3, <3>1 DEF Handed
    <3>3. Handed(s)' = IF CanSend(s) THEN Append(Handed(s), f) ELSE Handed(s)
      <4>1. toSub[s] \in Seq(Frames) /\ (s \in Dispatched => default[s] \in Seq(Frames))
          BY WayFacts
      <4>2. CASE s \in Dispatched
        <5>1. default[s] \o Append(toSub[s], f) = Append(default[s] \o toSub[s], f)
            BY <4>1, <4>2, AppendBehind
        <5> QED
            BY <2>3, <3>1, <4>2, <5>1 DEF Handed
      <4>3. CASE s \notin Dispatched
        <5>1. Handed(s) = toSub[s] /\ Append(toSub[s], f) \in Seq(Frames)
            BY <4>1, <4>3, ConcatSingle, AppendFacts, FrameFacts DEF Handed
        <5>2. Handed(s)' = toSub'[s]
          <6>1. toSub'[s] \in Seq(Frames)
              BY <3>1, <4>1, <5>1
          <6> QED
              BY <4>3, <6>1, ConcatSingle, FrameFacts DEF Handed
        <5> QED
            BY <3>1, <5>1, <5>2
      <4> QED
          BY <4>2, <4>3
    <3> QED
        BY <2>1, <2>2, <3>2, <3>3, TakesFacts DEF subsystems, calls, history
  <2> QED
      BY <2>1, <2>4, <2>5
<1> QED
  BY <1>1, <1>2

\* The bridge of s moves the first frame it has to forward, or ends.
LEMMA BridgeEffect ==
    ASSUME TypeOK, NEW s \in Subsystems, Bridge(s)
    PROVE  /\ HandedSame
           /\ \A t \in Subsystems \ {s} : Way(t)' = Way(t)
           /\ UNCHANGED <<clients, router, delivering, inflight, toSub, subsystems, calls, history>>
           /\ \/ /\ Way(s)' = Way(s) /\ s \in bridge /\ UNCHANGED <<inbound, bridge>>
              \/ /\ Way(s) # <<>> /\ Way(s)' = Tail(Way(s)) /\ s \in bridge
                 /\ inbound' = Append(inbound, Head(Way(s)))
                 /\ router = "running" /\ UNCHANGED bridge
              \/ /\ Way(s)' = <<>> /\ carrying'[s] = <<>> /\ toKernel'[s] = <<>>
                 /\ bridge' = bridge \ {s} /\ UNCHANGED inbound
                 /\ router # "running" \/ (Way(s) = <<>> /\ ~Sending(s))
<1>0. /\ carrying \in [Subsystems -> Seq(Frames)] /\ toKernel \in [Subsystems -> Seq(Frames)]
      /\ carrying[s] \in Seq(Frames) /\ toKernel[s] \in Seq(Frames)
  BY DEF TypeOK, PipesType
<1>1. /\ UNCHANGED <<clients, router, delivering, inflight, toSub, subsystems, calls, history>>
      /\ HandedSame
  BY SameFacts DEF Bridge, BridgeRecv, BridgeSend, BridgeFails, BridgeEnds, EndBridge, pipes,
                   subsystems
<1>2. CASE BridgeRecv(s)
  <2>1. PICK f \in Frames :
                 /\ carrying[s] = <<>> /\ toKernel[s] # <<>> /\ f = Head(toKernel[s])
                 /\ carrying' = [carrying EXCEPT ![s] = <<f>>]
                 /\ toKernel' = [toKernel EXCEPT ![s] = Tail(toKernel[s])]
                 /\ UNCHANGED <<inbound, bridge>> /\ s \in bridge
      BY <1>2, BridgeFacts DEF BridgeRecv, BridgeSend
  <2>2. <<>> \o toKernel[s] = toKernel[s] /\ <<Head(toKernel[s])>> \o Tail(toKernel[s]) = toKernel[s]
      BY <1>0, <2>1, ConcatSingle
  <2>3. Way(s)' = Way(s)
      BY <1>0, <2>1, <2>2 DEF Way
  <2>4. \A t \in Subsystems \ {s} : Way(t)' = Way(t)
      BY <1>0, <2>1 DEF Way
  <2> QED
      BY <1>1, <2>1, <2>3, <2>4
<1>3. CASE BridgeSend(s)
  <2>1. PICK f \in Frames :
                 /\ carrying[s] = <<f>> /\ router = "running"
                 /\ inbound' = Append(inbound, f)
                 /\ carrying' = [carrying EXCEPT ![s] = <<>>]
                 /\ UNCHANGED <<toKernel, bridge>> /\ s \in bridge
      BY <1>3, BridgeFacts DEF BridgeRecv, BridgeSend
  <2>2. /\ <<f>> \in Seq(Frames) /\ <<f>> # <<>> /\ Head(<<f>>) = f /\ Tail(<<f>>) = <<>>
        /\ Tail(<<f>> \o toKernel[s]) = Tail(<<f>>) \o toKernel[s]
        /\ Head(<<f>> \o toKernel[s]) = f
        /\ <<f>> \o toKernel[s] # <<>>
    <3>1. <<f>> \in Seq(Frames) /\ <<f>> # <<>> /\ Head(<<f>>) = f /\ Tail(<<f>>) = <<>>
        OBVIOUS
    <3> QED
        BY <1>0, <3>1, ConcatSingle
  <2>3. Way(s) # <<>> /\ Head(Way(s)) = f /\ Way(s)' = Tail(Way(s))
      BY <1>0, <2>1, <2>2 DEF Way
  <2>4. \A t \in Subsystems \ {s} : Way(t)' = Way(t)
      BY <1>0, <2>1 DEF Way
  <2> QED
      BY <1>1, <2>1, <2>3, <2>4
<1>4. CASE BridgeFails(s) \/ BridgeEnds(s)
  <2>1. /\ EndBridge(s)
        /\ router # "running" \/ (carrying[s] = <<>> /\ toKernel[s] = <<>> /\ ~Sending(s))
      BY <1>4 DEF BridgeFails, BridgeEnds
  <2>2. /\ carrying'[s] = <<>> /\ toKernel'[s] = <<>> /\ bridge' = bridge \ {s} /\ UNCHANGED inbound
        /\ \A t \in Subsystems \ {s} : carrying'[t] = carrying[t] /\ toKernel'[t] = toKernel[t]
      BY <1>0, <2>1 DEF EndBridge
  <2>3. <<>> \o <<>> = <<>>
      OBVIOUS
  <2>4. Way(s)' = <<>> /\ \A t \in Subsystems \ {s} : Way(t)' = Way(t)
      BY <2>2, <2>3 DEF Way
  <2>5. router # "running" \/ (Way(s) = <<>> /\ ~Sending(s))
      BY <2>1, <2>3 DEF Way
  <2> QED
      BY <1>1, <2>2, <2>4, <2>5
<1> QED
  BY <1>2, <1>3, <1>4 DEF Bridge

\* A subsystem sends a frame towards the router.
LEMMA SendsEffect ==
    ASSUME TypeOK, NEW s \in Subsystems, NEW r \in Requests,
           SendItem(s, r) \/ SendDone(s, r) \/ Call(s, r)
    PROVE  /\ HandedSame /\ s \in bridge
           /\ \A t \in Subsystems \ {s} : Way(t)' = Way(t)
           /\ \E k \in {"item", "done", "request"} :
                 /\ Way(s)' = Append(Way(s), Frame(k, r)) /\ Frame(k, r) \in Frames
                 /\ k = "item" => SendItem(s, r) /\ r \in held[s]
                 /\ k = "done" => SendDone(s, r) /\ r \in held[s]
                 /\ k = "request" => Call(s, r) /\ r \notin made
           /\ UNCHANGED <<clients, tasks, toSub, dispatcher, default, running, answered, history>>
<1>0. /\ carrying[s] \in Seq(Frames) /\ toKernel[s] \in Seq(Frames)
  BY DEF TypeOK, PipesType
<1>1. UNCHANGED <<clients, tasks, toSub, dispatcher, default, running, answered, history>>
  BY DEF SendItem, SendDone, Call, subsystems
<1>2. PICK k \in {"item", "done", "request"} :
                 /\ Send(s, Frame(k, r))
                 /\ k = "item" => SendItem(s, r) /\ r \in held[s]
                 /\ k = "done" => SendDone(s, r) /\ r \in held[s]
                 /\ k = "request" => Call(s, r) /\ r \notin made
  BY DEF SendItem, SendDone, Call
<1>3. Frame(k, r) \in Frames
  BY FrameFacts DEF Kinds
<1>4. /\ toKernel'[s] = Append(toKernel[s], Frame(k, r)) /\ s \in bridge
      /\ \A t \in Subsystems \ {s} : toKernel'[t] = toKernel[t]
  BY <1>2, <1>3, SendFacts
<1>5. Way(s)' = Append(Way(s), Frame(k, r))
  <2>1. carrying[s] \o Append(toKernel[s], Frame(k, r)) = Append(carrying[s] \o toKernel[s], Frame(k, r))
      BY <1>0, <1>3, AppendBehind
  <2>2. carrying'[s] = carrying[s]
      BY <1>1 DEF tasks
  <2> QED
      BY <1>4, <2>1, <2>2 DEF Way
<1>6. \A t \in Subsystems \ {s} : Way(t)' = Way(t)
  BY <1>1, <1>4 DEF Way, tasks
<1>7. HandedSame
  BY <1>1, SameFacts
<1> QED
  BY <1>1, <1>2, <1>3, <1>4, <1>5, <1>6, <1>7

\* The dispatcher of s takes out a response, leaves what is in front of the
\* handler as it is, or drops it.
LEMMA SurfaceEffect ==
    ASSUME TypeOK, BridgesEnded, NEW s \in Subsystems, Surface(s)
    PROVE  \E p, q \in Seq(Frames) :
              /\ Handed(s) = p \o q
              /\ \/ /\ q # <<>> /\ Head(q).kind # "request"
                    /\ Handed(s)' = p \o Tail(q) /\ UNCHANGED quit
                 \/ Handed(s)' = Handed(s) /\ UNCHANGED quit
                 \/ Handed(s)' = q /\ quit' = quit \cup RequestsIn(p)
<1>0. /\ toSub \in [Subsystems -> Seq(Frames)] /\ default \in [Dispatched -> Seq(Frames)]
  BY DEF TypeOK, PipesType, SubsystemsType
<1>1. PICK f \in Frames :
              /\ s \in Dispatched
              /\ toSub[s] # <<>> /\ f = Head(toSub[s])
              /\ \/ /\ f.kind # "request"
                    /\ toSub' = [toSub EXCEPT ![s] = Tail(toSub[s])]
                    /\ UNCHANGED <<default, quit>>
                 \/ /\ default' = [default EXCEPT ![s] = Append(default[s], f)]
                    /\ toSub' = [toSub EXCEPT ![s] = Tail(toSub[s])]
                    /\ UNCHANGED quit
                 \/ /\ s \notin running
                    /\ quit' = quit \cup RequestsIn(toSub[s])
                    /\ toSub' = [toSub EXCEPT ![s] = <<>>]
                    /\ UNCHANGED default
  BY SurfaceFacts
<1>2. PICK p \in Seq(Frames), q \in Seq(Frames) : p = default[s] /\ q = toSub[s]
  BY <1>0, <1>1
<1>3. Handed(s) = p \o q
  BY <1>1, <1>2 DEF Handed
<1>4. CASE f.kind # "request" /\ toSub' = [toSub EXCEPT ![s] = Tail(toSub[s])] /\ UNCHANGED <<default, quit>>
  <2>1. Handed(s)' = p \o Tail(q)
      BY <1>0, <1>1, <1>2, <1>4 DEF Handed
  <2> QED
      BY <1>1, <1>2, <1>3, <1>4, <2>1
<1>5. CASE /\ default' = [default EXCEPT ![s] = Append(default[s], f)]
           /\ toSub' = [toSub EXCEPT ![s] = Tail(toSub[s])]
           /\ UNCHANGED quit
  <2>1. Handed(s)' = Append(p, f) \o Tail(q)
      BY <1>0, <1>1, <1>2, <1>5 DEF Handed
  <2>2. /\ Tail(q) \in Seq(Frames) /\ <<f>> \in Seq(Frames)
        /\ <<f>> \o Tail(q) = q /\ Append(p, f) = p \o <<f>>
    <3>1. Tail(q) \in Seq(Frames) /\ <<Head(q)>> \o Tail(q) = q
        BY <1>1, <1>2, TailFacts, ConcatSingle
    <3> QED
        BY <1>1, <1>2, <3>1, AppendBehind, SingleFacts
  <2>3. Handed(s)' = Handed(s)
      BY <1>3, <2>1, <2>2, ConcatAssoc
  <2> QED
      BY <1>3, <1>5, <2>3
<1>6. CASE /\ s \notin running
           /\ quit' = quit \cup RequestsIn(toSub[s])
           /\ toSub' = [toSub EXCEPT ![s] = <<>>]
           /\ UNCHANGED default
  <2>1. p = <<>>
      BY <1>1, <1>2, <1>6 DEF BridgesEnded
  <2>2. toSub'[s] = <<>> /\ default'[s] = p
      BY <1>0, <1>2, <1>6
  <2>3. /\ <<>> \in Seq(Frames) /\ <<>> \o q = q /\ q \o <<>> = q
        /\ <<>> \o <<>> = <<>>
      BY <1>2, ConcatSingle, FrameFacts
  <2>4. Handed(s)' = <<>> /\ Handed(s) = q \o <<>>
      BY <1>1, <1>3, <2>1, <2>2, <2>3 DEF Handed
  <2> QED
      BY <1>2, <1>6, <2>3, <2>4
<1> QED
  BY <1>1, <1>4, <1>5, <1>6

\* A subsystem takes the first frame it was handed.
LEMMA TakeEffect ==
    ASSUME TypeOK, NEW s \in Subsystems, Take(s)
    PROVE  /\ Handed(s) # <<>> /\ Handed(s)' = Tail(Handed(s))
           /\ held' = [held EXCEPT ![s] = IF Head(Handed(s)).kind = "request"
                                          THEN @ \cup {Head(Handed(s)).req} ELSE @]
<1>0. /\ toSub \in [Subsystems -> Seq(Frames)] /\ default \in [Dispatched -> Seq(Frames)]
  BY DEF TypeOK, PipesType, SubsystemsType
<1>1. PICK f \in Frames, q \in Seq(Frames) :
              /\ q # <<>> /\ f = Head(q)
              /\ \/ /\ s \in Dispatched /\ q = default[s] /\ UNCHANGED toSub
                    /\ default' = [default EXCEPT ![s] = Tail(q)]
                 \/ /\ s \notin Dispatched /\ q = toSub[s] /\ UNCHANGED default
                    /\ toSub' = [toSub EXCEPT ![s] = Tail(q)]
              /\ held' = [held EXCEPT ![s] = IF f.kind = "request" THEN @ \cup {f.req} ELSE @]
  BY TakeFacts
<1>2. CASE s \in Dispatched
  <2>1. PICK p \in Seq(Frames) : p = toSub[s]
      BY <1>0
  <2>2. Handed(s) = q \o p /\ Handed(s)' = Tail(q) \o p
      BY <1>0, <1>1, <1>2, <2>1 DEF Handed
  <2>3. q \o p # <<>> /\ Head(q \o p) = f /\ Tail(q \o p) = Tail(q) \o p
      BY <1>1, ConcatSingle
  <2> QED
      BY <1>1, <2>2, <2>3
<1>3. CASE s \notin Dispatched
  <2>1. Tail(q) \in Seq(Frames) /\ <<>> \o q = q /\ <<>> \o Tail(q) = Tail(q)
      BY <1>1, TailFacts, ConcatSingle
  <2>2. Handed(s) = q /\ Handed(s)' = Tail(q)
      BY <1>0, <1>1, <1>3, <2>1 DEF Handed
  <2> QED
      BY <1>1, <2>2
<1> QED
  BY <1>2, <1>3

\* A PipeEnd is dropped with what was queued in it.
LEMMA DropEffect ==
    ASSUME TypeOK, NEW s \in Subsystems, Leave(s) \/ LoopEnds(s)
    PROVE  \E p, q \in Seq(Frames) :
              /\ Handed(s) = p \o q /\ Handed(s)' = q /\ quit' = quit \cup RequestsIn(p)
              /\ s \in Dispatched => q = toSub[s] /\ p = default[s]
              /\ s \notin Dispatched => p = toSub[s]
<1>0. /\ toSub \in [Subsystems -> Seq(Frames)] /\ default \in [Dispatched -> Seq(Frames)]
  BY DEF TypeOK, PipesType, SubsystemsType
<1>1. DropEnd(s)
  BY DEF Leave, LoopEnds
<1>2. \A q \in Seq(Frames) : <<>> \o q = q /\ q \o <<>> = q
  BY ConcatSingle, FrameFacts
<1>3. <<>> \in Seq(Frames) /\ <<>> \o <<>> = <<>>
  OBVIOUS
<1>4. CASE s \in Dispatched
  <2>1. /\ Handed(s) = default[s] \o toSub[s] /\ quit' = quit \cup RequestsIn(default[s])
        /\ default'[s] = <<>> /\ toSub'[s] = toSub[s]
      BY <1>0, <1>1, <1>4 DEF DropEnd, Handed
  <2>2. Handed(s)' = toSub[s]
      BY <1>0, <1>2, <1>4, <2>1 DEF Handed
  <2> QED
      BY <1>0, <1>4, <2>1, <2>2
<1>5. CASE s \notin Dispatched
  <2>1. /\ Handed(s) = <<>> \o toSub[s] /\ quit' = quit \cup RequestsIn(toSub[s])
        /\ toSub'[s] = <<>>
      BY <1>0, <1>1, <1>5 DEF DropEnd, Handed
  <2>2. Handed(s)' = <<>> /\ Handed(s) = toSub[s] \o <<>>
      BY <1>0, <1>2, <1>3, <1>5, <2>1 DEF Handed
  <2> QED
      BY <1>0, <1>3, <1>5, <2>1, <2>2
<1> QED
  BY <1>4, <1>5

\* What a subsystem does to the frames on their way to others: nothing.
LEMMA SubsystemEffect ==
    ASSUME TypeOK, NEW s \in Subsystems,
           Surface(s) \/ DispatcherEnds(s) \/ Take(s) \/ Leave(s) \/ LoopEnds(s)
           \/ \E r \in Requests : GiveUp(s, r)
    PROVE  /\ WaysSame
           /\ \A t \in Subsystems \ {s} : Handed(t)' = Handed(t)
           /\ UNCHANGED <<clients, tasks, toKernel, items, log, calls>>
<1>1. UNCHANGED <<clients, tasks, toKernel, items, log, calls>>
  BY DEF Surface, DispatcherEnds, Take, Leave, LoopEnds, DropEnd, GiveUp, pipes, history
<1>2. WaysSame
  BY <1>1, SameFacts DEF tasks
<1>3. /\ toSub \in [Subsystems -> Seq(Frames)] /\ default \in [Dispatched -> Seq(Frames)]
  BY DEF TypeOK, PipesType, SubsystemsType
<1>4. /\ \/ toSub' = toSub
         \/ \E q : toSub' = [toSub EXCEPT ![s] = q]
      /\ \/ default' = default
         \/ \E q : default' = [default EXCEPT ![s] = q]
  BY DEF Surface, DispatcherEnds, Take, Leave, LoopEnds, DropEnd, GiveUp, pipes
<1>5. \A t \in Subsystems \ {s} : toSub'[t] = toSub[t] /\ (t \in Dispatched => default'[t] = default[t])
  BY <1>3, <1>4
<1> QED
  BY <1>1, <1>2, <1>5 DEF Handed

-----------------------------------------------------------------------------
(* A request in one place only.                                             *)

\* Two channels hold a request once, if each does and they share none.
LEMMA OnceConcat ==
    ASSUME NEW p \in Seq(Frames), NEW q \in Seq(Frames)
    PROVE  Once(p \o q) <=>
              /\ Once(p) /\ Once(q)
              /\ \A f \in RangeOf(p) : f \in RangeOf(q) => f.kind # "request"
<1>0. /\ Len(p) \in Nat /\ Len(q) \in Nat /\ Len(p \o q) = Len(p) + Len(q)
      /\ \A i \in 1 .. Len(p) + Len(q) :
            (p \o q)[i] = IF i <= Len(p) THEN p[i] ELSE q[i - Len(p)]
  BY ConcatFacts
<1>1. \A i \in 1 .. Len(p) : i \in 1 .. Len(p \o q) /\ (p \o q)[i] = p[i]
  BY <1>0
<1>2. ASSUME NEW i \in 1 .. Len(q)
      PROVE  /\ Len(p) + i \in 1 .. Len(p \o q) /\ (p \o q)[Len(p) + i] = q[i]
  <2>1. Len(p) + i \in 1 .. Len(p) + Len(q) /\ ~(Len(p) + i <= Len(p)) /\ (Len(p) + i) - Len(p) = i
      BY <1>0
  <2> QED
      BY <1>0, <2>1
<1>3. \A i \in 1 .. Len(p \o q) :
         \/ i \in 1 .. Len(p) /\ (p \o q)[i] = p[i]
         \/ /\ i - Len(p) \in 1 .. Len(q) /\ (p \o q)[i] = q[i - Len(p)]
            /\ i = Len(p) + (i - Len(p))
  BY <1>0
<1>4. ASSUME Once(p \o q) PROVE Once(p)
  BY <1>1, <1>4 DEF Once
<1>5. ASSUME Once(p \o q) PROVE Once(q)
  <2> SUFFICES ASSUME NEW i \in 1 .. Len(q), NEW j \in 1 .. Len(q), q[i].kind = "request", q[i] = q[j]
               PROVE  i = j
      BY DEF Once
  <2>1. Len(p) + i = Len(p) + j
      BY <1>2, <1>5 DEF Once
  <2> QED
      BY <1>0, <2>1
<1>6. ASSUME Once(p \o q), NEW f \in RangeOf(p), f \in RangeOf(q), f.kind = "request" PROVE FALSE
  <2>1. PICK i \in 1 .. Len(p), j \in 1 .. Len(q) : p[i] = f /\ q[j] = f
      BY <1>6 DEF RangeOf
  <2>2. i = Len(p) + j
      BY <1>1, <1>2, <1>6, <2>1 DEF Once
  <2> QED
      BY <1>0, <2>2
<1>7. ASSUME Once(p), Once(q), \A f \in RangeOf(p) : f \in RangeOf(q) => f.kind # "request"
      PROVE  Once(p \o q)
  <2> SUFFICES ASSUME NEW i \in 1 .. Len(p \o q), NEW j \in 1 .. Len(p \o q),
                      (p \o q)[i].kind = "request", (p \o q)[i] = (p \o q)[j]
               PROVE  i = j
      BY DEF Once
  <2>1. \A k \in 1 .. Len(p) : p[k] \in RangeOf(p)
      BY DEF RangeOf
  <2>2. \A k \in 1 .. Len(q) : q[k] \in RangeOf(q)
      BY DEF RangeOf
  <2>3. CASE i \in 1 .. Len(p) /\ j \in 1 .. Len(p)
      BY <1>1, <1>7, <2>3 DEF Once
  <2>4. CASE i - Len(p) \in 1 .. Len(q) /\ j - Len(p) \in 1 .. Len(q)
    <3>1. (p \o q)[i] = q[i - Len(p)] /\ (p \o q)[j] = q[j - Len(p)]
      <4>1. /\ i \in 1 .. Len(p) + Len(q) /\ ~(i <= Len(p))
            /\ j \in 1 .. Len(p) + Len(q) /\ ~(j <= Len(p))
          BY <1>0, <2>4
      <4> QED
          BY <1>0, <4>1
    <3>2. i - Len(p) = j - Len(p)
        BY <1>7, <2>4, <3>1 DEF Once
    <3> QED
        BY <1>0, <3>2
  <2>5. ~(i \in 1 .. Len(p) /\ j - Len(p) \in 1 .. Len(q) /\ (p \o q)[i] = p[i]
          /\ (p \o q)[j] = q[j - Len(p)])
      BY <1>7, <2>1, <2>2
  <2>6. ~(j \in 1 .. Len(p) /\ i - Len(p) \in 1 .. Len(q) /\ (p \o q)[j] = p[j]
          /\ (p \o q)[i] = q[i - Len(p)])
      BY <1>7, <2>1, <2>2
  <2> QED
      BY <1>3, <2>3, <2>4, <2>5, <2>6
<1> QED
  BY <1>4, <1>5, <1>6, <1>7

\* A frame is put in, or taken out.
LEMMA OnceMoves ==
    ASSUME NEW q \in Seq(Frames), Once(q)
    PROVE  /\ \A f \in Frames : f.kind # "request" \/ f \notin RangeOf(q) => Once(Append(q, f))
           /\ q # <<>> =>
                 /\ Once(Tail(q))
                 /\ Head(q).kind = "request" => Head(q) \notin RangeOf(Tail(q))
           /\ Once(<<>>)
<1>1. \A f \in Frames : <<f>> \in Seq(Frames) /\ RangeOf(<<f>>) = {f} /\ Once(<<f>>)
  <2>1. ASSUME NEW f \in Frames, NEW i \in 1 .. Len(<<f>>), NEW j \in 1 .. Len(<<f>>) PROVE i = j
      OBVIOUS
  <2> QED
      BY <2>1, RangeOfFew DEF Once
<1>2. ASSUME NEW f \in Frames, f.kind # "request" \/ f \notin RangeOf(q) PROVE Once(Append(q, f))
  <2>1. Once(q \o <<f>>)
    <3>1. \A g \in RangeOf(q) : g \in RangeOf(<<f>>) => g.kind # "request"
        BY <1>1, <1>2
    <3> QED
        BY <1>1, <3>1, OnceConcat
  <2>2. q \o <<f>> = Append(q, f)
      BY AppendBehind
  <2> QED
      BY <2>1, <2>2
<1>3. ASSUME q # <<>>
      PROVE  Once(Tail(q)) /\ (Head(q).kind = "request" => Head(q) \notin RangeOf(Tail(q)))
  <2>1. Tail(q) \in Seq(Frames) /\ Head(q) \in Frames /\ <<Head(q)>> \o Tail(q) = q
      BY <1>3, TailFacts, ConcatSingle
  <2>2. Once(<<Head(q)>> \o Tail(q))
      BY <2>1
  <2> QED
      BY <1>1, <2>1, <2>2, OnceConcat
<1>4. Once(<<>>)
  BY DEF Once
<1> QED
  BY <1>2, <1>3, <1>4

-----------------------------------------------------------------------------
(* Where the frames in each place come from.                                *)

\* The router takes frame f and does with it what it does.
Routes(f) == Takes(f) /\ (RouteRequest \/ RouteResponse \/ RouteCancel)

InboundSource ==
    \A f \in RangeOf(inbound') :
        \/ f \in UnderWay
        \/ \E r \in Requests : Submit(r) /\ f = Frame("request", r)
        \/ \E r \in Requests : Cancel(r) /\ f = Frame("cancel", r)

WaySource ==
    \A s \in Subsystems : \A f \in RangeOf(Way(s)') :
        \/ f \in RangeOf(Way(s))
        \/ \E r \in Requests : \/ SendItem(s, r) /\ f = Frame("item", r)
                               \/ SendDone(s, r) /\ f = Frame("done", r)
                               \/ Call(s, r) /\ f = Frame("request", r)

HandedSource ==
    \A s \in Subsystems : \A f \in RangeOf(Handed(s)') :
        \/ f \in RangeOf(Handed(s))
        \/ Routes(f) /\ s = Callee[f.req] /\ f.kind \in {"request", "cancel"}

DeliveringSource ==
    \A f \in RangeOf(delivering') :
        \/ f \in RangeOf(delivering)
        \/ \E g \in Frames : /\ Routes(g) /\ f.req = g.req
                             /\ g.kind = "request" \/ g.req \in DOMAIN inflight
                             /\ f.kind # "request"

\* Who sends to the subscriber.
LEMMA DeliveringSourced == ASSUME TypeOK, Next PROVE DeliveringSource
<1>1. CASE RouteRequest
  <2>1. PICK g \in Frames : /\ Takes(g) /\ g.kind = "request"
                            /\ delivering' = <<>> \/ delivering' = <<Frame("error", g.req)>>
      BY <1>1, RouteRequestFacts
  <2> QED
      BY <1>1, <2>1, RangeOfFew, FrameFacts DEF DeliveringSource, Routes, Kinds
<1>2. CASE RouteResponse
  <2>1. PICK g \in Frames :
              /\ Takes(g) /\ g.kind # "request"
              /\ delivering' = <<>> \/ (delivering' = <<g>> /\ g.req \in DOMAIN inflight)
      BY <1>2 DEF RouteResponse
  <2> QED
      BY <1>2, <2>1, RangeOfFew DEF DeliveringSource, Routes
<1>3. CASE RouteCancel
  <2>1. PICK g \in Frames :
              /\ Takes(g) /\ g.kind # "request"
              /\ delivering' = delivering \/ (delivering' = <<g>> /\ g.req \in DOMAIN inflight)
      BY <1>3, RouteCancelFacts
  <2> QED
      BY <1>3, <2>1, RangeOfFew DEF DeliveringSource, Routes
<1>4. CASE Deliver \/ Abort
  BY <1>4, RangeOfFew DEF Deliver, Abort, DeliveringSource
<1>5. CASE UNCHANGED delivering
  BY <1>5 DEF DeliveringSource
<1>6. CASE Stop \/ ClientsLeave \/ \E r \in Requests : Submit(r) \/ Cancel(r)
  BY <1>5, <1>6 DEF Stop, ClientsLeave, Submit, Cancel, tasks
<1>7. ASSUME NEW s \in Subsystems, Bridge(s) PROVE DeliveringSource
  BY <1>5, <1>7, BridgeEffect
<1>8. ASSUME NEW s \in Subsystems, Subsystem(s) PROVE DeliveringSource
  BY <1>5, <1>8, SubsystemEffect, SendsEffect DEF Subsystem, tasks
<1> QED
  BY <1>1, <1>2, <1>3, <1>4, <1>6, <1>7, <1>8 DEF Next, Route

\* Frames in the channel of the router were put in by clients and bridges.
LEMMA InboundSourced == ASSUME TypeOK, Next PROVE InboundSource
<1>1. CASE RangeOf(inbound') \subseteq RangeOf(inbound)
  BY <1>1, UnderWayFacts DEF InboundSource
<1>2. ASSUME NEW r \in Requests, Submit(r) \/ Cancel(r) PROVE InboundSource
  BY <1>2, ClientEffect, UnderWayFacts DEF InboundSource
<1>3. CASE RouteRequest \/ RouteResponse \/ RouteCancel
  BY <1>1, <1>3, RouterEffect
<1>4. CASE Abort
  BY <1>1, <1>4, RangeOfFew DEF Abort
<1>5. ASSUME NEW s \in Subsystems, Bridge(s) PROVE InboundSource
  <2>1. CASE inbound' = inbound
      BY <1>1, <2>1
  <2>2. CASE Way(s) # <<>> /\ inbound' = Append(inbound, Head(Way(s)))
    <3>1. Way(s) \in Seq(Frames) /\ inbound \in Seq(Frames)
        BY WayFacts DEF TypeOK, RouterType
    <3>2. Head(Way(s)) \in RangeOf(Way(s)) /\ Head(Way(s)) \in Frames
        BY <2>2, <3>1, RangeFacts
    <3>3. RangeOf(inbound') = RangeOf(inbound) \cup {Head(Way(s))}
        BY <2>2, <3>1, <3>2, RangeFacts
    <3> QED
        BY <3>2, <3>3, UnderWayFacts DEF InboundSource
  <2> QED
      BY <1>5, <2>1, <2>2, BridgeEffect
<1>6. CASE inbound' = inbound
  BY <1>1, <1>6
<1>7. CASE ClientsLeave \/ Deliver \/ Stop
  BY <1>6, <1>7 DEF ClientsLeave, Deliver, Stop, tasks
<1>8. ASSUME NEW s \in Subsystems, Subsystem(s) PROVE InboundSource
  BY <1>6, <1>8, SubsystemEffect, SendsEffect DEF Subsystem, tasks
<1> QED
  BY <1>2, <1>3, <1>4, <1>5, <1>7, <1>8 DEF Next, Route

\* Who leaves the bridges and their pipes alone.
LEMMA WaysKept ==
    ASSUME TypeOK, \/ RouteRequest \/ RouteResponse \/ RouteCancel \/ Deliver \/ Stop \/ Abort
                   \/ ClientsLeave
                   \/ \E r \in Requests : Submit(r) \/ Cancel(r)
    PROVE  WaysSame /\ UNCHANGED <<carrying, toKernel, bridge>>
<1>1. UNCHANGED <<carrying, toKernel, bridge>>
  BY DEF RouteRequest, RouteResponse, RouteCancel, Deliver, Stop, Abort, ClientsLeave, Submit, Cancel,
         tasks, pipes
<1> QED
  BY <1>1, SameFacts

\* Frames on the way through a bridge come from its subsystem.
LEMMA WaySourced == ASSUME TypeOK, Next PROVE WaySource
<1>1. CASE WaysSame
  BY <1>1 DEF WaysSame, WaySource
<1>2. ASSUME NEW s \in Subsystems, Bridge(s) PROVE WaySource
  <2>1. Way(s) \in Seq(Frames)
      BY WayFacts
  <2>2. /\ Way(s) # <<>> => RangeOf(Tail(Way(s))) \subseteq RangeOf(Way(s))
        /\ RangeOf(<<>>) = {}
      BY <2>1, RangeFacts, RangeOfFew
  <2> QED
      BY <1>2, <2>2, BridgeEffect DEF WaySource
<1>3. ASSUME NEW s \in Subsystems, NEW r \in Requests, SendItem(s, r) \/ SendDone(s, r) \/ Call(s, r)
      PROVE  WaySource
  <2>1. PICK k \in {"item", "done", "request"} :
                 /\ Way(s)' = Append(Way(s), Frame(k, r)) /\ Frame(k, r) \in Frames
                 /\ k = "item" => SendItem(s, r)
                 /\ k = "done" => SendDone(s, r)
                 /\ k = "request" => Call(s, r)
                 /\ \A t \in Subsystems \ {s} : Way(t)' = Way(t)
      BY <1>3, SendsEffect
  <2>2. Way(s) \in Seq(Frames)
      BY WayFacts
  <2>3. RangeOf(Way(s)') = RangeOf(Way(s)) \cup {Frame(k, r)}
      BY <2>1, <2>2, RangeFacts
  <2> QED
      BY <2>1, <2>3 DEF WaySource
<1>4. ASSUME NEW s \in Subsystems, Subsystem(s),
             ~ \E r \in Requests : SendItem(s, r) \/ SendDone(s, r) \/ Call(s, r)
      PROVE  WaySource
  BY <1>1, <1>4, SubsystemEffect DEF Subsystem
<1> QED
  BY <1>1, <1>2, <1>3, <1>4, WaysKept DEF Next, Route

\* Who leaves what the handlers were handed alone.
LEMMA HandedKept ==
    ASSUME TypeOK, \/ Deliver \/ Stop \/ Abort \/ ClientsLeave
                   \/ \E r \in Requests : Submit(r) \/ Cancel(r)
                   \/ \E s \in Subsystems : Bridge(s) \/ DispatcherEnds(s)
                   \/ \E s \in Subsystems, r \in Requests :
                         SendItem(s, r) \/ SendDone(s, r) \/ Call(s, r) \/ GiveUp(s, r)
    PROVE  HandedSame /\ UNCHANGED <<toSub, default>>
<1>1. UNCHANGED <<toSub, default>>
  BY DEF Deliver, Stop, Abort, ClientsLeave, Submit, Cancel, Bridge, BridgeRecv, BridgeSend, BridgeFails,
         BridgeEnds, EndBridge, DispatcherEnds, SendItem, SendDone, Call, GiveUp, pipes, subsystems
<1> QED
  BY <1>1, SameFacts

\* What a handler was handed comes from the router.
LEMMA HandedSourced == ASSUME TypeOK, BridgesEnded, Next PROVE HandedSource
<1>1. CASE HandedSame
  BY <1>1 DEF HandedSame, HandedSource
<1>2. CASE RouteRequest \/ RouteResponse \/ RouteCancel
  <2>1. PICK f \in Frames, s \in Subsystems :
              /\ Takes(f) /\ s = Callee[f.req]
              /\ \A t \in Subsystems \ {s} : Handed(t)' = Handed(t)
              /\ \/ Handed(s)' = Handed(s)
                 \/ Handed(s)' = Append(Handed(s), f) /\ f.kind \in {"request", "cancel"}
      BY <1>2, RouterEffect
  <2>2. RangeOf(Append(Handed(s), f)) = RangeOf(Handed(s)) \cup {f}
      BY WayFacts, RangeFacts
  <2> QED
      BY <1>2, <2>1, <2>2 DEF HandedSource, Routes
<1>3. ASSUME NEW s \in Subsystems, RangeOf(Handed(s)') \subseteq RangeOf(Handed(s)),
             \A t \in Subsystems \ {s} : Handed(t)' = Handed(t)
      PROVE  HandedSource
  BY <1>3 DEF HandedSource
<1>4. ASSUME NEW s \in Subsystems, Surface(s) PROVE HandedSource
  <2>1. PICK p \in Seq(Frames), q \in Seq(Frames) :
              /\ Handed(s) = p \o q
              /\ \/ q # <<>> /\ Handed(s)' = p \o Tail(q)
                 \/ Handed(s)' = Handed(s)
                 \/ Handed(s)' = q
      BY <1>4, SurfaceEffect
  <2>2. RangeOf(Handed(s)) = RangeOf(p) \cup RangeOf(q)
      BY <2>1, RangeFacts
  <2>3. ASSUME q # <<>> PROVE RangeOf(p \o Tail(q)) \subseteq RangeOf(Handed(s))
    <3>1. PICK t \in Seq(Frames) : t = Tail(q)
        BY <2>3, TailFacts
    <3>2. RangeOf(t) \subseteq RangeOf(q)
        BY <2>3, <3>1, RangeFacts
    <3>3. RangeOf(p \o t) = RangeOf(p) \cup RangeOf(t)
        BY RangeFacts
    <3> QED
        BY <2>2, <3>1, <3>2, <3>3
  <2> QED
      BY <1>3, <1>4, <2>1, <2>2, <2>3, SubsystemEffect
<1>5. ASSUME NEW s \in Subsystems, Take(s) PROVE HandedSource
  <2>1. Handed(s) # <<>> /\ Handed(s)' = Tail(Handed(s)) /\ Handed(s) \in Seq(Frames)
      BY <1>5, TakeEffect, WayFacts
  <2>2. RangeOf(Tail(Handed(s))) \subseteq RangeOf(Handed(s))
      BY <2>1, RangeFacts
  <2> QED
      BY <1>3, <1>5, <2>1, <2>2, SubsystemEffect
<1>6. ASSUME NEW s \in Subsystems, Leave(s) \/ LoopEnds(s) PROVE HandedSource
  <2>1. PICK p \in Seq(Frames), q \in Seq(Frames) : Handed(s) = p \o q /\ Handed(s)' = q
      BY <1>6, DropEffect
  <2>2. RangeOf(q) \subseteq RangeOf(Handed(s))
      BY <2>1, RangeFacts
  <2> QED
      BY <1>3, <1>6, <2>1, <2>2, SubsystemEffect
<1> QED
  BY <1>1, <1>2, <1>4, <1>5, <1>6, HandedKept DEF Next, Route, Subsystem

\* Requests stay made.
LEMMA MadeGrows ==
    ASSUME Next
    PROVE  /\ made \subseteq made'
           /\ \A r \in made' \ made : Submit(r) \/ \E s \in Subsystems : Call(s, r)
<1>1. \/ UNCHANGED made
      \/ \E r \in Requests : Submit(r)
      \/ \E s \in Subsystems, r \in Requests : Call(s, r)
  BY DEF Next, Cancel, ClientsLeave, Route, RouteRequest, RouteResponse, RouteCancel,
         Deliver, Stop, Abort, Bridge, BridgeRecv, BridgeSend, BridgeFails, BridgeEnds,
         EndBridge, Subsystem, Surface, DispatcherEnds, Take, Leave, LoopEnds, DropEnd,
         SendItem, SendDone, GiveUp, calls
<1> QED
  BY <1>1 DEF Submit, Call

\* Every frame still belongs to a request that was made, and is where it belongs.
LEMMA FramesMadeStep == TypeOK /\ BridgesEnded /\ FramesMade /\ [Next]_vars => FramesMade'
<1> SUFFICES ASSUME TypeOK, BridgesEnded, FramesMade, [Next]_vars PROVE FramesMade'
  OBVIOUS
<1>1. CASE UNCHANGED vars
  <2>1. UNCHANGED <<inbound, carrying, toKernel, toSub, default, delivering, made>>
      BY <1>1 DEF vars, tasks, pipes, subsystems, calls
  <2>2. WaysSame /\ HandedSame
      BY <2>1, SameFacts
  <2>3. UnderWay' = UnderWay
      BY <2>1, <2>2 DEF WaysSame, UnderWay
  <2> QED
      BY <2>1, <2>2, <2>3 DEF FramesMade, WaysSame, HandedSame
<1>2. CASE Next
  <2>1. InboundSource /\ WaySource /\ HandedSource /\ DeliveringSource /\ made \subseteq made'
      BY <1>2, InboundSourced, WaySourced, HandedSourced, DeliveringSourced, MadeGrows
  <2>2. \A f : Routes(f) => f.req \in made /\ f \in Frames
      BY TakesFacts, MadeFacts DEF Routes
  <2>3. ASSUME NEW s \in Subsystems, NEW f \in RangeOf(Way(s)')
        PROVE  /\ f.req \in made'
               /\ f.kind # "request" => f.kind \in {"item", "done"} /\ Callee[f.req] = s
    <3>1. CASE f \in RangeOf(Way(s))
        BY <2>1, <3>1, UnderWayFacts DEF FramesMade
    <3>2. CASE \E r \in Requests : Call(s, r) /\ f = Frame("request", r)
        BY <3>2, FrameFacts DEF Call, Kinds
    <3>3. ASSUME NEW r \in Requests,
                 \/ SendItem(s, r) /\ f = Frame("item", r)
                 \/ SendDone(s, r) /\ f = Frame("done", r)
          PROVE  f.req \in made /\ f.kind \in {"item", "done"} /\ Callee[f.req] = s
      <4>1. r \in made /\ Callee[r] = s
          BY <3>3 DEF SendItem, SendDone, TypeOK, SubsystemsType
      <4> QED
          BY <3>3, <4>1, FrameFacts DEF Kinds
    <3> QED
        BY <2>1, <3>1, <3>2, <3>3 DEF WaySource
  <2>4. ASSUME NEW f \in RangeOf(inbound') PROVE f.req \in made'
    <3>1. CASE f \in UnderWay
        BY <2>1, <3>1 DEF FramesMade
    <3>2. CASE \E r \in Requests : (Submit(r) /\ f = Frame("request", r))
                                   \/ (Cancel(r) /\ f = Frame("cancel", r))
        BY <2>1, <3>2, FrameFacts DEF Submit, Cancel, Kinds
    <3> QED
        BY <2>1, <3>1, <3>2 DEF InboundSource
  <2>5. ASSUME NEW f \in RangeOf(delivering') PROVE f.req \in made' /\ f.kind # "request"
    <3>1. CASE f \in RangeOf(delivering)
        BY <2>1, <3>1 DEF FramesMade
    <3>2. CASE \E g \in Frames : Routes(g) /\ f.req = g.req /\ f.kind # "request"
        BY <2>1, <2>2, <3>2
    <3> QED
        BY <2>1, <3>1, <3>2 DEF DeliveringSource
  <2>6. \A s \in Subsystems : \A f \in RangeOf(Handed(s)') :
            f.req \in made' /\ (f.kind = "request" => Callee[f.req] = s)
      BY <2>1, <2>2 DEF HandedSource, FramesMade
  <2> QED
      BY <2>3, <2>4, <2>5, <2>6, UnderWayFacts DEF FramesMade
<1> QED
  BY <1>1, <1>2

-----------------------------------------------------------------------------
(* What the tasks leave behind when they end.                               *)

\* A subsystem sends, and is taken to be sending, only while its bridge runs.
LEMMA BridgesEndedStep == TypeOK /\ BridgesEnded /\ RouterEnded /\ [Next]_vars => BridgesEnded'
<1> SUFFICES ASSUME TypeOK, BridgesEnded, RouterEnded, [Next]_vars
             PROVE  BridgesEnded'
  OBVIOUS
<1>0. /\ carrying \in [Subsystems -> Seq(Frames)] /\ toKernel \in [Subsystems -> Seq(Frames)]
      /\ default \in [Dispatched -> Seq(Frames)] /\ held \in [Subsystems -> SUBSET made]
      /\ running \subseteq Subsystems /\ bridge \subseteq Subsystems
      /\ \A s \in Subsystems : Sending(s)' <=> s \in running' \/ held'[s] # {}
  BY DEF TypeOK, PipesType, SubsystemsType, Sending
<1>1. ASSUME UNCHANGED <<carrying, toKernel, bridge, default, running, held>>,
             router' = "aborted" \/ (router = "aborted" <=> router' = "aborted")
      PROVE  BridgesEnded'
  BY <1>1 DEF BridgesEnded, Sending
<1>2. CASE UNCHANGED vars
  BY <1>1, <1>2 DEF vars, tasks, pipes, subsystems
<1>3. CASE Route \/ Abort \/ ClientsLeave \/ \E r \in Requests : Submit(r) \/ Cancel(r)
  <2>1. /\ UNCHANGED <<default, running, held>>
        /\ router' = "aborted" \/ (router # "aborted" /\ router' # "aborted") \/ router' = router
      BY <1>3 DEF Route, RouteRequest, RouteResponse, RouteCancel, Deliver, Stop, Abort, ClientsLeave,
                  Submit, Cancel, subsystems, tasks
  <2> QED
      BY <1>1, <1>3, <2>1, WaysKept DEF Route
<1>4. ASSUME NEW s \in Subsystems, Bridge(s) PROVE BridgesEnded'
  <2>1. UNCHANGED <<router, default, running, held>>
      BY <1>4, BridgeEffect DEF subsystems
  <2>2. CASE s \in bridge /\ s \in bridge'
    <3>1. bridge' = bridge
        BY <1>4, <2>2, BridgeEffect
    <3>2. \A t \in Subsystems \ bridge : carrying'[t] = carrying[t] /\ toKernel'[t] = toKernel[t]
        BY <1>0, <1>4, <2>2
        DEF Bridge, BridgeRecv, BridgeSend, BridgeFails, BridgeEnds, EndBridge, pipes
    <3> QED
        BY <2>1, <3>1, <3>2 DEF BridgesEnded, Sending
  <2>3. CASE EndBridge(s) /\ s \in bridge
    <3>1. /\ bridge' = bridge \ {s} /\ carrying'[s] = <<>> /\ toKernel'[s] = <<>>
          /\ \A t \in Subsystems \ {s} : carrying'[t] = carrying[t] /\ toKernel'[t] = toKernel[t]
        BY <1>0, <2>3 DEF EndBridge
    <3>2. router # "aborted" => ~Sending(s)
      <4>1. router # "running" \/ ~Sending(s)
          BY <1>4, <2>3, <3>1, BridgeEffect
      <4>2. router \in {"running", "stopped", "aborted"}
          BY DEF TypeOK, RouterType
      <4>3. router # "stopped"
          BY <2>3 DEF RouterEnded, InboundClosed
      <4>4. router = "running" => ~Sending(s)
          BY <4>1
      <4> QED
          BY <4>2, <4>3, <4>4
    <3> QED
        BY <2>1, <3>1, <3>2 DEF BridgesEnded, Sending
  <2> QED
      BY <1>4, <2>2, <2>3 DEF Bridge, BridgeRecv, BridgeSend, BridgeFails, BridgeEnds, EndBridge
<1>5. ASSUME NEW s \in Subsystems,
             \/ Surface(s) \/ DispatcherEnds(s) \/ Take(s) \/ Leave(s) \/ LoopEnds(s)
             \/ \E r \in Requests : GiveUp(s, r)
      PROVE  BridgesEnded'
  <2>1. UNCHANGED <<router, bridge, carrying, toKernel>>
      BY <1>5, SubsystemEffect DEF tasks
  <2>2. running' \subseteq running
      BY <1>5 DEF Surface, DispatcherEnds, Take, Leave, LoopEnds, DropEnd, GiveUp
  <2>3. \A t \in Subsystems : held'[t] \subseteq held[t] \/ t \in running
      BY <1>0, <1>5 DEF Surface, DispatcherEnds, Take, Leave, LoopEnds, DropEnd, GiveUp
  <2>4. \A t \in Subsystems : Sending(t)' => Sending(t)
      BY <1>0, <2>2, <2>3 DEF Sending
  <2>5. \A t \in Dispatched \ running' : default'[t] = <<>>
    <3>1. CASE UNCHANGED <<default, running>>
        BY <3>1 DEF BridgesEnded
    <3>2. CASE s \in running' /\ UNCHANGED running /\ \E q : default' = [default EXCEPT ![s] = q]
        BY <1>0, <3>2 DEF BridgesEnded
    <3>3. CASE Leave(s) \/ LoopEnds(s)
      <4>1. /\ running' = running \ {s}
            /\ \A t \in Dispatched : default'[t] = IF t = s THEN <<>> ELSE default[t]
          BY <1>0, <3>3 DEF Leave, LoopEnds, DropEnd
      <4> QED
          BY <4>1 DEF BridgesEnded
    <3>4. CASE Surface(s) \/ Take(s)
        BY <3>1, <3>2, <3>4, <1>0 DEF Surface, Take
    <3>5. CASE DispatcherEnds(s) \/ \E r \in Requests : GiveUp(s, r)
        BY <3>1, <3>5 DEF DispatcherEnds, GiveUp
    <3> QED
        BY <1>5, <3>3, <3>4, <3>5
  <2> QED
      BY <2>1, <2>4, <2>5 DEF BridgesEnded
<1>6. ASSUME NEW s \in Subsystems, NEW r \in Requests, SendItem(s, r) \/ SendDone(s, r) \/ Call(s, r)
      PROVE  BridgesEnded'
  <2>1. s \in bridge /\ UNCHANGED <<router, bridge, carrying, default, running>>
      BY <1>6, SendsEffect DEF tasks
  <2>2. \A t \in Subsystems : held'[t] \subseteq held[t]
      BY <1>0, <1>6 DEF SendItem, SendDone, Call, subsystems
  <2>3. \A t \in Subsystems : Sending(t)' => Sending(t)
      BY <1>0, <2>1, <2>2 DEF Sending
  <2>4. \A t \in Subsystems \ {s} : toKernel'[t] = toKernel[t]
      BY <1>0, <1>6 DEF SendItem, SendDone, Call, Send
  <2> QED
      BY <2>1, <2>3, <2>4 DEF BridgesEnded
<1> QED
  BY <1>2, <1>3, <1>4, <1>5, <1>6 DEF Next, Route, Subsystem

\* The channel of the router stays closed and empty.
LEMMA RouterEndedStep == TypeOK /\ RouterEnded /\ [Next]_vars => RouterEnded'
<1> SUFFICES ASSUME TypeOK, RouterEnded, [Next]_vars PROVE RouterEnded'
  OBVIOUS
<1>1. CASE UNCHANGED vars
  BY <1>1 DEF vars, tasks, RouterEnded, InboundClosed
<1>2. CASE Stop \/ Abort
  BY <1>2 DEF Stop, Abort, RouterEnded, InboundClosed
<1>3. CASE router = "running" /\ router' = "running"
  BY <1>3 DEF RouterEnded
<1>4. CASE UNCHANGED <<clients, router, inflight, delivering, inbound, bridge>>
  BY <1>4 DEF RouterEnded, InboundClosed
<1>5. CASE RouteRequest \/ RouteResponse \/ RouteCancel \/ Deliver
           \/ \E r \in Requests : Submit(r) \/ Cancel(r)
  BY <1>3, <1>5 DEF RouteRequest, RouteResponse, RouteCancel, Deliver, Takes, Submit, Cancel,
                    HasInboundRoom
<1>6. CASE ClientsLeave
  BY <1>6 DEF ClientsLeave, tasks, RouterEnded, InboundClosed
<1>7. ASSUME NEW s \in Subsystems, Bridge(s) PROVE RouterEnded'
  <2>1. CASE router = "running"
    <3>1. router' = "running"
        BY <1>7, <2>1, BridgeEffect
    <3> QED
        BY <1>3, <2>1, <3>1
  <2>2. CASE router # "running"
    <3>1. UNCHANGED <<clients, router, inflight, delivering, inbound>> /\ bridge' \subseteq bridge
        BY <1>7, <2>2, BridgeEffect
    <3> QED
        BY <3>1 DEF RouterEnded, InboundClosed
  <2> QED
      BY <2>1, <2>2
<1>8. ASSUME NEW s \in Subsystems, Subsystem(s) PROVE RouterEnded'
  BY <1>4, <1>8, SubsystemEffect, SendsEffect DEF Subsystem, tasks
<1> QED
  BY <1>1, <1>2, <1>5, <1>6, <1>7, <1>8 DEF Next, Route

-----------------------------------------------------------------------------
(* The types hold, and what the tasks leave behind.                         *)

PlaceInv == TypeOK /\ FramesMade /\ BridgesEnded /\ RouterEnded

\* Nothing is under way in the beginning.
LEMMA InitNothing ==
    ASSUME Init
    PROVE  /\ UnderWay = {} /\ inbound = <<>> /\ delivering = <<>>
           /\ \A s \in Subsystems : Way(s) = <<>> /\ Handed(s) = <<>>
           /\ RangeOf(<<>>) = {}
<1>1. <<>> \o <<>> = <<>>
  OBVIOUS
<1>2. \A s \in Subsystems : Way(s) = <<>> /\ Handed(s) = <<>>
  BY <1>1 DEF Init, Way, Handed
<1>3. inbound = <<>> /\ delivering = <<>>
  BY DEF Init
<1> QED
  BY <1>2, <1>3, RangeOfFew DEF UnderWay

\* It holds in the beginning.
LEMMA InitPlaceInv == Init => PlaceInv
<1> SUFFICES ASSUME Init PROVE PlaceInv
  OBVIOUS
<1>1. FramesMade
  BY InitNothing DEF FramesMade
<1>2. BridgesEnded /\ RouterEnded
  BY DEF Init, BridgesEnded, RouterEnded
<1> QED
  BY <1>1, <1>2, InitType DEF PlaceInv

\* Every step keeps it: its four parts need each other.
LEMMA PlaceInvStep == PlaceInv /\ [Next]_vars => PlaceInv'
BY TypeStep, FramesMadeStep, BridgesEndedStep, RouterEndedStep DEF PlaceInv

\* It holds throughout.
LEMMA PlaceInvCorrect == Spec => []PlaceInv
<1>1. Init => PlaceInv
  BY InitPlaceInv
<1>2. PlaceInv /\ [Next]_vars => PlaceInv'
  BY PlaceInvStep
<1> QED
  BY <1>1, <1>2, PTL DEF Spec

\* Every variable has its type, every channel stays within its capacity and every
\* frame belongs to a request that was made (kernel.rs:66, 96; router.rs:170).
THEOREM TypeCorrect == Spec => []TypeOK
<1>1. PlaceInv => TypeOK
  BY DEF PlaceInv
<1> QED
  BY <1>1, PlaceInvCorrect, PTL

-----------------------------------------------------------------------------
(* A request is on its way to the router once.                              *)

\* No frame of a request is anywhere before the request is made.
LEMMA UnmadeFacts ==
    ASSUME TypeOK, FramesMade, NEW r \in Requests, r \notin made
    PROVE  /\ \A k \in Kinds : Frame(k, r) \notin UnderWay
           /\ \A f \in RangeOf(delivering) : f.req # r
           /\ r \notin DOMAIN inflight /\ r \notin quit
           /\ \A s \in Subsystems : r \notin held[s] /\ Frame("request", r) \notin RangeOf(Handed(s))
<1>1. (\A k \in Kinds : Frame(k, r).req = r) /\ "request" \in Kinds
  BY FrameFacts DEF Kinds
<1>2. \A f \in UnderWay \cup RangeOf(delivering) : f.req # r
  BY DEF FramesMade
<1>3. ASSUME NEW s \in Subsystems, Frame("request", r) \in RangeOf(Handed(s)) PROVE FALSE
  <2>1. Frame("request", r).req = r
      BY <1>1
  <2> QED
      BY <1>3, <2>1 DEF FramesMade
<1>4. r \notin DOMAIN inflight /\ r \notin quit /\ \A s \in Subsystems : r \notin held[s]
  BY DEF TypeOK, RouterType, SubsystemsType, RequestsType
<1> QED
  BY <1>1, <1>2, <1>3, <1>4

\* Clients and calls make new requests only, and a bridge takes out what it puts in.
LEMMA RoutedOnceStep == TypeOK /\ FramesMade /\ RoutedOnce /\ [Next]_vars => RoutedOnce'
<1> SUFFICES ASSUME TypeOK, FramesMade, RoutedOnce, [Next]_vars PROVE RoutedOnce'
  OBVIOUS
<1>0. /\ inbound \in Seq(Frames) /\ \A s \in Subsystems : Way(s) \in Seq(Frames)
      /\ Once(inbound) /\ \A s \in Subsystems : Once(Way(s))
      /\ Once(<<>>) /\ RangeOf(<<>>) = {}
  BY WayFacts, OnceMoves, RangeOfFew DEF TypeOK, RouterType, RoutedOnce
<1>1. ASSUME WaysSame, Once(inbound'), RangeOf(inbound') \subseteq RangeOf(inbound)
      PROVE  RoutedOnce'
  BY <1>1 DEF RoutedOnce, WaysSame
<1>2. ASSUME NEW r \in Requests, Submit(r) \/ Cancel(r) PROVE RoutedOnce'
  <2>1. PICK f \in Frames :
              /\ (f = Frame("request", r) /\ r \notin made) \/ f = Frame("cancel", r)
              /\ inbound' = Append(inbound, f)
              /\ RangeOf(inbound') = RangeOf(inbound) \cup {f}
              /\ WaysSame
      BY <1>2, ClientEffect
  <2>2. f.kind # "request" \/ f \notin UnderWay
      BY <2>1, UnmadeFacts, FrameFacts DEF Kinds
  <2>3. Once(inbound')
      BY <1>0, <2>1, <2>2, OnceMoves, UnderWayFacts
  <2>4. \A x \in Requests : Frame("request", x) = f => f.kind = "request"
      BY FrameFacts DEF Kinds
  <2> QED
      BY <2>1, <2>2, <2>3, <2>4, UnderWayFacts DEF RoutedOnce, WaysSame
<1>3. CASE RouteRequest \/ RouteResponse \/ RouteCancel
  <2>1. PICK f \in Frames : Takes(f) /\ RangeOf(inbound) = RangeOf(inbound') \cup {f} /\ WaysSame
      BY <1>3, RouterEffect
  <2>2. Once(inbound')
      BY <1>0, <2>1, OnceMoves, TakesFacts
  <2> QED
      BY <1>1, <2>1, <2>2
<1>4. CASE Deliver \/ Stop \/ ClientsLeave \/ Abort
  <2>1. inbound' = inbound \/ inbound' = <<>>
      BY <1>4 DEF Deliver, Stop, ClientsLeave, Abort, tasks
  <2> QED
      BY <1>0, <1>1, <1>4, <2>1, WaysKept
<1>5. ASSUME NEW s \in Subsystems, Bridge(s) PROVE RoutedOnce'
  <2>0. \A t \in Subsystems \ {s} : Way(t)' = Way(t)
      BY <1>5, BridgeEffect
  <2>1. CASE Way(s)' = Way(s) /\ inbound' = inbound
      BY <1>0, <1>1, <2>0, <2>1 DEF WaysSame
  <2>2. CASE Way(s)' = <<>> /\ inbound' = inbound
      BY <1>0, <2>0, <2>2 DEF RoutedOnce
  <2>3. CASE Way(s) # <<>> /\ Way(s)' = Tail(Way(s)) /\ inbound' = Append(inbound, Head(Way(s)))
    <3>1. PICK f \in Frames, q \in Seq(Frames) :
              /\ f = Head(Way(s)) /\ q = Tail(Way(s))
              /\ RangeOf(Way(s)) = RangeOf(q) \cup {f}
              /\ Once(q) /\ (f.kind = "request" => f \notin RangeOf(q))
      <4>1. PICK w \in Seq(Frames) : w = Way(s) /\ w # <<>> /\ Once(w)
          BY <1>0, <2>3
      <4>2. PICK f \in Frames, q \in Seq(Frames) : f = Head(w) /\ q = Tail(w)
          BY <4>1, TailFacts
      <4>3. RangeOf(w) = RangeOf(q) \cup {f}
          BY <4>1, <4>2, RangeFacts
      <4>4. Once(q) /\ (f.kind = "request" => f \notin RangeOf(q))
          BY <4>1, <4>2, OnceMoves
      <4> QED
          BY <4>1, <4>2, <4>3, <4>4
    <3>2. f.kind = "request" =>
              /\ f \notin RangeOf(inbound)
              /\ \A t \in Subsystems \ {s} : f \notin RangeOf(Way(t))
        BY <3>1, FrameFacts DEF RoutedOnce
    <3>3. Once(inbound') /\ RangeOf(inbound') = RangeOf(inbound) \cup {f}
        BY <1>0, <2>3, <3>1, <3>2, OnceMoves, RangeFacts
    <3>4. \A x \in Requests : Frame("request", x) = f => f.kind = "request"
        BY FrameFacts DEF Kinds
    <3> QED
        BY <2>0, <2>3, <3>1, <3>2, <3>3, <3>4 DEF RoutedOnce
  <2> QED
      BY <1>5, <2>1, <2>2, <2>3, BridgeEffect
<1>6. ASSUME NEW s \in Subsystems, NEW r \in Requests, SendItem(s, r) \/ SendDone(s, r) \/ Call(s, r)
      PROVE  RoutedOnce'
  <2>1. PICK f \in Frames :
              /\ Way(s)' = Append(Way(s), f) /\ inbound' = inbound
              /\ \A t \in Subsystems \ {s} : Way(t)' = Way(t)
              /\ f.kind # "request" \/ f \notin UnderWay
    <3>1. PICK k \in {"item", "done", "request"} :
              /\ Way(s)' = Append(Way(s), Frame(k, r)) /\ Frame(k, r) \in Frames
              /\ k = "request" => r \notin made
              /\ inbound' = inbound
              /\ \A t \in Subsystems \ {s} : Way(t)' = Way(t)
        BY <1>6, SendsEffect DEF tasks
    <3> QED
        BY <3>1, UnmadeFacts, FrameFacts DEF Kinds
  <2>2. Once(Way(s)') /\ RangeOf(Way(s)') = RangeOf(Way(s)) \cup {f}
      BY <1>0, <2>1, OnceMoves, RangeFacts, UnderWayFacts
  <2>3. \A x \in Requests : Frame("request", x) = f => f.kind = "request"
      BY FrameFacts DEF Kinds
  <2>4. \A t \in Subsystems : Once(Way(t)')
      BY <2>1, <2>2 DEF RoutedOnce
  <2>5. \A t \in Subsystems, x \in Requests :
           Frame("request", x) \in RangeOf(Way(t)') =>
              Frame("request", x) \in RangeOf(Way(t)) \/ (t = s /\ Frame("request", x) = f)
      BY <2>1, <2>2
  <2>6. f.kind = "request" => f \notin RangeOf(inbound) /\ \A t \in Subsystems : f \notin RangeOf(Way(t))
      BY <2>1, UnderWayFacts
  <2> QED
      BY <2>1, <2>3, <2>4, <2>5, <2>6 DEF RoutedOnce
<1>7. ASSUME NEW s \in Subsystems,
             \/ Surface(s) \/ DispatcherEnds(s) \/ Take(s) \/ Leave(s) \/ LoopEnds(s)
             \/ \E r \in Requests : GiveUp(s, r)
      PROVE  RoutedOnce'
  BY <1>0, <1>1, <1>7, SubsystemEffect DEF tasks
<1>8. CASE UNCHANGED vars
  <2>1. inbound' = inbound /\ WaysSame
      BY <1>8, SameFacts DEF vars, tasks, pipes
  <2> QED
      BY <1>0, <1>1, <2>1
<1> QED
  BY <1>2, <1>3, <1>4, <1>5, <1>6, <1>7, <1>8 DEF Next, Route, Subsystem

\* A request that the router takes is not under way any more.
LEMMA TakenIsRouted ==
    ASSUME TypeOK, RoutedOnce, NEW f \in Frames, Takes(f), WaysSame, f.kind = "request"
    PROVE  f \in UnderWay /\ ~(f \in UnderWay')
<1>1. /\ inbound \in Seq(Frames) /\ inbound # <<>> /\ f = Head(inbound) /\ inbound' = Tail(inbound)
      /\ f \in RangeOf(inbound)
  BY TakesFacts DEF TypeOK, RouterType
<1>2. f \notin RangeOf(inbound')
  BY <1>1, OnceMoves DEF RoutedOnce
<1>3. \A s \in Subsystems : f \notin RangeOf(Way(s))
  BY <1>1, FrameFacts DEF RoutedOnce
<1> QED
  BY <1>1, <1>2, <1>3, UnderWayFacts DEF WaysSame

\* A request that is new after a step was new before it.
LEMMA NewBefore ==
    ASSUME TypeOK, Next, NEW r \in Requests, r \notin made' \/ Unrouted(r)'
    PROVE  r \notin made \/ Unrouted(r)
<1>1. \A k \in Kinds, x \in Requests : Frame(k, x).kind = k /\ Frame(k, x).req = x
  BY FrameFacts
<1>2. CASE r \notin made'
  BY <1>2, MadeGrows
<1>3. CASE Unrouted(r)'
  <2>1. PICK f \in UnderWay' : f = Frame("request", r)
      BY <1>3 DEF Unrouted
  <2>2. f.kind = "request" /\ f.req = r
      BY <1>1, <2>1 DEF Kinds
  <2>3. ASSUME f \in RangeOf(inbound') PROVE f \in UnderWay \/ r \notin made
    <3>1. \/ f \in UnderWay
          \/ \E x \in Requests : Submit(x) /\ f = Frame("request", x)
          \/ \E x \in Requests : f = Frame("cancel", x)
        BY <2>3, InboundSourced DEF InboundSource
    <3> QED
        BY <1>1, <2>2, <3>1 DEF Submit, Kinds
  <2>4. ASSUME NEW s \in Subsystems, f \in RangeOf(Way(s)') PROVE f \in UnderWay \/ r \notin made
    <3>1. \/ f \in RangeOf(Way(s))
          \/ \E x \in Requests : f = Frame("item", x) \/ f = Frame("done", x)
          \/ \E x \in Requests : Call(s, x) /\ f = Frame("request", x)
        BY <2>4, WaySourced DEF WaySource
    <3> QED
        BY <1>1, <2>2, <3>1, UnderWayFacts DEF Call, Kinds
  <2> QED
      BY <2>1, <2>3, <2>4, UnderWayFacts DEF Unrouted
<1> QED
  BY <1>2, <1>3

\* The router takes no frame of a request that is still new afterwards, except
\* a cancel, which it ignores.
LEMMA NewNotTaken ==
    ASSUME TypeOK, FramesMade, RoutedOnce, NEW r \in Requests, Untouched(r),
           NEW f \in Frames, Takes(f), WaysSame, UNCHANGED made,
           r \notin made' \/ Unrouted(r)', f.req = r
    PROVE  f.kind \notin {"request", "item", "done"}
<1>1. f \in UnderWay /\ r \in made /\ f = Frame(f.kind, r)
  BY TakesFacts, MadeFacts, FrameFacts, UnderWayFacts
<1>2. f.kind \notin {"item", "done"}
  BY <1>1 DEF Untouched
<1>3. f.kind # "request"
  BY <1>1, TakenIsRouted DEF Unrouted
<1> QED
  BY <1>2, <1>3

\* A request that lies in front of no handler and is not worked on is not taken
\* by one, and none is gone with it.
LEMMA NotTaken ==
    ASSUME TypeOK, BridgesEnded, Next, NEW r \in Requests, r \notin quit,
           \A s \in Subsystems : r \notin held[s] /\ Frame("request", r) \notin RangeOf(Handed(s))
    PROVE  r \notin quit' /\ \A s \in Subsystems : r \notin held'[s]
<1>0. held \in [Subsystems -> SUBSET made]
    BY DEF TypeOK, SubsystemsType
<1>1. CASE UNCHANGED <<quit, held>>
    BY <1>1
<1>2. CASE Route \/ Abort \/ ClientsLeave \/ \E x \in Requests : Submit(x) \/ Cancel(x)
    BY <1>1, <1>2 DEF Route, RouteRequest, RouteResponse, RouteCancel, Deliver, Stop, Abort, ClientsLeave,
                      Submit, Cancel, subsystems, history
<1>3. ASSUME NEW s \in Subsystems, Bridge(s) PROVE UNCHANGED <<quit, held>>
    BY <1>3, BridgeEffect DEF subsystems, history
<1>4. ASSUME NEW s \in Subsystems, NEW x \in Requests,
             SendItem(s, x) \/ SendDone(s, x) \/ Call(s, x) \/ DispatcherEnds(s)
      PROVE  quit' = quit /\ \A t \in Subsystems : held'[t] \subseteq held[t]
    BY <1>0, <1>4 DEF SendItem, SendDone, Call, DispatcherEnds, subsystems, history
<1>41. ASSUME NEW s \in Subsystems, DispatcherEnds(s) PROVE UNCHANGED <<quit, held>>
    BY <1>41 DEF DispatcherEnds, history
<1>5. ASSUME NEW s \in Subsystems, NEW x \in Requests, GiveUp(s, x)
      PROVE  r \notin quit' /\ \A t \in Subsystems : held'[t] \subseteq held[t]
    BY <1>0, <1>5 DEF GiveUp
<1>6. ASSUME NEW s \in Subsystems, NEW p \in Seq(Frames), RangeOf(p) \subseteq RangeOf(Handed(s))
      PROVE  r \notin RequestsIn(p)
    BY <1>6, RequestsInFacts
<1>7. ASSUME NEW s \in Subsystems, Surface(s) PROVE r \notin quit' /\ held' = held
  <2>1. PICK p \in Seq(Frames), q \in Seq(Frames) :
              Handed(s) = p \o q /\ (UNCHANGED quit \/ quit' = quit \cup RequestsIn(p))
      BY <1>7, SurfaceEffect
  <2>2. RangeOf(p) \subseteq RangeOf(Handed(s))
      BY <2>1, RangeFacts
  <2> QED
      BY <1>6, <1>7, <2>1, <2>2 DEF Surface
<1>8. ASSUME NEW s \in Subsystems, Leave(s) \/ LoopEnds(s) PROVE r \notin quit' /\ held' = held
  <2>1. PICK p \in Seq(Frames), q \in Seq(Frames) :
              Handed(s) = p \o q /\ quit' = quit \cup RequestsIn(p)
      BY <1>8, DropEffect
  <2>2. RangeOf(p) \subseteq RangeOf(Handed(s))
      BY <2>1, RangeFacts
  <2>3. held' = held
      BY <1>8 DEF Leave, LoopEnds, DropEnd
  <2> QED
      BY <1>6, <2>1, <2>2, <2>3
<1>9. ASSUME NEW s \in Subsystems, Take(s)
      PROVE  quit' = quit /\ \A t \in Subsystems : r \notin held'[t]
  <2>1. PICK f : f = Head(Handed(s))
      OBVIOUS
  <2>2. /\ Handed(s) \in Seq(Frames) /\ Handed(s) # <<>>
        /\ held' = [held EXCEPT ![s] = IF f.kind = "request" THEN @ \cup {f.req} ELSE @]
      BY <1>9, <2>1, TakeEffect, WayFacts
  <2>3. f \in RangeOf(Handed(s)) /\ f \in Frames
      BY <2>1, <2>2, RangeFacts
  <2>4. f.kind = "request" => f.req # r
      BY <2>3, FrameFacts
  <2> QED
      BY <1>0, <1>9, <2>2, <2>4 DEF Take, history
<1>10. ASSUME NEW s \in Subsystems, Subsystem(s)
       PROVE  r \notin quit' /\ \A t \in Subsystems : r \notin held'[t]
    BY <1>4, <1>41, <1>5, <1>7, <1>8, <1>9, <1>10 DEF Subsystem
<1> QED
    BY <1>1, <1>2, <1>3, <1>10 DEF Next

\* Only a request that the router has taken is worked on.
LEMMA UnroutedIsNewStep ==
    TypeOK /\ FramesMade /\ BridgesEnded /\ RoutedOnce /\ UnroutedIsNew /\ [Next]_vars => UnroutedIsNew'
<1> SUFFICES ASSUME TypeOK, FramesMade, BridgesEnded, RoutedOnce, UnroutedIsNew, [Next]_vars
             PROVE  UnroutedIsNew'
  OBVIOUS
<1>1. CASE UNCHANGED vars
  <2>1. UNCHANGED <<inbound, carrying, toKernel, toSub, default, delivering, inflight, made, items, log,
                    held, quit>>
      BY <1>1 DEF vars, tasks, pipes, subsystems, calls, history
  <2>2. WaysSame /\ HandedSame
      BY <2>1, SameFacts
  <2>3. UnderWay' = UnderWay
      BY <2>1, <2>2 DEF WaysSame, UnderWay
  <2> QED
      BY <2>1, <2>2, <2>3 DEF UnroutedIsNew, Unrouted, Untouched, HandedSame
<1>2. CASE Next
  <2> SUFFICES ASSUME NEW r \in Requests, r \notin made' \/ Unrouted(r)' PROVE Untouched(r)'
      BY DEF UnroutedIsNew
  <2>0. Untouched(r)
      BY <1>2, NewBefore DEF UnroutedIsNew
  <2>00. \A k \in Kinds, x \in Requests : Frame(k, x).kind = k /\ Frame(k, x).req = x
      BY FrameFacts
  <2>1. items'[r] = 0
    <3>1. items' = items \/ \E s \in Subsystems, x \in Requests : SendItem(s, x)
        BY <1>2
        DEF Next, Submit, Cancel, ClientsLeave, Route, RouteRequest, RouteResponse, RouteCancel, Deliver,
            Stop, Abort, Bridge, BridgeRecv, BridgeSend, BridgeFails, BridgeEnds, EndBridge, Subsystem,
            Surface, DispatcherEnds, Take, Leave, LoopEnds, DropEnd, SendDone, GiveUp, Call, subsystems
    <3>2. ASSUME NEW s \in Subsystems, NEW x \in Requests, SendItem(s, x) PROVE items'[r] = items[r]
      <4>1. x # r /\ items' = [items EXCEPT ![x] = @ + 1]
          BY <2>0, <3>2 DEF SendItem, Untouched
      <4> QED
          BY <4>1 DEF TypeOK, SubsystemsType
    <3> QED
        BY <2>0, <3>1, <3>2 DEF Untouched
  <2>2. log'[r] = <<>>
    <3>1. log' = log \/ Deliver
        BY <1>2
        DEF Next, Submit, Cancel, ClientsLeave, Route, RouteRequest, RouteResponse, RouteCancel,
            Stop, Abort, Bridge, BridgeRecv, BridgeSend, BridgeFails, BridgeEnds, EndBridge, Subsystem,
            Surface, DispatcherEnds, Take, Leave, LoopEnds, DropEnd, SendItem, SendDone, GiveUp, Call,
            history
    <3>2. ASSUME Deliver PROVE log'[r] = log[r]
      <4>1. PICK f \in Frames : /\ RangeOf(delivering) = {f}
                                /\ log' = [log EXCEPT ![f.req] = Append(@, f.kind)]
          BY <3>2, DeliverFacts
      <4>2. f.req # r
          BY <2>0, <4>1 DEF Untouched
      <4> QED
          BY <4>1, <4>2 DEF TypeOK, RequestsType
    <3> QED
        BY <2>0, <3>1, <3>2 DEF Untouched
  <2>3. ASSUME NEW k \in {"item", "done"}, Frame(k, r) \in UnderWay' PROVE FALSE
    <3>1. PICK f \in UnderWay' : f = Frame(k, r)
        BY <2>3
    <3>2. f.kind \in {"item", "done"} /\ f.req = r /\ f \notin UnderWay
        BY <2>0, <2>00, <3>1 DEF Untouched, Kinds
    <3>3. f \notin RangeOf(inbound')
      <4>1. ASSUME f \in RangeOf(inbound')
            PROVE  \E x \in Requests : f = Frame("request", x) \/ f = Frame("cancel", x)
          BY <1>2, <3>2, <4>1, InboundSourced DEF InboundSource
      <4> QED
          BY <2>00, <3>2, <4>1 DEF Kinds
    <3>4. ASSUME NEW s \in Subsystems, f \in RangeOf(Way(s)') PROVE FALSE
      <4>1. \/ \E x \in Requests : f = Frame("request", x)
            \/ \E x \in Requests : /\ f = Frame("item", x) \/ f = Frame("done", x)
                                   /\ SendItem(s, x) \/ SendDone(s, x)
          BY <1>2, <3>2, <3>4, WaySourced, UnderWayFacts DEF WaySource
      <4> QED
          BY <2>0, <2>00, <3>2, <4>1 DEF Kinds, SendItem, SendDone, Untouched
    <3> QED
        BY <3>1, <3>3, <3>4, UnderWayFacts
  <2>4. ASSUME NEW g \in Frames, Routes(g), g.req = r
        PROVE  g.kind \notin {"request", "item", "done"}
    <3>1. WaysSame /\ UNCHANGED made /\ Takes(g)
        BY <2>4, RouterEffect DEF Routes
    <3> QED
        BY <2>0, <2>4, <3>1, NewNotTaken
  <2>5. ASSUME NEW f \in RangeOf(delivering') PROVE f.req # r
    <3>1. CASE f \in RangeOf(delivering)
        BY <2>0, <3>1 DEF Untouched
    <3>2. CASE \E g \in Frames : /\ Routes(g) /\ f.req = g.req
                                 /\ g.kind = "request" \/ g.req \in DOMAIN inflight
      <4>1. PICK g \in Frames : /\ Routes(g) /\ f.req = g.req
                                /\ g.kind = "request" \/ g.req \in DOMAIN inflight
          BY <3>2
      <4> QED
          BY <2>0, <2>4, <4>1 DEF Untouched
    <3> QED
        BY <1>2, <3>1, <3>2, DeliveringSourced DEF DeliveringSource
  <2>6. r \notin DOMAIN inflight'
    <3>1. CASE RouteRequest
      <4>1. PICK f \in Frames : /\ Takes(f) /\ f.kind = "request"
                                /\ \/ inflight' = inflight
                                   \/ \E x : inflight' = Remember(inflight, f.req, x)
          BY <3>1, RouteRequestFacts
      <4>2. f.req # r
          BY <2>4, <3>1, <4>1 DEF Routes
      <4>3. DOMAIN inflight' \subseteq DOMAIN inflight \cup {f.req}
        <5>1. CASE inflight' = inflight
            BY <5>1
        <5>2. ASSUME NEW x, inflight' = Remember(inflight, f.req, x)
              PROVE  DOMAIN inflight' = DOMAIN inflight \cup {f.req}
            BY <5>2 DEF Remember
        <5> QED
            BY <4>1, <5>1, <5>2
      <4> QED
          BY <2>0, <4>2, <4>3 DEF Untouched
    <3>2. CASE DOMAIN inflight' \subseteq DOMAIN inflight
        BY <2>0, <3>2 DEF Untouched
    <3>3. CASE RouteResponse \/ RouteCancel \/ Deliver \/ Stop \/ Abort \/ ClientsLeave
               \/ \E x \in Requests : Submit(x) \/ Cancel(x)
      <4>1. \/ inflight' = inflight \/ inflight' = [x \in {} |-> None]
            \/ \E x : inflight' = Forget(inflight, x)
          BY <3>3 DEF RouteResponse, RouteCancel, Deliver, Stop, Abort, ClientsLeave, Submit, Cancel, tasks
      <4> QED
          BY <3>2, <4>1, InflightFacts
    <3>4. ASSUME NEW s \in Subsystems, Bridge(s) \/ Subsystem(s) PROVE r \notin DOMAIN inflight'
      <4>1. inflight' = inflight
          BY <3>4, BridgeEffect, SubsystemEffect, SendsEffect DEF Subsystem, tasks
      <4> QED
          BY <3>2, <4>1
    <3> QED
        BY <1>2, <3>1, <3>3, <3>4 DEF Next, Route
  <2>7. r \notin quit' /\ \A s \in Subsystems : r \notin held'[s]
      BY <1>2, <2>0, NotTaken DEF Untouched
  <2>8. ASSUME NEW s \in Subsystems, Frame("request", r) \in RangeOf(Handed(s)') PROVE FALSE
    <3>1. PICK f : f = Frame("request", r) /\ f.kind = "request" /\ f.req = r /\ f \in Frames
        BY FrameFacts DEF Kinds
    <3>2. f \in RangeOf(Handed(s)) \/ Routes(f)
        BY <1>2, <2>8, <3>1, HandedSourced DEF HandedSource
    <3> QED
        BY <2>0, <2>4, <3>1, <3>2 DEF Untouched
  <2> QED
      BY <2>1, <2>2, <2>3, <2>5, <2>6, <2>7, <2>8 DEF Untouched
<1> QED
  BY <1>1, <1>2

-----------------------------------------------------------------------------
(* A request is handed to its handler once.                                 *)

\* Who holds which request, and which are gone.
LEMMA HeldFacts ==
    ASSUME TypeOK
    PROVE  /\ held \in [Subsystems -> SUBSET made] /\ made \subseteq Requests /\ quit \subseteq made
           /\ \A s, t \in Subsystems : \A r \in held[s] : r \in held[t] => s = t
BY DEF TypeOK, SubsystemsType, RequestsType

\* A request lies in front of its callee only.
LEMMA HandedFacts ==
    ASSUME TypeOK, FramesMade, NEW s \in Subsystems, NEW r \in Requests,
           Frame("request", r) \in RangeOf(Handed(s))
    PROVE  Callee[r] = s /\ r \in made
<1>1. PICK f : f = Frame("request", r) /\ f.kind = "request" /\ f.req = r
  BY FrameFacts DEF Kinds
<1> QED
  BY <1>1 DEF FramesMade

\* A prefix of what the handler of s was handed is dropped with its requests.
LEMMA DroppedOnce ==
    ASSUME TypeOK, FramesMade, HandedOnce, NEW s \in Subsystems,
           NEW p \in Seq(Frames), NEW q \in Seq(Frames), Handed(s) = p \o q, Handed(s)' = q,
           \A t \in Subsystems \ {s} : Handed(t)' = Handed(t),
           quit' = quit \cup RequestsIn(p), held' = held
    PROVE  HandedOnce'
<1>1. /\ Once(Handed(s)) /\ Once(q) /\ RangeOf(Handed(s)) = RangeOf(p) \cup RangeOf(q)
      /\ \A f \in RangeOf(p) : f \in RangeOf(q) => f.kind # "request"
  <2>1. Once(p \o q)
      BY DEF HandedOnce
  <2> QED
      BY <2>1, OnceConcat, RangeFacts
<1>2. ASSUME NEW r \in RequestsIn(p)
      PROVE  /\ r \in Requests /\ Frame("request", r) \in RangeOf(Handed(s)) /\ Callee[r] = s
             /\ Frame("request", r) \notin RangeOf(q)
  <2>1. r \in Requests /\ Frame("request", r) \in RangeOf(p)
      BY <1>2, RequestsInFacts
  <2>2. Frame("request", r).kind = "request"
      BY <2>1, FrameFacts DEF Kinds
  <2> QED
      BY <1>1, <2>1, <2>2, HandedFacts
<1>3. \A t \in Subsystems : Once(Handed(t)') /\ RangeOf(Handed(t)') \subseteq RangeOf(Handed(t))
  BY <1>1 DEF HandedOnce
<1>4. ASSUME NEW t \in Subsystems, NEW r \in held'[t] PROVE r \notin quit'
  <2>1. r \in held[t] /\ r \notin quit /\ Callee[r] = t
      BY <1>4 DEF HandedOnce, TypeOK, SubsystemsType
  <2>2. r \notin RequestsIn(p)
      BY <1>2, <2>1 DEF HandedOnce
  <2> QED
      BY <2>1, <2>2
<1>5. ASSUME NEW t \in Subsystems, NEW r \in held'[t] \cup quit', Frame("request", r) \in RangeOf(Handed(t)')
      PROVE  FALSE
  <2>1. CASE r \in held[t] \cup quit
      BY <1>3, <1>5, <2>1 DEF HandedOnce
  <2>2. CASE r \in RequestsIn(p)
    <3>1. t = s
        BY <1>2, <1>3, <1>5, <2>2, HandedFacts
    <3> QED
        BY <1>2, <1>5, <2>2, <3>1
  <2> QED
      BY <1>5, <2>1, <2>2
<1> QED
  BY <1>3, <1>4, <1>5 DEF HandedOnce

\* A request is handed over when the router takes it, and goes to one place from there.
LEMMA HandedOnceStep ==
    TypeOK /\ FramesMade /\ BridgesEnded /\ UnroutedIsNew /\ HandedOnce /\ [Next]_vars => HandedOnce'
<1> SUFFICES ASSUME TypeOK, FramesMade, BridgesEnded, UnroutedIsNew, HandedOnce, [Next]_vars
             PROVE  HandedOnce'
  OBVIOUS
<1>0. /\ held \in [Subsystems -> SUBSET made]
      /\ \A s \in Subsystems : Handed(s) \in Seq(Frames) /\ Once(Handed(s))
  BY WayFacts, HeldFacts DEF HandedOnce
<1>1. ASSUME \A s \in Subsystems : held'[s] \subseteq held[s], UNCHANGED quit,
             \A s \in Subsystems : Once(Handed(s)') /\ RangeOf(Handed(s)') \subseteq RangeOf(Handed(s))
      PROVE  HandedOnce'
  <2>1. \A s \in Subsystems : \A r \in held'[s] : r \in held[s]
      BY <1>1
  <2>2. \A s \in Subsystems : \A r \in held'[s] : r \notin quit'
      BY <1>1, <2>1 DEF HandedOnce
  <2>3. \A s \in Subsystems : \A r \in held'[s] \cup quit' : Frame("request", r) \notin RangeOf(Handed(s)')
      BY <1>1, <2>1 DEF HandedOnce
  <2> QED
      BY <1>1, <2>2, <2>3 DEF HandedOnce
<1>2. ASSUME HandedSame, \A s \in Subsystems : held'[s] \subseteq held[s], UNCHANGED quit
      PROVE  HandedOnce'
  BY <1>0, <1>1, <1>2 DEF HandedSame
<1>3. CASE RouteRequest \/ RouteResponse \/ RouteCancel
  <2>1. PICK f \in Frames, s \in Subsystems :
              /\ Takes(f)
              /\ \A t \in Subsystems \ {s} : Handed(t)' = Handed(t)
              /\ Handed(s)' = Handed(s) \/ Handed(s)' = Append(Handed(s), f)
              /\ UNCHANGED <<held, quit>>
      BY <1>3, RouterEffect
  <2>2. CASE Handed(s)' = Handed(s)
    <3>1. HandedSame
        BY <2>1, <2>2 DEF HandedSame
    <3> QED
        BY <1>2, <2>1, <3>1
  <2>3. CASE Handed(s)' = Append(Handed(s), f)
    <3>1. /\ RangeOf(Handed(s)') = RangeOf(Handed(s)) \cup {f} /\ f \in UnderWay
        BY <1>0, <2>1, <2>3, RangeFacts, TakesFacts, UnderWayFacts
    <3>2. f.kind = "request" => Untouched(f.req) /\ f = Frame("request", f.req)
        BY <2>1, <3>1, FrameFacts DEF UnroutedIsNew, Unrouted
    <3>3. f.kind = "request" => f \notin RangeOf(Handed(s))
        BY <3>2 DEF Untouched
    <3>4. Once(Handed(s)')
        BY <1>0, <2>3, <3>3, OnceMoves
    <3>5. ASSUME NEW r \in held[s] \cup quit PROVE Frame("request", r) # f
      <4>1. r \in Requests
          BY <3>5, HeldFacts
      <4>2. Frame("request", r).kind = "request" /\ Frame("request", r).req = r
          BY <4>1, FrameFacts DEF Kinds
      <4> QED
          BY <3>2, <3>5, <4>2 DEF Untouched
    <3> QED
        BY <2>1, <3>1, <3>4, <3>5 DEF HandedOnce
  <2> QED
      BY <2>1, <2>2, <2>3
<1>4. CASE \/ Deliver \/ Stop \/ Abort \/ ClientsLeave
           \/ \E r \in Requests : Submit(r) \/ Cancel(r)
           \/ \E s \in Subsystems : Bridge(s) \/ DispatcherEnds(s)
           \/ \E s \in Subsystems, r \in Requests : SendItem(s, r) \/ SendDone(s, r) \/ Call(s, r)
  <2>1. HandedSame
      BY <1>4, HandedKept
  <2>2. UNCHANGED quit /\ \A s \in Subsystems : held'[s] \subseteq held[s]
      BY <1>0, <1>4 DEF Deliver, Stop, Abort, ClientsLeave, Submit, Cancel, Bridge, BridgeRecv, BridgeSend,
                        BridgeFails, BridgeEnds, EndBridge, DispatcherEnds, SendItem, SendDone, Call,
                        subsystems, history
  <2> QED
      BY <1>2, <2>1, <2>2
<1>5. ASSUME NEW s \in Subsystems, NEW r \in Requests, GiveUp(s, r) PROVE HandedOnce'
  <2>1. HandedSame /\ r \in held[s] /\ held' = [held EXCEPT ![s] = @ \ {r}] /\ quit' = quit \cup {r}
      BY <1>5, HandedKept DEF GiveUp
  <2>2. \A t \in Subsystems : r \notin held'[t] /\ held'[t] \subseteq held[t]
      BY <1>0, <2>1, HeldFacts
  <2>3. \A t \in Subsystems : Frame("request", r) \notin RangeOf(Handed(t))
      BY <2>1, HandedFacts DEF HandedOnce, TypeOK, SubsystemsType
  <2> QED
      BY <2>1, <2>2, <2>3 DEF HandedOnce, HandedSame
<1>6. ASSUME NEW s \in Subsystems, Surface(s) PROVE HandedOnce'
  <2>1. PICK p \in Seq(Frames), q \in Seq(Frames) :
              /\ Handed(s) = p \o q
              /\ \/ /\ q # <<>> /\ Head(q).kind # "request"
                    /\ Handed(s)' = p \o Tail(q) /\ UNCHANGED quit
                 \/ Handed(s)' = Handed(s) /\ UNCHANGED quit
                 \/ Handed(s)' = q /\ quit' = quit \cup RequestsIn(p)
      BY <1>6, SurfaceEffect
  <2>2. held' = held /\ \A t \in Subsystems \ {s} : Handed(t)' = Handed(t)
      BY <1>6, SubsystemEffect DEF Surface
  <2>3. CASE Handed(s)' = q /\ quit' = quit \cup RequestsIn(p)
      BY <2>1, <2>2, <2>3, DroppedOnce
  <2>4. CASE Handed(s)' = Handed(s) /\ UNCHANGED quit
    <3>1. HandedSame
        BY <2>2, <2>4 DEF HandedSame
    <3> QED
        BY <1>2, <2>2, <2>4, <3>1
  <2>5. CASE q # <<>> /\ Handed(s)' = p \o Tail(q) /\ UNCHANGED quit
    <3>1. PICK t \in Seq(Frames) : t = Tail(q) /\ RangeOf(t) \subseteq RangeOf(q) /\ (Once(q) => Once(t))
      <4>1. Tail(q) \in Seq(Frames) /\ RangeOf(q) = RangeOf(Tail(q)) \cup {Head(q)}
          BY <2>5, TailFacts, RangeFacts
      <4>2. Once(q) => Once(Tail(q))
          BY <2>5, OnceMoves
      <4> QED
          BY <4>1, <4>2
    <3>2. Once(p \o q)
        BY <1>0, <2>1
    <3>3. Once(p \o t)
        BY <3>1, <3>2, OnceConcat
    <3>4. RangeOf(p \o t) \subseteq RangeOf(p \o q)
      <4>1. RangeOf(p \o t) = RangeOf(p) \cup RangeOf(t)
          BY RangeFacts
      <4>2. RangeOf(p \o q) = RangeOf(p) \cup RangeOf(q)
          BY RangeFacts
      <4> QED
          BY <3>1, <4>1, <4>2
    <3> QED
        BY <1>0, <1>1, <2>1, <2>2, <2>5, <3>1, <3>3, <3>4
  <2> QED
      BY <2>1, <2>3, <2>4, <2>5
<1>7. ASSUME NEW s \in Subsystems, Leave(s) \/ LoopEnds(s) PROVE HandedOnce'
  <2>1. PICK p \in Seq(Frames), q \in Seq(Frames) :
              Handed(s) = p \o q /\ Handed(s)' = q /\ quit' = quit \cup RequestsIn(p)
      BY <1>7, DropEffect
  <2>2. held' = held /\ \A t \in Subsystems \ {s} : Handed(t)' = Handed(t)
      BY <1>7, SubsystemEffect DEF Leave, LoopEnds, DropEnd
  <2> QED
      BY <2>1, <2>2, DroppedOnce
<1>8. ASSUME NEW s \in Subsystems, Take(s) PROVE HandedOnce'
  <2>1. PICK q \in Seq(Frames) : q = Handed(s) /\ Once(q)
      BY <1>0
  <2>2. PICK f \in Frames, z \in Seq(Frames) : f = Head(q) /\ z = Tail(q) /\ q # <<>>
      BY <1>8, <2>1, TakeEffect, TailFacts
  <2>3. /\ Handed(s)' = z /\ RangeOf(q) = RangeOf(z) \cup {f} /\ Once(z)
        /\ f.kind = "request" => f \notin RangeOf(z)
      BY <1>8, <2>1, <2>2, TakeEffect, RangeFacts, OnceMoves
  <2>4. held' = [held EXCEPT ![s] = IF f.kind = "request" THEN @ \cup {f.req} ELSE @]
      BY <1>8, <2>1, <2>2, TakeEffect
  <2>5. quit' = quit /\ \A t \in Subsystems \ {s} : Handed(t)' = Handed(t)
      BY <1>8, SubsystemEffect DEF Take, history
  <2>6. CASE f.kind # "request"
      BY <1>0, <1>1, <2>1, <2>3, <2>4, <2>5, <2>6
  <2>7. CASE f.kind = "request"
    <3>1. PICK r \in Requests : r = f.req /\ f = Frame("request", r)
        BY <2>7, FrameFacts
    <3>2. \A t \in Subsystems : held'[t] = IF t = s THEN held[s] \cup {r} ELSE held[t]
        BY <1>0, <2>4, <2>7, <3>1
    <3>3. r \notin quit
        BY <2>1, <2>3, <3>1 DEF HandedOnce
    <3>4. \A t \in Subsystems : RangeOf(Handed(t)') \subseteq RangeOf(Handed(t)) /\ Once(Handed(t)')
        BY <1>0, <2>1, <2>3, <2>5
    <3>5. f \notin RangeOf(Handed(s)')
        BY <2>3, <2>7
    <3> QED
        BY <2>5, <3>1, <3>2, <3>3, <3>4, <3>5 DEF HandedOnce
  <2> QED
      BY <2>6, <2>7
<1>9. CASE UNCHANGED vars
  <2>1. HandedSame /\ UNCHANGED <<held, quit>>
      BY <1>9, SameFacts DEF vars, pipes, subsystems, history
  <2> QED
      BY <1>2, <2>1
<1> QED
  BY <1>3, <1>4, <1>5, <1>6, <1>7, <1>8, <1>9 DEF Next, Route, Subsystem

-----------------------------------------------------------------------------
(* A request the router has seen is settled, or will be.                    *)

\* The end of a request is being told.
Telling(r) == \E f \in RangeOf(delivering) : f.req = r /\ IsTerminal(f)

\* What was told stays told, and what is being told will have been.
LEMMA ToldStays ==
    ASSUME TypeOK, [Next]_vars, NEW r \in Requests
    PROVE  /\ Told(r) => Told(r)'
           /\ Deliver /\ Telling(r) => Told(r)'
           /\ UNCHANGED delivering => (Telling(r) => Telling(r)')
<1>1. log \in [Requests -> Seq(Kinds)]
  BY DEF TypeOK, RequestsType
<1>2. UNCHANGED log => (Told(r) => Told(r)')
  BY DEF Told
<1>3. ASSUME Deliver PROVE (Told(r) => Told(r)') /\ (Telling(r) => Told(r)')
  <2>1. PICK f \in Frames : /\ RangeOf(delivering) = {f}
                            /\ log' = [log EXCEPT ![f.req] = Append(@, f.kind)]
      BY <1>3, DeliverFacts
  <2>2. f.req \in Requests /\ f.kind \in Kinds
      BY FrameFacts
  <2>3. CASE f.req # r
      BY <1>1, <2>1, <2>3 DEF Told, Telling
  <2>4. CASE f.req = r
    <3>1. PICK q \in Seq(Kinds) : q = log[r]
        BY <1>1
    <3>2. log'[r] = Append(q, f.kind)
        BY <1>1, <2>1, <2>4, <3>1
    <3>3. /\ Len(q) \in Nat /\ Len(log'[r]) = Len(q) + 1
          /\ \A i \in 1 .. Len(q) : log'[r][i] = q[i]
          /\ log'[r][Len(q) + 1] = f.kind
        BY <2>2, <3>2, AppendFacts
    <3>4. Told(r) => Told(r)'
        BY <3>1, <3>3 DEF Told
    <3>5. f.kind \in Terminals => Told(r)'
      <4>1. Len(q) + 1 \in 1 .. Len(log'[r])
          BY <3>3
      <4> QED
          BY <3>3, <4>1 DEF Told
    <3> QED
        BY <2>1, <3>4, <3>5 DEF Telling, IsTerminal
  <2> QED
      BY <2>3, <2>4
<1>4. UNCHANGED log \/ Deliver
  BY DEF Next, Submit, Cancel, ClientsLeave, Route, RouteRequest, RouteResponse, RouteCancel,
         Stop, Abort, Bridge, BridgeRecv, BridgeSend, BridgeFails, BridgeEnds, EndBridge, Subsystem,
         Surface, DispatcherEnds, Take, Leave, LoopEnds, DropEnd, SendItem, SendDone, GiveUp, Call,
         history, vars
<1> QED
  BY <1>2, <1>3, <1>4 DEF Telling

\* What is on its way to the router stays there until the router takes it,
\* while the router runs or has stopped.
LEMMA UnderWayStays ==
    ASSUME TypeOK, BridgesEnded, RouterEnded, Next, router' # "aborted", NEW f \in UnderWay
    PROVE  f \in UnderWay' \/ Routes(f)
<1>0. /\ \A s \in Subsystems : Way(s) \in Seq(Frames)
      /\ inbound \in Seq(Frames)
  BY WayFacts DEF TypeOK, RouterType
<1>1. ASSUME WaysSame, RangeOf(inbound) \subseteq RangeOf(inbound') PROVE f \in UnderWay'
  BY <1>1, UnderWayFacts DEF WaysSame
<1>2. ASSUME NEW r \in Requests, Submit(r) \/ Cancel(r) PROVE f \in UnderWay'
  BY <1>1, <1>2, ClientEffect
<1>3. CASE RouteRequest \/ RouteResponse \/ RouteCancel
  <2>1. PICK g \in Frames : Takes(g) /\ RangeOf(inbound) = RangeOf(inbound') \cup {g} /\ WaysSame
      BY <1>3, RouterEffect
  <2> QED
      BY <1>3, <2>1, UnderWayFacts DEF WaysSame, Routes
<1>4. CASE Deliver \/ Stop \/ ClientsLeave
  <2>1. inbound' = inbound
      BY <1>4 DEF Deliver, Stop, ClientsLeave, tasks
  <2> QED
      BY <1>1, <1>4, <2>1, WaysKept
<1>5. CASE Abort
  BY <1>5 DEF Abort
<1>6. ASSUME NEW s \in Subsystems, Bridge(s) PROVE f \in UnderWay'
  <2>0. \A t \in Subsystems \ {s} : Way(t)' = Way(t)
      BY <1>6, BridgeEffect
  <2>1. CASE Way(s)' = Way(s) /\ inbound' = inbound
      BY <1>1, <2>0, <2>1 DEF WaysSame
  <2>2. CASE Way(s) # <<>> /\ Way(s)' = Tail(Way(s)) /\ inbound' = Append(inbound, Head(Way(s)))
    <3>1. PICK q \in Seq(Frames) : q = Way(s) /\ q # <<>>
        BY <1>0, <2>2
    <3>2. RangeOf(q) = RangeOf(Tail(q)) \cup {Head(q)} /\ Head(q) \in Frames
        BY <3>1, RangeFacts
    <3>3. RangeOf(inbound') = RangeOf(inbound) \cup {Head(q)}
        BY <1>0, <2>2, <3>1, <3>2, RangeFacts
    <3> QED
        BY <2>0, <2>2, <3>1, <3>2, <3>3, UnderWayFacts
  <2>3. CASE /\ Way(s)' = <<>> /\ inbound' = inbound
             /\ router # "running" \/ Way(s) = <<>>
             /\ s \notin bridge'
    <3>1. s \in bridge
        BY <1>6 DEF Bridge, BridgeRecv, BridgeSend, BridgeFails, BridgeEnds
    <3>2. router # "stopped" /\ router' = router
        BY <1>6, <3>1, BridgeEffect DEF RouterEnded, InboundClosed
    <3>3. router = "running"
        BY <3>2 DEF TypeOK, RouterType
    <3> QED
        BY <1>1, <2>0, <2>3, <3>3 DEF WaysSame
  <2> QED
      BY <1>6, <2>1, <2>2, <2>3, BridgeEffect
<1>7. ASSUME NEW s \in Subsystems, NEW r \in Requests, SendItem(s, r) \/ SendDone(s, r) \/ Call(s, r)
      PROVE  f \in UnderWay'
  <2>1. PICK g \in Frames : /\ Way(s)' = Append(Way(s), g) /\ inbound' = inbound
                            /\ \A t \in Subsystems \ {s} : Way(t)' = Way(t)
      BY <1>7, SendsEffect DEF tasks
  <2>2. RangeOf(Way(s)') = RangeOf(Way(s)) \cup {g}
      BY <1>0, <2>1, RangeFacts
  <2> QED
      BY <2>1, <2>2, UnderWayFacts
<1>8. ASSUME NEW s \in Subsystems,
             \/ Surface(s) \/ DispatcherEnds(s) \/ Take(s) \/ Leave(s) \/ LoopEnds(s)
             \/ \E r \in Requests : GiveUp(s, r)
      PROVE  f \in UnderWay'
  BY <1>1, <1>8, SubsystemEffect DEF tasks
<1> QED
  BY <1>2, <1>3, <1>4, <1>5, <1>6, <1>7, <1>8 DEF Next, Route, Subsystem

\* A request that was just made is on its way.
LEMMA JustMade ==
    ASSUME TypeOK, Next, NEW r \in made' \ made
    PROVE  Unrouted(r)' /\ r \in Requests
<1>1. CASE Submit(r)
  <2>1. r \in Requests
      BY <1>1 DEF Submit
  <2>2. RangeOf(inbound') = RangeOf(inbound) \cup {Frame("request", r)}
      BY <1>1, <2>1, ClientEffect DEF Cancel
  <2> QED
      BY <2>1, <2>2, UnderWayFacts DEF Unrouted
<1>2. ASSUME NEW s \in Subsystems, Call(s, r) PROVE Unrouted(r)' /\ r \in Requests
  <2>1. r \in Requests /\ r \notin made
      BY <1>2, CallsAreRequests DEF Call
  <2>2. Way(s)' = Append(Way(s), Frame("request", r)) /\ Frame("request", r) \in Frames
    <3>1. Send(s, Frame("request", r)) /\ Frame("request", r) \in Frames /\ carrying' = carrying
        BY <1>2, <2>1, FrameFacts DEF Call, Kinds, tasks
    <3>2. toKernel'[s] = Append(toKernel[s], Frame("request", r))
        BY <3>1, SendFacts
    <3>3. carrying[s] \in Seq(Frames) /\ toKernel[s] \in Seq(Frames)
        BY WayFacts
    <3> QED
      <4>1. carrying[s] \o Append(toKernel[s], Frame("request", r))
               = Append(carrying[s] \o toKernel[s], Frame("request", r))
          BY <3>1, <3>3, AppendBehind
      <4> QED
          BY <3>1, <3>2, <4>1 DEF Way
  <2>3. RangeOf(Way(s)') = RangeOf(Way(s)) \cup {Frame("request", r)}
      BY <2>2, WayFacts, RangeFacts
  <2> QED
      BY <2>1, <2>3, UnderWayFacts DEF Unrouted
<1> QED
  BY <1>1, <1>2, MadeGrows

\* The router takes a request: it is in flight, or its end is being told.
LEMMA RequestRouted ==
    ASSUME TypeOK, NEW f \in Frames, Routes(f), f.kind = "request"
    PROVE  \/ /\ f.req \in DOMAIN inflight'
              /\ f \in RangeOf(Handed(Callee[f.req])')
           \/ Telling(f.req)'
<1>1. RouteRequest
  BY TakesFacts DEF Routes, RouteResponse, RouteCancel, Takes
<1>2. PICK s \in Subsystems :
              /\ Takes(f) /\ s = Callee[f.req] /\ TrySend(s, f)
              /\ inflight' = IF CanSend(s) THEN Remember(inflight, f.req, s) ELSE inflight
              /\ delivering' = IF CanSend(s) THEN <<>> ELSE <<Frame("error", f.req)>>
              /\ default' = default
  <2>1. PICK g \in Frames, s \in Subsystems :
              /\ Takes(g) /\ s = Callee[g.req] /\ TrySend(s, g)
              /\ inflight' = IF CanSend(s) THEN Remember(inflight, g.req, s) ELSE inflight
              /\ delivering' = IF CanSend(s) THEN <<>> ELSE <<Frame("error", g.req)>>
              /\ UNCHANGED subsystems
      BY <1>1, RouteRequestFacts
  <2>2. g = f
      BY <2>1 DEF Routes, Takes
  <2> QED
      BY <2>1, <2>2 DEF subsystems
<1>3. CASE CanSend(s)
  <2>1. f.req \in DOMAIN inflight'
      BY <1>2, <1>3 DEF Remember
  <2>2. toSub'[s] = Append(toSub[s], f)
      BY <1>2, <1>3, TrySendFacts
  <2>3. f \in RangeOf(toSub'[s]) /\ toSub'[s] \in Seq(Frames)
      BY <2>2, WayFacts, RangeFacts, AppendFacts
  <2>4. f \in RangeOf(Handed(s)')
    <3>1. CASE s \in Dispatched
      <4>1. default[s] \in Seq(Frames)
          BY <3>1, WayFacts
      <4> QED
          BY <1>2, <2>3, <3>1, <4>1, RangeFacts DEF Handed
    <3>2. CASE s \notin Dispatched
      <4>1. <<>> \in Seq(Frames)
          OBVIOUS
      <4> QED
          BY <2>3, <3>2, <4>1, RangeFacts DEF Handed
    <3> QED
        BY <3>1, <3>2
  <2> QED
      BY <1>2, <2>1, <2>4
<1>4. CASE ~CanSend(s)
  <2>1. Frame("error", f.req).req = f.req /\ Frame("error", f.req).kind = "error"
      BY FrameFacts DEF Kinds
  <2>2. RangeOf(delivering') = {Frame("error", f.req)}
      BY <1>2, <1>4, RangeOfFew
  <2> QED
      BY <2>1, <2>2 DEF Telling, IsTerminal, Terminals
<1> QED
  BY <1>3, <1>4

\* The router takes the end of a request in flight: it is being told.
LEMMA EndRouted ==
    ASSUME TypeOK, NEW f \in Frames, Routes(f), f.kind \in {"item", "done", "cancel"}
    PROVE  /\ f.req \in DOMAIN inflight /\ IsTerminal(f) => Telling(f.req)'
           /\ \A r \in DOMAIN inflight : r \in DOMAIN inflight' \/ Telling(r)'
<1>1. f = Head(inbound)
  BY DEF Routes, Takes
<1>2. ~RouteRequest
  <2> SUFFICES ASSUME RouteRequest PROVE FALSE
      OBVIOUS
  <2>1. PICK g \in Frames : Takes(g) /\ g.kind = "request"
      BY RouteRequestFacts
  <2> QED
      BY <1>1, <2>1 DEF Takes
<1>3. CASE RouteResponse
  <2>1. /\ delivering' = IF f.req \in DOMAIN inflight THEN <<f>> ELSE <<>>
        /\ inflight' = inflight
      BY <1>1, <1>3 DEF RouteResponse, Takes
  <2> QED
      BY <2>1, RangeOfFew DEF Telling
<1>4. CASE RouteCancel
  <2>1. PICK g \in Frames :
              /\ Takes(g) /\ g.kind = "cancel"
              /\ \/ /\ g.req \in DOMAIN inflight
                    /\ inflight' = Forget(inflight, g.req)
                    /\ delivering' = <<g>>
                 \/ /\ g.req \notin DOMAIN inflight
                    /\ UNCHANGED <<toSub, inflight, delivering>>
      BY <1>4, RouteCancelFacts
  <2>2. g = f
      BY <1>1, <2>1 DEF Takes
  <2>3. ASSUME f.req \in DOMAIN inflight PROVE Telling(f.req)' /\ inflight' = Forget(inflight, f.req)
      BY <2>1, <2>2, <2>3, RangeOfFew DEF Telling, IsTerminal, Terminals
  <2>4. ASSUME NEW r \in DOMAIN inflight PROVE r \in DOMAIN inflight' \/ Telling(r)'
    <3>1. CASE f.req \in DOMAIN inflight
        BY <2>3, <2>4, <3>1, InflightFacts
    <3>2. CASE f.req \notin DOMAIN inflight
        BY <2>1, <2>2, <2>4, <3>2
    <3> QED
        BY <3>1, <3>2
  <2> QED
      BY <2>3, <2>4
<1> QED
  BY <1>2, <1>3, <1>4 DEF Routes

\* The router forgets a request in the step that tells its end.
LEMMA SettledStep ==
    TypeOK /\ FramesMade /\ BridgesEnded /\ RouterEnded /\ Settled /\ [Next]_vars => Settled'
<1> SUFFICES ASSUME TypeOK, FramesMade, BridgesEnded, RouterEnded, Settled, [Next]_vars,
                    router' = "running", NEW r \in made'
             PROVE  r \in DOMAIN inflight' \/ Unrouted(r)' \/ Told(r)' \/ Telling(r)'
  BY DEF Settled, Telling
<1>1. CASE UNCHANGED vars
  <2>1. UNCHANGED <<inbound, carrying, toKernel, delivering, inflight, made, log, router>>
      BY <1>1 DEF vars, tasks, pipes, calls, history
  <2>2. UnderWay' = UnderWay
      BY <2>1, SameFacts DEF WaysSame, UnderWay
  <2> QED
      BY <2>1, <2>2 DEF Settled, Unrouted, Told, Telling
<1>2. CASE Next /\ r \notin made
  BY <1>2, JustMade
<1>3. CASE Next /\ r \in made
  <2>0. router = "running" /\ r \in Requests
      BY <1>3 DEF Next, Submit, Cancel, ClientsLeave, Route, RouteRequest, RouteResponse, RouteCancel,
                  Deliver, Takes, HasInboundRoom, Stop, Abort, Bridge, BridgeRecv, BridgeSend, BridgeFails,
                  BridgeEnds, EndBridge, Subsystem, Surface, DispatcherEnds, Take, Leave, LoopEnds,
                  DropEnd, SendItem, SendDone, GiveUp, Call, tasks, TypeOK, RequestsType
  <2>1. CASE Told(r)
      BY <2>0, <2>1, ToldStays
  <2>2. CASE Unrouted(r)
    <3>1. PICK f \in Frames : f = Frame("request", r) /\ f.kind = "request" /\ f.req = r
        BY <2>0, FrameFacts DEF Kinds
    <3>2. f \in UnderWay' \/ Routes(f)
        BY <1>3, <2>2, <3>1, UnderWayStays DEF Unrouted
    <3> QED
        BY <3>1, <3>2, RequestRouted DEF Unrouted
  <2>3. CASE r \in DOMAIN inflight
    <3>1. CASE RouteRequest
      <4>1. PICK f \in Frames, s \in Subsystems :
                  inflight' = IF CanSend(s) THEN Remember(inflight, f.req, s) ELSE inflight
          BY <3>1, RouteRequestFacts
      <4> QED
          BY <2>3, <4>1 DEF Remember
    <3>2. CASE RouteResponse \/ RouteCancel
      <4>1. PICK f \in Frames : Routes(f) /\ f.kind \in {"item", "done", "cancel"}
          BY <3>2, RouteCancelFacts DEF RouteResponse, Routes
      <4> QED
          BY <2>3, <4>1, EndRouted
    <3>3. CASE Deliver
      <4>1. PICK f \in Frames : /\ RangeOf(delivering) = {f}
                                /\ inflight' = IF IsTerminal(f) THEN Forget(inflight, f.req) ELSE inflight
          BY <3>3, DeliverFacts
      <4>2. CASE f.req = r /\ IsTerminal(f)
        <5>1. Telling(r)
            BY <4>1, <4>2 DEF Telling
        <5> QED
            BY <2>0, <3>3, <5>1, ToldStays
      <4>3. CASE ~(f.req = r /\ IsTerminal(f))
          BY <2>3, <4>1, <4>3 DEF Forget
      <4> QED
          BY <4>2, <4>3
    <3>4. CASE inflight' = inflight
        BY <2>3, <3>4
    <3>5. CASE Stop \/ Abort
        BY <3>5 DEF Stop, Abort
    <3>6. CASE ClientsLeave \/ \E x \in Requests : Submit(x) \/ Cancel(x)
        BY <3>4, <3>6 DEF ClientsLeave, Submit, Cancel, tasks
    <3>7. ASSUME NEW s \in Subsystems, Bridge(s) \/ Subsystem(s) PROVE inflight' = inflight
        BY <3>7, BridgeEffect, SubsystemEffect, SendsEffect DEF Subsystem, tasks
    <3> QED
        BY <1>3, <3>1, <3>2, <3>3, <3>4, <3>5, <3>6, <3>7 DEF Next, Route
  <2>4. CASE Telling(r)
    <3>1. delivering # <<>>
        BY <2>4, RangeOfFew DEF Telling
    <3>2. UNCHANGED delivering \/ Deliver
        BY <1>3, <3>1, BridgeEffect, SubsystemEffect, SendsEffect
        DEF Next, Submit, Cancel, ClientsLeave, Route, RouteRequest, RouteResponse, RouteCancel, Takes,
            Stop, Abort, Subsystem, tasks
    <3> QED
        BY <2>0, <2>4, <3>2, ToldStays
  <2> QED
      BY <1>3, <2>0, <2>1, <2>2, <2>3, <2>4 DEF Settled, Telling
<1> QED
  BY <1>1, <1>2, <1>3

-----------------------------------------------------------------------------
(* No request is forgotten.                                                 *)

\* The end of the request is being told, or comes from its callee.
EndComes(r) ==
    \/ Telling(r)
    \/ \E f \in RangeOf(inbound) \cup RangeOf(Way(Callee[r])) : f.req = r /\ IsTerminal(f)

\* Where a request waits, and where its end is, channel by channel.
LEMMA PlacesFacts ==
    ASSUME TypeOK, NEW r \in Requests
    PROVE  /\ Callee[r] \in Subsystems
           /\ Waiting(r) <=> \/ r \in held[Callee[r]]
                             \/ Frame("request", r) \in RangeOf(Handed(Callee[r]))
                             \/ Unrouted(r)
           /\ Ending(r) <=> EndComes(r)
<1>1. PICK c \in Subsystems : c = Callee[r]
  BY CalleesAreSubsystems
<1>2. /\ toSub[c] \in Seq(Frames) /\ (c \in Dispatched => default[c] \in Seq(Frames))
      /\ inbound \in Seq(Frames) /\ delivering \in Seq(Frames) /\ <<>> \in Seq(Frames)
      /\ \A s \in Subsystems : Way(s) \in Seq(Frames) /\ carrying[s] \in Seq(Frames)
                               /\ toKernel[s] \in Seq(Frames)
  BY WayFacts, EmptyFacts DEF TypeOK, RouterType
<1>3. TowardsHandler(c) \in Seq(Frames) /\ RangeOf(TowardsHandler(c)) = RangeOf(Handed(c))
  <2>1. PICK p \in Seq(Frames), q \in Seq(Frames) :
              /\ q = toSub[c] /\ p = IF c \in Dispatched THEN default[c] ELSE <<>>
              /\ TowardsHandler(c) = q \o p /\ Handed(c) = p \o q
      BY <1>2 DEF TowardsHandler, Handed
  <2>2. /\ RangeOf(q \o p) = RangeOf(q) \cup RangeOf(p) /\ q \o p \in Seq(Frames)
        /\ RangeOf(p \o q) = RangeOf(p) \cup RangeOf(q)
      BY RangeFacts, ConcatFacts
  <2> QED
      BY <2>1, <2>2
<1>4. r \in RequestsIn(TowardsHandler(c)) <=> Frame("request", r) \in RangeOf(Handed(c))
  BY <1>3, RequestsInFacts
<1>5. r \in RequestsIn(inbound) <=> Frame("request", r) \in RangeOf(inbound)
  BY <1>2, RequestsInFacts
<1>6. \A s \in Subsystems :
         r \in RequestsIn(carrying[s] \o toKernel[s]) <=> Frame("request", r) \in RangeOf(Way(s))
  BY <1>2, RequestsInFacts DEF Way
<1>7. Waiting(r) <=> \/ r \in held[c]
                     \/ Frame("request", r) \in RangeOf(Handed(c))
                     \/ Unrouted(r)
  BY <1>1, <1>4, <1>5, <1>6, UnderWayFacts DEF Waiting, Unrouted
<1>8. RangeOf(delivering \o TowardsRouter(c)) = RangeOf(delivering) \cup RangeOf(inbound) \cup RangeOf(Way(c))
  <2>1. PICK i \in Seq(Frames), a \in Seq(Frames), b \in Seq(Frames) :
              i = inbound /\ a = carrying[c] /\ b = toKernel[c]
      BY <1>2
  <2>2. PICK w \in Seq(Frames) : w = a \o b /\ w = Way(c)
      BY <2>1, ConcatFacts DEF Way
  <2>3. TowardsRouter(c) = i \o w
    <3>1. TowardsRouter(c) = (i \o a) \o b
        BY <2>1 DEF TowardsRouter
    <3>2. (i \o a) \o b = i \o (a \o b)
        BY ConcatAssoc
    <3> QED
        BY <2>2, <3>1, <3>2
  <2>4. PICK d \in Seq(Frames), z \in Seq(Frames) : d = delivering /\ z = i \o w
      BY <1>2, ConcatFacts
  <2>5. RangeOf(d \o z) = RangeOf(d) \cup RangeOf(z) /\ RangeOf(i \o w) = RangeOf(i) \cup RangeOf(w)
    <3>1. RangeOf(i \o w) = RangeOf(i) \cup RangeOf(w)
        BY RangeFacts
    <3>2. RangeOf(d \o z) = RangeOf(d) \cup RangeOf(z)
        BY RangeFacts
    <3> QED
        BY <3>1, <3>2
  <2> QED
      BY <2>1, <2>2, <2>3, <2>4, <2>5
<1>9. Ending(r) <=> EndComes(r)
  BY <1>1, <1>8 DEF Ending, EndComes, Telling
<1> QED
  BY <1>1, <1>7, <1>9

\* What has reached its handler stays in front of it, is worked on, or is gone.
LEMMA HandedStays ==
    ASSUME TypeOK, FramesMade, BridgesEnded, Next, NEW r \in Requests, NEW s \in Subsystems, s = Callee[r],
           Frame("request", r) \in RangeOf(Handed(s))
    PROVE  Frame("request", r) \in RangeOf(Handed(s)') \/ r \in held'[s] \/ r \in quit'
<1>0. PICK f \in Frames : f = Frame("request", r) /\ f.kind = "request" /\ f.req = r
  BY FrameFacts DEF Kinds
<1>1. CASE Handed(s)' = Handed(s)
  BY <1>1
<1>2. CASE HandedSame
  BY <1>1, <1>2 DEF HandedSame
<1>3. CASE RouteRequest \/ RouteResponse \/ RouteCancel
  <2>1. PICK g \in Frames : Handed(s)' = Handed(s) \/ Handed(s)' = Append(Handed(s), g)
      BY <1>3, RouterEffect
  <2>2. RangeOf(Append(Handed(s), g)) = RangeOf(Handed(s)) \cup {g}
      BY WayFacts, RangeFacts
  <2> QED
      BY <2>1, <2>2
<1>4. ASSUME NEW t \in Subsystems, Subsystem(t), t # s PROVE Handed(s)' = Handed(s)
  BY <1>4, SubsystemEffect, SendsEffect DEF Subsystem, HandedSame
<1>5. ASSUME NEW p \in Seq(Frames), NEW q \in Seq(Frames), Handed(s) = p \o q,
             Handed(s)' = q, quit' = quit \cup RequestsIn(p)
      PROVE  f \in RangeOf(Handed(s)') \/ r \in quit'
  <2>1. f \in RangeOf(p) \/ f \in RangeOf(q)
      BY <1>0, <1>5, RangeFacts
  <2>2. f \in RangeOf(p) => r \in RequestsIn(p)
      BY <1>0, RequestsInFacts
  <2> QED
      BY <1>5, <2>1, <2>2
<1>6. CASE Surface(s)
  <2>1. PICK p \in Seq(Frames), q \in Seq(Frames) :
              /\ Handed(s) = p \o q
              /\ \/ /\ q # <<>> /\ Head(q).kind # "request"
                    /\ Handed(s)' = p \o Tail(q) /\ UNCHANGED quit
                 \/ Handed(s)' = Handed(s) /\ UNCHANGED quit
                 \/ Handed(s)' = q /\ quit' = quit \cup RequestsIn(p)
      BY <1>6, SurfaceEffect
  <2>2. CASE q # <<>> /\ Head(q).kind # "request" /\ Handed(s)' = p \o Tail(q)
    <3>1. PICK t \in Seq(Frames) : t = Tail(q) /\ RangeOf(q) = RangeOf(t) \cup {Head(q)}
        BY <2>2, TailFacts, RangeFacts
    <3>2. RangeOf(p \o q) = RangeOf(p) \cup RangeOf(q)
        BY RangeFacts
    <3>3. RangeOf(p \o t) = RangeOf(p) \cup RangeOf(t)
        BY RangeFacts
    <3>4. f # Head(q)
        BY <1>0, <2>2
    <3> QED
        BY <1>0, <2>1, <2>2, <3>1, <3>2, <3>3, <3>4
  <2> QED
      BY <1>0, <1>1, <1>5, <2>1, <2>2
<1>7. CASE Leave(s) \/ LoopEnds(s)
  BY <1>0, <1>5, <1>7, DropEffect
<1>8. CASE Take(s)
  <2>1. PICK q \in Seq(Frames) : q = Handed(s) /\ q # <<>> /\ Handed(s)' = Tail(q)
      BY <1>8, TakeEffect, WayFacts
  <2>2. RangeOf(q) = RangeOf(Tail(q)) \cup {Head(q)}
      BY <2>1, RangeFacts
  <2>3. f = Head(q) => r \in held'[s]
      BY <1>0, <1>8, <2>1, TakeEffect, HeldFacts
  <2> QED
      BY <1>0, <2>1, <2>2, <2>3
<1>9. ASSUME NEW x \in Requests,
             \/ DispatcherEnds(s) \/ SendItem(s, x) \/ SendDone(s, x) \/ Call(s, x) \/ GiveUp(s, x)
      PROVE HandedSame
  BY <1>9, HandedKept
<1>10. CASE Subsystem(s)
  BY <1>2, <1>6, <1>7, <1>8, <1>9, <1>10 DEF Subsystem
<1>11. ASSUME NEW t \in Subsystems, Bridge(t) PROVE HandedSame
  BY <1>11, BridgeEffect
<1>12. CASE Deliver \/ Stop \/ Abort \/ ClientsLeave \/ \E x \in Requests : Submit(x) \/ Cancel(x)
  BY <1>2, <1>12, HandedKept
<1> QED
  BY <1>1, <1>2, <1>3, <1>4, <1>10, <1>11, <1>12 DEF Next, Route

\* What is gone stays gone.
LEMMA QuitStays == Next => quit \subseteq quit'
BY DEF Next, Submit, Cancel, ClientsLeave, Route, RouteRequest, RouteResponse, RouteCancel, Deliver,
       Stop, Abort, Bridge, BridgeRecv, BridgeSend, BridgeFails, BridgeEnds, EndBridge, Subsystem,
       Surface, DispatcherEnds, Take, Leave, LoopEnds, DropEnd, SendItem, SendDone, GiveUp, Call,
       history

\* A handler works on a request until it sends its Done or gives it up.
LEMMA HeldStays ==
    ASSUME TypeOK, BridgesEnded, Next, NEW s \in Subsystems, NEW r \in held[s]
    PROVE  \/ r \in held'[s] \/ r \in quit'
           \/ SendDone(s, r) /\ Frame("done", r) \in RangeOf(Way(s)') /\ r \in Requests
<1>0. held \in [Subsystems -> SUBSET made] /\ r \in Requests
  BY HeldFacts
<1>1. ASSUME NEW t \in Subsystems, NEW x \in Requests, SendDone(t, x), r \notin held'[s]
      PROVE  SendDone(s, r) /\ Frame("done", r) \in RangeOf(Way(s)')
  <2>1. t = s /\ x = r
      BY <1>0, <1>1 DEF SendDone
  <2>2. Way(s)' = Append(Way(s), Frame("done", r)) /\ Frame("done", r) \in Frames
    <3>1. Send(s, Frame("done", r)) /\ Frame("done", r) \in Frames /\ carrying' = carrying
        BY <1>1, <2>1, FrameFacts DEF SendDone, Kinds, tasks
    <3>2. toKernel'[s] = Append(toKernel[s], Frame("done", r))
        BY <3>1, SendFacts
    <3>3. carrying[s] \in Seq(Frames) /\ toKernel[s] \in Seq(Frames)
        BY WayFacts
    <3>4. carrying[s] \o Append(toKernel[s], Frame("done", r))
               = Append(carrying[s] \o toKernel[s], Frame("done", r))
        BY <3>1, <3>3, AppendBehind
    <3> QED
        BY <3>1, <3>2, <3>4 DEF Way
  <2> QED
      BY <1>1, <2>1, <2>2, WayFacts, RangeFacts
<1>2. ASSUME NEW t \in Subsystems, NEW x \in Requests, GiveUp(t, x) PROVE r \in held'[s] \/ r \in quit'
  BY <1>0, <1>2 DEF GiveUp
<1>3. ASSUME NEW t \in Subsystems, Take(t) PROVE r \in held'[s]
  BY <1>0, <1>3, TakeEffect
<1>4. CASE held' = held
  BY <1>4
<1>5. CASE Route \/ Abort \/ ClientsLeave \/ \E x \in Requests : Submit(x) \/ Cancel(x)
  BY <1>4, <1>5 DEF Route, RouteRequest, RouteResponse, RouteCancel, Deliver, Stop, Abort, ClientsLeave,
                    Submit, Cancel, subsystems
<1>6. ASSUME NEW t \in Subsystems, NEW x \in Requests,
             \/ Bridge(t) \/ Surface(t) \/ DispatcherEnds(t) \/ Leave(t) \/ LoopEnds(t)
             \/ SendItem(t, x) \/ Call(t, x)
      PROVE  held' = held
  <2>1. ASSUME Bridge(t) PROVE held' = held
      BY <2>1, BridgeEffect DEF subsystems
  <2> QED
      BY <1>6, <2>1 DEF Surface, DispatcherEnds, Leave, LoopEnds, DropEnd, SendItem, Call, subsystems
<1> QED
  BY <1>0, <1>1, <1>2, <1>3, <1>4, <1>5, <1>6 DEF Next, Subsystem

\* The end of a request on its way comes nearer, is told, or was told before.
LEMMA EndStays ==
    ASSUME TypeOK, FramesMade, BridgesEnded, RouterEnded, UnroutedIsNew, Settled, Next,
           router' # "aborted", NEW r \in made, EndComes(r)
    PROVE  EndComes(r)' \/ Told(r)' \/ Unrouted(r)
<1>0. r \in Requests /\ Callee[r] \in Subsystems /\ r \in made'
  BY CalleesAreSubsystems, MadeGrows DEF TypeOK, RequestsType
<1>1. CASE Telling(r)
  <2>1. delivering # <<>>
      BY <1>1, RangeOfFew DEF Telling
  <2>2. UNCHANGED delivering \/ Deliver
      BY <2>1, BridgeEffect, SubsystemEffect, SendsEffect
      DEF Next, Submit, Cancel, ClientsLeave, Route, RouteRequest, RouteResponse, RouteCancel, Takes,
          Stop, Abort, Subsystem, tasks
  <2> QED
      BY <1>0, <1>1, <2>2, ToldStays DEF EndComes
<1>2. CASE ~Telling(r)
  <2>1. PICK f \in RangeOf(inbound) \cup RangeOf(Way(Callee[r])) : f.req = r /\ IsTerminal(f)
      BY <1>2 DEF EndComes
  <2>2. f \in UnderWay /\ f \in Frames
      BY <1>0, <2>1, WayFacts, UnderWayFacts
  <2>3. ASSUME f \in UnderWay' PROVE EndComes(r)'
    <3>1. CASE f \in RangeOf(inbound')
        BY <2>1, <3>1 DEF EndComes
    <3>2. ASSUME NEW s \in Subsystems, f \in RangeOf(Way(s)') PROVE s = Callee[r]
        BY <2>1, <3>2, FramesMadeStep DEF FramesMade, IsTerminal, Terminals
    <3> QED
        BY <2>1, <2>3, <3>1, <3>2, UnderWayFacts DEF EndComes
  <2>4. ASSUME Routes(f) PROVE Telling(r)' \/ Told(r)' \/ Unrouted(r)
    <3>1. router = "running" /\ delivering = <<>>
        BY <2>4 DEF Routes, Takes
    <3>2. f.kind \in {"item", "done", "cancel"}
      <4>1. f.kind \in {"request", "item", "done", "cancel"}
        <5>1. f = Head(inbound)
            BY <2>4 DEF Routes, Takes
        <5> QED
            BY <2>4, <5>1, RouteRequestFacts, RouteCancelFacts DEF Routes, RouteResponse, Takes
      <4> QED
          BY <2>1, <4>1 DEF IsTerminal, Terminals
    <3>3. CASE r \in DOMAIN inflight
        BY <2>1, <2>2, <2>4, <3>2, <3>3, EndRouted
    <3>4. CASE r \notin DOMAIN inflight
      <4>1. Unrouted(r) \/ Told(r)
          BY <1>2, <3>1, <3>4 DEF Settled, Telling
      <4> QED
          BY <1>0, <4>1, ToldStays
    <3> QED
        BY <3>3, <3>4
  <2> QED
      BY <2>2, <2>3, <2>4, UnderWayStays DEF EndComes
<1> QED
  BY <1>1, <1>2

\* What NoRequestForgotten says of a request, channel by channel.
Remembered(r) ==
    \/ r \in held[Callee[r]]
    \/ Frame("request", r) \in RangeOf(Handed(Callee[r]))
    \/ Unrouted(r)
    \/ EndComes(r)
    \/ Told(r)
    \/ r \in quit

NoneForgotten == router # "aborted" => \A r \in made : Remembered(r)

\* That is what NoRequestForgotten says.
LEMMA NoneForgottenMeans == TypeOK /\ NoneForgotten => NoRequestForgotten
<1>1. TypeOK => made \subseteq Requests
  BY DEF TypeOK, RequestsType
<1> QED
  BY <1>1, PlacesFacts DEF NoneForgotten, NoRequestForgotten, Remembered

\* A request that was made is remembered in each step, wherever it was.
LEMMA RememberedStep ==
    ASSUME TypeOK, FramesMade, BridgesEnded, RouterEnded, UnroutedIsNew, Settled, Next,
           router' # "aborted", NEW r \in made, Remembered(r)
    PROVE  Remembered(r)'
<1>0. PICK s \in Subsystems : r \in Requests /\ s = Callee[r]
  BY CalleesAreSubsystems DEF TypeOK, RequestsType
<1>1. CASE r \in held[s]
  <2>1. IsTerminal(Frame("done", r)) /\ Frame("done", r).req = r
      BY <1>0, FrameFacts DEF IsTerminal, Terminals, Kinds
  <2> QED
      BY <1>0, <1>1, <2>1, HeldStays DEF Remembered, EndComes
<1>2. CASE Frame("request", r) \in RangeOf(Handed(s))
  BY <1>0, <1>2, HandedStays DEF Remembered
<1>3. CASE Unrouted(r)
  <2>1. PICK f \in Frames : f = Frame("request", r) /\ f.kind = "request" /\ f.req = r
      BY <1>0, FrameFacts DEF Kinds
  <2>2. f \in UnderWay' \/ Routes(f)
      BY <1>3, <2>1, UnderWayStays DEF Unrouted
  <2>3. Routes(f) => f \in RangeOf(Handed(Callee[r])') \/ Telling(r)'
      BY <2>1, RequestRouted
  <2> QED
      BY <2>1, <2>2, <2>3 DEF Unrouted, Remembered, EndComes
<1>4. CASE EndComes(r) /\ ~Unrouted(r)
  BY <1>4, EndStays DEF Remembered
<1>5. CASE Told(r)
  BY <1>0, <1>5, ToldStays DEF Remembered
<1>6. CASE r \in quit
  BY <1>6, QuitStays DEF Remembered
<1> QED
  BY <1>0, <1>1, <1>2, <1>3, <1>4, <1>5, <1>6 DEF Remembered

\* The task of the router ends once.
LEMMA RouterEnds == Next => router' = router \/ router = "running"
BY BridgeEffect
DEF Next, Submit, Cancel, ClientsLeave, Route, RouteRequest, RouteResponse, RouteCancel, Deliver,
    Stop, Abort, Bridge, BridgeRecv, BridgeSend, BridgeFails, BridgeEnds, EndBridge, Subsystem,
    Surface, DispatcherEnds, Take, Leave, LoopEnds, DropEnd, SendItem, SendDone, GiveUp, Call,
    tasks

\* While the router was not aborted, nothing is forgotten.
LEMMA NoneForgottenStep ==
    /\ TypeOK /\ FramesMade /\ BridgesEnded /\ RouterEnded /\ UnroutedIsNew /\ Settled /\ NoneForgotten
    /\ [Next]_vars
    => NoneForgotten'
<1> SUFFICES ASSUME TypeOK, FramesMade, BridgesEnded, RouterEnded, UnroutedIsNew, Settled, NoneForgotten,
                    [Next]_vars, router' # "aborted", NEW r \in made'
             PROVE  Remembered(r)'
  BY DEF NoneForgotten
<1>1. CASE UNCHANGED vars
  <2>1. UNCHANGED <<inbound, carrying, toKernel, toSub, default, delivering, inflight, made, log,
                    held, quit, router>>
      BY <1>1 DEF vars, tasks, pipes, subsystems, calls, history
  <2>2. PICK s \in Subsystems : s = Callee[r]
      BY <2>1, CalleesAreSubsystems DEF TypeOK, RequestsType
  <2>3. UnderWay' = UnderWay /\ Handed(s)' = Handed(s) /\ Way(s)' = Way(s)
      BY <2>1, SameFacts DEF WaysSame, HandedSame, UnderWay
  <2> QED
      BY <2>1, <2>2, <2>3 DEF NoneForgotten, Remembered, Unrouted, EndComes, Told, Telling
<1>2. CASE Next /\ r \in made
  <2>1. router # "aborted"
      BY <1>2, RouterEnds
  <2> QED
      BY <1>2, <2>1, RememberedStep DEF NoneForgotten
<1>3. CASE Next /\ r \notin made
  BY <1>3, JustMade DEF Remembered
<1> QED
  BY <1>1, <1>2, <1>3

-----------------------------------------------------------------------------
(* When the loop ends, every request has its end.                           *)

\* How a request is settled.
SettledFor(r) ==
    \/ Told(r)
    \/ r \in quit
    \/ Callee[r] \notin running /\ r \in RequestsIn(toSub[Callee[r]])

\* The loop ends: nothing is on its way, and no handler is left.
LEMMA StopSettles ==
    ASSUME TypeOK, BridgesEnded, NoneForgotten, Stop, NEW r \in made
    PROVE  SettledFor(r)
<1>1. PICK s \in Subsystems : s = Callee[r] /\ r \in Requests
  BY CalleesAreSubsystems DEF TypeOK, RequestsType
<1>2. /\ router = "running" /\ inbound = <<>> /\ delivering = <<>> /\ bridge = {}
      /\ RangeOf(<<>>) = {} /\ <<>> \o <<>> = <<>>
  BY RangeOfFew DEF Stop, InboundClosed
<1>3. \A t \in Subsystems : Way(t) = <<>> /\ t \notin running /\ held[t] = {}
  BY <1>2 DEF BridgesEnded, Sending, Way
<1>4. ~Unrouted(r) /\ ~EndComes(r)
  BY <1>1, <1>2, <1>3, UnderWayFacts DEF Unrouted, EndComes, Telling
<1>5. RangeOf(Handed(s)) = RangeOf(toSub[s])
  <2>1. s \in Dispatched => default[s] = <<>>
      BY <1>3 DEF BridgesEnded
  <2> QED
      BY <1>2, <2>1, WayFacts
<1>6. Frame("request", r) \in RangeOf(toSub[s]) => r \in RequestsIn(toSub[s])
  BY <1>1, WayFacts, RequestsInFacts
<1>7. r \notin held[s] /\ s \notin running
  BY <1>3
<1> QED
  BY <1>1, <1>2, <1>4, <1>5, <1>6, <1>7 DEF NoneForgotten, Remembered, SettledFor

\* What is settled when the loop ends stays settled.
LEMMA StopsSettledStep ==
    /\ TypeOK /\ FramesMade /\ BridgesEnded /\ RouterEnded /\ NoneForgotten /\ StopsSettled
    /\ [Next]_vars
    => StopsSettled'
<1> SUFFICES ASSUME TypeOK, FramesMade, BridgesEnded, RouterEnded, NoneForgotten, StopsSettled,
                    [Next]_vars, router' = "stopped", NEW r \in made'
             PROVE  SettledFor(r)'
  BY DEF StopsSettled, SettledFor
<1>1. CASE UNCHANGED vars
  <2>1. UNCHANGED <<toSub, made, log, quit, running, router>>
      BY <1>1 DEF vars, tasks, pipes, subsystems, calls, history
  <2> QED
      BY <2>1 DEF StopsSettled, SettledFor, Told
<1>2. CASE Stop
  <2>1. UNCHANGED <<toSub, made, log, quit, running>>
      BY <1>2 DEF Stop, pipes, subsystems, calls, history
  <2> QED
      BY <1>2, <2>1, StopSettles DEF SettledFor, Told
<1>3. CASE Next /\ router = "stopped"
  <2>1. bridge = {}
      BY <1>3 DEF RouterEnded, InboundClosed
  <2>2. r \in made
    <3>1. ~Submit(r) /\ \A t \in Subsystems : ~Call(t, r)
        BY <1>3, <2>1 DEF Submit, HasInboundRoom, Call, Send, HasReplyRoom
    <3> QED
        BY <1>3, <3>1, MadeGrows
  <2>3. PICK s \in Subsystems : s = Callee[r] /\ r \in Requests
      BY <2>2, CalleesAreSubsystems DEF TypeOK, RequestsType
  <2>4. Told(r) \/ r \in quit => SettledFor(r)'
      BY <1>3, <2>3, ToldStays, QuitStays DEF SettledFor
  <2>5. CASE s \notin running /\ r \in RequestsIn(toSub[s])
    <3>1. CASE UNCHANGED toSub /\ running' \subseteq running
        BY <2>3, <2>5, <3>1 DEF SettledFor
    <3>2. ASSUME NEW t \in Subsystems, Surface(t) PROVE SettledFor(r)'
      <4>1. running' = running
          BY <3>2 DEF Surface
      <4>2. CASE t = s
        <5>1. PICK f \in Frames :
                  /\ f = Head(toSub[s]) /\ toSub[s] # <<>>
                  /\ \/ f.kind # "request" /\ toSub' = [toSub EXCEPT ![s] = Tail(toSub[s])]
                     \/ quit' = quit \cup RequestsIn(toSub[s])
            BY <2>5, <3>2, <4>2, SurfaceFacts
        <5>2. CASE f.kind # "request" /\ toSub' = [toSub EXCEPT ![s] = Tail(toSub[s])]
          <6>1. PICK q \in Seq(Frames), z \in Seq(Frames) :
                    q = toSub[s] /\ z = Tail(q) /\ q # <<>> /\ toSub'[s] = z
              BY <5>1, <5>2, TailFacts DEF TypeOK, PipesType
          <6>2. RangeOf(q) = RangeOf(z) \cup {f}
              BY <5>1, <6>1, RangeFacts
          <6>3. Frame("request", r) # f
              BY <2>3, <5>2, FrameFacts DEF Kinds
          <6>4. r \in RequestsIn(q)
              BY <2>5, <6>1
          <6>5. Frame("request", r) \in RangeOf(z)
              BY <6>2, <6>3, <6>4, RequestsInFacts
          <6>6. r \in RequestsIn(z)
              BY <2>3, <6>5, RequestsInFacts
          <6> QED
              BY <2>3, <2>5, <4>1, <6>1, <6>6 DEF SettledFor
        <5>3. CASE quit' = quit \cup RequestsIn(toSub[s])
            BY <2>5, <5>3 DEF SettledFor
        <5> QED
            BY <5>1, <5>2, <5>3
      <4>3. CASE t # s
        <5>1. toSub'[s] = toSub[s]
            BY <3>2, <4>3 DEF Surface, TypeOK, PipesType
        <5> QED
            BY <2>3, <2>5, <4>1, <5>1 DEF SettledFor
      <4> QED
          BY <4>2, <4>3
    <3>3. ASSUME NEW t \in Subsystems, Take(t) \/ Leave(t) \/ LoopEnds(t) PROVE SettledFor(r)'
      <4>1. t \in running /\ running' \subseteq running
          BY <3>3 DEF Take, Leave, LoopEnds, DropEnd
      <4>2. t # s
          BY <2>5, <4>1
      <4>3. toSub'[s] = toSub[s]
          BY <3>3, <4>2 DEF Take, Leave, LoopEnds, DropEnd, TypeOK, PipesType
      <4> QED
          BY <2>3, <2>5, <4>1, <4>3 DEF SettledFor
    <3>4. CASE Deliver \/ ClientsLeave \/ \E x \in Requests : Submit(x) \/ Cancel(x)
        BY <1>3, <3>1, <3>4 DEF Deliver, ClientsLeave, Submit, Cancel, pipes, subsystems
    <3>5. ASSUME NEW t \in Subsystems, NEW x \in Requests,
                 DispatcherEnds(t) \/ SendItem(t, x) \/ SendDone(t, x) \/ Call(t, x) \/ GiveUp(t, x)
          PROVE  SettledFor(r)'
        BY <3>1, <3>5 DEF DispatcherEnds, SendItem, SendDone, Call, GiveUp, pipes, subsystems
    <3>6. ASSUME NEW t \in Subsystems, Bridge(t) PROVE SettledFor(r)'
        BY <3>1, <3>6, BridgeEffect DEF subsystems
    <3>7. ~(RouteRequest \/ RouteResponse \/ RouteCancel \/ Stop \/ Abort)
        BY <1>3 DEF RouteRequest, RouteResponse, RouteCancel, Takes, Stop, Abort
    <3> QED
        BY <1>3, <2>3, <3>2, <3>3, <3>4, <3>5, <3>6, <3>7 DEF Next, Route, Subsystem
  <2> QED
      BY <1>3, <2>2, <2>3, <2>4, <2>5 DEF StopsSettled, SettledFor
<1>4. CASE Next /\ router # "stopped" /\ ~Stop
  <2>1. UNCHANGED router \/ Abort
      BY <1>4, BridgeEffect
      DEF Next, Submit, Cancel, ClientsLeave, Route, RouteRequest, RouteResponse, RouteCancel, Deliver,
          Bridge, BridgeRecv, BridgeSend, BridgeFails, BridgeEnds, EndBridge, Subsystem,
          Surface, DispatcherEnds, Take, Leave, LoopEnds, DropEnd, SendItem, SendDone, GiveUp, Call,
          tasks
  <2> QED
      BY <1>4, <2>1 DEF Abort
<1> QED
  BY <1>1, <1>2, <1>3, <1>4

-----------------------------------------------------------------------------
(* Counting frames.                                                         *)

\* How often two channels hold a frame together.
LEMMA CountConcat ==
    ASSUME NEW p \in Seq(Frames), NEW q \in Seq(Frames), NEW f
    PROVE  /\ Count(p, f) \in Nat /\ Count(q, f) \in Nat
           /\ Count(p \o q, f) = Count(p, f) + Count(q, f)
<1> DEFINE A == {i \in 1 .. Len(p) : p[i] = f}
           B == {i \in 1 .. Len(q) : q[i] = f}
           C == {i \in 1 .. Len(p \o q) : (p \o q)[i] = f}
           D == C \ A
<1>0. /\ Len(p) \in Nat /\ Len(q) \in Nat /\ Len(p \o q) = Len(p) + Len(q)
      /\ \A i \in 1 .. Len(p) + Len(q) :
            (p \o q)[i] = IF i <= Len(p) THEN p[i] ELSE q[i - Len(p)]
  BY ConcatFacts
<1>1. IsFiniteSet(A) /\ IsFiniteSet(B) /\ IsFiniteSet(C) /\ IsFiniteSet(D)
  <2>1. \A n \in Nat : IsFiniteSet(1 .. n)
      BY FS_Interval
  <2>2. IsFiniteSet(1 .. Len(p)) /\ IsFiniteSet(1 .. Len(q)) /\ IsFiniteSet(1 .. Len(p \o q))
      BY <1>0, <2>1
  <2> QED
      BY <2>2, FS_Subset
<1>2. A \subseteq C /\ C = A \cup D /\ A \cap D = {}
  BY <1>0
<1>3. ExistsBijection(B, D)
  <2> DEFINE g == [i \in B |-> Len(p) + i]
  <2>1. ASSUME NEW i \in B PROVE Len(p) + i \in D
    <3>1. /\ Len(p) + i \in 1 .. Len(p) + Len(q) /\ ~(Len(p) + i <= Len(p)) /\ (Len(p) + i) - Len(p) = i
        BY <1>0
    <3> QED
        BY <1>0, <3>1
  <2>2. ASSUME NEW k \in D PROVE \E i \in B : g[i] = k
    <3>1. k \in 1 .. Len(p) + Len(q) /\ (p \o q)[k] = f /\ k \notin A
        BY <1>0
    <3>2. ~(k <= Len(p))
        BY <1>0, <3>1
    <3>3. k - Len(p) \in B /\ Len(p) + (k - Len(p)) = k
        BY <1>0, <3>1, <3>2
    <3> QED
        BY <3>3
  <2>3. \A i, j \in B : g[i] = g[j] => i = j
      BY <1>0
  <2>4. g \in Injection(B, D) /\ g \in Surjection(B, D)
      BY <2>1, <2>2, <2>3 DEF Injection, Surjection, IsInjective
  <2> QED
      BY <2>4 DEF ExistsBijection, Bijection
<1>4. Cardinality(D) = Cardinality(B)
  BY <1>1, <1>3, FS_Bijection
<1>5. Cardinality(C) = Cardinality(A) + Cardinality(D)
  <2>1. Cardinality(A \cap D) = 0
      BY <1>2, FS_EmptySet
  <2>2. Cardinality(A) \in Nat /\ Cardinality(D) \in Nat
      BY <1>1, FS_CardinalityType
  <2>3. Cardinality(A \cup D) = Cardinality(A) + Cardinality(D) - Cardinality(A \cap D)
      BY <1>1, FS_Union
  <2>4. Cardinality(C) = Cardinality(A) + Cardinality(D) - 0
    <3> HIDE DEF A, C, D
    <3> QED
        BY <1>2, <2>1, <2>3
  <2> HIDE DEF A, C, D
  <2> QED
      BY <2>2, <2>4
<1>6. Cardinality(A) \in Nat /\ Cardinality(B) \in Nat
  BY <1>1, FS_CardinalityType
<1> QED
  BY <1>4, <1>5, <1>6 DEF Count

\* Nothing, and one frame.
LEMMA CountFew ==
    ASSUME NEW f
    PROVE  /\ Count(<<>>, f) = 0
           /\ \A g : Count(<<g>>, f) = IF g = f THEN 1 ELSE 0
<1>1. Count(<<>>, f) = 0
  <2>1. {i \in 1 .. Len(<<>>) : <<>>[i] = f} = {}
      OBVIOUS
  <2> QED
      BY <2>1, FS_EmptySet DEF Count
<1>2. ASSUME NEW g PROVE Count(<<g>>, f) = IF g = f THEN 1 ELSE 0
  <2>1. CASE g = f
    <3>1. {i \in 1 .. Len(<<g>>) : <<g>>[i] = f} = {1}
        BY <2>1
    <3> QED
        BY <2>1, <3>1, FS_Singleton DEF Count
  <2>2. CASE g # f
    <3>1. {i \in 1 .. Len(<<g>>) : <<g>>[i] = f} = {}
        BY <2>2
    <3> QED
        BY <2>2, <3>1, FS_EmptySet DEF Count
  <2> QED
      BY <2>1, <2>2
<1> QED
  BY <1>1, <1>2

\* A frame counts if it is there.
LEMMA CountRange ==
    ASSUME NEW q \in Seq(Frames), NEW f
    PROVE  Count(q, f) \in Nat /\ (Count(q, f) = 0 <=> f \notin RangeOf(q))
<1> DEFINE B == {i \in 1 .. Len(q) : q[i] = f}
<1>1. Len(q) \in Nat
  BY EmptyFacts
<1>2. IsFiniteSet(1 .. Len(q))
  BY <1>1, FS_Interval
<1>3. IsFiniteSet(B)
  BY <1>2, FS_Subset
<1>4. B = {} <=> f \notin RangeOf(q)
  BY DEF RangeOf
<1> QED
  BY <1>3, <1>4, FS_EmptySet, FS_CardinalityType DEF Count

\* A frame is put in, or taken out.
LEMMA CountMoves ==
    ASSUME NEW q \in Seq(Frames), NEW f
    PROVE  /\ Count(q, f) \in Nat
           /\ \A g \in Frames : Count(Append(q, g), f) = Count(q, f) + (IF g = f THEN 1 ELSE 0)
           /\ q # <<>> =>
                 /\ Count(Tail(q), f) \in Nat
                 /\ Count(q, f) = (IF Head(q) = f THEN 1 ELSE 0) + Count(Tail(q), f)
<1>1. ASSUME NEW g \in Frames PROVE Count(Append(q, g), f) = Count(q, f) + (IF g = f THEN 1 ELSE 0)
  <2>1. <<g>> \in Seq(Frames) /\ q \o <<g>> = Append(q, g)
      BY AppendBehind, SingleFacts
  <2>2. Count(q \o <<g>>, f) = Count(q, f) + Count(<<g>>, f)
      BY <2>1, CountConcat
  <2> QED
      BY <2>1, <2>2, CountFew
<1>2. ASSUME q # <<>>
      PROVE  /\ Count(Tail(q), f) \in Nat
             /\ Count(q, f) = (IF Head(q) = f THEN 1 ELSE 0) + Count(Tail(q), f)
  <2>1. PICK h \in Frames, z \in Seq(Frames) : h = Head(q) /\ z = Tail(q) /\ <<h>> \o z = q
    <3>1. Tail(q) \in Seq(Frames) /\ Head(q) \in Frames /\ <<Head(q)>> \o Tail(q) = q
        BY <1>2, TailFacts, ConcatSingle
    <3> QED
        BY <3>1
  <2>2. <<h>> \in Seq(Frames)
      BY SingleFacts
  <2>3. Count(<<h>> \o z, f) = Count(<<h>>, f) + Count(z, f) /\ Count(z, f) \in Nat
      BY <2>2, CountConcat
  <2> QED
      BY <2>1, <2>3, CountFew
<1> QED
  BY <1>1, <1>2, CountRange

\* Items before the Done.
Ordered(q, a, b) == \A i, j \in 1 .. Len(q) : q[i] = a /\ q[j] = b => i < j

\* Two channels are in order if each is, and the first has no b or the second no a.
LEMMA OrderedConcat ==
    ASSUME NEW p \in Seq(Frames), NEW q \in Seq(Frames), NEW a, NEW b
    PROVE  Ordered(p \o q, a, b) <=>
              /\ Ordered(p, a, b) /\ Ordered(q, a, b)
              /\ b \notin RangeOf(p) \/ a \notin RangeOf(q)
<1>0. /\ Len(p) \in Nat /\ Len(q) \in Nat /\ Len(p \o q) = Len(p) + Len(q)
      /\ \A i \in 1 .. Len(p) + Len(q) :
            (p \o q)[i] = IF i <= Len(p) THEN p[i] ELSE q[i - Len(p)]
  BY ConcatFacts
<1>1. \A i \in 1 .. Len(p) : i \in 1 .. Len(p \o q) /\ (p \o q)[i] = p[i]
  BY <1>0
<1>2. ASSUME NEW i \in 1 .. Len(q)
      PROVE  /\ Len(p) + i \in 1 .. Len(p \o q) /\ (p \o q)[Len(p) + i] = q[i]
  <2>1. Len(p) + i \in 1 .. Len(p) + Len(q) /\ ~(Len(p) + i <= Len(p)) /\ (Len(p) + i) - Len(p) = i
      BY <1>0
  <2> QED
      BY <1>0, <2>1
<1>3. \A i \in 1 .. Len(p \o q) :
         \/ i \in 1 .. Len(p) /\ (p \o q)[i] = p[i]
         \/ /\ i - Len(p) \in 1 .. Len(q) /\ (p \o q)[i] = q[i - Len(p)]
            /\ i = Len(p) + (i - Len(p)) /\ i > Len(p)
  BY <1>0
<1>4. ASSUME Ordered(p \o q, a, b) PROVE Ordered(p, a, b)
  BY <1>1, <1>4 DEF Ordered
<1>5. ASSUME Ordered(p \o q, a, b) PROVE Ordered(q, a, b)
  <2> SUFFICES ASSUME NEW i \in 1 .. Len(q), NEW j \in 1 .. Len(q), q[i] = a, q[j] = b PROVE i < j
      BY DEF Ordered
  <2>1. Len(p) + i < Len(p) + j
      BY <1>2, <1>5 DEF Ordered
  <2> QED
      BY <1>0, <2>1
<1>6. ASSUME Ordered(p \o q, a, b), b \in RangeOf(p), a \in RangeOf(q) PROVE FALSE
  <2>1. PICK i \in 1 .. Len(p), j \in 1 .. Len(q) : p[i] = b /\ q[j] = a
      BY <1>6 DEF RangeOf
  <2>2. Len(p) + j < i
      BY <1>1, <1>2, <1>6, <2>1 DEF Ordered
  <2> QED
      BY <1>0, <2>2
<1>7. ASSUME Ordered(p, a, b), Ordered(q, a, b), b \notin RangeOf(p) \/ a \notin RangeOf(q)
      PROVE  Ordered(p \o q, a, b)
  <2> SUFFICES ASSUME NEW i \in 1 .. Len(p \o q), NEW j \in 1 .. Len(p \o q),
                      (p \o q)[i] = a, (p \o q)[j] = b
               PROVE  i < j
      BY DEF Ordered
  <2>1. \A k \in 1 .. Len(p) : p[k] \in RangeOf(p)
      BY DEF RangeOf
  <2>2. \A k \in 1 .. Len(q) : q[k] \in RangeOf(q)
      BY DEF RangeOf
  <2>3. CASE i \in 1 .. Len(p) /\ j \in 1 .. Len(p)
      BY <1>1, <1>7, <2>3 DEF Ordered
  <2>4. CASE i \in 1 .. Len(p) /\ j > Len(p)
      BY <1>0, <2>4
  <2>5. CASE i > Len(p) /\ j > Len(p)
    <3>1. /\ i - Len(p) \in 1 .. Len(q) /\ j - Len(p) \in 1 .. Len(q)
          /\ q[i - Len(p)] = a /\ q[j - Len(p)] = b
        BY <1>0, <2>5
    <3>2. i - Len(p) < j - Len(p)
        BY <1>7, <3>1 DEF Ordered
    <3> QED
        BY <1>0, <3>2
  <2>6. CASE i > Len(p) /\ j \in 1 .. Len(p)
    <3>1. i - Len(p) \in 1 .. Len(q) /\ q[i - Len(p)] = a /\ p[j] = b
        BY <1>0, <2>6
    <3> QED
        BY <1>7, <2>1, <2>2, <2>6, <3>1
  <2> QED
      BY <1>0, <2>3, <2>4, <2>5, <2>6
<1> QED
  BY <1>4, <1>5, <1>6, <1>7

\* A frame is put in, or taken out.
LEMMA OrderedMoves ==
    ASSUME NEW q \in Seq(Frames), NEW a, NEW b, a # b
    PROVE  /\ \A f : Ordered(<<f>>, a, b)
           /\ Ordered(<<>>, a, b)
           /\ \A f \in Frames : Ordered(q, a, b) /\ (f = a => b \notin RangeOf(q)) => Ordered(Append(q, f), a, b)
           /\ q # <<>> /\ Ordered(q, a, b) =>
                 Ordered(Tail(q), a, b) /\ (Head(q) = b => a \notin RangeOf(Tail(q)))
<1>1. ASSUME NEW f PROVE Ordered(<<f>>, a, b)
  <2>1. Len(<<f>>) = 1 /\ <<f>>[1] = f
      OBVIOUS
  <2> QED
      BY <2>1 DEF Ordered
<1>2. Ordered(<<>>, a, b)
  BY DEF Ordered
<1>3. ASSUME NEW f \in Frames, Ordered(q, a, b), f = a => b \notin RangeOf(q)
      PROVE  Ordered(Append(q, f), a, b)
  <2>1. <<f>> \in Seq(Frames) /\ q \o <<f>> = Append(q, f) /\ RangeOf(<<f>>) = {f}
      BY AppendBehind, SingleFacts, RangeOfFew
  <2>2. Ordered(q \o <<f>>, a, b)
      BY <1>1, <1>3, <2>1, OrderedConcat
  <2> QED
      BY <2>1, <2>2
<1>4. ASSUME q # <<>>, Ordered(q, a, b)
      PROVE  Ordered(Tail(q), a, b) /\ (Head(q) = b => a \notin RangeOf(Tail(q)))
  <2>1. PICK h \in Frames, z \in Seq(Frames) : h = Head(q) /\ z = Tail(q) /\ <<h>> \o z = q
    <3>1. Tail(q) \in Seq(Frames) /\ Head(q) \in Frames /\ <<Head(q)>> \o Tail(q) = q
        BY <1>4, TailFacts, ConcatSingle
    <3> QED
        BY <3>1
  <2>2. <<h>> \in Seq(Frames) /\ RangeOf(<<h>>) = {h}
      BY SingleFacts, RangeOfFew
  <2>3. Ordered(<<h>> \o z, a, b)
      BY <1>4, <2>1
  <2> QED
      BY <2>1, <2>2, <2>3, OrderedConcat
<1> QED
  BY <1>1, <1>2, <1>3, <1>4

-----------------------------------------------------------------------------
(* What a handler sends arrives complete and in order.                      *)

\* With d being sent to the subscriber, i in the channel of the router and w on
\* the way through the bridge: the log l holds only items, l and the channels
\* hold n items a, the channels hold m Dones b, and no item comes after a Done.
Conserves(d, i, w, l, n, m, a, b) ==
    /\ \A k \in 1 .. Len(l) : l[k] = "item"
    /\ Len(l) + (Count(d, a) + Count(i, a) + Count(w, a)) = n
    /\ Count(d, b) + Count(i, b) + Count(w, b) = m
    /\ Ordered(d, a, b) /\ Ordered(i, a, b) /\ Ordered(w, a, b)
    /\ b \in RangeOf(d) => a \notin RangeOf(i) /\ a \notin RangeOf(w)
    /\ b \in RangeOf(i) => a \notin RangeOf(w)

\* Two channels with the same items and Dones.
Alike(p, q, a, b) ==
    /\ Count(p, a) = Count(q, a) /\ Count(p, b) = Count(q, b)
    /\ Ordered(q, a, b) => Ordered(p, a, b)
    /\ a \in RangeOf(p) <=> a \in RangeOf(q)
    /\ b \in RangeOf(p) <=> b \in RangeOf(q)

\* Other frames make no difference.
LEMMA AlikeFacts ==
    ASSUME NEW q \in Seq(Frames), NEW a, NEW b, a # b
    PROVE  /\ Alike(q, q, a, b)
           /\ \A f \in Frames : f # a /\ f # b => Alike(Append(q, f), q, a, b) /\ Alike(<<f>>, <<>>, a, b)
           /\ q # <<>> /\ Head(q) # a /\ Head(q) # b => Alike(Tail(q), q, a, b)
<1>1. Alike(q, q, a, b)
  BY DEF Alike
<1>2. ASSUME NEW f \in Frames, f # a, f # b PROVE Alike(Append(q, f), q, a, b) /\ Alike(<<f>>, <<>>, a, b)
  <2>1. /\ Count(Append(q, f), a) = Count(q, a) /\ Count(Append(q, f), b) = Count(q, b)
        /\ Count(<<f>>, a) = Count(<<>>, a) /\ Count(<<f>>, b) = Count(<<>>, b)
    <3>1. /\ Count(q, a) \in Nat /\ Count(Append(q, f), a) = Count(q, a) + 0
          /\ Count(q, b) \in Nat /\ Count(Append(q, f), b) = Count(q, b) + 0
        BY <1>2, CountMoves
    <3> QED
        BY <1>2, <3>1, CountFew
  <2>2. Ordered(q, a, b) => Ordered(Append(q, f), a, b)
      BY <1>2, OrderedMoves
  <2>3. RangeOf(Append(q, f)) = RangeOf(q) \cup {f} /\ RangeOf(<<f>>) = {f} /\ RangeOf(<<>>) = {}
      BY RangeFacts, RangeOfFew
  <2>4. Ordered(<<f>>, a, b)
      BY OrderedMoves
  <2> QED
      BY <1>2, <2>1, <2>2, <2>3, <2>4 DEF Alike
<1>3. ASSUME q # <<>>, Head(q) # a, Head(q) # b PROVE Alike(Tail(q), q, a, b)
  <2>1. Count(Tail(q), a) = Count(q, a) /\ Count(Tail(q), b) = Count(q, b)
    <3>1. /\ Count(Tail(q), a) \in Nat /\ Count(q, a) = 0 + Count(Tail(q), a)
          /\ Count(Tail(q), b) \in Nat /\ Count(q, b) = 0 + Count(Tail(q), b)
        BY <1>3, CountMoves
    <3> QED
        BY <3>1
  <2>2. Ordered(q, a, b) => Ordered(Tail(q), a, b)
      BY <1>3, OrderedMoves
  <2>3. RangeOf(q) = RangeOf(Tail(q)) \cup {Head(q)}
      BY <1>3, RangeFacts
  <2> QED
      BY <1>3, <2>1, <2>2, <2>3 DEF Alike
<1> QED
  BY <1>1, <1>2, <1>3

\* The balance is kept if every channel is replaced by one like it.
LEMMA AlikeConserves ==
    ASSUME NEW d, NEW i, NEW w, NEW l, NEW n, NEW m, NEW a, NEW b, NEW d2, NEW i2, NEW w2,
           Conserves(d, i, w, l, n, m, a, b),
           Alike(d2, d, a, b), Alike(i2, i, a, b), Alike(w2, w, a, b)
    PROVE  Conserves(d2, i2, w2, l, n, m, a, b)
BY DEF Conserves, Alike

\* The bridge moves the first frame on its way into the channel of the router.
LEMMA ForwardConserves ==
    ASSUME NEW d \in Seq(Frames), NEW i \in Seq(Frames), NEW w \in Seq(Frames), w # <<>>,
           NEW l \in Seq(Kinds), NEW n \in Nat, NEW m \in Nat, m <= 1, NEW a, NEW b, a # b,
           Conserves(d, i, w, l, n, m, a, b)
    PROVE  Conserves(d, Append(i, Head(w)), Tail(w), l, n, m, a, b)
<1>1. PICK h \in Frames, z \in Seq(Frames), j \in Seq(Frames) :
            h = Head(w) /\ z = Tail(w) /\ j = Append(i, h)
  BY TailFacts, AppendFacts
<1>2. /\ Count(i, a) \in Nat /\ Count(z, a) \in Nat /\ Count(d, a) \in Nat /\ Len(l) \in Nat
      /\ Count(i, b) \in Nat /\ Count(z, b) \in Nat /\ Count(d, b) \in Nat
  BY CountRange, EmptyFacts
<1>3. /\ Count(j, a) = Count(i, a) + (IF h = a THEN 1 ELSE 0)
      /\ Count(j, b) = Count(i, b) + (IF h = b THEN 1 ELSE 0)
  BY <1>1, CountMoves
<1>4. /\ Count(w, a) = (IF h = a THEN 1 ELSE 0) + Count(z, a)
      /\ Count(w, b) = (IF h = b THEN 1 ELSE 0) + Count(z, b)
  BY <1>1, CountMoves
<1>5. /\ Len(l) + (Count(d, a) + Count(j, a) + Count(z, a)) = n
      /\ Count(d, b) + Count(j, b) + Count(z, b) = m
  <2>1. /\ Len(l) + (Count(d, a) + Count(i, a) + Count(w, a)) = n
        /\ Count(d, b) + Count(i, b) + Count(w, b) = m
      BY DEF Conserves
  <2>2. \A x, y, u, v, k \in Nat : x + (y + (u + k) + v) = x + (y + u + (k + v))
      OBVIOUS
  <2>4. PICK k \in Nat : k = IF h = a THEN 1 ELSE 0
      OBVIOUS
  <2>5. Len(l) + (Count(d, a) + Count(j, a) + Count(z, a)) = n
      BY <1>2, <1>3, <1>4, <2>1, <2>2, <2>4
  <2>6. PICK x \in Nat : x = IF h = b THEN 1 ELSE 0
      OBVIOUS
  <2>7. Count(d, b) + Count(j, b) + Count(z, b) = m
    <3>1. PICK y \in Nat, u \in Nat, v \in Nat : y = Count(d, b) /\ u = Count(i, b) /\ v = Count(z, b)
        BY <1>2
    <3>2. y + u + (x + v) = m
        BY <1>4, <2>1, <2>6, <3>1
    <3>3. y + (u + x) + v = m
        BY <3>2
    <3> QED
        BY <1>3, <2>6, <3>1, <3>3
  <2> QED
      BY <2>5, <2>7
<1>6. RangeOf(w) = RangeOf(z) \cup {h} /\ RangeOf(j) = RangeOf(i) \cup {h}
  BY <1>1, RangeFacts
<1>7. Ordered(z, a, b) /\ (h = b => a \notin RangeOf(z))
  BY <1>1, OrderedMoves DEF Conserves
<1>8. Ordered(j, a, b)
  <2>1. h = a => b \notin RangeOf(i)
      BY <1>6 DEF Conserves
  <2> QED
      BY <1>1, <2>1, OrderedMoves DEF Conserves
<1>9. /\ b \in RangeOf(d) => a \notin RangeOf(j) /\ a \notin RangeOf(z)
      /\ b \in RangeOf(j) => a \notin RangeOf(z)
  BY <1>6, <1>7 DEF Conserves
<1> QED
  BY <1>1, <1>5, <1>7, <1>8, <1>9 DEF Conserves

\* The router takes the first frame of its channel and sends it.
LEMMA RouteConserves ==
    ASSUME NEW i \in Seq(Frames), NEW w \in Seq(Frames), i # <<>>,
           NEW l \in Seq(Kinds), NEW n \in Nat, NEW m \in Nat, NEW a, NEW b, a # b,
           Conserves(<<>>, i, w, l, n, m, a, b)
    PROVE  Conserves(<<Head(i)>>, Tail(i), w, l, n, m, a, b)
<1>1. PICK h \in Frames, z \in Seq(Frames) : h = Head(i) /\ z = Tail(i)
  BY TailFacts
<1>2. /\ Count(i, a) \in Nat /\ Count(z, a) \in Nat /\ Count(w, a) \in Nat /\ Len(l) \in Nat
      /\ Count(i, b) \in Nat /\ Count(z, b) \in Nat /\ Count(w, b) \in Nat
  BY CountRange, EmptyFacts
<1>3. /\ Count(<<h>>, a) = IF h = a THEN 1 ELSE 0
      /\ Count(<<h>>, b) = IF h = b THEN 1 ELSE 0
      /\ Count(<<>>, a) = 0 /\ Count(<<>>, b) = 0
  BY CountFew
<1>4. /\ Count(i, a) = (IF h = a THEN 1 ELSE 0) + Count(z, a)
      /\ Count(i, b) = (IF h = b THEN 1 ELSE 0) + Count(z, b)
  BY <1>1, CountMoves
<1>5. /\ Len(l) + (Count(<<h>>, a) + Count(z, a) + Count(w, a)) = n
      /\ Count(<<h>>, b) + Count(z, b) + Count(w, b) = m
  BY <1>2, <1>3, <1>4 DEF Conserves
<1>6. RangeOf(i) = RangeOf(z) \cup {h} /\ RangeOf(<<h>>) = {h}
  BY <1>1, RangeFacts, RangeOfFew
<1>7. Ordered(z, a, b) /\ (h = b => a \notin RangeOf(z)) /\ Ordered(<<h>>, a, b)
  BY <1>1, OrderedMoves DEF Conserves
<1> QED
  BY <1>1, <1>5, <1>6, <1>7 DEF Conserves

\* An item has been sent.
LEMMA DeliverConserves ==
    ASSUME NEW i \in Seq(Frames), NEW w \in Seq(Frames),
           NEW l \in Seq(Kinds), NEW n \in Nat, NEW m \in Nat, NEW a, NEW b, a # b,
           Conserves(<<a>>, i, w, l, n, m, a, b)
    PROVE  Conserves(<<>>, i, w, Append(l, "item"), n, m, a, b)
<1>1. /\ Count(i, a) \in Nat /\ Count(w, a) \in Nat /\ Len(l) \in Nat
      /\ Count(i, b) \in Nat /\ Count(w, b) \in Nat
  BY CountRange, EmptyFacts
<1>2. Count(<<a>>, a) = 1 /\ Count(<<a>>, b) = 0 /\ Count(<<>>, a) = 0 /\ Count(<<>>, b) = 0
  BY CountFew
<1>3. /\ Len(Append(l, "item")) = Len(l) + 1
      /\ \A k \in 1 .. Len(l) : Append(l, "item")[k] = l[k]
      /\ Append(l, "item")[Len(l) + 1] = "item"
  BY AppendFacts DEF Kinds
<1>4. \A k \in 1 .. Len(Append(l, "item")) : Append(l, "item")[k] = "item"
  BY <1>1, <1>3 DEF Conserves
<1>5. /\ Len(Append(l, "item")) + (Count(<<>>, a) + Count(i, a) + Count(w, a)) = n
      /\ Count(<<>>, b) + Count(i, b) + Count(w, b) = m
  BY <1>1, <1>2, <1>3 DEF Conserves
<1>6. Ordered(<<>>, a, b) /\ RangeOf(<<>>) = {}
  BY OrderedMoves, RangeOfFew
<1> QED
  BY <1>4, <1>5, <1>6 DEF Conserves

\* The handler sends an item or its Done, before it has sent a Done.
LEMMA SendConserves ==
    ASSUME NEW d \in Seq(Frames), NEW i \in Seq(Frames), NEW w \in Seq(Frames),
           NEW l \in Seq(Kinds), NEW n \in Nat, NEW a \in Frames, NEW b \in Frames, a # b,
           Conserves(d, i, w, l, n, 0, a, b)
    PROVE  /\ Conserves(d, i, Append(w, a), l, n + 1, 0, a, b)
           /\ Conserves(d, i, Append(w, b), l, n, 1, a, b)
<1>1. /\ Count(i, a) \in Nat /\ Count(w, a) \in Nat /\ Count(d, a) \in Nat /\ Len(l) \in Nat
      /\ Count(i, b) \in Nat /\ Count(w, b) \in Nat /\ Count(d, b) \in Nat
  BY CountRange, EmptyFacts
<1>2. Count(d, b) = 0 /\ Count(i, b) = 0 /\ Count(w, b) = 0
  BY <1>1 DEF Conserves
<1>3. b \notin RangeOf(d) /\ b \notin RangeOf(i) /\ b \notin RangeOf(w)
  BY <1>2, CountRange
<1>4. /\ Count(Append(w, a), a) = Count(w, a) + 1 /\ Count(Append(w, a), b) = Count(w, b) + 0
      /\ Count(Append(w, b), a) = Count(w, a) + 0 /\ Count(Append(w, b), b) = Count(w, b) + 1
  BY CountMoves
<1>5. Ordered(Append(w, a), a, b) /\ Ordered(Append(w, b), a, b)
  BY <1>3, OrderedMoves DEF Conserves
<1>6. /\ Len(l) + (Count(d, a) + Count(i, a) + Count(Append(w, a), a)) = n + 1
      /\ Count(d, b) + Count(i, b) + Count(Append(w, a), b) = 0
      /\ Len(l) + (Count(d, a) + Count(i, a) + Count(Append(w, b), a)) = n
      /\ Count(d, b) + Count(i, b) + Count(Append(w, b), b) = 1
  <2>1. Len(l) + (Count(d, a) + Count(i, a) + Count(w, a)) = n
      BY DEF Conserves
  <2>2. PICK x \in Nat, y \in Nat, u \in Nat, v \in Nat :
              x = Len(l) /\ y = Count(d, a) /\ u = Count(i, a) /\ v = Count(w, a)
      BY <1>1
  <2>3. x + (y + u + (v + 1)) = n + 1 /\ x + (y + u + (v + 0)) = n
    <3>1. x + (y + u + v) = n
        BY <2>1, <2>2
    <3> QED
        BY <3>1
  <2>4. 0 + 0 + (0 + 0) = 0 /\ 0 + 0 + (0 + 1) = 1
      OBVIOUS
  <2>5. Len(l) + (Count(d, a) + Count(i, a) + Count(Append(w, a), a)) = n + 1
      BY <1>4, <2>2, <2>3
  <2>6. Len(l) + (Count(d, a) + Count(i, a) + Count(Append(w, b), a)) = n
      BY <1>4, <2>2, <2>3
  <2> QED
      BY <1>2, <1>4, <2>4, <2>5, <2>6
<1> QED
  BY <1>3, <1>5, <1>6 DEF Conserves

\* Nothing was sent yet.
LEMMA NothingConserves ==
    ASSUME NEW i \in Seq(Frames), NEW w \in Seq(Frames), NEW a, NEW b,
           a \notin RangeOf(i), a \notin RangeOf(w), b \notin RangeOf(i), b \notin RangeOf(w)
    PROVE  Conserves(<<>>, i, w, <<>>, 0, 0, a, b)
<1>1. /\ Count(i, a) = 0 /\ Count(i, b) = 0 /\ Count(w, a) = 0 /\ Count(w, b) = 0
      /\ Count(<<>>, a) = 0 /\ Count(<<>>, b) = 0
  BY CountRange, CountFew
<1>2. Len(<<>>) = 0 /\ RangeOf(<<>>) = {} /\ Ordered(<<>>, a, b)
  BY RangeOfFew DEF Ordered
<1>3. \A q \in Seq(Frames) : a \notin RangeOf(q) => Ordered(q, a, b)
  BY DEF Ordered, RangeOf
<1> QED
  BY <1>1, <1>2, <1>3 DEF Conserves

\* The handler has not sent its Done: the request lies in front of it, is
\* worked on, or is gone with it.
Pending(r) ==
    \/ r \in held[Callee[r]]
    \/ Frame("request", r) \in RangeOf(Handed(Callee[r]))
    \/ r \in quit

ConservedFor(r) ==
    Conserves(delivering, inbound, Way(Callee[r]), log[r], items[r],
              IF Pending(r) THEN 0 ELSE 1, Frame("item", r), Frame("done", r))

Conserved == \A r \in DOMAIN inflight : ConservedFor(r)

\* What is known of a request in flight.
LEMMA InFlightFacts ==
    ASSUME TypeOK, UnroutedIsNew, NEW r \in DOMAIN inflight
    PROVE  /\ r \in made /\ r \in Requests /\ Callee[r] \in Subsystems /\ ~Unrouted(r)
           /\ items[r] \in Nat /\ log[r] \in Seq(Kinds) /\ delivering \in Seq(Frames)
           /\ inbound \in Seq(Frames) /\ Way(Callee[r]) \in Seq(Frames)
           /\ Frame("item", r) \in Frames /\ Frame("done", r) \in Frames
           /\ Frame("item", r) # Frame("done", r)
<1>1. r \in made /\ r \in Requests /\ Callee[r] \in Subsystems
  BY CalleesAreSubsystems DEF TypeOK, RouterType, RequestsType
<1>2. ~Unrouted(r)
  BY <1>1 DEF UnroutedIsNew, Untouched
<1>3. /\ items[r] \in Nat /\ log[r] \in Seq(Kinds) /\ delivering \in Seq(Frames)
      /\ inbound \in Seq(Frames)
  BY <1>1 DEF TypeOK, RouterType, SubsystemsType, RequestsType
<1>4. /\ Frame("item", r) \in Frames /\ Frame("done", r) \in Frames
      /\ Frame("item", r) # Frame("done", r)
  BY <1>1, FrameFacts DEF Kinds
<1> QED
  BY <1>1, <1>2, <1>3, <1>4, WayFacts

\* While a request is in flight, only its Done ends the wait for it.
LEMMA PendingStays ==
    ASSUME TypeOK, FramesMade, BridgesEnded, UnroutedIsNew, HandedOnce, Next, NEW r \in DOMAIN inflight
    PROVE  /\ ~SendDone(Callee[r], r) => (Pending(r)' <=> Pending(r))
           /\ SendDone(Callee[r], r) => Pending(r) /\ ~Pending(r)'
<1>0. PICK s \in Subsystems : s = Callee[r] /\ r \in Requests /\ ~Unrouted(r) /\ r \in made
  BY InFlightFacts
<1>1. ASSUME Pending(r), ~SendDone(s, r) PROVE Pending(r)'
  BY <1>0, <1>1, HeldStays, HandedStays, QuitStays DEF Pending
<1>2. ASSUME ~Pending(r) PROVE ~Pending(r)'
  <2>1. ASSUME NEW t \in Subsystems
        PROVE  r \notin held[t] /\ Frame("request", r) \notin RangeOf(Handed(t))
      BY <1>0, <1>2, HandedFacts DEF Pending, TypeOK, SubsystemsType
  <2>2. r \notin quit' /\ r \notin held'[s]
      BY <1>0, <1>2, <2>1, NotTaken DEF Pending
  <2>3. Frame("request", r) \notin RangeOf(Handed(s)')
    <3>1. ~Routes(Frame("request", r))
        BY <1>0, TakesFacts, UnderWayFacts DEF Routes, Unrouted
    <3> QED
        BY <2>1, <3>1, HandedSourced DEF HandedSource
  <2> QED
      BY <1>0, <2>2, <2>3 DEF Pending
<1>3. ASSUME SendDone(s, r) PROVE Pending(r) /\ ~Pending(r)'
  <2>1. r \in held[s] /\ held' = [held EXCEPT ![s] = @ \ {r}] /\ quit' = quit
      BY <1>3 DEF SendDone, history
  <2>2. Handed(s)' = Handed(s)
      BY <1>0, <1>3, HandedKept DEF HandedSame
  <2>3. r \notin held'[s] /\ r \notin quit' /\ Frame("request", r) \notin RangeOf(Handed(s)')
      BY <2>1, <2>2, HeldFacts DEF HandedOnce
  <2> QED
      BY <1>0, <2>1, <2>3 DEF Pending
<1> QED
  BY <1>0, <1>1, <1>2, <1>3

\* A step that touches none of the frames of a request, and not its log.
LEMMA ConservedByOthers ==
    ASSUME TypeOK, FramesMade, BridgesEnded, UnroutedIsNew, HandedOnce, Next,
           NEW r \in DOMAIN inflight, ConservedFor(r), ~SendDone(Callee[r], r),
           log'[r] = log[r], items'[r] = items[r],
           Alike(delivering', delivering, Frame("item", r), Frame("done", r)),
           Alike(inbound', inbound, Frame("item", r), Frame("done", r)),
           Alike(Way(Callee[r])', Way(Callee[r]), Frame("item", r), Frame("done", r))
    PROVE  ConservedFor(r)'
<1>1. Pending(r)' <=> Pending(r)
  BY PendingStays
<1>2. Conserves(delivering', inbound', Way(Callee[r])', log[r], items[r],
                IF Pending(r) THEN 0 ELSE 1, Frame("item", r), Frame("done", r))
  BY AlikeConserves DEF ConservedFor
<1>3. Conserves(delivering', inbound', Way(Callee[r])', log'[r], items'[r],
                IF Pending(r)' THEN 0 ELSE 1, Frame("item", r), Frame("done", r))
  BY <1>1, <1>2
<1> QED
  BY <1>3 DEF ConservedFor

\* Which frames are not a response to r.
LEMMA OtherFrames ==
    ASSUME NEW r \in Requests, NEW f \in Frames,
           f.req # r \/ f.kind \notin {"item", "done"}
    PROVE  f # Frame("item", r) /\ f # Frame("done", r)
BY FrameFacts DEF Kinds

\* A request becomes in flight: nothing was done for it yet.
LEMMA ConservedFromStart ==
    ASSUME TypeOK, BridgesEnded, UnroutedIsNew, NEW f \in Frames, Takes(f), RouteRequest,
           f.req \notin DOMAIN inflight, f.req \in DOMAIN inflight'
    PROVE  ConservedFor(f.req)'
<1>0. PICK r \in Requests, s \in Subsystems : r = f.req /\ s = Callee[r]
  BY FrameFacts, CalleesAreSubsystems
<1>1. /\ f.kind = "request" /\ f = Frame("request", r) /\ delivering' = <<>>
      /\ UNCHANGED <<log, items>>
  <2>1. PICK g \in Frames, t \in Subsystems :
              /\ Takes(g) /\ g.kind = "request"
              /\ inflight' = IF CanSend(t) THEN Remember(inflight, g.req, t) ELSE inflight
              /\ delivering' = IF CanSend(t) THEN <<>> ELSE <<Frame("error", g.req)>>
              /\ UNCHANGED <<subsystems, history>>
      BY RouteRequestFacts
  <2>2. g = f
      BY <2>1 DEF Takes
  <2>3. CanSend(t)
      BY <1>0, <2>1
  <2> QED
      BY <1>0, <2>1, <2>2, <2>3, FrameFacts DEF subsystems, history
<1>2. Untouched(r)
  BY <1>0, <1>1, TakesFacts, UnderWayFacts DEF UnroutedIsNew, Unrouted
<1>3. Pending(r)'
  <2>1. Routes(f)
      BY DEF Routes
  <2>2. RangeOf(delivering') = {}
      BY <1>1, RangeOfFew
  <2>3. f \in RangeOf(Handed(s)') \/ Telling(r)'
      BY <1>0, <1>1, <2>1, RequestRouted
  <2> QED
      BY <1>0, <1>1, <2>2, <2>3 DEF Pending, Telling
<1>4. /\ RangeOf(inbound) = RangeOf(inbound') \cup {f} /\ inbound' \in Seq(Frames)
      /\ Way(s)' = Way(s) /\ Way(s) \in Seq(Frames)
  BY TakesFacts, WaysKept, WayFacts DEF WaysSame
<1>5. ASSUME NEW k \in {"item", "done"}
      PROVE  Frame(k, r) \notin RangeOf(inbound') /\ Frame(k, r) \notin RangeOf(Way(s)')
  BY <1>0, <1>2, <1>4, UnderWayFacts DEF Untouched
<1>6. Conserves(<<>>, inbound', Way(s)', <<>>, 0, 0, Frame("item", r), Frame("done", r))
  BY <1>4, <1>5, NothingConserves
<1>7. log'[r] = <<>> /\ items'[r] = 0
  BY <1>1, <1>2 DEF Untouched
<1>8. Conserves(delivering', inbound', Way(s)', log'[r], items'[r],
                IF Pending(r)' THEN 0 ELSE 1, Frame("item", r), Frame("done", r))
  BY <1>1, <1>3, <1>6, <1>7
<1> QED
  BY <1>0, <1>8 DEF ConservedFor

\* The router takes a frame.
LEMMA ConservedByRouting ==
    ASSUME TypeOK, FramesMade, BridgesEnded, UnroutedIsNew, HandedOnce, Next,
           RouteRequest \/ RouteResponse \/ RouteCancel,
           NEW r \in DOMAIN inflight, ConservedFor(r)
    PROVE  ConservedFor(r)'
<1> DEFINE a == Frame("item", r)
           b == Frame("done", r)
<1>0. PICK s \in Subsystems : s = Callee[r] /\ r \in Requests
  BY InFlightFacts
<1>1. /\ a \in Frames /\ b \in Frames /\ a # b /\ inbound \in Seq(Frames) /\ Way(s) \in Seq(Frames)
      /\ items[r] \in Nat /\ log[r] \in Seq(Kinds) /\ a.req = r /\ b.req = r
      /\ a.kind = "item" /\ b.kind = "done"
  BY <1>0, InFlightFacts, FrameFacts DEF Kinds
<1>2. PICK f \in Frames : /\ Takes(f) /\ f = Head(inbound) /\ inbound' = Tail(inbound) /\ inbound # <<>>
                          /\ delivering = <<>> /\ UNCHANGED <<log, items, held>>
  BY RouterEffect, TakesFacts
<1>3. Way(s)' = Way(s) /\ ~SendDone(s, r)
  <2>1. ~SendDone(s, r)
      BY <1>0, <1>2, HeldFacts DEF SendDone, TypeOK, SubsystemsType
  <2> QED
      BY <2>1, WaysKept DEF WaysSame
<1>4. CASE f # a /\ f # b
  <2>1. \/ delivering' = <<>>
        \/ \E g \in Frames : delivering' = <<g>> /\ g # a /\ g # b
    <3>1. CASE RouteRequest
        BY <1>0, <1>2, <3>1, RouteRequestFacts, OtherFrames, FrameFacts DEF Kinds
    <3>2. CASE RouteResponse
        BY <1>2, <1>4, <3>2 DEF RouteResponse, Takes
    <3>3. CASE RouteCancel
        BY <1>2, <1>4, <3>3 DEF RouteCancel, Takes
    <3> QED
        BY <3>1, <3>2, <3>3
  <2>2. /\ Alike(<<>>, <<>>, a, b) /\ \A g \in Frames : g # a /\ g # b => Alike(<<g>>, <<>>, a, b)
        /\ Alike(inbound', inbound, a, b) /\ Alike(Way(s)', Way(s), a, b)
    <3>1. <<>> \in Seq(Frames)
        OBVIOUS
    <3>2. Alike(<<>>, <<>>, a, b) /\ \A g \in Frames : g # a /\ g # b => Alike(<<g>>, <<>>, a, b)
        BY <1>1, <3>1, AlikeFacts
    <3>3. Alike(inbound', inbound, a, b)
        BY <1>1, <1>2, <1>4, AlikeFacts
    <3>4. Alike(Way(s)', Way(s), a, b)
        BY <1>1, <1>3, AlikeFacts
    <3> QED
        BY <3>2, <3>3, <3>4
  <2>3. Alike(delivering', delivering, a, b)
      BY <1>2, <2>1, <2>2
  <2> QED
      BY <1>0, <1>2, <1>3, <2>2, <2>3, ConservedByOthers
<1>5. CASE f = a \/ f = b
  <2>1. f.req = r /\ f.kind \in {"item", "done"}
      BY <1>1, <1>5
  <2>2. delivering' = <<f>>
    <3>1. ~RouteRequest /\ ~RouteCancel
        BY <1>2, <2>1, RouteRequestFacts, RouteCancelFacts DEF Takes
    <3> QED
        BY <1>2, <2>1, <3>1 DEF RouteResponse, Takes
  <2>3. Pending(r)' <=> Pending(r)
      BY <1>0, <1>3, PendingStays
  <2>4. PICK m \in Nat : m = IF Pending(r) THEN 0 ELSE 1
      OBVIOUS
  <2>5. Conserves(<<>>, inbound, Way(s), log[r], items[r], m, a, b)
      BY <1>0, <1>2, <2>4 DEF ConservedFor
  <2>6. Conserves(<<Head(inbound)>>, Tail(inbound), Way(s), log[r], items[r], m, a, b)
      BY <1>1, <1>2, <2>5, RouteConserves
  <2>7. Conserves(delivering', inbound', Way(s)', log'[r], items'[r],
                  IF Pending(r)' THEN 0 ELSE 1, a, b)
      BY <1>2, <1>3, <2>2, <2>3, <2>4, <2>6
  <2> QED
      BY <1>0, <2>7 DEF ConservedFor
<1> QED
  BY <1>4, <1>5

\* The router has sent a frame that does not end the request.
LEMMA ConservedByDelivery ==
    ASSUME TypeOK, FramesMade, BridgesEnded, UnroutedIsNew, HandedOnce, Next, Deliver,
           NEW r \in DOMAIN inflight, r \in DOMAIN inflight', ConservedFor(r)
    PROVE  ConservedFor(r)'
<1> DEFINE a == Frame("item", r)
           b == Frame("done", r)
<1>0. PICK s \in Subsystems : s = Callee[r] /\ r \in Requests
  BY InFlightFacts
<1>1. /\ a \in Frames /\ b \in Frames /\ a # b /\ inbound \in Seq(Frames) /\ Way(s) \in Seq(Frames)
      /\ items[r] \in Nat /\ log[r] \in Seq(Kinds)
  BY <1>0, InFlightFacts
<1>2. PICK f \in Frames :
              /\ delivering = <<f>> /\ RangeOf(delivering) = {f} /\ delivering' = <<>>
              /\ log' = [log EXCEPT ![f.req] = Append(@, f.kind)]
              /\ inflight' = IF IsTerminal(f) THEN Forget(inflight, f.req) ELSE inflight
              /\ UNCHANGED <<inbound, subsystems>>
  BY DeliverFacts
<1>3. Way(s)' = Way(s) /\ items' = items /\ inbound' = inbound
  BY <1>2, WaysKept DEF WaysSame, subsystems
<1>30. ~SendDone(s, r)
  <2>1. held' = held
      BY <1>2 DEF subsystems
  <2> QED
      BY <2>1, HeldFacts DEF SendDone
<1>4. log \in [Requests -> Seq(Kinds)]
  BY DEF TypeOK, RequestsType
<1>5. CASE f.req # r
  <2>1. f # a /\ f # b
      BY <1>0, <1>5, OtherFrames
  <2>2. Alike(<<>>, <<f>>, a, b)
    <3>1. <<f>> \in Seq(Frames) /\ <<f>> # <<>> /\ Head(<<f>>) = f /\ Tail(<<f>>) = <<>>
        OBVIOUS
    <3>2. Alike(Tail(<<f>>), <<f>>, a, b)
        BY <1>1, <2>1, <3>1, AlikeFacts
    <3> QED
        BY <3>1, <3>2
  <2>3. Alike(inbound', inbound, a, b) /\ Alike(Way(s)', Way(s), a, b)
    <3>1. Alike(inbound, inbound, a, b)
        BY <1>1, AlikeFacts
    <3>2. Alike(Way(s), Way(s), a, b)
        BY <1>1, AlikeFacts
    <3> QED
        BY <1>3, <3>1, <3>2
  <2>4. log'[r] = log[r]
      BY <1>0, <1>2, <1>4, <1>5
  <2> QED
      BY <1>0, <1>2, <1>3, <1>30, <2>2, <2>3, <2>4, ConservedByOthers
<1>6. CASE f.req = r
  <2>1. ~IsTerminal(f)
      BY <1>2, <1>6, InflightFacts
  <2>2. f.kind = "item" /\ f = a
      BY <1>2, <1>6, <2>1, FrameFacts DEF IsTerminal, Terminals, Kinds, FramesMade
  <2>3. Pending(r)' <=> Pending(r)
      BY <1>0, <1>30, PendingStays
  <2>4. PICK m \in Nat : m = IF Pending(r) THEN 0 ELSE 1
      OBVIOUS
  <2>5. Conserves(<<a>>, inbound, Way(s), log[r], items[r], m, a, b)
      BY <1>0, <1>2, <2>2, <2>4 DEF ConservedFor
  <2>6. Conserves(<<>>, inbound, Way(s), Append(log[r], "item"), items[r], m, a, b)
      BY <1>1, <2>5, DeliverConserves
  <2>7. log'[r] = Append(log[r], "item")
      BY <1>0, <1>2, <1>4, <1>6, <2>2
  <2>8. Conserves(delivering', inbound', Way(s)', log'[r], items'[r],
                  IF Pending(r)' THEN 0 ELSE 1, a, b)
      BY <1>2, <1>3, <2>3, <2>4, <2>6, <2>7
  <2> QED
      BY <1>0, <2>8 DEF ConservedFor
<1> QED
  BY <1>5, <1>6

\* A bridge forwards a frame.
LEMMA ConservedByBridge ==
    ASSUME TypeOK, FramesMade, BridgesEnded, RouterEnded, UnroutedIsNew, HandedOnce, Next,
           NEW t \in Subsystems, Bridge(t), NEW r \in DOMAIN inflight, ConservedFor(r)
    PROVE  ConservedFor(r)'
<1> DEFINE a == Frame("item", r)
           b == Frame("done", r)
<1>0. PICK s \in Subsystems : s = Callee[r] /\ r \in Requests
  BY InFlightFacts
<1>1. /\ a \in Frames /\ b \in Frames /\ a # b /\ inbound \in Seq(Frames) /\ delivering \in Seq(Frames)
      /\ items[r] \in Nat /\ log[r] \in Seq(Kinds) /\ a.req = r /\ b.req = r
      /\ a.kind = "item" /\ b.kind = "done" /\ Way(s) \in Seq(Frames) /\ Way(t) \in Seq(Frames)
  BY <1>0, InFlightFacts, FrameFacts, WayFacts DEF Kinds
<1>2. /\ \A u \in Subsystems \ {t} : Way(u)' = Way(u)
      /\ delivering' = delivering /\ log' = log /\ items' = items /\ held' = held
  BY BridgeEffect DEF subsystems, history
<1>3. ~SendDone(s, r)
  BY <1>2, HeldFacts DEF SendDone
<1>4. router = "running"
  BY DEF RouterEnded
<1>5. Alike(delivering', delivering, a, b) /\ Alike(inbound, inbound, a, b) /\ Alike(Way(s), Way(s), a, b)
  <2>1. Alike(delivering, delivering, a, b)
      BY <1>1, AlikeFacts
  <2>2. Alike(inbound, inbound, a, b)
      BY <1>1, AlikeFacts
  <2>3. Alike(Way(s), Way(s), a, b)
      BY <1>1, AlikeFacts
  <2> QED
      BY <1>2, <2>1, <2>2, <2>3
<1>6. CASE inbound' = inbound /\ Way(t)' = Way(t)
  <2>1. Way(s)' = Way(s)
      BY <1>2, <1>6
  <2> QED
      BY <1>0, <1>2, <1>3, <1>5, <1>6, <2>1, ConservedByOthers
<1>7. CASE Way(t) # <<>> /\ Way(t)' = Tail(Way(t)) /\ inbound' = Append(inbound, Head(Way(t)))
  <2>1. CASE t # s
    <3>1. Head(Way(t)) \in RangeOf(Way(t)) /\ Head(Way(t)) \in Frames
        BY <1>1, <1>7, RangeFacts
    <3>2. Head(Way(t)) # a /\ Head(Way(t)) # b
      <4>1. ASSUME NEW f \in RangeOf(Way(t)), f.kind # "request" PROVE Callee[f.req] = t
          BY <4>1 DEF FramesMade
      <4> HIDE DEF a, b
      <4> QED
          BY <1>0, <1>1, <2>1, <3>1, <4>1
    <3>3. Alike(inbound', inbound, a, b) /\ Way(s)' = Way(s)
        BY <1>1, <1>2, <1>7, <2>1, <3>1, <3>2, AlikeFacts
    <3> QED
        BY <1>0, <1>2, <1>3, <1>5, <3>3, ConservedByOthers
  <2>2. CASE t = s
    <3>1. Pending(r)' <=> Pending(r)
        BY <1>0, <1>3, PendingStays
    <3>2. PICK m \in Nat : m = (IF Pending(r) THEN 0 ELSE 1) /\ m <= 1
        OBVIOUS
    <3>3. Conserves(delivering, inbound, Way(s), log[r], items[r], m, a, b)
        BY <1>0, <3>2 DEF ConservedFor
    <3>4. Conserves(delivering, Append(inbound, Head(Way(s))), Tail(Way(s)), log[r], items[r], m, a, b)
        BY <1>1, <1>7, <2>2, <3>2, <3>3, ForwardConserves
    <3>5. Conserves(delivering', inbound', Way(s)', log'[r], items'[r],
                    IF Pending(r)' THEN 0 ELSE 1, a, b)
        BY <1>2, <1>7, <2>2, <3>1, <3>2, <3>4
    <3> QED
        BY <1>0, <3>5 DEF ConservedFor
  <2> QED
      BY <2>1, <2>2
<1> QED
  BY <1>4, <1>6, <1>7, BridgeEffect

\* A subsystem sends a frame.
LEMMA ConservedBySending ==
    ASSUME TypeOK, FramesMade, BridgesEnded, UnroutedIsNew, HandedOnce, Next,
           NEW t \in Subsystems, NEW x \in Requests, SendItem(t, x) \/ SendDone(t, x) \/ Call(t, x),
           NEW r \in DOMAIN inflight, ConservedFor(r)
    PROVE  ConservedFor(r)'
<1> DEFINE a == Frame("item", r)
           b == Frame("done", r)
<1>0. PICK s \in Subsystems : s = Callee[r] /\ r \in Requests
  BY InFlightFacts
<1>1. /\ a \in Frames /\ b \in Frames /\ a # b /\ inbound \in Seq(Frames) /\ delivering \in Seq(Frames)
      /\ items[r] \in Nat /\ log[r] \in Seq(Kinds) /\ a.req = r /\ b.req = r
      /\ a.kind = "item" /\ b.kind = "done" /\ Way(s) \in Seq(Frames) /\ Way(t) \in Seq(Frames)
  BY <1>0, InFlightFacts, FrameFacts, WayFacts DEF Kinds
<1>2. PICK k \in {"item", "done", "request"} :
             /\ Way(t)' = Append(Way(t), Frame(k, x)) /\ Frame(k, x) \in Frames
             /\ k = "item" => SendItem(t, x) /\ x \in held[t]
             /\ k = "done" => SendDone(t, x) /\ x \in held[t]
             /\ k = "request" => Call(t, x) /\ x \notin made
             /\ \A u \in Subsystems \ {t} : Way(u)' = Way(u)
             /\ delivering' = delivering /\ log' = log /\ inbound' = inbound
  BY SendsEffect DEF tasks, history
<1>20. Frame(k, x).kind = k /\ Frame(k, x).req = x
  BY FrameFacts DEF Kinds
<1>3. \A u \in Subsystems : r \in held[u] => u = s
  BY <1>0 DEF TypeOK, SubsystemsType
<1>4. /\ k = "item" => items' = [items EXCEPT ![x] = @ + 1] /\ held' = held
      /\ k # "item" => items' = items
      /\ k = "request" => held' = held
      /\ k = "done" => held' = [held EXCEPT ![t] = @ \ {x}]
  BY <1>2 DEF SendItem, SendDone, Call, subsystems
<1>5. SendDone(s, r) => k = "done" /\ t = s /\ x = r
  <2>1. SendDone(s, r) => r \in held[s] /\ r \notin held'[s]
      BY HeldFacts DEF SendDone
  <2> QED
      BY <1>2, <1>4, <2>1, HeldFacts
<1>6. CASE k = "request" \/ x # r
  <2>1. Alike(delivering', delivering, a, b) /\ Alike(inbound', inbound, a, b)
    <3>1. Alike(delivering, delivering, a, b)
        BY <1>1, AlikeFacts
    <3>2. Alike(inbound, inbound, a, b)
        BY <1>1, AlikeFacts
    <3> QED
        BY <1>2, <3>1, <3>2
  <2>2. Alike(Way(s)', Way(s), a, b)
    <3>1. Frame(k, x) # a /\ Frame(k, x) # b
        BY <1>1, <1>6, <1>20
    <3>2. Alike(Append(Way(s), Frame(k, x)), Way(s), a, b)
        BY <1>1, <1>2, <3>1, AlikeFacts
    <3>3. Alike(Way(s), Way(s), a, b)
        BY <1>1, AlikeFacts
    <3> QED
        BY <1>2, <3>2, <3>3
  <2>3. items'[r] = items[r]
      BY <1>0, <1>4, <1>6 DEF TypeOK, SubsystemsType
  <2>4. ~SendDone(s, r)
      BY <1>5, <1>6
  <2> QED
      BY <1>0, <1>2, <2>1, <2>2, <2>3, <2>4, ConservedByOthers
<1>7. CASE k # "request" /\ x = r
  <2>1. t = s /\ r \in held[s] /\ Pending(r)
      BY <1>0, <1>2, <1>3, <1>7 DEF Pending
  <2>2. Conserves(delivering, inbound, Way(s), log[r], items[r], 0, a, b)
      BY <1>0, <2>1 DEF ConservedFor
  <2>3. /\ Conserves(delivering, inbound, Append(Way(s), a), log[r], items[r] + 1, 0, a, b)
        /\ Conserves(delivering, inbound, Append(Way(s), b), log[r], items[r], 1, a, b)
      BY <1>1, <2>2, SendConserves
  <2>4. CASE k = "item"
    <3>1. Pending(r)' /\ items'[r] = items[r] + 1
      <4>1. items'[r] = items[r] + 1
          BY <1>0, <1>4, <1>7, <2>4 DEF TypeOK, SubsystemsType
      <4>2. ~SendDone(s, r)
          BY <1>5, <2>4
      <4> QED
          BY <1>0, <2>1, <4>1, <4>2, PendingStays
    <3>2. Conserves(delivering', inbound', Way(s)', log'[r], items'[r],
                    IF Pending(r)' THEN 0 ELSE 1, a, b)
        BY <1>2, <1>7, <2>1, <2>3, <2>4, <3>1
    <3> QED
        BY <1>0, <3>2 DEF ConservedFor
  <2>5. CASE k = "done"
    <3>1. ~Pending(r)' /\ items'[r] = items[r]
        BY <1>0, <1>2, <1>4, <1>7, <2>1, <2>5, PendingStays
    <3>2. Conserves(delivering', inbound', Way(s)', log'[r], items'[r],
                    IF Pending(r)' THEN 0 ELSE 1, a, b)
        BY <1>2, <1>7, <2>1, <2>3, <2>5, <3>1
    <3> QED
        BY <1>0, <3>2 DEF ConservedFor
  <2> QED
      BY <1>2, <1>7, <2>4, <2>5
<1> QED
  BY <1>6, <1>7

\* Nothing moves on the way to the subscriber.
LEMMA ConservedByRest ==
    ASSUME TypeOK, FramesMade, BridgesEnded, UnroutedIsNew, HandedOnce, Next,
           NEW r \in DOMAIN inflight, ConservedFor(r), ~SendDone(Callee[r], r),
           UNCHANGED <<delivering, log, items>>, WaysSame,
           inbound' = inbound
           \/ \E x \in Requests, k \in {"request", "cancel"} : inbound' = Append(inbound, Frame(k, x))
    PROVE  ConservedFor(r)'
<1> DEFINE a == Frame("item", r)
           b == Frame("done", r)
<1>0. PICK s \in Subsystems : s = Callee[r] /\ r \in Requests
  BY InFlightFacts
<1>1. /\ a \in Frames /\ b \in Frames /\ a # b /\ inbound \in Seq(Frames) /\ delivering \in Seq(Frames)
      /\ Way(s) \in Seq(Frames) /\ Way(s)' = Way(s)
  BY <1>0, InFlightFacts DEF WaysSame
<1>2. Alike(delivering', delivering, a, b)
  BY <1>1, AlikeFacts
<1>3. Alike(Way(s)', Way(s), a, b)
  BY <1>1, AlikeFacts
<1>4. Alike(inbound', inbound, a, b)
  <2>1. Alike(inbound, inbound, a, b)
      BY <1>1, AlikeFacts
  <2>2. ASSUME NEW x \in Requests, NEW k \in {"request", "cancel"}, inbound' = Append(inbound, Frame(k, x))
        PROVE  Alike(inbound', inbound, a, b)
    <3>1. Frame(k, x) \in Frames /\ Frame(k, x) # a /\ Frame(k, x) # b
        BY <1>0, FrameFacts DEF Kinds
    <3> QED
        BY <1>1, <2>2, <3>1, AlikeFacts
  <2> QED
      BY <2>1, <2>2
<1> QED
  BY <1>0, <1>2, <1>3, <1>4, ConservedByOthers

\* Every step keeps the balance of every request in flight.
LEMMA ConservedStep ==
    /\ TypeOK /\ FramesMade /\ BridgesEnded /\ RouterEnded /\ UnroutedIsNew /\ HandedOnce /\ Conserved
    /\ [Next]_vars
    => Conserved'
<1> SUFFICES ASSUME TypeOK, FramesMade, BridgesEnded, RouterEnded, UnroutedIsNew, HandedOnce, Conserved,
                    [Next]_vars, NEW r \in DOMAIN inflight'
             PROVE  ConservedFor(r)'
  BY DEF Conserved
<1>1. CASE UNCHANGED vars
  <2>1. UNCHANGED <<inbound, carrying, toKernel, toSub, default, delivering, inflight, items, log, held, quit>>
      BY <1>1 DEF vars, tasks, pipes, subsystems, calls, history
  <2>2. r \in DOMAIN inflight /\ Callee[r] \in Subsystems /\ ConservedFor(r)
      BY <2>1, InFlightFacts DEF Conserved
  <2>3. Way(Callee[r])' = Way(Callee[r]) /\ Handed(Callee[r])' = Handed(Callee[r])
      BY <2>1, <2>2, SameFacts DEF WaysSame, HandedSame
  <2>4. Pending(r)' <=> Pending(r)
      BY <2>1, <2>3 DEF Pending
  <2> QED
      BY <2>1, <2>2, <2>3, <2>4 DEF ConservedFor
<1>2. CASE Next /\ r \notin DOMAIN inflight
  <2>1. ASSUME ~RouteRequest PROVE DOMAIN inflight' \subseteq DOMAIN inflight
    <3>1. CASE RouteResponse \/ RouteCancel \/ Deliver \/ Stop \/ Abort \/ ClientsLeave
               \/ \E x \in Requests : Submit(x) \/ Cancel(x)
      <4>1. \/ inflight' = inflight \/ inflight' = [x \in {} |-> None]
            \/ \E x : inflight' = Forget(inflight, x)
          BY <3>1 DEF RouteResponse, RouteCancel, Deliver, Stop, Abort, ClientsLeave, Submit, Cancel, tasks
      <4> QED
          BY <4>1, InflightFacts
    <3>2. ASSUME NEW s \in Subsystems, Bridge(s) \/ Subsystem(s) PROVE inflight' = inflight
        BY <3>2, BridgeEffect, SubsystemEffect, SendsEffect DEF Subsystem, tasks
    <3> QED
        BY <1>2, <2>1, <3>1, <3>2 DEF Next, Route
  <2>2. RouteRequest
      BY <1>2, <2>1
  <2>3. PICK f \in Frames :
              Takes(f) /\ (inflight' = inflight \/ \E x : inflight' = Remember(inflight, f.req, x))
      BY <2>2, RouteRequestFacts
  <2>4. f.req = r
    <3>1. ASSUME NEW x, inflight' = Remember(inflight, f.req, x)
          PROVE  DOMAIN inflight' = DOMAIN inflight \cup {f.req}
        BY <3>1 DEF Remember
    <3> QED
        BY <1>2, <2>3, <3>1
  <2> QED
      BY <1>2, <2>2, <2>3, <2>4, ConservedFromStart
<1>3. CASE Next /\ r \in DOMAIN inflight
  <2>1. ConservedFor(r)
      BY <1>3 DEF Conserved
  <2>2. ASSUME ~SendDone(Callee[r], r), UNCHANGED <<delivering, log, items>>, WaysSame,
               inbound' = inbound
               \/ \E x \in Requests, k \in {"request", "cancel"} : inbound' = Append(inbound, Frame(k, x))
        PROVE  ConservedFor(r)'
      BY <1>3, <2>1, <2>2, ConservedByRest
  <2>3. UNCHANGED held => ~SendDone(Callee[r], r)
      BY <1>3, HeldFacts, InFlightFacts DEF SendDone
  <2>4. CASE RouteRequest \/ RouteResponse \/ RouteCancel
      BY <1>3, <2>1, <2>4, ConservedByRouting
  <2>5. CASE Deliver
      BY <1>3, <2>1, <2>5, ConservedByDelivery
  <2>6. CASE Stop \/ Abort
      BY <2>6 DEF Stop, Abort
  <2>7. CASE ClientsLeave \/ \E x \in Requests : Submit(x) \/ Cancel(x)
    <3>1. UNCHANGED <<delivering, log, items, held>> /\ WaysSame
        BY <2>7, WaysKept DEF ClientsLeave, Submit, Cancel, tasks, subsystems, history
    <3>2. inbound' = inbound
          \/ \E x \in Requests, k \in {"request", "cancel"} : inbound' = Append(inbound, Frame(k, x))
        BY <2>7 DEF ClientsLeave, Submit, Cancel, tasks
    <3> QED
        BY <2>2, <2>3, <3>1, <3>2
  <2>8. ASSUME NEW s \in Subsystems, Bridge(s) PROVE ConservedFor(r)'
      BY <1>3, <2>1, <2>8, ConservedByBridge
  <2>9. ASSUME NEW s \in Subsystems, NEW x \in Requests, SendItem(s, x) \/ SendDone(s, x) \/ Call(s, x)
        PROVE  ConservedFor(r)'
      BY <1>3, <2>1, <2>9, ConservedBySending
  <2>10. ASSUME NEW s \in Subsystems,
                Surface(s) \/ DispatcherEnds(s) \/ Take(s) \/ Leave(s) \/ LoopEnds(s)
                \/ \E x \in Requests : GiveUp(s, x)
         PROVE  ConservedFor(r)'
    <3>1. UNCHANGED <<delivering, log, items, inbound>> /\ WaysSame
        BY <2>10, SubsystemEffect DEF tasks
    <3>2. CASE SendDone(Callee[r], r)
        BY <1>3, <2>1, <3>2, InFlightFacts, ConservedBySending
    <3> QED
        BY <2>2, <3>1, <3>2
  <2> QED
      BY <1>3, <2>4, <2>5, <2>6, <2>7, <2>8, <2>9, <2>10 DEF Next, Route, Subsystem
<1> QED
  BY <1>1, <1>2, <1>3

\* What is conserved channel by channel is conserved along the whole way.
LEMMA ConservedMeans == TypeOK /\ UnroutedIsNew /\ Conserved => ResponsesConserved
<1> SUFFICES ASSUME TypeOK, UnroutedIsNew, Conserved, NEW r \in DOMAIN inflight
             PROVE  LET way == delivering \o TowardsRouter(Callee[r])
                        item == Frame("item", r)
                        done == Frame("done", r)
                    IN  /\ \A i \in 1 .. Len(log[r]) : log[r][i] = "item"
                        /\ Len(log[r]) + Count(way, item) = items[r]
                        /\ Count(way, done) = IF Waiting(r) \/ r \in quit THEN 0 ELSE 1
                        /\ \A i, j \in 1 .. Len(way) : way[i] = item /\ way[j] = done => i < j
  BY DEF ResponsesConserved
<1>0. PICK c \in Subsystems : c = Callee[r] /\ r \in Requests /\ ~Unrouted(r)
  BY InFlightFacts
<1>1. PICK d \in Seq(Frames), i \in Seq(Frames), p \in Seq(Frames), q \in Seq(Frames) :
            d = delivering /\ i = inbound /\ p = carrying[c] /\ q = toKernel[c]
  BY WayFacts, InFlightFacts
<1>2. PICK w \in Seq(Frames) : w = p \o q /\ w = Way(c)
  BY <1>1, ConcatFacts DEF Way
<1>3. PICK z \in Seq(Frames) : z = i \o w /\ TowardsRouter(c) = z
  <2>1. TowardsRouter(c) = (i \o p) \o q
      BY <1>1 DEF TowardsRouter
  <2>2. (i \o p) \o q = i \o (p \o q)
      BY ConcatAssoc
  <2>3. i \o w \in Seq(Frames)
      BY ConcatFacts
  <2> QED
      BY <1>2, <2>1, <2>2, <2>3
<1>4. PICK a \in Frames, b \in Frames : a = Frame("item", r) /\ b = Frame("done", r) /\ a # b
  BY InFlightFacts
<1>5. (Waiting(r) \/ r \in quit) <=> Pending(r)
  BY <1>0, PlacesFacts DEF Pending
<1>6. PICK l \in Seq(Kinds), n \in Nat, m \in Nat :
            l = log[r] /\ n = items[r] /\ m = IF Pending(r) THEN 0 ELSE 1
  BY InFlightFacts
<1>7. Conserves(d, i, w, l, n, m, a, b)
  BY <1>0, <1>1, <1>2, <1>4, <1>6 DEF Conserved, ConservedFor
<1>8. ASSUME NEW f
      PROVE  Count(d \o z, f) = Count(d, f) + (Count(i, f) + Count(w, f))
             /\ Count(d, f) \in Nat /\ Count(i, f) \in Nat /\ Count(w, f) \in Nat
  <2>1. Count(d \o z, f) = Count(d, f) + Count(z, f) /\ Count(d, f) \in Nat
      BY CountConcat
  <2>2. Count(i \o w, f) = Count(i, f) + Count(w, f) /\ Count(i, f) \in Nat /\ Count(w, f) \in Nat
      BY CountConcat
  <2> QED
      BY <1>3, <2>1, <2>2
<1>9. Len(l) + Count(d \o z, a) = n
  <2>1. Len(l) + (Count(d, a) + Count(i, a) + Count(w, a)) = n
      BY <1>7 DEF Conserves
  <2>2. Count(d, a) + Count(i, a) + Count(w, a) = Count(d, a) + (Count(i, a) + Count(w, a))
      BY <1>8
  <2> QED
      BY <1>8, <2>1, <2>2
<1>10. Count(d \o z, b) = m
  <2>1. Count(d, b) + Count(i, b) + Count(w, b) = m
      BY <1>7 DEF Conserves
  <2>2. Count(d, b) + Count(i, b) + Count(w, b) = Count(d, b) + (Count(i, b) + Count(w, b))
      BY <1>8
  <2> QED
      BY <1>8, <2>1, <2>2
<1>11. Ordered(d \o z, a, b)
  <2>1. RangeOf(i \o w) = RangeOf(i) \cup RangeOf(w)
      BY RangeFacts
  <2>2. Ordered(i \o w, a, b)
      BY <1>7, OrderedConcat DEF Conserves
  <2>3. b \notin RangeOf(d) \/ a \notin RangeOf(z)
      BY <1>3, <1>7, <2>1 DEF Conserves
  <2>4. Ordered(d, a, b) /\ Ordered(z, a, b)
      BY <1>3, <1>7, <2>2 DEF Conserves
  <2> QED
      BY <2>3, <2>4, OrderedConcat
<1>12. d \o z = delivering \o TowardsRouter(Callee[r])
  BY <1>0, <1>1, <1>3
<1>13. \A k \in 1 .. Len(l) : l[k] = "item"
  BY <1>7 DEF Conserves
<1> QED
  BY <1>4, <1>5, <1>6, <1>9, <1>10, <1>11, <1>12, <1>13 DEF Ordered

-----------------------------------------------------------------------------
(* The invariant as a whole.                                                *)

KInv ==
    /\ PlaceInv
    /\ RoutedOnce /\ UnroutedIsNew /\ HandedOnce
    /\ Settled /\ NoneForgotten /\ StopsSettled
    /\ Conserved

\* It holds in the beginning.
LEMMA InitKInv == Init => KInv
<1> SUFFICES ASSUME Init PROVE KInv
  OBVIOUS
<1>1. PlaceInv /\ TypeOK
  BY InitPlaceInv, InitType
<1>2. /\ made = {} /\ inflight = [r \in {} |-> None] /\ router = "running" /\ quit = {}
      /\ items = [r \in Requests |-> 0] /\ log = [r \in Requests |-> <<>>]
      /\ held = [s \in Subsystems |-> {}]
  BY DEF Init
<1>3. /\ inbound = <<>> /\ delivering = <<>> /\ UnderWay = {} /\ RangeOf(delivering) = {}
      /\ \A s \in Subsystems : Way(s) = <<>> /\ Handed(s) = <<>> /\ RangeOf(Handed(s)) = {}
      /\ RangeOf(<<>>) = {}
  BY InitNothing, RangeOfFew
<1>4. Once(<<>>)
  BY OnceMoves, FrameFacts DEF Once
<1>5. RoutedOnce
  BY <1>3, <1>4 DEF RoutedOnce
<1>6. UnroutedIsNew
  BY <1>2, <1>3 DEF UnroutedIsNew, Untouched
<1>7. HandedOnce
  BY <1>2, <1>3, <1>4 DEF HandedOnce
<1>8. Settled /\ NoneForgotten /\ StopsSettled /\ Conserved
  BY <1>2 DEF Settled, NoneForgotten, StopsSettled, Conserved
<1> QED
  BY <1>1, <1>5, <1>6, <1>7, <1>8 DEF KInv

\* Every step keeps it.
LEMMA KInvStep == KInv /\ [Next]_vars => KInv'
<1> SUFFICES ASSUME KInv, [Next]_vars PROVE KInv'
  OBVIOUS
<1>1. /\ PlaceInv /\ TypeOK /\ FramesMade /\ BridgesEnded /\ RouterEnded
      /\ RoutedOnce /\ UnroutedIsNew /\ HandedOnce /\ Settled /\ NoneForgotten /\ StopsSettled
      /\ Conserved
  BY DEF KInv, PlaceInv
<1>2. PlaceInv'
  BY <1>1, PlaceInvStep
<1>3. RoutedOnce' /\ UnroutedIsNew' /\ HandedOnce'
  BY <1>1, RoutedOnceStep, UnroutedIsNewStep, HandedOnceStep
<1>4. Settled' /\ NoneForgotten' /\ StopsSettled'
  BY <1>1, SettledStep, NoneForgottenStep, StopsSettledStep
<1>5. Conserved'
  BY <1>1, ConservedStep
<1> QED
  BY <1>2, <1>3, <1>4, <1>5 DEF KInv

\* It holds throughout.
LEMMA KInvCorrect == Spec => []KInv
BY InitKInv, KInvStep, PTL DEF Spec

\* Through bridges, full channels, handlers that go away and the stop of the
\* loop, a request is never just forgotten, unless the task of the router is
\* aborted (kernel.rs:260-264, router.rs:106-114 and 170-188).
THEOREM NoRequestForgottenCorrect == Spec => []NoRequestForgotten
<1>1. KInv => NoRequestForgotten
  BY NoneForgottenMeans DEF KInv, PlaceInv
<1> QED
  BY <1>1, KInvCorrect, PTL

\* When the loop of the router has ended by itself, every request was told its
\* end, or its handler is gone and took it along (kernel.rs:253-279).
THEOREM StopsSettledCorrect == Spec => []StopsSettled
<1>1. KInv => StopsSettled
  BY DEF KInv
<1> QED
  BY <1>1, KInvCorrect, PTL

\* What a handler has sent for a request in flight arrives complete and in
\* order, whatever else the bridges and the channel of the router carry
\* (kernel.rs:257-266, router.rs:197-215).
THEOREM ResponsesConservedCorrect == Spec => []ResponsesConserved
<1>1. KInv => ResponsesConserved
  BY ConservedMeans DEF KInv, PlaceInv
<1> QED
  BY <1>1, KInvCorrect, PTL
=============================================================================
