-------------------------- MODULE SyscallHost_proofs --------------------------
(***************************************************************************)
(* What SyscallHost promises for every value of its constants: tokens and  *)
(* tasks agree, and a task that ends has sent exactly one terminal frame.  *)
(***************************************************************************)
EXTENDS SyscallHost, ChannelFacts

\* Nothing has happened to r: no task, and no token that was ever cancelled.
Untouched(r) == task[r] = "none" /\ spawning # r /\ r \notin triggered

IsRequest(f) == f.kind = "request"

\* The request frames of q are those of distinct, untouched requests.
Distinct(q) ==
    \A i, j \in 1 .. Len(q) : IsRequest(q[i]) /\ IsRequest(q[j]) /\ q[i].req = q[j].req => i = j
AllUntouched(q) ==
    \A i \in 1 .. Len(q) : IsRequest(q[i]) => q[i].req \in seen /\ Untouched(q[i].req)

\* A request is queued once, before anything else happens to it.
QueuedOnce ==
    /\ \A r \in Requests \ seen : Untouched(r)
    /\ AllUntouched(raw) /\ AllUntouched(inbox)
    /\ Distinct(raw) /\ Distinct(inbox)
    /\ \A i \in 1 .. Len(raw), j \in 1 .. Len(inbox) :
          IsRequest(raw[i]) /\ IsRequest(inbox[j]) => raw[i].req # inbox[j].req

IInv == TypeOK /\ QueuedOnce /\ TokensMatchTasks

-----------------------------------------------------------------------------
\* What a frame of the pipe is made of.
LEMMA FrameParts ==
    /\ \A r \in Requests : \A k \in {"request", "cancel"} :
          Frame(k, r) \in Frames /\ Frame(k, r).kind = k /\ Frame(k, r).req = r
    /\ \A f \in Frames : f.kind \in {"request", "cancel"} /\ f.req \in Requests
BY DEF Frame, Frames

\* Every step keeps the types.  The task of a request that the loop starts must
\* not exist yet: that is what QueuedOnce is needed for.
LEMMA TypeStep == TypeOK /\ QueuedOnce /\ [Next]_vars => TypeOK'
<1> SUFFICES ASSUME TypeOK, QueuedOnce, [Next]_vars
             PROVE  TypeOK'
    OBVIOUS
<1> USE NoRequestIsNone, ChannelsHaveRoom, BoundIsNat, PanicsAreRequests
<1>1. ASSUME NEW r \in Requests, RouteRequest(r)
      PROVE  TypeOK'
    <2>1. raw' \in Seq(Frames) /\ Len(raw') <= Capacity
        BY <1>1, AppendFacts, FrameParts DEF RouteRequest, HasRoom, TypeOK
    <2> QED BY <1>1, <2>1 DEF RouteRequest, TypeOK, handlers
<1>2. ASSUME NEW r \in Requests, CancelHook(r)
      PROVE  TypeOK'
    BY <1>2 DEF CancelHook, Trigger, TypeOK, handlers
<1>3. CASE ForwardCancel
    <2>1. forwarding \in Requests /\ forwarding \in seen
        BY <1>3 DEF ForwardCancel, TypeOK
    <2> DEFINE f == Frame("cancel", forwarding)
    <2>a. f \in Frames
        BY <2>1, FrameParts
    <2>b. raw' = raw \/ (raw' = Append(raw, f) /\ Len(raw) < Capacity)
        BY <1>3 DEF ForwardCancel, HasRoom
    <2> HIDE DEF f
    <2>2. raw' \in Seq(Frames) /\ Len(raw') <= Capacity
        <3>1. CASE raw' = raw
            BY <3>1 DEF TypeOK
        <3>2. CASE raw' = Append(raw, f) /\ Len(raw) < Capacity
            BY <3>2, <2>a, AppendFacts DEF TypeOK
        <3> QED BY <2>b, <3>1, <3>2
    <2>3. forwarded' \subseteq seen' /\ dropped' \subseteq seen'
        BY <1>3, <2>1 DEF ForwardCancel, TypeOK
    <2> QED BY <1>3, <2>1, <2>2, <2>3 DEF ForwardCancel, TypeOK, handlers
<1>4. CASE RouteReply
    BY <1>4 DEF RouteReply, TypeOK, handlers
<1>5. CASE Surface
    <2>1. raw' \in Seq(Frames) /\ Len(raw') <= Capacity /\ inbox' \in Seq(Frames)
        BY <1>5, AppendFacts, TailFacts DEF Surface, TypeOK
    <2> QED BY <1>5, <2>1 DEF Surface, TypeOK, router, handlers
<1>6. CASE LoopCancel
    BY <1>6, TailFacts DEF LoopCancel, Takes, Trigger, TypeOK, router, handlers
<1>7. CASE LoopRequest
    <2>1. inbox # <<>> /\ inbox \in Seq(Frames) /\ IsRequest(Head(inbox))
        BY <1>7 DEF LoopRequest, Takes, TypeOK, IsRequest
    <2>2. Head(inbox).req \in Requests /\ inbox' \in Seq(Frames)
        BY <1>7, <2>1, TailFacts, FrameParts DEF LoopRequest, Takes
    <2>3. task[Head(inbox).req] = "none"
        BY <2>1, TailFacts DEF QueuedOnce, AllUntouched, Untouched
    <2> QED BY <1>7, <2>2, <2>3 DEF LoopRequest, TypeOK, router, handlers
<1>8. CASE Spawn
    BY <1>8 DEF Spawn, Step, TypeOK, TaskStates, router, handlers
<1>9. ASSUME NEW r \in Requests, SendItem(r)
      PROVE  TypeOK'
    <2>1. /\ replies' \in Seq(Replies) /\ Len(replies') = Len(replies) + 1
          /\ Len(replies) - routed < ReplyCapacity
        BY <1>9, AppendFacts DEF SendItem, Reply, Replies, TypeOK
    <2>2. items' \in [Requests -> 0 .. MaxItems]
        BY <1>9 DEF SendItem, TypeOK
    <2> QED BY <1>9, <2>1, <2>2 DEF SendItem, TypeOK, router
<1>10. ASSUME NEW r \in Requests, ReturnOk(r) \/ SendError(r)
       PROVE  TypeOK'
    <2> DEFINE f == [req |-> r, terminal |-> TRUE]
    <2>a. f \in Replies
        BY DEF Replies
    <2>b. replies' = Append(replies, f) /\ Len(replies) - routed < ReplyCapacity
        BY <1>10 DEF ReturnOk, SendError, Reply
    <2> HIDE DEF f
    <2>1. /\ replies' \in Seq(Replies) /\ Len(replies') = Len(replies) + 1
          /\ Len(replies) - routed < ReplyCapacity
        BY <2>a, <2>b, AppendFacts DEF TypeOK
    <2>2. /\ UNCHANGED <<router, raw, inbox, spawning, tokens, triggered, items, routed>>
          /\ task' = [task EXCEPT ![r] = "cleanup"]
          /\ task[r] # "none"
        BY <1>10 DEF ReturnOk, SendError, Step
    <2>3. task' \in [Requests -> TaskStates] /\ (spawning' # NoRequest => task'[spawning'] = "none")
        BY <2>2 DEF TypeOK, TaskStates
    <2>4. UNCHANGED <<active, forwarding, seen, forwarded, dropped>>
        BY <2>2 DEF router
    <2> QED BY <2>1, <2>2, <2>3, <2>4 DEF TypeOK
<1>11. ASSUME NEW r \in Requests, ReturnErr(r) \/ ReturnSilently(r) \/ Panic(r) \/ Cleanup(r)
       PROVE  TypeOK'
    BY <1>11 DEF ReturnErr, ReturnSilently, Panic, Cleanup, Step, TypeOK, TaskStates, Finished,
                 router, handlers
<1>12. CASE UNCHANGED vars
    BY <1>12 DEF vars, TypeOK
<1> QED BY <1>1, <1>2, <1>3, <1>4, <1>5, <1>6, <1>7, <1>8, <1>9, <1>10, <1>11, <1>12
        DEF Next, Loop, Task

\* Every step keeps tokens and tasks in agreement.
LEMMA TokensStep == IInv /\ [Next]_vars => TokensMatchTasks'
<1> SUFFICES ASSUME TypeOK, QueuedOnce, TokensMatchTasks, [Next]_vars
             PROVE  TokensMatchTasks'
    BY DEF IInv
<1> USE NoRequestIsNone
<1>1. CASE \/ \E r \in Requests : RouteRequest(r) \/ SendItem(r)
           \/ ForwardCancel \/ RouteReply \/ Surface \/ UNCHANGED vars
    BY <1>1 DEF RouteRequest, SendItem, ForwardCancel, RouteReply, Surface, vars, router, handlers,
                TokensMatchTasks
<1>2. ASSUME NEW r \in Requests, CancelHook(r)
      PROVE  TokensMatchTasks'
    BY <1>2 DEF CancelHook, Trigger, TokensMatchTasks, handlers
<1>3. CASE LoopCancel
    BY <1>3 DEF LoopCancel, Trigger, TokensMatchTasks, router, handlers
<1>4. CASE LoopRequest
    <2>1. inbox # <<>> /\ inbox \in Seq(Frames) /\ IsRequest(Head(inbox))
        BY <1>4 DEF LoopRequest, Takes, TypeOK, IsRequest
    <2>2. Untouched(Head(inbox).req)
        BY <2>1, TailFacts DEF QueuedOnce, AllUntouched
    <2>3. spawning = NoRequest /\ spawning' = Head(inbox).req
        BY <1>4 DEF LoopRequest, Takes
    <2> QED BY <1>4, <2>2, <2>3
            DEF LoopRequest, Untouched, TokensMatchTasks, router, handlers
<1>5. CASE Spawn
    BY <1>5 DEF Spawn, Step, TokensMatchTasks, TypeOK, router, handlers
<1>6. ASSUME NEW r \in Requests,
             \/ ReturnOk(r) \/ ReturnSilently(r) \/ ReturnErr(r) \/ Panic(r) \/ SendError(r)
             \/ Cleanup(r)
      PROVE  TokensMatchTasks'
    <2>1. r # spawning
        BY <1>6 DEF ReturnOk, ReturnSilently, ReturnErr, Panic, SendError, Cleanup, TypeOK
    <2>2. CASE Cleanup(r)
        BY <2>1, <2>2 DEF Cleanup, Step, TokensMatchTasks, TypeOK, handlers
    <2>3. CASE ReturnOk(r) \/ ReturnSilently(r) \/ ReturnErr(r) \/ Panic(r) \/ SendError(r)
        <3>1. /\ task' = [task EXCEPT ![r] = task'[r]]
              /\ task[r] \in {"dispatch", "failing"}
              /\ task'[r] \in {"failing", "cleanup", "silent cleanup", "panicked"}
              /\ UNCHANGED <<tokens, triggered, spawning>>
            BY <2>3 DEF ReturnOk, ReturnSilently, ReturnErr, Panic, SendError, Step, TypeOK
        <3> QED BY <3>1 DEF TokensMatchTasks, TypeOK
    <2> QED BY <1>6, <2>2, <2>3
<1> QED BY <1>1, <1>2, <1>3, <1>4, <1>5, <1>6 DEF Next, Loop, Task

\* A step that neither queues frames nor touches an untouched request.
LEMMA QueueKept ==
    ASSUME QueuedOnce, raw' = raw, inbox' = inbox, seen' = seen,
           \A r \in Requests : Untouched(r) => Untouched(r)',
           raw \in Seq(Frames), inbox \in Seq(Frames)
    PROVE  QueuedOnce'
<1>1. \A i \in 1 .. Len(raw) : raw[i].req \in Requests
    BY FrameParts
<1>2. \A i \in 1 .. Len(inbox) : inbox[i].req \in Requests
    BY FrameParts
<1>3. AllUntouched(raw)' /\ AllUntouched(inbox)'
    BY <1>1, <1>2 DEF QueuedOnce, AllUntouched
<1>4. \A r \in Requests \ seen' : Untouched(r)'
    BY DEF QueuedOnce
<1> QED BY <1>3, <1>4 DEF QueuedOnce, Distinct

\* Appending a cancel frame queues no request.
LEMMA QueueCancel ==
    ASSUME QueuedOnce, TypeOK, NEW f \in Frames, ~IsRequest(f),
           raw' = Append(raw, f), inbox' = inbox, seen' = seen,
           task' = task, spawning' = spawning, triggered' = triggered
    PROVE  QueuedOnce'
<1>1. /\ Len(raw) \in Nat /\ Len(raw') = Len(raw) + 1 /\ raw'[Len(raw) + 1] = f
      /\ \A i \in 1 .. Len(raw) : raw'[i] = raw[i]
    BY AppendFacts DEF TypeOK
<1>2. \A i \in 1 .. Len(raw') : IsRequest(raw'[i]) => i \in 1 .. Len(raw) /\ raw'[i] = raw[i]
    BY <1>1
<1>3. \A r : Untouched(r) => Untouched(r)'
    BY DEF Untouched
<1>4. AllUntouched(raw)' /\ AllUntouched(inbox)'
    BY <1>2, <1>3 DEF QueuedOnce, AllUntouched
<1>5. Distinct(raw)' /\ Distinct(inbox)'
    BY <1>2 DEF QueuedOnce, Distinct
<1>6. \A i \in 1 .. Len(raw'), j \in 1 .. Len(inbox') :
         IsRequest(raw'[i]) /\ IsRequest(inbox'[j]) => raw'[i].req # inbox'[j].req
    BY <1>2 DEF QueuedOnce
<1>7. \A r \in Requests \ seen' : Untouched(r)'
    BY <1>3 DEF QueuedOnce
<1> QED BY <1>4, <1>5, <1>6, <1>7 DEF QueuedOnce

\* The router queues a request it has not seen: no frame of it is queued yet.
LEMMA QueueRequest ==
    ASSUME QueuedOnce, TypeOK, NEW r \in Requests, RouteRequest(r)
    PROVE  QueuedOnce'
<1> DEFINE f == Frame("request", r)
<1>1. f \in Frames /\ f.req = r
    BY FrameParts
<1>2. raw' = Append(raw, f) /\ seen' = seen \cup {r} /\ r \notin seen
    BY DEF RouteRequest
<1> HIDE DEF f
<1>3. inbox' = inbox /\ task' = task /\ spawning' = spawning /\ triggered' = triggered
    BY DEF RouteRequest
<1>4. /\ Len(raw) \in Nat /\ Len(raw') = Len(raw) + 1 /\ raw'[Len(raw) + 1] = f
      /\ \A i \in 1 .. Len(raw) : raw'[i] = raw[i]
    BY <1>1, <1>2, AppendFacts DEF TypeOK
<1>5. \A i \in 1 .. Len(raw') :
         \/ i \in 1 .. Len(raw) /\ raw'[i] = raw[i]
         \/ i = Len(raw) + 1 /\ raw'[i] = f
    BY <1>4
<1>6. \A x : Untouched(x) => Untouched(x)'
    BY <1>3 DEF Untouched
<1>7. Untouched(r)
    BY <1>2 DEF QueuedOnce
<1>8. \A i \in 1 .. Len(raw) : IsRequest(raw[i]) => raw[i].req # r
    BY <1>2 DEF QueuedOnce, AllUntouched
<1>9. \A j \in 1 .. Len(inbox) : IsRequest(inbox[j]) => inbox[j].req # r
    BY <1>2 DEF QueuedOnce, AllUntouched
<1>10. AllUntouched(raw)' /\ AllUntouched(inbox)'
    BY <1>1, <1>2, <1>3, <1>5, <1>6, <1>7 DEF QueuedOnce, AllUntouched
<1>11. Distinct(raw)' /\ Distinct(inbox)'
    BY <1>1, <1>3, <1>5, <1>8 DEF QueuedOnce, Distinct
<1>12. \A i \in 1 .. Len(raw'), j \in 1 .. Len(inbox') :
          IsRequest(raw'[i]) /\ IsRequest(inbox'[j]) => raw'[i].req # inbox'[j].req
    BY <1>1, <1>3, <1>5, <1>9 DEF QueuedOnce
<1>13. \A x \in Requests \ seen' : Untouched(x)'
    BY <1>2, <1>6 DEF QueuedOnce
<1> QED BY <1>10, <1>11, <1>12, <1>13 DEF QueuedOnce

\* Moving the first frame from the pipe to the default channel.
LEMMA QueueSurface ==
    ASSUME QueuedOnce, TypeOK, Surface
    PROVE  QueuedOnce'
<1>1. /\ raw # <<>> /\ raw' = Tail(raw) /\ inbox' = Append(inbox, Head(raw))
      /\ seen' = seen /\ task' = task /\ spawning' = spawning /\ triggered' = triggered
    BY DEF Surface, router
<1>2. /\ Len(raw) \in Nat \ {0} /\ Len(raw') = Len(raw) - 1
      /\ \A i \in 1 .. Len(raw') : raw'[i] = raw[i + 1]
      /\ Head(raw) \in Frames /\ Head(raw) = raw[1]
    BY <1>1, TailFacts DEF TypeOK
<1>3. /\ Len(inbox) \in Nat /\ Len(inbox') = Len(inbox) + 1 /\ inbox'[Len(inbox) + 1] = raw[1]
      /\ \A i \in 1 .. Len(inbox) : inbox'[i] = inbox[i]
    BY <1>1, <1>2, AppendFacts DEF TypeOK
<1>4. \A i \in 1 .. Len(inbox') :
         \/ i \in 1 .. Len(inbox) /\ inbox'[i] = inbox[i]
         \/ i = Len(inbox) + 1 /\ inbox'[i] = raw[1]
    BY <1>3
<1>5. \A i \in 1 .. Len(raw') : i + 1 \in 1 .. Len(raw) /\ raw'[i] = raw[i + 1]
    BY <1>2
<1>6. \A x : Untouched(x) => Untouched(x)'
    BY <1>1 DEF Untouched
<1>7. 1 \in 1 .. Len(raw)
    BY <1>2
<1>8. AllUntouched(raw)' /\ AllUntouched(inbox)'
    BY <1>1, <1>4, <1>5, <1>6, <1>7 DEF QueuedOnce, AllUntouched
<1>9. Distinct(raw)'
    <2> SUFFICES ASSUME NEW i \in 1 .. Len(raw'), NEW j \in 1 .. Len(raw'),
                        IsRequest(raw'[i]), IsRequest(raw'[j]), raw'[i].req = raw'[j].req
                 PROVE  i = j
        BY DEF Distinct
    <2>1. i + 1 = j + 1
        BY <1>5 DEF QueuedOnce, Distinct
    <2> QED BY <2>1, <1>2
<1>10. Distinct(inbox)'
    BY <1>4, <1>7 DEF QueuedOnce, Distinct
<1>11. \A i \in 1 .. Len(raw'), j \in 1 .. Len(inbox') :
          IsRequest(raw'[i]) /\ IsRequest(inbox'[j]) => raw'[i].req # inbox'[j].req
    <2> SUFFICES ASSUME NEW i \in 1 .. Len(raw'), NEW j \in 1 .. Len(inbox'),
                        IsRequest(raw'[i]), IsRequest(inbox'[j])
                 PROVE  raw'[i].req # inbox'[j].req
        OBVIOUS
    <2>1. CASE j \in 1 .. Len(inbox) /\ inbox'[j] = inbox[j]
        BY <2>1, <1>5 DEF QueuedOnce
    <2>2. CASE inbox'[j] = raw[1]
        <3>1. i + 1 # 1
            BY <1>2
        <3> QED BY <2>2, <3>1, <1>5, <1>7 DEF QueuedOnce, Distinct
    <2> QED BY <2>1, <2>2, <1>4
<1>12. \A x \in Requests \ seen' : Untouched(x)'
    BY <1>1, <1>6 DEF QueuedOnce
<1> QED BY <1>8, <1>9, <1>10, <1>11, <1>12 DEF QueuedOnce

\* The loop takes the first frame of inbox; a request is the only one touched.
LEMMA QueueTake ==
    ASSUME QueuedOnce, TypeOK, inbox # <<>>, inbox' = Tail(inbox), raw' = raw, seen' = seen,
           \A r \in Requests :
               Untouched(r) /\ (IsRequest(Head(inbox)) => r # Head(inbox).req) => Untouched(r)'
    PROVE  QueuedOnce'
<1>1. /\ Len(inbox) \in Nat \ {0} /\ Len(inbox') = Len(inbox) - 1
      /\ \A i \in 1 .. Len(inbox') : inbox'[i] = inbox[i + 1]
      /\ Head(inbox) = inbox[1]
    BY TailFacts DEF TypeOK
<1>2. \A i \in 1 .. Len(inbox') :
         i + 1 \in 1 .. Len(inbox) /\ i + 1 # 1 /\ inbox'[i] = inbox[i + 1]
    BY <1>1
<1>3. 1 \in 1 .. Len(inbox)
    BY <1>1
<1>4. \A i \in 1 .. Len(raw) : raw[i].req \in Requests
    BY FrameParts DEF TypeOK
<1>5. \A i \in 1 .. Len(inbox) : inbox[i].req \in Requests
    BY FrameParts DEF TypeOK
<1>6. AllUntouched(raw)'
    BY <1>1, <1>3, <1>4 DEF QueuedOnce, AllUntouched
<1>7. AllUntouched(inbox)'
    <2> SUFFICES ASSUME NEW i \in 1 .. Len(inbox'), IsRequest(inbox'[i])
                 PROVE  inbox'[i].req \in seen' /\ Untouched(inbox[i].req)'
        BY DEF AllUntouched
    <2>1. i + 1 \in 1 .. Len(inbox) /\ IsRequest(inbox[i + 1])
        BY <1>2
    <2>2. inbox[i + 1].req \in seen /\ Untouched(inbox[i + 1].req)
        BY <2>1 DEF QueuedOnce, AllUntouched
    <2>3. IsRequest(inbox[1]) => inbox[i + 1].req # inbox[1].req
        BY <2>1, <1>2, <1>3 DEF QueuedOnce, Distinct
    <2>4. ASSUME NEW r \in Requests, r = inbox[i + 1].req
          PROVE  Untouched(r)'
        BY <2>2, <2>3, <2>4, <1>1
    <2>5. ASSUME NEW r \in Requests, r = inbox'[i].req
          PROVE  Untouched(r)'
        BY <2>4, <2>5, <1>2
    <2> QED BY <2>1, <2>2, <2>5, <1>2, <1>5 DEF Untouched
<1>8. Distinct(inbox)'
    <2> SUFFICES ASSUME NEW i \in 1 .. Len(inbox'), NEW j \in 1 .. Len(inbox'),
                        IsRequest(inbox'[i]), IsRequest(inbox'[j]), inbox'[i].req = inbox'[j].req
                 PROVE  i = j
        BY DEF Distinct
    <2>1. i + 1 = j + 1
        BY <1>2 DEF QueuedOnce, Distinct
    <2> QED BY <2>1, <1>1
<1>9. \A i \in 1 .. Len(raw'), j \in 1 .. Len(inbox') :
         IsRequest(raw'[i]) /\ IsRequest(inbox'[j]) => raw'[i].req # inbox'[j].req
    BY <1>2 DEF QueuedOnce
<1>10. \A x \in Requests \ seen' : Untouched(x)'
    <2>1. IsRequest(Head(inbox)) => Head(inbox).req \in seen
        BY <1>1, <1>3 DEF QueuedOnce, AllUntouched
    <2> QED BY <2>1 DEF QueuedOnce
<1>11. Distinct(raw)'
    BY DEF QueuedOnce, Distinct
<1> QED BY <1>6, <1>7, <1>8, <1>9, <1>10, <1>11 DEF QueuedOnce

\* Every step keeps the queues in order.
LEMMA QueueStep == IInv /\ [Next]_vars => QueuedOnce'
<1> SUFFICES ASSUME TypeOK, QueuedOnce, TokensMatchTasks, [Next]_vars
             PROVE  QueuedOnce'
    BY DEF IInv
<1>q. raw \in Seq(Frames) /\ inbox \in Seq(Frames)
    BY DEF TypeOK
<1>t. \A r \in Requests : r \in tokens => ~Untouched(r)
    BY DEF TokensMatchTasks, Untouched
<1>1. ASSUME NEW r \in Requests, RouteRequest(r)
      PROVE  QueuedOnce'
    BY <1>1, QueueRequest
<1>2. ASSUME NEW r \in Requests, CancelHook(r)
      PROVE  QueuedOnce'
    <2>1. \A x \in Requests : Untouched(x) => Untouched(x)'
        BY <1>2, <1>t DEF CancelHook, Trigger, Untouched
    <2> QED BY <1>2, <2>1, <1>q, QueueKept DEF CancelHook
<1>3. CASE ForwardCancel
    <2> DEFINE f == Frame("cancel", forwarding)
    <2>1. f \in Frames /\ ~IsRequest(f)
        BY <1>3, FrameParts DEF ForwardCancel, TypeOK, IsRequest
    <2>2. raw' = raw \/ raw' = Append(raw, f)
        BY <1>3 DEF ForwardCancel
    <2> HIDE DEF f
    <2>3. UNCHANGED <<inbox, seen, task, spawning, triggered>>
        BY <1>3 DEF ForwardCancel
    <2>4. CASE raw' = raw
        <3>1. \A x \in Requests : Untouched(x) => Untouched(x)'
            BY <2>3 DEF Untouched
        <3> QED BY <2>3, <2>4, <3>1, <1>q, QueueKept
    <2>5. CASE raw' = Append(raw, f)
        BY <2>1, <2>3, <2>5, QueueCancel
    <2> QED BY <2>2, <2>4, <2>5
<1>4. CASE RouteReply \/ UNCHANGED vars
    <2>1. UNCHANGED <<raw, inbox, seen, task, spawning, triggered>>
        BY <1>4 DEF RouteReply, vars
    <2>2. \A x \in Requests : Untouched(x) => Untouched(x)'
        BY <2>1 DEF Untouched
    <2> QED BY <2>1, <2>2, <1>q, QueueKept
<1>5. CASE Surface
    BY <1>5, QueueSurface
<1>6. CASE LoopCancel
    <2>1. /\ inbox # <<>> /\ inbox' = Tail(inbox) /\ raw' = raw /\ seen' = seen
          /\ task' = task /\ spawning' = spawning /\ Trigger(Head(inbox).req)
        BY <1>6 DEF LoopCancel, Takes, router
    <2>2. \A x \in Requests : Untouched(x) => Untouched(x)'
        BY <2>1, <1>t DEF Trigger, Untouched
    <2> QED BY <2>1, <2>2, QueueTake
<1>7. CASE LoopRequest
    <2>1. /\ inbox # <<>> /\ inbox' = Tail(inbox) /\ raw' = raw /\ seen' = seen
          /\ task' = task /\ triggered' = triggered
          /\ IsRequest(Head(inbox)) /\ spawning' = Head(inbox).req
        BY <1>7 DEF LoopRequest, Takes, router, IsRequest
    <2>2. \A x \in Requests :
             Untouched(x) /\ (IsRequest(Head(inbox)) => x # Head(inbox).req) => Untouched(x)'
        BY <2>1 DEF Untouched
    <2> QED BY <2>1, <2>2, QueueTake
<1>8. CASE Spawn
    <2>1. UNCHANGED <<raw, inbox, seen, triggered>>
        BY <1>8 DEF Spawn, router
    <2>2. \A x \in Requests : Untouched(x) => Untouched(x)'
        BY <1>8, NoRequestIsNone DEF Spawn, Step, Untouched, TypeOK
    <2> QED BY <2>1, <2>2, <1>q, QueueKept
<1>9. ASSUME NEW r \in Requests, Task(r)
      PROVE  QueuedOnce'
    <2>1. UNCHANGED <<raw, inbox, seen, spawning, triggered>> /\ task[r] # "none"
        BY <1>9 DEF Task, SendItem, ReturnOk, ReturnSilently, ReturnErr, Panic, SendError, Cleanup, router
    <2>2. \A x \in Requests \ {r} : task'[x] = task[x]
        BY <1>9 DEF Task, SendItem, ReturnOk, ReturnSilently, ReturnErr, Panic, SendError, Cleanup, Step, TypeOK
    <2>3. \A x \in Requests : Untouched(x) => Untouched(x)'
        BY <2>1, <2>2 DEF Untouched
    <2> QED BY <2>1, <2>3, <1>q, QueueKept
<1> QED BY <1>1, <1>2, <1>3, <1>4, <1>5, <1>6, <1>7, <1>8, <1>9 DEF Next, Loop

\* The invariant holds at the start...
LEMMA InitIInv == Init => IInv
<1> SUFFICES ASSUME Init
             PROVE  IInv
    OBVIOUS
<1> USE NoRequestIsNone, ChannelsHaveRoom, BoundIsNat
<1>1. TypeOK
    BY DEF Init, TypeOK, Finished, TaskStates, Replies, Frames
<1>2. QueuedOnce
    BY DEF Init, QueuedOnce, AllUntouched, Distinct, Untouched
<1>3. TokensMatchTasks
    BY DEF Init, TokensMatchTasks
<1> QED BY <1>1, <1>2, <1>3 DEF IInv

\* ... and in every reachable state.
LEMMA Invariance == Spec => []IInv
<1>1. IInv /\ [Next]_vars => IInv'
    BY TypeStep, TokensStep, QueueStep DEF IInv
<1> QED BY InitIInv, <1>1, PTL DEF Spec

\* Channels stay within their bounds, and the dispatcher, the loop and the tasks
\* hold what they should: the loop of register_syscall never starts a request
\* that has a task.
THEOREM TypeCorrect == Spec => []TypeOK
<1>1. IInv => TypeOK
    BY DEF IInv
<1> QED BY <1>1, Invariance, PTL

\* The token map of register_syscall has an entry for a request exactly as long
\* as its handler can be cancelled, or if it panicked.
THEOREM TokensCorrect == Spec => []TokensMatchTasks
<1>1. IInv => TokensMatchTasks
    BY DEF IInv
<1> QED BY <1>1, Invariance, PTL

-----------------------------------------------------------------------------
(* Exactly one terminal frame per task.                                     *)

\* A task that has not sent its terminal frame sends a frame: if that is the
\* terminal one, the task goes to its cleanup.
LEMMA ReplySent ==
    ASSUME TypeOK, OneTerminalFrame, NEW r \in Requests, NEW t \in BOOLEAN,
           task[r] \in {"dispatch", "failing"},
           replies' = Append(replies, [req |-> r, terminal |-> t]),
           task' = IF t THEN [task EXCEPT ![r] = "cleanup"] ELSE task
    PROVE  OneTerminalFrame'
<1> DEFINE f == [req |-> r, terminal |-> t]
<1>1. f \in Replies /\ f.req = r /\ f.terminal = t
    BY DEF Replies
<1>2. /\ Len(replies) \in Nat /\ Len(replies') = Len(replies) + 1
      /\ replies'[Len(replies) + 1] = f
      /\ \A i \in 1 .. Len(replies) : replies'[i] = replies[i]
    BY <1>1, AppendFacts DEF TypeOK
<1>3. TerminalsOf(r) = {}
    BY DEF OneTerminalFrame
<1>4. ASSUME NEW x \in Requests
      PROVE  TerminalsOf(x)' = IF x = r /\ t THEN {Len(replies) + 1} ELSE TerminalsOf(x)
    <2>1. \A i \in 1 .. Len(replies') : i \in TerminalsOf(x)' <=>
              \/ i \in 1 .. Len(replies) /\ replies[i] = [req |-> x, terminal |-> TRUE]
              \/ i = Len(replies) + 1 /\ f = [req |-> x, terminal |-> TRUE]
        BY <1>2 DEF TerminalsOf
    <2>2. f = [req |-> x, terminal |-> TRUE] <=> x = r /\ t
        OBVIOUS
    <2>3. TerminalsOf(x)' \subseteq 1 .. Len(replies')
        BY DEF TerminalsOf
    <2> HIDE DEF f
    <2>4. CASE x = r /\ t
        <3>1. \A i \in 1 .. Len(replies) : replies[i] # [req |-> x, terminal |-> TRUE]
            BY <2>4, <1>3 DEF TerminalsOf
        <3>2. \A i \in 1 .. Len(replies') : i \in TerminalsOf(x)' <=> i = Len(replies) + 1
            BY <2>1, <2>2, <2>4, <3>1
        <3>3. Len(replies) + 1 \in 1 .. Len(replies')
            BY <1>2
        <3>4. TerminalsOf(x)' = {Len(replies) + 1}
            BY <2>3, <3>2, <3>3
        <3> QED BY <2>4, <3>4
    <2>5. CASE ~(x = r /\ t)
        BY <2>1, <2>2, <2>3, <2>5, <1>2 DEF TerminalsOf
    <2> QED BY <2>4, <2>5
<1>5. ASSUME NEW x \in Requests
      PROVE  task'[x] \in {"cleanup", "done"} <=> TerminalsOf(x)' # {}
    <2>1. task[x] \in {"cleanup", "done"} <=> TerminalsOf(x) # {}
        BY DEF OneTerminalFrame
    <2>2. CASE x = r /\ t
        <3>1. task'[x] = "cleanup"
            BY <2>2 DEF TypeOK
        <3>2. TerminalsOf(x)' = {Len(replies) + 1}
            BY <2>2, <1>4
        <3> QED BY <3>1, <3>2
    <2>3. CASE ~(x = r /\ t)
        <3>1. task'[x] = task[x]
            BY <2>3 DEF TypeOK
        <3>2. TerminalsOf(x)' = TerminalsOf(x)
            BY <2>3, <1>4
        <3> QED BY <3>1, <3>2, <2>1
    <2> QED BY <2>2, <2>3
<1>6. ASSUME NEW x \in Requests, NEW i \in TerminalsOf(x)', NEW j \in i + 1 .. Len(replies')
      PROVE  replies'[j].req # x
    <2>1. i \in TerminalsOf(x) /\ x # r
        <3>1. CASE x = r
            <4>1. i = Len(replies) + 1
                BY <3>1, <1>3, <1>4
            <4> QED BY <4>1, <1>2
        <3>2. CASE x # r
            BY <3>2, <1>4
        <3> QED BY <3>1, <3>2
    <2>2. i \in 1 .. Len(replies)
        BY <2>1 DEF TerminalsOf
    <2>3. CASE j = Len(replies) + 1
        BY <2>1, <2>3, <1>1, <1>2
    <2>4. CASE j # Len(replies) + 1
        <3>1. j \in i + 1 .. Len(replies) /\ j \in 1 .. Len(replies)
            BY <2>2, <2>4, <1>2
        <3>2. replies[j].req # x
            BY <3>1, <2>1 DEF OneTerminalFrame
        <3> QED BY <3>1, <3>2, <1>2
    <2> QED BY <2>3, <2>4
<1> QED BY <1>5, <1>6 DEF OneTerminalFrame

\* A step that sends nothing, and ends no task before its terminal frame.
LEMMA NothingSent ==
    ASSUME OneTerminalFrame, replies' = replies,
           \A r \in Requests : task'[r] \in {"cleanup", "done"} <=> task[r] \in {"cleanup", "done"}
    PROVE  OneTerminalFrame'
<1>1. \A r \in Requests : TerminalsOf(r)' = TerminalsOf(r)
    BY DEF TerminalsOf
<1> QED BY <1>1 DEF OneTerminalFrame

\* A task of register_syscall that ran to its end sent exactly one terminal
\* frame, after all its items: the handler's own, or the error frame of the kernel.
THEOREM OneTerminalCorrect == Spec => []OneTerminalFrame
<1>1. Init => OneTerminalFrame
    <2> SUFFICES ASSUME Init
                 PROVE  OneTerminalFrame
        OBVIOUS
    <2>1. replies = <<>> /\ \A r \in Requests : task[r] = "none"
        BY DEF Init
    <2>2. 1 .. Len(replies) = {}
        BY <2>1
    <2>3. \A r \in Requests : TerminalsOf(r) = {}
        BY <2>2 DEF TerminalsOf
    <2> QED BY <2>1, <2>3 DEF OneTerminalFrame
<1>2. TypeOK /\ OneTerminalFrame /\ [Next]_vars => OneTerminalFrame'
    <2> SUFFICES ASSUME TypeOK, OneTerminalFrame, [Next]_vars
                 PROVE  OneTerminalFrame'
        OBVIOUS
    <2>1. ASSUME NEW r \in Requests, SendItem(r)
          PROVE  OneTerminalFrame'
        BY <2>1, ReplySent DEF SendItem, Reply
    <2>2. ASSUME NEW r \in Requests, ReturnOk(r) \/ SendError(r)
          PROVE  OneTerminalFrame'
        BY <2>2, ReplySent DEF ReturnOk, SendError, Reply, Step
    <2>3. CASE \/ \E r \in Requests : RouteRequest(r) \/ CancelHook(r)
               \/ ForwardCancel \/ RouteReply \/ Surface \/ LoopCancel \/ LoopRequest
               \/ UNCHANGED vars
        <3>1. replies' = replies /\ task' = task
            BY <2>3 DEF RouteRequest, CancelHook, ForwardCancel, RouteReply, Surface, LoopCancel,
                        LoopRequest, vars, handlers
        <3> QED BY <3>1, NothingSent
    <2>4. CASE Spawn
        <3>1. spawning \in Requests /\ task[spawning] = "none"
            BY <2>4 DEF Spawn, TypeOK
        <3>2. replies' = replies /\ task' = [task EXCEPT ![spawning] = "dispatch"]
            BY <2>4 DEF Spawn, Step, handlers
        <3> QED BY <3>1, <3>2, NothingSent DEF TypeOK
    <2>5. ASSUME NEW r \in Requests, ReturnErr(r) \/ ReturnSilently(r) \/ Panic(r)
          PROVE  OneTerminalFrame'
        <3>1. /\ replies' = replies /\ task[r] = "dispatch"
              /\ \/ task' = [task EXCEPT ![r] = "failing"]
                 \/ task' = [task EXCEPT ![r] = "silent cleanup"]
                 \/ task' = [task EXCEPT ![r] = "panicked"]
            BY <2>5 DEF ReturnErr, ReturnSilently, Panic, Step, handlers
        <3> QED BY <3>1, NothingSent DEF TypeOK
    <2>6. ASSUME NEW r \in Requests, Cleanup(r)
          PROVE  OneTerminalFrame'
        <3>1. /\ replies' = replies
              /\ \/ task[r] = "cleanup" /\ task' = [task EXCEPT ![r] = "done"]
                 \/ task[r] = "silent cleanup" /\ task' = [task EXCEPT ![r] = "silent"]
            BY <2>6 DEF Cleanup, Step, handlers
        <3> QED BY <3>1, NothingSent DEF TypeOK
    <2> QED BY <2>1, <2>2, <2>3, <2>4, <2>5, <2>6 DEF Next, Loop, Task
<1> QED BY <1>1, <1>2, TypeCorrect, PTL DEF Spec
=============================================================================
