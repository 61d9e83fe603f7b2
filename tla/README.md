# TLA+ models of muninn-kernel

This directory holds TLA+ models of `muninn-kernel`, an in-memory kernel that routes request,
response and cancel frames between subsystems and subscribers over Tokio channels. TLC checks the
models on small instances; TLAPS proves what matters most for every value of the constants.
Source paths below are relative to the crate (`src/src/` in the repository layout of
`PROJECT.json`, which maps every definition to the lines it models).

## 1. Inventory of the system

| Component | State | Operations | Interacts with |
|---|---|---|---|
| Stream flow control (`backpressure.rs`) | per-stream `counts` and the `paused` set, each under its own mutex; a bounded channel | `StreamController::send`, `ack_stream`, `Subscriber::recv` | called by the router; `recv` by the application |
| Router (`router.rs`) | `pending` (request → subscribers), `active` (request → handler channel and hook) | `route_request`, `route_response`, `route_cancel`, `handle_sigcall_management` | takes `inbound`, `try_send`s to handlers, awaits `StreamController::send` |
| Pipe (`pipe.rs`) | two crossed bounded channels; a `pending` map per end; the dispatcher task | `recv`, `caller`, `Caller::call`, `CallStream::recv`/`drop`, `run_dispatcher` | subsystem on one end, kernel on the other |
| Syscall host (`kernel.rs`, `register_syscall`) | `active_tokens`, the receive loop, one task per request | cancel hook, loop, handler task | hook called by the router; replies over the pipe |
| Kernel wiring (`kernel.rs`) | route table, subscribers, bridges | `register`, `subscribe`, `start` | builds all of the above |
| Sigcall registry (`sigcall.rs`) | name → (owner, channel) under one mutex | `register`, `unregister`, `unregister_all`, `lookup`, `list` | looked up by the router, changed by anyone |
| Frame sender (`sender.rs`), frame (`frame.rs`), errors, `Syscall` trait | none | builders, conversions | used everywhere |

A request goes from a client through `inbound` to the router, which records it and `try_send`s it to
a handler. The handler's responses come back through its pipe and a bridge task into `inbound`, and
are fanned out to every subscriber. A cancel triggers the handler's token, is forwarded to the
handler, and settles the request at once.

What is hard about this code is listed line by line in `PROJECT.json` under `hazards`. In short:

* *flow control*: two mutexes and a channel, touched by three threads, no operation atomic over any
  two of them; the counts are only approximately the contents of the channel;
* *router*: cancel against terminal response; handlers that answer late, twice or never; a fan-out
  that fails for one subscriber; the routing state of both maps;
* *pipe*: the dispatcher clones a sender, unlocks, sends, locks again; calls are registered, dropped,
  abandoned and failed in between; either side goes away;
* *syscall host*: hook, loop and handler task race for one token entry; handlers panic;
* *sigcall registry*: senders outlive the lock they were looked up under; connections close first
  and are cleaned up after later; a reconnect shares its owner id with the connection it replaces;
* *lifecycle*: router, bridges, pipes, dispatchers and subsystems form circles of bounded channels;
  who waits for whom when all are full, who closes what first, and what a stop loses.

What makes each component correct:

* flow control: the channel stays a bounded FIFO in which nothing follows a terminal frame; counts
  stay within one of the truth; tracking of an ended stream disappears; a send returns;
* router: a settled request was answered to every subscriber with room; `pending` and `active` agree;
  a handler gets one cancel, after its request; the loop never stops;
* pipe: frames reach their call, complete and in order; the entry of a call that was sent or failed
  goes with the call (that of one abandoned before it was sent stays); streams wake up on close;
* syscall host: tokens exactly for tasks that can be cancelled; one terminal frame per request;
  cancels reach handlers;
* sigcall registry: a registration stands until its owner gives it up; after a clean-up no
  name leads to nobody, unless it is registered later still;
* kernel: every request made is worked on, answered, or its handler gone; what was sent arrives once
  and in order; the shutdown comes to its end, after the last answer, once every `PipeEnd` is gone. A
  `register_syscall` loop never drops its own: it waits for its bridge and the bridge for it, so that
  the two keep each other, `inbound` and the router alive for as long as the runtime runs.

## 2. Modules

| Module | Models | Kind |
|---|---|---|
| `DeliveryChannel` | what a subscriber is promised of its channel | abstract specification |
| `StreamController` | `backpressure.rs` | detailed; implements `DeliveryChannel` |
| `StreamController_proofs` | | proofs about `StreamController` |
| `Router`, `MCRouter` | `router.rs`, with the abstract channel per subscriber | detailed; its use of each channel implements `DeliveryChannel` |
| `Router_proofs` | | proofs about `Router` |
| `Pipe` | `pipe.rs`, one end in dispatched mode | detailed |
| `Pipe_proofs` | | proofs about `Pipe` |
| `SyscallHost` | `Kernel::register_syscall` | detailed |
| `SyscallHost_proofs` | | proofs about `SyscallHost` |
| `SigcallRegistry`, `MCSigcallRegistry` | `sigcall.rs`, with the router's lookup and use of the sender | detailed |
| `SigcallRegistry_proofs` | | proofs about `SigcallRegistry` |
| `Kernel`, `MCKernel` | `Kernel::start`: all of the above wired together, and the end of it | composition |
| `Kernel_proofs` | | proofs about `Kernel` |
| `ChannelFacts` | | lemmas about channels as sequences (append, take, what they hold), for the proofs |

`DeliveryChannel` is where the components meet. `StreamController` shows that one controller with its
subscriber implements it, provided its caller sends nothing of a stream after the terminal frame.
`Router` shows that the event loop meets that proviso, whatever handlers and clients do
(`ChannelsAsPromised` has the same abstract module, once per subscriber). Each of the two may
therefore use the simpler view of the other.

### How state and actions correspond to the code

**StreamController.** `log`/`recvd` are the mpsc channel: frames accepted so far, and how many of
them were received. `counts` and `paused` are the two maps; a missing count is 0. Each thread has a
program counter `pc[t]`; a step is one critical section of one mutex, or one channel operation.
`flow_state` is `SendItem` (reads the count) and `FlowState` (reads and updates `paused`);
`update_flow_state` is `Reread` and `UpdateFlowState`; `send` continues through `TryDeliver`,
`BlockingDeliver`, `Stalled`, `Increment`; `recv` is `Recv` followed by `Decrement` and the shared
sections. The timeout of `blocking_deliver` is nondeterministic: it may expire whenever the channel
is full. `seen` and `frame` are the locals; they are reset when dead only to save states.

**Router.** `RouteRequest`, `RouteResponse`, `RouteCancel` are the three handlers up to their first
await; `Deliver` is one awaited `StreamController::send`, `EndFanOut` the code after the loop over
the subscribers. `Accepts` is the outcome of a send in terms of `DeliveryChannel`. `lost` remembers
who missed what. Handlers (`Respond`) may answer any request they have taken, at any time, with any
status, Cancel included; bridges are merged into `inbound`. A handler that has gone takes no more
requests (`HandlerGone`), but its tasks, its pipe and its bridge still answer those it has taken. A
client may cancel at any time, also before the request it names is sent (`Cancel`).

**Pipe.** `pending` is the map; `dispatcher`, `current`, `found` the control state of
`run_dispatcher`; `call[c]` the progress of one `Caller::call` and its `CallStream`. `Abandon` is the
future of `call` dropped while it waits for room. The peer may lose its sender and its receiver in
either order. It sends requests of its own (`PeerRequest`) and answers (`PeerAnswer`): a request only
after taking it, and nothing after its terminal frame (the protocol of `syscall.rs`). Every frame
carries the number `nr` under which it was sent, which stands for its id: it tells frames apart that
are otherwise equal, and says in which order they were sent.

**SyscallHost.** `raw` is the bounded pipe, `inbox` the unbounded default channel behind it, `tokens`
the keys of `active_tokens`. `CancelHook` and `ForwardCancel` are the two halves of `route_cancel`;
`LoopCancel`, `LoopRequest` and `Spawn` the receive loop; `ReturnOk`, `ReturnErr`, `SendError`,
`Cleanup`, `Panic` the handler's task. `ReturnSilently` is a handler built on `finish_items`, one of
whose items does not serialize, that ignores the error: the helper returns before its terminal frame
(sender.rs:53, 104), and nobody sends one. A handler that passes the error on is `ReturnErr`. The
bridge and the inbound channel are merged into `replies`.

**SigcallRegistry.** `registry` is the map behind the mutex; each call that succeeds is one action,
and a call that returns an error changes nothing and is left out. The registry does not know whether a
connection is open: `Register` and `Unregister` may come after its close and after `UnregisterAll`.
`routing` is what `route_request`
keeps between `lookup` and `try_send`. `claims` and `late` are history: what each connection has
registered and not given up, and how many requests it was sent for a name it has lost.

**Kernel.** Each channel is a sequence (`inbound`, `toSub[s]`, `toKernel[s]`, `default[s]`), each task
a flag that says whether it runs, and `carrying[s]`, `delivering` are the frame that a bridge or the
router holds across an await. Nothing counts senders: who holds which end is said by `InboundClosed`,
`ToSubClosed`, `ToSubGone` and `Sending`, from the clones that `register`, `start` and `PipeEnd` make.
`Stop`, `Abort`, `BridgeEnds`, `BridgeFails`, `DispatcherEnds`, `LoopEnds` and `Leave` drop them. The
components are reduced to what the others see: the two maps of the router to one (`Router!MapsAgree`),
one subscriber to the log of what it is sent (`StreamController`), a call's entry and a handler's
task to one step each; a `CallStream` is kept until its end (`Pipe` drops them). A cancel that comes
back to the subsystem that made the call is taken by its own dispatcher (`Surface`).

## 3. Runs

| Run | Instance | Shows |
|---|---|---|
| `stream` | 1 tracked stream of 4 items that is also acknowledged by hand, 1 untracked frame, capacity 2, watermarks 2/0 | type invariant; counts within one; tracking reclaimed; refinement of `DeliveryChannel`; sends return; a delivered terminal frame ends tracking for good |
| `router_safety` | 2 requests, 1 hooked handler, 2 subscribers of capacity 1, 3 responses, 1 cancel | settled means told; maps agree; cancels ordered, also when one overtakes its request; hooked means cancelled; channels as promised |
| `router_liveness` | 2 requests, a sigcall owner and name that change, 1 mortal subscriber | every request is handled; a cancel of a request the router has taken settles it |
| `pipe` | 2 calls, 2 ids, 3 peer frames, capacity 1 | frames find their call; only abandoned calls leave a dead entry; streams wake up |
| `host` | 2 requests, capacities 1, 1 item each, one handler may panic or end silently | tokens match tasks; one terminal frame; cancels arrive; requests start |
| `sigcalls` | 2 owners, one with 2 connections, a free, a built-in and a reserved name, 3 requests | registrations stand; no orphans but those registered after the clean-up; one late request at most |
| `kernel` | 2 subsystems, one dispatched, every channel of capacity 1, a client's request and a subsystem's call to itself, 1 item each, 1 cancel, subsystems that leave or fail, an abort | no request forgotten; responses complete and in order; the stop loses nothing; answers arrive however full the channels are; the shutdown ends |

and five runs in which the code does something else than a comment or document says:

| Run | Property | Says | The code |
|---|---|---|---|
| `router_stalled` | `StalledStreamIsCancelled` | backpressure.rs:57, 67 | the outcome `Stalled` is ignored; the stream goes on with a hole |
| `pipe_late` | `NoStreamHangs` | pipe.rs:334-335 | a call made after the dispatcher's exit hangs |
| `host_dropped` | `DroppedCancelIsHarmless` | router.rs:261-263 | a cancel of a still queued request is lost when the pipe is full |
| `kernel_calls` | `SettledCallsAreAnswered` | DESIGN.md:203 | the answer to a subsystem's call goes to the subscribers; its `CallStream` stays empty |
| `kernel_gone` | `GoneFailsFast` | router.rs:168-169 | a subsystem in dispatched mode that has gone is handed one more request, which is lost |

Some more disagreements were met that need no run of their own to be seen:

* README.md:324 says that a slow subscriber does not block unrelated streams; the router awaits each
  delivery (router.rs:213-215), so every other request waits behind it, up to the stall timeout. That
  is why the liveness of `Router` needs the timeout.
* kernel.rs:196-197 says that the token is removed after a panic too; the code after the await is not
  reached. `TokensMatchTasks` states what does hold: the token of a panicked task stays.
* README.md:334 says that tracking is cleaned up immediately after a terminal frame; while an
  acknowledgement is under way it may set the paused flag again. `EndedStreamForgotten` states what
  does hold: the flag goes when the terminal frame was received.
* backpressure.rs:384-385 says that `Subscriber::recv` returns `None` once the kernel is gone; the
  subscriber's own controller holds a sender of the channel, so it never does.
* README.md:334 also says that terminal frames are always delivered; one that finds the channel full
  until the stall timeout is given up (backpressure.rs:347-357) and not sent again. `SettledMeansTold`
  exempts the subscriber that lost it (`LostTerminal`).
* backpressure.rs:231-232 says that `flow_state` reads the count and the paused set atomically; the
  count is read first, under its own lock, and may have changed (`SendItem`, `FlowState`).
* backpressure.rs:293-294 says that `update_flow_state` never enters `Paused`; lines 306-307 do.
* pipe.rs:222-224 and 285-287 say that the pending map does not accumulate entries of abandoned calls.
  A call abandoned while it waits for room has inserted its entry (pipe.rs:188-192) and has no
  `CallStream` yet whose drop removes it; its request was never sent, so no frame does either: the
  entry stays until the dispatcher exits. `OnlyAbandonedLeak` states what does hold: no other dead
  entry stays.
* pipe.rs:224-225 says that the receiver of a `CallStream` is dropped first; `Drop::drop` removes the
  entry before the fields are dropped (`DropStream`).
* A cancel that overtakes its request finds no entry and is dropped (router.rs:257-273); the request
  then runs, and nobody cancels it. router.rs:241-245 speaks of callers that are unblocked:
  `CancelUnblocks` claims it for requests the router has taken, `CancelFollowsRequest` that the
  overtaking cancel does not reach the handler either.
* sigcall.rs:137-139 says that `unregister_all` prevents orphaned handlers; a register that races the
  end of its connection may come after it, succeeds, and leaves one. `NoOrphans` states what does hold.
* After a reconnect under the same owner id, `unregister_all` for the old connection removes what the
  new one has registered. `RegistrationStands` exempts connections that share an owner.

Every property of a passing run has a mutant: a plausible bug in one definition (marked `Mutant:`
before the definition it replaces) under which TLC finds the property violated.

### Bounds, and why they are enough

Channels have capacity 1 or 2: full, empty and, at 2, partly filled all occur, and so does the
drift between count and contents (which needs two frames in flight). Watermarks are at or below the
capacity, so the paused path is entered and left; at the defaults of the code it never is
(`PausedUnreachableCorrect`). `MaxItems`, `MaxResponses`, `MaxCancels`, `MaxChanges`, `MaxStrays`
and `MaxFrames` bound the work of the environment; three of each suffice for an item, a terminal
frame and something that races them. Two requests, calls or streams are the least that can be
confused with each other. The run `stream` has one tracked stream beside the untracked frame: what
several streams share is the channel, and the theorems below hold for every set of streams.
`Router_safety` uses symmetry of the requests (no liveness is checked there). Ids are used once
(`ReuseIds = FALSE`): frames are created with fresh UUIDs.

In `Kernel` every channel holds one frame, which makes each circle of full channels as short as it
can be; one cancel suffices to reach each of its cases, and a call of a subsystem to itself uses both
directions of one pipe and its dispatcher for both purposes. In `SigcallRegistry` two connections of
one owner and one of another are the least for an owner, its successor and a competitor; three
requests let a second late one come if a sender could be kept.

No run checks for deadlock: clients and handlers are free to stop. That nobody waits for ever who
should not is stated by the liveness properties.

### Fairness

* `StreamController`: weak fairness of the router inside `send` and of the subscriber inside the
  acknowledgement: both are Tokio tasks that hold no lock across an await, and the timer fires. No
  fairness of `recv`, except as the hypothesis of `EndedStreamForgotten`.
* `Router`: weak fairness of the loop. Its only await is a delivery, which the timeout ends. None of
  clients, handlers or subscribers.
* `Pipe`: weak fairness of the dispatcher, which only waits for frames (its channels to streams are
  unbounded), and of the cleanup after a failed send.
* `SyscallHost`: weak fairness of the dispatcher and of the receive loop. None of handlers or router.
* `Kernel`: weak fairness of the router, strong fairness of each bridge: both are Tokio tasks, and a
  bridge that waits for room in `inbound` competes with others, whom the channel serves in turn. None
  of clients, dispatchers, subsystems or handlers.

## 4. Proofs

`StreamController_proofs` proves, for all constants that satisfy the named assumptions of
`StreamController` (positive capacity, natural watermarks and bounds, `Untracked` not a stream):

* `TypeCorrect`: `TypeOK`, directly inductive.
* `ProtocolCorrect`: the channel is bounded, and nothing of a stream follows its terminal frame.
  The strengthening says that a stream whose terminal frame was handed to `send` is in `ended`, and
  that the frame the router is about to deliver is not in the log yet.
* `CountUpperCorrect`, `CountLowerCorrect`: the drift of the counts. `Buffered` is a set of places
  in the log, so that a delivery adds one element and a receive removes one; the lemmas on
  cardinalities say what each step does to it. An increment that is still due counts as done
  (`Counted`), an acknowledgement still due counts as not done (`Unacked`): with these the upper
  bound is inductive, and the lower one for streams neither ended nor acked by hand.
* `PausedUnreachableCorrect`: from the upper bound, the capacity and what threads have `seen`.
* `TrackingReclaimedCorrect`: a stream whose terminal frame was received and whose send is over has
  no count and no flag, because whoever comes last removes both.
* `Refinement`: `Spec => ImplementsDeliveryChannel`, each step being `Accept`, `Take`, `Close` or a
  stutter.

`SyscallHost_proofs` proves, for every set of requests and every capacity:

* `TypeCorrect` and `TokensCorrect` together, from the invariant
  `IInv == TypeOK /\ QueuedOnce /\ TokensMatchTasks`. None of the three is inductive alone: the loop
  may only insert a token for a request that has neither task nor cancelled token. `QueuedOnce` says
  so: a queued request frame is the only one of its request, and nothing has happened to that
  request. To keep it, a cancel must not touch a queued request, which is `TokensMatchTasks`.
* `OneTerminalCorrect`: `OneTerminalFrame`, inductive given the types.

`SigcallRegistry_proofs` proves `TypeCorrect`, `RegistrationStandsCorrect`, `NoOrphansCorrect` and
`AtMostOneLateCorrect` for every set of names, connections and owners and every capacity. The first
three are inductive together with the types. The last needs `LateIsOver`: a connection that was
sent a late request has lost the name and the router does not hold its sender for that name any
more, so that neither this dispatch nor a later lookup sends it a second one.

`Router_proofs` proves, for every number of requests, handlers and subscribers and every capacity,
the five invariants of `Router` and the refinement `ChannelsCorrect`: `Spec => ChannelsAsPromised`.
None of the invariants is inductive, because a fan-out takes one step per frame and subscriber and
in between the maps, the frames to deliver and the logs are out of step. Two invariants say what they
owe each other in the middle of a fan-out:

* `FanOutInv` (for `TypeCorrect`, `SettledMeansToldCorrect`, `MapsAgreeCorrect` and the refinement):
  a request is in `inbound` once, before the router knows it (`RequestsOnce`); what is delivered is
  the answer to one request and its last frame is terminal exactly if the request is being settled
  (`FanOutShape`); the maps differ in that request only (`MapsInStep`); who has not been told the end
  of a settled request is still in front of the fan-out (`EndIsTold`), and who has been told it is
  behind (`EndIsLast`), so nothing of a stream follows its terminal frame. That last fact is the
  proviso of `DeliveryChannel`.
* `CancelInv` (for `CancelFollowsRequestCorrect` and `HookedMeansCancelledCorrect`): a request whose
  hook was called is settled, by its cancel frame (`HookedIsSettled`); a request that can still be
  cancelled was sent to its handler, and no cancel of it was (`CancelIsNew`).

`Pipe_proofs` proves, for every number of calls, ids and frames and every capacity:

* `TypeCorrect`, and `OnlyAbandonedLeakCorrect` from `MapInv`, whether ids are used once or again. The
  dispatcher looks up, sends and removes in three critical sections; `StreamEnds` says that a call
  that was sent a terminal frame has lost its entry or is the one about to lose it.
* `FramesFindTheirCallCorrect` from `MapInv` and `OnceInv`, under the hypothesis `ReuseIds = FALSE`
  (ids are fresh UUIDs). `OnceInv` follows a request to the peer (`OutIsNew`, `ServedIsOpen`) and its
  answers back: the channel holds the last of the frames sent (`Numbered`), nothing follows a terminal
  answer (`AnswersEnd`), so the entry of a live call stands until its terminal frame was taken
  (`EntryStands`), and what streams and `recv` hold was taken before what comes next
  (`HeldWereTaken`).

`Kernel_proofs` proves the four invariants of `Kernel` for every set of subsystems and requests, every
assignment of callees, every capacity, and whoever leaves or fails. All follow from one invariant,
`KInv`:

* `PlaceInv`, for `TypeCorrect`: every frame belongs to a request that was made and is where it
  belongs (`FramesMade`); a task that has ended leaves nothing in its hands, and, unless the router
  was aborted, ended after those that feed it (`BridgesEnded`, `RouterEnded`).
* `RoutedOnce`, `UnroutedIsNew`, `HandedOnce`: a request frame is in one place at a time, nothing was
  done about a request the router has not seen, and a handler is handed it once.
* `Settled`: a request the router has seen is in flight, or its end is told or being told.
* `NoneForgotten`, for `NoRequestForgottenCorrect`: the property channel by channel. Most of its proof
  says that no step moves a request or its end out of sight: what leaves one channel is in the next.
* `StopsSettled` is not inductive on its own: at the moment of the `Stop` it needs `NoneForgotten`
  with every channel drained and every bridge gone.
* `Conserved`, for `ResponsesConservedCorrect`: for each request in flight, frames sent on, being sent
  and under way balance the items sent, channel by channel. The lemmas on `Count` and `Ordered` say
  that moving the head of one channel to the end of the next keeps count and order, also when frames
  of other requests are in between.

The assumptions are those each model names: channels have room for at least one frame, bounds are
natural numbers, the value that stands for "none" is none of the others, a callee is a registered
subsystem, and an owner of a sigcall is not a subsystem. The code meets them: Tokio panics on a
channel of capacity 0, `None` is no id, every subsystem of the model is registered before `start`.

Every safety property of a passing run, and both refinements of `DeliveryChannel`, are thus theorems.
Only model-checked are the liveness properties: `SendReturns`, `EndedStreamForgotten`,
`RequestsAreHandled`, `CancelUnblocks`, `StreamsWakeUp`, `CancelReachesHandler`, `RequestsAreStarted`,
`AnswersArrive` and `ShutdownCompletes`. They rest on fairness, and so on ENABLED, which TLAPS does not
reason about. That the code differs from its documents in the five places of section 3 is shown by
TLC's counterexamples. What ties the reduced router, pipe and host inside `Kernel` to the modules
that model them in full is the correspondence of section 2, not a proof.

## 5. Not modelled, and the plan

Payloads, trace data, timestamps, `expires_in` (read by no code), error codes and messages, and the
serde conversions are abstracted away: no property tells them apart. `Bulk` is an item. `Caller::send`,
`StreamController::buffered`/`sender` and `SigcallRegistry::list`/`len` change no state modelled here.
A request id submitted twice is not modelled: ids are fresh UUIDs. Nor is a prefix registered twice
before `start`. Names that begin with `sigcall:` cannot be registered, but the name `sigcall` and
names under a built-in prefix can: such a registration is never looked up, which `BuiltIn` models.

Order of work:

1. `DeliveryChannel`, `StreamController` with proofs, `Router`, `Pipe`, `SyscallHost` (done).
2. `SigcallRegistry` with proofs; `finish_items` as a handler of the host (done).
3. `Kernel`: bridges, dispatchers, calls between subsystems, shutdown (done).
4. Proofs of `Router`, `Pipe` and `Kernel` (done).
5. Left: a refinement from `Router` to the reduced router of `Kernel`.
