# Verification models of SIL Kit

SIL Kit connects simulation participants (processes or threads) to one
simulation without a central instance: after a registry has introduced them to
each other they talk peer to peer, find each other's services, go through a
common lifecycle, and agree on a virtual time. This directory holds TLA+ models
of that orchestration, the TLC configurations that check them, and proofs.

Paths below are relative to `src/sil-kit/`; `orchestration/` is short for
`SilKit/source/services/orchestration/`, `vasio/` for `SilKit/source/core/vasio/`
and `requests/` for `SilKit/source/core/requests/`.

## 1. Inventory

| Component | State it keeps | Operations | What makes it correct |
|---|---|---|---|
| Time synchronization (`orchestration/TimeSyncService`, `TimeConfiguration`) | own current and next step, last announcement of each peer, flags of the policy (executing, announced, hop-on evaluated), peers that request dynamic steps | announce a step, receive an announcement, check and execute, complete an asynchronous step, discover a joiner, lose a peer, switch dynamic steps on and off | steps of all participants in the order of their times; nobody stuck; a joiner starts at the present; coordinated participants start at 0; dynamic steps end where others are due |
| Lifecycle (`orchestration/LifecycleService`, `LifecycleManagement`, `LifecycleStates`) | current state, flags of the user's calls, final state promise | user calls, reaction to system states, handlers, abort | coordinated participants start together, stop together, terminate; an abort reaches everybody; Shutdown is final |
| System monitor and tracker (`orchestration/SystemMonitor`, `SystemStateTracker`) | last status of each participant, system state | status update, participant lost, required participants set | one system state that follows from the statuses of the required participants; losses are reported |
| System controller (`orchestration/SystemController`) | none | abort the simulation, set the workflow configuration | the command reaches the own lifecycle and all others |
| Request-reply and participant replies (`requests/`) | active barrier, expected replies, initiator per call, replies owed on disconnect | call, return, disconnect | the completion runs once, after every peer has handled what was sent before |
| Time provider, wall clock coupling, watchdog (`orchestration/TimeProvider`, `WatchDog`) | current time, handlers; start time of the running step | start and end of a step, timers | handlers see every step; a hanging step is reported once |
| VAsio connection (`vasio/VAsioConnection`, `ConnectKnownParticipants`, `ConnectPeer`, `RemoteConnectionManager`) | peers, links per message type, pending acknowledges, stage of each connection attempt | connect (directly, by the remote, by proxy), announce, subscribe, acknowledge, send, shut down | everybody is connected or the join fails; no message is lost once a subscription is acknowledged |
| Peers and sockets (`vasio/VAsioPeer`, `VAsioProxyPeer`, `RingBuffer`, `io/`) | send queue, receive ring buffer | send, receive, frame, shut down | the messages of one peer arrive complete, once and in order |
| Registry (`vasio/VAsioRegistry`) | participants per simulation | announcement, disconnect | a name is used once; a newcomer learns of everybody before it |
| Service discovery (`SilKit/source/core/service/`) | services per participant, handlers by kind | created, removed, participant announced, participant lost | each handler hears of each service once, and of its removal |
| RPC and publish/subscribe (`SilKit/source/services/rpc`, `pubsub`) | active calls and timeouts; internal servers and subscribers per counterpart | call, result, timeout, discovery | every call gets one result per server or a timeout |
| CAN, Ethernet, FlexRay, LIN controllers | controller mode, for LIN the status of nodes and the schedule | send, receive, change mode | sequential, except the LIN master and its slaves |
| Logging, metrics, tracing, dashboard, configuration, C interface, utilities, extensions, network simulation | buffers, parsed values | conversions, forwarding | no part in the coordination |

### How they interact

Each participant has **one IO thread** (the io_context of `VAsioConnection`). It
handles received messages, timers, and tasks posted with `ExecuteDeferred`, each
to its end. All messages from one peer arrive over one connection in the order
in which they were sent; nothing is ordered between two peers. A message a
participant sends is posted first (`VAsioConnection.hpp:171`), and delivered to
its own receivers when the posted task runs.

User threads call the services. They mostly set an atomic flag and post a task
(`LifecycleService::Pause`, `Continue`, `Stop`, `AbortSimulation`,
`StartLifecycle`, `CompleteSimulationStep`), so what a call does depends on what
the IO thread has done in between.

The lifecycle sends `ParticipantStatus` messages; every participant's
`SystemMonitor` feeds them to its own tracker; a coordinated lifecycle reacts to
changes of the tracker's system state. `ParticipantReplies` is a barrier that
transitions wait for. When the lifecycle enters Running it starts the time
synchronization, which broadcasts `NextSimTask` messages and calls the user's
simulation step handlers. Discovery tells the time synchronization of peers that
join; the shutdown of a peer reaches, in this order of registration, the
discovery with the time synchronization, the request-reply service and the
system monitor.

### What is hard

* Every participant decides from its own view: statuses and announcements of
  several peers interleave in any order, also with the participant's own.
* User calls race the IO thread: pause and continue around an asynchronous step,
  an abort before or during the start, a stop before the start is known.
* Participants join, leave and crash at any moment, also while others wait for
  their reply or for their next step.
* State captured when a barrier is entered is used when it completes.
* One lost request and everybody waits for ever.

`PROJECT.json` lists these hazards one by one with their lines and the
properties that cover them.

## 2. Modules

| Module | Models | Used by |
|---|---|---|
| `VirtualTime` | abstract specification: one time line, steps in the order of their times | `TimeSync` implements it |
| `TimeSync` | time synchronization between participants | `MCTimeSync`, `TimeSyncProofs`, `TimelineProofs` |
| `SystemStateTracker` | the tracker as operators on a record | `Lifecycle` |
| `Lifecycle` | lifecycle, system monitor and controller, request-reply barrier, composed over connections and posted tasks | `MCLifecycle`, `LifecycleProofs` |
| `Connecting` | joining: registry, direct, remote and proxy connections, leaving | `MCConnecting`, `ConnectingProofs` |
| `Subscriptions` | registration of receivers, acknowledges, history, what the lifecycle waits for | `MCSubscriptions`, `SubscriptionsProofs` |
| `DiscoveryStore` | which subscribers and publishers find each other by their labels | `MCDiscoveryStore`, `DiscoveryStoreProofs` |
| `Rpc` | calls on top of the service discovery between participants | `MCRpc`, `RpcProofs` |
| `MC...` | values for TLC | the runs |
| `VirtualTimeProofs`, `TimeSyncProofs`, `LifecycleProofs`, `ConnectingProofs`, `DiscoveryStoreProofs`, `SubscriptionsProofs`, `RpcProofs` | theorems about the module of that name | |
| `TimelineProofs` | theorems about the order of times in `TimeSync`; extends `TimeSyncProofs` | |

The modules stack as the code does: `Connecting` gives a participant its peers,
`Subscriptions` and `Rpc` start from connected peers, `Rpc` from subscriptions
that are complete when a registration returns (which `Subscriptions` checks as
`SubscribedWhenReturned`), and `Lifecycle` takes a pending subscription or none
as given (`HandlerWaitsForSubscriptions` is about the moment it resumes).

### TimeSync

State: `currentTask`, `myNextTime`, `otherNextTask` and `known` are the fields of
`TimeConfiguration`; `lastSent`, `executing`, `hopOnEvaluated` those of
`SynchronizedPolicy`; `pauseRequested`, `stopRequested`, `state` and
`systemError` what the algorithm reads of the lifecycle and the system monitor.
`dynamicStepPeers` and `dynamicStepEnabled` are `TimeSyncService::_dynamicStepPeers`
and the flag of `TimeConfiguration`. The configuration has three values
(`LifecycleService.cpp:435`): true for those in `Driver`, who request dynamic steps
with their service's announcement (`TimeSyncService.cpp:649`), false for those in
`OptOut`, and absent, the default, for all others, who step dynamically as long as
they know a peer that requests it. `ReceiveServiceCreated` and
`ReceivePeerShutdown` change the set and the flag (`RecomputeDynamicStepEnabled`),
the latter before the step that the removal may trigger is computed.
`todo[p]` is the queue of posted tasks, `channel[p][q]` the connection from p to
q, `awaiting` the replies the barrier of the start still expects.

Actions: `StartLifecycle`, `CallPause`, `CallContinue`, `CallStop` and
`CompleteSimulationStep` run on the user's thread; the actions ending in `Task`
run a posted task; those beginning with `Receive` handle a message; `Disconnect`
is the end of a participant, graceful after it has halted, otherwise a crash.
`ExecuteStep` is `AdvanceTimeAndExecuteSimStep` with the handlers it calls: an
asynchronous participant returns with the step still executing, a blocking one
completes it within the action.

Simplifications:
* The states from ServicesCreated to ReadyToRun are one state, Initializing, left
  by the start barrier; Stopping and all later ones are Halted.
* A `NextSimTask` enters the channels when `SendMsg` is called rather than when
  the posted send runs: a delay the channel has anyway. Own announcements are not
  delivered to the sender (the code ignores them).
* Times are natural numbers up to `MaxTime`, no step being executed beyond it.
  The code's 64 bit nanoseconds last for 292 years.
* `Async` stands for the asynchronous handler, any other participant for the
  blocking one.
* The configured step duration (`StepSize`) does not change while a participant
  runs (`SetStepDuration` is not modelled).
* The configuration of dynamic steps is in place before the first announcement
  arrives. In the code `CreateTimeSyncService` sets it on the user's thread and may
  race with the discovery: the flag is computed under a mutex and set after it has
  been released (`TimeSyncService.cpp:897`), so that the older decision may come
  last. Participants without virtual time, whose services announce neither, are
  left out.

### SystemStateTracker and Lifecycle

A tracker is a record of the status cache and the system state. `Rules` is the
table of `ComputeSystemState` (a list, since the code tries the rules in order),
`UpdateParticipantStatus` and `RemoveParticipant` are its two entry points. The
last one recomputes from the state of an arbitrary required participant, the
first of a hash set, and so the model takes any (`AnyRequired`).

`Lifecycle` keeps for each participant one record `io[p]`, what the IO thread
works on: the state, the barrier (`barrier`, `expected`), the tracker, the peers,
the final state promise and the posted tasks. `start`, `aborted` and `aborting`
are the flags that the user's thread and the IO thread race for. A lifecycle
transition runs to its end in one task, so an intent is an operator from record
to record (`ShutdownIntent`, `StopIntent`, ...), and the states it passes through
appear as the status messages it posts. `NewSystemState` is the reaction of a
coordinated participant, `Completion` what the barrier was called for.

`StartLifecycle` and a received `AbortSimulation` are two steps each where the
order of reading and setting the flags matters (`StartLifecycle` and
`FinishStartLifecycle`, `ReceiveAbortSimulation` and
`SetAbortedBeforeLifecycleStart`).

Simplifications:
* All participants are connected and know the required ones from the start;
  nobody joins, and a name is not used twice.
* The uuid of a barrier call is represented by what the call is for, and the
  bookkeeping of replies owed on disconnect by the replies still expected.
* Whether a subscription is pending when the lifecycle asks for it is any outcome
  for the participants in `Subscribing`; handlers throw or do not for those in
  `Throwing`. The shutdown and abort handlers are left out: what they return or
  throw changes nothing.
* A user calls each operation at most once, and, unless the participant is in
  `Eager`, only once its monitor has reported SystemState::Running.
* The initial call of a new system state handler finds a system state that the
  lifecycle does not react to. `_abortRequested` is never set: aborts are always
  posted, so no handler is running.

### Connecting

State: `phase` is where `JoinSimulation` is, `stage` and `timer` are the fields of
`ConnectKnownParticipants::Peer`, `reverse` the connections that a
`RemoteConnectionManager` is making, `peers` and `named` the peers and the table
`_participantNameToPeer` of the connection, `connected`, `routes` and `proxied` the
registry's `_connectedParticipants`, its own table of names and
`_proxySourceToDestinations`, `second` a second process that announces a name.
`wire` holds the messages on connections between participants, `toRegistry` and
`fromRegistry` those from and to the registry.

Actions: `Join`, `HandshakeTimeout`, `StartConnecting` and `Leave` are the user's;
`DirectSuccess`, `DirectFailure` and `TimerExpired` end an attempt of the origin,
`ReverseSuccess` and `ReverseFailure` one of the target; `ReceiveFromPeer`,
`ReceiveFromRegistry`, `ReceiveAtRegistry` handle a message and `PeerShutdown` a
closed socket. Handling always includes what follows from it: the stage event,
`UpdateStage`, the peer tables, and the answer.

Simplifications:
* A connection attempt is one event that succeeds or fails, at any moment after
  it has begun. `ConnectPeer` tries several URIs one after the other.
* The registry handles a message and its answers in one step, does not crash and
  supports both kinds of relaying. All participants are in one simulation.
* A participant that leaves delivers what it sent before. It does not come back
  under its name; a second process of a name is started at most once.
* If a pair is connected twice and the name's second process goes, the code
  closes sockets of the other end, which is not modelled; the properties leave
  those pairs out (`GaveUp`, `Shadowed`).

### Subscriptions

State: `pendingSync`, `pendingAsync`, `acked`, `hasPending` and `handler` are
`_pendingSubscriptionAcknowledges`, `_pendingAsyncSubscriptionAcknowledges`, the
promise, `_hasPendingAsyncSubscriptions` and the completion handler of the
`VAsioConnection`; `receivers` its `_vasioReceivers`; `link` the number of entries that
a receiver has among the remote receivers of a topic at its publisher. `userWaits` and `ioWaits` are the topic that a blocked
thread waits for. A topic is a network name with a message type.

Actions: `CreateController`, `StartLifecycle` and `Return` run on the user's thread,
`Discover` is a discovery handler that creates a service on the IO thread,
`RunTask` a posted registration, `Receive` the handling of one message with its
answer (`Answer`). `SetPending` includes `SyncSubscriptionsCompleted` and
`AsyncSubscriptionsCompleted`.

Simplifications: one publisher per topic and one receiver per participant and
topic; the history has one message, which is the latest publication; a
participant connects to all it knows in one step (`Connecting` has the details).

### DiscoveryStore

A cluster is a bag of services and handlers. `Minimal` is the choice of the label
with the fewest candidates, together with its side effect on the keys of
`notLabelMap`; `Found` what is compared after it; `Insert` is
`UpdateDiscoveryClusters`. The store is used under one mutex, so each operation is
one action, and what varies is their order: `ServiceCreated`, `ServiceRemoved`,
`RegisterHandler`. `joined` is the effect on `DataSubscriber::_internalSubscribers`.

Simplifications: one topic and media type; a service is not announced again after
its removal; labels of one list have different keys.

### Rpc

A participant is a `ServiceDiscovery` (`known`), what its services keep (`internal`,
`numCounterparts`, `remaining`, `timeouts`, `handles`), posted tasks and wires. The
discovery's step is computed on a record, because the creation of an internal
server is announced within the announcement of the client that caused it
(`Added`, `Matched`, `AddInternalRpcServer`, `Counted`).

A call is two actions (`BeginCall`, `TriggerCall`) as the user's thread reads the
number of counterparts twice; receiving an answer is two (`Receive`,
`FinishReceiving`) as the lock is released before the user's handler is called.
`Tick` is `TimeHandler`.

Simplifications: at most one client and one server per participant; labels are
represented by whether the client has a mandatory one (`Labelled`); the number of
counterparts wraps around at `CountModulus` instead of 2^32; a participant that
crashes loses at most `MaxLost` messages of each wire.

## 3. Runs

Deadlock is not checked: a simulation that has been stopped, or has reached
`MaxTime`, has nothing left to do.

| Run | Instance | Shows |
|---|---|---|
| `TimeSync_coordinated` | 3 coordinated participants, steps 2, 3 and 3; one requests dynamic steps and may stop or crash, one follows it until then, one has opted out and is asynchronous; MaxTime 3; 318 000 states | that `TimeSync` implements `VirtualTime` (everybody starts at 0, steps are in time order, nobody is beyond the next step of another), `NoAbortAmongCoordinated` |
| `TimeSync_join` | 2 running participants, steps 2 and 3, the second asynchronous and opted out of dynamic steps; a third, step 3, that requests them joins at any moment and may leave, which switches them on and off in the first; MaxTime 3; 466 000 states | `Chronology` of what each peer is sent, `AnnouncedAfterCompletion`, `AnnouncedStepsInTimeOrder`, `FirstStepNotInThePast`, `DynamicStepsAlign`, `TypeOK` |
| `TimeSync_live` | one participant paused and continued, another joining, asynchronous, free to leave; MaxTime 3 | `EveryoneAdvances`, `JoinerAdvances` |
| `TimeSync_late_abort` | a coordinated participant joins a running one | `LateCoordinatedAborts` |
| `Lifecycle_coordination` | 2 coordinated participants and an autonomous one with late subscriptions, all required; a stop, a pause and a continue; 738 000 states | `RunsTogether`, `StartsAfterReplies`, `DepartureIsAnnounced`, `TypeOK` |
| `Lifecycle_live` | 2 coordinated participants, one with an asynchronous communication ready handler, throwing handlers and crashes; a stop, a pause and an abort; 107 000 states | `StopSpreads`, `AbortSpreads`, `LossIsReported` |
| `Connecting_pair` | 2 participants with all three kinds of connection, both may time out, leave or crash at any moment; a second process of one name; 18 000 states | `FullMesh`, `NamesReferToPeers`, `OneLinkPerPair`, `LinksStay`, `JoinEnds`, `DepartedAreRemoved` |
| `Subscriptions` | a receiver with a synchronous and an asynchronous service, a publisher that joins, a peer that may leave; 2 publications; 88 000 states | `SubscribedWhenReturned`, `NoPublicationMissed`, `NothingPendingBetweenRegistrations`, `HandlerWaitsForSubscriptions`, `RegistrationReturns`, `HandlerIsInvoked` |
| `DiscoveryStore` | 2 services and 3 handlers with any of 6 lists of labels, in any order; 215 000 states | `JoinedMatch`, `ArrivalIsExact`, `RemovedIsLeft`, `LabelMapIsExact` |
| `Rpc_calls` | a client with a server on its own participant, a second server that joins and may crash; a call with and one without timeout; 53 000 states | `CountedServersReceive`, `CountIsExact`, `NothingAfterTimeout`, `TimedCallsEnd`, `CallsEnd`, `MatchesConnect` |
| `DiscoveryStore_optional`, `Rpc_labels` | findings, below | `MatchingAreJoined`, `UnreachableIsTrue` are violated |

Types are checked, and proved, for `TimeSync` and `Lifecycle`, where they say
something of computed times and derived system states. In the other modules the
comments beside the variables name their values; the proofs state the part of the
types that they use (`MapsOK` in `ConnectingProofs`, `TablesOK` in
`SubscriptionsProofs`).

Why the bounds are enough: the interactions are pairwise plus one observer, so
that three participants contain the cases of a pair seen by a third. Steps of
2 and 3 up to time 3, cut short to 1 where they are dynamic, give common and
distinct step times and each participant a first, a second and a last step; in
`TimeSync_join` the joiner's arrival and departure are possible between any two
steps of the protocol, so that a request for dynamic steps comes and goes in the
middle of a step, with the announcements of the others on their way. One call of each kind is enough for a race of two, and a longer
sequence repeats states. Connecting is a matter of the pair and the registry, with
every role taken by both participants in every order; what a third one adds is
that `UpdateStage` waits for several. In `DiscoveryStore` two services and three
handlers make a cluster of one, two and three candidates, on both sides of the
bound (one) at which the search for a smaller cluster ends. In
`Rpc_calls` the server on the client's own participant takes the path of local
delivery and the other one that of messages; both calls can be open at once.

Symmetry is used where all members have the same role (`DiscoveryStore`, whose
properties are invariants and an action property).

### Findings

Two runs check a statement of the documentation that the code does not keep.

* `DiscoveryStore_optional`: searching with an optional label enters its key in
  `notLabelMap`, so that the items added before are never copied there. A
  publisher and a subscriber whose labels match by the documented rules are then
  not connected. The shortest case: a handler without labels and one with an
  optional label of another key, a service with optional k1, a handler with
  mandatory k1, and a second service with optional k1.
* `Rpc_labels`: a client with a mandatory label does not count internal servers
  that exist when it registers its handler, in particular the one on its own
  participant, and a call ends with ServerNotReachable. (When such a server
  leaves, the count goes below zero.)

### Known disagreements

Met while modelling; the properties of the runs leave exactly these cases out,
by the instance or by a named exception. Each was found by TLC as the violation
of a stronger property and followed in the code.

Time synchronization:
* A joiner takes the minimum over the peers that have advanced beyond their first
  step and overtakes one that has not (`TimeConfiguration.cpp:238`;
  `AnnouncedStepsInTimeOrder` leaves the hop on out).
* When a coordinated peer crashes, its removal from the time synchronization
  executes a step (`TimeSyncService.cpp:427`) before the monitor has reported the
  error that is meant to prevent it (`:187`).
* A late coordinated participant aborts the simulation, but the abort is only
  posted and a step at the advanced time runs before it (`TimeSyncService.cpp:262`;
  `docs/simulation/simulation.rst`, line 307, lets it always start at 0). Line 499
  there says it enters the error state, while the code aborts the simulation.
* Continue during an asynchronous step announces the next step early, since
  `TimeSyncService.cpp:101` does not ask whether a step is executing; a
  participant that joins in that window never hears of it, and both wait for ever.
  Peers also advance beyond the step that is still executing, although
  `Orchestration.h:488` says that the advance is not signaled until
  `CompleteSimulationStep` is called. `AnnouncedAfterCompletion` is violated as soon
  as an asynchronous participant may be paused, and its theorem excludes only that.
* A late joiner does not recognise that an asynchronous participant has advanced
  while that executes its first step after 0, and may start at time 0. If it was
  resent an asynchronous step that is executing, it may begin another one with it
  although the others are already at the step that follows (line 493 promises the
  advanced time). A peer whose steps have been cut short is not recognised either
  as long as it is within its first configured step duration, since
  `TimeConfiguration.cpp:241` compares its time with the duration it announces.
  `FirstStepNotInThePast` names these cases. A second joiner may start earlier
  still: the property is about one that knows only participants that started
  together.
* A participant that has seen a peer leave may step past a time at which another
  one is due but has not said so: that one's step was cut short because of the
  peer that has left, while it announced the full one. `DynamicStepsAlign` leaves
  the case out (`KnowsAll`), as well as the hop on; what has been announced is
  respected in these cases, too (`StepsAreNegotiated`).

Lifecycle:
* A participant that stops before the status Running of a peer has reached that
  peer's own monitor is not followed: the peer's system state skips Stopping, the
  only one it reacts to (`LifecycleService.cpp:549`).
* After an abort during the first barrier, the completion of that barrier leaves
  Shutdown again (`LifecycleStates.cpp:168`).
* An abort that meets `StartLifecycle` between its two accesses to the flags is
  lost (`AbortIsLost`, excepted in `AbortSpreads`). A disconnect recomputed from an
  aborting participant leaves the system in Aborting rather than Error, which
  `LossIsReported` allows. `Pause` in a participant that is already stopping
  becomes an error.

Connecting:
* A target that goes away after it has reported that it is connecting leaves the
  origin in REMOTE_IS_CONNECTING for ever (`Abandoned`, excepted in `JoinEnds`).
* The timeout of a remote connect request may create a proxy beside a connection
  that the target is making (`GaveUp`, excepted in `OneLinkPerPair`).
* The registry sets the name of a second process on its peer before it refuses it
  (`VAsioConnection.cpp:742`); when that process goes, the route to the first one
  is erased and the participants it is proxied to are told that it has gone
  (`Shadowed`).

Subscriptions and RPC:
* `_hasPendingAsyncSubscriptions` is set by a registration on one thread and reset
  by the acknowledges of an earlier one on another (`VAsioConnection.hpp:116`): the
  lifecycle then does not wait for the second service. The run has one
  asynchronous service.
* Without virtual time the timeouts run on a timer thread (`TimerThread`): a call
  that expires while its answer is being handled has its result delivered after
  the timeout, which `IRpcClient.hpp:41` rules out, and the iterator used after the
  lock was released (`RpcClient.cpp:210`) refers to an erased entry.
* A call without timeout stays active when a server leaves that it counted.

## 4. Fairness

An IO thread does not rest while it has a task or a message: asio serves the
queue of posted tasks and the sockets in turn. `TimeSync` states this as weak
fairness of running tasks and of receiving from each peer, `Lifecycle` as weak
fairness of the IO thread as a whole. On the user's side `TimeSync` assumes that
an asynchronous step is completed and that a pause is ended by a call of
Continue; the properties ask for progress only if pausing ends altogether
(`PausesEnd`). `Lifecycle` assumes that StartLifecycle returns once called and
that an asynchronous communication ready handler is completed. Nobody is obliged
to start, stop, pause, abort, leave or crash.

`Connecting` assumes that messages are handled, that an attempt to connect ends
(the operating system gives up on a socket), that the timer and the time limits of
`JoinSimulation` expire, and that a participant whose join has failed is destroyed,
since its constructor throws. `Subscriptions` and `Rpc` assume that the IO thread
handles each peer's messages and its tasks, that a wait that is over returns, and
`Rpc` that time advances. That the server's user submits a result for each call it
is handed (`UsersAnswer`) is a hypothesis of `CallsEnd` alone: calls with a timeout
end, and clients and servers find each other, whether anybody answers or not.

## 5. Proofs

* `VirtualTimeProofs!VirtualTimeTypeCorrect` and `LockstepHolds`: on the abstract
  time line the types hold, and no participant is beyond the next step of one
  that is present. The invariant is inductive together with the types, because a
  step is allowed only to the least next time and only increases it. Since
  `TimeSync` implements `VirtualTime` in the checked instance, its participants
  stay in lockstep, too; no separate invariant is checked for that.
* `TimeSyncProofs!TypeCorrect`: `TimeSync` keeps its types for any number of
  participants, any modes and any positive step sizes. The point that is not
  obvious is that the next step time stays a natural number: with dynamic step
  sizes and hop on it is computed from what peers have announced, -1 for a silent
  one included. One lemma per operator on channels, tasks and durations carries
  the argument, one per action the invariant.
* `LifecycleProofs!LifecycleTypeCorrect`: `Lifecycle` keeps its types for any
  participants, modes, handlers and user calls. One lemma per intent says that the
  record of an IO thread stays typed while its tracker and its peers stay as they
  are (`Keeps`); what a monitor handles changes the tracker to a known value and
  nothing else beyond that (`Tracks`).
* `LifecycleProofs!LossReported`: a monitor that handles the disconnect of a
  required participant ends in Error, or in Aborting if an abort was announced.
  The disconnect first marks the participant, which sets the system state to
  Error, and then removes it and computes the state again from the status of an
  arbitrary required participant. The argument: a rule of `ComputeSystemState`
  asks for a status of every required participant (`NoRuleWithoutStatus`), so
  after the removal none applies and Error stays, unless the chosen participant
  is aborting (`LossInTracker`). Every other action leaves the set of connected
  peers alone.
* `LifecycleProofs!BarrierHolds` and `ServicesKnownAtStart`: a participant goes on
  from ServicesCreated only when every connected peer has handled its status
  ServicesCreated. `BarrierInv` looks at each ordered pair of connected
  participants (`PairStart`): until the peer knows of the status, the status is on
  the way to it before the call that asks for a reply (`Announces`), be it in the
  channel or still among the posted tasks; the peer has made no reply, and if the
  barrier of the start is active, it waits for this peer. A reply can thus only be
  made after the status has been handled, and the barrier completes only with the
  reply of every peer, or because it has left, which is why `PeerShutdown` may make
  up a reply without harm. One lemma per intent says what an intent may change
  before that point (`Moves`), and that only the completion of the barrier, or of
  subscriptions which are set up after it, makes a participant go on (`Halts`). TLC
  found `BarrierInv` invariant on instances with two and three participants before
  it was proved.

* `DiscoveryStoreProofs!OnlyMatchingAreJoined` and `LabelMapStaysExact`: for any
  services, handlers and labels, a subscriber receives only publishers that match
  its labels, and the cluster of a label holds exactly the known items that have
  it. The first needs nothing of the clusters: what is found is compared. The
  second is inductive with the bags having natural numbers of each item and those
  that are not known having none.
* `ConnectingProofs`: all four safety properties of `Connecting`, for any
  participants, capabilities, timeouts and second processes.
  * `NamesAlwaysReferToPeers`: the table of names only refers to peers that exist.
    A name is erased with any of its peers, so that the inductive invariant only
    adds that both tables are functions of the participants; what is in a message
    does not matter.
  * `LinksAlwaysStay`: a link is only lost with one of the two. Beyond the types
    (`Typed`) it needs that a Shutdown on the way to the registry, and an empty
    proxied message on the way from it, mean that the participant, or a second
    process of its name, has gone (`DepartedOnly`).
  * `MeshIsFull`: joined participants are connected. A participant announces
    itself once and first, is not told anything before that, is registered then
    until it leaves, and is welcomed once (`RegistrationOK`); so of two
    registered participants the later one has been told of the earlier one
    (`OneIsTold`). Whoever sends a reply has the receiver for a peer, and a
    proxied reply had an announcement before it (`PeersBehindMessages`), so a
    stage ReplyReceived means a link (`RepliedAreLinked`), and JoinSimulation
    succeeds with the last reply (`JoinedHasReplies`).
  * `OneLinkForAPair`: a pair is not connected twice. Being told is an order, so
    that only one of the two, o, connects to the other, t (`OrderInv`). All there
    is of a connection of some kind, as a peer or in a message, is its `Trace`;
    a trace only appears with the same trace before it, or where a connection is
    opened (`TraceSteps`). The request for a remote connection is a token that is
    in one of five places, from the message of o to the one that reports the
    failure (`OneToken`); it has to be counted, since a second request on the way
    would be answered after the first. `OneWay` is the heart of `LinkInv`: while o
    has not given up, the traces are of one kind, there is none while the request
    is somewhere, and none but a remote one while o waits for it. A connection is
    then opened only from a stage that nothing has begun, or by using the request
    up: by t when it has connected, by o when it hears of the failure. Only
    OnTimerExpired opens one while the request is still somewhere.

* `TimelineProofs`: the order of the times that participants announce, for any
  number of them, any modes and step sizes. The inductive invariant `TimelineInv`
  relates what a peer knows of a participant, what is still in the channel to it,
  and the `Horizon` of the participant, which is the step it may begin next, or
  the one it is executing if it is never paused: every announcement is at most the
  horizon, and those of a participant that is not both asynchronous and paused are
  in order, from what the receiver knows up to the last one sent (`Sound`). It
  needs that a participant's own next step lies ahead of the current one
  (`OwnOrder`) and that only paused participants are continued (`PausedByUser`).
  One lemma per change of a link (learned, forgotten, appended, horizon raised)
  carries the argument to every action. From it:
  * `ChronologyHolds` and `AnnouncedAfterCompletionHolds`, provided that no
    asynchronous participant is paused. Without this the second is false of the
    code, see the known disagreements;
  * `AnnouncedStepsInTimeOrderHolds`, without any hypothesis: a step that is not
    the hop on of a joiner begins at the least announced time;
  * `NoAbortAmongCoordinatedHolds` and `ImplementsVirtualTimeHolds`, provided that
    all participants start together (`AtStart = Participant`). `TogetherInv` adds
    that nobody can be late (there are no Signal messages of a late start and no
    posted aborts) and that the first step of everybody is at 0
    (`FirstStepTogether`). Each action is then a step of `VirtualTime` or a
    stutter. With a joiner the refinement is false of the code: it may overtake a
    participant that has not advanced beyond its first step;
  * `FirstStepNotInThePastHolds`, in every configuration: when an autonomous
    participant begins its first step and knows only participants that started
    together, none of them is in a step that begins later, but for the cases that
    the property names. `JoinInv` has two parts. Of those that started together it
    says that they are no further apart than one step (`FirstAreClose`) and that
    nobody gets beyond a first step at 0 before all of them have had theirs
    (`FirstStepsTogether`); messages never show more than that (`Truthful`). The
    other part, `JoinersAreInformed`, follows the start of a joiner as one of them
    sees it: its announcement is on the way before its call, the step resent for it
    is on the way before the reply to the call, and whatever task follows is as
    recent (`Announcing`, `Informing`, `Informed`). The participant does not begin
    a further step meanwhile, since the joiner's time is unknown to it
    (`WaitsForJoiner`), so that what the joiner has received when its barrier is
    passed is the latest. All actions are covered by one description of what a
    step does to times, links, peers and states (`Summary`, `NextSummary`), from
    which the invariant follows without looking at the actions again. TLC found
    `JoinInv` invariant with three participants before it was proved.
  * `DynamicStepsFollowPeers`, in every configuration: the flag for dynamic steps is
    in every state what the own setting and the requests of the peers known at that
    moment come to, whoever arrives, leaves or crashes (`FollowsPeers`);
  * `StepsAreNegotiated`, in every configuration: a step of a participant that
    requested dynamic steps, or follows a known peer that did, does not end after
    the begin or the end of any task a known peer has announced, and any other step
    has the configured duration. It joins the flag with what a step does to the
    times (`BeginsStep`), for joiners, leavers and hop on as well;
  * `DynamicStepsAlignHolds`, provided that all participants start together, any of
    them requesting, following or opted out, and whoever leaves. The point beyond
    the theorem before is that a peer announces its full step and may cut it short
    afterwards, without saying so: what it has announced is not what it does.
    `AlignInv` says that every announcement is of the sender's next step or of a
    time it has reached (`AllAnnounced`), and that the end of the step that is
    furthest ahead has a reason that others see, too: somebody's full step from the
    same beginning, or a step that another one begins then (`Planned`). Whoever
    knows everybody therefore ends its own dynamic step no later. With a joiner the
    property is checked (`TimeSync_join`), not proved: its first step may begin at a
    time which the others had no reason to plan for.
* `SubscriptionsProofs`: the bookkeeping of subscriptions, for any topics and
  participants. `SubscriptionsInv` has two parts. `OneAtATime` says what a blocked
  thread waits for: the registration posted or running, of which there is only
  one, and that nothing is pending otherwise. `Connected` follows each ordered pair
  of connected participants through its channel: a pending subscription has its
  subscriber or its acknowledge on the way or lost its publisher, and an
  acknowledge is only on the way for an entry that the publisher has made
  (`InboundOK`, `OutboundOK`, `Introduced`, `Provided`). From it follow
  `NothingPendingHolds` (nothing is left pending between registrations) and
  `SubscribedWhenReturnedHolds` (a registration that returned is known to every
  connected publisher, on which `Rpc` is built). `HandlerWaitsHolds` says that the
  lifecycle resumes only when every service is subscribed; it assumes one
  asynchronous service per participant (`OneAsyncService`), because with two the
  code violates it (`VAsioConnection.hpp:116`, a known disagreement).

* `RpcProofs!CallsHold` and `NothingAfterTimeoutHolds`: a call is in one phase at a
  time (begun by the user's thread, active, being answered, ended), a response on
  a wire is addressed to the client that made the call, and a client only handles
  the timeouts of its own calls (`CallsInv`). A call that has timed out is then
  erased and not looked up again, so that no result follows. The hypothesis is
  that the participant has virtual time (`~TimerThread`): `TimeHandler` then runs
  on the thread that handles responses. With the timer thread the code violates
  it, a known disagreement.

Assumptions are those named in the modules, and the hypotheses named above:
positive step sizes, the modes being sets of participants, coordinated
participants being required.

Only checked on the instances above:
* Liveness, which the provers used here cannot express.
* What folds over sets or sequences compute, which would need an induction over
  data: `NoPublicationMissed`, `CountedServersReceive`, `CountIsExact`,
  `ArrivalIsExact`, `RemovedIsLeft`.
* Properties that hold of the instances and not of every value of the constants,
  so that a theorem would need hypotheses that leave little of them:
  `RunsTogether` and `DepartureIsAnnounced` (an abort or an error during the first
  barrier, or a call before it, is followed by the completion of the barrier, which
  leaves Shutdown again).

## 6. Not modelled

Wall clock and animation factor, watchdog, handlers for completed other steps, the
check of the autonomous-synchronous capability; URIs, acceptors, sockets, framing
and the ring buffer; several simulations of one registry; the bus controllers,
which are sequential; logging, metrics, tracing, dashboard, configuration, C
interface, serialization. Most of the repository is vendored libraries, bindings,
tests and conversions, which have no behaviour over time of their own. The
reasons are in `PROJECT.json` beside each component.

## 7. Plan

1. `Connecting` with three participants, and a participant that joins again under
   its name.
2. `Subscriptions` as a refinement of the choice that `Lifecycle` makes.
3. `LinController` with its master and slaves; `RingBuffer` and the framing,
   `LockedQueue`, `WatchDog` as small modules against a reference.
