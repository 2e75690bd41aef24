------------------------------ MODULE Lifecycle ------------------------------
(***************************************************************************)
(* The lifecycle of the participants of one simulation: the state machine  *)
(* of each LifecycleService, driven by the user, by the own system monitor *)
(* (coordinated participants) and by the barrier of ParticipantReplies     *)
(* that makes sure all peers have handled what was sent so far.            *)
(*                                                                         *)
(* As in TimeSync, one participant is one IO thread with posted tasks      *)
(* ("todo") and one ordered channel from each peer. A lifecycle transition *)
(* runs to its end within one task: the states it passes through appear as *)
(* the status messages it posts. All participants are connected initially  *)
(* and know the required participants; nobody joins or rejoins later.      *)
(***************************************************************************)
EXTENDS SystemStateTracker, FiniteSets

CONSTANTS
    Coordinated,    \* participants in OperationMode::Coordinated
    TimeSynced,     \* those with a time synchronization service
    AsyncReady,     \* those with an asynchronous communication ready handler
    Subscribing,    \* those with asynchronous subscriptions
    Throwing,       \* those whose user handlers may throw
    UserCall,       \* the user's calls: pairs of a participant and an operation
    Eager,          \* those whose user calls before SystemState::Running
    MayCrash        \* those that may disappear at any time

\* Coordinated participants that are not required are refused at the start.
ASSUME CoordinatedAssumption == Coordinated \subseteq Required
ASSUME LifecycleAssumption ==
    /\ TimeSynced \subseteq Participant
    /\ AsyncReady \subseteq Participant
    /\ Subscribing \subseteq Participant
    /\ Throwing \subseteq Participant
    /\ UserCall \subseteq Participant \X {"Stop", "Pause", "Continue", "Error", "Abort"}
    /\ Eager \subseteq Participant
    /\ MayCrash \subseteq Participant

VARIABLES
    io,         \* what the IO thread of each participant works on
    start,      \* progress of StartLifecycle on the user's thread
    aborted,    \* LifecycleService::_abortedBeforeLifecycleStart
    aborting,   \* the IO thread is about to set that flag
    calls,      \* user calls not made yet
    alive,      \* participants that have not disconnected
    channel     \* channel[p][q]: messages from p that q has not handled

vars == <<io, start, aborted, aborting, calls, alive, channel>>

-----------------------------------------------------------------------------
\* Each call of CallAfterAllParticipantsReplied is named, as is the uuid of its
\* request, after the state in which it is made.
Barrier == {"ServicesCreated", "Stopped", "Shutdown"}
UserTask == {"Initialize", "StartAutonomous", "CompleteReady", "Stop", "Pause",
             "Continue", "Error", "Abort", "SendAbort"}

Task == [kind : UserTask]
        \cup [kind : {"Status"}, state : ParticipantState]
        \cup [kind : {"Barrier", "Call"}, id : Barrier]
        \cup [kind : {"Return"}, id : Barrier, to : Participant]
Message == [kind : {"Status"}, state : ParticipantState]
           \cup [kind : {"Call", "Return"}, id : Barrier]
           \cup [kind : {"AbortSimulation", "PeerShutdown"}]

IoThread ==
    [state : ParticipantState,      \* LifecycleManagement::_currentState
     ready : {"No", "Invoked", "Completed"},    \* communication ready handler
     subscribing : BOOLEAN,         \* a subscription completion handler is set
     barrier : Barrier \cup {"None"},           \* _activeUuid if _barrierActive
     expected : SUBSET Participant,
     tracker : Tracker,
     peers : SUBSET Participant,
     final : ParticipantState \cup {"Pending"}, \* the final state promise
     todo : Seq(Task)]

Post(r, task) == [r EXCEPT !.todo = Append(@, task)]

\* SetState: the state is entered and its status posted to be sent.
Enter(r, s) == Post([r EXCEPT !.state = s], [kind |-> "Status", state |-> s])

CallAfterAllParticipantsReplied(r, id) == Post(r, [kind |-> "Barrier", id |-> id])

-----------------------------------------------------------------------------
(* The intents of LifecycleStates: r is the IO thread's record of          *)
(* participant p, "throws" the user handlers that throw if they are called. *)

\* Error, and every intent the current state does not provide for.
ErrorIntent(r) == IF r.state \in {"Error", "Shutdown"} THEN r ELSE Enter(r, "Error")

ReadyToRunIntent(p, r, throws) ==
    CASE r.state = "ReadyToRun" ->
           IF p \notin TimeSynced /\ "Starting" \in throws THEN Enter(r, "Error")
           ELSE Enter(r, "Running")
      [] r.state \in {"Running", "Shutdown"} -> r
      [] OTHER -> ErrorIntent(r)

\* Autonomous participants go on by themselves.
CompleteReadyIntent(p, r, throws) ==
    LET ready == Enter(r, "ReadyToRun")
    IN  CASE r.state # "CommunicationInitialized" -> ErrorIntent(r)
          [] r.state = "CommunicationInitialized" /\ p \in Coordinated -> ready
          [] OTHER -> ReadyToRunIntent(p, ready, throws)

\* The synchronous handler, or the first call of the asynchronous one.
CommunicationReady(p, r, throws) ==
    CASE p \in AsyncReady /\ r.ready # "No" -> r
      [] p \in AsyncReady /\ r.ready = "No" ->
           LET invoked == [r EXCEPT !.ready = "Invoked"]
           IN  IF "Ready" \in throws THEN Enter(invoked, "Error") ELSE invoked
      [] OTHER -> IF "Ready" \in throws THEN Enter(r, "Error")
                  ELSE CompleteReadyIntent(p, r, throws)

CommunicationInitializedIntent(p, r, throws) ==
    CASE r.state = "CommunicationInitialized" -> CommunicationReady(p, r, throws)
      [] r.state = "ReadyToRun" ->
           IF p \in Coordinated THEN r ELSE ReadyToRunIntent(p, r, throws)
      [] r.state \in {"Running", "Shutdown"} -> r
      [] OTHER -> ErrorIntent(r)

\* The subscription completion handler moves on from whatever the state is.
SubscriptionsComplete(p, r, throws) ==
    LET initialized == Enter(r, "CommunicationInitialized")
    IN  IF p \in Coordinated THEN initialized
        ELSE CommunicationInitializedIntent(p, initialized, throws)

CommunicationInitializing(p, r, throws, pending) ==
    IF pending THEN [r EXCEPT !.subscribing = TRUE]
    ELSE SubscriptionsComplete(p, r, throws)

ServicesCreatedIntent(p, r, throws, pending) ==
    CASE r.state = "ServicesCreated" ->
           CallAfterAllParticipantsReplied(r, "ServicesCreated")
      [] r.state = "CommunicationInitializing" ->
           CommunicationInitializing(p, r, throws, pending)
      [] OTHER -> ErrorIntent(r)

\* Faulty variant: the final state is reported without waiting for replies.
FinishAtOnce(r) ==
    CASE r.state \in {"Stopped", "Error"} ->
           [Enter(Enter(r, "ShuttingDown"), "Shutdown") EXCEPT !.final = "Shutdown"]
      [] r.state = "Shutdown" -> [r EXCEPT !.final = "Shutdown"]
      [] OTHER -> ErrorIntent(r)

ShutdownIntent(r) ==
    CASE r.state \in {"Stopped", "Error"} ->
           CallAfterAllParticipantsReplied(
               Enter(Enter(r, "ShuttingDown"), "Shutdown"), "Shutdown")
      [] r.state = "Shutdown" -> CallAfterAllParticipantsReplied(r, "Shutdown")
      [] OTHER -> ErrorIntent(r)

\* In any other state Stop is ignored, sometimes with a warning.
StopIntent(r, throws) ==
    LET stopping == Enter(r, "Stopping")
    IN  CASE r.state \in {"Running", "Paused"} ->
               IF "Stop" \in throws THEN Enter(stopping, "Error")
               ELSE CallAfterAllParticipantsReplied(Enter(stopping, "Stopped"), "Stopped")
          [] r.state = "Stopped" -> CallAfterAllParticipantsReplied(r, "Stopped")
          [] r.state = "Error" -> ShutdownIntent(r)
          [] OTHER -> r

AbortIntent(r) ==
    IF r.state = "Shutdown" THEN r
    ELSE CallAfterAllParticipantsReplied(
             Enter(Enter(r, "Aborting"), "Shutdown"), "Shutdown")

-----------------------------------------------------------------------------
(* ParticipantReplies and RequestReplyService.                             *)

SetFinalState(r) ==
    IF r.state = "Error" THEN r
    ELSE [r EXCEPT !.final = IF @ = "Pending" THEN r.state ELSE @]

\* Faulty variant: the action of Stopped is dropped in any other state.
CompletionInState(p, r, id, throws, pending) ==
    CASE id = "ServicesCreated" ->
           CommunicationInitializing(p, Enter(r, "CommunicationInitializing"),
                                     throws, pending)
      [] id = "Stopped" -> IF r.state = "Stopped" THEN ShutdownIntent(r) ELSE r
      [] id = "Shutdown" -> SetFinalState(r)

\* The action passed to CallAfterAllParticipantsReplied.
Completion(p, r, id, throws, pending) ==
    CASE id = "ServicesCreated" ->
           CommunicationInitializing(p, Enter(r, "CommunicationInitializing"),
                                     throws, pending)
      [] id = "Stopped" -> ShutdownIntent(r)
      [] id = "Shutdown" -> SetFinalState(r)

\* Faulty variant: the action is taken without asking the peers.
CompleteAtOnce(p, r, id, throws, pending) ==
    IF r.barrier # "None" THEN r ELSE Completion(p, r, id, throws, pending)

\* The deferred part of CallAfterAllParticipantsReplied.
RequestReplies(p, r, id, throws, pending) ==
    CASE r.barrier # "None" -> r
      [] r.barrier = "None" /\ r.peers = {} -> Completion(p, r, id, throws, pending)
      [] OTHER -> Post([r EXCEPT !.barrier = id, !.expected = r.peers],
                       [kind |-> "Call", id |-> id])

\* A reply of q, sent by it or made up when it has disconnected.
ReceiveCallReturn(p, r, q, id, throws, pending) ==
    LET left == r.expected \ {q}
    IN  CASE r.barrier # id \/ r.barrier = "None" -> r
          [] r.barrier = id /\ r.barrier # "None" /\ left = {} ->
               [Completion(p, [r EXCEPT !.expected = {}], id, throws, pending)
                   EXCEPT !.barrier = "None"]
          [] OTHER -> [r EXCEPT !.expected = left]

-----------------------------------------------------------------------------
(* SystemMonitor and the handler it calls on a new system state.           *)

\* Faulty variant: a paused participant does not stop.
NewSystemStateUnlessPaused(p, r, throws, pending) ==
    CASE r.tracker.system = "ServicesCreated" ->
           ServicesCreatedIntent(p, r, throws, pending)
      [] r.tracker.system = "CommunicationInitialized" ->
           CommunicationInitializedIntent(p, r, throws)
      [] r.tracker.system = "ReadyToRun" -> ReadyToRunIntent(p, r, throws)
      [] r.tracker.system = "Stopping" /\ r.state = "Running" -> StopIntent(r, throws)
      [] OTHER -> r

NewSystemState(p, r, throws, pending) ==
    CASE r.tracker.system = "ServicesCreated" ->
           ServicesCreatedIntent(p, r, throws, pending)
      [] r.tracker.system = "CommunicationInitialized" ->
           CommunicationInitializedIntent(p, r, throws)
      [] r.tracker.system = "ReadyToRun" -> ReadyToRunIntent(p, r, throws)
      [] r.tracker.system = "Stopping" /\ r.state \in {"Running", "Paused"} ->
           StopIntent(r, throws)
      [] OTHER -> r

\* The tracker becomes t; coordinated participants with a started lifecycle
\* react to a change of the system state.
Track(p, r, t, throws, pending) ==
    LET tracked == [r EXCEPT !.tracker = t]
    IN  IF t.system # r.tracker.system /\ p \in Coordinated /\ start[p] = "Started"
        THEN NewSystemState(p, tracked, throws, pending)
        ELSE tracked

ReceiveStatus(p, r, q, s, throws, pending) ==
    Track(p, r, UpdateParticipantStatus(r.tracker, q, s), throws, pending)

\* Faulty variant: the lost peer is only forgotten.
ForgetParticipant(p, r, q, any, throws, pending) ==
    Track(p, r, RemoveParticipant(r.tracker, q, any), throws, pending)

\* A peer that has a lifecycle and did not shut it down is marked as in error.
OnParticipantDisconnected(p, r, q, any, throws, pending) ==
    LET lost == r.tracker.status[q] \notin {"Unknown", "Invalid", "Shutdown"}
        marked == IF lost THEN ReceiveStatus(p, r, q, "Error", throws, pending) ELSE r
    IN  Track(p, marked, RemoveParticipant(marked.tracker, q, any), throws, pending)

-----------------------------------------------------------------------------
Init ==
    /\ io = [p \in Participant |->
              [state |-> "Invalid", ready |-> "No", subscribing |-> FALSE,
               barrier |-> "None", expected |-> {}, tracker |-> EmptyTracker,
               peers |-> Participant \ {p}, final |-> "Pending", todo |-> <<>>]]
    /\ start = [p \in Participant |-> "No"]
    /\ aborted = [p \in Participant |-> FALSE]
    /\ aborting = [p \in Participant |-> FALSE]
    /\ calls = UserCall
    /\ alive = Participant
    /\ channel = [p \in Participant |-> [q \in Participant |-> <<>>]]

\* m appended to the channels from p to the participants in "to".
Sent(p, to, m) ==
    [channel EXCEPT ![p] = [q \in Participant |->
        IF q \in to \cap alive THEN Append(@[q], m) ELSE @[q]]]

Handler == {"Ready", "Starting", "Stop"}
Throws(p) == SUBSET IF p \in Throwing THEN Handler ELSE {}
Pending(p) == IF p \in Subscribing THEN BOOLEAN ELSE {FALSE}

\* The IO thread of p runs.
Runs(p) == p \in alive /\ ~aborting[p]

(* The user of participant p.                                              *)

\* LifecycleService::StartLifecycle sets its flag ...
StartLifecycle(p) ==
    /\ p \in alive /\ start[p] = "No"
    /\ start' = [start EXCEPT ![p] = "Flagged"]
    /\ UNCHANGED <<io, aborted, aborting, calls, alive, channel>>

StartTasks(p) ==
    IF p \in Coordinated THEN <<[kind |-> "Initialize"]>>
    ELSE <<[kind |-> "Initialize"], [kind |-> "StartAutonomous"]>>

\* ... and then looks whether an abort has been received before.
FinishStartLifecycle(p) ==
    /\ p \in alive /\ start[p] = "Flagged"
    /\ IF aborted[p]
       THEN /\ io' = [io EXCEPT ![p] = Post(@, [kind |-> "Abort"])]
            /\ start' = [start EXCEPT ![p] = "Aborted"]
       ELSE /\ io' = [io EXCEPT ![p].todo = @ \o StartTasks(p)]
            /\ start' = [start EXCEPT ![p] = "Started"]
    /\ UNCHANGED <<aborted, aborting, calls, alive, channel>>

\* Stop, Pause, Continue, ReportError and SystemController::AbortSimulation.
UserCalls(p, op) ==
    /\ p \in alive /\ start[p] = "Started" /\ <<p, op>> \in calls
    /\ p \notin Eager => io[p].tracker.system = "Running"
    /\ calls' = calls \ {<<p, op>>}
    /\ io' = [io EXCEPT ![p] =
                  IF op = "Abort"
                  THEN Post(Post(@, [kind |-> "Abort"]), [kind |-> "SendAbort"])
                  ELSE Post(@, [kind |-> op])]
    /\ UNCHANGED <<start, aborted, aborting, alive, channel>>

\* AbortSimulation before StartLifecycle leaves the own abort to it.
AbortBeforeStart(p) ==
    /\ p \in alive /\ start[p] = "No" /\ <<p, "Abort">> \in calls
    /\ calls' = calls \ {<<p, "Abort">>}
    /\ aborted' = [aborted EXCEPT ![p] = TRUE]
    /\ io' = [io EXCEPT ![p] = Post(@, [kind |-> "SendAbort"])]
    /\ UNCHANGED <<start, aborting, alive, channel>>

CompleteCommunicationReadyHandlerAsync(p) ==
    /\ p \in alive /\ io[p].ready = "Invoked"
    /\ io' = [io EXCEPT ![p] =
                  Post([@ EXCEPT !.ready = "Completed"], [kind |-> "CompleteReady"])]
    /\ UNCHANGED <<start, aborted, aborting, calls, alive, channel>>

\* The user has the final state and destroys the participant, or it crashes.
Leave(p) ==
    /\ p \in alive /\ (io[p].final # "Pending" \/ p \in MayCrash)
    /\ alive' = alive \ {p}
    /\ channel' = [q \in Participant |-> [r \in Participant |->
           CASE r = p -> <<>>
             [] q = p /\ r \in alive' -> Append(channel[q][r], [kind |-> "PeerShutdown"])
             [] OTHER -> channel[q][r]]]
    /\ UNCHANGED <<io, start, aborted, aborting, calls>>

-----------------------------------------------------------------------------
(* The IO thread of participant p: posted tasks.                           *)

\* What a task does to the participant itself; the sends are in RunTask.
AfterTask(p, r, task, throws, pending) ==
    CASE task.kind = "Status" -> ReceiveStatus(p, r, p, task.state, throws, pending)
      [] task.kind = "Barrier" -> RequestReplies(p, r, task.id, throws, pending)
      [] task.kind = "Initialize" ->
           IF r.state = "Invalid" THEN Enter(r, "ServicesCreated")
           ELSE IF r.state \in {"Shutdown", "Error"} THEN r ELSE ErrorIntent(r)
      [] task.kind = "StartAutonomous" -> ServicesCreatedIntent(p, r, throws, pending)
      [] task.kind = "CompleteReady" -> CompleteReadyIntent(p, r, throws)
      [] task.kind = "Stop" -> StopIntent(r, throws)
      [] task.kind = "Pause" ->
           IF r.state = "Running" THEN Enter(r, "Paused") ELSE Post(r, [kind |-> "Error"])
      [] task.kind = "Continue" ->
           IF r.state = "Paused" THEN Enter(r, "Running") ELSE Post(r, [kind |-> "Error"])
      [] task.kind = "Error" -> ErrorIntent(r)
      [] task.kind = "Abort" -> AbortIntent(r)
      [] OTHER -> r

Sends(p, task) ==
    CASE task.kind = "Status" -> Sent(p, io[p].peers, task)
      [] task.kind = "Call" -> Sent(p, io[p].peers, task)
      [] task.kind = "Return" ->
           Sent(p, io[p].peers \cap {task.to}, [kind |-> "Return", id |-> task.id])
      [] task.kind = "SendAbort" -> Sent(p, io[p].peers, [kind |-> "AbortSimulation"])
      [] OTHER -> channel

RunTask(p) ==
    /\ Runs(p) /\ io[p].todo # <<>>
    /\ LET task == Head(io[p].todo)
           rest == [io[p] EXCEPT !.todo = Tail(@)]
       IN  /\ channel' = Sends(p, task)
           /\ \E throws \in Throws(p), pending \in Pending(p) :
                  io' = [io EXCEPT ![p] = AfterTask(p, rest, task, throws, pending)]
    /\ UNCHANGED <<start, aborted, aborting, calls, alive>>

\* AsyncSubscriptionsCompleted: the last acknowledge has arrived.
AsyncSubscriptionsCompleted(p) ==
    /\ Runs(p) /\ io[p].subscribing
    /\ \E throws \in Throws(p) :
           io' = [io EXCEPT ![p] =
                     SubscriptionsComplete(p, [@ EXCEPT !.subscribing = FALSE], throws)]
    /\ UNCHANGED <<start, aborted, aborting, calls, alive, channel>>

(* The IO thread of participant p: messages of participant q.              *)

Takes(p, q, kind) ==
    /\ Runs(p)
    /\ channel[q][p] # <<>> /\ Head(channel[q][p]).kind = kind
    /\ channel' = [channel EXCEPT ![q][p] = Tail(@)]

ReceiveParticipantStatus(p, q) ==
    /\ Takes(p, q, "Status")
    /\ \E throws \in Throws(p), pending \in Pending(p) :
           io' = [io EXCEPT ![p] =
               ReceiveStatus(p, @, q, Head(channel[q][p]).state, throws, pending)]
    /\ UNCHANGED <<start, aborted, aborting, calls, alive>>

\* RequestReplyService answers every call of the barrier.
ReceiveCall(p, q) ==
    /\ Takes(p, q, "Call")
    /\ io' = [io EXCEPT ![p] =
           Post(@, [kind |-> "Return", id |-> Head(channel[q][p]).id, to |-> q])]
    /\ UNCHANGED <<start, aborted, aborting, calls, alive>>

ReceiveReturn(p, q) ==
    /\ Takes(p, q, "Return")
    /\ \E throws \in Throws(p), pending \in Pending(p) :
           io' = [io EXCEPT ![p] =
               ReceiveCallReturn(p, @, q, Head(channel[q][p]).id, throws, pending)]
    /\ UNCHANGED <<start, aborted, aborting, calls, alive>>

\* LifecycleService::AbortSimulation finds the lifecycle started, or not ...
ReceiveAbortSimulation(p, q) ==
    /\ Takes(p, q, "AbortSimulation")
    /\ IF start[p] = "No"
       THEN aborting' = [aborting EXCEPT ![p] = TRUE] /\ UNCHANGED io
       ELSE io' = [io EXCEPT ![p] = Post(@, [kind |-> "Abort"])] /\ UNCHANGED aborting
    /\ UNCHANGED <<start, aborted, calls, alive>>

\* ... and in that case leaves the abort to StartLifecycle.
SetAbortedBeforeLifecycleStart(p) ==
    /\ p \in alive /\ aborting[p]
    /\ aborting' = [aborting EXCEPT ![p] = FALSE]
    /\ aborted' = [aborted EXCEPT ![p] = TRUE]
    /\ UNCHANGED <<io, start, calls, alive, channel>>

\* The first required participant of the hash set, if any.
AnyRequired(q) == IF Required = {} THEN {q} ELSE Required

\* OnPeerShutdown, ignored once NotifyShutdown has been called.
PeerShutdown(p, q) ==
    /\ Takes(p, q, "PeerShutdown")
    /\ \E throws \in Throws(p), pending \in Pending(p), any \in AnyRequired(q) :
           LET replied == ReceiveCallReturn(p, io[p], q, io[p].barrier, throws, pending)
               removed == OnParticipantDisconnected(p, replied, q, any, throws, pending)
           IN  io' = IF io[p].final # "Pending" THEN io
                     ELSE [io EXCEPT ![p] = [removed EXCEPT !.peers = @ \ {q}]]
    /\ UNCHANGED <<start, aborted, aborting, calls, alive>>

Receive(p, q) ==
    \/ ReceiveParticipantStatus(p, q)
    \/ ReceiveCall(p, q)
    \/ ReceiveReturn(p, q)
    \/ ReceiveAbortSimulation(p, q)
    \/ PeerShutdown(p, q)

-----------------------------------------------------------------------------
Next ==
    \E p \in Participant :
        \/ StartLifecycle(p)
        \/ FinishStartLifecycle(p)
        \/ \E op \in {"Stop", "Pause", "Continue", "Error", "Abort"} : UserCalls(p, op)
        \/ AbortBeforeStart(p)
        \/ CompleteCommunicationReadyHandlerAsync(p)
        \/ Leave(p)
        \/ RunTask(p)
        \/ AsyncSubscriptionsCompleted(p)
        \/ SetAbortedBeforeLifecycleStart(p)
        \/ \E q \in Participant \ {p} : Receive(p, q)

Spec == Init /\ [][Next]_vars

\* The IO thread does not rest while it has work.
IoThreadStep(p) ==
    \/ RunTask(p)
    \/ AsyncSubscriptionsCompleted(p)
    \/ SetAbortedBeforeLifecycleStart(p)
    \/ \E q \in Participant \ {p} : Receive(p, q)

\* StartLifecycle returns, and an asynchronous communication ready handler is
\* completed. Nobody is obliged to start, to call anything or to leave.
UserThreadStep(p) ==
    FinishStartLifecycle(p) \/ CompleteCommunicationReadyHandlerAsync(p)

Fairness ==
    \A p \in Participant : WF_vars(IoThreadStep(p)) /\ WF_vars(UserThreadStep(p))

FairSpec == Spec /\ Fairness

-----------------------------------------------------------------------------
\* Every variable stays in its declared set.
TypeOK ==
    /\ io \in [Participant -> IoThread]
    /\ start \in [Participant -> {"No", "Flagged", "Started", "Aborted"}]
    /\ aborted \in [Participant -> BOOLEAN]
    /\ aborting \in [Participant -> BOOLEAN]
    /\ calls \subseteq UserCall
    /\ alive \subseteq Participant
    /\ channel \in [Participant -> [Participant -> Seq(Message)]]

Initial == {"Invalid", "ServicesCreated", "CommunicationInitializing",
            "CommunicationInitialized"}

\* A coordinated participant runs only when every required participant has
\* got as far as ReadyToRun, whatever its own monitor has seen so far
\* (LifecycleService::NewSystemState and the tracker's rules).
RunsTogether ==
    \A p \in Coordinated : p \in alive /\ io[p].state = "Running" =>
        \A q \in Required \cap alive : io[q].state \notin Initial

\* A participant goes on from ServicesCreated only after all its peers have
\* handled its status ServicesCreated, and with it all services announced
\* before (ServicesCreatedState::ServicesCreated).
StartsAfterReplies ==
    [][\A p \in Participant :
          io[p].state = "ServicesCreated"
            /\ io'[p].state \in {"CommunicationInitializing",
                                 "CommunicationInitialized", "ReadyToRun", "Running"}
          => \A q \in io[p].peers \cap alive :
                 io[q].tracker.status[p] = "ServicesCreated"]_vars

\* A participant whose lifecycle future has delivered Shutdown and which then
\* disconnects is not taken for a lost one: its peers know of the shutdown
\* (ShutdownState::ShutdownParticipant, SystemMonitor::OnParticipantDisconnected).
DepartureIsAnnounced ==
    \A p, q \in Participant :
        channel[p][q] # <<>> /\ Head(channel[p][q]).kind = "PeerShutdown"
          /\ io[p].final = "Shutdown"
        => io[q].tracker.status[p] = "Shutdown"

\* Once a coordinated participant has stopped, all of them that stay connected
\* shut down or are in an error (StoppedState::StopSimulation).
StopSpreads ==
    (\E p \in Coordinated : io[p].state = "Stopped")
    ~> \A q \in Coordinated :
           io[q].final = "Shutdown" \/ io[q].state = "Error" \/ q \notin alive

\* An abort that arrived while StartLifecycle was looking for it: the flag is
\* set, and nobody reads it any more.
AbortIsLost(p) == aborted[p] /\ start[p] = "Started"

\* Once AbortSimulation is sent, the future of each lifecycle that has been or
\* is started is fulfilled (LifecycleService::AbortSimulation), unless its
\* StartLifecycle and the abort missed each other.
AbortSpreads ==
    (\E p \in alive : io[p].todo # <<>> /\ Head(io[p].todo).kind = "SendAbort")
    ~> \A q \in Participant :
           \/ io[q].final = "Shutdown"
           \/ q \notin alive \/ start[q] = "No" \/ AbortIsLost(q)

\* A monitor that handles the disconnect of a required participant reports an
\* error or an abort if that had a lifecycle and has announced neither an error
\* nor its shutdown
\* (SystemMonitor::OnParticipantDisconnected, SystemStateTracker::RemoveParticipant).
LossIsReported ==
    [][\A p \in Participant, q \in Required :
          /\ q \in io[p].peers \ io'[p].peers
          /\ io[p].tracker.status[q] \notin {"Unknown", "Invalid", "Shutdown", "Error"}
          => \/ io'[p].tracker.system = "Error"
             \/ /\ io'[p].tracker.system = "Aborting"
                /\ \E r \in Required : io[p].tracker.status[r] = "Aborting"]_vars
=============================================================================
