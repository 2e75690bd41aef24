------------------------------ MODULE TimeSync ------------------------------
(***************************************************************************)
(* The distributed virtual-time algorithm of the SIL Kit: every           *)
(* participant broadcasts the time of its next simulation step             *)
(* (NextSimTask) and executes that step once no other synchronized         *)
(* participant has announced a lower time.                                 *)
(*                                                                         *)
(* One participant is one IO thread: it works off the tasks posted to its  *)
(* io_context in order ("todo") and handles the messages of each peer in   *)
(* the order they were sent ("channel"). User threads only set flags and   *)
(* post tasks. The module covers TimeConfiguration, SynchronizedPolicy and *)
(* the discovery handler of TimeSyncService; the lifecycle appears as far  *)
(* as the algorithm reads it.                                              *)
(*                                                                         *)
(* A NextSimTask is put into the channels when SendMsg is called, not when *)
(* the IO thread runs the posted send: the difference is a delay that the  *)
(* channel has anyway.                                                     *)
(***************************************************************************)
EXTENDS Integers, Sequences, FiniteSets

CONSTANTS
    Participant,    \* participants with a time synchronization service
    Coordinated,    \* those in OperationMode::Coordinated; the required ones
    Async,          \* those that use SetSimulationStepHandlerAsync
    Driver,         \* those with DynamicSimulationStep: true, who request dynamic steps
    OptOut,         \* those with DynamicSimulationStep: false; the rest follow
    StepSize,       \* step duration of each participant
    AtStart,        \* those that have already discovered each other initially
    MayPause,       \* those whose user calls Pause and Continue
    MayStop,        \* those whose user calls Stop
    MayLeave,       \* those that may disconnect or crash
    MaxTime         \* bound: no step is executed beyond this time

ASSUME StepSizeAssumption == StepSize \in [Participant -> Nat \ {0}]
ASSUME SubsetAssumption ==
    /\ Coordinated \subseteq Participant
    /\ Async \subseteq Participant
    /\ Driver \subseteq Participant
    /\ OptOut \subseteq Participant
    /\ AtStart \subseteq Participant
ASSUME DynamicStepAssumption == Driver \cap OptOut = {}
ASSUME MaxTimeAssumption == MaxTime \in Nat

VARIABLES
    state,              \* lifecycle state, as far as the algorithm reads it
    pauseRequested,     \* LifecycleService::_pauseRequested
    stopRequested,      \* LifecycleService::_stopRequested
    systemError,        \* the own system monitor reports SystemState::Error
    todo,               \* tasks posted to the own io_context
    currentTask,        \* TimeConfiguration::_currentTask
    myNextTime,         \* TimeConfiguration::_myNextTask.timePoint
    lastSent,           \* SynchronizedPolicy::_lastSentNextSimTask
    executing,          \* SynchronizedPolicy::_isExecutingSimStep
    hopOnEvaluated,     \* SynchronizedPolicy::_hopOnEvaluated
    known,              \* names in TimeConfiguration::_otherNextTasks
    otherNextTask,      \* TimeConfiguration::_otherNextTasks
    dynamicStepPeers,   \* TimeSyncService::_dynamicStepPeers
    dynamicStepEnabled, \* TimeConfiguration::_dynamicStepSizeEnabled
    awaiting,           \* participants whose reply the start barrier awaits
    channel             \* channel[p][q]: messages from p that q has not handled

lifecycleVars == <<state, pauseRequested, stopRequested, systemError>>
timeVars == <<currentTask, myNextTime, lastSent, executing, hopOnEvaluated>>
dynamicVars == <<dynamicStepPeers, dynamicStepEnabled>>
peerVars == <<known, otherNextTask, dynamicVars, awaiting>>
vars == <<lifecycleVars, todo, timeVars, peerVars, channel>>

-----------------------------------------------------------------------------
TimePoint == Nat \cup {-1}
Task == [timePoint : TimePoint, duration : Nat]

\* "Down": no StartLifecycle yet; "Initializing": up to ReadyToRun;
\* "Halted": Stopping and later, Error or Aborting; "Gone": disconnected.
State == {"Down", "Initializing", "Running", "Paused", "Halted", "Gone"}
PostedTask == {"Update", "Request", "Pause", "Continue", "Stop", "Abort"}

NextSimTask == [kind : {"NextSimTask"}, timePoint : TimePoint, duration : Nat]
Signal == [kind : {"ServiceCreated", "Call", "CallReturn", "AbortSimulation"}]
PeerShutdown == [kind : {"PeerShutdown"}, graceful : BOOLEAN]
Message == NextSimTask \cup Signal \cup PeerShutdown

\* What AddSynchronizedParticipant stores for a participant without news.
UnknownTask == [timePoint |-> -1, duration |-> 0]

SimTaskMsg(task) ==
    [kind |-> "NextSimTask", timePoint |-> task.timePoint, duration |-> task.duration]
NextTaskOf(p, time) == [timePoint |-> time, duration |-> StepSize[p]]

Connected(p) == {q \in Participant \ {p} : state[q] # "Gone"}

\* Message m, broadcast by p, appended to the channels ch.
Broadcast(ch, p, m) ==
    [ch EXCEPT ![p] = [q \in Participant |->
        IF q \in Connected(p) THEN Append(ch[p][q], m) ELSE ch[p][q]]]

Post(td, p, task) == [td EXCEPT ![p] = Append(@, task)]

\* The channels once p has taken the first message of q.
Taken(p, q) == [channel EXCEPT ![q][p] = Tail(@)]

Receives(p, q, kind) ==
    /\ state[p] # "Gone"
    /\ channel[q][p] # <<>>
    /\ Head(channel[q][p]).kind = kind

-----------------------------------------------------------------------------
(* TimeConfiguration, over the peers kn and their announced tasks ot.      *)

\* Faulty variant, for a mutant of PROJECT.json (like all that are called so):
\* peers without news are skipped.
LowerTimepointIgnoresSilent(p, kn, ot) ==
    \E q \in kn : ot[q].timePoint >= 0 /\ myNextTime[p] > ot[q].timePoint

OtherParticipantHasLowerTimepoint(p, kn, ot) ==
    \E q \in kn : myNextTime[p] > ot[q].timePoint

\* Faulty variant: a peer that has only finished its first step counts.
AdvancedAfterFirstStep(kn, ot) ==
    {q \in kn : ot[q].timePoint >= 0 /\ ot[q].timePoint >= ot[q].duration}

\* Peers that have advanced beyond their first step.
AdvancedPeers(kn, ot) == {q \in kn : ot[q].timePoint > ot[q].duration}

\* Faulty variant: late joiners are not recognized.
NeverHopOn(p, kn, ot) == FALSE

IsHopOn(p, kn, ot) ==
    currentTask[p].timePoint = -1 /\ AdvancedPeers(kn, ot) # {}

\* The time at which the next step starts, after the hop-on evaluation.
StartTimes(p, kn, ot) ==
    IF ~hopOnEvaluated[p] /\ IsHopOn(p, kn, ot)
    THEN {ot[q].timePoint : q \in {r \in AdvancedPeers(kn, ot) :
             \A s \in AdvancedPeers(kn, ot) : ot[r].timePoint <= ot[s].timePoint}}
    ELSE {myNextTime[p]}

\* Faulty variants: only the ends of the peers' steps; times already past.
LaterEnds(t, kn, ot) ==
    {x \in {ot[q].timePoint + ot[q].duration : q \in kn} : x > t}
AllTimes(t, kn, ot) ==
    UNION {{ot[q].timePoint, ot[q].timePoint + ot[q].duration} : q \in kn}

\* Starts and ends of the peers' steps that lie after time t.
LaterTimes(t, kn, ot) ==
    {x \in UNION {{ot[q].timePoint, ot[q].timePoint + ot[q].duration} : q \in kn} : x > t}

\* Possible duration of the step p starts at time t: the step size, cut short
\* at the earliest time a peer is due if step sizes are dynamic (flag dyn).
StepDurations(p, t, dyn, kn, ot) ==
    LET ends == {t + StepSize[p]} \cup LaterTimes(t, kn, ot)
    IN  IF dyn
        THEN {x - t : x \in {e \in ends : \A f \in ends : e <= f}}
        ELSE {StepSize[p]}

-----------------------------------------------------------------------------
(* Dynamic step sizes are negotiated: every service announces whether its  *)
(* participant requests them.                                              *)

\* Faulty variant: a participant that opted out follows its peers as well.
EnabledByAnyPeer(p, peers) == p \in Driver \/ peers # {}

\* What the configuration of p and the requests of peers come to.
DynamicStepEnabled(p, peers) == p \in Driver \/ (p \notin OptOut /\ peers # {})

\* Faulty variant: the last request taken back does not turn the flag off.
NeverSwitchedOff(p, peers) ==
    /\ dynamicStepPeers' = [dynamicStepPeers EXCEPT ![p] = peers]
    /\ dynamicStepEnabled' =
          [dynamicStepEnabled EXCEPT ![p] = @ \/ DynamicStepEnabled(p, peers)]

\* The peers that request dynamic steps are now these.
RecomputeDynamicStepEnabled(p, peers) ==
    /\ dynamicStepPeers' = [dynamicStepPeers EXCEPT ![p] = peers]
    /\ dynamicStepEnabled' = [dynamicStepEnabled EXCEPT ![p] = DynamicStepEnabled(p, peers)]

-----------------------------------------------------------------------------
(* SynchronizedPolicy. The operators take the channels ch and the posted   *)
(* tasks td as the calling handler has left them.                          *)

NoRequest(ch, td) ==
    /\ channel' = ch
    /\ todo' = td
    /\ UNCHANGED lastSent

\* Announce the next step once, and post a check whether it is due.
RequestNextStep(p, next, ch, td) ==
    /\ lastSent' = [lastSent EXCEPT ![p] = next]
    /\ channel' = IF lastSent[p] = next THEN ch
                  ELSE Broadcast(ch, p, SimTaskMsg(NextTaskOf(p, next)))
    /\ todo' = Post(td, p, "Update")

MayRequest(p) ==
    state[p] = "Running" /\ ~stopRequested[p] /\ ~pauseRequested[p]

IsTimeAdvancePossible(p, kn, ot) ==
    /\ MayRequest(p)
    /\ ~(p \in Coordinated /\ systemError[p])
    /\ ~OtherParticipantHasLowerTimepoint(p, kn, ot)
    /\ myNextTime[p] <= MaxTime         \* bound

\* Not our turn, or the asynchronous step is still executing.
SkipStep(p, kn, ot, ch, td) ==
    /\ ~IsTimeAdvancePossible(p, kn, ot) \/ executing[p]
    /\ NoRequest(ch, td)
    /\ UNCHANGED <<currentTask, myNextTime, executing, hopOnEvaluated,
                   pauseRequested, stopRequested>>

\* A coordinated participant finds the simulation advanced and aborts it.
AbortHopOn(p, kn, ot, ch, td) ==
    LET aborted == Broadcast(ch, p, [kind |-> "AbortSimulation"])
    IN  /\ IsTimeAdvancePossible(p, kn, ot)
        /\ ~executing[p]
        /\ ~hopOnEvaluated[p]
        /\ IsHopOn(p, kn, ot)
        /\ p \in Coordinated
        /\ hopOnEvaluated' = [hopOnEvaluated EXCEPT ![p] = TRUE]
        /\ executing' = [executing EXCEPT ![p] = p \in Async]
        /\ \E start \in StartTimes(p, kn, ot) :
              /\ myNextTime' = [myNextTime EXCEPT ![p] = start]
              /\ IF p \in Async
                 THEN NoRequest(aborted, Post(td, p, "Abort"))
                 ELSE RequestNextStep(p, start, aborted, Post(td, p, "Abort"))
        /\ UNCHANGED <<currentTask, pauseRequested, stopRequested>>

MayCallPause(p) == p \in MayPause /\ \A i \in 1..Len(todo[p]) : todo[p][i] # "Continue"

\* API calls the simulation step handler itself may make.
HandlerCalls(p) ==
    {"None"} \cup (IF MayCallPause(p) THEN {"Pause"} ELSE {})
             \cup (IF p \in MayStop THEN {"Stop"} ELSE {})

\* Advance the time and run the simulation step handler; a blocking handler
\* that has not paused or stopped requests the next step on return.
ExecuteStep(p, dyn, kn, ot, ch, td) ==
    /\ IsTimeAdvancePossible(p, kn, ot)
    /\ ~executing[p]
    /\ ~(~hopOnEvaluated[p] /\ IsHopOn(p, kn, ot) /\ p \in Coordinated)
    /\ hopOnEvaluated' = [hopOnEvaluated EXCEPT ![p] = TRUE]
    /\ executing' = [executing EXCEPT ![p] = p \in Async]
    /\ \E start \in StartTimes(p, kn, ot), call \in HandlerCalls(p) :
       \E dur \in StepDurations(p, start, dyn, kn, ot) :
          /\ currentTask' = [currentTask EXCEPT ![p] = [timePoint |-> start, duration |-> dur]]
          /\ myNextTime' = [myNextTime EXCEPT ![p] = start + dur]
          /\ pauseRequested' = [pauseRequested EXCEPT ![p] = call = "Pause"]
          /\ stopRequested' = [stopRequested EXCEPT ![p] = call = "Stop"]
          /\ CASE call # "None" -> NoRequest(ch, Post(td, p, call))
               [] call = "None" /\ p \in Async -> NoRequest(ch, td)
               [] call = "None" /\ p \notin Async -> RequestNextStep(p, start + dur, ch, td)

ProcessSimulationTimeUpdate(p, dyn, kn, ot, ch, td) ==
    \/ SkipStep(p, kn, ot, ch, td)
    \/ AbortHopOn(p, kn, ot, ch, td)
    \/ ExecuteStep(p, dyn, kn, ot, ch, td)

-----------------------------------------------------------------------------
(* Start of the lifecycle. *)

\* StartLifecycle: the service is announced, then the start barrier is called.
StartLifecycle(p) ==
    /\ state[p] = "Down"
    /\ state' = [state EXCEPT ![p] = "Initializing"]
    /\ awaiting' = [awaiting EXCEPT ![p] = Connected(p)]
    /\ channel' = Broadcast(Broadcast(channel, p, [kind |-> "ServiceCreated"]),
                            p, [kind |-> "Call"])
    /\ UNCHANGED <<pauseRequested, stopRequested, systemError, todo, timeVars,
                   known, otherNextTask, dynamicVars>>

\* The lifecycle reaches Running: a coordinated participant once all required
\* participants have passed their barrier, an autonomous one on its own.
EnterRunning(p) ==
    /\ state[p] = "Initializing"
    /\ awaiting[p] = {}
    /\ p \in Coordinated =>
          \A q \in Coordinated : state[q] # "Down" /\ awaiting[q] = {}
    /\ state' = [state EXCEPT ![p] = "Running"]
    /\ RequestNextStep(p, myNextTime[p], channel, todo)
    /\ UNCHANGED <<pauseRequested, stopRequested, systemError, currentTask, myNextTime,
                   executing, hopOnEvaluated, peerVars>>

(* Calls by user threads. *)

CallPause(p) ==
    /\ MayCallPause(p)
    /\ state[p] = "Running"
    /\ ~pauseRequested[p]
    /\ ~stopRequested[p]
    /\ pauseRequested' = [pauseRequested EXCEPT ![p] = TRUE]
    /\ todo' = Post(todo, p, "Pause")
    /\ UNCHANGED <<state, stopRequested, systemError, timeVars, peerVars, channel>>

CallContinue(p) ==
    /\ state[p] \in {"Running", "Paused"}
    /\ pauseRequested[p]
    /\ pauseRequested' = [pauseRequested EXCEPT ![p] = FALSE]
    /\ todo' = Post(todo, p, "Continue")
    /\ UNCHANGED <<state, stopRequested, systemError, timeVars, peerVars, channel>>

CallStop(p) ==
    /\ p \in MayStop
    /\ state[p] \in {"Running", "Paused"}
    /\ ~stopRequested[p]
    /\ stopRequested' = [stopRequested EXCEPT ![p] = TRUE]
    /\ todo' = Post(todo, p, "Stop")
    /\ UNCHANGED <<state, pauseRequested, systemError, timeVars, peerVars, channel>>

\* CompleteSimulationStep and the task it posts.
CompleteSimulationStep(p) ==
    /\ executing[p]
    /\ currentTask[p].timePoint >= 0    \* the handler has been invoked
    /\ state[p] # "Gone"
    /\ executing' = [executing EXCEPT ![p] = FALSE]
    /\ IF MayRequest(p) THEN RequestNextStep(p, myNextTime[p], channel, todo)
                        ELSE NoRequest(channel, todo)
    /\ UNCHANGED <<lifecycleVars, currentTask, myNextTime, hopOnEvaluated, peerVars>>

-----------------------------------------------------------------------------
(* Tasks posted to the IO thread. *)

Runs(p, task) == state[p] # "Gone" /\ todo[p] # <<>> /\ Head(todo[p]) = task
Popped(p) == [todo EXCEPT ![p] = Tail(@)]

UpdateTask(p) ==
    /\ Runs(p, "Update")
    /\ ProcessSimulationTimeUpdate(p, dynamicStepEnabled[p], known[p], otherNextTask[p],
                                   channel, Popped(p))
    /\ UNCHANGED <<state, systemError, peerVars>>

RequestTask(p) ==
    /\ Runs(p, "Request")
    /\ IF MayRequest(p) THEN RequestNextStep(p, myNextTime[p], channel, Popped(p))
                        ELSE NoRequest(channel, Popped(p))
    /\ UNCHANGED <<lifecycleVars, currentTask, myNextTime, executing, hopOnEvaluated, peerVars>>

PauseTask(p) ==
    /\ Runs(p, "Pause")
    /\ state' = [state EXCEPT ![p] = IF @ = "Running" THEN "Paused" ELSE "Halted"]
    /\ todo' = Popped(p)
    /\ UNCHANGED <<pauseRequested, stopRequested, systemError, timeVars, peerVars, channel>>

\* Faulty variant: Continue does not request the next step.
ContinueWithoutRequest(p) ==
    /\ Runs(p, "Continue")
    /\ state' = [state EXCEPT ![p] = IF @ = "Paused" THEN "Running" ELSE "Halted"]
    /\ todo' = Popped(p)
    /\ UNCHANGED <<pauseRequested, stopRequested, systemError, timeVars, peerVars, channel>>

ContinueTask(p) ==
    /\ Runs(p, "Continue")
    /\ IF state[p] = "Paused"
       THEN /\ state' = [state EXCEPT ![p] = "Running"]
            /\ todo' = Post(Popped(p), p, "Request")
       ELSE /\ state' = [state EXCEPT ![p] = "Halted"]
            /\ todo' = Popped(p)
    /\ UNCHANGED <<pauseRequested, stopRequested, systemError, timeVars, peerVars, channel>>

StopTask(p) ==
    /\ Runs(p, "Stop") \/ Runs(p, "Abort")
    /\ state' = [state EXCEPT ![p] = "Halted"]
    /\ todo' = Popped(p)
    /\ UNCHANGED <<pauseRequested, stopRequested, systemError, timeVars, peerVars, channel>>

\* SystemState::Stopping stops the other coordinated participants.
SystemStopping(p) ==
    /\ p \in Coordinated
    /\ state[p] \in {"Running", "Paused"}
    /\ \E q \in Coordinated : state[q] = "Halted" /\ stopRequested[q]
    /\ state' = [state EXCEPT ![p] = "Halted"]
    /\ UNCHANGED <<pauseRequested, stopRequested, systemError, todo, timeVars, peerVars, channel>>

-----------------------------------------------------------------------------
(* Messages of peers. *)

ReceiveNextSimTask(p, q) ==
    LET msg == Head(channel[q][p])
        task == [timePoint |-> msg.timePoint, duration |-> msg.duration]
        others == IF state[p] # "Down" /\ q \in known[p]
                  THEN [otherNextTask EXCEPT ![p][q] = task]
                  ELSE otherNextTask
    IN  /\ Receives(p, q, "NextSimTask")
        /\ otherNextTask' = others
        /\ ProcessSimulationTimeUpdate(p, dynamicStepEnabled[p], known[p], others[p],
                                       Taken(p, q), todo)
        /\ UNCHANGED <<state, systemError, known, dynamicVars, awaiting>>

\* Faulty variants: nothing is resent; always the current task; always the
\* next one.
NeverResends(p) == FALSE
CurrentTaskOnly(p) == currentTask[p]
NextTaskOnly(p) == NextTaskOf(p, myNextTime[p])

\* A late joiner is told the task that is executing, or the next one.
Resends(p) == currentTask[p].timePoint >= 0
ResentTask(p) ==
    IF executing[p] THEN currentTask[p] ELSE NextTaskOf(p, myNextTime[p])

ReceiveServiceCreated(p, q) ==
    /\ Receives(p, q, "ServiceCreated")
    /\ RecomputeDynamicStepEnabled(p, dynamicStepPeers[p] \cup ({q} \cap Driver))
    /\ known' = [known EXCEPT ![p] = @ \cup {q}]
    /\ channel' = IF Resends(p)
                  THEN Broadcast(Taken(p, q), p, SimTaskMsg(ResentTask(p)))
                  ELSE Taken(p, q)
    /\ UNCHANGED <<lifecycleVars, todo, timeVars, otherNextTask, awaiting>>

ReceiveCall(p, q) ==
    /\ Receives(p, q, "Call")
    /\ channel' = IF q \in Connected(p)
                  THEN [Taken(p, q) EXCEPT ![p][q] = Append(@, [kind |-> "CallReturn"])]
                  ELSE Taken(p, q)
    /\ UNCHANGED <<lifecycleVars, todo, timeVars, peerVars>>

ReceiveCallReturn(p, q) ==
    /\ Receives(p, q, "CallReturn")
    /\ awaiting' = [awaiting EXCEPT ![p] = @ \ {q}]
    /\ channel' = Taken(p, q)
    /\ UNCHANGED <<lifecycleVars, todo, timeVars, known, otherNextTask, dynamicVars>>

\* Faulty variant: autonomous participants do not follow.
AbortOnlyCoordinated(p, q) ==
    /\ Receives(p, q, "AbortSimulation")
    /\ todo' = IF p \in Coordinated THEN Post(todo, p, "Abort") ELSE todo
    /\ channel' = Taken(p, q)
    /\ UNCHANGED <<lifecycleVars, timeVars, peerVars>>

\* Before StartLifecycle the abort is only remembered: it will never run.
ReceiveAbortSimulation(p, q) ==
    /\ Receives(p, q, "AbortSimulation")
    /\ state' = [state EXCEPT ![p] = IF @ = "Down" THEN "Halted" ELSE @]
    /\ todo' = IF state[p] = "Down" THEN todo ELSE Post(todo, p, "Abort")
    /\ channel' = Taken(p, q)
    /\ UNCHANGED <<pauseRequested, stopRequested, systemError, timeVars, peerVars>>

\* Faulty variant: the removal does not check whether a step is due now.
RemovePeerOnly(p, q) ==
    /\ Receives(p, q, "PeerShutdown")
    /\ known' = [known EXCEPT ![p] = @ \ {q}]
    /\ otherNextTask' = [otherNextTask EXCEPT ![p][q] = UnknownTask]
    /\ RecomputeDynamicStepEnabled(p, dynamicStepPeers[p] \ {q})
    /\ awaiting' = [awaiting EXCEPT ![p] = @ \ {q}]
    /\ channel' = Taken(p, q)
    /\ UNCHANGED <<lifecycleVars, todo, timeVars>>

\* The peer leaves, or its connection is lost: first the service discovery
\* removes its service, then the system monitor looks at its last state.
ReceivePeerShutdown(p, q) ==
    LET peers == known[p] \ {q}
        others == [otherNextTask[p] EXCEPT ![q] = UnknownTask]
        requests == dynamicStepPeers[p] \ {q}
    IN  /\ Receives(p, q, "PeerShutdown")
        /\ known' = [known EXCEPT ![p] = peers]
        /\ otherNextTask' = [otherNextTask EXCEPT ![p] = others]
        /\ RecomputeDynamicStepEnabled(p, requests)
        /\ awaiting' = [awaiting EXCEPT ![p] = @ \ {q}]
        /\ systemError' = [systemError EXCEPT ![p] =
              @ \/ (q \in Coordinated /\ ~Head(channel[q][p]).graceful)]
        /\ IF q \in known[p] /\ state[p] # "Down"
           THEN ProcessSimulationTimeUpdate(p, DynamicStepEnabled(p, requests), peers, others,
                                            Taken(p, q), todo)
           ELSE /\ NoRequest(Taken(p, q), todo)
                /\ UNCHANGED <<currentTask, myNextTime, executing, hopOnEvaluated,
                               pauseRequested, stopRequested>>
        /\ UNCHANGED state

\* Disconnecting is graceful if no status was ever sent or it is Shutdown.
Disconnect(p) ==
    /\ p \in MayLeave
    /\ state[p] # "Gone"
    /\ state' = [state EXCEPT ![p] = "Gone"]
    /\ todo' = [todo EXCEPT ![p] = <<>>]
    /\ \E graceful \in CASE state[p] = "Down" -> {TRUE}
                         [] state[p] = "Halted" -> BOOLEAN
                         [] OTHER -> {FALSE} :
          channel' = Broadcast([q \in Participant |-> [channel[q] EXCEPT ![p] = <<>>]],
                               p, [kind |-> "PeerShutdown", graceful |-> graceful])
    /\ UNCHANGED <<pauseRequested, stopRequested, systemError, timeVars, peerVars>>

-----------------------------------------------------------------------------
\* The participants AtStart have exchanged their services already.
Init ==
    /\ state = [p \in Participant |-> IF p \in AtStart THEN "Initializing" ELSE "Down"]
    /\ pauseRequested = [p \in Participant |-> FALSE]
    /\ stopRequested = [p \in Participant |-> FALSE]
    /\ systemError = [p \in Participant |-> FALSE]
    /\ todo = [p \in Participant |-> <<>>]
    /\ currentTask = [p \in Participant |-> UnknownTask]
    /\ myNextTime = [p \in Participant |-> 0]
    /\ lastSent = [p \in Participant |-> -1]
    /\ executing = [p \in Participant |-> FALSE]
    /\ hopOnEvaluated = [p \in Participant |-> FALSE]
    /\ known = [p \in Participant |-> AtStart \ {p}]
    /\ otherNextTask = [p \in Participant |-> [q \in Participant |-> UnknownTask]]
    /\ dynamicStepPeers = [p \in Participant |-> (AtStart \ {p}) \cap Driver]
    /\ dynamicStepEnabled = [p \in Participant |-> DynamicStepEnabled(p, dynamicStepPeers[p])]
    /\ awaiting = [p \in Participant |-> {}]
    /\ channel = [p \in Participant |-> [q \in Participant |-> <<>>]]

LocalStep(p) ==
    \/ StartLifecycle(p) \/ EnterRunning(p)
    \/ CallPause(p) \/ CallContinue(p) \/ CallStop(p) \/ CompleteSimulationStep(p)
    \/ UpdateTask(p) \/ RequestTask(p) \/ PauseTask(p) \/ ContinueTask(p) \/ StopTask(p)
    \/ SystemStopping(p) \/ Disconnect(p)

Receive(p, q) ==
    \/ ReceiveNextSimTask(p, q) \/ ReceiveServiceCreated(p, q)
    \/ ReceiveCall(p, q) \/ ReceiveCallReturn(p, q)
    \/ ReceiveAbortSimulation(p, q) \/ ReceivePeerShutdown(p, q)

Next ==
    \/ \E p \in Participant : LocalStep(p)
    \/ \E p \in Participant, q \in Participant : Receive(p, q)

Spec == Init /\ [][Next]_vars

-----------------------------------------------------------------------------
TypeOK ==
    /\ state \in [Participant -> State]
    /\ pauseRequested \in [Participant -> BOOLEAN]
    /\ stopRequested \in [Participant -> BOOLEAN]
    /\ systemError \in [Participant -> BOOLEAN]
    /\ todo \in [Participant -> Seq(PostedTask)]
    /\ currentTask \in [Participant -> Task]
    /\ myNextTime \in [Participant -> Nat]
    /\ lastSent \in [Participant -> TimePoint]
    /\ executing \in [Participant -> BOOLEAN]
    /\ hopOnEvaluated \in [Participant -> BOOLEAN]
    /\ known \in [Participant -> SUBSET Participant]
    /\ otherNextTask \in [Participant -> [Participant -> Task]]
    /\ dynamicStepPeers \in [Participant -> SUBSET Participant]
    /\ dynamicStepEnabled \in [Participant -> BOOLEAN]
    /\ awaiting \in [Participant -> SUBSET Participant]
    /\ channel \in [Participant -> [Participant -> Seq(Message)]]

\* p has executed a step in this transition.
Steps(p) == currentTask'[p] # currentTask[p]

(* OnReceiveNextSimStep logs "Chonology error" for an announcement below   *)
(* the last one: no peer ever sends one, resent announcements included, as *)
(* long as no asynchronous participant is paused.                          *)
Chronology ==
    \A p \in Participant, q \in Participant :
       LET tasks == {i \in 1..Len(channel[q][p]) : channel[q][p][i].kind = "NextSimTask"}
       IN  /\ \A i, j \in tasks :
                 i < j => channel[q][p][i].timePoint <= channel[q][p][j].timePoint
           /\ q \in known[p] => \A i \in tasks :
                 otherNextTask[p][q].timePoint <= channel[q][p][i].timePoint

(* A simulation of coordinated participants never takes one of them for a  *)
(* late joiner, which would abort it.                                      *)
NoAbortAmongCoordinated ==
    \A p \in Participant : \A i \in 1..Len(todo[p]) : todo[p][i] # "Abort"

(* A time is announced only after the step before it has been completed:   *)
(* peers know no time of p beyond the step p is executing, as long as no   *)
(* asynchronous participant is paused.                                     *)
AnnouncedAfterCompletion ==
    \A p \in Participant : executing[p] /\ currentTask[p].timePoint >= 0 =>
       \A q \in Participant : otherNextTask[q][p].timePoint <= currentTask[p].timePoint

\* p only knows participants that were there from the start and still are.
JoinsTheFirst(p) == known'[p] \subseteq {q \in AtStart : state[q] # "Gone"}

(* An autonomous participant that joins those that started together starts *)
(* at the time they have reached: its first step is not before a step one  *)
(* of them has begun, whoever steps dynamically by then. The exceptions    *)
(* are peers whose step does not show that they have advanced: one that is *)
(* not beyond the first StepSize, since shorter steps are not seen to be   *)
(* later ones, and a step that an asynchronous participant was executing   *)
(* when it heard of the joiner, together with the steps that follow it.    *)
FirstStepNotInThePast ==
    [][\A p \in Participant \ Coordinated :
          currentTask[p].timePoint = -1 /\ Steps(p) /\ JoinsTheFirst(p) =>
             \A q \in known'[p] :
                \/ currentTask[q].timePoint <= currentTask'[p].timePoint
                \/ myNextTime[q] <= StepSize[q]
                \/ q \in Async /\ currentTask[q].timePoint <= currentTask[q].duration
                \/ \E a \in known'[p] \cap Async :
                      /\ currentTask[a].timePoint = currentTask'[p].timePoint
                      /\ currentTask[q].timePoint <= myNextTime[a]]_vars

(* A step that starts at the announced time, that is every step but a hop  *)
(* on, is in time order.                                                   *)
AnnouncedStepsInTimeOrder ==
    [][\A p \in Participant : Steps(p) /\ currentTask'[p].timePoint = myNextTime[p] =>
          \A q \in known'[p] : currentTask'[p].timePoint <= myNextTime[q]]_vars

(* The participants a participant knows, and that asked for dynamic steps. *)
MayShorten(p, peers) == p \in Driver \/ (p \notin OptOut /\ peers \cap Driver # {})

\* p knows everybody else that has come so far: it has seen nobody leave.
KnowsAll(p) == known'[p] = {q \in Participant : state[q] # "Down"} \ {p}

(* Step sizes are negotiated: a participant that requested dynamic steps,  *)
(* or follows a peer it knows and that requested them, never steps past a  *)
(* time at which somebody it knows is due, announced or not, unless it     *)
(* hops on or has seen somebody leave. Once the last request has gone, and *)
(* for those that opted out, every step has the configured duration.       *)
DynamicStepsAlign ==
    [][\A p \in Participant : Steps(p) =>
          IF MayShorten(p, known'[p])
          THEN KnowsAll(p) /\ currentTask'[p].timePoint = myNextTime[p] =>
                 \A q \in known'[p] :
                    IF myNextTime[q] > currentTask'[p].timePoint
                    THEN myNextTime'[p] <= myNextTime[q]
                    ELSE myNextTime'[p] <= currentTask'[p].timePoint + StepSize[q]
          ELSE currentTask'[p].duration = StepSize[p]]_vars

-----------------------------------------------------------------------------
(* The IO threads are fair to their tasks and connections, the lifecycle   *)
(* proceeds, the user completes asynchronous steps and ends every pause.   *)
Fairness ==
    \A p \in Participant :
       /\ WF_vars(EnterRunning(p))
       /\ WF_vars(UpdateTask(p) \/ RequestTask(p) \/ PauseTask(p) \/ ContinueTask(p) \/ StopTask(p))
       /\ WF_vars(CompleteSimulationStep(p))
       /\ WF_vars(CallContinue(p))
       /\ WF_vars(SystemStopping(p))
       /\ \A q \in Participant : WF_vars(Receive(p, q))

FairSpec == Spec /\ Fairness

\* The users leave the simulation running from some time on.
PausesEnd == <>[](\A p \in Participant : ~pauseRequested[p])

(* Nobody waits forever: once the users leave it running, every            *)
(* participant that stays executes its steps up to the bound.              *)
EveryoneAdvances ==
    PausesEnd =>
       \A p \in AtStart \ (MayStop \cup MayLeave) : <>(myNextTime[p] > MaxTime)

(* A late joiner gets to execute steps as well.                            *)
JoinerAdvances ==
    PausesEnd =>
       \A p \in Participant \ (AtStart \cup Coordinated) :
          state[p] = "Running" ~> currentTask[p].timePoint >= 0 \/ state[p] = "Gone"

(* A coordinated participant that joins late takes the simulation down.    *)
LateCoordinatedAborts ==
    \A p \in Coordinated : currentTask[p].timePoint = -1 /\ hopOnEvaluated[p] ~>
       \A q \in Participant : state[q] \in {"Halted", "Down", "Gone"}

VT == INSTANCE VirtualTime WITH
        present <- {p \in Participant : state[p] # "Gone"},
        now <- [p \in Participant |-> currentTask[p].timePoint],
        next <- myNextTime

(* Participants that start together implement the abstract time line.      *)
ImplementsVirtualTime == VT!Spec
=============================================================================
