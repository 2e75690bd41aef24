--------------------------- MODULE TimeSyncProofs ---------------------------
(***************************************************************************)
(* Proofs about TimeSync, for any number of participants and any choice of *)
(* their modes and step sizes.                                             *)
(***************************************************************************)
EXTENDS TimeSync, TLAPS

Channels == [Participant -> [Participant -> Seq(Message)]]
Posted == [Participant -> Seq(PostedTask)]

-----------------------------------------------------------------------------
(* The operators on channels and posted tasks keep their types.            *)

LEMMA BroadcastType ==
  ASSUME NEW ch \in Channels, NEW p \in Participant, NEW m \in Message
  PROVE  Broadcast(ch, p, m) \in Channels
BY DEF Broadcast, Channels

LEMMA PostType ==
  ASSUME NEW td \in Posted, NEW p \in Participant, NEW task \in PostedTask
  PROVE  Post(td, p, task) \in Posted
BY DEF Post, Posted

LEMMA TakenType ==
  ASSUME TypeOK, NEW p \in Participant, NEW q \in Participant, channel[q][p] # <<>>
  PROVE  Taken(p, q) \in Channels
BY DEF Taken, TypeOK, Channels

LEMMA PoppedType ==
  ASSUME TypeOK, NEW p \in Participant, todo[p] # <<>>
  PROVE  Popped(p) \in Posted
BY DEF Popped, TypeOK, Posted

LEMMA SignalTypes ==
  ASSUME NEW kind \in {"ServiceCreated", "Call", "CallReturn", "AbortSimulation"}
  PROVE  [kind |-> kind] \in Message
BY DEF Message, Signal

LEMMA SimTaskMsgType ==
  ASSUME NEW task \in Task
  PROVE  SimTaskMsg(task) \in Message
BY DEF SimTaskMsg, Task, Message, NextSimTask

LEMMA NextTaskOfType ==
  ASSUME NEW p \in Participant, NEW time \in Nat
  PROVE  NextTaskOf(p, time) \in Task
BY StepSizeAssumption DEF NextTaskOf, Task, TimePoint

(* A hop on starts at a time announced by an advanced peer: not negative.  *)
LEMMA StartTimesType ==
  ASSUME TypeOK, NEW p \in Participant,
         NEW kn \in SUBSET Participant, NEW ot \in [Participant -> Task]
  PROVE  StartTimes(p, kn, ot) \subseteq Nat
<1>1. ASSUME NEW q \in AdvancedPeers(kn, ot) PROVE ot[q].timePoint \in Nat
  BY <1>1 DEF AdvancedPeers, Task, TimePoint
<1>2. myNextTime[p] \in Nat
  BY DEF TypeOK
<1>3. QED
  BY <1>1, <1>2 DEF StartTimes

(* Every step takes time, dynamic step sizes included.                     *)
LEMMA StepDurationsType ==
  ASSUME NEW p \in Participant, NEW t \in Nat, NEW dyn \in BOOLEAN,
         NEW kn \in SUBSET Participant, NEW ot \in [Participant -> Task]
  PROVE  StepDurations(p, t, dyn, kn, ot) \subseteq Nat \ {0}
<1>1. StepSize[p] \in Nat \ {0}
  BY StepSizeAssumption
<1>2. ASSUME NEW x \in {t + StepSize[p]} \cup LaterTimes(t, kn, ot)
      PROVE  x - t \in Nat \ {0}
  <2>1. CASE x = t + StepSize[p]
    BY <1>1, <2>1
  <2>2. CASE x \in LaterTimes(t, kn, ot)
    <3>1. x > t /\ \E q \in kn : x \in {ot[q].timePoint, ot[q].timePoint + ot[q].duration}
      BY <2>2 DEF LaterTimes
    <3>2. x \in Int
      BY <3>1 DEF Task, TimePoint
    <3>3. QED
      BY <3>1, <3>2
  <2>3. QED
    BY <1>2, <2>1, <2>2
<1>3. QED
  BY <1>1, <1>2 DEF StepDurations

LEMMA DynamicStepEnabledType ==
  ASSUME NEW p, NEW peers
  PROVE  DynamicStepEnabled(p, peers) \in BOOLEAN
BY DEF DynamicStepEnabled

LEMMA RecomputeType ==
  ASSUME TypeOK, NEW p \in Participant, NEW peers \in SUBSET Participant,
         RecomputeDynamicStepEnabled(p, peers)
  PROVE  /\ dynamicStepPeers' \in [Participant -> SUBSET Participant]
         /\ dynamicStepEnabled' \in [Participant -> BOOLEAN]
BY DynamicStepEnabledType DEF RecomputeDynamicStepEnabled, TypeOK

-----------------------------------------------------------------------------
(* Type correctness of the time update, whichever handler runs it.         *)

LEMMA NoRequestType ==
  ASSUME TypeOK, NEW ch \in Channels, NEW td \in Posted, NoRequest(ch, td)
  PROVE  channel' \in Channels /\ todo' \in Posted /\ lastSent' \in [Participant -> TimePoint]
BY DEF NoRequest, TypeOK

LEMMA RequestNextStepType ==
  ASSUME TypeOK, NEW p \in Participant, NEW next \in Nat,
         NEW ch \in Channels, NEW td \in Posted, RequestNextStep(p, next, ch, td)
  PROVE  channel' \in Channels /\ todo' \in Posted /\ lastSent' \in [Participant -> TimePoint]
<1>1. SimTaskMsg(NextTaskOf(p, next)) \in Message
  BY NextTaskOfType, SimTaskMsgType
<1>2. channel' \in Channels
  BY <1>1, BroadcastType DEF RequestNextStep
<1>3. todo' \in Posted
  BY PostType DEF RequestNextStep, PostedTask
<1>4. lastSent' \in [Participant -> TimePoint]
  BY DEF RequestNextStep, TypeOK, TimePoint
<1>5. QED
  BY <1>2, <1>3, <1>4

\* The part of the type invariant that a time update can change.
UpdateTypeOK ==
    /\ pauseRequested \in [Participant -> BOOLEAN]
    /\ stopRequested \in [Participant -> BOOLEAN]
    /\ todo \in Posted
    /\ currentTask \in [Participant -> Task]
    /\ myNextTime \in [Participant -> Nat]
    /\ lastSent \in [Participant -> TimePoint]
    /\ executing \in [Participant -> BOOLEAN]
    /\ hopOnEvaluated \in [Participant -> BOOLEAN]
    /\ channel \in Channels

LEMMA TimeUpdateType ==
  ASSUME TypeOK, NEW p \in Participant, NEW dyn \in BOOLEAN,
         NEW kn \in SUBSET Participant, NEW ot \in [Participant -> Task],
         NEW ch \in Channels, NEW td \in Posted,
         ProcessSimulationTimeUpdate(p, dyn, kn, ot, ch, td)
  PROVE  UpdateTypeOK'
<1>1. CASE SkipStep(p, kn, ot, ch, td)
  BY <1>1, NoRequestType DEF SkipStep, UpdateTypeOK, TypeOK
<1>2. CASE AbortHopOn(p, kn, ot, ch, td)
  <2> DEFINE aborted == Broadcast(ch, p, [kind |-> "AbortSimulation"])
             posted == Post(td, p, "Abort")
  <2>1. aborted \in Channels /\ posted \in Posted
    BY BroadcastType, PostType, SignalTypes DEF PostedTask
  <2>2. PICK start \in StartTimes(p, kn, ot) :
           /\ myNextTime' = [myNextTime EXCEPT ![p] = start]
           /\ IF p \in Async THEN NoRequest(aborted, posted)
                             ELSE RequestNextStep(p, start, aborted, posted)
    BY <1>2 DEF AbortHopOn
  <2>3. start \in Nat
    BY StartTimesType
  <2>4. channel' \in Channels /\ todo' \in Posted /\ lastSent' \in [Participant -> TimePoint]
    BY <2>1, <2>2, <2>3, NoRequestType, RequestNextStepType
  <2>5. myNextTime' \in [Participant -> Nat]
    BY <2>2, <2>3 DEF TypeOK
  <2>6. QED
    BY <1>2, <2>4, <2>5 DEF AbortHopOn, UpdateTypeOK, TypeOK
<1>3. CASE ExecuteStep(p, dyn, kn, ot, ch, td)
  <2>1. PICK start \in StartTimes(p, kn, ot), call \in HandlerCalls(p) :
        \E dur \in StepDurations(p, start, dyn, kn, ot) :
           /\ currentTask' = [currentTask EXCEPT ![p] = [timePoint |-> start, duration |-> dur]]
           /\ myNextTime' = [myNextTime EXCEPT ![p] = start + dur]
           /\ pauseRequested' = [pauseRequested EXCEPT ![p] = call = "Pause"]
           /\ stopRequested' = [stopRequested EXCEPT ![p] = call = "Stop"]
           /\ CASE call # "None" -> NoRequest(ch, Post(td, p, call))
                [] call = "None" /\ p \in Async -> NoRequest(ch, td)
                [] call = "None" /\ p \notin Async -> RequestNextStep(p, start + dur, ch, td)
    BY <1>3 DEF ExecuteStep
  <2>2. PICK dur \in StepDurations(p, start, dyn, kn, ot) :
           /\ currentTask' = [currentTask EXCEPT ![p] = [timePoint |-> start, duration |-> dur]]
           /\ myNextTime' = [myNextTime EXCEPT ![p] = start + dur]
           /\ pauseRequested' = [pauseRequested EXCEPT ![p] = call = "Pause"]
           /\ stopRequested' = [stopRequested EXCEPT ![p] = call = "Stop"]
           /\ \/ call # "None" /\ NoRequest(ch, Post(td, p, call))
              \/ call = "None" /\ NoRequest(ch, td)
              \/ RequestNextStep(p, start + dur, ch, td)
    BY <2>1
  <2>3. start \in Nat /\ dur \in Nat
    BY StartTimesType, StepDurationsType
  <2>4. call # "None" => call \in PostedTask
    BY DEF HandlerCalls, PostedTask
  <2>5. channel' \in Channels /\ todo' \in Posted /\ lastSent' \in [Participant -> TimePoint]
    <3>1. CASE call # "None" /\ NoRequest(ch, Post(td, p, call))
      BY <2>4, <3>1, PostType, NoRequestType
    <3>2. CASE NoRequest(ch, td)
      BY <3>2, NoRequestType
    <3>3. CASE RequestNextStep(p, start + dur, ch, td)
      <4>1. start + dur \in Nat
        BY <2>3
      <4>2. QED
        BY <3>3, <4>1, RequestNextStepType
    <3>4. QED
      BY <2>2, <3>1, <3>2, <3>3
  <2>6. currentTask' \in [Participant -> Task] /\ myNextTime' \in [Participant -> Nat]
    BY <2>2, <2>3 DEF TypeOK, Task, TimePoint
  <2>7. pauseRequested' \in [Participant -> BOOLEAN] /\ stopRequested' \in [Participant -> BOOLEAN]
    BY <2>2 DEF TypeOK
  <2>8. executing' \in [Participant -> BOOLEAN] /\ hopOnEvaluated' \in [Participant -> BOOLEAN]
    BY <1>3 DEF ExecuteStep, TypeOK
  <2>9. QED
    BY <2>5, <2>6, <2>7, <2>8 DEF UpdateTypeOK
<1>4. QED
  BY <1>1, <1>2, <1>3 DEF ProcessSimulationTimeUpdate

-----------------------------------------------------------------------------
(* Type correctness of each action, and of the specification.              *)

LEMMA InitType == Init => TypeOK
BY SubsetAssumption, DynamicStepEnabledType
   DEF Init, TypeOK, State, UnknownTask, Task, TimePoint, PostedTask, Message

LEMMA LocalStepType ==
  ASSUME TypeOK, NEW p \in Participant, LocalStep(p)
  PROVE  TypeOK'
<1>1. CASE StartLifecycle(p)
  <2> DEFINE once == Broadcast(channel, p, [kind |-> "ServiceCreated"])
  <2>1. channel \in Channels
    BY DEF TypeOK, Channels
  <2>2. once \in Channels
    BY <2>1, BroadcastType, SignalTypes
  <2>3. Broadcast(once, p, [kind |-> "Call"]) \in Channels
    BY <2>2, BroadcastType, SignalTypes
  <2>4. awaiting' \in [Participant -> SUBSET Participant]
    BY <1>1 DEF StartLifecycle, TypeOK, Connected
  <2>5. QED
    BY <1>1, <2>3, <2>4 DEF StartLifecycle, TypeOK, State, Channels, timeVars, dynamicVars
<1>2. CASE EnterRunning(p)
  <2>1. myNextTime[p] \in Nat /\ channel \in Channels /\ todo \in Posted
    BY DEF TypeOK, Channels, Posted
  <2>2. channel' \in Channels /\ todo' \in Posted /\ lastSent' \in [Participant -> TimePoint]
    BY <1>2, <2>1, RequestNextStepType DEF EnterRunning
  <2>3. QED
    BY <1>2, <2>2 DEF EnterRunning, TypeOK, State, Channels, Posted, peerVars, dynamicVars
<1>3. CASE CallPause(p)
  BY <1>3 DEF CallPause, Post, TypeOK, PostedTask, timeVars, peerVars, dynamicVars
<1>4. CASE CallContinue(p)
  BY <1>4 DEF CallContinue, Post, TypeOK, PostedTask, timeVars, peerVars, dynamicVars
<1>5. CASE CallStop(p)
  BY <1>5 DEF CallStop, Post, TypeOK, PostedTask, timeVars, peerVars, dynamicVars
<1>6. CASE CompleteSimulationStep(p)
  <2>1. myNextTime[p] \in Nat /\ channel \in Channels /\ todo \in Posted
    BY DEF TypeOK, Channels, Posted
  <2>2. channel' \in Channels /\ todo' \in Posted /\ lastSent' \in [Participant -> TimePoint]
    BY <1>6, <2>1, RequestNextStepType, NoRequestType DEF CompleteSimulationStep
  <2>3. QED
    BY <1>6, <2>2 DEF CompleteSimulationStep, TypeOK, Channels, Posted, lifecycleVars, peerVars, dynamicVars
<1>7. CASE UpdateTask(p)
  <2>1. /\ known[p] \in SUBSET Participant
        /\ otherNextTask[p] \in [Participant -> Task]
        /\ dynamicStepEnabled[p] \in BOOLEAN
        /\ channel \in Channels
        /\ Popped(p) \in Posted
    BY <1>7, PoppedType DEF UpdateTask, Runs, TypeOK, Channels
  <2>2. UpdateTypeOK'
    BY <1>7, <2>1, TimeUpdateType DEF UpdateTask
  <2>3. QED
    BY <1>7, <2>2 DEF UpdateTask, UpdateTypeOK, TypeOK, Channels, Posted, peerVars, dynamicVars
<1>8. CASE RequestTask(p)
  <2>1. myNextTime[p] \in Nat /\ channel \in Channels /\ Popped(p) \in Posted
    BY <1>8, PoppedType DEF RequestTask, Runs, TypeOK, Channels
  <2>2. channel' \in Channels /\ todo' \in Posted /\ lastSent' \in [Participant -> TimePoint]
    BY <1>8, <2>1, RequestNextStepType, NoRequestType DEF RequestTask
  <2>3. QED
    BY <1>8, <2>2 DEF RequestTask, TypeOK, Channels, Posted, lifecycleVars, peerVars, dynamicVars
<1>9. CASE PauseTask(p)
  <2>1. Popped(p) \in Posted
    BY <1>9, PoppedType DEF PauseTask, Runs
  <2>2. QED
    BY <1>9, <2>1 DEF PauseTask, TypeOK, State, Posted, timeVars, peerVars, dynamicVars
<1>10. CASE ContinueTask(p)
  <2>1. Popped(p) \in Posted
    BY <1>10, PoppedType DEF ContinueTask, Runs
  <2>2. Post(Popped(p), p, "Request") \in Posted
    BY <2>1, PostType DEF PostedTask
  <2>3. QED
    BY <1>10, <2>1, <2>2 DEF ContinueTask, TypeOK, State, Posted, timeVars, peerVars, dynamicVars
<1>11. CASE StopTask(p)
  <2>1. Popped(p) \in Posted
    BY <1>11, PoppedType DEF StopTask, Runs
  <2>2. QED
    BY <1>11, <2>1 DEF StopTask, TypeOK, State, Posted, timeVars, peerVars, dynamicVars
<1>12. CASE SystemStopping(p)
  BY <1>12 DEF SystemStopping, TypeOK, State, timeVars, peerVars, dynamicVars
<1>13. CASE Disconnect(p)
  <2> DEFINE cleared == [q \in Participant |-> [channel[q] EXCEPT ![p] = <<>>]]
  <2>1. cleared \in Channels
    BY DEF TypeOK, Channels, Message
  <2>2. PICK graceful \in BOOLEAN :
           channel' = Broadcast(cleared, p, [kind |-> "PeerShutdown", graceful |-> graceful])
    BY <1>13 DEF Disconnect
  <2>3. [kind |-> "PeerShutdown", graceful |-> graceful] \in Message
    BY DEF Message, PeerShutdown
  <2>4. channel' \in Channels
    BY <2>1, <2>2, <2>3, BroadcastType
  <2>5. /\ state' = [state EXCEPT ![p] = "Gone"]
        /\ todo' = [todo EXCEPT ![p] = <<>>]
        /\ UNCHANGED <<pauseRequested, stopRequested, systemError, timeVars, peerVars>>
    BY <1>13 DEF Disconnect
  <2>6. todo' \in [Participant -> Seq(PostedTask)]
    BY <2>5 DEF TypeOK
  <2>7. QED
    BY <2>4, <2>5, <2>6 DEF TypeOK, State, Channels, timeVars, peerVars, dynamicVars
<1>14. QED
  BY <1>1, <1>2, <1>3, <1>4, <1>5, <1>6, <1>7, <1>8, <1>9, <1>10, <1>11, <1>12, <1>13
     DEF LocalStep

LEMMA ReceiveType ==
  ASSUME TypeOK, NEW p \in Participant, NEW q \in Participant, Receive(p, q)
  PROVE  TypeOK'
<1>1. channel[q][p] # <<>> /\ Taken(p, q) \in Channels /\ Head(channel[q][p]) \in Message
  <2>1. channel[q][p] # <<>>
    BY DEF Receive, Receives, ReceiveNextSimTask, ReceiveServiceCreated, ReceiveCall,
           ReceiveCallReturn, ReceiveAbortSimulation, ReceivePeerShutdown
  <2>2. channel[q][p] \in Seq(Message)
    BY DEF TypeOK
  <2>3. QED
    BY <2>1, <2>2, TakenType
<1>2. todo \in Posted
  BY DEF TypeOK, Posted
<1>3. CASE ReceiveNextSimTask(p, q)
  <2> DEFINE msg == Head(channel[q][p])
             task == [timePoint |-> msg.timePoint, duration |-> msg.duration]
  <2>1. msg \in NextSimTask
    BY <1>1, <1>3 DEF ReceiveNextSimTask, Receives, Message, NextSimTask, Signal, PeerShutdown
  <2>2. task \in Task
    BY <2>1 DEF NextSimTask, Task
  <2>3. otherNextTask' \in [Participant -> [Participant -> Task]]
    BY <1>3, <2>2 DEF ReceiveNextSimTask, TypeOK
  <2>4. /\ ProcessSimulationTimeUpdate(p, dynamicStepEnabled[p], known[p], otherNextTask'[p], Taken(p, q), todo)
        /\ UNCHANGED <<state, systemError, known, dynamicVars, awaiting>>
    BY <1>3 DEF ReceiveNextSimTask
  <2>5. /\ known[p] \in SUBSET Participant
        /\ otherNextTask'[p] \in [Participant -> Task]
        /\ dynamicStepEnabled[p] \in BOOLEAN
    BY <2>3 DEF TypeOK
  <2>6. UpdateTypeOK'
    BY <1>1, <1>2, <2>4, <2>5, TimeUpdateType
  <2>7. QED
    BY <2>3, <2>4, <2>6 DEF UpdateTypeOK, TypeOK, Channels, Posted, dynamicVars
<1>4. CASE ReceiveServiceCreated(p, q)
  <2>1. ResentTask(p) \in Task
    BY NextTaskOfType DEF ResentTask, TypeOK
  <2>2. channel' \in Channels
    BY <1>1, <1>4, <2>1, SimTaskMsgType, BroadcastType DEF ReceiveServiceCreated
  <2>3. /\ dynamicStepPeers' \in [Participant -> SUBSET Participant]
        /\ dynamicStepEnabled' \in [Participant -> BOOLEAN]
    <3>1. dynamicStepPeers[p] \cup ({q} \cap Driver) \in SUBSET Participant
      BY DEF TypeOK
    <3>2. RecomputeDynamicStepEnabled(p, dynamicStepPeers[p] \cup ({q} \cap Driver))
      BY <1>4 DEF ReceiveServiceCreated
    <3>3. QED
      BY <3>1, <3>2, RecomputeType
  <2>4. QED
    BY <1>4, <2>2, <2>3 DEF ReceiveServiceCreated, TypeOK, Channels, lifecycleVars, timeVars
<1>5. CASE ReceiveCall(p, q)
  <2>1. channel' \in Channels
    BY <1>1, <1>5, SignalTypes DEF ReceiveCall, Channels
  <2>2. QED
    BY <1>5, <2>1 DEF ReceiveCall, TypeOK, Channels, lifecycleVars, timeVars, peerVars, dynamicVars
<1>6. CASE ReceiveCallReturn(p, q)
  BY <1>1, <1>6 DEF ReceiveCallReturn, TypeOK, Channels, lifecycleVars, timeVars, dynamicVars
<1>7. CASE ReceiveAbortSimulation(p, q)
  <2>1. todo' \in Posted
    BY <1>2, <1>7, PostType DEF ReceiveAbortSimulation, PostedTask
  <2>2. QED
    BY <1>1, <1>7, <2>1 DEF ReceiveAbortSimulation, TypeOK, State, Channels, Posted, timeVars, peerVars, dynamicVars
<1>8. CASE ReceivePeerShutdown(p, q)
  <2> DEFINE peers == known[p] \ {q}
             others == [otherNextTask[p] EXCEPT ![q] = UnknownTask]
             requests == dynamicStepPeers[p] \ {q}
  <2>1. UnknownTask \in Task
    BY DEF UnknownTask, Task, TimePoint
  <2>2. peers \in SUBSET Participant /\ others \in [Participant -> Task]
    BY <2>1 DEF TypeOK
  <2>3. /\ known' \in [Participant -> SUBSET Participant]
        /\ otherNextTask' \in [Participant -> [Participant -> Task]]
        /\ awaiting' \in [Participant -> SUBSET Participant]
    BY <1>8, <2>2 DEF ReceivePeerShutdown, TypeOK
  <2>4. systemError' \in [Participant -> BOOLEAN]
    <3>1. Head(channel[q][p]).graceful \in BOOLEAN
      BY <1>1, <1>8 DEF ReceivePeerShutdown, Receives, Message, NextSimTask, Signal, PeerShutdown
    <3>2. QED
      BY <1>8, <3>1 DEF ReceivePeerShutdown, TypeOK
  <2>5. UpdateTypeOK'
    <3>1. CASE q \in known[p] /\ state[p] # "Down"
      <4>1. ProcessSimulationTimeUpdate(p, DynamicStepEnabled(p, requests), peers, others,
                                        Taken(p, q), todo)
        BY <1>8, <3>1 DEF ReceivePeerShutdown
      <4>2. QED
        BY <1>1, <1>2, <2>2, <4>1, TimeUpdateType, DynamicStepEnabledType
    <3>2. CASE ~(q \in known[p] /\ state[p] # "Down")
      <4>1. /\ NoRequest(Taken(p, q), todo)
            /\ UNCHANGED <<currentTask, myNextTime, executing, hopOnEvaluated,
                           pauseRequested, stopRequested>>
        BY <1>8, <3>2 DEF ReceivePeerShutdown
      <4>2. QED
        BY <1>1, <1>2, <4>1, NoRequestType DEF UpdateTypeOK, TypeOK
    <3>3. QED
      BY <3>1, <3>2
  <2>6. /\ dynamicStepPeers' \in [Participant -> SUBSET Participant]
        /\ dynamicStepEnabled' \in [Participant -> BOOLEAN]
    <3>1. requests \in SUBSET Participant
      BY DEF TypeOK
    <3>2. RecomputeDynamicStepEnabled(p, requests)
      BY <1>8 DEF ReceivePeerShutdown
    <3>3. QED
      BY <3>1, <3>2, RecomputeType
  <2>7. QED
    BY <1>8, <2>3, <2>4, <2>5, <2>6 DEF ReceivePeerShutdown, UpdateTypeOK, TypeOK, Channels, Posted
<1>9. QED
  BY <1>3, <1>4, <1>5, <1>6, <1>7, <1>8 DEF Receive

(* Every variable keeps its type, in every configuration: in particular    *)
(* times never become negative once the simulation has started.            *)
THEOREM TypeCorrect == Spec => []TypeOK
<1>1. TypeOK /\ [Next]_vars => TypeOK'
  <2> SUFFICES ASSUME TypeOK, [Next]_vars PROVE TypeOK'
    OBVIOUS
  <2>1. ASSUME NEW p \in Participant, LocalStep(p) PROVE TypeOK'
    BY <2>1, LocalStepType
  <2>2. ASSUME NEW p \in Participant, NEW q \in Participant, Receive(p, q) PROVE TypeOK'
    BY <2>2, ReceiveType
  <2>3. CASE UNCHANGED vars
    BY <2>3 DEF TypeOK, vars, lifecycleVars, timeVars, peerVars, dynamicVars
  <2>4. QED
    BY <2>1, <2>2, <2>3 DEF Next
<1>2. QED
  BY <1>1, InitType, PTL DEF Spec
=============================================================================
