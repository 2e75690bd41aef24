-------------------------- MODULE LifecycleProofs --------------------------
(***************************************************************************)
(* Proofs about SystemStateTracker and Lifecycle, for any participants and *)
(* any choice of their modes, handlers and user calls.                     *)
(***************************************************************************)
EXTENDS Lifecycle, TLAPS

Known == ParticipantState \cup {"Unknown"}

-----------------------------------------------------------------------------
(* The tracker.                                                            *)

LEMMA RulesType ==
  ASSUME NEW new \in Known, NEW i \in DOMAIN Rules(new)
  PROVE  /\ Rules(new)[i].to \in SystemState
         /\ Rules(new)[i].from \subseteq ParticipantState
<1>1. CASE new = "Running"
  BY <1>1 DEF Rules, Rule, SystemState, ParticipantState
<1>2. CASE new = "Paused"
  BY <1>2 DEF Rules, Rule, SystemState, ParticipantState
<1>3. CASE new \in {"ServicesCreated", "CommunicationInitializing",
                    "CommunicationInitialized", "ReadyToRun"}
  BY <1>3 DEF Rules, Rule, SystemState, ParticipantState
<1>4. CASE new \in {"Stopping", "Stopped", "ShuttingDown", "Shutdown"}
  BY <1>4 DEF Rules, Rule, SystemState, ParticipantState
<1>5. CASE new \in {"Invalid", "Aborting", "Error", "Unknown"}
  BY <1>5 DEF Rules
<1>6. QED
  BY <1>1, <1>2, <1>3, <1>4, <1>5 DEF Known, ParticipantState

LEMMA WithoutRulesType ==
  ASSUME NEW t \in Tracker
  PROVE  WithoutRules(t) \in SystemState
BY DEF WithoutRules, Tracker, SystemState, ParticipantState

LEMMA ComputeSystemStateType ==
  ASSUME NEW t \in Tracker, NEW new \in Known
  PROVE  ComputeSystemState(t, new) \in SystemState
<1>1. CASE new \in {"Aborting", "Error"}
  BY <1>1 DEF ComputeSystemState, SystemState, ParticipantState
<1>2. CASE new \notin {"Aborting", "Error"}
            /\ \E i \in DOMAIN Rules(new) : FirstApplicable(t, Rules(new), i)
  <2> DEFINE i == CHOOSE i \in DOMAIN Rules(new) : FirstApplicable(t, Rules(new), i)
  <2>1. i \in DOMAIN Rules(new)
    BY <1>2
  <2>2. ComputeSystemState(t, new) = Rules(new)[i].to
    BY <1>2 DEF ComputeSystemState
  <2>3. QED
    BY <2>1, <2>2, RulesType
<1>3. CASE new \notin {"Aborting", "Error"}
            /\ ~ \E i \in DOMAIN Rules(new) : FirstApplicable(t, Rules(new), i)
  <2>1. ComputeSystemState(t, new) = WithoutRules(t)
    BY <1>3 DEF ComputeSystemState
  <2>2. QED
    BY <2>1, WithoutRulesType
<1>4. QED
  BY <1>1, <1>2, <1>3

LEMMA RecomputedType ==
  ASSUME NEW t \in Tracker, NEW new \in Known
  PROVE  Recomputed(t, new) \in Tracker
BY ComputeSystemStateType DEF Recomputed, Tracker

LEMMA SetStatusType ==
  ASSUME NEW t \in Tracker, NEW q \in Participant, NEW s \in Known
  PROVE  [t EXCEPT !.status[q] = s] \in Tracker
BY DEF Tracker, Known

LEMMA UpdateParticipantStatusType ==
  ASSUME NEW t \in Tracker, NEW q \in Participant, NEW new \in ParticipantState
  PROVE  UpdateParticipantStatus(t, q, new) \in Tracker
<1> DEFINE updated == [t EXCEPT !.status[q] = new]
<1>1. updated \in Tracker
  BY SetStatusType DEF Known
<1>2. Recomputed(updated, new) \in Tracker
  BY <1>1, RecomputedType DEF Known
<1>3. UpdateParticipantStatus(t, q, new) \in {t, updated, Recomputed(updated, new)}
  BY DEF UpdateParticipantStatus
<1>4. QED
  BY <1>1, <1>2, <1>3

LEMMA RemoveParticipantType ==
  ASSUME NEW t \in Tracker, NEW q \in Participant, NEW any \in Participant
  PROVE  RemoveParticipant(t, q, any) \in Tracker
<1> DEFINE removed == [t EXCEPT !.status[q] = "Unknown"]
<1>1. removed \in Tracker
  BY SetStatusType DEF Known
<1>2. removed.status[any] \in Known
  BY <1>1 DEF Tracker, Known
<1>3. Recomputed(removed, removed.status[any]) \in Tracker
  BY <1>1, <1>2, RecomputedType
<1>4. QED
  BY <1>3 DEF RemoveParticipant

-----------------------------------------------------------------------------
(* The record of an IO thread: the basic operations, then the intents. None *)
(* of them touches the tracker or the peers.                               *)

Keeps(r, s) == s \in IoThread /\ s.tracker = r.tracker /\ s.peers = r.peers

LEMMA PostType ==
  ASSUME NEW r \in IoThread, NEW task \in Task
  PROVE  Keeps(r, Post(r, task))
BY DEF Post, IoThread, Keeps

LEMMA EnterType ==
  ASSUME NEW r \in IoThread, NEW s \in ParticipantState
  PROVE  Keeps(r, Enter(r, s))
<1>1. Keeps(r, [r EXCEPT !.state = s])
  BY DEF IoThread, Keeps
<1>2. [kind |-> "Status", state |-> s] \in Task
  BY DEF Task
<1>3. QED
  BY <1>1, <1>2, PostType DEF Enter, Keeps

LEMMA CallAfterAllParticipantsRepliedType ==
  ASSUME NEW r \in IoThread, NEW id \in Barrier
  PROVE  Keeps(r, CallAfterAllParticipantsReplied(r, id))
<1>1. [kind |-> "Barrier", id |-> id] \in Task
  BY DEF Task
<1>2. QED
  BY <1>1, PostType DEF CallAfterAllParticipantsReplied, Keeps

LEMMA UserTaskType ==
  ASSUME NEW kind \in UserTask
  PROVE  [kind |-> kind] \in Task
BY DEF Task

LEMMA ErrorIntentType ==
  ASSUME NEW r \in IoThread
  PROVE  Keeps(r, ErrorIntent(r))
BY EnterType DEF ErrorIntent, ParticipantState, Keeps

LEMMA ReadyToRunIntentType ==
  ASSUME NEW p \in Participant, NEW r \in IoThread, NEW throws
  PROVE  Keeps(r, ReadyToRunIntent(p, r, throws))
BY EnterType, ErrorIntentType DEF ReadyToRunIntent, ParticipantState, Keeps

LEMMA CompleteReadyIntentType ==
  ASSUME NEW p \in Participant, NEW r \in IoThread, NEW throws
  PROVE  Keeps(r, CompleteReadyIntent(p, r, throws))
<1>1. Keeps(r, Enter(r, "ReadyToRun"))
  BY EnterType DEF ParticipantState
<1>2. QED
  BY <1>1, ErrorIntentType, ReadyToRunIntentType DEF CompleteReadyIntent, Keeps

LEMMA CommunicationReadyType ==
  ASSUME NEW p \in Participant, NEW r \in IoThread, NEW throws
  PROVE  Keeps(r, CommunicationReady(p, r, throws))
<1> DEFINE invoked == [r EXCEPT !.ready = "Invoked"]
<1>1. Keeps(r, invoked)
  BY DEF IoThread, Keeps
<1>2. Keeps(r, Enter(r, "Error")) /\ Keeps(r, Enter(invoked, "Error"))
  BY <1>1, EnterType DEF ParticipantState, Keeps
<1>3. Keeps(r, r)
  BY DEF Keeps
<1>4. QED
  BY <1>1, <1>2, <1>3, CompleteReadyIntentType DEF CommunicationReady

LEMMA CommunicationInitializedIntentType ==
  ASSUME NEW p \in Participant, NEW r \in IoThread, NEW throws
  PROVE  Keeps(r, CommunicationInitializedIntent(p, r, throws))
BY CommunicationReadyType, ReadyToRunIntentType, ErrorIntentType
   DEF CommunicationInitializedIntent, Keeps

LEMMA SubscriptionsCompleteType ==
  ASSUME NEW p \in Participant, NEW r \in IoThread, NEW throws
  PROVE  Keeps(r, SubscriptionsComplete(p, r, throws))
<1>1. Keeps(r, Enter(r, "CommunicationInitialized"))
  BY EnterType DEF ParticipantState
<1>2. QED
  BY <1>1, CommunicationInitializedIntentType DEF SubscriptionsComplete, Keeps

LEMMA CommunicationInitializingType ==
  ASSUME NEW p \in Participant, NEW r \in IoThread, NEW throws,
         NEW pending \in BOOLEAN
  PROVE  Keeps(r, CommunicationInitializing(p, r, throws, pending))
<1>1. Keeps(r, [r EXCEPT !.subscribing = TRUE])
  BY DEF IoThread, Keeps
<1>2. QED
  BY <1>1, SubscriptionsCompleteType DEF CommunicationInitializing, Keeps

LEMMA ServicesCreatedIntentType ==
  ASSUME NEW p \in Participant, NEW r \in IoThread, NEW throws,
         NEW pending \in BOOLEAN
  PROVE  Keeps(r, ServicesCreatedIntent(p, r, throws, pending))
<1>1. Keeps(r, CallAfterAllParticipantsReplied(r, "ServicesCreated"))
  BY CallAfterAllParticipantsRepliedType DEF Barrier
<1>2. QED
  BY <1>1, CommunicationInitializingType, ErrorIntentType DEF ServicesCreatedIntent, Keeps

LEMMA ShutdownIntentType ==
  ASSUME NEW r \in IoThread
  PROVE  Keeps(r, ShutdownIntent(r))
<1>1. Keeps(r, Enter(Enter(r, "ShuttingDown"), "Shutdown"))
  BY EnterType DEF ParticipantState, Keeps
<1>2. "Shutdown" \in Barrier
  BY DEF Barrier
<1>3. QED
  BY <1>1, <1>2, CallAfterAllParticipantsRepliedType, ErrorIntentType DEF ShutdownIntent, Keeps

LEMMA StopIntentType ==
  ASSUME NEW r \in IoThread, NEW throws
  PROVE  Keeps(r, StopIntent(r, throws))
<1>1. /\ Keeps(r, Enter(Enter(r, "Stopping"), "Error"))
      /\ Keeps(r, Enter(Enter(r, "Stopping"), "Stopped"))
  BY EnterType DEF ParticipantState, Keeps
<1>2. "Stopped" \in Barrier
  BY DEF Barrier
<1>3. QED
  BY <1>1, <1>2, CallAfterAllParticipantsRepliedType, ShutdownIntentType DEF StopIntent, Keeps

LEMMA AbortIntentType ==
  ASSUME NEW r \in IoThread
  PROVE  Keeps(r, AbortIntent(r))
<1>1. Keeps(r, Enter(Enter(r, "Aborting"), "Shutdown"))
  BY EnterType DEF ParticipantState, Keeps
<1>2. "Shutdown" \in Barrier
  BY DEF Barrier
<1>3. QED
  BY <1>1, <1>2, CallAfterAllParticipantsRepliedType DEF AbortIntent, Keeps

-----------------------------------------------------------------------------
(* The barrier and the system monitor.                                     *)

LEMMA CompletionType ==
  ASSUME NEW p \in Participant, NEW r \in IoThread, NEW id \in Barrier,
         NEW throws, NEW pending \in BOOLEAN
  PROVE  Keeps(r, Completion(p, r, id, throws, pending))
<1>1. CASE id = "ServicesCreated"
  <2>1. Keeps(r, Enter(r, "CommunicationInitializing"))
    BY EnterType DEF ParticipantState, Keeps
  <2>2. QED
    BY <1>1, <2>1, CommunicationInitializingType DEF Completion, Keeps
<1>2. CASE id = "Stopped"
  BY <1>2, ShutdownIntentType DEF Completion, Keeps
<1>3. CASE id = "Shutdown"
  <2>1. Keeps(r, SetFinalState(r))
    BY DEF SetFinalState, IoThread, Keeps
  <2>2. QED
    BY <1>3, <2>1 DEF Completion, Keeps
<1>4. QED
  BY <1>1, <1>2, <1>3 DEF Barrier, Keeps

LEMMA RequestRepliesType ==
  ASSUME NEW p \in Participant, NEW r \in IoThread, NEW id \in Barrier,
         NEW throws, NEW pending \in BOOLEAN
  PROVE  Keeps(r, RequestReplies(p, r, id, throws, pending))
<1> DEFINE requested == [r EXCEPT !.barrier = id, !.expected = r.peers]
<1>1. Keeps(r, requested)
  BY DEF IoThread, Keeps
<1>2. [kind |-> "Call", id |-> id] \in Task
  BY DEF Task
<1>3. Keeps(r, Post(requested, [kind |-> "Call", id |-> id]))
  BY <1>1, <1>2, PostType DEF Keeps
<1>4. Keeps(r, r)
  BY DEF Keeps
<1>5. QED
  BY <1>3, <1>4, CompletionType DEF RequestReplies

LEMMA ReceiveCallReturnType ==
  ASSUME NEW p \in Participant, NEW r \in IoThread, NEW q \in Participant,
         NEW id \in Barrier \cup {"None"}, NEW throws, NEW pending \in BOOLEAN
  PROVE  Keeps(r, ReceiveCallReturn(p, r, q, id, throws, pending))
<1> DEFINE left == r.expected \ {q}
<1>1. Keeps(r, r) /\ Keeps(r, [r EXCEPT !.expected = left])
  BY DEF IoThread, Keeps
<1>2. CASE r.barrier = id /\ r.barrier # "None" /\ left = {}
  <2> DEFINE replied == [r EXCEPT !.expected = {}]
             completed == Completion(p, replied, id, throws, pending)
  <2>1. id \in Barrier
    BY <1>2
  <2>2. Keeps(r, replied)
    BY DEF IoThread, Keeps
  <2>3. Keeps(replied, completed)
    <3>1. replied \in IoThread
      BY <2>2 DEF Keeps
    <3>2. QED
      BY <2>1, <3>1, CompletionType
  <2>4. Keeps(r, completed)
    BY <2>2, <2>3 DEF Keeps
  <2>5. Keeps(r, [completed EXCEPT !.barrier = "None"])
    BY <2>4 DEF IoThread, Keeps
  <2>6. QED
    BY <1>2, <2>5 DEF ReceiveCallReturn
<1>3. CASE ~(r.barrier = id /\ r.barrier # "None" /\ left = {})
  BY <1>1, <1>3 DEF ReceiveCallReturn
<1>4. QED
  BY <1>2, <1>3

LEMMA NewSystemStateType ==
  ASSUME NEW p \in Participant, NEW r \in IoThread, NEW throws,
         NEW pending \in BOOLEAN
  PROVE  Keeps(r, NewSystemState(p, r, throws, pending))
BY ServicesCreatedIntentType, CommunicationInitializedIntentType,
   ReadyToRunIntentType, StopIntentType DEF NewSystemState, Keeps

LEMMA TrackType ==
  ASSUME NEW p \in Participant, NEW r \in IoThread, NEW t \in Tracker, NEW throws,
         NEW pending \in BOOLEAN
  PROVE  Keeps([r EXCEPT !.tracker = t], Track(p, r, t, throws, pending))
<1> DEFINE tracked == [r EXCEPT !.tracker = t]
<1>1. tracked \in IoThread
  BY DEF IoThread
<1>2. Keeps(tracked, tracked)
  BY <1>1 DEF Keeps
<1>3. Keeps(tracked, NewSystemState(p, tracked, throws, pending))
  BY <1>1, NewSystemStateType
<1>4. Track(p, r, t, throws, pending) \in {tracked, NewSystemState(p, tracked, throws, pending)}
  BY DEF Track
<1>5. QED
  BY <1>2, <1>3, <1>4

\* s is what becomes of r when its tracker becomes t.
Tracks(r, s, t) == s \in IoThread /\ s.tracker = t /\ s.peers = r.peers

LEMMA TrackTracks ==
  ASSUME NEW p \in Participant, NEW r \in IoThread, NEW t \in Tracker, NEW throws,
         NEW pending \in BOOLEAN
  PROVE  Tracks(r, Track(p, r, t, throws, pending), t)
BY TrackType DEF Keeps, Tracks, IoThread

LEMMA ReceiveStatusTracks ==
  ASSUME NEW p \in Participant, NEW r \in IoThread, NEW q \in Participant,
         NEW s \in ParticipantState, NEW throws, NEW pending \in BOOLEAN
  PROVE  Tracks(r, ReceiveStatus(p, r, q, s, throws, pending),
                UpdateParticipantStatus(r.tracker, q, s))
<1>1. UpdateParticipantStatus(r.tracker, q, s) \in Tracker
  BY UpdateParticipantStatusType DEF IoThread
<1>2. QED
  BY <1>1, TrackTracks DEF ReceiveStatus

\* The tracker once q has been marked as in error, if it counts as lost.
Marked(t, q) ==
    IF t.status[q] \notin {"Unknown", "Invalid", "Shutdown"}
    THEN UpdateParticipantStatus(t, q, "Error") ELSE t

LEMMA OnParticipantDisconnectedTracks ==
  ASSUME NEW p \in Participant, NEW r \in IoThread, NEW q \in Participant,
         NEW any \in Participant, NEW throws, NEW pending \in BOOLEAN
  PROVE  Tracks(r, OnParticipantDisconnected(p, r, q, any, throws, pending),
                RemoveParticipant(Marked(r.tracker, q), q, any))
<1> DEFINE lost == r.tracker.status[q] \notin {"Unknown", "Invalid", "Shutdown"}
           marked == IF lost THEN ReceiveStatus(p, r, q, "Error", throws, pending) ELSE r
<1>1. Tracks(r, marked, Marked(r.tracker, q))
  <2>1. Tracks(r, ReceiveStatus(p, r, q, "Error", throws, pending),
               UpdateParticipantStatus(r.tracker, q, "Error"))
    BY ReceiveStatusTracks DEF ParticipantState
  <2>2. Tracks(r, r, r.tracker)
    BY DEF Tracks
  <2>3. QED
    BY <2>1, <2>2 DEF Marked
<1>2. RemoveParticipant(marked.tracker, q, any) \in Tracker
  <2>1. marked.tracker \in Tracker
    BY <1>1 DEF Tracks, IoThread
  <2>2. QED
    BY <2>1, RemoveParticipantType
<1>3. Tracks(marked, Track(p, marked, RemoveParticipant(marked.tracker, q, any),
                           throws, pending),
             RemoveParticipant(marked.tracker, q, any))
  BY <1>1, <1>2, TrackTracks DEF Tracks
<1>4. QED
  BY <1>1, <1>3 DEF OnParticipantDisconnected, Tracks

-----------------------------------------------------------------------------
(* Type correctness of the specification.                                  *)

Channels == [Participant -> [Participant -> Seq(Message)]]

LEMMA SentType ==
  ASSUME TypeOK, NEW p \in Participant, NEW to, NEW m \in Message
  PROVE  Sent(p, to, m) \in Channels
BY DEF Sent, TypeOK, Channels

LEMMA SendsType ==
  ASSUME TypeOK, NEW p \in Participant, NEW task \in Task
  PROVE  Sends(p, task) \in Channels
<1>1. CASE task.kind = "Status"
  <2>1. task \in Message
    BY <1>1 DEF Task, Message, UserTask
  <2>2. QED
    BY <1>1, <2>1, SentType DEF Sends
<1>2. CASE task.kind = "Call"
  <2>1. task \in Message
    BY <1>2 DEF Task, Message, UserTask
  <2>2. QED
    BY <1>2, <2>1, SentType DEF Sends
<1>3. CASE task.kind = "Return"
  <2>1. task.id \in Barrier
    BY <1>3 DEF Task, UserTask
  <2>2. [kind |-> "Return", id |-> task.id] \in Message
    BY <2>1 DEF Message
  <2>3. QED
    BY <1>3, <2>2, SentType DEF Sends
<1>4. CASE task.kind = "SendAbort"
  <2>1. [kind |-> "AbortSimulation"] \in Message
    BY DEF Message
  <2>2. QED
    BY <1>4, <2>1, SentType DEF Sends
<1>5. CASE task.kind \notin {"Status", "Call", "Return", "SendAbort"}
  BY <1>5 DEF Sends, TypeOK, Channels
<1>6. QED
  BY <1>1, <1>2, <1>3, <1>4, <1>5

LEMMA AfterTaskType ==
  ASSUME NEW p \in Participant, NEW r \in IoThread, NEW task \in Task,
         NEW throws, NEW pending \in BOOLEAN
  PROVE  /\ AfterTask(p, r, task, throws, pending) \in IoThread
         /\ AfterTask(p, r, task, throws, pending).peers = r.peers
<1> DEFINE s == AfterTask(p, r, task, throws, pending)
<1> HIDE DEF s
<1>1. CASE task.kind = "Status"
  <2>1. task.state \in ParticipantState
    BY <1>1 DEF Task, UserTask
  <2>2. s = ReceiveStatus(p, r, p, task.state, throws, pending)
    BY <1>1 DEF AfterTask, s
  <2>3. QED
    BY <2>1, <2>2, ReceiveStatusTracks DEF Tracks, s
<1>2. CASE task.kind = "Barrier"
  <2>1. task.id \in Barrier
    BY <1>2 DEF Task, UserTask
  <2>2. s = RequestReplies(p, r, task.id, throws, pending)
    BY <1>2 DEF AfterTask, s
  <2>3. QED
    BY <2>1, <2>2, RequestRepliesType DEF Keeps, s
<1>3. CASE task.kind = "Initialize"
  <2>1. Keeps(r, r) /\ Keeps(r, Enter(r, "ServicesCreated")) /\ Keeps(r, ErrorIntent(r))
    BY EnterType, ErrorIntentType DEF ParticipantState, Keeps
  <2>2. s \in {r, Enter(r, "ServicesCreated"), ErrorIntent(r)}
    BY <1>3 DEF AfterTask, s
  <2>3. QED
    BY <2>1, <2>2 DEF Keeps, s
<1>4. CASE task.kind \in {"StartAutonomous", "CompleteReady", "Stop", "Error", "Abort"}
  <2>1. s \in {ServicesCreatedIntent(p, r, throws, pending),
               CompleteReadyIntent(p, r, throws), StopIntent(r, throws),
               ErrorIntent(r), AbortIntent(r)}
    BY <1>4 DEF AfterTask, s
  <2>2. QED
    BY <2>1, ServicesCreatedIntentType, CompleteReadyIntentType, StopIntentType,
       ErrorIntentType, AbortIntentType DEF Keeps, s
<1>5. CASE task.kind \in {"Pause", "Continue"}
  <2>1. [kind |-> "Error"] \in Task
    BY UserTaskType DEF UserTask
  <2>2. Keeps(r, Post(r, [kind |-> "Error"]))
    BY <2>1, PostType
  <2>3. Keeps(r, Enter(r, "Paused")) /\ Keeps(r, Enter(r, "Running"))
    BY EnterType DEF ParticipantState
  <2>4. s \in {Post(r, [kind |-> "Error"]), Enter(r, "Paused"), Enter(r, "Running")}
    BY <1>5 DEF AfterTask, s
  <2>5. QED
    BY <2>2, <2>3, <2>4 DEF Keeps, s
<1>6. CASE task.kind \in {"Call", "Return", "SendAbort"}
  BY <1>6 DEF AfterTask, s
<1>7. QED
  <2>1. task.kind \in UserTask \cup {"Status", "Barrier", "Call", "Return"}
    BY DEF Task
  <2>2. QED
    BY <1>1, <1>2, <1>3, <1>4, <1>5, <1>6, <2>1 DEF UserTask

LEMMA PendingType ==
  ASSUME NEW p \in Participant, NEW pending \in Pending(p)
  PROVE  pending \in BOOLEAN
BY DEF Pending

\* A step that gives one IO thread a new record keeps the type of io.
LEMMA IoUpdateType ==
  ASSUME TypeOK, NEW p \in Participant, NEW r \in IoThread,
         io' = [io EXCEPT ![p] = r]
  PROVE  io' \in [Participant -> IoThread]
BY DEF TypeOK

LEMMA TakesType ==
  ASSUME TypeOK, NEW p \in Participant, NEW q \in Participant, NEW kind,
         Takes(p, q, kind)
  PROVE  /\ channel' \in Channels
         /\ Head(channel[q][p]) \in Message
         /\ Head(channel[q][p]).kind = kind
BY DEF Takes, TypeOK, Channels

LEMMA StatusMessage ==
  ASSUME NEW m \in Message, m.kind = "Status"
  PROVE  m.state \in ParticipantState
BY DEF Message

LEMMA BarrierMessage ==
  ASSUME NEW m \in Message, m.kind \in {"Call", "Return"}
  PROVE  m.id \in Barrier
BY DEF Message

LEMMA InitType == Init => TypeOK
<1> SUFFICES ASSUME Init PROVE TypeOK
  OBVIOUS
<1>1. EmptyTracker \in Tracker
  BY DEF EmptyTracker, Tracker, SystemState, ParticipantState
<1>2. io \in [Participant -> IoThread]
  BY <1>1 DEF Init, IoThread, ParticipantState
<1>3. channel \in Channels
  BY DEF Init, Channels
<1>4. QED
  BY <1>2, <1>3 DEF Init, TypeOK, Channels

LEMMA UserType ==
  ASSUME TypeOK, NEW p \in Participant,
         \/ StartLifecycle(p) \/ FinishStartLifecycle(p)
         \/ \E op \in {"Stop", "Pause", "Continue", "Error", "Abort"} : UserCalls(p, op)
         \/ AbortBeforeStart(p) \/ CompleteCommunicationReadyHandlerAsync(p)
         \/ Leave(p)
  PROVE  TypeOK'
<1>1. io[p] \in IoThread
  BY DEF TypeOK
<1>2. \A kind \in UserTask : Post(io[p], [kind |-> kind]) \in IoThread
  BY <1>1, PostType, UserTaskType DEF Keeps
<1>3. CASE StartLifecycle(p)
  BY <1>3 DEF StartLifecycle, TypeOK
<1>4. CASE FinishStartLifecycle(p)
  <2>1. CASE aborted[p]
    <3>1. io' \in [Participant -> IoThread]
      BY <1>2, <1>4, <2>1, IoUpdateType DEF FinishStartLifecycle, UserTask
    <3>2. QED
      BY <1>4, <2>1, <3>1 DEF FinishStartLifecycle, TypeOK
  <2>2. CASE ~aborted[p]
    <3>1. StartTasks(p) \in Seq(Task)
      <4>1. [kind |-> "Initialize"] \in Task /\ [kind |-> "StartAutonomous"] \in Task
        BY UserTaskType DEF UserTask
      <4>2. QED
        BY <4>1 DEF StartTasks
    <3>2. [io[p] EXCEPT !.todo = io[p].todo \o StartTasks(p)] \in IoThread
      <4>1. io[p].todo \in Seq(Task)
        BY <1>1 DEF IoThread
      <4>2. io[p].todo \o StartTasks(p) \in Seq(Task)
        BY <3>1, <4>1
      <4>3. QED
        BY <1>1, <4>2 DEF IoThread
    <3>3. io' = [io EXCEPT ![p] = [io[p] EXCEPT !.todo = io[p].todo \o StartTasks(p)]]
      BY <1>4, <2>2 DEF FinishStartLifecycle
    <3>4. io' \in [Participant -> IoThread]
      BY <3>2, <3>3, IoUpdateType
    <3>5. QED
      BY <1>4, <2>2, <3>4 DEF FinishStartLifecycle, TypeOK
  <2>3. QED
    BY <2>1, <2>2
<1>5. ASSUME NEW op \in {"Stop", "Pause", "Continue", "Error", "Abort"}, UserCalls(p, op)
      PROVE  TypeOK'
  <2>1. op \in UserTask /\ "Abort" \in UserTask
    BY DEF UserTask
  <2>2. Post(io[p], [kind |-> op]) \in IoThread
    BY <1>2, <2>1
  <2>3. Post(Post(io[p], [kind |-> "Abort"]), [kind |-> "SendAbort"]) \in IoThread
    BY <1>2, <2>1, PostType, UserTaskType DEF UserTask, Keeps
  <2>4. io' = [io EXCEPT ![p] =
                   IF op = "Abort"
                   THEN Post(Post(io[p], [kind |-> "Abort"]), [kind |-> "SendAbort"])
                   ELSE Post(io[p], [kind |-> op])]
    BY <1>5 DEF UserCalls
  <2>5. io' \in [Participant -> IoThread]
    BY <2>2, <2>3, <2>4, IoUpdateType
  <2>6. QED
    BY <1>5, <2>5 DEF UserCalls, TypeOK
<1>6. CASE AbortBeforeStart(p)
  <2>1. io' \in [Participant -> IoThread]
    BY <1>2, <1>6, IoUpdateType DEF AbortBeforeStart, UserTask
  <2>2. QED
    BY <1>6, <2>1 DEF AbortBeforeStart, TypeOK
<1>7. CASE CompleteCommunicationReadyHandlerAsync(p)
  <2>1. [io[p] EXCEPT !.ready = "Completed"] \in IoThread
    BY <1>1 DEF IoThread
  <2>2. Post([io[p] EXCEPT !.ready = "Completed"], [kind |-> "CompleteReady"]) \in IoThread
    BY <2>1, PostType, UserTaskType DEF UserTask, Keeps
  <2>3. io' \in [Participant -> IoThread]
    BY <1>7, <2>2, IoUpdateType DEF CompleteCommunicationReadyHandlerAsync
  <2>4. QED
    BY <1>7, <2>3 DEF CompleteCommunicationReadyHandlerAsync, TypeOK
<1>8. CASE Leave(p)
  <2>1. [kind |-> "PeerShutdown"] \in Message
    BY DEF Message
  <2>2. channel' \in Channels
    BY <1>8, <2>1 DEF Leave, TypeOK, Channels
  <2>3. QED
    BY <1>8, <2>2 DEF Leave, TypeOK, Channels
<1>9. QED
  BY <1>3, <1>4, <1>5, <1>6, <1>7, <1>8

\* What PeerShutdown makes of the record of p when it has not shut down itself.
Removed(p, q, any, throws, pending) ==
    OnParticipantDisconnected(
        p, ReceiveCallReturn(p, io[p], q, io[p].barrier, throws, pending),
        q, any, throws, pending)

LEMMA RemovedTracks ==
  ASSUME TypeOK, NEW p \in Participant, NEW q \in Participant,
         NEW any \in Participant, NEW throws, NEW pending \in BOOLEAN
  PROVE  Tracks(io[p], Removed(p, q, any, throws, pending),
                RemoveParticipant(Marked(io[p].tracker, q), q, any))
<1> DEFINE replied == ReceiveCallReturn(p, io[p], q, io[p].barrier, throws, pending)
<1>1. io[p] \in IoThread /\ io[p].barrier \in Barrier \cup {"None"}
  BY DEF TypeOK, IoThread
<1>2. Keeps(io[p], replied)
  BY <1>1, ReceiveCallReturnType
<1>3. Tracks(replied, Removed(p, q, any, throws, pending),
             RemoveParticipant(Marked(replied.tracker, q), q, any))
  BY <1>2, OnParticipantDisconnectedTracks DEF Removed, Keeps
<1>4. QED
  BY <1>2, <1>3 DEF Keeps, Tracks

LEMMA PeerShutdownStep ==
  ASSUME NEW p \in Participant, NEW q \in Participant, PeerShutdown(p, q)
  PROVE  \/ io' = io
         \/ \E throws \in Throws(p), pending \in BOOLEAN, any \in AnyRequired(q) :
                io' = [io EXCEPT ![p] =
                          [Removed(p, q, any, throws, pending) EXCEPT
                              !.peers = @ \ {q}]]
<1>1. PICK throws \in Throws(p), pending \in Pending(p), any \in AnyRequired(q) :
          io' = IF io[p].final # "Pending" THEN io
                ELSE [io EXCEPT ![p] =
                         [Removed(p, q, any, throws, pending) EXCEPT !.peers = @ \ {q}]]
  BY DEF PeerShutdown, Removed
<1>2. pending \in BOOLEAN
  BY PendingType
<1>3. QED
  BY <1>1, <1>2

LEMMA AnyRequiredType ==
  ASSUME NEW q \in Participant
  PROVE  AnyRequired(q) \subseteq Participant
BY RequiredAssumption DEF AnyRequired

LEMMA IoThreadType ==
  ASSUME TypeOK, NEW p \in Participant,
         \/ RunTask(p) \/ AsyncSubscriptionsCompleted(p)
         \/ SetAbortedBeforeLifecycleStart(p)
  PROVE  TypeOK' /\ \A r \in Participant : io'[r].peers = io[r].peers
<1>1. io[p] \in IoThread
  BY DEF TypeOK
<1>2. CASE RunTask(p)
  <2> DEFINE task == Head(io[p].todo)
             rest == [io[p] EXCEPT !.todo = Tail(@)]
  <2>1. task \in Task
    BY <1>1, <1>2 DEF RunTask, IoThread
  <2>2. rest \in IoThread /\ rest.peers = io[p].peers
    <3>1. Tail(io[p].todo) \in Seq(Task)
      BY <1>1, <1>2 DEF RunTask, IoThread
    <3>2. QED
      BY <1>1, <3>1 DEF IoThread
  <2>3. PICK throws \in Throws(p), pending \in Pending(p) :
            io' = [io EXCEPT ![p] = AfterTask(p, rest, task, throws, pending)]
    BY <1>2 DEF RunTask
  <2> HIDE DEF task, rest
  <2>4. pending \in BOOLEAN
    BY PendingType
  <2>5. /\ AfterTask(p, rest, task, throws, pending) \in IoThread
        /\ AfterTask(p, rest, task, throws, pending).peers = io[p].peers
    BY <2>1, <2>2, <2>4, AfterTaskType
  <2>6. io' \in [Participant -> IoThread]
    BY <2>3, <2>5, IoUpdateType
  <2>7. channel' \in Channels
    BY <1>2, <2>1, SendsType DEF RunTask, task
  <2>8. QED
    BY <1>2, <2>3, <2>5, <2>6, <2>7 DEF RunTask, TypeOK, Channels
<1>3. CASE AsyncSubscriptionsCompleted(p)
  <2> DEFINE completed == [io[p] EXCEPT !.subscribing = FALSE]
  <2>1. completed \in IoThread /\ completed.peers = io[p].peers
    BY <1>1 DEF IoThread
  <2>2. PICK throws \in Throws(p) :
            io' = [io EXCEPT ![p] = SubscriptionsComplete(p, completed, throws)]
    BY <1>3 DEF AsyncSubscriptionsCompleted
  <2>3. Keeps(completed, SubscriptionsComplete(p, completed, throws))
    BY <2>1, SubscriptionsCompleteType
  <2>4. io' \in [Participant -> IoThread]
    BY <2>2, <2>3, IoUpdateType DEF Keeps
  <2>5. QED
    BY <1>3, <2>1, <2>2, <2>3, <2>4 DEF AsyncSubscriptionsCompleted, TypeOK, Keeps
<1>4. CASE SetAbortedBeforeLifecycleStart(p)
  BY <1>4 DEF SetAbortedBeforeLifecycleStart, TypeOK
<1>5. QED
  BY <1>2, <1>3, <1>4

LEMMA ReceiveType ==
  ASSUME TypeOK, NEW p \in Participant, NEW q \in Participant,
         \/ ReceiveParticipantStatus(p, q) \/ ReceiveCall(p, q) \/ ReceiveReturn(p, q)
         \/ ReceiveAbortSimulation(p, q)
  PROVE  TypeOK' /\ \A r \in Participant : io'[r].peers = io[r].peers
<1> DEFINE m == Head(channel[q][p])
<1>1. io[p] \in IoThread
  BY DEF TypeOK
<1>2. CASE ReceiveParticipantStatus(p, q)
  <2>1. m.state \in ParticipantState /\ channel' \in Channels
    BY <1>2, TakesType, StatusMessage DEF ReceiveParticipantStatus
  <2>2. PICK throws \in Throws(p), pending \in Pending(p) :
            io' = [io EXCEPT ![p] = ReceiveStatus(p, io[p], q, m.state, throws, pending)]
    BY <1>2 DEF ReceiveParticipantStatus
  <2>3. Tracks(io[p], ReceiveStatus(p, io[p], q, m.state, throws, pending),
               UpdateParticipantStatus(io[p].tracker, q, m.state))
    BY <1>1, <2>1, PendingType, ReceiveStatusTracks
  <2>4. io' \in [Participant -> IoThread]
    BY <2>2, <2>3, IoUpdateType DEF Tracks
  <2>5. QED
    BY <1>2, <2>1, <2>2, <2>3, <2>4
       DEF ReceiveParticipantStatus, TypeOK, Channels, Tracks
<1>3. CASE ReceiveCall(p, q)
  <2> DEFINE task == [kind |-> "Return", id |-> m.id, to |-> q]
  <2>1. m.id \in Barrier /\ channel' \in Channels
    BY <1>3, TakesType, BarrierMessage DEF ReceiveCall
  <2>2. task \in Task
    BY <2>1 DEF Task
  <2>3. Keeps(io[p], Post(io[p], task))
    BY <1>1, <2>2, PostType
  <2>4. io' = [io EXCEPT ![p] = Post(io[p], task)]
    BY <1>3 DEF ReceiveCall
  <2>5. io' \in [Participant -> IoThread]
    BY <2>3, <2>4, IoUpdateType DEF Keeps
  <2>6. QED
    BY <1>3, <2>1, <2>3, <2>4, <2>5 DEF ReceiveCall, TypeOK, Channels, Keeps
<1>4. CASE ReceiveReturn(p, q)
  <2>1. m.id \in Barrier /\ channel' \in Channels
    BY <1>4, TakesType, BarrierMessage DEF ReceiveReturn
  <2>2. PICK throws \in Throws(p), pending \in Pending(p) :
            io' = [io EXCEPT ![p] = ReceiveCallReturn(p, io[p], q, m.id, throws, pending)]
    BY <1>4 DEF ReceiveReturn
  <2>3. Keeps(io[p], ReceiveCallReturn(p, io[p], q, m.id, throws, pending))
    BY <1>1, <2>1, PendingType, ReceiveCallReturnType
  <2>4. io' \in [Participant -> IoThread]
    BY <2>2, <2>3, IoUpdateType DEF Keeps
  <2>5. QED
    BY <1>4, <2>1, <2>2, <2>3, <2>4 DEF ReceiveReturn, TypeOK, Channels, Keeps
<1>5. CASE ReceiveAbortSimulation(p, q)
  <2> DEFINE abort == [kind |-> "Abort"]
  <2>1. channel' \in Channels
    BY <1>5, TakesType DEF ReceiveAbortSimulation
  <2>2. Keeps(io[p], Post(io[p], abort))
    BY <1>1, PostType, UserTaskType DEF UserTask
  <2>3. CASE start[p] = "No"
    BY <1>5, <2>1, <2>3 DEF ReceiveAbortSimulation, TypeOK, Channels
  <2>4. CASE start[p] # "No"
    <3>1. io' = [io EXCEPT ![p] = Post(io[p], abort)]
      BY <1>5, <2>4 DEF ReceiveAbortSimulation
    <3>2. io' \in [Participant -> IoThread]
      BY <2>2, <3>1, IoUpdateType DEF Keeps
    <3>3. QED
      BY <1>5, <2>1, <2>2, <2>4, <3>1, <3>2
         DEF ReceiveAbortSimulation, TypeOK, Channels, Keeps
  <2>5. QED
    BY <2>3, <2>4
<1>6. QED
  BY <1>2, <1>3, <1>4, <1>5

LEMMA PeerShutdownType ==
  ASSUME TypeOK, NEW p \in Participant, NEW q \in Participant, PeerShutdown(p, q)
  PROVE  TypeOK'
<1>1. channel' \in Channels
  BY TakesType DEF PeerShutdown
<1>2. io' \in [Participant -> IoThread]
  <2>1. CASE io' = io
    BY <2>1 DEF TypeOK
  <2>2. ASSUME NEW throws, NEW pending \in BOOLEAN, NEW any \in AnyRequired(q),
               io' = [io EXCEPT ![p] =
                         [Removed(p, q, any, throws, pending) EXCEPT !.peers = @ \ {q}]]
        PROVE  io' \in [Participant -> IoThread]
    <3> DEFINE removed == Removed(p, q, any, throws, pending)
    <3>1. removed \in IoThread
      BY AnyRequiredType, RemovedTracks DEF Tracks
    <3>2. [removed EXCEPT !.peers = @ \ {q}] \in IoThread
      BY <3>1 DEF IoThread
    <3>3. QED
      BY <2>2, <3>2, IoUpdateType
  <2>3. QED
    BY <2>1, <2>2, PeerShutdownStep
<1>3. QED
  BY <1>1, <1>2 DEF PeerShutdown, TypeOK, Channels

LEMMA NextType == TypeOK /\ [Next]_vars => TypeOK'
<1> SUFFICES ASSUME TypeOK, [Next]_vars PROVE TypeOK'
  OBVIOUS
<1>1. ASSUME NEW p \in Participant, NEW q \in Participant \ {p}, Receive(p, q)
      PROVE  TypeOK'
  BY <1>1, ReceiveType, PeerShutdownType DEF Receive
<1>2. CASE UNCHANGED vars
  BY <1>2 DEF vars, TypeOK
<1>3. QED
  BY <1>1, <1>2, UserType, IoThreadType DEF Next

(* Every variable of the lifecycle keeps its type, for any participants.   *)
(* In particular a tracker always computes one of the system states        *)
(* (SystemStateTracker::ComputeSystemState) and a barrier is in one of the *)
(* three uses LifecycleStates makes of it.                                 *)
THEOREM LifecycleTypeCorrect == Spec => []TypeOK
<1>1. QED
  BY InitType, NextType, PTL DEF Spec

-----------------------------------------------------------------------------
(* A lost participant is reported.                                         *)

\* A rule is never satisfied while a required participant has no status.
LEMMA NoRuleWithoutStatus ==
  ASSUME NEW t \in Tracker, NEW q \in Required, t.status[q] = "Unknown",
         NEW new \in Known, NEW i \in DOMAIN Rules(new)
  PROVE  ~FirstApplicable(t, Rules(new), i)
<1>1. Rules(new)[i].from \subseteq ParticipantState
  BY RulesType
<1>2. "Unknown" \notin ParticipantState
  BY DEF ParticipantState
<1>3. QED
  BY <1>1, <1>2 DEF FirstApplicable

\* The tracker after the disconnect of a required participant.
LEMMA LossInTracker ==
  ASSUME NEW t \in Tracker, NEW q \in Required, NEW any \in AnyRequired(q),
         t.status[q] \notin {"Unknown", "Invalid", "Shutdown", "Error"}
  PROVE  LET after == RemoveParticipant(Marked(t, q), q, any)
         IN  \/ after.system = "Error"
             \/ after.system = "Aborting" /\ \E r \in Required : t.status[r] = "Aborting"
<1> DEFINE updated == [t EXCEPT !.status[q] = "Error"]
           marked == Marked(t, q)
           removed == [marked EXCEPT !.status[q] = "Unknown"]
           new == removed.status[any]
           after == RemoveParticipant(marked, q, any)
<1>1. q \in Participant /\ any \in Required /\ any \in Participant
  BY RequiredAssumption DEF AnyRequired
<1>2. updated \in Tracker
  BY <1>1, SetStatusType DEF Known, ParticipantState
<1>3. marked = Recomputed(updated, "Error")
  BY DEF Marked, UpdateParticipantStatus
<1>4. marked \in Tracker
  BY <1>2, <1>3, RecomputedType DEF Known, ParticipantState
<1>5. /\ marked.system = "Error"
      /\ marked.status = [t.status EXCEPT ![q] = "Error"]
  BY <1>2, <1>3 DEF Recomputed, ComputeSystemState, Tracker
<1> HIDE DEF marked
<1>6. /\ removed \in Tracker
      /\ removed.system = "Error"
      /\ removed.status = [t.status EXCEPT ![q] = "Unknown"]
  <2>1. removed \in Tracker
    BY <1>1, <1>4, SetStatusType DEF Known
  <2>2. QED
    BY <1>1, <1>4, <1>5, <2>1 DEF Tracker
<1>7. marked.status[q] # "Unknown"
  BY <1>1, <1>5 DEF Tracker
<1>8. after = Recomputed(removed, new)
  BY <1>7 DEF RemoveParticipant
<1> HIDE DEF removed
<1>9. after.system = ComputeSystemState(removed, new)
  BY <1>6, <1>8 DEF Recomputed, Tracker
<1>10. new \in Known
  BY <1>1, <1>6 DEF Tracker, Known
<1>11. removed.status[q] = "Unknown"
  BY <1>1, <1>6 DEF Tracker
<1> HIDE DEF new, after
<1>12. CASE new = "Error"
  BY <1>9, <1>12 DEF ComputeSystemState, after, marked
<1>13. CASE new = "Aborting"
  <2>1. any # q
    BY <1>11, <1>13 DEF new
  <2>2. t.status[any] = "Aborting"
    BY <1>1, <1>6, <1>13, <2>1 DEF new, Tracker
  <2>3. after.system = "Aborting"
    BY <1>9, <1>13 DEF ComputeSystemState
  <2>4. QED
    BY <1>1, <2>2, <2>3 DEF after, marked
<1>14. CASE new \notin {"Aborting", "Error"}
  <2>1. ~ \E i \in DOMAIN Rules(new) : FirstApplicable(removed, Rules(new), i)
    BY <1>6, <1>10, <1>11, NoRuleWithoutStatus
  <2>2. ComputeSystemState(removed, new) = WithoutRules(removed)
    BY <1>14, <2>1 DEF ComputeSystemState
  <2>3. WithoutRules(removed) = "Error"
    BY <1>6 DEF WithoutRules
  <2>4. QED
    BY <1>9, <2>2, <2>3 DEF after, marked
<1>15. QED
  BY <1>12, <1>13, <1>14

LEMMA UserKeepsPeers ==
  ASSUME TypeOK, NEW p \in Participant,
         \/ StartLifecycle(p) \/ FinishStartLifecycle(p)
         \/ \E op \in {"Stop", "Pause", "Continue", "Error", "Abort"} : UserCalls(p, op)
         \/ AbortBeforeStart(p) \/ CompleteCommunicationReadyHandlerAsync(p)
         \/ Leave(p)
  PROVE  \A r \in Participant : io'[r].peers = io[r].peers
<1>1. io \in [Participant -> IoThread] /\ io[p] \in IoThread
  BY DEF TypeOK
<1>2. CASE StartLifecycle(p) \/ Leave(p)
  BY <1>2 DEF StartLifecycle, Leave
<1>3. CASE FinishStartLifecycle(p)
  BY <1>1, <1>3 DEF FinishStartLifecycle, Post, IoThread
<1>4. ASSUME NEW op \in {"Stop", "Pause", "Continue", "Error", "Abort"}, UserCalls(p, op)
      PROVE  \A r \in Participant : io'[r].peers = io[r].peers
  BY <1>1, <1>4 DEF UserCalls, Post, IoThread
<1>5. CASE AbortBeforeStart(p)
  BY <1>1, <1>5 DEF AbortBeforeStart, Post, IoThread
<1>6. CASE CompleteCommunicationReadyHandlerAsync(p)
  BY <1>1, <1>6 DEF CompleteCommunicationReadyHandlerAsync, Post, IoThread
<1>7. QED
  BY <1>2, <1>3, <1>4, <1>5, <1>6

\* The conclusion of LossIsReported for participants p and q.
Reported(p, q) ==
    \/ io'[p].tracker.system = "Error"
    \/ /\ io'[p].tracker.system = "Aborting"
       /\ \E r \in Required : io[p].tracker.status[r] = "Aborting"

LEMMA PeerShutdownReports ==
  ASSUME TypeOK, NEW p \in Participant, NEW q \in Participant, PeerShutdown(p, q),
         NEW a \in Participant, NEW b \in Required, b \in io[a].peers \ io'[a].peers,
         io[a].tracker.status[b] \notin {"Unknown", "Invalid", "Shutdown", "Error"}
  PROVE  Reported(a, b)
<1>1. io' # io
  OBVIOUS
<1>2. PICK throws \in Throws(p), pending \in BOOLEAN, any \in AnyRequired(q) :
          io' = [io EXCEPT ![p] =
                    [Removed(p, q, any, throws, pending) EXCEPT !.peers = @ \ {q}]]
  BY <1>1, PeerShutdownStep
<1> DEFINE removed == Removed(p, q, any, throws, pending)
<1>3. Tracks(io[p], removed, RemoveParticipant(Marked(io[p].tracker, q), q, any))
  BY AnyRequiredType, RemovedTracks
<1> HIDE DEF removed
<1>4. io'[p].tracker = removed.tracker /\ io'[p].peers = removed.peers \ {q}
  BY <1>2, <1>3 DEF removed, TypeOK, Tracks, IoThread
<1>5. a = p
  BY <1>2 DEF TypeOK
<1>6. b = q
  BY <1>3, <1>4, <1>5 DEF Tracks
<1>7. io[p].tracker \in Tracker
  BY DEF TypeOK, IoThread
<1>8. QED
  BY <1>3, <1>4, <1>5, <1>6, <1>7, LossInTracker DEF Reported, Tracks

(* A monitor that handles the disconnect of a required participant with a  *)
(* running lifecycle reports an error, or an abort that has been announced *)
(* (SystemMonitor::OnParticipantDisconnected marks the participant,        *)
(* SystemStateTracker::RemoveParticipant computes the system state again). *)
THEOREM LossReported == Spec => LossIsReported
<1> DEFINE Report ==
             \A p \in Participant, q \in Required :
                 /\ q \in io[p].peers \ io'[p].peers
                 /\ io[p].tracker.status[q] \notin {"Unknown", "Invalid", "Shutdown", "Error"}
                 => Reported(p, q)
<1>1. TypeOK /\ [Next]_vars => [Report]_vars
  <2> SUFFICES ASSUME TypeOK, Next PROVE Report
    OBVIOUS
  <2> USE DEF Report
  <2>1. ASSUME \A r \in Participant : io'[r].peers = io[r].peers PROVE Report
    BY <2>1
  <2>2. ASSUME NEW p \in Participant, NEW q \in Participant \ {p}, Receive(p, q)
        PROVE  Report
    <3>1. CASE PeerShutdown(p, q)
      BY <3>1, PeerShutdownReports
    <3>2. CASE ~PeerShutdown(p, q)
      BY <2>1, <2>2, <3>2, ReceiveType DEF Receive
    <3>3. QED
      BY <3>1, <3>2
  <2>3. QED
    BY <2>1, <2>2, UserKeepsPeers, IoThreadType DEF Next
<1>2. QED
  BY <1>1, LifecycleTypeCorrect, PTL DEF Spec, LossIsReported, Reported

-----------------------------------------------------------------------------
(* The barrier of the start: a status of ServicesCreated is on the way to  *)
(* a peer before the call that asks for the reply.                         *)

Early == {"Invalid", "ServicesCreated"}
Onward == {"CommunicationInitializing", "CommunicationInitialized", "ReadyToRun", "Running"}

Elements(s) == {s[i] : i \in DOMAIN s}

IsCall(m) == m.kind = "Call" /\ m.id = "ServicesCreated"
IsReturn(m) == m.kind = "Return" /\ m.id = "ServicesCreated"

\* Neither a status nor a call of the barrier is among s.
Silent(s) == \A m \in Elements(s) : m.kind # "Status" /\ ~IsCall(m)

\* The only status among s.
OnlyServicesCreated(s) ==
    \A m \in Elements(s) : m.kind = "Status" => m.state = "ServicesCreated"

\* A status comes before any call of the barrier.
Announces(s) ==
    \E i \in DOMAIN s : s[i].kind = "Status" /\ \A j \in 1..i : ~IsCall(s[j])

\* The IO thread r has nothing to tell, or only that its services are created.
OwnStart(r) ==
    /\ r.state \in Early => ~r.subscribing
    /\ r.state = "Invalid" =>
          /\ r.barrier # "ServicesCreated"
          /\ Silent(r.todo)
          /\ \A t \in Elements(r.todo) : t.kind = "Barrier" => t.id # "ServicesCreated"
    /\ r.state = "ServicesCreated" => OnlyServicesCreated(r.todo)

\* There is a reply to the call of p, made by the IO thread r or sent to p.
Replied(p, r, replies) ==
    \/ \E t \in Elements(r.todo) : IsReturn(t) /\ t.to = p
    \/ \E m \in Elements(replies) : IsReturn(m)

\* The status of p is before its call in what it has sent or is going to send.
OnItsWay(r, sent) ==
    Announces(sent) \/ ((\A m \in Elements(sent) : ~IsCall(m)) /\ Announces(r.todo))

\* p with record r, and a peer q with record u: until q knows that p has created
\* its services, p has no reply from q and waits for it.
PairStart(p, q, r, u, sent, replies) ==
    /\ r.state = "Invalid" =>
          /\ Silent(sent) /\ ~Replied(p, u, replies)
          /\ u.tracker.status[p] = "Unknown"
    /\ r.state = "ServicesCreated" =>
          /\ OnlyServicesCreated(sent)
          /\ u.tracker.status[p] \in {"Unknown", "ServicesCreated"}
          /\ u.tracker.status[p] # "ServicesCreated" =>
                /\ OnItsWay(r, sent)
                /\ ~Replied(p, u, replies)
                /\ r.barrier = "ServicesCreated" => q \in r.expected

BarrierInv ==
    /\ TypeOK
    /\ \A p \in Participant : p \notin io[p].peers /\ OwnStart(io[p])
    /\ \A p, q \in alive : p # q =>
          /\ q \in io[p].peers
          /\ \A m \in Elements(channel[p][q]) : m.kind # "PeerShutdown"
          /\ PairStart(p, q, io[p], io[q], channel[p][q], channel[q][p])

LEMMA ElementsAppend ==
  ASSUME NEW S, NEW s \in Seq(S), NEW x \in S
  PROVE  Elements(Append(s, x)) = Elements(s) \cup {x}
<1>1. \A i \in DOMAIN s : i \in DOMAIN Append(s, x) /\ Append(s, x)[i] = s[i]
  OBVIOUS
<1>2. Len(s) + 1 \in DOMAIN Append(s, x) /\ Append(s, x)[Len(s) + 1] = x
  OBVIOUS
<1>3. \A i \in DOMAIN Append(s, x) : i \in DOMAIN s \/ i = Len(s) + 1
  OBVIOUS
<1>4. QED
  BY <1>1, <1>2, <1>3 DEF Elements

LEMMA ElementsTail ==
  ASSUME NEW S, NEW s \in Seq(S), s # <<>>
  PROVE  Elements(Tail(s)) \subseteq Elements(s) /\ Head(s) \in Elements(s)
<1>1. \A i \in DOMAIN Tail(s) : i + 1 \in DOMAIN s /\ Tail(s)[i] = s[i + 1]
  OBVIOUS
<1>2. 1 \in DOMAIN s /\ Head(s) = s[1]
  OBVIOUS
<1>3. QED
  BY <1>1, <1>2 DEF Elements

LEMMA AnnouncesAppend ==
  ASSUME NEW S, NEW s \in Seq(S), NEW x \in S
  PROVE  /\ Announces(s) => Announces(Append(s, x))
         /\ x.kind = "Status" /\ (\A m \in Elements(s) : ~IsCall(m)) => Announces(Append(s, x))
<1>1. \A i \in DOMAIN s : i \in DOMAIN Append(s, x) /\ Append(s, x)[i] = s[i]
                          /\ 1..i \subseteq DOMAIN s
  OBVIOUS
<1>2. ASSUME Announces(s) PROVE Announces(Append(s, x))
  <2>1. PICK i \in DOMAIN s : s[i].kind = "Status" /\ \A j \in 1..i : ~IsCall(s[j])
    BY <1>2 DEF Announces
  <2>2. \A j \in 1..i : Append(s, x)[j] = s[j]
    BY <1>1
  <2>3. QED
    BY <1>1, <2>1, <2>2 DEF Announces
<1>3. ASSUME x.kind = "Status", \A m \in Elements(s) : ~IsCall(m)
      PROVE  Announces(Append(s, x))
  <2> DEFINE n == Len(s) + 1
  <2>1. n \in DOMAIN Append(s, x) /\ Append(s, x)[n] = x
    OBVIOUS
  <2>2. \A j \in 1..n : j = n \/ (j \in DOMAIN s /\ Append(s, x)[j] = s[j])
    OBVIOUS
  <2>3. \A j \in 1..n : ~IsCall(Append(s, x)[j])
    BY <1>3, <2>1, <2>2 DEF IsCall, Elements
  <2>4. QED
    BY <1>3, <2>1, <2>3 DEF Announces
<1>4. QED
  BY <1>2, <1>3

LEMMA AnnouncesTail ==
  ASSUME NEW S, NEW s \in Seq(S), s # <<>>, Announces(s)
  PROVE  /\ ~IsCall(Head(s))
         /\ Head(s).kind # "Status" => Announces(Tail(s))
<1>1. PICK i \in DOMAIN s : s[i].kind = "Status" /\ \A j \in 1..i : ~IsCall(s[j])
  BY DEF Announces
<1>2. Head(s) = s[1] /\ 1 \in 1..i /\ i \in Nat
  OBVIOUS
<1>3. ASSUME Head(s).kind # "Status" PROVE Announces(Tail(s))
  <2>1. i # 1
    BY <1>1, <1>2, <1>3
  <2>2. i - 1 \in DOMAIN Tail(s) /\ Tail(s)[i - 1] = s[i]
    BY <1>2, <2>1
  <2>3. \A j \in 1..(i - 1) : j + 1 \in 1..i /\ Tail(s)[j] = s[j + 1]
    BY <1>2, <2>1
  <2>4. QED
    BY <1>1, <2>2, <2>3 DEF Announces
<1>4. QED
  BY <1>1, <1>2, <1>3

-----------------------------------------------------------------------------
(* An IO thread that has not gone on from ServicesCreated leaves what is on *)
(* its way alone, whatever it does; only the completion of the barrier and *)
(* of the subscriptions make it go on.                                     *)

IsBarrier(t) == t.kind = "Barrier" /\ t.id = "ServicesCreated"

\* A task that may be posted in the early state st.
Harmless(st, t) ==
    t.kind # "Status" /\ ~IsCall(t) /\ (st = "Invalid" => ~IsBarrier(t))

Moves(r, s) ==
    /\ s.state \in Early =>
          /\ s.state = r.state /\ s.subscribing = r.subscribing
          /\ s.barrier = "ServicesCreated" =>
                r.barrier = "ServicesCreated" /\ r.expected \subseteq s.expected
          /\ Announces(r.todo) => Announces(s.todo)
          /\ \A t \in Elements(s.todo) : t \in Elements(r.todo) \/ Harmless(s.state, t)
    /\ \A t \in Elements(s.todo) : t.kind = "Return" => t \in Elements(r.todo)

Halts(r, s) == r.state \notin Onward => s.state \notin Onward

Goes(r, s) == Keeps(r, s) /\ Moves(r, s)
Stays(r, s) == Goes(r, s) /\ Halts(r, s)

LEMMA StaysSame ==
  ASSUME NEW r \in IoThread
  PROVE  Stays(r, r)
BY DEF Stays, Goes, Keeps, Moves, Halts

LEMMA GoesOn ==
  ASSUME NEW r, NEW s, NEW u, Goes(r, s), Goes(s, u)
  PROVE  /\ Goes(r, u)
         /\ Halts(r, s) /\ Halts(s, u) => Stays(r, u)
<1>1. Keeps(r, u)
  BY DEF Goes, Keeps
<1>2. u.state \in Early => s.state = u.state /\ r.state = u.state
  BY DEF Goes, Moves
<1>3. Moves(r, u)
  BY <1>2 DEF Goes, Moves, Harmless
<1>4. QED
  BY <1>1, <1>3 DEF Goes, Stays, Halts

LEMMA PostStays ==
  ASSUME NEW r \in IoThread, NEW task \in Task, task.kind # "Return",
         Harmless(r.state, task)
  PROVE  Stays(r, Post(r, task))
<1> DEFINE s == Post(r, task)
<1>1. r.todo \in Seq(Task)
  BY DEF IoThread
<1>2. /\ s.todo = Append(r.todo, task) /\ s.state = r.state /\ s.barrier = r.barrier
      /\ s.subscribing = r.subscribing /\ s.expected = r.expected
  BY DEF Post, IoThread
<1>3. Keeps(r, s)
  BY PostType
<1>4. Elements(s.todo) = Elements(r.todo) \cup {task}
  BY <1>1, <1>2, ElementsAppend
<1>5. Announces(r.todo) => Announces(s.todo)
  BY <1>1, <1>2, AnnouncesAppend
<1> HIDE DEF s
<1>6. Moves(r, s)
  BY <1>2, <1>4, <1>5 DEF Moves
<1>7. QED
  BY <1>2, <1>3, <1>6 DEF s, Stays, Goes, Halts

LEMMA EnterGoes ==
  ASSUME NEW r \in IoThread, NEW st \in ParticipantState \ Early
  PROVE  /\ Goes(r, Enter(r, st))
         /\ Enter(r, st).state = st
         /\ st \notin Onward \/ r.state \in Onward => Stays(r, Enter(r, st))
<1> DEFINE s == Enter(r, st)
           task == [kind |-> "Status", state |-> st]
<1>1. r.todo \in Seq(Task) /\ task \in Task
  BY DEF IoThread, Task
<1>2. s.todo = Append(r.todo, task) /\ s.state = st
  BY DEF Enter, Post, IoThread
<1>3. Keeps(r, s)
  BY EnterType
<1>4. Elements(s.todo) = Elements(r.todo) \cup {task}
  BY <1>1, <1>2, ElementsAppend
<1> HIDE DEF s
<1>5. Moves(r, s)
  BY <1>2, <1>4 DEF Moves
<1>6. QED
  BY <1>2, <1>3, <1>5 DEF s, Stays, Goes, Halts

LEMMA CallAfterAllParticipantsRepliedStays ==
  ASSUME NEW r \in IoThread, NEW id \in Barrier,
         r.state = "Invalid" => id # "ServicesCreated"
  PROVE  Stays(r, CallAfterAllParticipantsReplied(r, id))
<1> DEFINE task == [kind |-> "Barrier", id |-> id]
<1>1. task \in Task /\ task.kind # "Return"
  BY DEF Task
<1>2. Harmless(r.state, task)
  BY DEF Harmless, IsCall, IsBarrier
<1>3. QED
  BY <1>1, <1>2, PostStays DEF CallAfterAllParticipantsReplied

LEMMA ErrorIntentStays ==
  ASSUME NEW r \in IoThread
  PROVE  Stays(r, ErrorIntent(r)) /\ ErrorIntent(r).state \notin Early
<1>1. "Error" \in ParticipantState \ Early /\ "Error" \notin Onward
  BY DEF ParticipantState, Early, Onward
<1>2. QED
  BY <1>1, EnterGoes, StaysSame DEF ErrorIntent, Early

\* Entering one state after the other.
LEMMA EnterTwice ==
  ASSUME NEW r \in IoThread, NEW st \in ParticipantState \ (Early \cup Onward),
         NEW su \in ParticipantState \ (Early \cup Onward)
  PROVE  /\ Stays(r, Enter(Enter(r, st), su))
         /\ Enter(Enter(r, st), su).state = su
<1>1. Stays(r, Enter(r, st)) /\ Enter(r, st) \in IoThread
  BY EnterGoes, EnterType DEF Keeps
<1>2. /\ Stays(Enter(r, st), Enter(Enter(r, st), su))
      /\ Enter(Enter(r, st), su).state = su
  BY <1>1, EnterGoes
<1>3. QED
  BY <1>1, <1>2, GoesOn DEF Stays

LEMMA ShutdownIntentStays ==
  ASSUME NEW r \in IoThread
  PROVE  Stays(r, ShutdownIntent(r)) /\ ShutdownIntent(r).state \notin Early
<1> DEFINE s == Enter(Enter(r, "ShuttingDown"), "Shutdown")
<1>1. Stays(r, s) /\ s \in IoThread /\ s.state = "Shutdown"
  BY EnterTwice DEF ParticipantState, Early, Onward, Stays, Goes, Keeps
<1>2. "Shutdown" \in Barrier
  BY DEF Barrier
<1>3. Stays(s, CallAfterAllParticipantsReplied(s, "Shutdown"))
  BY <1>1, <1>2, CallAfterAllParticipantsRepliedStays
<1>4. Stays(r, CallAfterAllParticipantsReplied(s, "Shutdown"))
  BY <1>1, <1>3, GoesOn DEF Stays
<1>5. Stays(r, CallAfterAllParticipantsReplied(r, "Shutdown"))
  BY <1>2, CallAfterAllParticipantsRepliedStays
<1>6. /\ CallAfterAllParticipantsReplied(s, "Shutdown").state = s.state
      /\ CallAfterAllParticipantsReplied(r, "Shutdown").state = r.state
  BY <1>1 DEF CallAfterAllParticipantsReplied, Post, IoThread
<1>7. QED
  BY <1>1, <1>4, <1>5, <1>6, ErrorIntentStays DEF ShutdownIntent, Early

LEMMA StopIntentStays ==
  ASSUME NEW r \in IoThread, NEW throws
  PROVE  Stays(r, StopIntent(r, throws))
<1> DEFINE s == Enter(Enter(r, "Stopping"), "Stopped")
<1>1. Stays(r, s) /\ s \in IoThread /\ Stays(r, Enter(Enter(r, "Stopping"), "Error"))
  BY EnterTwice DEF ParticipantState, Early, Onward, Stays, Goes, Keeps
<1>2. "Stopped" \in Barrier
  BY DEF Barrier
<1>3. Stays(r, CallAfterAllParticipantsReplied(s, "Stopped"))
  BY <1>1, <1>2, CallAfterAllParticipantsRepliedStays, GoesOn DEF Stays
<1>4. Stays(r, CallAfterAllParticipantsReplied(r, "Stopped"))
  BY <1>2, CallAfterAllParticipantsRepliedStays
<1>5. QED
  BY <1>1, <1>3, <1>4, ShutdownIntentStays, StaysSame DEF StopIntent

LEMMA AbortIntentStays ==
  ASSUME NEW r \in IoThread
  PROVE  Stays(r, AbortIntent(r))
<1> DEFINE s == Enter(Enter(r, "Aborting"), "Shutdown")
<1>1. Stays(r, s) /\ s \in IoThread
  BY EnterTwice DEF ParticipantState, Early, Onward, Stays, Goes, Keeps
<1>2. "Shutdown" \in Barrier
  BY DEF Barrier
<1>3. Stays(r, CallAfterAllParticipantsReplied(s, "Shutdown"))
  BY <1>1, <1>2, CallAfterAllParticipantsRepliedStays, GoesOn DEF Stays
<1>4. QED
  BY <1>3, StaysSame DEF AbortIntent

LEMMA LateStaysLate ==
  ASSUME NEW r, NEW s, Goes(r, s), r.state \notin Early
  PROVE  s.state \notin Early
BY DEF Goes, Moves

LEMMA ReadyToRunIntentStays ==
  ASSUME NEW p \in Participant, NEW r \in IoThread, NEW throws
  PROVE  Stays(r, ReadyToRunIntent(p, r, throws))
<1>1. {"Error", "Running"} \subseteq ParticipantState \ Early /\ "ReadyToRun" \in Onward
  BY DEF ParticipantState, Early, Onward
<1>2. QED
  BY <1>1, EnterGoes, StaysSame, ErrorIntentStays DEF ReadyToRunIntent

LEMMA CompleteReadyIntentStays ==
  ASSUME NEW p \in Participant, NEW r \in IoThread, NEW throws
  PROVE  Stays(r, CompleteReadyIntent(p, r, throws))
<1> DEFINE ready == Enter(r, "ReadyToRun")
<1>1. CASE r.state = "CommunicationInitialized"
  <2>1. "ReadyToRun" \in ParticipantState \ Early /\ r.state \in Onward
    BY <1>1 DEF ParticipantState, Early, Onward
  <2>2. Stays(r, ready) /\ ready \in IoThread
    BY <2>1, EnterGoes, EnterType DEF Keeps
  <2>3. Stays(ready, ReadyToRunIntent(p, ready, throws))
    BY <2>2, ReadyToRunIntentStays
  <2>4. Stays(r, ReadyToRunIntent(p, ready, throws))
    BY <2>2, <2>3, GoesOn DEF Stays
  <2>5. QED
    BY <1>1, <2>2, <2>4 DEF CompleteReadyIntent
<1>2. CASE r.state # "CommunicationInitialized"
  BY <1>2, ErrorIntentStays DEF CompleteReadyIntent
<1>3. QED
  BY <1>1, <1>2

LEMMA CommunicationReadyStays ==
  ASSUME NEW p \in Participant, NEW r \in IoThread, NEW throws
  PROVE  Stays(r, CommunicationReady(p, r, throws))
<1> DEFINE invoked == [r EXCEPT !.ready = "Invoked"]
<1>1. Stays(r, invoked) /\ invoked \in IoThread
  <2>1. Keeps(r, invoked) /\ invoked \in IoThread
    BY DEF IoThread, Keeps
  <2>2. /\ invoked.todo = r.todo /\ invoked.state = r.state /\ invoked.barrier = r.barrier
        /\ invoked.subscribing = r.subscribing /\ invoked.expected = r.expected
    BY DEF IoThread
  <2>3. QED
    BY <2>1, <2>2 DEF Stays, Goes, Moves, Halts
<1>2. "Error" \in ParticipantState \ Early /\ "Error" \notin Onward
  BY DEF ParticipantState, Early, Onward
<1>3. Stays(r, Enter(r, "Error")) /\ Stays(invoked, Enter(invoked, "Error"))
  BY <1>1, <1>2, EnterGoes
<1>4. Stays(r, Enter(invoked, "Error"))
  BY <1>1, <1>3, GoesOn DEF Stays
<1>5. QED
  BY <1>1, <1>3, <1>4, StaysSame, CompleteReadyIntentStays DEF CommunicationReady

LEMMA CommunicationInitializedIntentStays ==
  ASSUME NEW p \in Participant, NEW r \in IoThread, NEW throws
  PROVE  Stays(r, CommunicationInitializedIntent(p, r, throws))
BY CommunicationReadyStays, ReadyToRunIntentStays, ErrorIntentStays, StaysSame
   DEF CommunicationInitializedIntent

LEMMA SubscriptionsCompleteGoes ==
  ASSUME NEW p \in Participant, NEW r \in IoThread, NEW throws
  PROVE  /\ Goes(r, SubscriptionsComplete(p, r, throws))
         /\ SubscriptionsComplete(p, r, throws).state \notin Early
<1> DEFINE initialized == Enter(r, "CommunicationInitialized")
<1>0. "CommunicationInitialized" \in ParticipantState \ Early
  BY DEF ParticipantState, Early
<1>1. /\ Goes(r, initialized) /\ initialized \in IoThread
      /\ initialized.state \notin Early
  BY <1>0, EnterGoes, EnterType DEF Keeps
<1>2. Goes(initialized, CommunicationInitializedIntent(p, initialized, throws))
  BY <1>1, CommunicationInitializedIntentStays DEF Stays
<1>3. Goes(r, CommunicationInitializedIntent(p, initialized, throws))
  BY <1>1, <1>2, GoesOn
<1>4. QED
  BY <1>1, <1>2, <1>3, LateStaysLate DEF SubscriptionsComplete

LEMMA CommunicationInitializingStays ==
  ASSUME NEW p \in Participant, NEW r \in IoThread, NEW throws, NEW pending \in BOOLEAN,
         r.state = "CommunicationInitializing"
  PROVE  Stays(r, CommunicationInitializing(p, r, throws, pending))
<1> DEFINE s == [r EXCEPT !.subscribing = TRUE]
<1>1. r.state \in Onward \ Early
  BY DEF Onward, Early
<1>2. Keeps(r, s) /\ s.state = r.state /\ s.todo = r.todo
  BY DEF IoThread, Keeps
<1>3. Stays(r, s)
  BY <1>1, <1>2 DEF Stays, Goes, Moves, Halts
<1>4. Stays(r, SubscriptionsComplete(p, r, throws))
  BY <1>1, SubscriptionsCompleteGoes DEF Stays, Halts
<1>5. QED
  BY <1>3, <1>4 DEF CommunicationInitializing

LEMMA ServicesCreatedIntentStays ==
  ASSUME NEW p \in Participant, NEW r \in IoThread, NEW throws, NEW pending \in BOOLEAN
  PROVE  Stays(r, ServicesCreatedIntent(p, r, throws, pending))
<1>1. CASE r.state = "ServicesCreated"
  BY <1>1, CallAfterAllParticipantsRepliedStays DEF ServicesCreatedIntent, Barrier
<1>2. CASE r.state # "ServicesCreated"
  BY <1>2, CommunicationInitializingStays, ErrorIntentStays DEF ServicesCreatedIntent
<1>3. QED
  BY <1>1, <1>2

\* The action of the barrier: only that of the start makes the thread go on.
LEMMA CompletionGoes ==
  ASSUME NEW p \in Participant, NEW r \in IoThread, NEW id \in Barrier,
         NEW throws, NEW pending \in BOOLEAN
  PROVE  /\ Goes(r, Completion(p, r, id, throws, pending))
         /\ id = "ServicesCreated" => Completion(p, r, id, throws, pending).state \notin Early
         /\ id # "ServicesCreated" => Stays(r, Completion(p, r, id, throws, pending))
<1>1. CASE id = "ServicesCreated"
  <2> DEFINE s == Enter(r, "CommunicationInitializing")
             u == CommunicationInitializing(p, s, throws, pending)
  <2>1. /\ Goes(r, s) /\ s \in IoThread
        /\ s.state = "CommunicationInitializing"
    BY EnterGoes, EnterType DEF Keeps, ParticipantState, Early
  <2>2. Goes(s, u)
    BY <2>1, CommunicationInitializingStays DEF Stays
  <2>3. Goes(r, u) /\ u.state \notin Early
    BY <2>1, <2>2, GoesOn, LateStaysLate DEF Early
  <2>4. QED
    BY <1>1, <2>3 DEF Completion
<1>2. CASE id = "Stopped"
  BY <1>2, ShutdownIntentStays DEF Completion, Stays
<1>3. CASE id = "Shutdown"
  <2> DEFINE s == SetFinalState(r)
  <2>1. Keeps(r, s)
    BY DEF SetFinalState, IoThread, Keeps
  <2>2. /\ s.todo = r.todo /\ s.state = r.state /\ s.barrier = r.barrier
        /\ s.subscribing = r.subscribing /\ s.expected = r.expected
    BY DEF SetFinalState, IoThread
  <2>3. Stays(r, s)
    BY <2>1, <2>2 DEF Stays, Goes, Moves, Halts
  <2>4. QED
    BY <1>3, <2>3 DEF Completion, Stays
<1>4. QED
  BY <1>1, <1>2, <1>3 DEF Barrier

\* The handler of the system monitor.
LEMMA NewSystemStateStays ==
  ASSUME NEW p \in Participant, NEW r \in IoThread, NEW throws, NEW pending \in BOOLEAN
  PROVE  Stays(r, NewSystemState(p, r, throws, pending))
BY ServicesCreatedIntentStays, CommunicationInitializedIntentStays,
   ReadyToRunIntentStays, StopIntentStays, StaysSame DEF NewSystemState

\* The same of a step that also gives the thread the tracker t.
StaysTracking(r, s, t) == Tracks(r, s, t) /\ Moves(r, s) /\ Halts(r, s)

LEMMA TrackStays ==
  ASSUME NEW p \in Participant, NEW r \in IoThread, NEW t \in Tracker, NEW throws,
         NEW pending \in BOOLEAN
  PROVE  StaysTracking(r, Track(p, r, t, throws, pending), t)
<1> DEFINE tracked == [r EXCEPT !.tracker = t]
           s == Track(p, r, t, throws, pending)
<1>1. /\ tracked \in IoThread
      /\ tracked.todo = r.todo /\ tracked.state = r.state /\ tracked.barrier = r.barrier
      /\ tracked.subscribing = r.subscribing /\ tracked.expected = r.expected
  BY DEF IoThread
<1>2. s \in {tracked, NewSystemState(p, tracked, throws, pending)}
  BY DEF Track
<1>3. Stays(tracked, s)
  BY <1>1, <1>2, StaysSame, NewSystemStateStays
<1>4. Moves(r, s) /\ Halts(r, s)
  <2> HIDE DEF s, tracked
  <2>1. QED
    BY <1>1, <1>3 DEF Stays, Goes, Moves, Halts
<1>5. QED
  BY <1>4, TrackTracks DEF StaysTracking

-----------------------------------------------------------------------------
(* What the tracker knows of the others.                                   *)

LEMMA UpdatedStatus ==
  ASSUME NEW t \in Tracker, NEW q \in Participant, NEW new \in ParticipantState
  PROVE  /\ \A r \in Participant \ {q} : UpdateParticipantStatus(t, q, new).status[r] = t.status[r]
         /\ t.status[q] # "Shutdown" => UpdateParticipantStatus(t, q, new).status[q] = new
BY DEF UpdateParticipantStatus, Recomputed, Tracker

LEMMA RemovedStatus ==
  ASSUME NEW t \in Tracker, NEW q \in Participant, NEW any \in Participant,
         NEW r \in Participant \ {q}
  PROVE  RemoveParticipant(Marked(t, q), q, any).status[r] = t.status[r]
<1>1. Marked(t, q) \in Tracker /\ Marked(t, q).status[r] = t.status[r]
  BY UpdatedStatus, UpdateParticipantStatusType DEF Marked, ParticipantState
<1>2. QED
  BY <1>1 DEF RemoveParticipant, Recomputed, Tracker

LEMMA ReceiveStatusStays ==
  ASSUME NEW p \in Participant, NEW r \in IoThread, NEW q \in Participant,
         NEW s \in ParticipantState, NEW throws, NEW pending \in BOOLEAN
  PROVE  StaysTracking(r, ReceiveStatus(p, r, q, s, throws, pending),
                       UpdateParticipantStatus(r.tracker, q, s))
<1>1. UpdateParticipantStatus(r.tracker, q, s) \in Tracker
  BY UpdateParticipantStatusType DEF IoThread
<1>2. QED
  BY <1>1, TrackStays DEF ReceiveStatus

LEMMA MovesOn ==
  ASSUME NEW r, NEW s, NEW u, Moves(r, s), Halts(r, s), Moves(s, u), Halts(s, u)
  PROVE  Moves(r, u) /\ Halts(r, u)
<1>1. u.state \in Early => s.state = u.state /\ r.state = u.state
  BY DEF Moves
<1>2. QED
  BY <1>1 DEF Moves, Harmless, Halts

LEMMA OnParticipantDisconnectedStays ==
  ASSUME NEW p \in Participant, NEW r \in IoThread, NEW q \in Participant,
         NEW any \in Participant, NEW throws, NEW pending \in BOOLEAN
  PROVE  StaysTracking(r, OnParticipantDisconnected(p, r, q, any, throws, pending),
                       RemoveParticipant(Marked(r.tracker, q), q, any))
<1> DEFINE lost == r.tracker.status[q] \notin {"Unknown", "Invalid", "Shutdown"}
           marked == IF lost THEN ReceiveStatus(p, r, q, "Error", throws, pending) ELSE r
           removed == RemoveParticipant(marked.tracker, q, any)
<1>1. marked \in IoThread /\ Moves(r, marked) /\ Halts(r, marked)
  <2>1. StaysTracking(r, ReceiveStatus(p, r, q, "Error", throws, pending),
                      UpdateParticipantStatus(r.tracker, q, "Error"))
    BY ReceiveStatusStays DEF ParticipantState
  <2>2. QED
    BY <2>1, StaysSame DEF StaysTracking, Tracks, Stays, Goes
<1>2. removed \in Tracker
  BY <1>1, RemoveParticipantType DEF IoThread
<1>3. StaysTracking(marked, Track(p, marked, removed, throws, pending), removed)
  BY <1>1, <1>2, TrackStays
<1>4. OnParticipantDisconnected(p, r, q, any, throws, pending)
        = Track(p, marked, removed, throws, pending)
  BY DEF OnParticipantDisconnected
<1>5. Moves(r, Track(p, marked, removed, throws, pending))
        /\ Halts(r, Track(p, marked, removed, throws, pending))
  BY <1>1, <1>3, MovesOn DEF StaysTracking
<1>6. QED
  BY <1>4, <1>5, OnParticipantDisconnectedTracks DEF StaysTracking

-----------------------------------------------------------------------------
(* A pair of participants, when one of them changes.                       *)

LEMMA OwnMoves ==
  ASSUME NEW r, NEW s, OwnStart(r), Moves(r, s)
  PROVE  OwnStart(s)
BY DEF OwnStart, Moves, Silent, OnlyServicesCreated, Harmless, IsBarrier, Early

LEMMA PairMoves ==
  ASSUME NEW p, NEW q, NEW r, NEW s, NEW u, NEW sent, NEW replies,
         PairStart(p, q, r, u, sent, replies), Moves(r, s)
  PROVE  PairStart(p, q, s, u, sent, replies)
<1>1. s.state \in Early => s.state = r.state /\ (OnItsWay(r, sent) => OnItsWay(s, sent))
  BY DEF Moves, OnItsWay
<1>2. CASE s.state = "Invalid"
  BY <1>1, <1>2 DEF PairStart, Early
<1>3. CASE s.state = "ServicesCreated"
  BY <1>1, <1>3 DEF PairStart, Early, Moves
<1>4. QED
  BY <1>2, <1>3 DEF PairStart

\* The peer u becomes v and knows the same of p; it makes no reply, and sends
\* only what it had made.
LEMMA PairPeer ==
  ASSUME NEW p, NEW q, NEW r, NEW u, NEW v, NEW sent, NEW replies, NEW replies2,
         PairStart(p, q, r, u, sent, replies),
         v.tracker.status[p] = u.tracker.status[p],
         \A t \in Elements(v.todo) : IsReturn(t) /\ t.to = p => t \in Elements(u.todo),
         \A m \in Elements(replies2) : IsReturn(m) => m \in Elements(replies)
              \/ \E t \in Elements(u.todo) : IsReturn(t) /\ t.to = p
  PROVE  PairStart(p, q, r, v, sent, replies2)
<1>1. Replied(p, v, replies2) => Replied(p, u, replies)
  BY DEF Replied
<1>2. QED
  BY <1>1 DEF PairStart

\* Only what is not about the start is taken from the channel.
LEMMA PairTaken ==
  ASSUME NEW p, NEW q, NEW r, NEW u, NEW sent \in Seq(Message), NEW replies,
         PairStart(p, q, r, u, sent, replies), sent # <<>>,
         Head(sent).kind # "Status", ~IsCall(Head(sent))
  PROVE  PairStart(p, q, r, u, Tail(sent), replies)
<1>1. Elements(Tail(sent)) \subseteq Elements(sent)
  BY ElementsTail
<1>2. Announces(sent) => Announces(Tail(sent))
  BY AnnouncesTail
<1>3. OnItsWay(r, sent) => OnItsWay(r, Tail(sent))
  BY <1>1, <1>2 DEF OnItsWay
<1>4. QED
  BY <1>1, <1>3 DEF PairStart, Silent, OnlyServicesCreated

\* q has been told, as v shows: nothing else matters any more.
LEMMA PairTold ==
  ASSUME NEW p, NEW q, NEW r, NEW u, NEW v, NEW sent, NEW sent2, NEW replies, NEW replies2,
         PairStart(p, q, r, u, sent, replies), r.state # "Invalid",
         Elements(sent2) \subseteq Elements(sent),
         r.state = "ServicesCreated" => v.tracker.status[p] = "ServicesCreated"
  PROVE  PairStart(p, q, r, v, sent2, replies2)
BY DEF PairStart, OnlyServicesCreated

-----------------------------------------------------------------------------
(* The steps that bring the start about: entering ServicesCreated, asking  *)
(* for the replies, and receiving one.                                     *)

\* No reply is added to the tasks of r.
AddsNoReply(r, s) == \A t \in Elements(s.todo) : t.kind = "Return" => t \in Elements(r.todo)

\* s knows of the others what r knows, and has made no reply.
SameToOthers(p, r, s) ==
    /\ s \in IoThread /\ s.peers = r.peers
    /\ \A x \in Participant \ {p} : s.tracker.status[x] = r.tracker.status[x]
    /\ AddsNoReply(r, s)

LEMMA GoesSame ==
  ASSUME NEW p, NEW r, NEW s, Goes(r, s)
  PROVE  SameToOthers(p, r, s)
BY DEF Goes, Keeps, Moves, SameToOthers, AddsNoReply

LEMMA InitializeStart ==
  ASSUME NEW p \in Participant, NEW r \in IoThread, OwnStart(r), r.state = "Invalid"
  PROVE  /\ SameToOthers(p, r, Enter(r, "ServicesCreated"))
         /\ OwnStart(Enter(r, "ServicesCreated"))
         /\ \A q, u, sent, replies :
                PairStart(p, q, r, u, sent, replies)
                  => PairStart(p, q, Enter(r, "ServicesCreated"), u, sent, replies)
<1> DEFINE s == Enter(r, "ServicesCreated")
           task == [kind |-> "Status", state |-> "ServicesCreated"]
<1>1. r.todo \in Seq(Task) /\ task \in Task
  BY DEF IoThread, Task, ParticipantState
<1>2. /\ s.todo = Append(r.todo, task) /\ s.state = "ServicesCreated"
      /\ s.barrier = r.barrier /\ s.subscribing = r.subscribing /\ s.tracker = r.tracker
  BY DEF Enter, Post, IoThread
<1>3. Keeps(r, s)
  BY EnterType DEF ParticipantState
<1> HIDE DEF s
<1>4. Elements(s.todo) = Elements(r.todo) \cup {task}
  BY <1>1, <1>2, ElementsAppend
<1>5. Announces(s.todo)
  BY <1>1, <1>2, AnnouncesAppend DEF OwnStart, Silent
<1>6. SameToOthers(p, r, s)
  BY <1>3, <1>4 DEF SameToOthers, Keeps, AddsNoReply
<1>7. OwnStart(s)
  BY <1>2, <1>4 DEF OwnStart, OnlyServicesCreated, Silent, Early
<1>8. ASSUME NEW q, NEW u, NEW sent, NEW replies, PairStart(p, q, r, u, sent, replies)
      PROVE  PairStart(p, q, s, u, sent, replies)
  <2>1. OnItsWay(s, sent) /\ OnlyServicesCreated(sent)
    BY <1>5, <1>8 DEF PairStart, OnItsWay, Silent, OnlyServicesCreated
  <2>2. QED
    BY <1>2, <1>8, <2>1 DEF PairStart, OwnStart
<1>9. QED
  BY <1>6, <1>7, <1>8 DEF s

\* r becomes s, without harm to what is on the way: it only goes on when it has
\* no peers.
Advances(p, r, s) ==
    /\ SameToOthers(p, r, s)
    /\ OwnStart(s)
    /\ r.state = "ServicesCreated" /\ s.state \in Onward => r.peers = {}
    /\ \A q \in r.peers : \A u, sent, replies :
           PairStart(p, q, r, u, sent, replies) => PairStart(p, q, s, u, sent, replies)

LEMMA GoesAdvances ==
  ASSUME NEW p, NEW r, NEW s, OwnStart(r), Goes(r, s),
         r.state = "ServicesCreated" /\ s.state \in Onward => r.peers = {}
  PROVE  Advances(p, r, s)
<1>1. OwnStart(s) /\ SameToOthers(p, r, s)
  BY OwnMoves, GoesSame DEF Goes
<1>2. \A q \in r.peers : \A u, sent, replies :
          PairStart(p, q, r, u, sent, replies) => PairStart(p, q, s, u, sent, replies)
  BY PairMoves DEF Goes
<1>3. QED
  BY <1>1, <1>2 DEF Advances

LEMMA StaysAdvances ==
  ASSUME NEW p, NEW r, NEW s, OwnStart(r), Stays(r, s)
  PROVE  Advances(p, r, s)
BY GoesAdvances DEF Stays, Halts, Onward

LEMMA RequestRepliesStart ==
  ASSUME NEW p \in Participant, NEW r \in IoThread, NEW id \in Barrier, NEW throws,
         NEW pending \in BOOLEAN, OwnStart(r), r.state = "Invalid" => id # "ServicesCreated"
  PROVE  Advances(p, r, RequestReplies(p, r, id, throws, pending))
<1> DEFINE s == RequestReplies(p, r, id, throws, pending)
           call == [kind |-> "Call", id |-> id]
           requested == [r EXCEPT !.barrier = id, !.expected = r.peers]
<1>1. CASE s = r
  BY <1>1, StaysSame, StaysAdvances
<1>2. CASE s = Completion(p, r, id, throws, pending) /\ r.peers = {}
  <2>1. Goes(r, s)
    BY <1>2, CompletionGoes
  <2>2. QED
    BY <1>2, <2>1, GoesAdvances
<1>3. CASE s = Post(requested, call)
  <2>1. r.todo \in Seq(Task) /\ call \in Task
    BY DEF IoThread, Task
  <2>2. /\ s.todo = Append(r.todo, call) /\ s.state = r.state /\ s.barrier = id
        /\ s.expected = r.peers /\ s.subscribing = r.subscribing
    BY <1>3 DEF Post, IoThread
  <2>3. Keeps(r, s)
    BY RequestRepliesType
  <2>4. Elements(s.todo) = Elements(r.todo) \cup {call}
    BY <2>1, <2>2, ElementsAppend
  <2>5. Announces(r.todo) => Announces(s.todo)
    BY <2>1, <2>2, AnnouncesAppend
  <2> HIDE DEF s
  <2>6. SameToOthers(p, r, s)
    BY <2>3, <2>4 DEF SameToOthers, Keeps, AddsNoReply
  <2>7. OwnStart(s)
    BY <2>2, <2>4 DEF OwnStart, Silent, OnlyServicesCreated, IsCall
  <2>8. ASSUME NEW q \in r.peers, NEW u, NEW sent, NEW replies,
               PairStart(p, q, r, u, sent, replies)
        PROVE  PairStart(p, q, s, u, sent, replies)
    BY <2>2, <2>5, <2>8 DEF PairStart, OnItsWay
  <2>9. r.state = "ServicesCreated" => s.state \notin Onward
    BY <2>2 DEF Onward
  <2>10. QED
    BY <2>6, <2>7, <2>8, <2>9 DEF s, Advances
<1>4. QED
  BY <1>1, <1>2, <1>3 DEF RequestReplies

\* The reply of b, or the one made up for it. It counts for the start only if
\* the barrier waits for its replies.
LEMMA ReceiveCallReturnStart ==
  ASSUME NEW p \in Participant, NEW r \in IoThread, NEW b \in Participant,
         NEW id \in Barrier \cup {"None"}, NEW throws, NEW pending \in BOOLEAN, OwnStart(r)
  PROVE  LET s == ReceiveCallReturn(p, r, b, id, throws, pending)
         IN  /\ SameToOthers(p, r, s)
             /\ OwnStart(s)
             /\ r.state = "ServicesCreated" /\ s.state \in Onward
                  => id = "ServicesCreated" /\ r.barrier = id /\ r.expected \subseteq {b}
             /\ \A q, u, sent, replies :
                    PairStart(p, q, r, u, sent, replies)
                      /\ (q = b /\ id = "ServicesCreated" /\ r.state = id
                            => u.tracker.status[p] = id)
                      => PairStart(p, q, s, u, sent, replies)
<1> DEFINE s == ReceiveCallReturn(p, r, b, id, throws, pending)
           left == r.expected \ {b}
           replied == [r EXCEPT !.expected = {}]
           completed == Completion(p, replied, id, throws, pending)
<1>1. CASE s = r
  BY <1>1, StaysSame, GoesSame DEF Stays, Halts, Onward
<1>2. CASE s = [completed EXCEPT !.barrier = "None"] /\ r.barrier = id /\ id # "None" /\ left = {}
  <2>1. id \in Barrier
    BY <1>2
  <2>2. /\ replied \in IoThread /\ replied.todo = r.todo /\ replied.state = r.state
        /\ replied.subscribing = r.subscribing /\ replied.barrier = r.barrier
    BY DEF IoThread
  <2>3. /\ Goes(replied, completed)
        /\ id # "ServicesCreated" => Halts(replied, completed)
        /\ id = "ServicesCreated" => completed.state \notin Early
    BY <2>1, <2>2, CompletionGoes DEF Stays
  <2>4. /\ s.state = completed.state /\ s.subscribing = completed.subscribing
        /\ s.todo = completed.todo /\ s.barrier = "None"
    <3>1. completed \in IoThread
      BY <2>3 DEF Goes, Keeps
    <3>2. QED
      BY <1>2, <3>1 DEF IoThread
  <2>5. Keeps(r, s)
    BY ReceiveCallReturnType
  <2> HIDE DEF s, completed, replied
  <2>6. Moves(r, s)
    BY <2>2, <2>3, <2>4 DEF Goes, Moves
  <2>7. id # "ServicesCreated" => Halts(r, s)
    BY <2>2, <2>3, <2>4 DEF Halts
  <2>8. OwnStart(s) /\ SameToOthers(p, r, s)
    BY <2>5, <2>6, OwnMoves, GoesSame DEF Goes
  <2>9. r.expected \subseteq {b}
    BY <1>2
  <2>10. r.state = "ServicesCreated" /\ s.state \in Onward
           => id = "ServicesCreated" /\ r.barrier = id /\ r.expected \subseteq {b}
    BY <1>2, <2>7, <2>9 DEF Halts, Onward
  <2>11. \A q, u, sent, replies : PairStart(p, q, r, u, sent, replies)
                                    => PairStart(p, q, s, u, sent, replies)
    BY <2>6, PairMoves
  <2>12. QED
    BY <2>8, <2>10, <2>11 DEF s
<1>3. CASE s = [r EXCEPT !.expected = left] /\ r.barrier = id
  <2>1. /\ s.state = r.state /\ s.subscribing = r.subscribing /\ s.todo = r.todo
        /\ s.barrier = r.barrier /\ s.expected = left
    BY <1>3 DEF IoThread
  <2>2. Keeps(r, s)
    BY ReceiveCallReturnType
  <2> HIDE DEF s
  <2>3. OwnStart(s) /\ SameToOthers(p, r, s)
    BY <2>1, <2>2 DEF OwnStart, SameToOthers, Keeps, AddsNoReply
  <2>4. ASSUME NEW q, NEW u, NEW sent, NEW replies, PairStart(p, q, r, u, sent, replies),
               q = b /\ id = "ServicesCreated" /\ r.state = id => u.tracker.status[p] = id
        PROVE  PairStart(p, q, s, u, sent, replies)
    BY <1>3, <2>1, <2>4 DEF PairStart, OnItsWay
  <2>5. r.state = "ServicesCreated" => s.state \notin Onward
    BY <2>1 DEF Onward
  <2>6. QED
    BY <2>3, <2>4, <2>5 DEF s
<1>4. QED
  BY <1>1, <1>2, <1>3 DEF ReceiveCallReturn

LEMMA AfterTaskStart ==
  ASSUME NEW p \in Participant, NEW r \in IoThread, NEW task \in Task, NEW throws,
         NEW pending \in BOOLEAN, OwnStart(r), r.state = "Invalid" => ~IsBarrier(task)
  PROVE  Advances(p, r, AfterTask(p, r, task, throws, pending))
<1> DEFINE s == AfterTask(p, r, task, throws, pending)
<1> HIDE DEF s
<1>1. CASE task.kind = "Status"
  <2>1. task.state \in ParticipantState
    BY <1>1 DEF Task, UserTask
  <2>2. s = ReceiveStatus(p, r, p, task.state, throws, pending)
    BY <1>1 DEF AfterTask, s
  <2>3. StaysTracking(r, s, UpdateParticipantStatus(r.tracker, p, task.state))
    BY <2>1, <2>2, ReceiveStatusStays
  <2>4. SameToOthers(p, r, s)
    BY <2>1, <2>3, UpdatedStatus DEF StaysTracking, Tracks, Moves, SameToOthers, AddsNoReply, IoThread
  <2>5. OwnStart(s)
    BY <2>3, OwnMoves DEF StaysTracking
  <2>6. \A q \in r.peers : \A u, sent, replies :
            PairStart(p, q, r, u, sent, replies) => PairStart(p, q, s, u, sent, replies)
    BY <2>3, PairMoves DEF StaysTracking
  <2>7. QED
    BY <2>3, <2>4, <2>5, <2>6 DEF StaysTracking, Halts, Onward, Advances, s
<1>2. CASE task.kind = "Barrier"
  <2>1. task.id \in Barrier
    BY <1>2 DEF Task, UserTask
  <2>2. s = RequestReplies(p, r, task.id, throws, pending)
    BY <1>2 DEF AfterTask, s
  <2>3. r.state = "Invalid" => task.id # "ServicesCreated"
    BY <1>2 DEF IsBarrier
  <2>4. QED
    BY <2>1, <2>2, <2>3, RequestRepliesStart DEF s
<1>3. CASE task.kind = "Initialize"
  <2>1. CASE r.state = "Invalid"
    <3>1. s = Enter(r, "ServicesCreated")
      BY <1>3, <2>1 DEF AfterTask, s
    <3>2. QED
      BY <2>1, <3>1, InitializeStart DEF Advances, s
  <2>2. CASE r.state # "Invalid"
    <3>1. s \in {r, ErrorIntent(r)}
      BY <1>3, <2>2 DEF AfterTask, s
    <3>2. QED
      BY <3>1, StaysSame, ErrorIntentStays, StaysAdvances DEF s
  <2>3. QED
    BY <2>1, <2>2
<1>4. CASE task.kind \in {"StartAutonomous", "CompleteReady", "Stop", "Error", "Abort"}
  <2>1. s \in {ServicesCreatedIntent(p, r, throws, pending),
               CompleteReadyIntent(p, r, throws), StopIntent(r, throws),
               ErrorIntent(r), AbortIntent(r)}
    BY <1>4 DEF AfterTask, s
  <2>2. Stays(r, s)
    BY <2>1, ServicesCreatedIntentStays, CompleteReadyIntentStays, StopIntentStays,
       ErrorIntentStays, AbortIntentStays
  <2>3. QED
    BY <2>2, StaysAdvances DEF s
<1>5. CASE task.kind \in {"Pause", "Continue"}
  <2>1. [kind |-> "Error"] \in Task /\ Harmless(r.state, [kind |-> "Error"])
    BY UserTaskType DEF UserTask, Harmless, IsCall, IsBarrier
  <2>2. Goes(r, Post(r, [kind |-> "Error"])) /\ Stays(r, Post(r, [kind |-> "Error"]))
    BY <2>1, PostStays DEF Stays
  <2>3. {"Paused", "Running"} \subseteq ParticipantState \ Early
    BY DEF ParticipantState, Early
  <2>4. Goes(r, Enter(r, "Paused")) /\ Goes(r, Enter(r, "Running"))
    BY <2>3, EnterGoes
  <2>5. \/ s = Post(r, [kind |-> "Error"])
        \/ r.state \in {"Running", "Paused"} /\ s \in {Enter(r, "Paused"), Enter(r, "Running")}
    BY <1>5 DEF AfterTask, s
  <2>6. QED
    BY <2>2, <2>4, <2>5, StaysAdvances, GoesAdvances DEF s
<1>6. CASE task.kind \in {"Call", "Return", "SendAbort"}
  <2>1. s = r
    BY <1>6 DEF AfterTask, s
  <2>2. QED
    BY <2>1, StaysSame, StaysAdvances DEF s
<1>7. QED
  <2>1. task.kind \in UserTask \cup {"Status", "Barrier", "Call", "Return"}
    BY DEF Task
  <2>2. QED
    BY <1>1, <1>2, <1>3, <1>4, <1>5, <1>6, <2>1 DEF UserTask

\* The first task is taken, and m is what it sends to the peer, if anything.
LEMMA TaskTaken ==
  ASSUME NEW p, NEW q, NEW r \in IoThread, NEW u, NEW sent \in Seq(Message), NEW replies,
         PairStart(p, q, r, u, sent, replies), OwnStart(r), r.todo # <<>>,
         NEW sent2,
         IF Head(r.todo).kind \in {"Status", "Call"}
         THEN Head(r.todo) \in Message /\ sent2 = Append(sent, Head(r.todo))
         ELSE \/ sent2 = sent
              \/ \E m \in Message : m.kind \notin {"Status", "Call"} /\ sent2 = Append(sent, m)
  PROVE  PairStart(p, q, [r EXCEPT !.todo = Tail(@)], u, sent2, replies)
<1> DEFINE head == Head(r.todo)
           rest == [r EXCEPT !.todo = Tail(@)]
<1>1. r.todo \in Seq(Task)
  BY DEF IoThread
<1>2. /\ rest.todo = Tail(r.todo) /\ rest.state = r.state /\ rest.barrier = r.barrier
      /\ rest.expected = r.expected
  BY DEF IoThread
<1>3. head \in Elements(r.todo) /\ Elements(rest.todo) \subseteq Elements(r.todo)
  BY <1>1, <1>2, ElementsTail
<1>4. PICK m \in Message :
          /\ sent2 \in {sent, Append(sent, m)}
          /\ head.kind \in {"Status", "Call"} => m = head /\ sent2 = Append(sent, m)
          /\ head.kind \notin {"Status", "Call"} => m.kind \notin {"Status", "Call"}
  <2>1. CASE head.kind \in {"Status", "Call"}
    BY <2>1
  <2>2. CASE head.kind \notin {"Status", "Call"}
    <3>1. [kind |-> "PeerShutdown"] \in Message
      BY DEF Message
    <3>2. CASE sent2 = sent
      BY <2>2, <3>1, <3>2
    <3>3. QED
      BY <2>2, <3>2
  <2>3. QED
    BY <2>1, <2>2
<1> HIDE DEF head, rest
<1>5. Elements(sent2) \subseteq Elements(sent) \cup {m}
  <2>1. Elements(Append(sent, m)) = Elements(sent) \cup {m}
    BY ElementsAppend
  <2>2. QED
    BY <1>4, <2>1
<1>6. ASSUME r.state = "Invalid"
      PROVE  Silent(sent2)
  <2>1. Silent(sent) /\ head.kind # "Status" /\ ~IsCall(head)
    BY <1>3, <1>6 DEF PairStart, OwnStart, Silent
  <2>2. m.kind # "Status" /\ ~IsCall(m)
    BY <1>4, <2>1 DEF IsCall
  <2>3. QED
    BY <1>5, <2>1, <2>2 DEF Silent
<1>7. ASSUME r.state = "ServicesCreated"
      PROVE  /\ OnlyServicesCreated(sent2)
             /\ OnItsWay(r, sent) => OnItsWay(rest, sent2)
  <2>1. OnlyServicesCreated(sent2)
    BY <1>3, <1>4, <1>5, <1>7 DEF PairStart, OwnStart, OnlyServicesCreated
  <2>2. Announces(sent) => Announces(sent2)
    BY <1>4, AnnouncesAppend
  <2>3. ASSUME \A n \in Elements(sent) : ~IsCall(n), Announces(r.todo)
        PROVE  OnItsWay(rest, sent2)
    <3>1. ~IsCall(head) /\ (head.kind # "Status" => Announces(rest.todo))
      BY <1>1, <1>2, <2>3, AnnouncesTail DEF head
    <3>2. ~IsCall(m)
      BY <1>4, <3>1 DEF IsCall
    <3>3. CASE head.kind = "Status"
      BY <1>4, <2>3, <3>3, AnnouncesAppend DEF OnItsWay
    <3>4. CASE head.kind # "Status"
      BY <1>5, <2>3, <3>1, <3>2, <3>4 DEF OnItsWay
    <3>5. QED
      BY <3>3, <3>4
  <2>4. QED
    BY <2>1, <2>2, <2>3 DEF OnItsWay
<1>8. PairStart(p, q, rest, u, sent2, replies)
  BY <1>2, <1>6, <1>7 DEF PairStart
<1>9. QED
  BY <1>8 DEF rest

-----------------------------------------------------------------------------
(* The steps of the system.                                                *)

\* The thread of p becomes s, which goes on only when the peers know of it.
Justified(p, s) ==
    io[p].state = "ServicesCreated" /\ s.state \in Onward =>
        \A q \in io[p].peers \cap alive : io[q].tracker.status[p] = "ServicesCreated"

AllJustified == \A p \in Participant : Justified(p, io'[p])

LEMMA StepHolds ==
  ASSUME BarrierInv, TypeOK', alive' = alive, NEW p \in Participant, NEW s,
         io' = [io EXCEPT ![p] = s], Justified(p, s),
         p \notin s.peers, OwnStart(s),
         \A q \in alive \ {p} :
             /\ q \in s.peers
             /\ PairStart(p, q, s, io[q], channel'[p][q], channel'[q][p])
             /\ PairStart(q, p, io[q], s, channel'[q][p], channel'[p][q])
             /\ \A m \in Elements(channel'[p][q]) : m.kind # "PeerShutdown"
             /\ \A m \in Elements(channel'[q][p]) : m.kind # "PeerShutdown",
         \A a, b \in alive \ {p} : channel'[a][b] = channel[a][b]
  PROVE  BarrierInv' /\ AllJustified
<1>1. io'[p] = s /\ \A a \in Participant \ {p} : io'[a] = io[a]
  BY DEF BarrierInv, TypeOK
<1>2. alive \subseteq Participant
  BY DEF BarrierInv, TypeOK
<1>3. \A a \in Participant : a \notin io'[a].peers /\ OwnStart(io'[a])
  BY <1>1 DEF BarrierInv
<1>4. ASSUME NEW a \in alive, NEW b \in alive, a # b
      PROVE  /\ b \in io'[a].peers
             /\ \A m \in Elements(channel'[a][b]) : m.kind # "PeerShutdown"
             /\ PairStart(a, b, io'[a], io'[b], channel'[a][b], channel'[b][a])
  <2>1. CASE a = p
    BY <1>1, <1>2, <1>4, <2>1
  <2>2. CASE b = p
    BY <1>1, <1>2, <1>4, <2>2 DEF BarrierInv
  <2>3. CASE a # p /\ b # p
    BY <1>1, <1>2, <1>4, <2>3 DEF BarrierInv
  <2>4. QED
    BY <2>1, <2>2, <2>3
<1>5. BarrierInv'
  BY <1>3, <1>4 DEF BarrierInv
<1>6. AllJustified
  BY <1>1 DEF AllJustified, Justified, Onward
<1>7. QED
  BY <1>5, <1>6

\* p changes, and no channel.
LEMMA AdvanceHolds ==
  ASSUME BarrierInv, TypeOK', alive' = alive, channel' = channel, NEW p \in alive, NEW s,
         io' = [io EXCEPT ![p] = s], Advances(p, io[p], s)
  PROVE  BarrierInv' /\ AllJustified
<1>1. p \in Participant /\ p \notin s.peers /\ OwnStart(s)
  BY DEF BarrierInv, TypeOK, Advances, SameToOthers
<1>2. Justified(p, s)
  BY DEF Advances, Justified
<1>3. ASSUME NEW q \in alive \ {p}
      PROVE  /\ q \in s.peers
             /\ PairStart(p, q, s, io[q], channel[p][q], channel[q][p])
             /\ PairStart(q, p, io[q], s, channel[q][p], channel[p][q])
  <2>1. q \in Participant /\ q \in io[p].peers
    BY DEF BarrierInv, TypeOK
  <2>2. PairStart(p, q, io[p], io[q], channel[p][q], channel[q][p])
    BY DEF BarrierInv
  <2>3. PairStart(q, p, io[q], io[p], channel[q][p], channel[p][q])
    BY DEF BarrierInv
  <2>4. PairStart(p, q, s, io[q], channel[p][q], channel[q][p])
    BY <2>1, <2>2 DEF Advances
  <2>5. PairStart(q, p, io[q], s, channel[q][p], channel[p][q])
    BY <2>1, <2>3, PairPeer DEF Advances, SameToOthers, AddsNoReply, IsReturn
  <2>6. QED
    BY <2>1, <2>4, <2>5 DEF Advances, SameToOthers
<1>4. QED
  BY <1>1, <1>2, <1>3, StepHolds DEF BarrierInv

LEMMA UnchangedHolds ==
  ASSUME BarrierInv, TypeOK', UNCHANGED <<io, alive, channel>>
  PROVE  BarrierInv' /\ AllJustified
BY DEF BarrierInv, AllJustified, Justified, Onward

\* A message of q is taken, and p changes.
LEMMA ReceiveHolds ==
  ASSUME BarrierInv, TypeOK', alive' = alive, NEW p \in alive, NEW q \in Participant \ {p},
         channel[q][p] # <<>>, channel' = [channel EXCEPT ![q][p] = Tail(@)],
         NEW s, io' = [io EXCEPT ![p] = s], Justified(p, s),
         p \notin s.peers, alive \ {p} \subseteq s.peers, OwnStart(s),
         \A x \in alive \ {p, q} : s.tracker.status[x] = io[p].tracker.status[x],
         \A t \in Elements(s.todo) : IsReturn(t) /\ t.to # q => t \in Elements(io[p].todo),
         \A x \in alive \ {p} :
             PairStart(p, x, io[p], io[x], channel[p][x], channel[x][p])
               => PairStart(p, x, s, io[x], channel[p][x], channel[x][p]),
         q \in alive => PairStart(q, p, io[q], s, Tail(channel[q][p]), channel[p][q])
  PROVE  BarrierInv' /\ AllJustified
<1>1. p \in Participant /\ alive \subseteq Participant
  BY DEF BarrierInv, TypeOK
<1>2. /\ channel'[q][p] = Tail(channel[q][p])
      /\ \A a, b \in Participant : <<a, b>> # <<q, p>> => channel'[a][b] = channel[a][b]
  BY <1>1 DEF BarrierInv, TypeOK
<1>3. \A a, b \in Participant : Elements(channel'[a][b]) \subseteq Elements(channel[a][b])
  <2>1. channel[q][p] \in Seq(Message)
    BY <1>1 DEF BarrierInv, TypeOK
  <2>2. Elements(Tail(channel[q][p])) \subseteq Elements(channel[q][p])
    BY <2>1, ElementsTail
  <2>3. QED
    BY <1>2, <2>2
<1>4. ASSUME NEW x \in alive \ {p}
      PROVE  /\ PairStart(p, x, s, io[x], channel'[p][x], channel'[x][p])
             /\ PairStart(x, p, io[x], s, channel'[x][p], channel'[p][x])
  <2>1. PairStart(p, x, io[p], io[x], channel[p][x], channel[x][p])
    BY DEF BarrierInv
  <2>2. PairStart(p, x, s, io[x], channel[p][x], channel[x][p])
    BY <2>1
  <2>3. channel'[p][x] = channel[p][x]
    BY <1>1, <1>2
  <2>4. PairStart(p, x, s, io[x], channel[p][x], channel'[x][p])
    <3>1. \A m \in Elements(channel'[x][p]) : m \in Elements(channel[x][p])
      BY <1>1, <1>3
    <3>2. QED
      BY <2>2, <3>1, PairPeer
  <2>5. CASE x = q
    BY <1>2, <2>3, <2>4, <2>5
  <2>6. CASE x # q
    <3>1. PairStart(x, p, io[x], io[p], channel[x][p], channel[p][x])
      BY DEF BarrierInv
    <3>2. channel'[x][p] = channel[x][p]
      BY <1>1, <1>2, <2>6
    <3>3. \A t \in Elements(s.todo) : IsReturn(t) /\ t.to = x => t \in Elements(io[p].todo)
      BY <2>6
    <3>4. s.tracker.status[x] = io[p].tracker.status[x]
      BY <2>6
    <3>5. PairStart(x, p, io[x], s, channel[x][p], channel[p][x])
      BY <3>1, <3>3, <3>4, PairPeer
    <3>6. QED
      BY <2>3, <2>4, <3>2, <3>5
  <2>7. QED
    BY <2>5, <2>6
<1>5. \A x \in alive \ {p} :
          /\ \A m \in Elements(channel'[p][x]) : m.kind # "PeerShutdown"
          /\ \A m \in Elements(channel'[x][p]) : m.kind # "PeerShutdown"
  <2> TAKE x \in alive \ {p}
  <2>1. /\ \A m \in Elements(channel'[p][x]) : m \in Elements(channel[p][x])
        /\ \A m \in Elements(channel'[x][p]) : m \in Elements(channel[x][p])
    BY <1>1, <1>3
  <2>2. /\ \A m \in Elements(channel[p][x]) : m.kind # "PeerShutdown"
        /\ \A m \in Elements(channel[x][p]) : m.kind # "PeerShutdown"
    BY DEF BarrierInv
  <2>3. QED
    BY <2>1, <2>2
<1>6. \A a, b \in alive \ {p} : channel'[a][b] = channel[a][b]
  BY <1>1, <1>2
<1>7. QED
  BY <1>1, <1>4, <1>5, <1>6, StepHolds

LEMMA AppendConcatenates ==
  ASSUME NEW S, NEW s \in Seq(S), NEW a \in S, NEW b \in S
  PROVE  s \o <<a>> = Append(s, a) /\ s \o <<a, b>> = Append(Append(s, a), b)
OBVIOUS

\* A task of the user does not concern the start.
LEMMA UserTaskStays ==
  ASSUME NEW r \in IoThread, NEW kind \in UserTask
  PROVE  Stays(r, Post(r, [kind |-> kind])) /\ Post(r, [kind |-> kind]) \in IoThread
<1>1. [kind |-> kind] \in Task /\ kind \notin {"Return", "Status", "Call", "Barrier"}
  BY UserTaskType DEF UserTask
<1>2. Harmless(r.state, [kind |-> kind])
  BY <1>1 DEF Harmless, IsCall, IsBarrier
<1>3. QED
  BY <1>1, <1>2, PostStays, PostType DEF Keeps

LEMMA UserHolds ==
  ASSUME BarrierInv, TypeOK', NEW p \in Participant,
         \/ StartLifecycle(p) \/ FinishStartLifecycle(p)
         \/ \E op \in {"Stop", "Pause", "Continue", "Error", "Abort"} : UserCalls(p, op)
         \/ AbortBeforeStart(p) \/ CompleteCommunicationReadyHandlerAsync(p)
         \/ SetAbortedBeforeLifecycleStart(p)
  PROVE  BarrierInv' /\ AllJustified
<1>1. io[p] \in IoThread /\ OwnStart(io[p])
  BY DEF BarrierInv, TypeOK
<1>2. CASE StartLifecycle(p) \/ SetAbortedBeforeLifecycleStart(p)
  BY <1>2, UnchangedHolds DEF StartLifecycle, SetAbortedBeforeLifecycleStart
<1>3. ASSUME NEW s, io' = [io EXCEPT ![p] = s], Stays(io[p], s),
             p \in alive, alive' = alive, channel' = channel
      PROVE  BarrierInv' /\ AllJustified
  <2>1. Advances(p, io[p], s)
    BY <1>1, <1>3, StaysAdvances
  <2>2. QED
    BY <1>3, <2>1, AdvanceHolds
<1>4. CASE FinishStartLifecycle(p)
  <2> DEFINE r == Post(io[p], [kind |-> "Initialize"])
             s == Post(r, [kind |-> "StartAutonomous"])
             abort == Post(io[p], [kind |-> "Abort"])
  <2>1. Stays(io[p], abort) /\ Stays(io[p], r) /\ r \in IoThread
    BY <1>1, UserTaskStays DEF UserTask
  <2>2. Stays(r, s)
    BY <2>1, UserTaskStays DEF UserTask
  <2>3. Stays(io[p], s)
    BY <2>1, <2>2, GoesOn DEF Stays
  <2>4. \/ io' = [io EXCEPT ![p] = abort]
        \/ io' = [io EXCEPT ![p] = r]
        \/ io' = [io EXCEPT ![p] = s]
    <3>1. CASE aborted[p]
      BY <1>4, <3>1 DEF FinishStartLifecycle
    <3>2. CASE ~aborted[p]
      <4>1. io[p].todo \in Seq(Task)
        BY <1>1 DEF IoThread
      <4>2. /\ io[p].todo \o <<[kind |-> "Initialize"]>> = r.todo
            /\ io[p].todo \o <<[kind |-> "Initialize"], [kind |-> "StartAutonomous"]>> = s.todo
        <5>1. /\ r.todo = Append(io[p].todo, [kind |-> "Initialize"])
              /\ s.todo = Append(r.todo, [kind |-> "StartAutonomous"])
          BY <1>1 DEF Post, IoThread
        <5>2. {[kind |-> "Initialize"], [kind |-> "StartAutonomous"]} \subseteq Task
          BY UserTaskType DEF UserTask
        <5>3. /\ io[p].todo \o <<[kind |-> "Initialize"]>>
                   = Append(io[p].todo, [kind |-> "Initialize"])
              /\ io[p].todo \o <<[kind |-> "Initialize"], [kind |-> "StartAutonomous"]>>
                   = Append(Append(io[p].todo, [kind |-> "Initialize"]),
                            [kind |-> "StartAutonomous"])
          <6> DEFINE a == [kind |-> "Initialize"]
                     b == [kind |-> "StartAutonomous"]
          <6>1. a \in Task /\ b \in Task
            BY <5>2
          <6> HIDE DEF a, b
          <6>2. /\ io[p].todo \o <<a>> = Append(io[p].todo, a)
                /\ io[p].todo \o <<a, b>> = Append(Append(io[p].todo, a), b)
            BY <4>1, <6>1, AppendConcatenates
          <6>3. QED
            BY <6>2 DEF a, b
        <5> HIDE DEF r, s
        <5>4. QED
          BY <5>1, <5>3
      <4>3. /\ [io[p] EXCEPT !.todo = r.todo] = r
            /\ [io[p] EXCEPT !.todo = s.todo] = s
        BY <1>1 DEF Post, IoThread
      <4>4. io' = [io EXCEPT ![p] = [io[p] EXCEPT !.todo = io[p].todo \o StartTasks(p)]]
        BY <1>4, <3>2 DEF FinishStartLifecycle
      <4>5. QED
        BY <4>2, <4>3, <4>4 DEF StartTasks
    <3>3. QED
      BY <3>1, <3>2
  <2>5. p \in alive /\ alive' = alive /\ channel' = channel
    BY <1>4 DEF FinishStartLifecycle
  <2> HIDE DEF abort, r, s
  <2>6. QED
    BY <1>3, <2>1, <2>3, <2>4, <2>5
<1>5. ASSUME NEW op \in {"Stop", "Pause", "Continue", "Error", "Abort"}, UserCalls(p, op)
      PROVE  BarrierInv' /\ AllJustified
  <2> DEFINE abort == Post(io[p], [kind |-> "Abort"])
             both == Post(abort, [kind |-> "SendAbort"])
             other == Post(io[p], [kind |-> op])
  <2>1. Stays(io[p], abort) /\ abort \in IoThread /\ Stays(io[p], other)
    BY <1>1, UserTaskStays DEF UserTask
  <2>2. Stays(abort, both)
    BY <2>1, UserTaskStays DEF UserTask
  <2>3. Stays(io[p], both)
    BY <2>1, <2>2, GoesOn DEF Stays
  <2>4. io' = [io EXCEPT ![p] = both] \/ io' = [io EXCEPT ![p] = other]
    BY <1>5 DEF UserCalls
  <2>5. p \in alive /\ alive' = alive /\ channel' = channel
    BY <1>5 DEF UserCalls
  <2> HIDE DEF both, other
  <2>6. QED
    BY <1>3, <2>1, <2>3, <2>4, <2>5
<1>6. CASE AbortBeforeStart(p)
  <2> DEFINE s == Post(io[p], [kind |-> "SendAbort"])
  <2>1. Stays(io[p], s)
    BY <1>1, UserTaskStays DEF UserTask
  <2>2. /\ io' = [io EXCEPT ![p] = s]
        /\ p \in alive /\ alive' = alive /\ channel' = channel
    BY <1>6 DEF AbortBeforeStart
  <2> HIDE DEF s
  <2>3. QED
    BY <1>3, <2>1, <2>2
<1>7. CASE CompleteCommunicationReadyHandlerAsync(p)
  <2> DEFINE r == [io[p] EXCEPT !.ready = "Completed"]
             s == Post(r, [kind |-> "CompleteReady"])
  <2>1. Keeps(io[p], r) /\ r \in IoThread
    BY <1>1 DEF IoThread, Keeps
  <2>2. /\ r.todo = io[p].todo /\ r.state = io[p].state /\ r.barrier = io[p].barrier
        /\ r.subscribing = io[p].subscribing /\ r.expected = io[p].expected
    BY <1>1 DEF IoThread
  <2>3. Stays(io[p], r)
    BY <2>1, <2>2 DEF Stays, Goes, Moves, Halts
  <2>4. Stays(r, s)
    BY <2>1, UserTaskStays DEF UserTask
  <2>5. Stays(io[p], s)
    BY <2>3, <2>4, GoesOn DEF Stays
  <2>6. /\ io' = [io EXCEPT ![p] = s]
        /\ p \in alive /\ alive' = alive /\ channel' = channel
    BY <1>7 DEF CompleteCommunicationReadyHandlerAsync
  <2> HIDE DEF r, s
  <2>7. QED
    BY <1>3, <2>5, <2>6
<1>8. QED
  BY <1>2, <1>4, <1>5, <1>6, <1>7

LEMMA LeaveHolds ==
  ASSUME BarrierInv, TypeOK', NEW p \in Participant, Leave(p)
  PROVE  BarrierInv' /\ AllJustified
<1>1. io' = io /\ alive' = alive \ {p} /\ alive \subseteq Participant
  BY DEF Leave, BarrierInv, TypeOK
<1>2. \A a, b \in alive' : channel'[a][b] = channel[a][b]
  BY <1>1 DEF Leave
<1>3. ASSUME NEW a \in alive', NEW b \in alive', a # b
      PROVE  /\ b \in io'[a].peers
             /\ \A m \in Elements(channel'[a][b]) : m.kind # "PeerShutdown"
             /\ PairStart(a, b, io'[a], io'[b], channel'[a][b], channel'[b][a])
  BY <1>1, <1>2, <1>3 DEF BarrierInv
<1>4. \A a \in Participant : a \notin io'[a].peers /\ OwnStart(io'[a])
  BY <1>1 DEF BarrierInv
<1>5. BarrierInv'
  BY <1>3, <1>4 DEF BarrierInv
<1>6. QED
  BY <1>1, <1>5 DEF AllJustified, Justified, Onward

\* The last acknowledge of a subscription arrives only after the barrier.
LEMMA AsyncSubscriptionsCompletedHolds ==
  ASSUME BarrierInv, TypeOK', NEW p \in Participant, AsyncSubscriptionsCompleted(p)
  PROVE  BarrierInv' /\ AllJustified
<1> DEFINE r == [io[p] EXCEPT !.subscribing = FALSE]
<1>1. io[p] \in IoThread /\ OwnStart(io[p]) /\ io[p].state \notin Early
  BY DEF BarrierInv, TypeOK, AsyncSubscriptionsCompleted, OwnStart
<1>2. Keeps(io[p], r) /\ r \in IoThread /\ r.state = io[p].state /\ r.todo = io[p].todo
  BY <1>1 DEF IoThread, Keeps
<1>3. Goes(io[p], r)
  BY <1>1, <1>2 DEF Goes, Moves
<1>4. PICK throws \in Throws(p) : io' = [io EXCEPT ![p] = SubscriptionsComplete(p, r, throws)]
  BY DEF AsyncSubscriptionsCompleted
<1>5. Goes(r, SubscriptionsComplete(p, r, throws))
  BY <1>2, SubscriptionsCompleteGoes
<1>6. Goes(io[p], SubscriptionsComplete(p, r, throws))
  BY <1>3, <1>5, GoesOn
<1>7. Advances(p, io[p], SubscriptionsComplete(p, r, throws))
  BY <1>1, <1>6, GoesAdvances DEF Early
<1>8. p \in alive /\ alive' = alive /\ channel' = channel
  BY DEF AsyncSubscriptionsCompleted, Runs
<1> HIDE DEF r
<1>9. QED
  BY <1>4, <1>7, <1>8, AdvanceHolds

\* What the task of p sends to a connected q.
LEMMA SendsToPeer ==
  ASSUME TypeOK, NEW p \in Participant, NEW q \in io[p].peers \cap alive, NEW task \in Task
  PROVE  /\ \A a \in Participant \ {p} : Sends(p, task)[a] = channel[a]
         /\ task.kind \in {"Status", "Call"} =>
               task \in Message /\ Sends(p, task)[p][q] = Append(channel[p][q], task)
         /\ task.kind \notin {"Status", "Call"} =>
               \/ Sends(p, task)[p][q] = channel[p][q]
               \/ \E m \in Message :
                      /\ m.kind \notin {"Status", "Call", "PeerShutdown"}
                      /\ IsReturn(m) => IsReturn(task) /\ task.to = q
                      /\ Sends(p, task)[p][q] = Append(channel[p][q], m)
<1>0. q \in Participant
  BY DEF TypeOK
<1>1. ASSUME NEW to, NEW m
      PROVE  /\ \A a \in Participant \ {p} : Sent(p, to, m)[a] = channel[a]
             /\ q \in to => Sent(p, to, m)[p][q] = Append(channel[p][q], m)
             /\ q \notin to => Sent(p, to, m)[p][q] = channel[p][q]
  BY <1>0 DEF Sent, TypeOK
<1>2. CASE task.kind \in {"Status", "Call"}
  <2>1. task \in Message
    BY <1>2 DEF Task, Message, UserTask
  <2>2. Sends(p, task) = Sent(p, io[p].peers, task)
    BY <1>2 DEF Sends
  <2>3. QED
    BY <1>1, <1>2, <2>1, <2>2
<1>3. CASE task.kind = "Return"
  <2> DEFINE m == [kind |-> "Return", id |-> task.id]
  <2>1. m \in Message /\ m.kind = "Return" /\ m.id = task.id
    BY <1>3 DEF Task, Message, UserTask
  <2>2. Sends(p, task) = Sent(p, io[p].peers \cap {task.to}, m)
    BY <1>3 DEF Sends
  <2> HIDE DEF m
  <2>3. CASE q = task.to
    <3>1. IsReturn(m) => IsReturn(task)
      BY <1>3, <2>1 DEF IsReturn
    <3>2. /\ Sends(p, task)[p][q] = Append(channel[p][q], m)
          /\ \A a \in Participant \ {p} : Sends(p, task)[a] = channel[a]
      <4> DEFINE to == io[p].peers \cap {task.to}
      <4>1. q \in to
        BY <2>3
      <4> HIDE DEF to
      <4>2. /\ Sent(p, to, m)[p][q] = Append(channel[p][q], m)
            /\ \A a \in Participant \ {p} : Sent(p, to, m)[a] = channel[a]
        BY <1>1, <4>1
      <4>3. QED
        BY <2>2, <4>2 DEF to
    <3>3. m.kind \notin {"Status", "Call", "PeerShutdown"}
      BY <2>1
    <3>4. QED
      BY <1>3, <2>1, <2>3, <3>1, <3>2, <3>3
  <2>4. CASE q # task.to
    BY <1>1, <1>3, <2>2, <2>4
  <2>5. QED
    BY <2>3, <2>4
<1>4. CASE task.kind = "SendAbort"
  <2> DEFINE m == [kind |-> "AbortSimulation"]
  <2>1. m \in Message /\ m.kind = "AbortSimulation" /\ ~IsReturn(m)
    BY DEF Message, IsReturn
  <2>2. Sends(p, task) = Sent(p, io[p].peers, m)
    BY <1>4 DEF Sends
  <2> HIDE DEF m
  <2>3. QED
    BY <1>1, <1>4, <2>1, <2>2
<1>5. CASE task.kind \notin {"Status", "Call", "Return", "SendAbort"}
  <2>1. Sends(p, task) = channel
    BY <1>5 DEF Sends
  <2>2. QED
    BY <1>5, <2>1
<1>6. QED
  BY <1>2, <1>3, <1>4, <1>5

LEMMA RunTaskHolds ==
  ASSUME BarrierInv, TypeOK', NEW p \in Participant, RunTask(p)
  PROVE  BarrierInv' /\ AllJustified
<1> DEFINE task == Head(io[p].todo)
           rest == [io[p] EXCEPT !.todo = Tail(@)]
<1>1. /\ io[p] \in IoThread /\ OwnStart(io[p]) /\ p \notin io[p].peers
      /\ io[p].todo \in Seq(Task) /\ io[p].todo # <<>>
      /\ p \in alive /\ alive \subseteq Participant /\ alive' = alive
  BY DEF BarrierInv, TypeOK, RunTask, Runs, IoThread
<1>2. task \in Task /\ Tail(io[p].todo) \in Seq(Task)
  BY <1>1
<1>3. /\ rest \in IoThread /\ rest.todo = Tail(io[p].todo) /\ rest.state = io[p].state
      /\ rest.barrier = io[p].barrier /\ rest.subscribing = io[p].subscribing
      /\ rest.peers = io[p].peers /\ rest.tracker = io[p].tracker
  BY <1>1, <1>2 DEF IoThread
<1>4. Elements(rest.todo) \subseteq Elements(io[p].todo) /\ task \in Elements(io[p].todo)
  BY <1>1, <1>3, ElementsTail
<1>5. PICK throws \in Throws(p), pending \in Pending(p) :
          io' = [io EXCEPT ![p] = AfterTask(p, rest, task, throws, pending)]
  BY DEF RunTask
<1>6. channel' = Sends(p, task)
  BY DEF RunTask
<1> DEFINE s == AfterTask(p, rest, task, throws, pending)
<1>7. OwnStart(rest) /\ (rest.state = "Invalid" => ~IsBarrier(task))
  BY <1>1, <1>3, <1>4 DEF OwnStart, Silent, OnlyServicesCreated, IsBarrier
<1> HIDE DEF rest
<1>8. Advances(p, rest, s)
  BY <1>2, <1>3, <1>7, PendingType, AfterTaskStart
<1>9. Justified(p, s)
  BY <1>3, <1>8 DEF Advances, Justified
<1> HIDE DEF s
<1>10. ASSUME NEW q \in alive \ {p}
       PROVE  /\ PairStart(p, q, s, io[q], channel'[p][q], channel'[q][p])
              /\ PairStart(q, p, io[q], s, channel'[q][p], channel'[p][q])
              /\ \A m \in Elements(channel'[p][q]) : m.kind # "PeerShutdown"
              /\ \A m \in Elements(channel'[q][p]) : m.kind # "PeerShutdown"
  <2>1. q \in Participant /\ q \in io[p].peers /\ channel[p][q] \in Seq(Message)
    BY <1>1 DEF BarrierInv, TypeOK
  <2>2. /\ PairStart(p, q, io[p], io[q], channel[p][q], channel[q][p])
        /\ PairStart(q, p, io[q], io[p], channel[q][p], channel[p][q])
    BY <1>1 DEF BarrierInv
  <2>3. /\ \A m \in Elements(channel[p][q]) : m.kind # "PeerShutdown"
        /\ \A m \in Elements(channel[q][p]) : m.kind # "PeerShutdown"
    BY <1>1 DEF BarrierInv
  <2>4. q \in io[p].peers \cap alive
    BY <2>1
  <2>5. channel'[q] = channel[q]
    BY <1>2, <1>6, <2>1, <2>4, SendsToPeer DEF BarrierInv
  <2>6. IF task.kind \in {"Status", "Call"}
        THEN task \in Message /\ channel'[p][q] = Append(channel[p][q], task)
        ELSE \/ channel'[p][q] = channel[p][q]
             \/ \E m \in Message :
                    /\ m.kind \notin {"Status", "Call", "PeerShutdown"}
                    /\ IsReturn(m) => IsReturn(task) /\ task.to = q
                    /\ channel'[p][q] = Append(channel[p][q], m)
    BY <1>2, <1>6, <2>4, SendsToPeer DEF BarrierInv
  <2>7. \A m \in Message : Elements(Append(channel[p][q], m)) = Elements(channel[p][q]) \cup {m}
    BY <2>1, ElementsAppend
  <2>8. \A m \in Elements(channel'[p][q]) :
            \/ m \in Elements(channel[p][q])
            \/ m.kind # "PeerShutdown" /\ (IsReturn(m) => IsReturn(task) /\ task.to = q)
    <3> HIDE DEF task
    <3>1. CASE task.kind \in {"Status", "Call"}
      BY <2>6, <2>7, <3>1 DEF IsReturn
    <3>2. CASE channel'[p][q] = channel[p][q]
      BY <3>2
    <3>3. ASSUME NEW m \in Message, m.kind # "PeerShutdown",
                 IsReturn(m) => IsReturn(task) /\ task.to = q,
                 channel'[p][q] = Append(channel[p][q], m)
          PROVE  \A n \in Elements(channel'[p][q]) :
                     \/ n \in Elements(channel[p][q])
                     \/ n.kind # "PeerShutdown" /\ (IsReturn(n) => IsReturn(task) /\ task.to = q)
      BY <2>7, <3>3
    <3>4. QED
      BY <2>6, <3>1, <3>2, <3>3
  <2>9. PairStart(p, q, rest, io[q], channel'[p][q], channel[q][p])
    <3>1. IF task.kind \in {"Status", "Call"}
          THEN task \in Message /\ channel'[p][q] = Append(channel[p][q], task)
          ELSE \/ channel'[p][q] = channel[p][q]
               \/ \E m \in Message : /\ m.kind \notin {"Status", "Call"}
                                     /\ channel'[p][q] = Append(channel[p][q], m)
      BY <2>6
    <3>2. QED
      BY <1>1, <2>1, <2>2, <3>1, TaskTaken DEF rest
  <2>10. PairStart(p, q, s, io[q], channel'[p][q], channel[q][p])
    BY <1>3, <1>8, <2>1, <2>9 DEF Advances
  <2>11. /\ s.tracker.status[q] = io[p].tracker.status[q]
         /\ \A t \in Elements(s.todo) : IsReturn(t) /\ t.to = q => t \in Elements(io[p].todo)
    BY <1>3, <1>4, <1>8, <2>1 DEF Advances, SameToOthers, AddsNoReply, IsReturn
  <2>12. \A m \in Elements(channel'[p][q]) : IsReturn(m) =>
             m \in Elements(channel[p][q])
               \/ \E t \in Elements(io[p].todo) : IsReturn(t) /\ t.to = q
    BY <1>4, <2>8
  <2>13. PairStart(q, p, io[q], s, channel[q][p], channel'[p][q])
    BY <2>2, <2>11, <2>12, PairPeer
  <2>14. QED
    BY <2>3, <2>5, <2>8, <2>10, <2>13
<1>11. \A a, b \in alive \ {p} : channel'[a][b] = channel[a][b]
  <2> TAKE a, b \in alive \ {p}
  <2>1. a \in io[p].peers \cap alive /\ a \in Participant
    BY <1>1 DEF BarrierInv
  <2>2. QED
    BY <1>2, <1>6, <2>1, SendsToPeer DEF BarrierInv
<1>12. s.peers = io[p].peers /\ OwnStart(s) /\ \A q \in alive \ {p} : q \in s.peers
  BY <1>1, <1>3, <1>8 DEF Advances, SameToOthers, BarrierInv
<1>13. io' = [io EXCEPT ![p] = s]
  BY <1>5 DEF s
<1>14. QED
  BY <1>1, <1>9, <1>10, <1>11, <1>12, <1>13, StepHolds

LEMMA TakenFacts ==
  ASSUME BarrierInv, NEW p \in Participant, NEW q \in Participant \ {p}, NEW kind,
         Takes(p, q, kind)
  PROVE  /\ p \in alive /\ p \notin io[p].peers /\ alive \ {p} \subseteq io[p].peers
         /\ io[p] \in IoThread /\ OwnStart(io[p])
         /\ channel[q][p] \in Seq(Message) /\ channel[q][p] # <<>>
         /\ Head(channel[q][p]) \in Elements(channel[q][p]) \cap Message
         /\ Head(channel[q][p]).kind = kind
         /\ Elements(Tail(channel[q][p])) \subseteq Elements(channel[q][p])
         /\ channel' = [channel EXCEPT ![q][p] = Tail(@)]
         /\ q \in alive =>
               /\ kind # "PeerShutdown"
               /\ PairStart(p, q, io[p], io[q], channel[p][q], channel[q][p])
               /\ PairStart(q, p, io[q], io[p], channel[q][p], channel[p][q])
<1>1. /\ channel[q][p] \in Seq(Message) /\ channel[q][p] # <<>>
      /\ Head(channel[q][p]).kind = kind /\ p \in alive
      /\ channel' = [channel EXCEPT ![q][p] = Tail(@)]
  BY DEF BarrierInv, TypeOK, Takes, Runs
<1>2. /\ Elements(Tail(channel[q][p])) \subseteq Elements(channel[q][p])
      /\ Head(channel[q][p]) \in Elements(channel[q][p])
  BY <1>1, ElementsTail
<1>3. Head(channel[q][p]) \in Message
  BY <1>1
<1>4. /\ p \notin io[p].peers /\ alive \ {p} \subseteq io[p].peers
      /\ io[p] \in IoThread /\ OwnStart(io[p])
  BY <1>1 DEF BarrierInv, TypeOK
<1>5. ASSUME q \in alive
      PROVE  /\ kind # "PeerShutdown"
             /\ PairStart(p, q, io[p], io[q], channel[p][q], channel[q][p])
             /\ PairStart(q, p, io[q], io[p], channel[q][p], channel[p][q])
  BY <1>1, <1>2, <1>5 DEF BarrierInv
<1>6. QED
  BY <1>1, <1>2, <1>3, <1>4, <1>5

LEMMA ReceiveParticipantStatusHolds ==
  ASSUME BarrierInv, TypeOK', NEW p \in Participant, NEW q \in Participant \ {p},
         ReceiveParticipantStatus(p, q)
  PROVE  BarrierInv' /\ AllJustified
<1> DEFINE m == Head(channel[q][p])
<1>1. Takes(p, q, "Status") /\ alive' = alive
  BY DEF ReceiveParticipantStatus
<1>2. PICK throws \in Throws(p), pending \in Pending(p) :
          io' = [io EXCEPT ![p] = ReceiveStatus(p, io[p], q, m.state, throws, pending)]
  BY DEF ReceiveParticipantStatus
<1> DEFINE s == ReceiveStatus(p, io[p], q, m.state, throws, pending)
<1>3. m.state \in ParticipantState /\ io[p].tracker \in Tracker
  BY <1>1, TakenFacts, StatusMessage DEF IoThread
<1>4. StaysTracking(io[p], s, UpdateParticipantStatus(io[p].tracker, q, m.state))
  BY <1>1, <1>3, TakenFacts, PendingType, ReceiveStatusStays
<1> HIDE DEF s
<1>5. /\ \A x \in Participant \ {q} : s.tracker.status[x] = io[p].tracker.status[x]
      /\ io[p].tracker.status[q] # "Shutdown" => s.tracker.status[q] = m.state
  BY <1>3, <1>4, UpdatedStatus DEF StaysTracking, Tracks
<1>6. OwnStart(s) /\ s.peers = io[p].peers /\ Justified(p, s)
  BY <1>1, <1>4, TakenFacts, OwnMoves DEF StaysTracking, Tracks, Justified, Halts, Onward
<1>7. \A t \in Elements(s.todo) : IsReturn(t) => t \in Elements(io[p].todo)
  BY <1>4 DEF StaysTracking, Moves, IsReturn
<1>8. \A x \in alive \ {p} :
          PairStart(p, x, io[p], io[x], channel[p][x], channel[x][p])
            => PairStart(p, x, s, io[x], channel[p][x], channel[x][p])
  BY <1>4, PairMoves DEF StaysTracking
<1>9. ASSUME q \in alive
      PROVE  PairStart(q, p, io[q], s, Tail(channel[q][p]), channel[p][q])
  <2>1. /\ PairStart(q, p, io[q], io[p], channel[q][p], channel[p][q])
        /\ m \in Elements(channel[q][p]) /\ m.kind = "Status"
        /\ Elements(Tail(channel[q][p])) \subseteq Elements(channel[q][p])
    BY <1>1, <1>9, TakenFacts
  <2> HIDE DEF m
  <2>2. io[q].state # "Invalid"
    BY <2>1 DEF PairStart, Silent
  <2>3. ASSUME io[q].state = "ServicesCreated"
        PROVE  s.tracker.status[q] = "ServicesCreated"
    BY <1>5, <2>1, <2>3 DEF PairStart, OnlyServicesCreated
  <2>4. QED
    BY <2>1, <2>2, <2>3, PairTold
<1>10. p \in alive /\ channel[q][p] # <<>> /\ channel' = [channel EXCEPT ![q][p] = Tail(@)]
       /\ p \notin s.peers /\ alive \ {p} \subseteq s.peers
  BY <1>1, <1>6, TakenFacts
<1>11. \A x \in alive \ {p, q} : s.tracker.status[x] = io[p].tracker.status[x]
  BY <1>5 DEF BarrierInv, TypeOK
<1>12. io' = [io EXCEPT ![p] = s]
  BY <1>2 DEF s
<1>13. QED
  BY <1>1, <1>6, <1>7, <1>8, <1>9, <1>10, <1>11, <1>12, ReceiveHolds

\* The call comes after the status, which p has handled before.
LEMMA ReceiveCallHolds ==
  ASSUME BarrierInv, TypeOK', NEW p \in Participant, NEW q \in Participant \ {p},
         ReceiveCall(p, q)
  PROVE  BarrierInv' /\ AllJustified
<1> DEFINE m == Head(channel[q][p])
           task == [kind |-> "Return", id |-> m.id, to |-> q]
           s == Post(io[p], task)
<1>1. Takes(p, q, "Call") /\ alive' = alive /\ io' = [io EXCEPT ![p] = s]
  BY DEF ReceiveCall
<1>2. io[p] \in IoThread /\ task \in Task /\ io[p].todo \in Seq(Task)
  <2>1. m.id \in Barrier
    BY <1>1, TakenFacts, BarrierMessage
  <2>2. QED
    BY <1>1, <2>1, TakenFacts DEF Task, IoThread
<1>3. /\ s.todo = Append(io[p].todo, task) /\ s.state = io[p].state
      /\ s.barrier = io[p].barrier /\ s.expected = io[p].expected
      /\ s.subscribing = io[p].subscribing /\ s.peers = io[p].peers
      /\ s.tracker = io[p].tracker
  BY <1>2 DEF Post, IoThread
<1>4. task.kind = "Return" /\ task.to = q /\ task.id = m.id
  OBVIOUS
<1> HIDE DEF s, task
<1>5. Elements(s.todo) = Elements(io[p].todo) \cup {task}
  BY <1>2, <1>3, ElementsAppend
<1>6. Announces(io[p].todo) => Announces(s.todo)
  BY <1>2, <1>3, AnnouncesAppend
<1>7. OwnStart(s) /\ Justified(p, s)
  BY <1>1, <1>3, <1>4, <1>5, TakenFacts
     DEF OwnStart, Silent, OnlyServicesCreated, IsCall, Justified, Onward
<1>8. \A x \in alive \ {p} :
          PairStart(p, x, io[p], io[x], channel[p][x], channel[x][p])
            => PairStart(p, x, s, io[x], channel[p][x], channel[x][p])
  BY <1>3, <1>6 DEF PairStart, OnItsWay
<1>9. \A t \in Elements(s.todo) : IsReturn(t) /\ t.to # q => t \in Elements(io[p].todo)
  BY <1>4, <1>5
<1>10. ASSUME q \in alive
       PROVE  PairStart(q, p, io[q], s, Tail(channel[q][p]), channel[p][q])
  <2>1. /\ PairStart(q, p, io[q], io[p], channel[q][p], channel[p][q])
        /\ channel[q][p] \in Seq(Message) /\ channel[q][p] # <<>>
        /\ m \in Elements(channel[q][p]) /\ m.kind = "Call"
        /\ Elements(Tail(channel[q][p])) \subseteq Elements(channel[q][p])
    BY <1>1, <1>10, TakenFacts
  <2>2. CASE IsCall(m)
    <3>1. ~Announces(channel[q][p])
      BY <2>1, <2>2, AnnouncesTail
    <3>2. ~OnItsWay(io[q], channel[q][p])
      BY <2>1, <2>2, <3>1 DEF OnItsWay
    <3>3. io[q].state # "Invalid"
      BY <2>1, <2>2 DEF PairStart, Silent
    <3>4. io[q].state = "ServicesCreated" => s.tracker.status[q] = "ServicesCreated"
      BY <1>3, <2>1, <3>2 DEF PairStart
    <3>5. QED
      BY <2>1, <3>3, <3>4, PairTold
  <2>3. CASE ~IsCall(m)
    <3>1. PairStart(q, p, io[q], io[p], Tail(channel[q][p]), channel[p][q])
      BY <2>1, <2>3, PairTaken
    <3>2. ~IsReturn(task)
      BY <1>4, <2>1, <2>3 DEF IsReturn, IsCall
    <3>3. QED
      BY <1>3, <1>5, <3>1, <3>2, PairPeer
  <2>4. QED
    BY <2>2, <2>3
<1>11. p \in alive /\ channel[q][p] # <<>> /\ channel' = [channel EXCEPT ![q][p] = Tail(@)]
       /\ p \notin s.peers /\ alive \ {p} \subseteq s.peers
  BY <1>1, <1>3, TakenFacts
<1>12. QED
  BY <1>1, <1>3, <1>7, <1>8, <1>9, <1>10, <1>11, ReceiveHolds

\* A message that does not concern the start.
LEMMA OtherHolds ==
  ASSUME BarrierInv, TypeOK', NEW p \in Participant, NEW q \in Participant \ {p}, NEW kind,
         kind \notin {"Status", "Call"}, Takes(p, q, kind), alive' = alive,
         NEW s, io' = [io EXCEPT ![p] = s], Stays(io[p], s)
  PROVE  BarrierInv' /\ AllJustified
<1>1. /\ p \in alive /\ channel[q][p] # <<>> /\ channel' = [channel EXCEPT ![q][p] = Tail(@)]
      /\ p \notin s.peers /\ alive \ {p} \subseteq s.peers
  BY TakenFacts DEF Stays, Goes, Keeps
<1>2. OwnStart(s) /\ Justified(p, s) /\ s.tracker = io[p].tracker
  BY TakenFacts, OwnMoves DEF Stays, Goes, Keeps, Justified, Halts, Onward
<1>3. \A t \in Elements(s.todo) : IsReturn(t) => t \in Elements(io[p].todo)
  BY DEF Stays, Goes, Moves, IsReturn
<1>4. \A x \in alive \ {p} :
          PairStart(p, x, io[p], io[x], channel[p][x], channel[x][p])
            => PairStart(p, x, s, io[x], channel[p][x], channel[x][p])
  BY PairMoves DEF Stays, Goes
<1>5. ASSUME q \in alive
      PROVE  PairStart(q, p, io[q], s, Tail(channel[q][p]), channel[p][q])
  <2>1. /\ PairStart(q, p, io[q], io[p], channel[q][p], channel[p][q])
        /\ channel[q][p] \in Seq(Message) /\ Head(channel[q][p]).kind = kind
    BY <1>5, TakenFacts
  <2>2. PairStart(q, p, io[q], io[p], Tail(channel[q][p]), channel[p][q])
    BY <1>1, <2>1, PairTaken DEF IsCall
  <2>3. QED
    BY <1>2, <1>3, <2>2, PairPeer
<1>6. QED
  BY <1>1, <1>2, <1>3, <1>4, <1>5, ReceiveHolds

LEMMA ReceiveAbortSimulationHolds ==
  ASSUME BarrierInv, TypeOK', NEW p \in Participant, NEW q \in Participant \ {p},
         ReceiveAbortSimulation(p, q)
  PROVE  BarrierInv' /\ AllJustified
<1> DEFINE s == Post(io[p], [kind |-> "Abort"])
<1>1. Takes(p, q, "AbortSimulation") /\ alive' = alive
  BY DEF ReceiveAbortSimulation
<1>2. Stays(io[p], s) /\ Stays(io[p], io[p])
  BY <1>1, TakenFacts, UserTaskStays, StaysSame DEF UserTask
<1>3. io' = [io EXCEPT ![p] = s] \/ io' = [io EXCEPT ![p] = io[p]]
  BY DEF ReceiveAbortSimulation, BarrierInv, TypeOK
<1> HIDE DEF s
<1>4. QED
  BY <1>1, <1>2, <1>3, OtherHolds

\* The reply of q says that it has handled the call, and so the status before it.
LEMMA ReceiveReturnHolds ==
  ASSUME BarrierInv, TypeOK', NEW p \in Participant, NEW q \in Participant \ {p},
         ReceiveReturn(p, q)
  PROVE  BarrierInv' /\ AllJustified
<1> DEFINE m == Head(channel[q][p])
<1>1. Takes(p, q, "Return") /\ alive' = alive
  BY DEF ReceiveReturn
<1>2. m.id \in Barrier
  BY <1>1, TakenFacts, BarrierMessage
<1>3. PICK throws \in Throws(p), pending \in Pending(p) :
          io' = [io EXCEPT ![p] = ReceiveCallReturn(p, io[p], q, m.id, throws, pending)]
  BY DEF ReceiveReturn
<1> DEFINE s == ReceiveCallReturn(p, io[p], q, m.id, throws, pending)
<1>4. /\ SameToOthers(p, io[p], s)
      /\ OwnStart(s)
      /\ io[p].state = "ServicesCreated" /\ s.state \in Onward
           => m.id = "ServicesCreated" /\ io[p].barrier = m.id /\ io[p].expected \subseteq {q}
      /\ \A x, u, sent, replies :
             PairStart(p, x, io[p], u, sent, replies)
               /\ (x = q /\ m.id = "ServicesCreated" /\ io[p].state = m.id
                     => u.tracker.status[p] = m.id)
               => PairStart(p, x, s, u, sent, replies)
  BY <1>1, <1>2, TakenFacts, PendingType, ReceiveCallReturnStart
<1> HIDE DEF s
<1>5. ASSUME q \in alive, m.id = "ServicesCreated", io[p].state = "ServicesCreated"
      PROVE  io[q].tracker.status[p] = "ServicesCreated"
  <2>1. /\ PairStart(p, q, io[p], io[q], channel[p][q], channel[q][p])
        /\ m \in Elements(channel[q][p]) /\ m.kind = "Return"
    BY <1>1, <1>5, TakenFacts
  <2>2. Replied(p, io[q], channel[q][p])
    BY <1>5, <2>1 DEF Replied, IsReturn
  <2>3. QED
    BY <1>5, <2>1, <2>2 DEF PairStart
<1> HIDE DEF m
<1>6. \A x \in alive \ {p} :
          PairStart(p, x, io[p], io[x], channel[p][x], channel[x][p])
            => PairStart(p, x, s, io[x], channel[p][x], channel[x][p])
  BY <1>4, <1>5
<1>7. Justified(p, s)
  <2> SUFFICES ASSUME io[p].state = "ServicesCreated", s.state \in Onward,
                      NEW x \in io[p].peers \cap alive
               PROVE  io[x].tracker.status[p] = "ServicesCreated"
    BY DEF Justified
  <2>1. x # p /\ p \in alive
    BY <1>1, TakenFacts
  <2>2. PairStart(p, x, io[p], io[x], channel[p][x], channel[x][p])
    BY <2>1 DEF BarrierInv
  <2>3. CASE x = q
    BY <1>4, <1>5, <2>3
  <2>4. CASE x # q
    BY <1>4, <2>2, <2>4 DEF PairStart
  <2>5. QED
    BY <2>3, <2>4
<1>8. /\ \A t \in Elements(s.todo) : IsReturn(t) => t \in Elements(io[p].todo)
      /\ s.peers = io[p].peers
      /\ \A x \in alive \ {p} : s.tracker.status[x] = io[p].tracker.status[x]
  BY <1>4 DEF SameToOthers, AddsNoReply, IsReturn, BarrierInv, TypeOK
<1>9. ASSUME q \in alive
      PROVE  PairStart(q, p, io[q], s, Tail(channel[q][p]), channel[p][q])
  <2>1. /\ PairStart(q, p, io[q], io[p], channel[q][p], channel[p][q])
        /\ channel[q][p] \in Seq(Message) /\ channel[q][p] # <<>>
        /\ Head(channel[q][p]).kind = "Return"
    BY <1>1, <1>9, TakenFacts
  <2>2. PairStart(q, p, io[q], io[p], Tail(channel[q][p]), channel[p][q])
    BY <2>1, PairTaken DEF IsCall
  <2>3. QED
    BY <1>8, <1>9, <2>2, PairPeer
<1>10. p \in alive /\ channel[q][p] # <<>> /\ channel' = [channel EXCEPT ![q][p] = Tail(@)]
       /\ p \notin s.peers /\ alive \ {p} \subseteq s.peers
  BY <1>1, <1>8, TakenFacts
<1>11. io' = [io EXCEPT ![p] = s]
  BY <1>3 DEF s, m
<1>12. QED
  BY <1>1, <1>4, <1>6, <1>7, <1>8, <1>9, <1>10, <1>11, ReceiveHolds

\* q has left: its reply is made up, and it needs to know nothing any more.
LEMMA PeerShutdownHolds ==
  ASSUME BarrierInv, TypeOK', NEW p \in Participant, NEW q \in Participant \ {p},
         PeerShutdown(p, q)
  PROVE  BarrierInv' /\ AllJustified
<1>1. Takes(p, q, "PeerShutdown") /\ alive' = alive
  BY DEF PeerShutdown
<1>2. /\ q \notin alive /\ p \in alive /\ channel[q][p] # <<>>
      /\ channel' = [channel EXCEPT ![q][p] = Tail(@)]
      /\ io[p] \in IoThread /\ OwnStart(io[p])
      /\ p \notin io[p].peers /\ alive \ {p} \subseteq io[p].peers
  BY <1>1, TakenFacts
<1>3. CASE io' = io
  <2>1. io' = [io EXCEPT ![p] = io[p]]
    BY <1>3 DEF BarrierInv, TypeOK
  <2>2. QED
    BY <1>1, <1>2, <2>1, StaysSame, OtherHolds
<1>4. ASSUME NEW throws, NEW pending \in BOOLEAN, NEW any \in AnyRequired(q),
             io' = [io EXCEPT ![p] = [Removed(p, q, any, throws, pending) EXCEPT
                                         !.peers = @ \ {q}]]
      PROVE  BarrierInv' /\ AllJustified
  <2> DEFINE replied == ReceiveCallReturn(p, io[p], q, io[p].barrier, throws, pending)
             removed == Removed(p, q, any, throws, pending)
             s == [removed EXCEPT !.peers = @ \ {q}]
  <2>0. any \in Participant /\ io[p].barrier \in Barrier \cup {"None"}
    BY <1>2, AnyRequiredType DEF IoThread
  <2>1. /\ SameToOthers(p, io[p], replied)
        /\ OwnStart(replied)
        /\ io[p].state = "ServicesCreated" /\ replied.state \in Onward
             => io[p].barrier = "ServicesCreated" /\ io[p].expected \subseteq {q}
        /\ \A x, u, sent, replies :
               PairStart(p, x, io[p], u, sent, replies) /\ x # q
                 => PairStart(p, x, replied, u, sent, replies)
    <3> DEFINE id == io[p].barrier
    <3>1. id \in Barrier \cup {"None"}
      BY <2>0
    <3> HIDE DEF id
    <3>2. LET v == ReceiveCallReturn(p, io[p], q, id, throws, pending)
          IN  /\ SameToOthers(p, io[p], v)
              /\ OwnStart(v)
              /\ io[p].state = "ServicesCreated" /\ v.state \in Onward
                   => id = "ServicesCreated" /\ io[p].barrier = id /\ io[p].expected \subseteq {q}
              /\ \A x, u, sent, replies :
                     PairStart(p, x, io[p], u, sent, replies)
                       /\ (x = q /\ id = "ServicesCreated" /\ io[p].state = id
                             => u.tracker.status[p] = id)
                       => PairStart(p, x, v, u, sent, replies)
      BY <1>2, <3>1, ReceiveCallReturnStart
    <3>3. replied = ReceiveCallReturn(p, io[p], q, id, throws, pending)
      BY DEF id
    <3> HIDE DEF replied
    <3>4. QED
      BY <3>2, <3>3
  <2>2. removed = OnParticipantDisconnected(p, replied, q, any, throws, pending)
    BY DEF Removed
  <2> HIDE DEF replied, removed
  <2>3. StaysTracking(replied, removed,
                      RemoveParticipant(Marked(replied.tracker, q), q, any))
    BY <2>0, <2>1, <2>2, OnParticipantDisconnectedStays DEF SameToOthers
  <2>4. /\ s.state = removed.state /\ s.todo = removed.todo /\ s.barrier = removed.barrier
        /\ s.expected = removed.expected /\ s.subscribing = removed.subscribing
        /\ s.tracker = removed.tracker /\ s.peers = io[p].peers \ {q}
    BY <2>1, <2>3 DEF StaysTracking, Tracks, SameToOthers, IoThread
  <2> HIDE DEF s
  <2>5. OwnStart(s)
    <3>1. OwnStart(removed)
      BY <2>1, <2>3, OwnMoves DEF StaysTracking
    <3>2. QED
      BY <2>4, <3>1 DEF OwnStart
  <2>6. \A x \in alive \ {p} : s.tracker.status[x] = io[p].tracker.status[x]
    <3> TAKE x \in alive \ {p}
    <3>1. x \in Participant \ {p, q}
      BY <1>2 DEF BarrierInv, TypeOK
    <3>2. replied.tracker \in Tracker /\ replied.tracker.status[x] = io[p].tracker.status[x]
      BY <2>1, <3>1 DEF SameToOthers, IoThread
    <3>3. RemoveParticipant(Marked(replied.tracker, q), q, any).status[x]
            = replied.tracker.status[x]
      BY <2>0, <3>1, <3>2, RemovedStatus
    <3>4. QED
      BY <2>3, <2>4, <3>2, <3>3 DEF StaysTracking, Tracks
  <2>7. \A t \in Elements(s.todo) : IsReturn(t) => t \in Elements(io[p].todo)
    BY <2>1, <2>3, <2>4 DEF StaysTracking, Moves, SameToOthers, AddsNoReply, IsReturn
  <2>8. \A x \in alive \ {p} :
            PairStart(p, x, io[p], io[x], channel[p][x], channel[x][p])
              => PairStart(p, x, s, io[x], channel[p][x], channel[x][p])
    <3> TAKE x \in alive \ {p}
    <3> HAVE PairStart(p, x, io[p], io[x], channel[p][x], channel[x][p])
    <3>1. PairStart(p, x, replied, io[x], channel[p][x], channel[x][p])
      BY <1>2, <2>1
    <3>2. PairStart(p, x, removed, io[x], channel[p][x], channel[x][p])
      BY <2>3, <3>1, PairMoves DEF StaysTracking
    <3>3. QED
      BY <2>4, <3>2 DEF PairStart, OnItsWay
  <2>9. Justified(p, s)
    <3> SUFFICES ASSUME io[p].state = "ServicesCreated", s.state \in Onward,
                        NEW x \in io[p].peers \cap alive
                 PROVE  io[x].tracker.status[p] = "ServicesCreated"
      BY DEF Justified
    <3>1. replied.state \in Onward
      BY <2>3, <2>4 DEF StaysTracking, Halts
    <3>2. PairStart(p, x, io[p], io[x], channel[p][x], channel[x][p]) /\ x # q
      BY <1>2 DEF BarrierInv
    <3>3. QED
      BY <2>1, <3>1, <3>2 DEF PairStart
  <2>10. io' = [io EXCEPT ![p] = s] /\ p \notin s.peers /\ alive \ {p} \subseteq s.peers
    BY <1>2, <1>4, <2>4 DEF s, removed
  <2>11. QED
    BY <1>1, <1>2, <2>5, <2>6, <2>7, <2>8, <2>9, <2>10, ReceiveHolds
<1>5. QED
  BY <1>3, <1>4, PeerShutdownStep

-----------------------------------------------------------------------------
LEMMA BarrierInit == Init => BarrierInv
<1> SUFFICES ASSUME Init PROVE BarrierInv
  OBVIOUS
<1>1. TypeOK
  BY InitType
<1>2. Elements(<<>>) = {}
  BY DEF Elements
<1>3. \A p \in Participant :
          /\ io[p].state = "Invalid" /\ ~io[p].subscribing /\ io[p].barrier = "None"
          /\ io[p].todo = <<>> /\ io[p].peers = Participant \ {p}
          /\ \A q \in Participant : io[p].tracker.status[q] = "Unknown"
  BY DEF Init, EmptyTracker
<1>4. \A p, q \in Participant : channel[p][q] = <<>>
  BY DEF Init
<1>5. \A p \in Participant : OwnStart(io[p])
  BY <1>2, <1>3 DEF OwnStart, Silent
<1>6. \A p, q \in Participant : PairStart(p, q, io[p], io[q], channel[p][q], channel[q][p])
  BY <1>2, <1>3, <1>4 DEF PairStart, Silent, Replied
<1>7. QED
  BY <1>1, <1>2, <1>3, <1>4, <1>5, <1>6 DEF BarrierInv, Init

LEMMA BarrierNext == BarrierInv /\ [Next]_vars => BarrierInv' /\ [AllJustified]_vars
<1> SUFFICES ASSUME BarrierInv, [Next]_vars
             PROVE  BarrierInv' /\ (AllJustified \/ UNCHANGED vars)
  OBVIOUS
<1>1. TypeOK'
  BY NextType DEF BarrierInv
<1>2. CASE UNCHANGED vars
  BY <1>1, <1>2, UnchangedHolds DEF vars
<1>3. ASSUME NEW p \in Participant, NEW q \in Participant \ {p}, Receive(p, q)
      PROVE  BarrierInv' /\ AllJustified
  BY <1>1, <1>3, ReceiveParticipantStatusHolds, ReceiveCallHolds, ReceiveReturnHolds,
     ReceiveAbortSimulationHolds, PeerShutdownHolds DEF Receive
<1>4. CASE Next
  BY <1>1, <1>3, <1>4, UserHolds, LeaveHolds, RunTaskHolds,
     AsyncSubscriptionsCompletedHolds DEF Next
<1>5. QED
  BY <1>2, <1>4

(* Until a peer knows that a participant has created its services, that    *)
(* participant has no reply from it, waits for it if it waits at all, and  *)
(* its status is on the way to the peer before its call; of two connected  *)
(* participants, each knows the other (ParticipantReplies::                *)
(* CallAfterAllParticipantsReplied, after LifecycleManagement::SetState has *)
(* sent the status).                                                       *)
THEOREM BarrierHolds == Spec => []BarrierInv
<1>1. QED
  BY BarrierInit, BarrierNext, PTL DEF Spec

(* A participant goes on from ServicesCreated only when every connected    *)
(* peer has handled its status ServicesCreated                             *)
(* (ServicesCreatedState::ServicesCreated, ParticipantReplies).            *)
THEOREM ServicesKnownAtStart == Spec => StartsAfterReplies
<1> DEFINE Starts ==
             \A p \in Participant :
                 io[p].state = "ServicesCreated"
                   /\ io'[p].state \in {"CommunicationInitializing",
                                        "CommunicationInitialized", "ReadyToRun", "Running"}
                 => \A q \in io[p].peers \cap alive :
                        io[q].tracker.status[p] = "ServicesCreated"
<1>1. AllJustified => Starts
  BY DEF AllJustified, Justified, Onward
<1>2. BarrierInv /\ [Next]_vars => [Starts]_vars
  BY <1>1, BarrierNext
<1>3. QED
  BY <1>2, BarrierHolds, PTL DEF Spec, StartsAfterReplies
=============================================================================
