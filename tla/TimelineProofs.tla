--------------------------- MODULE TimelineProofs ---------------------------
(***************************************************************************)
(* Proofs about the times that participants announce to each other in      *)
(* TimeSync: what a peer knows of a participant never goes backwards and   *)
(* never beyond the step the participant may begin next. From this follow  *)
(* the time order of the steps and, for participants that start together,  *)
(* that TimeSync implements VirtualTime. For one that joins them later it  *)
(* follows what it knows of them when it begins its first step. Last come  *)
(* the dynamic step sizes, which peers switch on and off as they come and  *)
(* go: nobody that steps dynamically skips a step of the others.           *)
(***************************************************************************)
EXTENDS TimeSyncProofs

\* Participants that announce one time after the other. An asynchronous one
\* that is paused and continued within a step announces the step after it.
Steady == Participant \ (Async \cap MayPause)

\* The latest time p may have announced: that of the step it is executing, or
\* of the one it is going to execute.
Horizon(p) ==
    IF executing[p] /\ currentTask[p].timePoint >= 0 /\ p \notin MayPause
    THEN currentTask[p].timePoint
    ELSE myNextTime[p]

Horizons == [p \in Participant |-> Horizon(p)]

IsTask(m) == m.kind = "NextSimTask"

\* The tasks among the messages s of p are not beyond the time high; those of a
\* steady participant are in time order, from low on.
InOrder(s, p, low, high) ==
    /\ low <= high
    /\ \A i \in 1..Len(s) : IsTask(s[i]) =>
          s[i].timePoint <= high /\ (p \in Steady => low <= s[i].timePoint)
    /\ p \in Steady =>
          \A i, j \in 1..Len(s) : i < j /\ IsTask(s[i]) /\ IsTask(s[j]) =>
             s[i].timePoint <= s[j].timePoint

\* The channels ch are in order between what the receivers know, ot, and the
\* horizons hz of the senders.
Sound(ch, ot, hz) ==
    \A p, q \in Participant : InOrder(ch[p][q], p, ot[q][p].timePoint, hz[p])

\* What p keeps to itself: its next step lies ahead and only asynchronous steps
\* last.
OwnOrder(p) ==
    /\ currentTask[p].timePoint < myNextTime[p]
    /\ ~hopOnEvaluated[p] => myNextTime[p] = 0
    /\ executing[p] => p \in Async /\ state[p] \notin {"Down", "Initializing"}

\* Nothing is resumed that was not paused.
OnlyPaused(td) ==
    \A p \in Participant : \A i \in 1..Len(td[p]) :
       td[p][i] \in {"Pause", "Continue", "Request"} => p \in MayPause

PausedByUser ==
    /\ \A p \in Participant : pauseRequested[p] => p \in MayPause
    /\ OnlyPaused(todo)

TimelineInv ==
    /\ TypeOK
    /\ \A p \in Participant : OwnOrder(p)
    /\ PausedByUser
    /\ Sound(channel, otherNextTask, Horizons)

-----------------------------------------------------------------------------
(* The messages of one link.                                               *)

LEMMA TaskTime ==
  ASSUME NEW m \in Message, IsTask(m)
  PROVE  m.timePoint \in TimePoint /\ m.duration \in Nat
BY DEF IsTask, Message, NextSimTask, Signal, PeerShutdown

LEMMA EmptyInOrder ==
  ASSUME NEW p, NEW low \in TimePoint, NEW high \in Nat, low <= high
  PROVE  InOrder(<<>>, p, low, high)
BY DEF InOrder

LEMMA TailInOrder ==
  ASSUME NEW s \in Seq(Message), s # <<>>, NEW p,
         NEW low \in TimePoint, NEW high \in Nat, InOrder(s, p, low, high)
  PROVE  InOrder(Tail(s), p, low, high)
<1>1. Len(Tail(s)) = Len(s) - 1 /\ Len(s) \in Nat
  OBVIOUS
<1>2. \A i \in 1..Len(Tail(s)) : i + 1 \in 1..Len(s) /\ Tail(s)[i] = s[i + 1]
  BY <1>1
<1>3. ASSUME NEW i \in 1..Len(Tail(s)), NEW j \in 1..Len(Tail(s)), i < j
      PROVE  i + 1 < j + 1
  BY <1>1, <1>3
<1>4. QED
  BY <1>2, <1>3 DEF InOrder

(* A task that is received becomes what is known: later ones follow it.    *)
LEMMA LearnInOrder ==
  ASSUME NEW s \in Seq(Message), s # <<>>, IsTask(Head(s)), NEW p,
         NEW low \in TimePoint, NEW high \in Nat, InOrder(s, p, low, high)
  PROVE  InOrder(Tail(s), p, Head(s).timePoint, high)
<1>1. Len(Tail(s)) = Len(s) - 1 /\ Len(s) \in Nat /\ Len(s) >= 1 /\ Head(s) = s[1]
  OBVIOUS
<1>2. \A i \in 1..Len(Tail(s)) : i + 1 \in 1..Len(s) /\ 1 < i + 1 /\ Tail(s)[i] = s[i + 1]
  BY <1>1
<1>3. Head(s).timePoint <= high
  BY <1>1 DEF InOrder
<1>4. InOrder(Tail(s), p, low, high)
  BY TailInOrder
<1>5. ASSUME p \in Steady, NEW i \in 1..Len(Tail(s)), IsTask(Tail(s)[i])
      PROVE  Head(s).timePoint <= Tail(s)[i].timePoint
  <2>1. 1 \in 1..Len(s) /\ i + 1 \in 1..Len(s) /\ 1 < i + 1
    BY <1>1, <1>2
  <2>2. QED
    BY <1>1, <1>2, <1>5, <2>1 DEF InOrder
<1>6. QED
  BY <1>3, <1>4, <1>5 DEF InOrder

LEMMA ForgetInOrder ==
  ASSUME NEW s \in Seq(Message), NEW p,
         NEW low \in TimePoint, NEW high \in Nat, InOrder(s, p, low, high)
  PROVE  InOrder(s, p, -1, high)
<1>1. \A i \in 1..Len(s) : IsTask(s[i]) => s[i].timePoint \in TimePoint
  BY TaskTime
<1>2. QED
  BY <1>1 DEF InOrder, TimePoint

LEMMA RaiseInOrder ==
  ASSUME NEW s \in Seq(Message), NEW p, NEW low \in TimePoint,
         NEW high \in Nat, NEW higher \in Nat, high <= higher, InOrder(s, p, low, high)
  PROVE  InOrder(s, p, low, higher)
<1>1. \A i \in 1..Len(s) : IsTask(s[i]) => s[i].timePoint \in TimePoint
  BY TaskTime
<1>2. QED
  BY <1>1 DEF InOrder, TimePoint

(* A steady participant announces no time but its horizon.                 *)
LEMMA AppendInOrder ==
  ASSUME NEW s \in Seq(Message), NEW m \in Message, NEW p, NEW low \in TimePoint,
         NEW high \in Nat, InOrder(s, p, low, high),
         IsTask(m) => m.timePoint <= high /\ (p \in Steady => m.timePoint = high)
  PROVE  InOrder(Append(s, m), p, low, high)
<1> DEFINE t == Append(s, m)
<1>1. Len(t) = Len(s) + 1 /\ Len(s) \in Nat /\ t[Len(s) + 1] = m
  OBVIOUS
<1>2. \A i \in 1..Len(t) : i = Len(s) + 1 \/ (i \in 1..Len(s) /\ t[i] = s[i])
  BY <1>1
<1>3. ASSUME NEW i \in 1..Len(t), IsTask(t[i])
      PROVE  t[i].timePoint <= high /\ (p \in Steady => low <= t[i].timePoint)
  BY <1>1, <1>2, <1>3 DEF InOrder
<1>4. ASSUME p \in Steady, NEW i \in 1..Len(t), NEW j \in 1..Len(t), i < j,
             IsTask(t[i]), IsTask(t[j])
      PROVE  t[i].timePoint <= t[j].timePoint
  <2>1. i \in 1..Len(s) /\ t[i] = s[i]
    BY <1>1, <1>2, <1>4
  <2>2. CASE j = Len(s) + 1
    BY <1>1, <1>3, <1>4, <2>1, <2>2
  <2>3. CASE j \in 1..Len(s) /\ t[j] = s[j]
    BY <1>4, <2>1, <2>3 DEF InOrder
  <2>4. QED
    BY <1>2, <2>2, <2>3
<1>5. QED
  BY <1>3, <1>4 DEF InOrder
-----------------------------------------------------------------------------
(* All links.                                                              *)

Known == [Participant -> [Participant -> Task]]
Times == [Participant -> Nat]

LEMMA KnownTime ==
  ASSUME NEW ot \in Known, NEW p \in Participant, NEW q \in Participant
  PROVE  ot[q][p].timePoint \in TimePoint /\ ot[q][p].duration \in Nat
BY DEF Known, Task

LEMMA ChannelType ==
  ASSUME NEW ch \in Channels, NEW p \in Participant, NEW q \in Participant
  PROVE  ch[p][q] \in Seq(Message)
BY DEF Channels

(* Messages are appended to the links of one participant.                  *)
LEMMA SoundAppend ==
  ASSUME NEW ch \in Channels, NEW ch2 \in Channels, NEW ot \in Known, NEW hz \in Times,
         Sound(ch, ot, hz), NEW p \in Participant, NEW m \in Message,
         IsTask(m) => m.timePoint <= hz[p] /\ (p \in Steady => m.timePoint = hz[p]),
         \A a, b \in Participant :
            ch2[a][b] = ch[a][b] \/ (a = p /\ ch2[a][b] = Append(ch[a][b], m))
  PROVE  Sound(ch2, ot, hz)
<1> SUFFICES ASSUME NEW a \in Participant, NEW b \in Participant
             PROVE  InOrder(ch2[a][b], a, ot[b][a].timePoint, hz[a])
  BY DEF Sound
<1>1. InOrder(ch[a][b], a, ot[b][a].timePoint, hz[a])
  BY DEF Sound
<1>2. /\ ch[a][b] \in Seq(Message)
      /\ ot[b][a].timePoint \in TimePoint
      /\ hz[a] \in Nat
  BY ChannelType, KnownTime DEF Times
<1>3. CASE ch2[a][b] = ch[a][b]
  BY <1>1, <1>3
<1>4. CASE a = p /\ ch2[a][b] = Append(ch[a][b], m)
  <2>1. InOrder(Append(ch[a][b], m), a, ot[b][a].timePoint, hz[a])
    BY <1>1, <1>2, <1>4, AppendInOrder
  <2>2. QED
    BY <1>4, <2>1
<1>5. QED
  BY <1>3, <1>4

LEMMA SoundBroadcast ==
  ASSUME NEW ch \in Channels, NEW ot \in Known, NEW hz \in Times,
         Sound(ch, ot, hz), NEW p \in Participant, NEW m \in Message,
         IsTask(m) => m.timePoint <= hz[p] /\ (p \in Steady => m.timePoint = hz[p])
  PROVE  Sound(Broadcast(ch, p, m), ot, hz)
<1>1. Broadcast(ch, p, m) \in Channels
  BY BroadcastType
<1>2. \A a, b \in Participant :
         \/ Broadcast(ch, p, m)[a][b] = ch[a][b]
         \/ a = p /\ Broadcast(ch, p, m)[a][b] = Append(ch[a][b], m)
  BY DEF Broadcast, Channels
<1>3. QED
  BY <1>1, <1>2, SoundAppend

(* Messages are taken, or the links of a participant end.                  *)
LEMMA SoundShorter ==
  ASSUME NEW ch \in Channels, NEW ch2 \in Channels, NEW ot \in Known, NEW hz \in Times,
         Sound(ch, ot, hz),
         \A a, b \in Participant :
            \/ ch2[a][b] = ch[a][b]
            \/ ch2[a][b] = <<>>
            \/ ch[a][b] # <<>> /\ ch2[a][b] = Tail(ch[a][b])
  PROVE  Sound(ch2, ot, hz)
<1> SUFFICES ASSUME NEW a \in Participant, NEW b \in Participant
             PROVE  InOrder(ch2[a][b], a, ot[b][a].timePoint, hz[a])
  BY DEF Sound
<1>1. InOrder(ch[a][b], a, ot[b][a].timePoint, hz[a])
  BY DEF Sound
<1>2. /\ ch[a][b] \in Seq(Message)
      /\ ot[b][a].timePoint \in TimePoint
      /\ hz[a] \in Nat
      /\ ot[b][a].timePoint <= hz[a]
  BY <1>1, ChannelType, KnownTime DEF Times, InOrder
<1>3. CASE ch2[a][b] = ch[a][b]
  BY <1>1, <1>3
<1>4. CASE ch2[a][b] = <<>>
  BY <1>2, <1>4, EmptyInOrder
<1>5. CASE ch[a][b] # <<>> /\ ch2[a][b] = Tail(ch[a][b])
  BY <1>1, <1>2, <1>5, TailInOrder
<1>6. QED
  BY <1>3, <1>4, <1>5

LEMMA TakenLinks ==
  ASSUME TypeOK, NEW p \in Participant, NEW q \in Participant, channel[q][p] # <<>>
  PROVE  \A a, b \in Participant :
            IF a = q /\ b = p THEN Taken(p, q)[a][b] = Tail(channel[a][b])
                              ELSE Taken(p, q)[a][b] = channel[a][b]
BY DEF Taken, TypeOK

LEMMA SoundTaken ==
  ASSUME TypeOK, NEW p \in Participant, NEW q \in Participant, channel[q][p] # <<>>,
         NEW ot \in Known, NEW hz \in Times, Sound(channel, ot, hz)
  PROVE  Sound(Taken(p, q), ot, hz)
<1>1. channel \in Channels /\ Taken(p, q) \in Channels
  BY TakenType DEF TypeOK, Channels
<1>2. QED
  BY <1>1, TakenLinks, SoundShorter

(* The receiver learns the task it takes.                                  *)
LEMMA SoundLearned ==
  ASSUME TypeOK, NEW p \in Participant, NEW q \in Participant, channel[q][p] # <<>>,
         IsTask(Head(channel[q][p])),
         NEW ot \in Known, NEW ot2 \in Known, NEW hz \in Times, Sound(channel, ot, hz),
         \A a, b \in Participant :
            IF a = p /\ b = q THEN ot2[a][b].timePoint = Head(channel[q][p]).timePoint
                              ELSE ot2[a][b] = ot[a][b]
  PROVE  Sound(Taken(p, q), ot2, hz)
<1> SUFFICES ASSUME NEW a \in Participant, NEW b \in Participant
             PROVE  InOrder(Taken(p, q)[a][b], a, ot2[b][a].timePoint, hz[a])
  BY DEF Sound
<1>1. InOrder(channel[a][b], a, ot[b][a].timePoint, hz[a])
  BY DEF Sound
<1>2. /\ channel[a][b] \in Seq(Message)
      /\ ot[b][a].timePoint \in TimePoint
      /\ hz[a] \in Nat
  BY KnownTime DEF Times, TypeOK
<1>3. CASE a = q /\ b = p
  <2>1. InOrder(Tail(channel[a][b]), a, Head(channel[a][b]).timePoint, hz[a])
    BY <1>1, <1>2, <1>3, LearnInOrder
  <2>2. QED
    BY <1>3, <2>1, TakenLinks
<1>4. CASE ~(a = q /\ b = p)
  BY <1>1, <1>4, TakenLinks
<1>5. QED
  BY <1>3, <1>4

(* What is known of a participant that leaves is forgotten.                *)
LEMMA SoundForgotten ==
  ASSUME NEW ch \in Channels, NEW ot \in Known, NEW ot2 \in Known, NEW hz \in Times,
         Sound(ch, ot, hz),
         \A a, b \in Participant : ot2[a][b] = ot[a][b] \/ ot2[a][b].timePoint = -1
  PROVE  Sound(ch, ot2, hz)
<1> SUFFICES ASSUME NEW a \in Participant, NEW b \in Participant
             PROVE  InOrder(ch[a][b], a, ot2[b][a].timePoint, hz[a])
  BY DEF Sound
<1>1. InOrder(ch[a][b], a, ot[b][a].timePoint, hz[a])
  BY DEF Sound
<1>2. ch[a][b] \in Seq(Message) /\ ot[b][a].timePoint \in TimePoint /\ hz[a] \in Nat
  BY ChannelType, KnownTime DEF Times
<1>3. CASE ot2[b][a] = ot[b][a]
  BY <1>1, <1>3
<1>4. CASE ot2[b][a].timePoint = -1
  BY <1>1, <1>2, <1>4, ForgetInOrder
<1>5. QED
  BY <1>3, <1>4

LEMMA SoundRaised ==
  ASSUME NEW ch \in Channels, NEW ot \in Known, NEW hz \in Times, NEW hz2 \in Times,
         Sound(ch, ot, hz), \A p \in Participant : hz[p] <= hz2[p]
  PROVE  Sound(ch, ot, hz2)
<1> SUFFICES ASSUME NEW a \in Participant, NEW b \in Participant
             PROVE  InOrder(ch[a][b], a, ot[b][a].timePoint, hz2[a])
  BY DEF Sound
<1>1. InOrder(ch[a][b], a, ot[b][a].timePoint, hz[a])
  BY DEF Sound
<1>2. /\ ch[a][b] \in Seq(Message)
      /\ ot[b][a].timePoint \in TimePoint
      /\ hz[a] \in Nat /\ hz2[a] \in Nat
  BY ChannelType, KnownTime DEF Times
<1>3. QED
  BY <1>1, <1>2, RaiseInOrder

-----------------------------------------------------------------------------
(* The time update, whichever handler runs it.                             *)

LEMMA HorizonsType ==
  ASSUME TypeOK, \A p \in Participant : OwnOrder(p)
  PROVE  Horizons \in Times /\ \A p \in Participant : Horizons[p] <= myNextTime[p]
<1>1. ASSUME NEW p \in Participant PROVE Horizon(p) \in Nat /\ Horizon(p) <= myNextTime[p]
  BY DEF TypeOK, OwnOrder, Horizon, Task, TimePoint
<1>2. QED
  BY <1>1 DEF Horizons, Times

LEMMA PostOnlyPaused ==
  ASSUME NEW td \in Posted, OnlyPaused(td), NEW p \in Participant, NEW task \in PostedTask,
         task \in {"Pause", "Continue", "Request"} => p \in MayPause
  PROVE  OnlyPaused(Post(td, p, task))
<1> SUFFICES ASSUME NEW a \in Participant, NEW i \in 1..Len(Post(td, p, task)[a]),
                    Post(td, p, task)[a][i] \in {"Pause", "Continue", "Request"}
             PROVE  a \in MayPause
  BY DEF OnlyPaused
<1>1. CASE a # p
  BY <1>1 DEF Post, Posted, OnlyPaused
<1>2. CASE a = p
  <2>1. Post(td, p, task)[a] = Append(td[a], task) /\ td[a] \in Seq(PostedTask)
    BY <1>2 DEF Post, Posted
  <2>2. CASE i = Len(td[a]) + 1
    BY <1>2, <2>1, <2>2
  <2>3. CASE i # Len(td[a]) + 1
    <3>1. i \in 1..Len(td[a]) /\ Post(td, p, task)[a][i] = td[a][i]
      BY <2>1, <2>3
    <3>2. QED
      BY <3>1 DEF OnlyPaused
  <2>4. QED
    BY <2>2, <2>3
<1>3. QED
  BY <1>1, <1>2

LEMMA PoppedOnlyPaused ==
  ASSUME TypeOK, OnlyPaused(todo), NEW p \in Participant, todo[p] # <<>>
  PROVE  OnlyPaused(Popped(p))
<1> SUFFICES ASSUME NEW a \in Participant, NEW i \in 1..Len(Popped(p)[a]),
                    Popped(p)[a][i] \in {"Pause", "Continue", "Request"}
             PROVE  a \in MayPause
  BY DEF OnlyPaused
<1>1. CASE a # p
  BY <1>1 DEF Popped, TypeOK, OnlyPaused
<1>2. CASE a = p
  <2>1. Popped(p)[a] = Tail(todo[a]) /\ todo[a] \in Seq(PostedTask) /\ todo[a] # <<>>
    BY <1>2 DEF Popped, TypeOK
  <2>2. i + 1 \in 1..Len(todo[a]) /\ Popped(p)[a][i] = todo[a][i + 1]
    BY <2>1
  <2>3. QED
    BY <2>2 DEF OnlyPaused
<1>3. QED
  BY <1>1, <1>2

LEMMA RequestSound ==
  ASSUME NEW p \in Participant, NEW next \in Nat, NEW ch \in Channels, NEW td \in Posted,
         NEW ot \in Known, NEW hz \in Times, Sound(ch, ot, hz), OnlyPaused(td),
         hz[p] = next, RequestNextStep(p, next, ch, td)
  PROVE  Sound(channel', ot, hz) /\ OnlyPaused(todo')
<1> DEFINE m == SimTaskMsg(NextTaskOf(p, next))
<1>1. m \in Message /\ m.timePoint = next
  BY NextTaskOfType, SimTaskMsgType DEF SimTaskMsg, NextTaskOf
<1>2. Sound(Broadcast(ch, p, m), ot, hz)
  BY <1>1, SoundBroadcast
<1>3. channel' = ch \/ channel' = Broadcast(ch, p, m)
  BY DEF RequestNextStep
<1>4. todo' = Post(td, p, "Update") /\ "Update" \in PostedTask
  BY DEF RequestNextStep, PostedTask
<1>5. QED
  BY <1>2, <1>3, <1>4, PostOnlyPaused

(* The timeline after the update, if ch, td and ot are those that the      *)
(* calling handler has left.                                               *)
LEMMA TimeUpdateKeepsTimeline ==
  ASSUME TypeOK, \A a \in Participant : OwnOrder(a) /\ (pauseRequested[a] => a \in MayPause),
         NEW p \in Participant, NEW dyn \in BOOLEAN,
         NEW kn \in SUBSET Participant, NEW ot \in [Participant -> Task],
         NEW ch \in Channels, NEW td \in Posted, OnlyPaused(td),
         NEW known2 \in Known, Sound(ch, known2, Horizons),
         UNCHANGED state, ProcessSimulationTimeUpdate(p, dyn, kn, ot, ch, td)
  PROVE  /\ \A a \in Participant : OwnOrder(a)'
         /\ PausedByUser'
         /\ Sound(channel', known2, Horizons')
<1>1. UpdateTypeOK'
  BY TimeUpdateType
<1>2. Horizons \in Times
  BY HorizonsType
<1>3. \A a \in Participant : StepSize[a] \in Nat \ {0}
  BY StepSizeAssumption
<1>4. CASE SkipStep(p, kn, ot, ch, td)
  <2>1. Horizons' = Horizons /\ channel' = ch /\ todo' = td
    BY <1>4 DEF SkipStep, NoRequest, Horizons, Horizon
  <2>2. \A a \in Participant : OwnOrder(a)'
    BY <1>4 DEF SkipStep, OwnOrder
  <2>3. PausedByUser'
    BY <1>4, <2>1 DEF SkipStep, PausedByUser
  <2>4. QED
    BY <2>1, <2>2, <2>3
<1>5. ASSUME IsTimeAdvancePossible(p, kn, ot), ~executing[p],
             executing' = [executing EXCEPT ![p] = p \in Async],
             hopOnEvaluated' = [hopOnEvaluated EXCEPT ![p] = TRUE],
             NEW start \in StartTimes(p, kn, ot), NEW end \in Nat, start <= end,
             myNextTime' = [myNextTime EXCEPT ![p] = end],
             \/ start = end /\ UNCHANGED currentTask
             \/ start < end /\ currentTask'[p].timePoint = start
                /\ \A a \in Participant \ {p} : currentTask'[a] = currentTask[a],
             start = end => currentTask[p].timePoint = -1
      PROVE  /\ \A a \in Participant : OwnOrder(a)'
             /\ Horizons' \in Times
             /\ \A a \in Participant : Horizons[a] <= Horizons'[a]
             /\ p \notin Async => Horizons'[p] = end
  <2>1. start \in Nat /\ myNextTime[p] <= start
    <3>1. start \in Nat /\ myNextTime[p] \in Nat
      BY <1>5, StartTimesType DEF TypeOK
    <3>2. CASE hopOnEvaluated[p]
      BY <1>5, <3>1, <3>2 DEF StartTimes
    <3>3. CASE ~hopOnEvaluated[p]
      BY <3>1, <3>3 DEF OwnOrder
    <3>4. QED
      BY <3>1, <3>2, <3>3
  <2>2. state[p] = "Running"
    BY <1>5 DEF IsTimeAdvancePossible, MayRequest
  <2>3. \A a \in Participant : OwnOrder(a)'
    <3> SUFFICES ASSUME NEW a \in Participant PROVE OwnOrder(a)'
      OBVIOUS
    <3>1. CASE a # p
      BY <1>5, <3>1 DEF OwnOrder, TypeOK
    <3>2. CASE a = p
      BY <1>5, <2>1, <2>2, <3>2 DEF OwnOrder, TypeOK
    <3>3. QED
      BY <3>1, <3>2
  <2>4. ASSUME NEW a \in Participant
        PROVE  /\ Horizon(a)' \in Nat
               /\ Horizon(a) <= Horizon(a)'
               /\ a = p /\ p \notin Async => Horizon(a)' = end
    <3>1. CASE a # p
      <4>1. Horizon(a)' = Horizon(a)
        BY <1>5, <3>1 DEF Horizon, TypeOK
      <4>2. Horizon(a) \in Nat
        BY <1>2 DEF Horizons, Times
      <4>3. QED
        BY <3>1, <4>1, <4>2
    <3>2. CASE a = p
      <4>1. Horizon(a) = myNextTime[p]
        BY <1>5, <3>2 DEF Horizon
      <4>2. executing'[p] = (p \in Async) /\ myNextTime'[p] = end
        BY <1>5 DEF TypeOK
      <4>3. Horizon(a)' \in {start, end} /\ (p \notin Async => Horizon(a)' = end)
        BY <1>5, <2>1, <3>2, <4>2 DEF Horizon, TypeOK, Task, TimePoint
      <4>4. QED
        BY <1>5, <2>1, <4>1, <4>3 DEF TypeOK
    <3>3. QED
      BY <3>1, <3>2
  <2>5. Horizons' = [a \in Participant |-> Horizon(a)']
    BY DEF Horizons
  <2>6. QED
    BY <2>3, <2>4, <2>5 DEF Horizons, Times
<1>6. CASE AbortHopOn(p, kn, ot, ch, td)
  <2> DEFINE aborted == Broadcast(ch, p, [kind |-> "AbortSimulation"])
             posted == Post(td, p, "Abort")
  <2>1. aborted \in Channels /\ posted \in Posted /\ [kind |-> "AbortSimulation"] \in Message
    BY BroadcastType, PostType, SignalTypes DEF PostedTask
  <2>2. PICK start \in StartTimes(p, kn, ot) :
           /\ myNextTime' = [myNextTime EXCEPT ![p] = start]
           /\ IF p \in Async THEN NoRequest(aborted, posted)
                             ELSE RequestNextStep(p, start, aborted, posted)
    BY <1>6 DEF AbortHopOn
  <2>3. start \in Nat
    BY StartTimesType
  <2>4. currentTask[p].timePoint = -1
    BY <1>6 DEF AbortHopOn, IsHopOn
  <2>5. /\ \A a \in Participant : OwnOrder(a)'
        /\ Horizons' \in Times
        /\ \A a \in Participant : Horizons[a] <= Horizons'[a]
        /\ p \notin Async => Horizons'[p] = start
    <3>1. /\ IsTimeAdvancePossible(p, kn, ot) /\ ~executing[p]
          /\ executing' = [executing EXCEPT ![p] = p \in Async]
          /\ hopOnEvaluated' = [hopOnEvaluated EXCEPT ![p] = TRUE]
          /\ UNCHANGED currentTask
      BY <1>6 DEF AbortHopOn
    <3>2. start <= start
      BY <2>3
    <3>3. QED
      BY <1>5, <2>2, <2>3, <2>4, <3>1, <3>2
  <2>6. Sound(aborted, known2, Horizons)
    BY <1>2, <2>1, SoundBroadcast DEF IsTask
  <2>7. Sound(aborted, known2, Horizons')
    BY <1>2, <2>1, <2>5, <2>6, SoundRaised
  <2>8. OnlyPaused(posted)
    BY PostOnlyPaused DEF PostedTask
  <2>9. Sound(channel', known2, Horizons') /\ OnlyPaused(todo')
    <3>1. CASE p \in Async
      BY <2>2, <2>7, <2>8, <3>1 DEF NoRequest
    <3>2. CASE p \notin Async
      BY <2>1, <2>2, <2>3, <2>5, <2>7, <2>8, <3>2, RequestSound
    <3>3. QED
      BY <3>1, <3>2
  <2>10. PausedByUser'
    BY <1>6, <2>9 DEF AbortHopOn, PausedByUser
  <2>11. QED
    BY <2>5, <2>9, <2>10
<1>7. CASE ExecuteStep(p, dyn, kn, ot, ch, td)
  <2>1. PICK start \in StartTimes(p, kn, ot), call \in HandlerCalls(p) :
        \E dur \in StepDurations(p, start, dyn, kn, ot) :
           /\ currentTask' = [currentTask EXCEPT ![p] = [timePoint |-> start, duration |-> dur]]
           /\ myNextTime' = [myNextTime EXCEPT ![p] = start + dur]
           /\ pauseRequested' = [pauseRequested EXCEPT ![p] = call = "Pause"]
           /\ stopRequested' = [stopRequested EXCEPT ![p] = call = "Stop"]
           /\ CASE call # "None" -> NoRequest(ch, Post(td, p, call))
                [] call = "None" /\ p \in Async -> NoRequest(ch, td)
                [] call = "None" /\ p \notin Async -> RequestNextStep(p, start + dur, ch, td)
    BY <1>7 DEF ExecuteStep
  <2>2. PICK dur \in StepDurations(p, start, dyn, kn, ot) :
           /\ currentTask' = [currentTask EXCEPT ![p] = [timePoint |-> start, duration |-> dur]]
           /\ myNextTime' = [myNextTime EXCEPT ![p] = start + dur]
           /\ pauseRequested' = [pauseRequested EXCEPT ![p] = call = "Pause"]
           /\ \/ call # "None" /\ NoRequest(ch, Post(td, p, call))
              \/ call = "None" /\ NoRequest(ch, td)
              \/ p \notin Async /\ RequestNextStep(p, start + dur, ch, td)
    BY <2>1
  <2>3. start \in Nat /\ dur \in Nat \ {0}
    BY StartTimesType, StepDurationsType
  <2>4. start + dur \in Nat /\ start < start + dur /\ start <= start + dur
    BY <2>3
  <2>5. /\ \A a \in Participant : OwnOrder(a)'
        /\ Horizons' \in Times
        /\ \A a \in Participant : Horizons[a] <= Horizons'[a]
        /\ p \notin Async => Horizons'[p] = start + dur
    <3>1. /\ currentTask'[p].timePoint = start
          /\ \A a \in Participant \ {p} : currentTask'[a] = currentTask[a]
      BY <2>2 DEF TypeOK
    <3>2. /\ IsTimeAdvancePossible(p, kn, ot) /\ ~executing[p]
          /\ executing' = [executing EXCEPT ![p] = p \in Async]
          /\ hopOnEvaluated' = [hopOnEvaluated EXCEPT ![p] = TRUE]
      BY <1>7 DEF ExecuteStep
    <3>3. start # start + dur
      BY <2>3
    <3>4. QED
      BY <1>5, <2>2, <2>4, <3>1, <3>2, <3>3
  <2>6. call # "None" => call \in PostedTask
    BY DEF HandlerCalls, PostedTask
  <2>7. call = "Pause" => p \in MayPause
    BY DEF HandlerCalls, MayCallPause
  <2>8. call # "None" => call \in {"Pause", "Stop"}
    BY DEF HandlerCalls
  <2>9. Sound(ch, known2, Horizons')
    BY <1>2, <2>5, SoundRaised
  <2>10. Sound(channel', known2, Horizons') /\ OnlyPaused(todo')
    <3>1. CASE call # "None" /\ NoRequest(ch, Post(td, p, call))
      <4>1. call \in {"Pause", "Continue", "Request"} => p \in MayPause
        BY <2>7, <2>8, <3>1
      <4>2. OnlyPaused(Post(td, p, call))
        BY <2>6, <3>1, <4>1, PostOnlyPaused
      <4>3. QED
        BY <2>9, <3>1, <4>2 DEF NoRequest
    <3>2. CASE NoRequest(ch, td)
      BY <2>9, <3>2 DEF NoRequest
    <3>3. CASE p \notin Async /\ RequestNextStep(p, start + dur, ch, td)
      BY <2>4, <2>5, <2>9, <3>3, RequestSound
    <3>4. QED
      BY <2>2, <3>1, <3>2, <3>3
  <2>11. PausedByUser'
    BY <2>2, <2>7, <2>10 DEF PausedByUser, TypeOK
  <2>12. QED
    BY <2>5, <2>10, <2>11
<1>8. QED
  BY <1>4, <1>6, <1>7 DEF ProcessSimulationTimeUpdate

-----------------------------------------------------------------------------
(* The steps of TimeSync keep the timeline.                                *)

LEMMA InitTimeline == Init => TimelineInv
<1> SUFFICES ASSUME Init PROVE TimelineInv
  OBVIOUS
<1>1. TypeOK
  BY InitType
<1>2. ASSUME NEW p \in Participant PROVE OwnOrder(p) /\ Horizon(p) = 0
  BY DEF Init, OwnOrder, Horizon, UnknownTask
<1>3. PausedByUser
  BY DEF Init, PausedByUser, OnlyPaused
<1>4. ASSUME NEW p \in Participant, NEW q \in Participant
      PROVE  InOrder(channel[p][q], p, otherNextTask[q][p].timePoint, Horizons[p])
  <2>1. channel[p][q] = <<>> /\ otherNextTask[q][p].timePoint = -1 /\ Horizons[p] = 0
    BY <1>2 DEF Init, UnknownTask, Horizons
  <2>2. InOrder(<<>>, p, -1, 0)
    BY EmptyInOrder DEF TimePoint
  <2>3. QED
    BY <2>1, <2>2
<1>5. QED
  BY <1>1, <1>2, <1>3, <1>4 DEF TimelineInv, Sound

LEMMA QuietTimeline ==
  ASSUME TimelineInv, TypeOK', PausedByUser', Sound(channel', otherNextTask', Horizons),
         UNCHANGED <<currentTask, myNextTime, executing, hopOnEvaluated>>,
         \A p \in Participant :
            state[p] \notin {"Down", "Initializing"} => state'[p] \notin {"Down", "Initializing"}
  PROVE  TimelineInv'
<1>1. Horizons' = Horizons
  BY DEF Horizons, Horizon
<1>2. ASSUME NEW p \in Participant PROVE OwnOrder(p)'
  BY DEF TimelineInv, OwnOrder
<1>3. QED
  BY <1>1, <1>2 DEF TimelineInv

LEMMA LocalStepTimeline ==
  ASSUME TimelineInv, NEW p \in Participant, LocalStep(p)
  PROVE  TimelineInv'
<1> DEFINE Started(q) == state[q] \notin {"Down", "Initializing"}
<1>1. TypeOK /\ TypeOK' /\ OnlyPaused(todo) /\ Horizons \in Times
      /\ otherNextTask \in Known /\ channel \in Channels /\ todo \in Posted
      /\ Sound(channel, otherNextTask, Horizons)
  BY LocalStepType, HorizonsType DEF TimelineInv, PausedByUser, TypeOK, Known, Channels, Posted
<1>2. CASE StartLifecycle(p)
  <2> DEFINE created == [kind |-> "ServiceCreated"]
             call == [kind |-> "Call"]
  <2>1. created \in Message /\ call \in Message /\ ~IsTask(created) /\ ~IsTask(call)
    BY SignalTypes DEF IsTask
  <2>2. Broadcast(channel, p, created) \in Channels
    BY <1>1, <2>1, BroadcastType
  <2>3. Sound(Broadcast(channel, p, created), otherNextTask, Horizons)
    BY <1>1, <2>1, SoundBroadcast
  <2>4. Sound(Broadcast(Broadcast(channel, p, created), p, call), otherNextTask, Horizons)
    BY <1>1, <2>1, <2>2, <2>3, SoundBroadcast
  <2>5. PausedByUser'
    BY <1>2 DEF StartLifecycle, TimelineInv, PausedByUser
  <2>6. \A q \in Participant : Started(q) => Started(q)'
    BY <1>1, <1>2 DEF StartLifecycle, TypeOK
  <2>7. QED
    BY <1>1, <1>2, <2>4, <2>5, <2>6, QuietTimeline DEF StartLifecycle, timeVars
<1>3. CASE EnterRunning(p)
  <2>1. Horizons[p] = myNextTime[p] /\ myNextTime[p] \in Nat
    BY <1>1, <1>3 DEF EnterRunning, TimelineInv, OwnOrder, Horizons, Horizon, TypeOK
  <2>2. Sound(channel', otherNextTask, Horizons) /\ OnlyPaused(todo')
    BY <1>1, <1>3, <2>1, RequestSound DEF EnterRunning
  <2>3. PausedByUser'
    BY <1>3, <2>2 DEF EnterRunning, TimelineInv, PausedByUser
  <2>4. \A q \in Participant : Started(q) => Started(q)'
    BY <1>1, <1>3 DEF EnterRunning, TypeOK
  <2>5. QED
    BY <1>1, <1>3, <2>2, <2>3, <2>4, QuietTimeline DEF EnterRunning, peerVars
<1>4. CASE CallPause(p)
  <2>1. p \in MayPause /\ OnlyPaused(todo')
    BY <1>1, <1>4, PostOnlyPaused DEF CallPause, MayCallPause, PostedTask
  <2>2. PausedByUser'
    BY <1>1, <1>4, <2>1 DEF CallPause, TimelineInv, PausedByUser, TypeOK
  <2>3. QED
    BY <1>1, <1>4, <2>2, QuietTimeline DEF CallPause, timeVars, peerVars
<1>5. CASE CallContinue(p)
  <2>1. p \in MayPause
    BY <1>5 DEF CallContinue, TimelineInv, PausedByUser
  <2>2. OnlyPaused(todo')
    BY <1>1, <1>5, <2>1, PostOnlyPaused DEF CallContinue, PostedTask
  <2>3. PausedByUser'
    BY <1>1, <1>5, <2>1, <2>2 DEF CallContinue, TimelineInv, PausedByUser, TypeOK
  <2>4. QED
    BY <1>1, <1>5, <2>3, QuietTimeline DEF CallContinue, timeVars, peerVars
<1>6. CASE CallStop(p)
  <2>1. OnlyPaused(todo')
    BY <1>1, <1>6, PostOnlyPaused DEF CallStop, PostedTask
  <2>2. PausedByUser'
    BY <1>6, <2>1 DEF CallStop, TimelineInv, PausedByUser
  <2>3. QED
    BY <1>1, <1>6, <2>2, QuietTimeline DEF CallStop, timeVars, peerVars
<1>7. CASE CompleteSimulationStep(p)
  <2>1. /\ executing' = [executing EXCEPT ![p] = FALSE]
        /\ UNCHANGED <<state, pauseRequested, currentTask, myNextTime, hopOnEvaluated, otherNextTask>>
    BY <1>7 DEF CompleteSimulationStep, lifecycleVars, peerVars
  <2>2. ASSUME NEW a \in Participant
        PROVE  /\ OwnOrder(a)'
               /\ Horizon(a)' \in Nat
               /\ Horizon(a) <= Horizon(a)'
               /\ a = p => Horizon(a)' = myNextTime[a]
    <3>1. CASE a = p
      <4>1. ~executing'[a]
        BY <1>1, <2>1, <3>1 DEF TypeOK
      <4>2. OwnOrder(a)' /\ Horizon(a)' = myNextTime[a] /\ myNextTime[a] \in Nat
        BY <1>1, <2>1, <3>1, <4>1 DEF TimelineInv, OwnOrder, Horizon, TypeOK
      <4>3. Horizon(a) <= myNextTime[a]
        BY <1>1, HorizonsType DEF TimelineInv, Horizons
      <4>4. QED
        BY <4>2, <4>3
    <3>2. CASE a # p
      <4>1. executing'[a] = executing[a]
        BY <1>1, <2>1, <3>2 DEF TypeOK
      <4>2. OwnOrder(a)' /\ Horizon(a)' = Horizon(a)
        BY <2>1, <4>1 DEF TimelineInv, OwnOrder, Horizon
      <4>3. Horizon(a) \in Nat
        BY <1>1 DEF Horizons, Times
      <4>4. QED
        BY <3>2, <4>2, <4>3
    <3>3. QED
      BY <3>1, <3>2
  <2>3. Horizons' = [a \in Participant |-> Horizon(a)']
    BY DEF Horizons
  <2>4. Horizons' \in Times /\ \A a \in Participant : Horizons[a] <= Horizons'[a]
    BY <2>2, <2>3 DEF Horizons, Times
  <2>5. Sound(channel, otherNextTask, Horizons')
    BY <1>1, <2>4, SoundRaised
  <2>6. Sound(channel', otherNextTask, Horizons') /\ OnlyPaused(todo')
    <3>1. CASE MayRequest(p)
      <4>1. RequestNextStep(p, myNextTime[p], channel, todo)
        BY <1>7, <3>1 DEF CompleteSimulationStep
      <4>2. Horizons'[p] = myNextTime[p] /\ myNextTime[p] \in Nat
        BY <1>1, <2>2, <2>3 DEF TypeOK
      <4>3. QED
        BY <1>1, <2>4, <2>5, <4>1, <4>2, RequestSound
    <3>2. CASE ~MayRequest(p)
      BY <1>1, <1>7, <2>5, <3>2 DEF CompleteSimulationStep, NoRequest
    <3>3. QED
      BY <3>1, <3>2
  <2>7. PausedByUser'
    BY <2>1, <2>6 DEF TimelineInv, PausedByUser
  <2>8. QED
    BY <1>1, <2>1, <2>2, <2>6, <2>7 DEF TimelineInv
<1>8. CASE UpdateTask(p)
  <2>1. todo[p] # <<>> /\ Popped(p) \in Posted /\ OnlyPaused(Popped(p))
    BY <1>1, <1>8, PoppedType, PoppedOnlyPaused DEF UpdateTask, Runs
  <2>2. /\ known[p] \in SUBSET Participant
        /\ otherNextTask[p] \in [Participant -> Task]
        /\ dynamicStepEnabled[p] \in BOOLEAN
        /\ UNCHANGED <<state, otherNextTask>>
        /\ ProcessSimulationTimeUpdate(p, dynamicStepEnabled[p], known[p], otherNextTask[p],
                                       channel, Popped(p))
    BY <1>1, <1>8 DEF UpdateTask, peerVars, TypeOK
  <2>3. \A a \in Participant : OwnOrder(a) /\ (pauseRequested[a] => a \in MayPause)
    BY DEF TimelineInv, PausedByUser
  <2>4. /\ \A a \in Participant : OwnOrder(a)'
        /\ PausedByUser'
        /\ Sound(channel', otherNextTask, Horizons')
    BY <1>1, <2>1, <2>2, <2>3, TimeUpdateKeepsTimeline
  <2>5. QED
    BY <1>1, <2>2, <2>4 DEF TimelineInv
<1>9. CASE RequestTask(p)
  <2>1. todo[p] # <<>> /\ Head(todo[p]) = "Request"
    BY <1>9 DEF RequestTask, Runs
  <2>2. p \in MayPause
    <3>1. Len(todo[p]) \in Nat /\ 1 \in 1..Len(todo[p]) /\ todo[p][1] = "Request"
      BY <1>1, <2>1 DEF TypeOK
    <3>2. QED
      BY <1>1, <3>1 DEF OnlyPaused
  <2>3. Popped(p) \in Posted /\ OnlyPaused(Popped(p))
    BY <1>1, <2>1, PoppedType, PoppedOnlyPaused
  <2>4. Horizons[p] = myNextTime[p] /\ myNextTime[p] \in Nat
    BY <1>1, <2>2 DEF Horizons, Horizon, TypeOK
  <2>5. Sound(channel', otherNextTask, Horizons) /\ OnlyPaused(todo')
    BY <1>1, <1>9, <2>3, <2>4, RequestSound DEF RequestTask, NoRequest
  <2>6. PausedByUser'
    BY <1>9, <2>5 DEF RequestTask, lifecycleVars, TimelineInv, PausedByUser
  <2>7. QED
    BY <1>1, <1>9, <2>5, <2>6, QuietTimeline DEF RequestTask, lifecycleVars, peerVars
<1>10. CASE PauseTask(p)
  <2>1. OnlyPaused(todo')
    BY <1>1, <1>10, PoppedOnlyPaused DEF PauseTask, Runs
  <2>2. PausedByUser'
    BY <1>10, <2>1 DEF PauseTask, TimelineInv, PausedByUser
  <2>3. \A q \in Participant : Started(q) => Started(q)'
    BY <1>1, <1>10 DEF PauseTask, TypeOK
  <2>4. QED
    BY <1>1, <1>10, <2>2, <2>3, QuietTimeline DEF PauseTask, timeVars, peerVars
<1>11. CASE ContinueTask(p)
  <2>1. todo[p] # <<>> /\ Head(todo[p]) = "Continue"
    BY <1>11 DEF ContinueTask, Runs
  <2>2. p \in MayPause
    <3>1. Len(todo[p]) \in Nat /\ 1 \in 1..Len(todo[p]) /\ todo[p][1] = "Continue"
      BY <1>1, <2>1 DEF TypeOK
    <3>2. QED
      BY <1>1, <3>1 DEF OnlyPaused
  <2>3. Popped(p) \in Posted /\ OnlyPaused(Popped(p))
    BY <1>1, <2>1, PoppedType, PoppedOnlyPaused
  <2>4. OnlyPaused(Post(Popped(p), p, "Request"))
    BY <2>2, <2>3, PostOnlyPaused DEF PostedTask
  <2>5. PausedByUser'
    BY <1>11, <2>3, <2>4 DEF ContinueTask, TimelineInv, PausedByUser
  <2>6. \A q \in Participant : Started(q) => Started(q)'
    BY <1>1, <1>11 DEF ContinueTask, TypeOK
  <2>7. QED
    BY <1>1, <1>11, <2>5, <2>6, QuietTimeline DEF ContinueTask, timeVars, peerVars
<1>12. CASE StopTask(p)
  <2>1. OnlyPaused(todo')
    BY <1>1, <1>12, PoppedOnlyPaused DEF StopTask, Runs
  <2>2. PausedByUser'
    BY <1>12, <2>1 DEF StopTask, TimelineInv, PausedByUser
  <2>3. \A q \in Participant : Started(q) => Started(q)'
    BY <1>1, <1>12 DEF StopTask, TypeOK
  <2>4. QED
    BY <1>1, <1>12, <2>2, <2>3, QuietTimeline DEF StopTask, timeVars, peerVars
<1>13. CASE SystemStopping(p)
  <2>1. PausedByUser'
    BY <1>13 DEF SystemStopping, TimelineInv, PausedByUser
  <2>2. \A q \in Participant : Started(q) => Started(q)'
    BY <1>1, <1>13 DEF SystemStopping, TypeOK
  <2>3. QED
    BY <1>1, <1>13, <2>1, <2>2, QuietTimeline DEF SystemStopping, timeVars, peerVars
<1>14. CASE Disconnect(p)
  <2> DEFINE cleared == [q \in Participant |-> [channel[q] EXCEPT ![p] = <<>>]]
  <2>1. cleared \in Channels
    BY <1>1 DEF Channels, Message
  <2>2. PICK graceful \in BOOLEAN :
           channel' = Broadcast(cleared, p, [kind |-> "PeerShutdown", graceful |-> graceful])
    BY <1>14 DEF Disconnect
  <2> DEFINE shutdown == [kind |-> "PeerShutdown", graceful |-> graceful]
  <2>3. shutdown \in Message /\ ~IsTask(shutdown)
    BY DEF Message, PeerShutdown, IsTask
  <2>4. \A a, b \in Participant : cleared[a][b] = channel[a][b] \/ cleared[a][b] = <<>>
    BY <1>1 DEF Channels
  <2>5. Sound(cleared, otherNextTask, Horizons)
    <3> HIDE DEF cleared
    <3>1. QED
      BY <1>1, <2>1, <2>4, SoundShorter
  <2>6. Sound(channel', otherNextTask, Horizons)
    BY <1>1, <2>1, <2>2, <2>3, <2>5, SoundBroadcast
  <2>7. /\ state' = [state EXCEPT ![p] = "Gone"]
        /\ todo' = [todo EXCEPT ![p] = <<>>]
        /\ UNCHANGED <<pauseRequested, stopRequested, systemError, timeVars, peerVars>>
    BY <1>14 DEF Disconnect
  <2>8. OnlyPaused(todo')
    BY <1>1, <2>7 DEF OnlyPaused, Posted
  <2>9. PausedByUser'
    BY <2>7, <2>8 DEF TimelineInv, PausedByUser
  <2>10. \A q \in Participant : Started(q) => Started(q)'
    BY <1>1, <2>7 DEF TypeOK
  <2>11. QED
    BY <1>1, <2>6, <2>7, <2>9, <2>10, QuietTimeline DEF timeVars, peerVars
<1>15. QED
  BY <1>2, <1>3, <1>4, <1>5, <1>6, <1>7, <1>8, <1>9, <1>10, <1>11, <1>12, <1>13, <1>14
     DEF LocalStep

LEMMA ReceiveTimeline ==
  ASSUME TimelineInv, NEW p \in Participant, NEW q \in Participant, Receive(p, q)
  PROVE  TimelineInv'
<1> DEFINE m == Head(channel[q][p])
<1>1. TypeOK /\ TypeOK' /\ OnlyPaused(todo) /\ Horizons \in Times
      /\ otherNextTask \in Known /\ channel \in Channels /\ todo \in Posted
      /\ Sound(channel, otherNextTask, Horizons)
  BY ReceiveType, HorizonsType DEF TimelineInv, PausedByUser, TypeOK, Known, Channels, Posted
<1>2. channel[q][p] # <<>> /\ channel[q][p] \in Seq(Message) /\ m \in Message
  <2>1. channel[q][p] # <<>>
    BY DEF Receive, Receives, ReceiveNextSimTask, ReceiveServiceCreated, ReceiveCall,
           ReceiveCallReturn, ReceiveAbortSimulation, ReceivePeerShutdown
  <2>2. channel[q][p] \in Seq(Message)
    BY <1>1 DEF TypeOK
  <2>3. QED
    BY <2>1, <2>2
<1>3. Taken(p, q) \in Channels /\ Sound(Taken(p, q), otherNextTask, Horizons)
  BY <1>1, <1>2, TakenType, SoundTaken
<1>4. \A a \in Participant : OwnOrder(a) /\ (pauseRequested[a] => a \in MayPause)
  BY DEF TimelineInv, PausedByUser
<1>5. CASE ReceiveNextSimTask(p, q)
  <2> DEFINE task == [timePoint |-> m.timePoint, duration |-> m.duration]
  <2>1. IsTask(m)
    BY <1>5 DEF ReceiveNextSimTask, Receives, IsTask
  <2>2. task \in Task
    BY <1>2, <2>1, TaskTime DEF Task
  <2>3. /\ otherNextTask' = IF state[p] # "Down" /\ q \in known[p]
                            THEN [otherNextTask EXCEPT ![p][q] = task]
                            ELSE otherNextTask
        /\ ProcessSimulationTimeUpdate(p, dynamicStepEnabled[p], known[p], otherNextTask'[p],
                                       Taken(p, q), todo)
        /\ UNCHANGED state
    BY <1>5 DEF ReceiveNextSimTask
  <2>4. otherNextTask' \in Known /\ otherNextTask'[p] \in [Participant -> Task]
        /\ known[p] \in SUBSET Participant /\ dynamicStepEnabled[p] \in BOOLEAN
    BY <1>1 DEF TypeOK, Known
  <2>5. Sound(Taken(p, q), otherNextTask', Horizons)
    <3>1. CASE state[p] # "Down" /\ q \in known[p]
      <4>1. \A a, b \in Participant :
               IF a = p /\ b = q THEN otherNextTask'[a][b].timePoint = m.timePoint
                                 ELSE otherNextTask'[a][b] = otherNextTask[a][b]
        BY <1>1, <2>3, <3>1 DEF Known
      <4>2. QED
        BY <1>1, <1>2, <2>1, <2>4, <4>1, SoundLearned
    <3>2. CASE ~(state[p] # "Down" /\ q \in known[p])
      BY <1>3, <2>3, <3>2
    <3>3. QED
      BY <3>1, <3>2
  <2>6. /\ \A a \in Participant : OwnOrder(a)'
        /\ PausedByUser'
        /\ Sound(channel', otherNextTask', Horizons')
    BY <1>1, <1>3, <1>4, <2>3, <2>4, <2>5, TimeUpdateKeepsTimeline
  <2>7. QED
    BY <1>1, <2>6 DEF TimelineInv
<1>6. CASE ReceiveServiceCreated(p, q)
  <2> DEFINE resent == SimTaskMsg(ResentTask(p))
  <2>1. ResentTask(p) \in Task
    BY <1>1, NextTaskOfType DEF ResentTask, TypeOK
  <2>2. resent \in Message /\ resent.timePoint = ResentTask(p).timePoint
    BY <2>1, SimTaskMsgType DEF SimTaskMsg
  <2>3. ASSUME Resends(p)
        PROVE  /\ ResentTask(p).timePoint <= Horizons[p]
               /\ p \in Steady => ResentTask(p).timePoint = Horizons[p]
    <3>1. /\ currentTask[p].timePoint \in Nat
          /\ myNextTime[p] \in Nat
          /\ currentTask[p].timePoint < myNextTime[p]
      BY <1>1, <1>4, <2>3 DEF Resends, TypeOK, Task, TimePoint, OwnOrder
    <3>2. p \in Steady /\ executing[p] => p \notin MayPause
      BY <1>4 DEF Steady, OwnOrder
    <3>3. QED
      BY <3>1, <3>2 DEF ResentTask, NextTaskOf, Horizons, Horizon
  <2>4. Sound(channel', otherNextTask, Horizons)
    <3>1. CASE Resends(p)
      <4>1. channel' = Broadcast(Taken(p, q), p, resent)
        BY <1>6, <3>1 DEF ReceiveServiceCreated
      <4>2. QED
        BY <1>1, <1>3, <2>2, <2>3, <3>1, <4>1, SoundBroadcast
    <3>2. CASE ~Resends(p)
      BY <1>3, <1>6, <3>2 DEF ReceiveServiceCreated
    <3>3. QED
      BY <3>1, <3>2
  <2>5. UNCHANGED <<lifecycleVars, todo, timeVars, otherNextTask>>
    BY <1>6 DEF ReceiveServiceCreated
  <2>6. PausedByUser'
    BY <2>5 DEF lifecycleVars, TimelineInv, PausedByUser
  <2>7. QED
    BY <1>1, <2>4, <2>5, <2>6, QuietTimeline DEF lifecycleVars, timeVars
<1>7. CASE ReceiveCall(p, q)
  <2> DEFINE return == [kind |-> "CallReturn"]
             answered == [Taken(p, q) EXCEPT ![p][q] = Append(@, return)]
  <2>1. return \in Message /\ ~IsTask(return)
    BY SignalTypes DEF IsTask
  <2>2. answered \in Channels
    BY <1>3, <2>1 DEF Channels
  <2>3. \A a, b \in Participant :
           \/ answered[a][b] = Taken(p, q)[a][b]
           \/ a = p /\ answered[a][b] = Append(Taken(p, q)[a][b], return)
    BY <1>3 DEF Channels
  <2>4. Sound(answered, otherNextTask, Horizons)
    <3> HIDE DEF answered, return
    <3>1. QED
      BY <1>1, <1>3, <2>1, <2>2, <2>3, SoundAppend
  <2>5. channel' = answered \/ channel' = Taken(p, q)
    BY <1>7 DEF ReceiveCall
  <2>6. UNCHANGED <<lifecycleVars, todo, timeVars, peerVars>>
    BY <1>7 DEF ReceiveCall
  <2>7. PausedByUser'
    BY <2>6 DEF lifecycleVars, TimelineInv, PausedByUser
  <2>8. Sound(channel', otherNextTask, Horizons)
    BY <1>3, <2>4, <2>5
  <2>9. QED
    BY <1>1, <2>6, <2>7, <2>8, QuietTimeline DEF lifecycleVars, timeVars, peerVars
<1>8. CASE ReceiveCallReturn(p, q)
  <2>1. channel' = Taken(p, q) /\ UNCHANGED <<lifecycleVars, todo, timeVars, known, otherNextTask>>
    BY <1>8 DEF ReceiveCallReturn
  <2>2. PausedByUser'
    BY <2>1 DEF lifecycleVars, TimelineInv, PausedByUser
  <2>3. QED
    BY <1>1, <1>3, <2>1, <2>2, QuietTimeline DEF lifecycleVars, timeVars
<1>9. CASE ReceiveAbortSimulation(p, q)
  <2>1. OnlyPaused(todo')
    BY <1>1, <1>9, PostOnlyPaused DEF ReceiveAbortSimulation, PostedTask
  <2>2. channel' = Taken(p, q) /\ UNCHANGED <<pauseRequested, stopRequested, systemError, timeVars, peerVars>>
    BY <1>9 DEF ReceiveAbortSimulation
  <2>3. PausedByUser'
    BY <2>1, <2>2 DEF TimelineInv, PausedByUser
  <2>4. \A a \in Participant : state[a] \notin {"Down", "Initializing"}
                                 => state'[a] \notin {"Down", "Initializing"}
    BY <1>1, <1>9 DEF ReceiveAbortSimulation, TypeOK
  <2>5. QED
    BY <1>1, <1>3, <2>2, <2>3, <2>4, QuietTimeline DEF timeVars, peerVars
<1>10. CASE ReceivePeerShutdown(p, q)
  <2> DEFINE peers == known[p] \ {q}
             others == [otherNextTask[p] EXCEPT ![q] = UnknownTask]
             requests == dynamicStepPeers[p] \ {q}
  <2>1. UnknownTask \in Task /\ UnknownTask.timePoint = -1
    BY DEF UnknownTask, Task, TimePoint
  <2>2. /\ otherNextTask' = [otherNextTask EXCEPT ![p] = others]
        /\ UNCHANGED state
    BY <1>10 DEF ReceivePeerShutdown
  <2>3. /\ peers \in SUBSET Participant
        /\ others \in [Participant -> Task]
        /\ otherNextTask' \in Known
    BY <1>1, <2>1, <2>2 DEF TypeOK, Known
  <2>4. \A a, b \in Participant :
           otherNextTask'[a][b] = otherNextTask[a][b] \/ otherNextTask'[a][b].timePoint = -1
    BY <1>1, <2>1, <2>2 DEF Known
  <2>5. Sound(Taken(p, q), otherNextTask', Horizons)
    BY <1>1, <1>3, <2>3, <2>4, SoundForgotten
  <2>6. CASE q \in known[p] /\ state[p] # "Down"
    <3>1. ProcessSimulationTimeUpdate(p, DynamicStepEnabled(p, requests), peers, others,
                                      Taken(p, q), todo)
      BY <1>10, <2>6 DEF ReceivePeerShutdown
    <3>2. /\ \A a \in Participant : OwnOrder(a)'
          /\ PausedByUser'
          /\ Sound(channel', otherNextTask', Horizons')
      <4> HIDE DEF peers, others, requests
      <4>1. QED
        BY <1>1, <1>3, <1>4, <2>2, <2>3, <2>5, <3>1, TimeUpdateKeepsTimeline,
           DynamicStepEnabledType
    <3>3. QED
      BY <1>1, <3>2 DEF TimelineInv
  <2>7. CASE ~(q \in known[p] /\ state[p] # "Down")
    <3>1. /\ NoRequest(Taken(p, q), todo)
          /\ UNCHANGED <<currentTask, myNextTime, executing, hopOnEvaluated,
                         pauseRequested, stopRequested>>
      BY <1>10, <2>7 DEF ReceivePeerShutdown
    <3>2. PausedByUser'
      BY <3>1 DEF NoRequest, TimelineInv, PausedByUser
    <3>3. Sound(channel', otherNextTask', Horizons)
      BY <2>5, <3>1 DEF NoRequest
    <3>4. QED
      BY <1>1, <2>2, <3>1, <3>2, <3>3, QuietTimeline
  <2>8. QED
    BY <2>6, <2>7
<1>11. QED
  BY <1>5, <1>6, <1>7, <1>8, <1>9, <1>10 DEF Receive

LEMMA NextTimeline == TimelineInv /\ [Next]_vars => TimelineInv'
<1> SUFFICES ASSUME TimelineInv, [Next]_vars PROVE TimelineInv'
  OBVIOUS
<1>1. ASSUME NEW p \in Participant, LocalStep(p) PROVE TimelineInv'
  BY <1>1, LocalStepTimeline
<1>2. ASSUME NEW p \in Participant, NEW q \in Participant, Receive(p, q) PROVE TimelineInv'
  BY <1>2, ReceiveTimeline
<1>3. CASE UNCHANGED vars
  <2>1. TypeOK'
    BY <1>3 DEF TimelineInv, TypeOK, vars, lifecycleVars, timeVars, peerVars, dynamicVars
  <2>2. PausedByUser'
    BY <1>3 DEF TimelineInv, PausedByUser, vars, lifecycleVars
  <2>3. QED
    BY <1>3, <2>1, <2>2, QuietTimeline
       DEF TimelineInv, vars, lifecycleVars, timeVars, peerVars
<1>4. QED
  BY <1>1, <1>2, <1>3 DEF Next

(* The times that a participant announces arrive in order at every peer,   *)
(* and none lies beyond the step it may execute next.                      *)
THEOREM TimelineHolds == Spec => []TimelineInv
BY InitTimeline, NextTimeline, PTL DEF Spec

-----------------------------------------------------------------------------
(* What the timeline means to peers.                                       *)

(* Every peer receives the times of a participant in order: the            *)
(* "Chonology error" of OnReceiveNextSimStep is never logged, as long as   *)
(* no asynchronous participant is paused.                                  *)
THEOREM ChronologyHolds ==
  ASSUME Async \cap MayPause = {}
  PROVE  Spec => []Chronology
<1>1. TimelineInv => Chronology
  <2> SUFFICES ASSUME TimelineInv, NEW p \in Participant, NEW q \in Participant
               PROVE  LET tasks == {i \in 1..Len(channel[q][p]) :
                                       channel[q][p][i].kind = "NextSimTask"}
                      IN  /\ \A i, j \in tasks :
                                i < j => channel[q][p][i].timePoint <= channel[q][p][j].timePoint
                          /\ q \in known[p] => \A i \in tasks :
                                otherNextTask[p][q].timePoint <= channel[q][p][i].timePoint
    BY DEF Chronology
  <2>1. InOrder(channel[q][p], q, otherNextTask[p][q].timePoint, Horizons[q])
    BY DEF TimelineInv, Sound
  <2>2. q \in Steady
    BY DEF Steady
  <2>3. QED
    BY <2>1, <2>2 DEF InOrder, IsTask
<1>2. QED
  BY <1>1, TimelineHolds, PTL

(* No peer knows a time of a participant beyond the step it is executing:  *)
(* a step is completed before the next one is announced, as long as no     *)
(* asynchronous participant is paused.                                     *)
THEOREM AnnouncedAfterCompletionHolds ==
  ASSUME Async \cap MayPause = {}
  PROVE  Spec => []AnnouncedAfterCompletion
<1>1. TimelineInv => AnnouncedAfterCompletion
  <2> SUFFICES ASSUME TimelineInv, NEW p \in Participant, executing[p],
                      currentTask[p].timePoint >= 0, NEW q \in Participant
               PROVE  otherNextTask[q][p].timePoint <= currentTask[p].timePoint
    BY DEF AnnouncedAfterCompletion
  <2>1. p \notin MayPause
    BY DEF TimelineInv, OwnOrder
  <2>2. Horizons[p] = currentTask[p].timePoint
    BY <2>1 DEF Horizons, Horizon
  <2>3. InOrder(channel[p][q], p, otherNextTask[q][p].timePoint, Horizons[p])
    BY DEF TimelineInv, Sound
  <2>4. QED
    BY <2>2, <2>3 DEF InOrder
<1>2. QED
  BY <1>1, TimelineHolds, PTL

\* Nobody knows a time of a participant beyond its next step.
KnownNotBeyondNext ==
    \A p, q \in Participant : otherNextTask[q][p].timePoint <= myNextTime[p]

LEMMA KnownBounded == TimelineInv => KnownNotBeyondNext
<1> SUFFICES ASSUME TimelineInv, NEW p \in Participant, NEW q \in Participant
             PROVE  otherNextTask[q][p].timePoint <= myNextTime[p]
  BY DEF KnownNotBeyondNext
<1>1. /\ Horizons[p] \in Nat
      /\ Horizons[p] <= myNextTime[p]
      /\ myNextTime[p] \in Nat
      /\ otherNextTask[q][p].timePoint \in TimePoint
  BY HorizonsType DEF TimelineInv, Times, TypeOK, Task
<1>2. otherNextTask[q][p].timePoint <= Horizons[p]
  BY DEF TimelineInv, Sound, InOrder
<1>3. QED
  BY <1>1, <1>2 DEF TimePoint

LEMMA KnownBoundedNext == TimelineInv' => KnownNotBeyondNext'
BY KnownBounded, PTL

-----------------------------------------------------------------------------
(* The steps in which virtual time passes.                                 *)

\* p advances the time, from what it knows of the peers kn.
Advances(p, kn, ot) ==
    /\ IsTimeAdvancePossible(p, kn, ot)
    /\ \E start \in StartTimes(p, kn, ot) : \E dur :
          /\ currentTask' = [currentTask EXCEPT ![p] = [timePoint |-> start, duration |-> dur]]
          /\ myNextTime' = [myNextTime EXCEPT ![p] = start + dur]

LEMMA UpdateAdvances ==
  ASSUME NEW p, NEW dyn, NEW kn, NEW ot, NEW ch, NEW td,
         ProcessSimulationTimeUpdate(p, dyn, kn, ot, ch, td)
  PROVE  UNCHANGED currentTask \/ Advances(p, kn, ot)
<1>1. CASE ExecuteStep(p, dyn, kn, ot, ch, td)
  BY <1>1 DEF ExecuteStep, Advances
<1>2. QED
  BY <1>1 DEF ProcessSimulationTimeUpdate, SkipStep, AbortHopOn

LEMMA OnlyUpdatesAdvance ==
  ASSUME TypeOK, [Next]_vars
  PROVE  UNCHANGED currentTask \/ \E p \in Participant : Advances(p, known'[p], otherNextTask'[p])
<1>1. ASSUME NEW p \in Participant, LocalStep(p)
      PROVE  UNCHANGED currentTask \/ Advances(p, known'[p], otherNextTask'[p])
  <2>1. CASE UpdateTask(p)
    <3>1. /\ ProcessSimulationTimeUpdate(p, dynamicStepEnabled[p], known[p], otherNextTask[p],
                                       channel, Popped(p))
          /\ known' = known /\ otherNextTask' = otherNextTask
      BY <2>1 DEF UpdateTask, peerVars
    <3>2. QED
      BY <3>1, UpdateAdvances
  <2>2. CASE ~UpdateTask(p)
    BY <1>1, <2>2 DEF LocalStep, StartLifecycle, EnterRunning, CallPause, CallContinue, CallStop,
         CompleteSimulationStep, RequestTask, PauseTask, ContinueTask, StopTask,
         SystemStopping, Disconnect, timeVars
  <2>3. QED
    BY <2>1, <2>2
<1>2. ASSUME NEW p \in Participant, NEW q \in Participant, Receive(p, q)
      PROVE  UNCHANGED currentTask \/ Advances(p, known'[p], otherNextTask'[p])
  <2>1. CASE ReceiveNextSimTask(p, q)
    <3>1. /\ ProcessSimulationTimeUpdate(p, dynamicStepEnabled[p], known[p], otherNextTask'[p],
                                       Taken(p, q), todo)
          /\ known' = known
      BY <2>1 DEF ReceiveNextSimTask
    <3>2. QED
      BY <3>1, UpdateAdvances
  <2>2. CASE ReceivePeerShutdown(p, q)
    <3> DEFINE peers == known[p] \ {q}
               others == [otherNextTask[p] EXCEPT ![q] = UnknownTask]
             requests == dynamicStepPeers[p] \ {q}
    <3>1. \/ ProcessSimulationTimeUpdate(p, DynamicStepEnabled(p, requests), peers, others,
                                      Taken(p, q), todo)
          \/ UNCHANGED currentTask
      BY <2>2 DEF ReceivePeerShutdown
    <3>2. known'[p] = peers /\ otherNextTask'[p] = others
      BY <2>2 DEF ReceivePeerShutdown, TypeOK
    <3> HIDE DEF peers, others, requests
    <3>3. QED
      BY <3>1, <3>2, UpdateAdvances
  <2>3. CASE ~ReceiveNextSimTask(p, q) /\ ~ReceivePeerShutdown(p, q)
    BY <1>2, <2>3 DEF Receive, ReceiveServiceCreated, ReceiveCall, ReceiveCallReturn,
         ReceiveAbortSimulation, timeVars
  <2>4. QED
    BY <2>1, <2>2, <2>3
<1>3. CASE UNCHANGED vars
  BY <1>3 DEF vars, timeVars
<1>4. QED
  BY <1>1, <1>2, <1>3 DEF Next

(* A step that starts at the announced time is in time order with the next *)
(* steps of all known participants, in every configuration.                *)
THEOREM AnnouncedStepsInTimeOrderHolds == Spec => AnnouncedStepsInTimeOrder
<1> DEFINE TimeOrder ==
      \A p \in Participant : Steps(p) /\ currentTask'[p].timePoint = myNextTime[p] =>
          \A q \in known'[p] : currentTask'[p].timePoint <= myNextTime[q]
<1>1. TimelineInv /\ [Next]_vars => TimeOrder
  <2> SUFFICES ASSUME TimelineInv, [Next]_vars, NEW p \in Participant, Steps(p),
                      NEW q \in known'[p]
               PROVE  myNextTime[p] <= myNextTime[q]
    OBVIOUS
  <2>1. TypeOK /\ TimelineInv' /\ TypeOK'
    BY NextTimeline DEF TimelineInv
  <2>2. q \in Participant /\ myNextTime[p] \in Nat
    BY <2>1 DEF TypeOK
  <2>3. PICK a \in Participant : Advances(a, known'[a], otherNextTask'[a])
    BY <2>1, OnlyUpdatesAdvance DEF Steps
  <2>4. a = p
    BY <2>1, <2>3 DEF Advances, Steps, TypeOK
  <2>5. CASE q = p
    BY <2>2, <2>5
  <2>6. CASE q # p
    <3>1. myNextTime[p] <= otherNextTask'[p][q].timePoint
      <4>1. ~(myNextTime[p] > otherNextTask'[p][q].timePoint)
        BY <2>3, <2>4 DEF Advances, IsTimeAdvancePossible, OtherParticipantHasLowerTimepoint
      <4>2. otherNextTask'[p][q].timePoint \in TimePoint
        BY <2>1, <2>2 DEF TypeOK, Task
      <4>3. QED
        BY <2>2, <4>1, <4>2 DEF TimePoint
    <3>2. otherNextTask'[p][q].timePoint <= myNextTime'[q]
      BY <2>1, <2>2, KnownBoundedNext DEF KnownNotBeyondNext
    <3>3. myNextTime'[q] = myNextTime[q] /\ myNextTime[q] \in Nat
      BY <2>1, <2>2, <2>3, <2>4, <2>6 DEF Advances, TypeOK
    <3>4. otherNextTask'[p][q].timePoint \in TimePoint
      BY <2>1, <2>2 DEF TypeOK, Task
    <3>5. QED
      BY <2>2, <3>1, <3>2, <3>3, <3>4 DEF TimePoint
  <2>7. QED
    BY <2>5, <2>6
<1>2. QED
  BY <1>1, TimelineHolds, PTL DEF Spec, AnnouncedStepsInTimeOrder

-----------------------------------------------------------------------------
(* Participants that start together.                                       *)

\* What p sends if nobody joins late, given the lifecycle states st.
Usable(p, st) ==
    [kind : {"NextSimTask"}, timePoint : TimePoint, duration : {StepSize[p]}]
        \cup [kind : {"Call", "CallReturn"}]
        \cup (IF st[p] = "Gone" THEN PeerShutdown ELSE {})

Clean(ch, st) == \A p, q \in Participant : ch[p][q] \in Seq(Usable(p, st))

NoAborts(td) == \A p \in Participant : td[p] \in Seq(PostedTask \ {"Abort"})

FullSteps(ot) ==
    \A p, q \in Participant : ot[q][p].timePoint = -1 \/ ot[q][p].duration = StepSize[p]

\* While a participant that is present has not executed its first step, nobody
\* has got beyond its own first step.
FirstStepTogether ==
    \A p, q \in Participant : state[p] # "Gone" /\ currentTask[p].timePoint = -1 =>
        myNextTime[p] = 0 /\ myNextTime[q] <= StepSize[q]

TogetherInv ==
    /\ \A p \in Participant : state[p] # "Down"
    /\ Clean(channel, state)
    /\ NoAborts(todo)
    /\ FullSteps(otherNextTask)
    /\ \A p, q \in Participant : p # q /\ state[q] # "Gone" => q \in known[p]
    /\ FirstStepTogether

LEMMA SeqSubset ==
  ASSUME NEW S, NEW T, S \subseteq T, NEW s \in Seq(S)
  PROVE  s \in Seq(T)
OBVIOUS

LEMMA CleanAppend ==
  ASSUME NEW ch \in Channels, NEW ch2 \in Channels, NEW st, Clean(ch, st),
         NEW p \in Participant, NEW m \in Usable(p, st),
         \A a, b \in Participant :
            ch2[a][b] = ch[a][b] \/ (a = p /\ ch2[a][b] = Append(ch[a][b], m))
  PROVE  Clean(ch2, st)
<1> SUFFICES ASSUME NEW a \in Participant, NEW b \in Participant
             PROVE  ch2[a][b] \in Seq(Usable(a, st))
  BY DEF Clean
<1>1. ch[a][b] \in Seq(Usable(a, st))
  BY DEF Clean
<1>2. a = p => Append(ch[a][b], m) \in Seq(Usable(a, st))
  BY <1>1
<1>3. QED
  BY <1>1, <1>2

LEMMA CleanBroadcast ==
  ASSUME NEW ch \in Channels, NEW st, Clean(ch, st),
         NEW p \in Participant, NEW m \in Usable(p, st), m \in Message
  PROVE  Clean(Broadcast(ch, p, m), st)
<1>1. Broadcast(ch, p, m) \in Channels
  BY BroadcastType
<1>2. \A a, b \in Participant :
         \/ Broadcast(ch, p, m)[a][b] = ch[a][b]
         \/ a = p /\ Broadcast(ch, p, m)[a][b] = Append(ch[a][b], m)
  BY DEF Broadcast, Channels
<1>3. QED
  BY <1>1, <1>2, CleanAppend

LEMMA CleanTaken ==
  ASSUME TypeOK, Clean(channel, state), NEW p \in Participant, NEW q \in Participant,
         channel[q][p] # <<>>
  PROVE  Clean(Taken(p, q), state) /\ Head(channel[q][p]) \in Usable(q, state)
<1>1. channel[q][p] \in Seq(Usable(q, state))
  BY DEF Clean
<1>2. Tail(channel[q][p]) \in Seq(Usable(q, state)) /\ Head(channel[q][p]) \in Usable(q, state)
  BY <1>1
<1>3. ASSUME NEW a \in Participant, NEW b \in Participant
      PROVE  Taken(p, q)[a][b] \in Seq(Usable(a, state))
  <2>1. channel[a][b] \in Seq(Usable(a, state))
    BY DEF Clean
  <2>2. CASE a = q /\ b = p
    <3>1. Taken(p, q)[a][b] = Tail(channel[q][p])
      BY <2>2, TakenLinks
    <3>2. QED
      BY <1>2, <2>2, <3>1
  <2>3. CASE ~(a = q /\ b = p)
    <3>1. Taken(p, q)[a][b] = channel[a][b]
      BY <2>3, TakenLinks
    <3>2. QED
      BY <2>1, <3>1
  <2>4. QED
    BY <2>2, <2>3
<1>4. QED
  BY <1>2, <1>3 DEF Clean

LEMMA CleanRequest ==
  ASSUME NEW p \in Participant, NEW next \in Nat, NEW ch \in Channels, NEW td \in Posted,
         NEW st, Clean(ch, st), NoAborts(td), RequestNextStep(p, next, ch, td)
  PROVE  Clean(channel', st) /\ NoAborts(todo')
<1> DEFINE m == SimTaskMsg(NextTaskOf(p, next))
<1>1. m \in Message /\ m \in Usable(p, st)
  BY NextTaskOfType, SimTaskMsgType DEF SimTaskMsg, NextTaskOf, Usable, TimePoint
<1>2. Clean(Broadcast(ch, p, m), st)
  BY <1>1, CleanBroadcast
<1>3. channel' = ch \/ channel' = Broadcast(ch, p, m)
  BY DEF RequestNextStep
<1>4. todo' = [td EXCEPT ![p] = Append(@, "Update")]
  BY DEF RequestNextStep, Post
<1>5. NoAborts(todo')
  BY <1>4 DEF NoAborts, Posted, PostedTask
<1>6. QED
  BY <1>2, <1>3, <1>5

(* A dynamic step is never longer than the step size.                      *)
LEMMA StepDurationsBound ==
  ASSUME NEW p \in Participant, NEW t \in Nat, NEW dyn \in BOOLEAN,
         NEW kn \in SUBSET Participant, NEW ot \in [Participant -> Task],
         NEW dur \in StepDurations(p, t, dyn, kn, ot)
  PROVE  dur \in Nat \ {0} /\ dur <= StepSize[p]
<1>1. dur \in Nat \ {0} /\ StepSize[p] \in Nat
  BY StepDurationsType, StepSizeAssumption
<1>2. CASE ~dyn
  BY <1>1, <1>2 DEF StepDurations
<1>3. CASE dyn
  <2> DEFINE ends == {t + StepSize[p]} \cup LaterTimes(t, kn, ot)
  <2>1. PICK e \in ends : dur = e - t /\ \A f \in ends : e <= f
    BY <1>3 DEF StepDurations
  <2>2. e <= t + StepSize[p]
    BY <2>1
  <2>3. e \in Int
    <3>1. CASE e = t + StepSize[p]
      BY <1>1, <3>1
    <3>2. CASE e \in LaterTimes(t, kn, ot)
      BY <3>2 DEF LaterTimes, Task, TimePoint
    <3>3. QED
      BY <3>1, <3>2
  <2>4. QED
    BY <1>1, <2>1, <2>2, <2>3
<1>4. QED
  BY <1>2, <1>3

\* p begins the step that it has announced.
Begins(p, kn, ot) ==
    /\ IsTimeAdvancePossible(p, kn, ot)
    /\ \E dur \in Nat \ {0} :
          /\ dur <= StepSize[p]
          /\ currentTask' = [currentTask EXCEPT ![p] = [timePoint |-> myNextTime[p], duration |-> dur]]
          /\ myNextTime' = [myNextTime EXCEPT ![p] = myNextTime[p] + dur]

(* Without a hop on, a time update sends and posts nothing unusual.        *)
LEMMA UpdateTogether ==
  ASSUME TypeOK, NEW p \in Participant, NEW dyn \in BOOLEAN,
         NEW kn \in SUBSET Participant, NEW ot \in [Participant -> Task],
         NEW ch \in Channels, NEW td \in Posted, Clean(ch, state), NoAborts(td),
         state[p] # "Gone" => ~IsHopOn(p, kn, ot),
         ProcessSimulationTimeUpdate(p, dyn, kn, ot, ch, td)
  PROVE  /\ Clean(channel', state)
         /\ NoAborts(todo')
         /\ UNCHANGED <<currentTask, myNextTime>> \/ Begins(p, kn, ot)
<1>1. CASE SkipStep(p, kn, ot, ch, td)
  BY <1>1 DEF SkipStep, NoRequest
<1>2. CASE AbortHopOn(p, kn, ot, ch, td)
  BY <1>2 DEF AbortHopOn, IsTimeAdvancePossible, MayRequest
<1>3. CASE ExecuteStep(p, dyn, kn, ot, ch, td)
  <2>1. IsTimeAdvancePossible(p, kn, ot) /\ state[p] = "Running"
    BY <1>3 DEF ExecuteStep, IsTimeAdvancePossible, MayRequest
  <2>2. StartTimes(p, kn, ot) = {myNextTime[p]}
    BY <2>1 DEF StartTimes
  <2>3. PICK call \in HandlerCalls(p), dur \in StepDurations(p, myNextTime[p], dyn, kn, ot) :
           /\ currentTask' = [currentTask EXCEPT ![p] = [timePoint |-> myNextTime[p], duration |-> dur]]
           /\ myNextTime' = [myNextTime EXCEPT ![p] = myNextTime[p] + dur]
           /\ \/ call # "None" /\ NoRequest(ch, Post(td, p, call))
              \/ call = "None" /\ NoRequest(ch, td)
              \/ RequestNextStep(p, myNextTime[p] + dur, ch, td)
    BY <1>3, <2>2 DEF ExecuteStep
  <2>4. myNextTime[p] \in Nat
    BY DEF TypeOK
  <2>5. dur \in Nat \ {0} /\ dur <= StepSize[p] /\ myNextTime[p] + dur \in Nat
    BY <2>4, StepDurationsBound
  <2>6. Begins(p, kn, ot)
    BY <2>1, <2>3, <2>5 DEF Begins
  <2>7. Clean(channel', state) /\ NoAborts(todo')
    <3>1. CASE call # "None" /\ NoRequest(ch, Post(td, p, call))
      <4>1. call \in PostedTask \ {"Abort"}
        BY <3>1 DEF HandlerCalls, PostedTask
      <4>2. todo' = [td EXCEPT ![p] = Append(@, call)]
        BY <3>1 DEF NoRequest, Post
      <4>3. NoAborts(todo')
        BY <4>1, <4>2 DEF NoAborts, Posted
      <4>4. QED
        BY <3>1, <4>3 DEF NoRequest
    <3>2. CASE NoRequest(ch, td)
      BY <3>2 DEF NoRequest
    <3>3. CASE RequestNextStep(p, myNextTime[p] + dur, ch, td)
      BY <2>5, <3>3, CleanRequest
    <3>4. QED
      BY <2>3, <3>1, <3>2, <3>3
  <2>8. QED
    BY <2>6, <2>7
<1>4. QED
  BY <1>1, <1>2, <1>3 DEF ProcessSimulationTimeUpdate

(* Nobody is found to have advanced before the own first step: a           *)
(* simulation that starts together is not mistaken for a running one.      *)
LEMMA NoHopOn ==
  ASSUME TypeOK, FirstStepTogether, NEW p \in Participant, state[p] # "Gone",
         NEW kn \in SUBSET Participant, NEW ot \in [Participant -> Task],
         \A q \in Participant : /\ ot[q].timePoint <= myNextTime[q]
                                /\ ot[q].timePoint = -1 \/ ot[q].duration = StepSize[q]
  PROVE  ~IsHopOn(p, kn, ot)
<1> SUFFICES ASSUME currentTask[p].timePoint = -1, NEW q \in AdvancedPeers(kn, ot)
             PROVE  FALSE
  BY DEF IsHopOn
<1>1. q \in Participant /\ ot[q].timePoint > ot[q].duration
  BY DEF AdvancedPeers
<1>2. /\ ot[q].timePoint \in TimePoint /\ ot[q].duration \in Nat
      /\ myNextTime[q] \in Nat /\ StepSize[q] \in Nat
  BY <1>1, StepSizeAssumption DEF TypeOK, Task
<1>3. ot[q].timePoint # -1
  BY <1>1, <1>2
<1>4. ot[q].duration = StepSize[q] /\ ot[q].timePoint <= myNextTime[q]
  BY <1>1, <1>3
<1>5. myNextTime[q] <= StepSize[q]
  BY <1>1 DEF FirstStepTogether
<1>6. QED
  BY <1>1, <1>2, <1>4, <1>5 DEF TimePoint

\* p executes the next step of the common time line.
StepsNext(p) ==
    /\ state[p] # "Gone"
    /\ \A q \in Participant : state[q] # "Gone" => myNextTime[p] <= myNextTime[q]
    /\ currentTask'[p].timePoint = myNextTime[p]
    /\ myNextTime'[p] \in Nat /\ myNextTime'[p] > myNextTime[p]
    /\ \A q \in Participant \ {p} :
          currentTask'[q] = currentTask[q] /\ myNextTime'[q] = myNextTime[q]

LEMMA BeginsTogether ==
  ASSUME TypeOK, FirstStepTogether, UNCHANGED state, NEW p \in Participant,
         NEW kn \in SUBSET Participant, NEW ot \in [Participant -> Task],
         \A q \in Participant : ot[q].timePoint <= myNextTime[q],
         \A q \in Participant : p # q /\ state[q] # "Gone" => q \in kn,
         Begins(p, kn, ot)
  PROVE  StepsNext(p) /\ FirstStepTogether'
<1>1. PICK dur \in Nat \ {0} :
         /\ dur <= StepSize[p]
         /\ currentTask' = [currentTask EXCEPT ![p] = [timePoint |-> myNextTime[p], duration |-> dur]]
         /\ myNextTime' = [myNextTime EXCEPT ![p] = myNextTime[p] + dur]
  BY DEF Begins
<1>2. \A q \in Participant : /\ myNextTime[q] \in Nat
                             /\ ot[q].timePoint \in TimePoint
                             /\ StepSize[q] \in Nat
  BY StepSizeAssumption DEF TypeOK, Task
<1>3. state[p] = "Running"
  BY DEF Begins, IsTimeAdvancePossible, MayRequest
<1>4. ASSUME NEW q \in Participant, state[q] # "Gone"
      PROVE  myNextTime[p] <= myNextTime[q]
  <2>1. CASE q = p
    BY <1>2, <2>1
  <2>2. CASE q # p
    <3>1. ~(myNextTime[p] > ot[q].timePoint)
      BY <1>4, <2>2 DEF Begins, IsTimeAdvancePossible, OtherParticipantHasLowerTimepoint
    <3>2. ot[q].timePoint <= myNextTime[q]
      OBVIOUS
    <3>3. QED
      BY <1>2, <3>1, <3>2 DEF TimePoint
  <2>3. QED
    BY <2>1, <2>2
<1>5. /\ currentTask'[p].timePoint = myNextTime[p]
      /\ myNextTime'[p] = myNextTime[p] + dur
      /\ \A q \in Participant \ {p} :
            currentTask'[q] = currentTask[q] /\ myNextTime'[q] = myNextTime[q]
  BY <1>1 DEF TypeOK
<1>6. StepsNext(p)
  BY <1>2, <1>3, <1>4, <1>5 DEF StepsNext
<1>7. ASSUME NEW a \in Participant, NEW b \in Participant,
             state'[a] # "Gone", currentTask'[a].timePoint = -1
      PROVE  myNextTime'[a] = 0 /\ myNextTime'[b] <= StepSize[b]
  <2>1. a # p
    BY <1>2, <1>5, <1>7
  <2>2. myNextTime[a] = 0 /\ myNextTime'[a] = 0 /\ myNextTime[b] <= StepSize[b]
    BY <1>5, <1>7, <2>1 DEF FirstStepTogether
  <2>3. CASE b # p
    BY <1>5, <2>2, <2>3
  <2>4. CASE b = p
    <3>1. myNextTime[p] <= 0
      BY <1>4, <1>7, <2>2
    <3>2. QED
      BY <1>1, <1>2, <1>5, <2>2, <2>4, <3>1
  <2>5. QED
    BY <2>2, <2>3, <2>4
<1>8. QED
  BY <1>6, <1>7 DEF FirstStepTogether

\* What the abstract time line sees of a step.
AbstractStep ==
    \/ UNCHANGED <<currentTask, myNextTime>>
       /\ \A p \in Participant : state'[p] = "Gone" <=> state[p] = "Gone"
    \/ UNCHANGED state /\ \E p \in Participant : StepsNext(p)
    \/ \E p \in Participant : /\ state[p] # "Gone"
                              /\ state' = [state EXCEPT ![p] = "Gone"]
                              /\ UNCHANGED <<currentTask, myNextTime>>

LEMMA QuietTogether ==
  ASSUME TypeOK, TogetherInv, Clean(channel', state'), NoAborts(todo'),
         UNCHANGED <<currentTask, myNextTime, known, otherNextTask>>,
         \A p \in Participant : state'[p] # "Down"
                                /\ (state'[p] # "Gone" => state[p] # "Gone")
  PROVE  TogetherInv'
<1>1. FullSteps(otherNextTask')
  BY DEF TogetherInv
<1>2. FirstStepTogether'
  BY DEF TogetherInv, FirstStepTogether
<1>3. QED
  BY <1>1, <1>2 DEF TogetherInv

LEMMA PoppedNoAborts ==
  ASSUME TypeOK, NoAborts(todo), NEW p \in Participant, todo[p] # <<>>
  PROVE  NoAborts(Popped(p))
<1>1. todo[p] \in Seq(PostedTask \ {"Abort"})
  BY DEF NoAborts
<1>2. Tail(todo[p]) \in Seq(PostedTask \ {"Abort"})
  BY <1>1
<1>3. QED
  BY <1>2 DEF NoAborts, Popped, TypeOK

LEMMA PostNoAborts ==
  ASSUME NEW td \in Posted, NoAborts(td), NEW p \in Participant,
         NEW task \in PostedTask \ {"Abort"}
  PROVE  NoAborts(Post(td, p, task))
BY DEF NoAborts, Post, Posted

LEMMA LocalStepTogether ==
  ASSUME TimelineInv, TogetherInv, NEW p \in Participant, LocalStep(p)
  PROVE  TogetherInv' /\ AbstractStep
<1>1. /\ TypeOK /\ channel \in Channels /\ todo \in Posted
      /\ Clean(channel, state) /\ NoAborts(todo) /\ FullSteps(otherNextTask) /\ FirstStepTogether
      /\ state \in [Participant -> State]
      /\ myNextTime[p] \in Nat
  BY DEF TimelineInv, TogetherInv, TypeOK, Channels, Posted
<1>2. ASSUME \A q \in Participant : state'[q] = "Gone" <=> state[q] = "Gone"
      PROVE  Clean(channel, state')
  <2>1. \A q \in Participant : Usable(q, state') = Usable(q, state)
    BY <1>2 DEF Usable
  <2>2. QED
    BY <1>1, <2>1 DEF Clean
<1>3. ASSUME UNCHANGED <<channel, timeVars, peerVars>>, NoAborts(todo'),
             \A q \in Participant : state'[q] # "Down",
             \A q \in Participant : state'[q] = "Gone" <=> state[q] = "Gone"
      PROVE  TogetherInv' /\ AbstractStep
  BY <1>1, <1>2, <1>3, QuietTogether DEF timeVars, peerVars, AbstractStep
<1>4. ASSUME UNCHANGED <<currentTask, myNextTime, peerVars>>,
             NEW td \in Posted, NoAborts(td),
             RequestNextStep(p, myNextTime[p], channel, td) \/ NoRequest(channel, td),
             \A q \in Participant : state'[q] # "Down",
             \A q \in Participant : state'[q] = "Gone" <=> state[q] = "Gone"
      PROVE  TogetherInv' /\ AbstractStep
  <2>1. Clean(channel', state') /\ NoAborts(todo')
    BY <1>1, <1>2, <1>4, CleanRequest DEF NoRequest
  <2>2. QED
    BY <1>1, <1>4, <2>1, QuietTogether DEF peerVars, AbstractStep
<1>5. \A q \in Participant : state[q] # "Down"
  BY DEF TogetherInv
<1>6. CASE StartLifecycle(p)
  BY <1>5, <1>6 DEF StartLifecycle
<1>7. CASE EnterRunning(p)
  <2>1. state' = [state EXCEPT ![p] = "Running"] /\ state[p] = "Initializing"
    BY <1>7 DEF EnterRunning
  <2>2. \A q \in Participant : state'[q] # "Down" /\ (state'[q] = "Gone" <=> state[q] = "Gone")
    BY <1>1, <1>5, <2>1
  <2>3. QED
    BY <1>1, <1>4, <1>7, <2>2 DEF EnterRunning
<1>8. CASE CallPause(p) \/ CallContinue(p) \/ CallStop(p)
  <2>1. PICK task \in {"Pause", "Continue", "Stop"} : todo' = Post(todo, p, task)
    BY <1>8 DEF CallPause, CallContinue, CallStop
  <2>2. NoAborts(todo')
    BY <1>1, <2>1, PostNoAborts DEF PostedTask
  <2>3. UNCHANGED <<state, channel, timeVars, peerVars>>
    BY <1>8 DEF CallPause, CallContinue, CallStop
  <2>4. QED
    BY <1>3, <1>5, <2>2, <2>3
<1>9. CASE CompleteSimulationStep(p)
  BY <1>1, <1>4, <1>5, <1>9 DEF CompleteSimulationStep, lifecycleVars
<1>10. CASE UpdateTask(p)
  <2>1. Popped(p) \in Posted /\ NoAborts(Popped(p))
    BY <1>1, <1>10, PoppedType, PoppedNoAborts DEF UpdateTask, Runs
  <2>2. /\ known[p] \in SUBSET Participant
        /\ otherNextTask[p] \in [Participant -> Task]
        /\ dynamicStepEnabled[p] \in BOOLEAN
        /\ UNCHANGED <<state, peerVars>>
        /\ ProcessSimulationTimeUpdate(p, dynamicStepEnabled[p], known[p], otherNextTask[p],
                                       channel, Popped(p))
    BY <1>1, <1>10 DEF UpdateTask, TypeOK
  <2>3. \A q \in Participant :
           /\ otherNextTask[p][q].timePoint <= myNextTime[q]
           /\ otherNextTask[p][q].timePoint = -1 \/ otherNextTask[p][q].duration = StepSize[q]
    BY <1>1, KnownBounded DEF KnownNotBeyondNext, FullSteps
  <2>4. state[p] # "Gone" => ~IsHopOn(p, known[p], otherNextTask[p])
    BY <1>1, <2>2, <2>3, NoHopOn
  <2>5. /\ Clean(channel', state')
        /\ NoAborts(todo')
        /\ UNCHANGED <<currentTask, myNextTime>> \/ Begins(p, known[p], otherNextTask[p])
    BY <1>1, <2>1, <2>2, <2>4, UpdateTogether
  <2>6. CASE UNCHANGED <<currentTask, myNextTime>>
    BY <1>1, <1>5, <2>2, <2>5, <2>6, QuietTogether DEF peerVars, AbstractStep
  <2>7. CASE Begins(p, known[p], otherNextTask[p])
    <3>1. \A q \in Participant : p # q /\ state[q] # "Gone" => q \in known[p]
      BY DEF TogetherInv
    <3>2. StepsNext(p) /\ FirstStepTogether'
      BY <1>1, <2>2, <2>3, <2>7, <3>1, BeginsTogether
    <3>3. TogetherInv'
      BY <2>2, <2>5, <3>2 DEF TogetherInv, peerVars, FullSteps
    <3>4. QED
      BY <2>2, <3>2, <3>3 DEF AbstractStep
  <2>8. QED
    BY <2>5, <2>6, <2>7
<1>11. CASE RequestTask(p)
  <2>1. Popped(p) \in Posted /\ NoAborts(Popped(p))
    BY <1>1, <1>11, PoppedType, PoppedNoAborts DEF RequestTask, Runs
  <2>2. QED
    BY <1>4, <1>5, <1>11, <2>1 DEF RequestTask, lifecycleVars
<1>12. CASE PauseTask(p) \/ ContinueTask(p) \/ StopTask(p)
  <2>1. Runs(p, "Pause") \/ Runs(p, "Continue") \/ Runs(p, "Stop") \/ Runs(p, "Abort")
    BY <1>12 DEF PauseTask, ContinueTask, StopTask
  <2>2. state[p] # "Gone" /\ Popped(p) \in Posted /\ NoAborts(Popped(p))
    BY <1>1, <2>1, PoppedType, PoppedNoAborts DEF Runs
  <2>3. NoAborts(Post(Popped(p), p, "Request"))
    BY <2>2, PostNoAborts DEF PostedTask
  <2>4. NoAborts(todo')
    BY <1>12, <2>2, <2>3 DEF PauseTask, ContinueTask, StopTask
  <2>5. PICK s \in {"Running", "Paused", "Halted"} : state' = [state EXCEPT ![p] = s]
    BY <1>12 DEF PauseTask, ContinueTask, StopTask
  <2>6. \A q \in Participant : state'[q] # "Down" /\ (state'[q] = "Gone" <=> state[q] = "Gone")
    BY <1>1, <1>5, <2>2, <2>5
  <2>7. UNCHANGED <<channel, timeVars, peerVars>>
    BY <1>12 DEF PauseTask, ContinueTask, StopTask
  <2>8. QED
    BY <1>3, <2>4, <2>6, <2>7
<1>13. CASE SystemStopping(p)
  <2>1. \A q \in Participant : state'[q] # "Down" /\ (state'[q] = "Gone" <=> state[q] = "Gone")
    BY <1>1, <1>5, <1>13 DEF SystemStopping
  <2>2. QED
    BY <1>1, <1>3, <1>13, <2>1 DEF SystemStopping
<1>14. CASE Disconnect(p)
  <2> DEFINE cleared == [q \in Participant |-> [channel[q] EXCEPT ![p] = <<>>]]
  <2>1. PICK graceful \in BOOLEAN :
           channel' = Broadcast(cleared, p, [kind |-> "PeerShutdown", graceful |-> graceful])
    BY <1>14 DEF Disconnect
  <2> DEFINE shutdown == [kind |-> "PeerShutdown", graceful |-> graceful]
  <2>2. /\ state[p] # "Gone"
        /\ state' = [state EXCEPT ![p] = "Gone"]
        /\ todo' = [todo EXCEPT ![p] = <<>>]
        /\ UNCHANGED <<timeVars, peerVars>>
    BY <1>14 DEF Disconnect
  <2>3. cleared \in Channels
    BY <1>1 DEF Channels, Message
  <2>4. \A a, b \in Participant : cleared[a][b] = channel[a][b] \/ cleared[a][b] = <<>>
    BY <1>1 DEF Channels
  <2>5. \A a \in Participant : Usable(a, state) \subseteq Usable(a, state')
    BY <1>1, <2>2 DEF Usable
  <2>6. Clean(cleared, state')
    <3> SUFFICES ASSUME NEW a \in Participant, NEW b \in Participant
                 PROVE  cleared[a][b] \in Seq(Usable(a, state'))
      BY DEF Clean
    <3> HIDE DEF cleared
    <3>1. channel[a][b] \in Seq(Usable(a, state)) /\ <<>> \in Seq(Usable(a, state'))
      BY <1>1 DEF Clean
    <3>2. channel[a][b] \in Seq(Usable(a, state'))
      BY <2>5, <3>1, SeqSubset
    <3>3. QED
      BY <2>4, <3>1, <3>2
  <2>7. shutdown \in Message /\ shutdown \in Usable(p, state')
    BY <1>1, <2>2 DEF Message, PeerShutdown, Usable
  <2>8. Clean(channel', state')
    <3> HIDE DEF cleared, shutdown
    <3>1. channel' = Broadcast(cleared, p, shutdown)
      BY <2>1 DEF shutdown
    <3>2. QED
      BY <2>3, <2>6, <2>7, <3>1, CleanBroadcast
  <2>9. NoAborts(todo')
    BY <1>1, <2>2 DEF NoAborts
  <2>10. \A q \in Participant : state'[q] # "Down" /\ (state'[q] # "Gone" => state[q] # "Gone")
    BY <1>1, <1>5, <2>2
  <2>11. TogetherInv'
    BY <1>1, <2>2, <2>8, <2>9, <2>10, QuietTogether DEF timeVars, peerVars
  <2>12. QED
    BY <2>2, <2>11 DEF AbstractStep, timeVars
<1>15. QED
  BY <1>6, <1>7, <1>8, <1>9, <1>10, <1>11, <1>12, <1>13, <1>14 DEF LocalStep

LEMMA ReceiveTogether ==
  ASSUME TimelineInv, TimelineInv', TogetherInv, NEW p \in Participant, NEW q \in Participant,
         Receive(p, q)
  PROVE  TogetherInv' /\ AbstractStep
<1> DEFINE m == Head(channel[q][p])
<1>1. /\ TypeOK /\ TypeOK' /\ channel \in Channels /\ todo \in Posted
      /\ Clean(channel, state) /\ NoAborts(todo) /\ FullSteps(otherNextTask) /\ FirstStepTogether
      /\ \A a \in Participant : state[a] # "Down"
      /\ \A a, b \in Participant : a # b /\ state[b] # "Gone" => b \in known[a]
  BY DEF TimelineInv, TogetherInv, TypeOK, Channels, Posted
<1>2. channel[q][p] # <<>>
  BY DEF Receive, Receives, ReceiveNextSimTask, ReceiveServiceCreated, ReceiveCall,
         ReceiveCallReturn, ReceiveAbortSimulation, ReceivePeerShutdown
<1>3. Taken(p, q) \in Channels /\ Clean(Taken(p, q), state) /\ m \in Usable(q, state)
  BY <1>1, <1>2, TakenType, CleanTaken
<1>4. m.kind \notin {"ServiceCreated", "AbortSimulation"}
  BY <1>3 DEF Usable, PeerShutdown
\* The time update of a handler that leaves the peers known'[p] with the tasks
\* otherNextTask'[p].
<1>5. ASSUME NEW dyn \in BOOLEAN, UNCHANGED state, FullSteps(otherNextTask'),
             \A a, b \in Participant : a # b /\ state[b] # "Gone" => b \in known'[a],
             ProcessSimulationTimeUpdate(p, dyn, known'[p], otherNextTask'[p], Taken(p, q), todo)
      PROVE  TogetherInv' /\ AbstractStep
  <2>1. known'[p] \in SUBSET Participant /\ otherNextTask'[p] \in [Participant -> Task]
    BY <1>1 DEF TypeOK
  <2>2. ASSUME NEW a \in Participant
        PROVE  /\ otherNextTask'[p][a].timePoint <= myNextTime[a]
               /\ otherNextTask'[p][a].timePoint = -1 \/ otherNextTask'[p][a].duration = StepSize[a]
    <3>1. \/ otherNextTask'[p][a].timePoint <= myNextTime[a]
          \/ otherNextTask'[p][a] = otherNextTask[p][a]
          \/ otherNextTask'[p][a].timePoint = -1
          \/ a = q /\ IsTask(m) /\ otherNextTask'[p][a].timePoint = m.timePoint
      <4>1. CASE ReceiveNextSimTask(p, q)
        BY <1>1, <4>1 DEF ReceiveNextSimTask, Receives, IsTask, TypeOK
      <4>2. CASE ReceivePeerShutdown(p, q)
        BY <1>1, <4>2 DEF ReceivePeerShutdown, UnknownTask, TypeOK
      <4>3. CASE ~ReceiveNextSimTask(p, q) /\ ~ReceivePeerShutdown(p, q)
        BY <4>3 DEF Receive, ReceiveServiceCreated, ReceiveCall, ReceiveCallReturn,
             ReceiveAbortSimulation, peerVars
      <4>4. QED
        BY <4>1, <4>2, <4>3
    <3>2. otherNextTask[p][a].timePoint <= myNextTime[a] /\ -1 <= myNextTime[a]
      BY <1>1, KnownBounded DEF KnownNotBeyondNext, TypeOK
    <3>3. IsTask(m) => m.timePoint <= myNextTime[q]
      <4> SUFFICES ASSUME IsTask(m) PROVE m.timePoint <= myNextTime[q]
        OBVIOUS
      <4>1. channel[q][p] \in Seq(Message) /\ 1 \in 1..Len(channel[q][p]) /\ m = channel[q][p][1]
        BY <1>1, <1>2 DEF TypeOK
      <4>2. m.timePoint <= Horizons[q]
        BY <4>1 DEF TimelineInv, Sound, InOrder
      <4>3. m.timePoint \in TimePoint
        BY <4>1, TaskTime
      <4>4. Horizons[q] \in Nat /\ Horizons[q] <= myNextTime[q] /\ myNextTime[q] \in Nat
        BY <1>1, HorizonsType DEF TimelineInv, Times, TypeOK
      <4>5. QED
        BY <4>2, <4>3, <4>4 DEF TimePoint
    <3>4. QED
      BY <1>5, <3>1, <3>2, <3>3 DEF FullSteps
  <2>3. state[p] # "Gone" => ~IsHopOn(p, known'[p], otherNextTask'[p])
    BY <1>1, <2>1, <2>2, NoHopOn
  <2>4. /\ Clean(channel', state')
        /\ NoAborts(todo')
        /\ UNCHANGED <<currentTask, myNextTime>> \/ Begins(p, known'[p], otherNextTask'[p])
    BY <1>1, <1>3, <1>5, <2>1, <2>3, UpdateTogether
  <2>5. CASE UNCHANGED <<currentTask, myNextTime>>
    <3>1. FirstStepTogether'
      BY <1>1, <1>5, <2>5 DEF FirstStepTogether
    <3>2. QED
      BY <1>1, <1>5, <2>4, <2>5, <3>1 DEF TogetherInv, AbstractStep
  <2>6. CASE Begins(p, known'[p], otherNextTask'[p])
    <3>1. \A a \in Participant : p # a /\ state[a] # "Gone" => a \in known'[p]
      BY <1>5
    <3>2. StepsNext(p) /\ FirstStepTogether'
      BY <1>1, <1>5, <2>1, <2>2, <2>6, <3>1, BeginsTogether
    <3>3. QED
      BY <1>1, <1>5, <2>4, <3>2 DEF TogetherInv, AbstractStep
  <2>7. QED
    BY <2>4, <2>5, <2>6
<1>6. CASE ReceiveNextSimTask(p, q)
  <2> DEFINE task == [timePoint |-> m.timePoint, duration |-> m.duration]
  <2>1. /\ otherNextTask' = IF state[p] # "Down" /\ q \in known[p]
                            THEN [otherNextTask EXCEPT ![p][q] = task]
                            ELSE otherNextTask
        /\ ProcessSimulationTimeUpdate(p, dynamicStepEnabled[p], known'[p], otherNextTask'[p],
                                       Taken(p, q), todo)
        /\ UNCHANGED <<state, known>> /\ dynamicStepEnabled[p] \in BOOLEAN
    BY <1>1, <1>6 DEF ReceiveNextSimTask, TypeOK
  <2>2. m.duration = StepSize[q]
    BY <1>3, <1>6 DEF ReceiveNextSimTask, Receives, Usable, PeerShutdown
  <2>3. FullSteps(otherNextTask')
    <3> SUFFICES ASSUME NEW a \in Participant, NEW b \in Participant
                 PROVE  \/ otherNextTask'[b][a].timePoint = -1
                        \/ otherNextTask'[b][a].duration = StepSize[a]
      BY DEF FullSteps
    <3>1. \/ otherNextTask'[b][a] = otherNextTask[b][a]
          \/ a = q /\ otherNextTask'[b][a].duration = m.duration
      BY <1>1, <2>1 DEF TypeOK
    <3>2. QED
      BY <1>1, <2>2, <3>1 DEF FullSteps
  <2>4. QED
    BY <1>1, <1>5, <2>1, <2>3
<1>7. CASE ReceivePeerShutdown(p, q)
  <2> DEFINE peers == known[p] \ {q}
             others == [otherNextTask[p] EXCEPT ![q] = UnknownTask]
             requests == dynamicStepPeers[p] \ {q}
  <2>1. state[q] = "Gone"
    BY <1>3, <1>7 DEF ReceivePeerShutdown, Receives, Usable
  <2>2. /\ known' = [known EXCEPT ![p] = peers]
        /\ otherNextTask' = [otherNextTask EXCEPT ![p] = others]
        /\ UNCHANGED state
    BY <1>7 DEF ReceivePeerShutdown
  <2>3. known'[p] = peers /\ otherNextTask'[p] = others
    BY <1>1, <2>2 DEF TypeOK
  <2>4. \A a, b \in Participant : a # b /\ state[b] # "Gone" => b \in known'[a]
    BY <1>1, <2>1, <2>2 DEF TypeOK
  <2>5. FullSteps(otherNextTask')
    <3> SUFFICES ASSUME NEW a \in Participant, NEW b \in Participant
                 PROVE  \/ otherNextTask'[b][a].timePoint = -1
                        \/ otherNextTask'[b][a].duration = StepSize[a]
      BY DEF FullSteps
    <3>1. otherNextTask'[b][a] = otherNextTask[b][a] \/ otherNextTask'[b][a].timePoint = -1
      BY <1>1, <2>2 DEF UnknownTask, TypeOK
    <3>2. QED
      BY <1>1, <3>1 DEF FullSteps
  <2>6. CASE q \in known[p] /\ state[p] # "Down"
    <3>1. ProcessSimulationTimeUpdate(p, DynamicStepEnabled(p, requests), peers, others,
                                      Taken(p, q), todo)
      BY <1>7, <2>6 DEF ReceivePeerShutdown
    <3> HIDE DEF peers, others, requests
    <3>2. QED
      BY <1>5, <2>2, <2>3, <2>4, <2>5, <3>1, DynamicStepEnabledType
  <2>7. CASE ~(q \in known[p] /\ state[p] # "Down")
    <3>1. channel' = Taken(p, q) /\ todo' = todo /\ UNCHANGED <<currentTask, myNextTime>>
      BY <1>7, <2>7 DEF ReceivePeerShutdown, NoRequest
    <3>2. FirstStepTogether'
      BY <1>1, <2>2, <3>1 DEF FirstStepTogether
    <3>3. QED
      BY <1>1, <1>3, <2>2, <2>4, <2>5, <3>1, <3>2 DEF TogetherInv, AbstractStep
  <2>8. QED
    BY <2>6, <2>7
<1>8. CASE ReceiveCall(p, q)
  <2> DEFINE return == [kind |-> "CallReturn"]
             answered == [Taken(p, q) EXCEPT ![p][q] = Append(@, return)]
  <2>1. return \in Message /\ return \in Usable(p, state)
    BY SignalTypes DEF Usable
  <2>2. answered \in Channels
    BY <1>3, <2>1 DEF Channels
  <2>3. \A a, b \in Participant :
           \/ answered[a][b] = Taken(p, q)[a][b]
           \/ a = p /\ answered[a][b] = Append(Taken(p, q)[a][b], return)
    BY <1>3 DEF Channels
  <2>4. Clean(answered, state)
    <3> HIDE DEF answered, return
    <3>1. QED
      BY <1>3, <2>1, <2>2, <2>3, CleanAppend
  <2>5. channel' = answered \/ channel' = Taken(p, q)
    BY <1>8 DEF ReceiveCall
  <2>6. UNCHANGED <<lifecycleVars, todo, timeVars, peerVars>>
    BY <1>8 DEF ReceiveCall
  <2>7. Clean(channel', state') /\ NoAborts(todo')
    BY <1>1, <1>3, <2>4, <2>5, <2>6 DEF lifecycleVars
  <2>8. QED
    BY <1>1, <2>6, <2>7, QuietTogether DEF lifecycleVars, timeVars, peerVars, AbstractStep
<1>9. CASE ReceiveCallReturn(p, q)
  <2>1. channel' = Taken(p, q) /\ UNCHANGED <<lifecycleVars, todo, timeVars, known, otherNextTask>>
    BY <1>9 DEF ReceiveCallReturn
  <2>2. Clean(channel', state') /\ NoAborts(todo')
    BY <1>1, <1>3, <2>1 DEF lifecycleVars
  <2>3. QED
    BY <1>1, <2>1, <2>2, QuietTogether DEF lifecycleVars, timeVars, AbstractStep
<1>10. QED
  BY <1>4, <1>6, <1>7, <1>8, <1>9
     DEF Receive, ReceiveServiceCreated, ReceiveAbortSimulation, Receives

LEMMA InitTogether == AtStart = Participant /\ Init => TogetherInv
<1> SUFFICES ASSUME AtStart = Participant, Init PROVE TogetherInv
  OBVIOUS
<1>1. \A p, q \in Participant : <<>> \in Seq(Usable(p, state)) /\ channel[p][q] = <<>>
  BY DEF Init
<1>2. Clean(channel, state)
  BY <1>1 DEF Clean
<1>3. NoAborts(todo)
  BY DEF Init, NoAborts
<1>4. FullSteps(otherNextTask)
  BY DEF Init, FullSteps, UnknownTask
<1>5. FirstStepTogether
  BY StepSizeAssumption DEF Init, FirstStepTogether
<1>6. QED
  BY <1>2, <1>3, <1>4, <1>5 DEF TogetherInv, Init

LEMMA NextTogether ==
  TimelineInv /\ TimelineInv' /\ TogetherInv /\ [Next]_vars => TogetherInv' /\ AbstractStep
<1> SUFFICES ASSUME TimelineInv, TimelineInv', TogetherInv, [Next]_vars
             PROVE  TogetherInv' /\ AbstractStep
  OBVIOUS
<1>1. ASSUME NEW p \in Participant, LocalStep(p) PROVE TogetherInv' /\ AbstractStep
  BY <1>1, LocalStepTogether
<1>2. ASSUME NEW p \in Participant, NEW q \in Participant, Receive(p, q)
      PROVE  TogetherInv' /\ AbstractStep
  BY <1>2, ReceiveTogether
<1>3. CASE UNCHANGED vars
  <2>1. TypeOK /\ \A p \in Participant : state[p] # "Down"
    BY DEF TimelineInv, TogetherInv
  <2>2. /\ Clean(channel', state') /\ NoAborts(todo')
        /\ UNCHANGED <<state, currentTask, myNextTime, known, otherNextTask>>
    BY <1>3 DEF TogetherInv, vars, lifecycleVars, timeVars, peerVars
  <2>3. QED
    BY <2>1, <2>2, QuietTogether DEF AbstractStep
<1>4. QED
  BY <1>1, <1>2, <1>3 DEF Next

(* Participants that start together are never taken for late joiners,      *)
(* which would abort the simulation.                                       *)
THEOREM NoAbortAmongCoordinatedHolds ==
  ASSUME AtStart = Participant
  PROVE  Spec => []NoAbortAmongCoordinated
<1>1. TogetherInv => NoAbortAmongCoordinated
  <2> SUFFICES ASSUME TogetherInv, NEW p \in Participant, NEW i \in 1..Len(todo[p])
               PROVE  todo[p][i] # "Abort"
    BY DEF NoAbortAmongCoordinated
  <2>1. todo[p] \in Seq(PostedTask \ {"Abort"})
    BY DEF TogetherInv, NoAborts
  <2>2. QED
    BY <2>1
<1>2. Init => TogetherInv
  BY InitTogether
<1>3. QED
  BY <1>1, <1>2, NextTogether, TimelineHolds, PTL DEF Spec

LEMMA InitAbstract == AtStart = Participant /\ Init => VT!Init
BY DEF Init, VT!Init, UnknownTask

LEMMA StepAbstract ==
  TypeOK /\ TypeOK' /\ [Next]_vars /\ AbstractStep => [VT!Next]_(VT!vars)
<1> SUFFICES ASSUME TypeOK, TypeOK', AbstractStep PROVE [VT!Next]_(VT!vars)
  OBVIOUS
<1> DEFINE present == {p \in Participant : state[p] # "Gone"}
           now == [p \in Participant |-> currentTask[p].timePoint]
<1>1. CASE /\ UNCHANGED <<currentTask, myNextTime>>
           /\ \A p \in Participant : state'[p] = "Gone" <=> state[p] = "Gone"
  BY <1>1 DEF VT!vars
<1>2. CASE UNCHANGED state /\ \E p \in Participant : StepsNext(p)
  <2>1. PICK p \in Participant : StepsNext(p)
    BY <1>2
  <2>2. VT!Step(p)
    <3>1. p \in present /\ \A q \in present : myNextTime[p] <= myNextTime[q]
      BY <2>1 DEF StepsNext
    <3>2. now' = [now EXCEPT ![p] = myNextTime[p]]
      BY <2>1 DEF StepsNext
    <3>3. myNextTime' = [myNextTime EXCEPT ![p] = myNextTime'[p]]
      BY <2>1 DEF StepsNext, TypeOK
    <3>4. myNextTime'[p] \in Nat /\ myNextTime'[p] > myNextTime[p] /\ UNCHANGED present
      BY <1>2, <2>1 DEF StepsNext
    <3>5. QED
      BY <3>1, <3>2, <3>3, <3>4 DEF VT!Step
  <2>3. QED
    BY <2>2 DEF VT!Next
<1>3. CASE \E p \in Participant : /\ state[p] # "Gone"
                                  /\ state' = [state EXCEPT ![p] = "Gone"]
                                  /\ UNCHANGED <<currentTask, myNextTime>>
  <2>1. PICK p \in Participant : /\ state[p] # "Gone"
                                 /\ state' = [state EXCEPT ![p] = "Gone"]
                                 /\ UNCHANGED <<currentTask, myNextTime>>
    BY <1>3
  <2>2. p \in present /\ present' = present \ {p}
    BY <2>1 DEF TypeOK
  <2>3. VT!Leave(p)
    BY <2>1, <2>2 DEF VT!Leave
  <2>4. QED
    BY <2>3 DEF VT!Next
<1>4. QED
  BY <1>1, <1>2, <1>3 DEF AbstractStep

(* Participants that start together implement the abstract time line,      *)
(* whatever their modes and step sizes, and whoever pauses, stops, leaves  *)
(* or crashes: a step is executed only if no participant that is present   *)
(* has an earlier one left.                                                *)
THEOREM ImplementsVirtualTimeHolds ==
  ASSUME AtStart = Participant
  PROVE  Spec => ImplementsVirtualTime
<1>1. Init => TogetherInv /\ VT!Init
  BY InitTogether, InitAbstract
<1>2. QED
  BY <1>1, NextTogether, StepAbstract, TimelineHolds, TypeCorrect, PTL
     DEF Spec, ImplementsVirtualTime, VT!Spec

-----------------------------------------------------------------------------
(* A participant that joins those that started together.                   *)

\* a has not got beyond a first step at 0.
Unadvanced(a) == currentTask[a].timePoint <= 0 /\ myNextTime[a] <= StepSize[a]

\* What a sends of itself is its next step, at time next, or the asynchronous
\* step it executes, current.
LatestOf(a, x, current, next) ==
    \/ x.timePoint = next /\ x.duration = StepSize[a]
    \/ a \in Async /\ x.timePoint = current.timePoint /\ x.duration = current.duration

Latest(a, x) == LatestOf(a, x, currentTask[a], myNextTime[a])

\* Nobody can take a for advanced that is not.
Plain(a, x) == Unadvanced(a) => x.timePoint <= x.duration

\* Steps have the duration they are planned for.
OwnDuration(a) ==
    currentTask[a].timePoint >= 0 =>
        /\ myNextTime[a] = currentTask[a].timePoint + currentTask[a].duration
        /\ currentTask[a].duration <= StepSize[a]

\* The first participants are known to everybody as long as they are present.
FirstAreKnown ==
    \A q \in AtStart, a \in Participant : a # q /\ state[q] # "Gone" => q \in known[a]

\* Until all of them have executed their first step, nobody has got beyond it.
FirstStepsTogether ==
    \A q \in AtStart : state[q] # "Gone" /\ currentTask[q].timePoint = -1 =>
       \A a \in Participant :
          Unadvanced(a) /\ (currentTask[a].timePoint = -1 => myNextTime[a] = 0)

\* None of them is beyond the next step of another one.
FirstAreClose ==
    \A q, r \in AtStart : state[r] # "Gone" => currentTask[q].timePoint <= myNextTime[r]

\* An autonomous participant evaluates the hop on with its first step.
HopsOnOnce ==
    \A p \in Participant \ Coordinated : currentTask[p].timePoint = -1 => ~hopOnEvaluated[p]

\* Messages tell the truth about the participant that has sent them.
Truthful ==
    \A a, b \in Participant :
       /\ Plain(a, otherNextTask[b][a])
       /\ \A i \in 1..Len(channel[a][b]) :
             /\ channel[a][b][i].kind = "PeerShutdown" => state[a] = "Gone"
             /\ IsTask(channel[a][b][i]) => Plain(a, channel[a][b][i])

Carries(s, kind) == \E i \in 1..Len(s) : s[i].kind = kind

CreatedBeforeCall(s) ==
    \A i \in 1..Len(s) : s[i].kind = "Call" =>
       \E j \in 1..Len(s) : j < i /\ s[j].kind = "ServiceCreated"

\* The joiner p is not started; has q to hear of it; or is told the latest of q.
NotStarted(p, q) ==
    /\ state[p] = "Down"
    /\ p \notin known[q]
    /\ ~Carries(channel[p][q], "ServiceCreated")
    /\ ~Carries(channel[p][q], "Call")
    /\ ~Carries(channel[q][p], "CallReturn")

Announcing(p, q) ==
    /\ state[p] = "Initializing"
    /\ q \in awaiting[p]
    /\ p \notin known[q]
    /\ CreatedBeforeCall(channel[p][q])
    /\ ~Carries(channel[q][p], "CallReturn")

Informing(p, q) ==
    /\ state[p] = "Initializing"
    /\ q \in awaiting[p]
    /\ \E k \in 1..Len(channel[q][p]) :
          /\ IsTask(channel[q][p][k])
          /\ \A i \in 1..Len(channel[q][p]) :
                /\ i >= k /\ IsTask(channel[q][p][i]) => Latest(q, channel[q][p][i])
                /\ i < k => channel[q][p][i].kind # "CallReturn"

Informed(p, q) ==
    /\ Latest(q, otherNextTask[p][q])
    /\ \A i \in 1..Len(channel[q][p]) :
          IsTask(channel[q][p][i]) => Latest(q, channel[q][p][i])

JoinStage(p, q) ==
    \/ state[p] \in {"Halted", "Gone"}
    \/ NotStarted(p, q)
    \/ Announcing(p, q)
    \/ /\ state[p] # "Down"
       /\ p \in known[q]
       /\ currentTask[q].timePoint > 0 => Informing(p, q) \/ Informed(p, q)

JoinersAreInformed ==
    \A p \in Participant \ (AtStart \cup Coordinated), q \in AtStart :
       state[q] # "Gone" /\ currentTask[p].timePoint = -1 => JoinStage(p, q)

JoinInv ==
    /\ \A a \in Participant : OwnDuration(a)
    /\ FirstAreKnown
    /\ FirstStepsTogether
    /\ FirstAreClose
    /\ HopsOnOnce
    /\ Truthful
    /\ JoinersAreInformed

-----------------------------------------------------------------------------
(* What a step of TimeSync does to time, links, peers and states.          *)

HeadIs(a, b, kind) == channel[a][b] # <<>> /\ Head(channel[a][b]).kind = kind

TaskOf(m) == [timePoint |-> m.timePoint, duration |-> m.duration]

\* a may send the message m to b.
Sends(a, b, m) ==
    /\ m \in Message
    /\ IsTask(m) => LatestOf(a, m, currentTask'[a], myNextTime'[a])
    /\ m.kind \in {"ServiceCreated", "Call"} => state[a] = "Down" /\ state'[a] = "Initializing"
    /\ m.kind = "CallReturn" => HeadIs(b, a, "Call")
    /\ m.kind = "PeerShutdown" => state'[a] = "Gone"

\* t is s with what a sends to b in one step.
Grown(a, b, s, t) ==
    \/ t = s
    \/ \E m : Sends(a, b, m) /\ m.kind # "Call" /\ t = Append(s, m)
    \/ \E m, n : /\ Sends(a, b, m) /\ Sends(a, b, n)
                  /\ m.kind # "Call" /\ (n.kind = "Call" => m.kind = "ServiceCreated")
                  /\ t = Append(Append(s, m), n)

\* b takes the first message of a.
Takes(a, b) ==
    /\ channel[a][b] # <<>>
    /\ state[b] # "Gone"
    /\ IsTask(Head(channel[a][b])) /\ state[b] # "Down" /\ a \in known[b] =>
          otherNextTask'[b][a] = TaskOf(Head(channel[a][b]))
    /\ HeadIs(a, b, "ServiceCreated") => a \in known'[b]

Remains(a, b, s) ==
    \/ s = channel[a][b]
    \/ s = <<>> /\ state'[b] = "Gone"
    \/ s = Tail(channel[a][b]) /\ Takes(a, b)

LinkStep(a, b) == \E s \in Seq(Message) : Remains(a, b, s) /\ Grown(a, b, s, channel'[a][b])

\* How b becomes known to a, is known and awaited.
PeerStep(a, b) ==
    /\ b \in known'[a] /\ b \notin known[a] =>
          /\ HeadIs(b, a, "ServiceCreated")
          /\ Resends(a) /\ a # b /\ state[b] # "Gone" =>
                \E m : /\ Sends(a, b, m) /\ IsTask(m)
                       /\ channel'[a][b] = Append(channel[a][b], m)
    /\ b \in known[a] /\ b \notin known'[a] => HeadIs(b, a, "PeerShutdown")
    /\ \/ otherNextTask'[a][b] = otherNextTask[a][b]
       \/ HeadIs(b, a, "NextSimTask") /\ otherNextTask'[a][b] = TaskOf(Head(channel[b][a]))
       \/ HeadIs(b, a, "PeerShutdown") /\ otherNextTask'[a][b] = UnknownTask
    /\ b \in awaiting[a] /\ b \notin awaiting'[a] =>
          state[a] = "Down" \/ HeadIs(b, a, "CallReturn") \/ HeadIs(b, a, "PeerShutdown")

Starts(a) ==
    /\ state[a] = "Down" /\ state'[a] = "Initializing"
    /\ awaiting'[a] = Connected(a)
    /\ UNCHANGED known
    /\ \A b \in Connected(a) :
          /\ channel'[b][a] = channel[b][a]
          /\ channel'[a][b] = Append(Append(channel[a][b], [kind |-> "ServiceCreated"]),
                                     [kind |-> "Call"])

StateStep(a) ==
    /\ \/ state'[a] = state[a]
       \/ Starts(a)
       \/ state[a] = "Initializing" /\ state'[a] = "Running" /\ awaiting[a] = {}
       \/ state[a] \in {"Running", "Paused"} /\ state'[a] \in {"Running", "Paused"}
       \/ state'[a] \in {"Halted", "Gone"}
    /\ state[a] = "Gone" => state'[a] = "Gone"

\* The time update p makes from what it knows of kn, if it is not skipped.
TimeChange(p, dyn, kn, ot) ==
    /\ IsTimeAdvancePossible(p, kn, ot)
    /\ hopOnEvaluated' = [hopOnEvaluated EXCEPT ![p] = TRUE]
    /\ \E start \in StartTimes(p, kn, ot) :
          \/ \E dur \in StepDurations(p, start, dyn, kn, ot) :
                /\ currentTask' = [currentTask EXCEPT ![p] = [timePoint |-> start, duration |-> dur]]
                /\ myNextTime' = [myNextTime EXCEPT ![p] = start + dur]
          \/ /\ p \in Coordinated
             /\ IsHopOn(p, kn, ot)
             /\ UNCHANGED currentTask
             /\ myNextTime' = [myNextTime EXCEPT ![p] = start]

TimeStep ==
    \/ UNCHANGED <<currentTask, myNextTime, hopOnEvaluated>>
    \/ UNCHANGED state /\ \E p \in Participant : TimeChange(p, dynamicStepEnabled'[p], known'[p], otherNextTask'[p])

Summary ==
    /\ TimeStep
    /\ \A a \in Participant : StateStep(a)
    /\ \A a, b \in Participant : LinkStep(a, b) /\ PeerStep(a, b)

LEMMA SameTime ==
  ASSUME UNCHANGED timeVars PROVE TimeStep
BY DEF timeVars, TimeStep

LEMMA SameStates ==
  ASSUME UNCHANGED state PROVE \A a \in Participant : StateStep(a)
BY DEF StateStep

LEMMA SamePeers ==
  ASSUME UNCHANGED peerVars PROVE \A a, b \in Participant : PeerStep(a, b)
BY DEF PeerStep, peerVars

LEMMA SameRemains == \A a, b \in Participant : Remains(a, b, channel[a][b])
BY DEF Remains

LEMMA LinksGrow ==
  ASSUME NEW ch \in Channels,
         \A a, b \in Participant : Remains(a, b, ch[a][b]),
         \A a, b \in Participant : Grown(a, b, ch[a][b], channel'[a][b])
  PROVE  \A a, b \in Participant : LinkStep(a, b)
BY ChannelType DEF LinkStep

LEMMA SameLinks ==
  ASSUME TypeOK, UNCHANGED channel PROVE \A a, b \in Participant : LinkStep(a, b)
<1>1. channel \in Channels
  BY DEF TypeOK, Channels
<1>2. \A a, b \in Participant : Grown(a, b, channel[a][b], channel'[a][b])
  BY DEF Grown
<1>3. QED
  BY <1>1, <1>2, SameRemains, LinksGrow

LEMMA TakenRemains ==
  ASSUME TypeOK, NEW p \in Participant, NEW q \in Participant, Takes(q, p)
  PROVE  \A a, b \in Participant : Remains(a, b, Taken(p, q)[a][b])
<1>1. channel[q][p] # <<>>
  BY DEF Takes
<1>2. QED
  BY <1>1, TakenLinks DEF Remains

LEMMA BroadcastGrows ==
  ASSUME NEW ch \in Channels, NEW p \in Participant, NEW m, m.kind # "Call",
         \A b \in Participant : Sends(p, b, m)
  PROVE  \A a, b \in Participant : Grown(a, b, ch[a][b], Broadcast(ch, p, m)[a][b])
<1>1. \A a, b \in Participant :
         \/ Broadcast(ch, p, m)[a][b] = ch[a][b]
         \/ a = p /\ Broadcast(ch, p, m)[a][b] = Append(ch[a][b], m)
  BY DEF Broadcast, Channels
<1>2. QED
  BY <1>1 DEF Grown

(* The announced step is the latest of the participant.                    *)
LEMMA NextTaskSent ==
  ASSUME NEW p \in Participant, NEW next \in Nat, myNextTime'[p] = next, NEW b \in Participant
  PROVE  LET m == SimTaskMsg(NextTaskOf(p, next))
         IN  Sends(p, b, m) /\ IsTask(m) /\ m.kind # "Call"
<1> DEFINE m == SimTaskMsg(NextTaskOf(p, next))
<1>1. m \in Message
  BY NextTaskOfType, SimTaskMsgType
<1>2. m.kind = "NextSimTask" /\ m.timePoint = next /\ m.duration = StepSize[p]
  BY DEF SimTaskMsg, NextTaskOf
<1>3. QED
  BY <1>1, <1>2 DEF Sends, IsTask, LatestOf

LEMMA RequestGrows ==
  ASSUME NEW ch \in Channels, NEW p \in Participant, NEW next \in Nat, NEW td,
         myNextTime'[p] = next, RequestNextStep(p, next, ch, td)
  PROVE  \A a, b \in Participant : Grown(a, b, ch[a][b], channel'[a][b])
<1> DEFINE m == SimTaskMsg(NextTaskOf(p, next))
<1>1. m.kind # "Call" /\ \A b \in Participant : Sends(p, b, m)
  BY NextTaskSent
<1>2. \A a, b \in Participant : Grown(a, b, ch[a][b], Broadcast(ch, p, m)[a][b])
  BY <1>1, BroadcastGrows
<1>3. channel' = ch \/ channel' = Broadcast(ch, p, m)
  BY DEF RequestNextStep
<1>4. \A a, b \in Participant : Grown(a, b, ch[a][b], ch[a][b])
  BY DEF Grown
<1>5. QED
  BY <1>2, <1>3, <1>4

-----------------------------------------------------------------------------
(* Every step of TimeSync is one of these.                                 *)

LEMMA SignalSent ==
  ASSUME NEW p \in Participant, NEW b \in Participant
  PROVE  LET m == [kind |-> "AbortSimulation"]
         IN  Sends(p, b, m) /\ m.kind # "Call"
BY SignalTypes DEF Sends, IsTask

(* The time update changes time only as above, and sends what is new.      *)
LEMMA UpdateSummary ==
  ASSUME TypeOK, NEW p \in Participant, NEW dyn \in BOOLEAN,
         NEW kn \in SUBSET Participant, NEW ot \in [Participant -> Task],
         NEW ch \in Channels, NEW td, ProcessSimulationTimeUpdate(p, dyn, kn, ot, ch, td)
  PROVE  /\ UNCHANGED <<currentTask, myNextTime, hopOnEvaluated>> \/ TimeChange(p, dyn, kn, ot)
         /\ \A a, b \in Participant : Grown(a, b, ch[a][b], channel'[a][b])
<1>0. \A a, b \in Participant : Grown(a, b, ch[a][b], ch[a][b])
  BY DEF Grown
<1>1. CASE SkipStep(p, kn, ot, ch, td)
  BY <1>0, <1>1 DEF SkipStep, NoRequest
<1>2. CASE AbortHopOn(p, kn, ot, ch, td)
  <2> DEFINE abort == [kind |-> "AbortSimulation"]
             aborted == Broadcast(ch, p, abort)
             posted == Post(td, p, "Abort")
  <2>1. PICK start \in StartTimes(p, kn, ot) :
           /\ myNextTime' = [myNextTime EXCEPT ![p] = start]
           /\ IF p \in Async THEN NoRequest(aborted, posted)
                             ELSE RequestNextStep(p, start, aborted, posted)
    BY <1>2 DEF AbortHopOn
  <2>2. TimeChange(p, dyn, kn, ot)
    BY <1>2, <2>1 DEF AbortHopOn, TimeChange
  <2>3. start \in Nat /\ myNextTime'[p] = start
    BY <2>1, StartTimesType DEF TypeOK
  <2>4. \A b \in Participant : Sends(p, b, abort) /\ abort.kind # "Call"
    BY SignalSent
  <2>5. \A a, b \in Participant : Grown(a, b, ch[a][b], aborted[a][b])
    BY <2>4, BroadcastGrows
  <2>6. CASE channel' = aborted
    BY <2>2, <2>5, <2>6
  <2> DEFINE m == SimTaskMsg(NextTaskOf(p, start))
  <2>7. CASE channel' = Broadcast(aborted, p, m)
    <3>1. \A b \in Participant : Sends(p, b, m) /\ m.kind # "Call"
      BY <2>3, NextTaskSent
    <3>2. ASSUME NEW a \in Participant, NEW b \in Participant
          PROVE  \/ channel'[a][b] = ch[a][b]
                 \/ a = p /\ channel'[a][b] = Append(Append(ch[a][b], abort), m)
      <4> HIDE DEF m, abort
      <4>1. CASE a = p /\ b \in Connected(p)
        BY <2>7, <4>1 DEF Broadcast, Channels
      <4>2. CASE a # p \/ b \notin Connected(p)
        BY <2>7, <4>2 DEF Broadcast, Channels
      <4>3. QED
        BY <4>1, <4>2
    <3>3. ASSUME NEW a \in Participant, NEW b \in Participant
          PROVE  Grown(a, b, ch[a][b], channel'[a][b])
      <4>1. Sends(p, b, abort) /\ Sends(p, b, m) /\ abort.kind # "Call" /\ m.kind # "Call"
        BY <2>4, <3>1
      <4> HIDE DEF m, abort
      <4>2. QED
        BY <3>2, <4>1 DEF Grown
    <3>4. QED
      BY <2>2, <3>3
  <2>8. channel' = aborted \/ channel' = Broadcast(aborted, p, m)
    BY <2>1 DEF NoRequest, RequestNextStep
  <2>9. QED
    BY <2>2, <2>6, <2>7, <2>8
<1>3. CASE ExecuteStep(p, dyn, kn, ot, ch, td)
  <2>1. PICK start \in StartTimes(p, kn, ot) : \E dur \in StepDurations(p, start, dyn, kn, ot) :
           /\ currentTask' = [currentTask EXCEPT ![p] = [timePoint |-> start, duration |-> dur]]
           /\ myNextTime' = [myNextTime EXCEPT ![p] = start + dur]
           /\ channel' = ch \/ \E td2 : RequestNextStep(p, start + dur, ch, td2)
    BY <1>3 DEF ExecuteStep, NoRequest
  <2>2. PICK dur \in StepDurations(p, start, dyn, kn, ot) :
           /\ currentTask' = [currentTask EXCEPT ![p] = [timePoint |-> start, duration |-> dur]]
           /\ myNextTime' = [myNextTime EXCEPT ![p] = start + dur]
           /\ channel' = ch \/ \E td2 : RequestNextStep(p, start + dur, ch, td2)
    BY <2>1
  <2>3. start \in Nat /\ dur \in Nat
    BY StartTimesType, StepDurationsType
  <2>4. TimeChange(p, dyn, kn, ot)
    BY <1>3, <2>2 DEF ExecuteStep, TimeChange
  <2>5. start + dur \in Nat /\ myNextTime'[p] = start + dur
    BY <2>2, <2>3 DEF TypeOK
  <2>6. CASE channel' = ch
    BY <1>0, <2>4, <2>6
  <2>7. CASE \E td2 : RequestNextStep(p, start + dur, ch, td2)
    <3>1. PICK td2 : RequestNextStep(p, start + dur, ch, td2)
      BY <2>7
    <3>2. QED
      BY <2>4, <2>5, <3>1, RequestGrows
  <2>8. QED
    BY <2>2, <2>6, <2>7
<1>4. QED
  BY <1>1, <1>2, <1>3 DEF ProcessSimulationTimeUpdate

LEMMA UpdateTime ==
  ASSUME UNCHANGED state, NEW p \in Participant,
         UNCHANGED <<currentTask, myNextTime, hopOnEvaluated>>
            \/ TimeChange(p, dynamicStepEnabled'[p], known'[p], otherNextTask'[p])
  PROVE  TimeStep
BY DEF TimeStep

LEMMA LocalStepSummary ==
  ASSUME TimelineInv, NEW p \in Participant, LocalStep(p)
  PROVE  Summary
<1>1. TypeOK /\ channel \in Channels /\ todo \in Posted /\ myNextTime[p] \in Nat
      /\ state \in [Participant -> State]
  BY DEF TimelineInv, TypeOK, Channels, Posted
<1>2. ASSUME UNCHANGED <<timeVars, peerVars, channel>>, \A a \in Participant : StateStep(a)
      PROVE  Summary
  BY <1>1, <1>2, SameTime, SamePeers, SameLinks DEF Summary
<1>3. \A a, b \in Participant : Grown(a, b, channel[a][b], channel[a][b])
  BY DEF Grown
<1>4. ASSUME UNCHANGED <<currentTask, myNextTime, hopOnEvaluated, peerVars>>, NEW td,
             RequestNextStep(p, myNextTime[p], channel, td) \/ NoRequest(channel, td),
             \A a \in Participant : StateStep(a)
      PROVE  Summary
  <2>1. \A a, b \in Participant : Grown(a, b, channel[a][b], channel'[a][b])
    <3>1. CASE RequestNextStep(p, myNextTime[p], channel, td)
      BY <1>1, <1>4, <3>1, RequestGrows
    <3>2. CASE NoRequest(channel, td)
      BY <1>3, <3>2 DEF NoRequest
    <3>3. QED
      BY <1>4, <3>1, <3>2
  <2>2. \A a, b \in Participant : LinkStep(a, b)
    BY <1>1, <2>1, SameRemains, LinksGrow
  <2>3. QED
    BY <1>4, <2>2, SamePeers DEF Summary, TimeStep
<1>5. CASE StartLifecycle(p)
  <2> DEFINE created == [kind |-> "ServiceCreated"]
             call == [kind |-> "Call"]
  <2>1. /\ state[p] = "Down"
        /\ state' = [state EXCEPT ![p] = "Initializing"]
        /\ awaiting' = [awaiting EXCEPT ![p] = Connected(p)]
        /\ channel' = Broadcast(Broadcast(channel, p, created), p, call)
        /\ UNCHANGED <<timeVars, known, otherNextTask>>
    BY <1>5 DEF StartLifecycle
  <2>2. ASSUME NEW a \in Participant, NEW b \in Participant
        PROVE  channel'[a][b] = IF a = p /\ b \in Connected(p)
                                THEN Append(Append(channel[a][b], created), call)
                                ELSE channel[a][b]
    <3> HIDE DEF created, call
    <3>1. QED
      BY <1>1, <2>1 DEF Broadcast, Channels
  <2>3. state'[p] = "Initializing" /\ \A a \in Participant : a # p => state'[a] = state[a]
    BY <1>1, <2>1
  <2>4. \A b \in Participant : Sends(p, b, created) /\ Sends(p, b, call)
    BY <2>1, <2>3, SignalTypes DEF Sends, IsTask
  <2>5. \A a, b \in Participant : Grown(a, b, channel[a][b], channel'[a][b])
    <3> SUFFICES ASSUME NEW a \in Participant, NEW b \in Participant
                 PROVE  Grown(a, b, channel[a][b], channel'[a][b])
      OBVIOUS
    <3>1. /\ Sends(p, b, created) /\ Sends(p, b, call)
          /\ created.kind # "Call" /\ created.kind = "ServiceCreated"
      BY <2>4
    <3>2. \/ channel'[a][b] = channel[a][b]
          \/ a = p /\ channel'[a][b] = Append(Append(channel[a][b], created), call)
      BY <2>2
    <3> HIDE DEF created, call
    <3>3. QED
      BY <3>1, <3>2 DEF Grown
  <2>6. \A a, b \in Participant : LinkStep(a, b)
    BY <1>1, <2>5, SameRemains, LinksGrow
  <2>7. Starts(p)
    <3>1. awaiting'[p] = Connected(p)
      BY <1>1, <2>1 DEF TypeOK
    <3>2. p \notin Connected(p) /\ Connected(p) \subseteq Participant
      BY DEF Connected
    <3>3. \A b \in Connected(p) :
             channel'[b][p] = channel[b][p]
             /\ channel'[p][b] = Append(Append(channel[p][b], created), call)
      BY <2>2, <3>2
    <3>4. QED
      BY <2>1, <2>3, <3>1, <3>3 DEF Starts
  <2>8. \A a \in Participant : StateStep(a)
    BY <2>3, <2>7, <2>1 DEF StateStep
  <2>9. \A a, b \in Participant : PeerStep(a, b)
    BY <1>1, <2>1 DEF PeerStep, TypeOK
  <2>10. QED
    BY <2>1, <2>6, <2>8, <2>9, SameTime DEF Summary
<1>6. CASE EnterRunning(p)
  <2>1. /\ state[p] = "Initializing" /\ awaiting[p] = {}
        /\ state' = [state EXCEPT ![p] = "Running"]
        /\ RequestNextStep(p, myNextTime[p], channel, todo)
        /\ UNCHANGED <<currentTask, myNextTime, hopOnEvaluated, peerVars>>
    BY <1>6 DEF EnterRunning
  <2>2. \A a \in Participant : StateStep(a)
    BY <1>1, <2>1 DEF StateStep
  <2>3. QED
    BY <1>4, <2>1, <2>2
<1>7. CASE CallPause(p) \/ CallContinue(p) \/ CallStop(p)
  <2>1. UNCHANGED <<state, timeVars, peerVars, channel>>
    BY <1>7 DEF CallPause, CallContinue, CallStop
  <2>2. QED
    BY <1>2, <2>1, SameStates
<1>8. CASE CompleteSimulationStep(p)
  BY <1>4, <1>8, SameStates DEF CompleteSimulationStep, lifecycleVars
<1>9. CASE RequestTask(p)
  BY <1>4, <1>9, SameStates DEF RequestTask, lifecycleVars
<1>10. CASE UpdateTask(p)
  <2>1. /\ known[p] \in SUBSET Participant
        /\ otherNextTask[p] \in [Participant -> Task]
        /\ dynamicStepEnabled[p] \in BOOLEAN
        /\ UNCHANGED <<state, peerVars>>
        /\ ProcessSimulationTimeUpdate(p, dynamicStepEnabled[p], known[p], otherNextTask[p],
                                       channel, Popped(p))
    BY <1>1, <1>10 DEF UpdateTask, TypeOK
  <2>2. /\ \/ UNCHANGED <<currentTask, myNextTime, hopOnEvaluated>>
           \/ TimeChange(p, dynamicStepEnabled[p], known[p], otherNextTask[p])
        /\ \A a, b \in Participant : Grown(a, b, channel[a][b], channel'[a][b])
    BY <1>1, <2>1, UpdateSummary
  <2>3. /\ known' = known /\ otherNextTask' = otherNextTask
        /\ dynamicStepEnabled' = dynamicStepEnabled
    BY <2>1 DEF peerVars, dynamicVars
  <2>4. TimeStep
    BY <2>1, <2>2, <2>3, UpdateTime
  <2>5. \A a, b \in Participant : LinkStep(a, b)
    BY <1>1, <2>2, SameRemains, LinksGrow
  <2>6. QED
    BY <2>1, <2>4, <2>5, SamePeers, SameStates DEF Summary
<1>11. CASE PauseTask(p) \/ ContinueTask(p) \/ StopTask(p) \/ SystemStopping(p)
  <2>1. UNCHANGED <<timeVars, peerVars, channel>>
    BY <1>11 DEF PauseTask, ContinueTask, StopTask, SystemStopping
  <2>2. /\ state[p] # "Gone"
        /\ \A a \in Participant : a # p => state'[a] = state[a]
        /\ \/ state[p] \in {"Running", "Paused"} /\ state'[p] \in {"Running", "Paused"}
           \/ state'[p] = "Halted"
    BY <1>1, <1>11 DEF PauseTask, ContinueTask, StopTask, SystemStopping, Runs
  <2>3. \A a \in Participant : StateStep(a)
    BY <2>2 DEF StateStep
  <2>4. QED
    BY <1>2, <2>1, <2>3
<1>12. CASE Disconnect(p)
  <2> DEFINE cleared == [q \in Participant |-> [channel[q] EXCEPT ![p] = <<>>]]
  <2>1. PICK graceful \in BOOLEAN :
           channel' = Broadcast(cleared, p, [kind |-> "PeerShutdown", graceful |-> graceful])
    BY <1>12 DEF Disconnect
  <2> DEFINE shutdown == [kind |-> "PeerShutdown", graceful |-> graceful]
  <2>2. /\ state' = [state EXCEPT ![p] = "Gone"]
        /\ UNCHANGED <<timeVars, peerVars>>
    BY <1>12 DEF Disconnect
  <2>3. cleared \in Channels
    BY <1>1 DEF Channels, Message
  <2>4. state'[p] = "Gone" /\ \A a \in Participant : StateStep(a)
    BY <1>1, <2>2 DEF StateStep
  <2>5. shutdown.kind # "Call" /\ \A b \in Participant : Sends(p, b, shutdown)
    BY <2>4 DEF Sends, IsTask, Message, PeerShutdown
  <2>6. \A a, b \in Participant : Remains(a, b, cleared[a][b])
    <3>1. \A a, b \in Participant : cleared[a][b] = channel[a][b] \/ (cleared[a][b] = <<>> /\ b = p)
      BY <1>1 DEF Channels
    <3> HIDE DEF cleared
    <3>2. QED
      BY <2>4, <3>1 DEF Remains
  <2>7. \A a, b \in Participant : Grown(a, b, cleared[a][b], channel'[a][b])
    <3> HIDE DEF cleared, shutdown
    <3>1. channel' = Broadcast(cleared, p, shutdown)
      BY <2>1 DEF shutdown
    <3>2. QED
      BY <2>3, <2>5, <3>1, BroadcastGrows
  <2>8. \A a, b \in Participant : LinkStep(a, b)
    <3> HIDE DEF cleared
    <3>1. QED
      BY <2>3, <2>6, <2>7, LinksGrow
  <2>9. QED
    BY <2>2, <2>4, <2>8, SameTime, SamePeers DEF Summary
<1>13. QED
  BY <1>5, <1>6, <1>7, <1>8, <1>9, <1>10, <1>11, <1>12 DEF LocalStep

LEMMA ReceiveSummary ==
  ASSUME TimelineInv, NEW p \in Participant, NEW q \in Participant, Receive(p, q)
  PROVE  Summary
<1> DEFINE m == Head(channel[q][p])
<1>1. TypeOK /\ TypeOK' /\ channel \in Channels /\ state \in [Participant -> State]
      /\ known \in [Participant -> SUBSET Participant]
      /\ awaiting \in [Participant -> SUBSET Participant]
      /\ otherNextTask \in Known
  BY ReceiveType DEF TimelineInv, TypeOK, Channels, Known
<1>2. /\ channel[q][p] # <<>> /\ channel[q][p] \in Seq(Message) /\ m \in Message
      /\ state[p] # "Gone"
  <2>1. channel[q][p] # <<>> /\ state[p] # "Gone"
    BY DEF Receive, Receives, ReceiveNextSimTask, ReceiveServiceCreated, ReceiveCall,
           ReceiveCallReturn, ReceiveAbortSimulation, ReceivePeerShutdown
  <2>2. channel[q][p] \in Seq(Message)
    BY <1>1 DEF TypeOK
  <2>3. QED
    BY <2>1, <2>2
<1>3. Taken(p, q) \in Channels
  BY <1>1, <1>2, TakenType
<1>4. \A a, b \in Participant : Grown(a, b, Taken(p, q)[a][b], Taken(p, q)[a][b])
  BY DEF Grown
<1>5. ASSUME Takes(q, p),
             \A a, b \in Participant : Grown(a, b, Taken(p, q)[a][b], channel'[a][b])
      PROVE  \A a, b \in Participant : LinkStep(a, b)
  BY <1>1, <1>3, <1>5, TakenRemains, LinksGrow
<1>6. CASE ReceiveNextSimTask(p, q)
  <2>1. /\ m.kind = "NextSimTask"
        /\ otherNextTask' = IF state[p] # "Down" /\ q \in known[p]
                            THEN [otherNextTask EXCEPT ![p][q] = TaskOf(m)]
                            ELSE otherNextTask
        /\ ProcessSimulationTimeUpdate(p, dynamicStepEnabled[p], known[p], otherNextTask'[p],
                                       Taken(p, q), todo)
        /\ UNCHANGED <<state, known, dynamicVars, awaiting>>
    BY <1>6 DEF ReceiveNextSimTask, Receives, TaskOf
  <2>2. known[p] \in SUBSET Participant /\ otherNextTask'[p] \in [Participant -> Task]
        /\ known'[p] = known[p]
        /\ dynamicStepEnabled'[p] = dynamicStepEnabled[p] /\ dynamicStepEnabled[p] \in BOOLEAN
    BY <1>1, <2>1 DEF TypeOK, dynamicVars
  <2>3. /\ \/ UNCHANGED <<currentTask, myNextTime, hopOnEvaluated>>
           \/ TimeChange(p, dynamicStepEnabled'[p], known'[p], otherNextTask'[p])
        /\ \A a, b \in Participant : Grown(a, b, Taken(p, q)[a][b], channel'[a][b])
    BY <1>1, <1>3, <2>1, <2>2, UpdateSummary
  <2>4. TimeStep
    BY <2>1, <2>3, UpdateTime
  <2>5. HeadIs(q, p, "NextSimTask")
    BY <1>2, <2>1 DEF HeadIs
  <2>6. ASSUME NEW a \in Participant, NEW b \in Participant
        PROVE  IF a = p /\ b = q /\ state[p] # "Down" /\ q \in known[p]
               THEN otherNextTask'[a][b] = TaskOf(m)
               ELSE otherNextTask'[a][b] = otherNextTask[a][b]
    BY <1>1, <2>1 DEF Known
  <2>7. Takes(q, p)
    BY <1>2, <2>1, <2>6 DEF Takes, HeadIs
  <2>8. \A a, b \in Participant : PeerStep(a, b)
    BY <2>1, <2>5, <2>6 DEF PeerStep
  <2>9. QED
    BY <1>5, <2>1, <2>3, <2>4, <2>7, <2>8, SameStates DEF Summary
<1>7. CASE ReceiveServiceCreated(p, q)
  <2> DEFINE resent == SimTaskMsg(ResentTask(p))
  <2>1. /\ HeadIs(q, p, "ServiceCreated")
        /\ known' = [known EXCEPT ![p] = @ \cup {q}]
        /\ channel' = IF Resends(p) THEN Broadcast(Taken(p, q), p, resent) ELSE Taken(p, q)
        /\ UNCHANGED <<state, timeVars, otherNextTask, awaiting>>
    BY <1>7 DEF ReceiveServiceCreated, Receives, HeadIs, lifecycleVars
  <2>2. ResentTask(p) \in Task
    BY <1>1, NextTaskOfType DEF ResentTask, TypeOK
  <2>3. resent \in Message /\ resent.kind = "NextSimTask"
        /\ resent.timePoint = ResentTask(p).timePoint /\ resent.duration = ResentTask(p).duration
    BY <2>2, SimTaskMsgType DEF SimTaskMsg
  <2>4. LatestOf(p, resent, currentTask'[p], myNextTime'[p])
    <3>1. currentTask' = currentTask /\ myNextTime' = myNextTime
      BY <2>1 DEF timeVars
    <3>2. CASE executing[p]
      <4>1. p \in Async
        BY <3>2 DEF TimelineInv, OwnOrder
      <4>2. QED
        BY <2>3, <3>1, <3>2, <4>1 DEF ResentTask, LatestOf
    <3>3. CASE ~executing[p]
      BY <2>3, <3>1, <3>3 DEF ResentTask, NextTaskOf, LatestOf
    <3>4. QED
      BY <3>2, <3>3
  <2>5. /\ IsTask(resent) /\ resent.kind # "Call"
        /\ \A b \in Participant : Sends(p, b, resent)
    BY <2>3, <2>4 DEF Sends, IsTask
  <2>6. \A a, b \in Participant : Grown(a, b, Taken(p, q)[a][b], channel'[a][b])
    <3>1. \A a, b \in Participant :
             Grown(a, b, Taken(p, q)[a][b], Broadcast(Taken(p, q), p, resent)[a][b])
      BY <1>3, <2>5, BroadcastGrows
    <3>2. CASE Resends(p)
      BY <2>1, <3>1, <3>2
    <3>3. CASE ~Resends(p)
      BY <1>4, <2>1, <3>3
    <3>4. QED
      BY <3>2, <3>3
  <2>7. Takes(q, p)
    BY <1>1, <1>2, <2>1 DEF Takes, HeadIs, IsTask
  <2>8. ASSUME Resends(p), p # q, state[q] # "Gone"
        PROVE  channel'[p][q] = Append(channel[p][q], resent)
    <3>1. q \in Connected(p)
      BY <2>8 DEF Connected
    <3>2. Taken(p, q)[p][q] = channel[p][q]
      BY <1>1, <1>2, <2>8, TakenLinks
    <3> HIDE DEF resent
    <3>3. QED
      BY <1>3, <2>1, <2>8, <3>1, <3>2 DEF Broadcast, Channels
  <2>9. ASSUME NEW a \in Participant, NEW b \in Participant
        PROVE  PeerStep(a, b)
    <3>1. CASE a = p /\ b = q
      <4> HIDE DEF resent
      <4>1. QED
        BY <1>1, <2>1, <2>5, <2>8, <3>1 DEF PeerStep
    <3>2. CASE ~(a = p /\ b = q)
      BY <1>1, <2>1, <3>2 DEF PeerStep
    <3>3. QED
      BY <3>1, <3>2
  <2>10. TimeStep
    BY <2>1, SameTime
  <2>11. QED
    BY <1>5, <2>1, <2>6, <2>7, <2>9, <2>10, SameStates DEF Summary
<1>8. CASE ReceiveCall(p, q)
  <2> DEFINE return == [kind |-> "CallReturn"]
             answered == [Taken(p, q) EXCEPT ![p][q] = Append(@, return)]
  <2>1. /\ HeadIs(q, p, "Call")
        /\ channel' = answered \/ channel' = Taken(p, q)
        /\ UNCHANGED <<state, timeVars, peerVars>>
    BY <1>8 DEF ReceiveCall, Receives, HeadIs, lifecycleVars
  <2>2. Sends(p, q, return) /\ return.kind # "Call"
    BY <2>1, SignalTypes DEF Sends, IsTask
  <2>3. \A a, b \in Participant :
           \/ answered[a][b] = Taken(p, q)[a][b]
           \/ a = p /\ b = q /\ answered[a][b] = Append(Taken(p, q)[a][b], return)
    BY <1>3 DEF Channels
  <2>4. \A a, b \in Participant : Grown(a, b, Taken(p, q)[a][b], channel'[a][b])
    <3> HIDE DEF answered, return
    <3>1. \A a, b \in Participant : Grown(a, b, Taken(p, q)[a][b], answered[a][b])
      BY <2>2, <2>3 DEF Grown
    <3>2. QED
      BY <1>4, <2>1, <3>1
  <2>5. Takes(q, p)
    BY <1>2, <2>1 DEF Takes, HeadIs, IsTask
  <2>6. QED
    BY <1>5, <2>1, <2>4, <2>5, SameTime, SamePeers, SameStates DEF Summary
<1>9. CASE ReceiveCallReturn(p, q)
  <2>1. /\ HeadIs(q, p, "CallReturn")
        /\ awaiting' = [awaiting EXCEPT ![p] = @ \ {q}]
        /\ channel' = Taken(p, q)
        /\ UNCHANGED <<state, timeVars, known, otherNextTask>>
    BY <1>9 DEF ReceiveCallReturn, Receives, HeadIs, lifecycleVars
  <2>2. Takes(q, p)
    BY <1>2, <2>1 DEF Takes, HeadIs, IsTask
  <2>3. \A a, b \in Participant : PeerStep(a, b)
    BY <1>1, <2>1 DEF PeerStep
  <2>4. \A a, b \in Participant : LinkStep(a, b)
    BY <1>4, <1>5, <2>1, <2>2
  <2>5. QED
    BY <2>1, <2>3, <2>4, SameTime, SameStates DEF Summary
<1>10. CASE ReceiveAbortSimulation(p, q)
  <2>1. /\ HeadIs(q, p, "AbortSimulation")
        /\ state' = [state EXCEPT ![p] = IF @ = "Down" THEN "Halted" ELSE @]
        /\ channel' = Taken(p, q)
        /\ UNCHANGED <<timeVars, peerVars>>
    BY <1>10 DEF ReceiveAbortSimulation, Receives, HeadIs
  <2>2. Takes(q, p)
    BY <1>2, <2>1 DEF Takes, HeadIs, IsTask
  <2>3. \A a \in Participant : StateStep(a)
    BY <1>1, <2>1 DEF StateStep
  <2>4. \A a, b \in Participant : LinkStep(a, b)
    BY <1>4, <1>5, <2>1, <2>2
  <2>5. QED
    BY <2>1, <2>3, <2>4, SameTime, SamePeers DEF Summary
<1>11. CASE ReceivePeerShutdown(p, q)
  <2> DEFINE peers == known[p] \ {q}
             others == [otherNextTask[p] EXCEPT ![q] = UnknownTask]
             requests == dynamicStepPeers[p] \ {q}
  <2>1. /\ HeadIs(q, p, "PeerShutdown")
        /\ known' = [known EXCEPT ![p] = peers]
        /\ otherNextTask' = [otherNextTask EXCEPT ![p] = others]
        /\ awaiting' = [awaiting EXCEPT ![p] = @ \ {q}]
        /\ UNCHANGED state
    BY <1>11 DEF ReceivePeerShutdown, Receives, HeadIs
  <2>2. /\ known'[p] = peers /\ otherNextTask'[p] = others
        /\ dynamicStepEnabled'[p] = DynamicStepEnabled(p, requests)
    <3>1. dynamicStepEnabled \in [Participant -> BOOLEAN] /\ RecomputeDynamicStepEnabled(p, requests)
      BY <1>1, <1>11 DEF TypeOK, ReceivePeerShutdown
    <3>2. QED
      BY <1>1, <2>1, <3>1 DEF Known, RecomputeDynamicStepEnabled
  <2>3. known'[p] \in SUBSET Participant /\ otherNextTask'[p] \in [Participant -> Task]
    BY <1>1 DEF TypeOK
  <2>4. Takes(q, p)
    BY <1>2, <2>1 DEF Takes, HeadIs, IsTask
  <2>5. \A a, b \in Participant : PeerStep(a, b)
    <3>1. \A a, b \in Participant :
             IF a = p /\ b = q THEN otherNextTask'[a][b] = UnknownTask
                               ELSE otherNextTask'[a][b] = otherNextTask[a][b]
      BY <1>1, <2>1 DEF Known
    <3>2. QED
      BY <1>1, <2>1, <3>1 DEF PeerStep
  <2>6. /\ \/ UNCHANGED <<currentTask, myNextTime, hopOnEvaluated>>
           \/ TimeChange(p, dynamicStepEnabled'[p], known'[p], otherNextTask'[p])
        /\ \A a, b \in Participant : Grown(a, b, Taken(p, q)[a][b], channel'[a][b])
    <3>1. CASE q \in known[p] /\ state[p] # "Down"
      <4>1. ProcessSimulationTimeUpdate(p, DynamicStepEnabled(p, requests), peers, others,
                                      Taken(p, q), todo)
        BY <1>11, <3>1 DEF ReceivePeerShutdown
      <4> HIDE DEF peers, others, requests
      <4>2. QED
        BY <1>1, <1>3, <2>2, <2>3, <4>1, UpdateSummary, DynamicStepEnabledType
    <3>2. CASE ~(q \in known[p] /\ state[p] # "Down")
      <4>1. channel' = Taken(p, q) /\ UNCHANGED <<currentTask, myNextTime, hopOnEvaluated>>
        BY <1>11, <3>2 DEF ReceivePeerShutdown, NoRequest
      <4>2. QED
        BY <1>4, <4>1
    <3>3. QED
      BY <3>1, <3>2
  <2>7. TimeStep
    BY <2>1, <2>6, UpdateTime
  <2>8. QED
    BY <1>5, <2>1, <2>4, <2>5, <2>6, <2>7, SameStates DEF Summary
<1>12. QED
  BY <1>6, <1>7, <1>8, <1>9, <1>10, <1>11 DEF Receive

LEMMA NextSummary ==
  ASSUME TimelineInv, [Next]_vars
  PROVE  Summary
<1>1. ASSUME NEW p \in Participant, LocalStep(p) PROVE Summary
  BY <1>1, LocalStepSummary
<1>2. ASSUME NEW p \in Participant, NEW q \in Participant, Receive(p, q) PROVE Summary
  BY <1>2, ReceiveSummary
<1>3. CASE UNCHANGED vars
  <2>1. TypeOK /\ UNCHANGED <<state, timeVars, peerVars, channel>>
    BY <1>3 DEF vars, lifecycleVars, TimelineInv
  <2>2. QED
    BY <2>1, SameTime, SameStates, SamePeers, SameLinks DEF Summary
<1>4. QED
  BY <1>1, <1>2, <1>3 DEF Next

-----------------------------------------------------------------------------
(* What the summary says of time, in the form the invariant needs it.      *)

\* p hops on at time start, that of a peer which has advanced.
HopsOn(p, start) ==
    /\ currentTask[p].timePoint = -1
    /\ \E r \in known'[p] : /\ otherNextTask'[p][r].timePoint > otherNextTask'[p][r].duration
                            /\ otherNextTask'[p][r].timePoint = start

\* p begins a step at time start.
BeginsStep(p, start) ==
    /\ currentTask'[p].timePoint = start
    /\ currentTask'[p].duration \in Nat \ {0}
    /\ currentTask'[p].duration <= StepSize[p]
    /\ ~dynamicStepEnabled'[p] => currentTask'[p].duration = StepSize[p]
    /\ currentTask'[p].duration \in
          StepDurations(p, start, dynamicStepEnabled'[p], known'[p], otherNextTask'[p])
    /\ myNextTime'[p] = start + currentTask'[p].duration

\* p plans to hop on instead, and aborts.
HopOnFails(p, start) ==
    /\ p \in Coordinated
    /\ \E at \in Nat : HopsOn(p, at)
    /\ currentTask'[p] = currentTask[p]
    /\ myNextTime'[p] = start

SameTimeOf(a) ==
    /\ currentTask'[a] = currentTask[a]
    /\ myNextTime'[a] = myNextTime[a]
    /\ hopOnEvaluated'[a] = hopOnEvaluated[a]

MovesOn(p, start) ==
    /\ UNCHANGED state
    /\ state[p] = "Running"
    /\ \A a \in Participant \ {p} : SameTimeOf(a)
    /\ \A q \in known'[p] : myNextTime[p] <= otherNextTask'[p][q].timePoint
    /\ start >= myNextTime[p]
    /\ \/ start = myNextTime[p] /\ (hopOnEvaluated[p] \/ \A at \in Nat : ~HopsOn(p, at))
       \/ ~hopOnEvaluated[p] /\ HopsOn(p, start)
    /\ BeginsStep(p, start) \/ HopOnFails(p, start)

LEMMA Movement ==
  ASSUME TimelineInv, TypeOK', TimeStep
  PROVE  \/ \A a \in Participant : SameTimeOf(a)
         \/ \E p \in Participant, start \in Nat : MovesOn(p, start)
<1>1. CASE UNCHANGED <<currentTask, myNextTime, hopOnEvaluated>>
  BY <1>1 DEF SameTimeOf
<1>2. ASSUME UNCHANGED state,
             NEW p \in Participant, TimeChange(p, dynamicStepEnabled'[p], known'[p], otherNextTask'[p])
      PROVE  \E start \in Nat : MovesOn(p, start)
  <2> DEFINE kn == known'[p]
             ot == otherNextTask'[p]
             dyn == dynamicStepEnabled'[p]
  <2>1. kn \in SUBSET Participant /\ ot \in [Participant -> Task] /\ dyn \in BOOLEAN
    BY DEF TypeOK
  <2>2. /\ TypeOK /\ myNextTime[p] \in Nat
        /\ currentTask \in [Participant -> Task]
        /\ myNextTime \in [Participant -> Nat]
        /\ hopOnEvaluated \in [Participant -> BOOLEAN]
        /\ ~hopOnEvaluated[p] => myNextTime[p] = 0
    BY DEF TimelineInv, TypeOK, OwnOrder
  <2>3. PICK start \in StartTimes(p, kn, ot) :
          \/ \E dur \in StepDurations(p, start, dyn, kn, ot) :
                /\ currentTask' = [currentTask EXCEPT ![p] = [timePoint |-> start, duration |-> dur]]
                /\ myNextTime' = [myNextTime EXCEPT ![p] = start + dur]
          \/ /\ p \in Coordinated
             /\ IsHopOn(p, kn, ot)
             /\ UNCHANGED currentTask
             /\ myNextTime' = [myNextTime EXCEPT ![p] = start]
    BY <1>2 DEF TimeChange
  <2>4. /\ IsTimeAdvancePossible(p, kn, ot)
        /\ hopOnEvaluated' = [hopOnEvaluated EXCEPT ![p] = TRUE]
    BY <1>2 DEF TimeChange
  <2>5. start \in Nat
    BY <2>1, <2>2, StartTimesType
  <2>6. IsHopOn(p, kn, ot) => \E at \in Nat : HopsOn(p, at)
    <3> SUFFICES ASSUME IsHopOn(p, kn, ot) PROVE \E at \in Nat : HopsOn(p, at)
      OBVIOUS
    <3>1. PICK r \in kn : ot[r].timePoint > ot[r].duration
      BY DEF IsHopOn, AdvancedPeers
    <3>2. ot[r].timePoint \in Nat
      BY <2>1, <3>1 DEF Task, TimePoint
    <3>3. QED
      BY <3>1, <3>2 DEF IsHopOn, HopsOn
  <2>7. \/ start = myNextTime[p] /\ (hopOnEvaluated[p] \/ \A at \in Nat : ~HopsOn(p, at))
        \/ ~hopOnEvaluated[p] /\ HopsOn(p, start)
    <3>1. CASE ~hopOnEvaluated[p] /\ IsHopOn(p, kn, ot)
      <4>1. PICK r \in AdvancedPeers(kn, ot) : start = ot[r].timePoint
        BY <2>3, <3>1 DEF StartTimes
      <4>2. QED
        BY <3>1, <4>1 DEF AdvancedPeers, IsHopOn, HopsOn
    <3>2. CASE ~(~hopOnEvaluated[p] /\ IsHopOn(p, kn, ot))
      <4>1. start = myNextTime[p]
        BY <2>3, <3>2 DEF StartTimes
      <4>2. \A at \in Nat : HopsOn(p, at) => IsHopOn(p, kn, ot)
        BY DEF HopsOn, IsHopOn, AdvancedPeers
      <4>3. QED
        BY <3>2, <4>1, <4>2
    <3>3. QED
      BY <3>1, <3>2
  <2>8. start >= myNextTime[p]
    BY <2>2, <2>5, <2>7
  <2>9. /\ state[p] = "Running"
        /\ \A q \in kn : myNextTime[p] <= ot[q].timePoint
    <3>1. state[p] = "Running" /\ \A q \in kn : ~(myNextTime[p] > ot[q].timePoint)
      BY <2>4 DEF IsTimeAdvancePossible, MayRequest, OtherParticipantHasLowerTimepoint
    <3>2. \A q \in kn : ot[q].timePoint \in Int
      BY <2>1 DEF Task, TimePoint
    <3>3. QED
      BY <2>2, <3>1, <3>2
  <2>10. /\ \A a \in Participant \ {p} : SameTimeOf(a)
         /\ BeginsStep(p, start) \/ HopOnFails(p, start)
    <3>1. CASE \E dur \in StepDurations(p, start, dyn, kn, ot) :
                /\ currentTask' = [currentTask EXCEPT ![p] = [timePoint |-> start, duration |-> dur]]
                /\ myNextTime' = [myNextTime EXCEPT ![p] = start + dur]
      <4>1. PICK dur \in StepDurations(p, start, dyn, kn, ot) :
                /\ currentTask' = [currentTask EXCEPT ![p] = [timePoint |-> start, duration |-> dur]]
                /\ myNextTime' = [myNextTime EXCEPT ![p] = start + dur]
        BY <3>1
      <4>2. dur \in Nat \ {0} /\ dur <= StepSize[p]
        BY <2>1, <2>5, StepDurationsBound
      <4>3. ~dynamicStepEnabled'[p] => dur = StepSize[p]
        BY <4>1 DEF StepDurations
      <4>4. dur \in StepDurations(p, start, dynamicStepEnabled'[p], known'[p], otherNextTask'[p])
        BY <4>1
      <4> HIDE DEF kn, ot, dyn
      <4>5. QED
        BY <2>2, <2>4, <4>1, <4>2, <4>3, <4>4 DEF SameTimeOf, BeginsStep
    <3>2. CASE /\ p \in Coordinated
               /\ IsHopOn(p, kn, ot)
               /\ UNCHANGED currentTask
               /\ myNextTime' = [myNextTime EXCEPT ![p] = start]
      <4> HIDE DEF kn, ot
      <4>1. QED
        BY <2>2, <2>4, <2>6, <3>2 DEF SameTimeOf, HopOnFails
    <3>3. QED
      BY <2>3, <3>1, <3>2
  <2>11. QED
    BY <1>2, <2>5, <2>7, <2>8, <2>9, <2>10 DEF MovesOn
<1>3. QED
  BY <1>1, <1>2 DEF TimeStep

(* Time never goes back.                                                   *)
LEMMA TimeGrows ==
  ASSUME TimelineInv, TypeOK', TimeStep, NEW a \in Participant
  PROVE  /\ currentTask[a].timePoint <= currentTask'[a].timePoint
         /\ myNextTime[a] <= myNextTime'[a]
<1>1. /\ currentTask[a].timePoint \in TimePoint
      /\ myNextTime[a] \in Nat
      /\ currentTask[a].timePoint < myNextTime[a]
  BY DEF TimelineInv, TypeOK, OwnOrder, Task
<1>2. CASE SameTimeOf(a)
  BY <1>1, <1>2 DEF SameTimeOf, TimePoint
<1>3. ASSUME NEW start \in Nat, MovesOn(a, start)
      PROVE  /\ currentTask[a].timePoint <= currentTask'[a].timePoint
             /\ myNextTime[a] <= myNextTime'[a]
  <2>1. CASE BeginsStep(a, start)
    BY <1>1, <1>3, <2>1 DEF MovesOn, BeginsStep, TimePoint
  <2>2. CASE HopOnFails(a, start)
    BY <1>1, <1>3, <2>2 DEF MovesOn, HopOnFails, TimePoint
  <2>3. QED
    BY <1>3, <2>1, <2>2 DEF MovesOn
<1>4. QED
  BY <1>2, <1>3, Movement DEF MovesOn

-----------------------------------------------------------------------------
(* The parts of the invariant, one at a time.                              *)

LEMMA OwnDurationKept ==
  ASSUME TimelineInv, TypeOK', TimeStep, NEW a \in Participant, OwnDuration(a)
  PROVE  OwnDuration(a)'
<1>1. CASE SameTimeOf(a)
  BY <1>1 DEF SameTimeOf, OwnDuration
<1>2. ASSUME NEW start \in Nat, MovesOn(a, start)
      PROVE  OwnDuration(a)'
  <2>1. CASE BeginsStep(a, start)
    BY <2>1 DEF BeginsStep, OwnDuration
  <2>2. CASE HopOnFails(a, start)
    BY <2>2 DEF HopOnFails, HopsOn, OwnDuration
  <2>3. QED
    BY <1>2, <2>1, <2>2 DEF MovesOn
<1>3. QED
  BY <1>1, <1>2, Movement DEF MovesOn

LEMMA HopsOnOnceKept ==
  ASSUME TimelineInv, TypeOK', TimeStep, HopsOnOnce
  PROVE  HopsOnOnce'
<1> SUFFICES ASSUME NEW p \in Participant \ Coordinated, currentTask'[p].timePoint = -1
             PROVE  ~hopOnEvaluated'[p]
  BY DEF HopsOnOnce
<1>1. ASSUME NEW start \in Nat, MovesOn(p, start) PROVE FALSE
  BY <1>1 DEF MovesOn, BeginsStep, HopOnFails
<1>2. SameTimeOf(p)
  BY <1>1, Movement DEF MovesOn
<1>3. QED
  BY <1>2 DEF SameTimeOf, HopsOnOnce

(* The end of a link is its receiver's business, or its sender has gone.   *)
LEMMA HeadTruthful ==
  ASSUME TypeOK, Truthful, NEW a \in Participant, NEW b \in Participant
  PROVE  /\ HeadIs(a, b, "PeerShutdown") => state[a] = "Gone"
         /\ HeadIs(a, b, "NextSimTask") => Plain(a, Head(channel[a][b]))
<1>1. channel[a][b] \in Seq(Message)
  BY DEF TypeOK
<1>2. channel[a][b] # <<>> => 1 \in 1..Len(channel[a][b]) /\ Head(channel[a][b]) = channel[a][b][1]
  BY <1>1
<1>3. QED
  BY <1>2 DEF HeadIs, IsTask, Truthful

LEMMA StaysKnown ==
  ASSUME TypeOK, Truthful, NEW a \in Participant, NEW b \in Participant, PeerStep(a, b),
         b \in known[a], state[b] # "Gone"
  PROVE  b \in known'[a]
BY HeadTruthful DEF PeerStep

LEMMA StillPresent ==
  ASSUME NEW a \in Participant, StateStep(a), state'[a] # "Gone"
  PROVE  state[a] # "Gone"
BY DEF StateStep

(* What is learnt in a step takes nobody for advanced who was not before.  *)
LEMMA LearnsPlain ==
  ASSUME TypeOK, Truthful, NEW a \in Participant, NEW b \in Participant, PeerStep(a, b)
  PROVE  Plain(b, otherNextTask'[a][b])
<1>1. CASE otherNextTask'[a][b] = otherNextTask[a][b]
  BY <1>1 DEF Truthful
<1>2. CASE HeadIs(b, a, "NextSimTask") /\ otherNextTask'[a][b] = TaskOf(Head(channel[b][a]))
  BY <1>2, HeadTruthful DEF Plain, TaskOf
<1>3. CASE otherNextTask'[a][b] = UnknownTask
  BY <1>3 DEF Plain, UnknownTask
<1>4. QED
  BY <1>1, <1>2, <1>3 DEF PeerStep

LEMMA FirstAreKnownKept ==
  ASSUME TypeOK, Truthful, FirstAreKnown, Summary
  PROVE  FirstAreKnown'
<1> SUFFICES ASSUME NEW q \in AtStart, NEW a \in Participant, a # q, state'[q] # "Gone"
             PROVE  q \in known'[a]
  BY DEF FirstAreKnown
<1>1. q \in Participant
  BY SubsetAssumption
<1>2. state[q] # "Gone" /\ PeerStep(a, q)
  BY <1>1, StillPresent DEF Summary
<1>3. QED
  BY <1>1, <1>2, StaysKnown DEF FirstAreKnown

(* t holds the messages of s, then what a sends.                           *)
LEMMA GrownKeeps ==
  ASSUME NEW a \in Participant, NEW b \in Participant,
         NEW s \in Seq(Message), NEW t, Grown(a, b, s, t)
  PROVE  /\ t \in Seq(Message)
         /\ Len(s) <= Len(t)
         /\ \A i \in 1..Len(s) : t[i] = s[i]
         /\ \A i \in 1..Len(t) : i > Len(s) => Sends(a, b, t[i])
<1>0. Len(s) \in Nat
  OBVIOUS
<1>1. CASE t = s
  BY <1>0, <1>1
<1>2. ASSUME NEW m, Sends(a, b, m), t = Append(s, m)
      PROVE  /\ t \in Seq(Message)
             /\ Len(s) <= Len(t)
             /\ \A i \in 1..Len(s) : t[i] = s[i]
             /\ \A i \in 1..Len(t) : i > Len(s) => Sends(a, b, t[i])
  <2>1. m \in Message
    BY <1>2 DEF Sends
  <2>2. /\ Len(t) = Len(s) + 1 /\ t[Len(s) + 1] = m /\ t \in Seq(Message)
        /\ \A i \in 1..Len(s) : t[i] = s[i]
    BY <1>0, <1>2, <2>1
  <2>3. \A i \in 1..Len(t) : i > Len(s) => i = Len(s) + 1
    BY <1>0, <2>2
  <2>4. QED
    BY <1>0, <1>2, <2>2, <2>3
<1>3. ASSUME NEW m, NEW n, Sends(a, b, m), Sends(a, b, n), t = Append(Append(s, m), n)
      PROVE  /\ t \in Seq(Message)
             /\ Len(s) <= Len(t)
             /\ \A i \in 1..Len(s) : t[i] = s[i]
             /\ \A i \in 1..Len(t) : i > Len(s) => Sends(a, b, t[i])
  <2>1. m \in Message /\ n \in Message
    BY <1>3 DEF Sends
  <2>2. /\ Len(t) = Len(s) + 2 /\ t[Len(s) + 1] = m /\ t[Len(s) + 2] = n /\ t \in Seq(Message)
        /\ \A i \in 1..Len(s) : t[i] = s[i]
    BY <1>0, <1>3, <2>1
  <2>3. \A i \in 1..Len(t) : i > Len(s) => i = Len(s) + 1 \/ i = Len(s) + 2
    BY <1>0, <2>2
  <2>4. QED
    BY <1>0, <1>3, <2>2, <2>3
<1>4. QED
  BY <1>1, <1>2, <1>3 DEF Grown

(* Whatever is under way was so before, or is sent now.                    *)
LEMMA Origin ==
  ASSUME TypeOK, NEW a \in Participant, NEW b \in Participant, LinkStep(a, b),
         NEW i \in 1..Len(channel'[a][b])
  PROVE  \/ \E j \in 1..Len(channel[a][b]) : channel'[a][b][i] = channel[a][b][j]
         \/ Sends(a, b, channel'[a][b][i])
<1>1. PICK s \in Seq(Message) : Remains(a, b, s) /\ Grown(a, b, s, channel'[a][b])
  BY DEF LinkStep
<1>2. channel[a][b] \in Seq(Message)
  BY DEF TypeOK
<1>3. i \in 1..Len(s) \/ i > Len(s)
  <2>1. Len(s) \in Nat
    OBVIOUS
  <2>2. QED
    BY <2>1
<1>4. CASE i > Len(s)
  BY <1>1, <1>4, GrownKeeps
<1>5. CASE i \in 1..Len(s)
  <2>1. channel'[a][b][i] = s[i]
    BY <1>1, <1>5, GrownKeeps
  <2>2. CASE s = channel[a][b]
    BY <1>5, <2>1, <2>2
  <2>3. CASE channel[a][b] # <<>> /\ s = Tail(channel[a][b])
    <3>1. i + 1 \in 1..Len(channel[a][b]) /\ s[i] = channel[a][b][i + 1]
      BY <1>2, <1>5, <2>3
    <3>2. QED
      BY <2>1, <3>1
  <2>4. CASE s = <<>>
    BY <1>5, <2>4
  <2>5. QED
    BY <1>1, <2>2, <2>3, <2>4 DEF Remains, Takes
<1>6. QED
  BY <1>3, <1>4, <1>5

(* What holds for everybody who has not advanced holds for fewer.          *)
LEMMA UnadvancedBefore ==
  ASSUME TimelineInv, TypeOK', TimeStep, NEW a \in Participant, Unadvanced(a)'
  PROVE  Unadvanced(a)
<1>1. /\ currentTask[a].timePoint \in Int /\ currentTask'[a].timePoint \in Int
      /\ myNextTime[a] \in Int /\ myNextTime'[a] \in Int /\ StepSize[a] \in Int
  BY StepSizeAssumption DEF TimelineInv, TypeOK, Task, TimePoint
<1>2. QED
  BY <1>1, TimeGrows DEF Unadvanced

LEMMA TruthfulKept ==
  ASSUME TimelineInv, TypeOK', Truthful, Summary
  PROVE  Truthful'
<1> SUFFICES ASSUME NEW a \in Participant, NEW b \in Participant
             PROVE  /\ Plain(a, otherNextTask[b][a])'
                    /\ \A i \in 1..Len(channel'[a][b]) :
                          /\ channel'[a][b][i].kind = "PeerShutdown" => state'[a] = "Gone"
                          /\ IsTask(channel'[a][b][i]) => Plain(a, channel[a][b][i])'
  BY DEF Truthful
<1>1. TypeOK /\ TimeStep /\ StateStep(a) /\ PeerStep(b, a) /\ LinkStep(a, b)
  BY DEF Summary, TimelineInv
<1>2. Unadvanced(a)' => Unadvanced(a)
  BY <1>1, UnadvancedBefore
<1>3. Plain(a, otherNextTask[b][a])'
  BY <1>1, <1>2, LearnsPlain DEF Plain
<1>4. ASSUME NEW i \in 1..Len(channel'[a][b])
      PROVE  /\ channel'[a][b][i].kind = "PeerShutdown" => state'[a] = "Gone"
             /\ IsTask(channel'[a][b][i]) => Plain(a, channel[a][b][i])'
  <2> DEFINE m == channel'[a][b][i]
  <2>1. CASE \E j \in 1..Len(channel[a][b]) : m = channel[a][b][j]
    <3>1. /\ m.kind = "PeerShutdown" => state[a] = "Gone"
          /\ IsTask(m) => Plain(a, m)
      BY <2>1 DEF Truthful
    <3>2. state[a] = "Gone" => state'[a] = "Gone"
      BY <1>1 DEF StateStep
    <3>3. QED
      BY <1>2, <3>1, <3>2 DEF Plain
  <2>2. CASE Sends(a, b, m)
    <3>1. m.kind = "PeerShutdown" => state'[a] = "Gone"
      BY <2>2 DEF Sends
    <3>2. ASSUME IsTask(m), Unadvanced(a)' PROVE m.timePoint <= m.duration
      <4>1. m.timePoint \in TimePoint /\ m.duration \in Nat
        BY <2>2, <3>2, TaskTime DEF Sends
      <4>2. LatestOf(a, m, currentTask'[a], myNextTime'[a])
        BY <2>2, <3>2 DEF Sends
      <4>3. currentTask'[a].timePoint <= 0 /\ myNextTime'[a] <= StepSize[a]
        BY <3>2 DEF Unadvanced
      <4>4. currentTask'[a].timePoint \in TimePoint
        BY DEF TypeOK, Task
      <4>5. CASE m.timePoint = myNextTime'[a] /\ m.duration = StepSize[a]
        BY <4>3, <4>5
      <4>6. CASE m.timePoint = currentTask'[a].timePoint
        BY <4>1, <4>3, <4>4, <4>6 DEF TimePoint
      <4>7. QED
        BY <4>2, <4>5, <4>6 DEF LatestOf
    <3>3. QED
      BY <3>1, <3>2 DEF Plain
  <2>3. QED
    BY <1>1, <2>1, <2>2, Origin
<1>5. QED
  BY <1>3, <1>4

-----------------------------------------------------------------------------
(* The participants that started together.                                 *)

LEMMA Whole ==
  ASSUME TypeOK, NEW a \in Participant, NEW b \in Participant
  PROVE  /\ currentTask[a].timePoint \in Int /\ myNextTime[a] \in Int
         /\ otherNextTask[a][b].timePoint \in Int /\ otherNextTask[a][b].duration \in Int
<1>1. currentTask[a] \in Task /\ otherNextTask[a][b] \in Task /\ myNextTime[a] \in Nat
  BY DEF TypeOK
<1>2. QED
  BY <1>1 DEF Task, TimePoint

LEMMA WholeNext ==
  ASSUME TypeOK', NEW a \in Participant, NEW b \in Participant
  PROVE  /\ currentTask'[a].timePoint \in Int /\ myNextTime'[a] \in Int
         /\ otherNextTask'[a][b].timePoint \in Int /\ otherNextTask'[a][b].duration \in Int
<1>1. currentTask'[a] \in Task /\ otherNextTask'[a][b] \in Task /\ myNextTime'[a] \in Nat
  BY DEF TypeOK
<1>2. QED
  BY <1>1 DEF Task, TimePoint

(* Nobody hops on before all of them have executed their first step.       *)
LEMMA NobodyHopsOn ==
  ASSUME TypeOK, TypeOK', Truthful, FirstStepsTogether, Summary,
         NEW q \in AtStart, state[q] # "Gone", currentTask[q].timePoint = -1,
         NEW p \in Participant, NEW start, HopsOn(p, start)
  PROVE  FALSE
<1>1. PICK r \in known'[p] : otherNextTask'[p][r].timePoint > otherNextTask'[p][r].duration
  BY DEF HopsOn
<1>2. r \in Participant
  BY <1>1 DEF TypeOK
<1>3. Plain(r, otherNextTask'[p][r])
  BY <1>2, LearnsPlain DEF Summary
<1>4. Unadvanced(r)
  BY <1>2 DEF FirstStepsTogether
<1>5. otherNextTask'[p][r].timePoint \in Int /\ otherNextTask'[p][r].duration \in Int
  BY <1>2, WholeNext
<1>6. QED
  BY <1>1, <1>3, <1>4, <1>5 DEF Plain

(* A participant moves on with the next step of those it knows.            *)
LEMMA MovesWithin ==
  ASSUME TypeOK, TimelineInv', Summary, Truthful,
         NEW p \in Participant, NEW start \in Nat, MovesOn(p, start),
         NEW q \in known'[p], q # p
  PROVE  myNextTime[p] <= myNextTime[q] /\ SameTimeOf(q)
<1>1. q \in Participant
  BY DEF TypeOK, TimelineInv
<1>2. SameTimeOf(q) /\ myNextTime[p] <= otherNextTask'[p][q].timePoint
  BY <1>1 DEF MovesOn
<1>3. otherNextTask'[p][q].timePoint <= myNextTime'[q]
  BY <1>1, KnownBoundedNext DEF KnownNotBeyondNext
<1>4. /\ otherNextTask'[p][q].timePoint \in Int /\ myNextTime'[q] \in Int
      /\ myNextTime[p] \in Int
  BY <1>1, Whole, WholeNext DEF TimelineInv
<1>5. QED
  BY <1>2, <1>3, <1>4 DEF SameTimeOf

LEMMA FirstStepsTogetherKept ==
  ASSUME TimelineInv, TimelineInv', Truthful, FirstAreKnown, FirstStepsTogether, Summary
  PROVE  FirstStepsTogether'
<1> SUFFICES ASSUME NEW q \in AtStart, state'[q] # "Gone", currentTask'[q].timePoint = -1,
                    NEW a \in Participant
             PROVE  /\ currentTask'[a].timePoint <= 0
                    /\ myNextTime'[a] <= StepSize[a]
                    /\ currentTask'[a].timePoint = -1 => myNextTime'[a] = 0
  BY DEF FirstStepsTogether, Unadvanced
<1>1. TypeOK /\ TypeOK' /\ TimeStep /\ q \in Participant
  BY SubsetAssumption DEF Summary, TimelineInv
<1>2. state[q] # "Gone"
  BY <1>1, StillPresent DEF Summary
<1>3. currentTask[q].timePoint = -1
  <2>1. currentTask[q].timePoint \in TimePoint
    BY <1>1 DEF TypeOK, Task
  <2>2. QED
    BY <1>1, <2>1, TimeGrows DEF TimePoint
<1>4. /\ currentTask[a].timePoint <= 0
      /\ myNextTime[a] <= StepSize[a]
      /\ currentTask[a].timePoint = -1 => myNextTime[a] = 0
      /\ myNextTime[q] = 0
  BY <1>1, <1>2, <1>3 DEF FirstStepsTogether, Unadvanced
<1>5. CASE SameTimeOf(a)
  BY <1>4, <1>5 DEF SameTimeOf
<1>6. ASSUME NEW start \in Nat, MovesOn(a, start)
      PROVE  /\ currentTask'[a].timePoint <= 0
             /\ myNextTime'[a] <= StepSize[a]
             /\ currentTask'[a].timePoint = -1 => myNextTime'[a] = 0
  <2>1. start = myNextTime[a] /\ BeginsStep(a, start)
    BY <1>1, <1>2, <1>3, <1>6, NobodyHopsOn DEF MovesOn, HopOnFails
  <2>2. a # q
    BY <1>6, <2>1 DEF BeginsStep
  <2>3. q \in known'[a]
    BY <1>1, <1>2, <2>2, StaysKnown DEF Summary, FirstAreKnown
  <2>4. myNextTime[a] <= 0
    BY <1>1, <1>4, <1>6, <2>2, <2>3, MovesWithin
  <2>5. start = 0
    BY <1>6, <2>1, <2>4
  <2>6. QED
    BY <1>6, <2>1, <2>5, StepSizeAssumption DEF BeginsStep
<1>7. QED
  BY <1>1, <1>5, <1>6, Movement DEF MovesOn

LEMMA FirstAreCloseKept ==
  ASSUME TimelineInv, TimelineInv', Truthful, FirstAreKnown, FirstStepsTogether, FirstAreClose,
         Summary
  PROVE  FirstAreClose'
<1> SUFFICES ASSUME NEW q \in AtStart, NEW r \in AtStart, state'[r] # "Gone"
             PROVE  currentTask'[q].timePoint <= myNextTime'[r]
  BY DEF FirstAreClose
<1>1. TypeOK /\ TypeOK' /\ TimeStep /\ q \in Participant /\ r \in Participant
  BY SubsetAssumption DEF Summary, TimelineInv
<1>2. state[r] # "Gone"
  BY <1>1, StillPresent DEF Summary
<1>3. /\ currentTask[q].timePoint <= myNextTime[r]
      /\ myNextTime[r] <= myNextTime'[r]
      /\ currentTask[q].timePoint \in Int
      /\ myNextTime[r] \in Int /\ myNextTime'[r] \in Int
  <2>1. currentTask[q].timePoint <= myNextTime[r]
    BY <1>2 DEF FirstAreClose
  <2>2. QED
    BY <1>1, <2>1, TimeGrows, Whole, WholeNext
<1>4. CASE currentTask'[q].timePoint = currentTask[q].timePoint
  BY <1>3, <1>4
<1>5. ASSUME NEW start \in Nat, MovesOn(q, start), BeginsStep(q, start)
      PROVE  currentTask'[q].timePoint <= myNextTime'[r]
  <2>1. CASE q = r
    BY <1>5, <2>1 DEF BeginsStep
  <2>2. CASE q # r
    <3>1. r \in known'[q]
      BY <1>1, <1>2, <2>2, StaysKnown DEF Summary, FirstAreKnown
    <3>2. start = myNextTime[q]
      <4>1. state[q] # "Gone"
        BY <1>5 DEF MovesOn
      <4>2. ~HopsOn(q, start)
        BY <1>1, <4>1, NobodyHopsOn DEF HopsOn
      <4>3. QED
        BY <1>5, <4>2 DEF MovesOn
    <3>3. myNextTime[q] <= myNextTime[r]
      BY <1>1, <1>5, <2>2, <3>1, MovesWithin
    <3>4. QED
      BY <1>3, <1>5, <3>2, <3>3 DEF BeginsStep
  <2>3. QED
    BY <2>1, <2>2
<1>6. QED
  BY <1>1, <1>4, <1>5, Movement DEF MovesOn, SameTimeOf, HopOnFails

(* Once it knows of a joiner without a step, a first participant that has  *)
(* got beyond 0 does not move on.                                          *)
LEMMA WaitsForJoiner ==
  ASSUME TimelineInv, TimelineInv', Truthful, FirstAreKnown, FirstStepsTogether, HopsOnOnce,
         Summary,
         NEW q \in AtStart, state[q] # "Gone",
         NEW p \in Participant \ (AtStart \cup Coordinated),
         currentTask'[p].timePoint = -1, p \in known'[q], currentTask'[q].timePoint > 0
  PROVE  SameTimeOf(q)
<1>1. TypeOK /\ TypeOK' /\ TimeStep /\ q \in Participant /\ p # q
  BY SubsetAssumption DEF Summary, TimelineInv
<1>2. currentTask[p].timePoint = -1
  <2>1. currentTask[p].timePoint \in TimePoint
    BY <1>1 DEF TypeOK, Task
  <2>2. QED
    BY <1>1, <2>1, TimeGrows DEF TimePoint
<1>3. myNextTime[p] = 0
  BY <1>2 DEF HopsOnOnce, TimelineInv, OwnOrder
<1>4. ASSUME NEW start \in Nat, MovesOn(q, start) PROVE FALSE
  <2>1. myNextTime[q] <= 0
    BY <1>1, <1>3, <1>4, MovesWithin
  <2>2. myNextTime[q] = 0
    BY <1>1, <2>1 DEF TypeOK
  <2>3. currentTask[q].timePoint = -1
    <3>1. currentTask[q].timePoint \in TimePoint /\ currentTask[q].timePoint < myNextTime[q]
      BY <1>1 DEF TypeOK, Task, TimelineInv, OwnOrder
    <3>2. QED
      BY <2>2, <3>1 DEF TimePoint
  <2>4. start = 0 /\ BeginsStep(q, start)
    BY <1>1, <1>4, <2>2, <2>3, NobodyHopsOn DEF MovesOn, HopOnFails
  <2>5. QED
    BY <2>4 DEF BeginsStep
<1>5. QED
  BY <1>1, <1>4, Movement DEF MovesOn

-----------------------------------------------------------------------------
(* The stages of a joiner p as the first participant q sees it.            *)

LEMMA HeadIsCarried ==
  ASSUME TypeOK, NEW a \in Participant, NEW b \in Participant, NEW kind, HeadIs(a, b, kind)
  PROVE  Carries(channel[a][b], kind)
<1>1. channel[a][b] \in Seq(Message) /\ channel[a][b] # <<>>
  BY DEF TypeOK, HeadIs
<1>2. 1 \in 1..Len(channel[a][b]) /\ Head(channel[a][b]) = channel[a][b][1]
  BY <1>1
<1>3. QED
  BY <1>2 DEF HeadIs, Carries

LEMMA NotStartedKept ==
  ASSUME TypeOK, TypeOK', Summary, NEW p \in Participant, NEW q \in Participant,
         NotStarted(p, q), state'[p] = "Down"
  PROVE  NotStarted(p, q)'
<1>1. PeerStep(q, p) /\ LinkStep(p, q) /\ LinkStep(q, p)
  BY DEF Summary
<1>2. p \notin known'[q]
  BY <1>1, HeadIsCarried DEF PeerStep, NotStarted
<1>3. ASSUME NEW kind \in {"ServiceCreated", "Call"}
      PROVE  ~Carries(channel'[p][q], kind)
  <2>1. ASSUME NEW i \in 1..Len(channel'[p][q]), channel'[p][q][i].kind = kind PROVE FALSE
    <3>1. ~Sends(p, q, channel'[p][q][i])
      BY <2>1 DEF Sends
    <3>2. PICK j \in 1..Len(channel[p][q]) : channel'[p][q][i] = channel[p][q][j]
      BY <1>1, <3>1, Origin
    <3>3. QED
      BY <2>1, <3>2 DEF NotStarted, Carries
  <2>2. QED
    BY <2>1 DEF Carries
<1>4. ~Carries(channel'[q][p], "CallReturn")
  <2>1. ASSUME NEW i \in 1..Len(channel'[q][p]), channel'[q][p][i].kind = "CallReturn" PROVE FALSE
    <3>1. ~Sends(q, p, channel'[q][p][i])
      BY <2>1, HeadIsCarried DEF Sends, NotStarted
    <3>2. PICK j \in 1..Len(channel[q][p]) : channel'[q][p][i] = channel[q][p][j]
      BY <1>1, <3>1, Origin
    <3>3. QED
      BY <2>1, <3>2 DEF NotStarted, Carries
  <2>2. QED
    BY <2>1 DEF Carries
<1>5. QED
  BY <1>2, <1>3, <1>4 DEF NotStarted

LEMMA NotStartedStarts ==
  ASSUME TypeOK, TypeOK', NEW p \in Participant, NEW q \in Participant, p # q,
         NotStarted(p, q), state[q] # "Gone", Starts(p)
  PROVE  Announcing(p, q)'
<1> DEFINE s == channel[p][q]
           t == channel'[p][q]
<1>1. q \in Connected(p) /\ s \in Seq(Message)
  BY DEF Connected, TypeOK
<1>2. /\ state'[p] = "Initializing"
      /\ q \in awaiting'[p]
      /\ p \notin known'[q]
      /\ channel'[q][p] = channel[q][p]
      /\ t = Append(Append(s, [kind |-> "ServiceCreated"]), [kind |-> "Call"])
  BY <1>1 DEF Starts, NotStarted
<1>3. CreatedBeforeCall(t)
  <2>1. /\ Len(t) = Len(s) + 2 /\ Len(s) \in Nat
        /\ t[Len(s) + 1] = [kind |-> "ServiceCreated"]
        /\ \A i \in 1..Len(s) : t[i] = s[i]
    BY <1>1, <1>2, SignalTypes
  <2>2. ASSUME NEW i \in 1..Len(t), t[i].kind = "Call"
        PROVE  \E j \in 1..Len(t) : j < i /\ t[j].kind = "ServiceCreated"
    <3>1. i \notin 1..Len(s)
      BY <2>1, <2>2 DEF NotStarted, Carries
    <3>2. i # Len(s) + 1
      BY <2>1, <2>2
    <3> HIDE DEF s, t
    <3>3. Len(s) + 1 \in 1..Len(t) /\ Len(s) + 1 < i
      BY <2>1, <3>1, <3>2
    <3>4. QED
      BY <2>1, <3>3
  <2>3. QED
    BY <2>2 DEF CreatedBeforeCall
<1>4. ~Carries(channel'[q][p], "CallReturn")
  BY <1>2 DEF NotStarted
<1>5. QED
  BY <1>2, <1>3, <1>4 DEF Announcing

(* The head that is taken is none that the barrier waits for.              *)
LEMMA StillAwaited ==
  ASSUME TypeOK, Truthful, NEW p \in Participant, NEW q \in Participant, PeerStep(p, q),
         state[p] # "Down", state[q] # "Gone", ~HeadIs(q, p, "CallReturn"), q \in awaiting[p]
  PROVE  q \in awaiting'[p]
BY HeadTruthful DEF PeerStep

LEMMA AnnouncingKept ==
  ASSUME TypeOK, TypeOK', Truthful, Summary, NEW p \in Participant, NEW q \in Participant,
         Announcing(p, q), state[q] # "Gone", state'[q] # "Gone", p \notin known'[q],
         state'[p] = "Initializing"
  PROVE  Announcing(p, q)'
<1>1. PeerStep(p, q) /\ LinkStep(p, q) /\ LinkStep(q, p)
  BY DEF Summary
<1>2. ~HeadIs(q, p, "CallReturn")
  BY HeadIsCarried DEF Announcing
<1>3. q \in awaiting'[p]
  BY <1>1, <1>2, StillAwaited DEF Announcing
<1>4. CreatedBeforeCall(channel'[p][q])
  <2> DEFINE c == channel[p][q]
             t == channel'[p][q]
  <2>1. PICK s \in Seq(Message) : Remains(p, q, s) /\ Grown(p, q, s, t)
    BY <1>1 DEF LinkStep
  <2>2. c \in Seq(Message) /\ CreatedBeforeCall(c) /\ Len(s) \in Nat
    BY DEF TypeOK, Announcing
  <2>3. CreatedBeforeCall(s)
    <3>1. CASE s = c
      BY <2>2, <3>1
    <3>2. CASE s = Tail(c) /\ Takes(p, q)
      <4>1. c # <<>> /\ ~HeadIs(p, q, "ServiceCreated")
        BY <3>2 DEF Takes
      <4>2. Head(c).kind # "ServiceCreated" /\ Head(c) = c[1]
        BY <2>2, <4>1 DEF HeadIs
      <4>3. Len(c) \in Nat /\ Len(s) = Len(c) - 1 /\ \A i \in 1..Len(s) : s[i] = c[i + 1]
        BY <2>2, <3>2, <4>1
      <4>4. ASSUME NEW i \in 1..Len(s), s[i].kind = "Call"
            PROVE  \E j \in 1..Len(s) : j < i /\ s[j].kind = "ServiceCreated"
        <5>1. i + 1 \in 1..Len(c) /\ c[i + 1].kind = "Call"
          BY <4>3, <4>4
        <5>2. PICK j \in 1..Len(c) : j < i + 1 /\ c[j].kind = "ServiceCreated"
          BY <2>2, <5>1 DEF CreatedBeforeCall
        <5>3. j # 1
          BY <4>2, <5>2
        <5>4. j - 1 \in 1..Len(s) /\ j - 1 < i /\ s[j - 1] = c[j]
          BY <4>3, <5>2, <5>3
        <5>5. QED
          BY <5>2, <5>4
      <4>5. QED
        BY <4>4 DEF CreatedBeforeCall
    <3>3. CASE s = <<>>
      BY <3>3 DEF CreatedBeforeCall
    <3>4. QED
      BY <2>1, <3>1, <3>2, <3>3 DEF Remains
  <2>4. /\ Len(s) <= Len(t) /\ Len(t) \in Nat
        /\ \A i \in 1..Len(s) : t[i] = s[i]
        /\ \A i \in 1..Len(t) : i > Len(s) => Sends(p, q, t[i])
    <3>1. t \in Seq(Message)
      BY <2>1, GrownKeeps
    <3>2. Len(t) \in Nat
      BY <3>1
    <3> HIDE DEF t
    <3>3. QED
      BY <2>1, <3>2, GrownKeeps
  <2>5. ASSUME NEW i \in 1..Len(t), t[i].kind = "Call"
        PROVE  \E j \in 1..Len(t) : j < i /\ t[j].kind = "ServiceCreated"
    <3>1. ~(i > Len(s))
      BY <2>4, <2>5 DEF Sends, Announcing
    <3>2. i \in 1..Len(s)
      BY <2>2, <3>1
    <3>3. PICK j \in 1..Len(s) : j < i /\ s[j].kind = "ServiceCreated"
      BY <2>3, <2>4, <2>5, <3>2 DEF CreatedBeforeCall
    <3>4. j \in 1..Len(t)
      BY <2>2, <2>4
    <3>5. QED
      BY <2>4, <3>3, <3>4
  <2>6. QED
    BY <2>5 DEF CreatedBeforeCall
<1>5. ~HeadIs(p, q, "Call")
  <2>1. channel[p][q] \in Seq(Message)
    BY DEF TypeOK
  <2>2. channel[p][q] # <<>> => 1 \in 1..Len(channel[p][q]) /\ Head(channel[p][q]) = channel[p][q][1]
    BY <2>1
  <2>3. QED
    BY <2>2 DEF HeadIs, Announcing, CreatedBeforeCall
<1>6. ~Carries(channel'[q][p], "CallReturn")
  <2>1. ASSUME NEW i \in 1..Len(channel'[q][p]), channel'[q][p][i].kind = "CallReturn" PROVE FALSE
    <3>1. ~Sends(q, p, channel'[q][p][i])
      BY <1>5, <2>1 DEF Sends
    <3>2. PICK j \in 1..Len(channel[q][p]) : channel'[q][p][i] = channel[q][p][j]
      BY <1>1, <3>1, Origin
    <3>3. QED
      BY <2>1, <3>2 DEF Announcing, Carries
  <2>2. QED
    BY <2>1 DEF Carries
<1>7. QED
  BY <1>3, <1>4, <1>6 DEF Announcing

(* q hears of p and tells it the latest.                                   *)
LEMMA AnnouncingHeard ==
  ASSUME TypeOK, TypeOK', Truthful, Summary, NEW p \in Participant, NEW q \in Participant, p # q,
         Announcing(p, q), state[q] # "Gone", p \in known'[q], state'[p] = "Initializing",
         currentTask[q].timePoint > 0
  PROVE  Informing(p, q)'
<1>1. PeerStep(p, q) /\ PeerStep(q, p)
  BY DEF Summary
<1>2. ~HeadIs(q, p, "CallReturn")
  BY HeadIsCarried DEF Announcing
<1>3. q \in awaiting'[p]
  BY <1>1, <1>2, StillAwaited DEF Announcing
<1>4. Resends(q)
  <2>1. currentTask[q].timePoint \in Int
    BY Whole
  <2>2. QED
    BY <2>1 DEF Resends
<1>5. PICK m : Sends(q, p, m) /\ IsTask(m) /\ channel'[q][p] = Append(channel[q][p], m)
  BY <1>1, <1>4 DEF PeerStep, Announcing
<1> DEFINE s == channel[q][p]
           t == channel'[q][p]
           k == Len(s) + 1
<1>6. /\ m \in Message /\ s \in Seq(Message)
      /\ LatestOf(q, m, currentTask'[q], myNextTime'[q])
  BY <1>5 DEF Sends, TypeOK
<1>7. /\ k \in 1..Len(t) /\ t[k] = m /\ k = Len(t)
      /\ \A i \in 1..Len(t) : i < k => i \in 1..Len(s) /\ t[i] = s[i]
  BY <1>5, <1>6
<1>8. ASSUME NEW i \in 1..Len(t)
      PROVE  /\ i >= k /\ IsTask(t[i]) => LatestOf(q, t[i], currentTask'[q], myNextTime'[q])
             /\ i < k => t[i].kind # "CallReturn"
  <2>1. CASE i < k
    <3>1. Len(s) \in Nat
      BY <1>6
    <3>2. QED
      BY <1>7, <2>1, <3>1 DEF Announcing, Carries
  <2>2. CASE i = k
    BY <1>6, <1>7, <2>2
  <2>3. QED
    BY <1>7, <2>1, <2>2
<1>9. QED
  <2> HIDE DEF k
  <2>1. \E l \in 1..Len(t) :
          /\ IsTask(t[l])
          /\ \A i \in 1..Len(t) :
                /\ i >= l /\ IsTask(t[i]) => LatestOf(q, t[i], currentTask'[q], myNextTime'[q])
                /\ i < l => t[i].kind # "CallReturn"
    BY <1>5, <1>7, <1>8
  <2>2. QED
    BY <1>3, <2>1 DEF Informing, Latest

(* What is latest stays so while q does not move on.                       *)
LEMMA StaysLatest ==
  ASSUME NEW q \in Participant, SameTimeOf(q), NEW x
  PROVE  LatestOf(q, x, currentTask'[q], myNextTime'[q]) <=> Latest(q, x)
BY DEF SameTimeOf, Latest

LEMMA InformingKept ==
  ASSUME TypeOK, TypeOK', Truthful, FirstAreKnown, Summary,
         NEW p \in Participant, NEW q \in AtStart, p # q, SameTimeOf(q),
         Informing(p, q), state[q] # "Gone", state'[p] = "Initializing"
  PROVE  Informing(p, q)' \/ Informed(p, q)'
<1> DEFINE c == channel[q][p]
           t == channel'[q][p]
           L(x) == LatestOf(q, x, currentTask'[q], myNextTime'[q])
<1>1. q \in Participant /\ PeerStep(p, q) /\ LinkStep(q, p)
  BY SubsetAssumption DEF Summary
<1>2. PICK k \in 1..Len(c) :
         /\ IsTask(c[k])
         /\ \A i \in 1..Len(c) : /\ i >= k /\ IsTask(c[i]) => L(c[i])
                                 /\ i < k => c[i].kind # "CallReturn"
  BY <1>1, StaysLatest DEF Informing
<1>3. PICK s \in Seq(Message) : Remains(q, p, s) /\ Grown(q, p, s, t)
  BY <1>1 DEF LinkStep
<1>4. c \in Seq(Message) /\ Len(c) \in Nat /\ Len(s) \in Nat
  <2>1. c \in Seq(Message)
    BY <1>1 DEF TypeOK
  <2> HIDE DEF c
  <2>2. QED
    BY <2>1
<1>5. /\ t \in Seq(Message) /\ Len(t) \in Nat /\ Len(s) <= Len(t)
      /\ \A i \in 1..Len(s) : t[i] = s[i]
      /\ \A i \in 1..Len(t) : i > Len(s) => Sends(q, p, t[i])
  <2>1. t \in Seq(Message)
    BY <1>1, <1>3, GrownKeeps
  <2>2. Len(t) \in Nat
    BY <2>1
  <2> HIDE DEF t
  <2>3. QED
    BY <1>1, <1>3, <2>1, <2>2, GrownKeeps
<1> HIDE DEF c, t, L
<1>6. \A i \in 1..Len(t) : i > Len(s) /\ IsTask(t[i]) => L(t[i])
  BY <1>5 DEF Sends, L
<1>7. /\ c # <<>> /\ Head(c) = c[1] /\ 1 \in 1..Len(c)
      /\ ~HeadIs(q, p, "CallReturn")
  <2>1. c # <<>> /\ Head(c) = c[1] /\ 1 \in 1..Len(c)
    BY <1>2, <1>4
  <2>2. c[1].kind # "CallReturn"
    BY <1>2, <1>4, <2>1 DEF IsTask
  <2>3. QED
    BY <2>1, <2>2 DEF HeadIs, c
<1>8. q \in awaiting'[p]
  BY <1>1, <1>7, StillAwaited DEF Informing
<1>9. ASSUME NEW l \in 1..Len(s), IsTask(s[l]),
             \A i \in 1..Len(s) : /\ i >= l /\ IsTask(s[i]) => L(s[i])
                                  /\ i < l => s[i].kind # "CallReturn"
      PROVE  Informing(p, q)'
  <2>1. l \in 1..Len(t) /\ IsTask(t[l])
    BY <1>4, <1>5, <1>9
  <2>2. ASSUME NEW i \in 1..Len(t)
        PROVE  /\ i >= l /\ IsTask(t[i]) => L(t[i])
               /\ i < l => t[i].kind # "CallReturn"
    <3>1. CASE i \in 1..Len(s)
      BY <1>5, <1>9, <3>1
    <3>2. CASE i > Len(s)
      BY <1>4, <1>6, <1>9, <3>2
    <3>3. QED
      BY <1>4, <3>1, <3>2
  <2>3. QED
    BY <1>8, <2>1, <2>2 DEF Informing, Latest, L, t
<1>10. CASE s = c
  BY <1>2, <1>9, <1>10
<1>11. CASE s = Tail(c) /\ Takes(q, p)
  <2>1. Len(s) = Len(c) - 1 /\ \A i \in 1..Len(s) : s[i] = c[i + 1] /\ i + 1 \in 1..Len(c)
    BY <1>4, <1>7, <1>11
  <2>2. CASE k # 1
    <3>1. k - 1 \in 1..Len(s) /\ s[k - 1] = c[k]
      BY <1>4, <2>1, <2>2
    <3>2. ASSUME NEW i \in 1..Len(s)
          PROVE  /\ i >= k - 1 /\ IsTask(s[i]) => L(s[i])
                 /\ i < k - 1 => s[i].kind # "CallReturn"
      <4>1. (i >= k - 1 <=> i + 1 >= k) /\ (i < k - 1 <=> i + 1 < k)
        OBVIOUS
      <4>2. QED
        BY <1>2, <2>1, <4>1
    <3>3. QED
      BY <1>2, <1>9, <3>1, <3>2
  <2>3. CASE k = 1
    <3>1. IsTask(Head(c)) /\ L(Head(c)) /\ \A i \in 1..Len(c) : IsTask(c[i]) => L(c[i])
      BY <1>2, <1>7, <2>3
    <3>2. otherNextTask'[p][q] = TaskOf(Head(c))
      BY <1>1, <1>11, <3>1 DEF Takes, Informing, FirstAreKnown, c
    <3>3. L(otherNextTask'[p][q])
      BY <3>1, <3>2 DEF L, LatestOf, TaskOf
    <3>4. ASSUME NEW i \in 1..Len(t), IsTask(t[i]) PROVE L(t[i])
      <4>1. CASE i \in 1..Len(s)
        BY <1>5, <2>1, <3>1, <3>4, <4>1
      <4>2. CASE i > Len(s)
        BY <1>6, <3>4, <4>2
      <4>3. QED
        BY <1>4, <4>1, <4>2
    <3>5. QED
      BY <3>3, <3>4 DEF Informed, Latest, L, t
  <2>4. QED
    BY <2>2, <2>3
<1>12. QED
  BY <1>3, <1>10, <1>11 DEF Remains, c

LEMMA InformedKept ==
  ASSUME TypeOK, TypeOK', Truthful, Summary, NEW p \in Participant, NEW q \in Participant,
         SameTimeOf(q), Informed(p, q), state[q] # "Gone"
  PROVE  Informed(p, q)'
<1>1. PeerStep(p, q) /\ LinkStep(q, p)
  BY DEF Summary
<1>2. LatestOf(q, otherNextTask'[p][q], currentTask'[q], myNextTime'[q])
  <2>1. CASE otherNextTask'[p][q] = otherNextTask[p][q]
    BY <2>1, StaysLatest DEF Informed
  <2>2. CASE HeadIs(q, p, "NextSimTask") /\ otherNextTask'[p][q] = TaskOf(Head(channel[q][p]))
    <3>1. channel[q][p] \in Seq(Message) /\ channel[q][p] # <<>>
      BY <2>2 DEF TypeOK, HeadIs
    <3>2. 1 \in 1..Len(channel[q][p]) /\ Head(channel[q][p]) = channel[q][p][1]
      BY <3>1
    <3>3. Latest(q, Head(channel[q][p]))
      BY <2>2, <3>2 DEF HeadIs, IsTask, Informed
    <3>4. QED
      BY <2>2, <3>3, StaysLatest DEF LatestOf, TaskOf
  <2>3. QED
    BY <1>1, <2>1, <2>2, HeadTruthful DEF PeerStep
<1>3. ASSUME NEW i \in 1..Len(channel'[q][p]), IsTask(channel'[q][p][i])
      PROVE  LatestOf(q, channel'[q][p][i], currentTask'[q], myNextTime'[q])
  <2>1. CASE Sends(q, p, channel'[q][p][i])
    BY <1>3, <2>1 DEF Sends
  <2>2. CASE \E j \in 1..Len(channel[q][p]) : channel'[q][p][i] = channel[q][p][j]
    BY <1>3, <2>2, StaysLatest DEF Informed
  <2>3. QED
    BY <1>1, <2>1, <2>2, Origin
<1>4. QED
  BY <1>2, <1>3 DEF Informed, Latest

LEMMA JoinersAreInformedKept ==
  ASSUME TimelineInv, TimelineInv', JoinInv, Summary
  PROVE  JoinersAreInformed'
<1> SUFFICES ASSUME NEW p \in Participant \ (AtStart \cup Coordinated), NEW q \in AtStart,
                    state'[q] # "Gone", currentTask'[p].timePoint = -1
             PROVE  JoinStage(p, q)'
  BY DEF JoinersAreInformed
<1>1. /\ TypeOK /\ TypeOK' /\ TimeStep /\ q \in Participant /\ p # q
      /\ Truthful /\ FirstAreKnown /\ FirstStepsTogether /\ HopsOnOnce
      /\ StateStep(p) /\ StateStep(q) /\ PeerStep(q, p)
  BY SubsetAssumption DEF Summary, TimelineInv, JoinInv
<1>2. state[q] # "Gone"
  BY <1>1, StillPresent
<1>3. currentTask[p].timePoint = -1
  <2>1. currentTask[p].timePoint \in TimePoint
    BY <1>1 DEF TypeOK, Task
  <2>2. currentTask[p].timePoint <= -1
    BY <1>1, TimeGrows
  <2>3. QED
    BY <2>1, <2>2 DEF TimePoint
<1>4. JoinStage(p, q)
  BY <1>2, <1>3 DEF JoinInv, JoinersAreInformed
<1>5. CASE state'[p] \in {"Halted", "Gone"}
  BY <1>5 DEF JoinStage
<1>6. ASSUME p \in known'[q], currentTask'[q].timePoint > 0
      PROVE  SameTimeOf(q)
  BY <1>1, <1>2, <1>6, WaitsForJoiner
<1>7. CASE state'[p] \notin {"Halted", "Gone"} /\ NotStarted(p, q)
  <2>1. CASE state'[p] = "Down"
    BY <1>1, <1>7, <2>1, NotStartedKept DEF JoinStage
  <2>2. CASE Starts(p)
    BY <1>1, <1>2, <1>7, <2>2, NotStartedStarts DEF JoinStage
  <2>3. QED
    BY <1>1, <1>7, <2>1, <2>2 DEF StateStep, NotStarted
<1>8. CASE state'[p] \notin {"Halted", "Gone"} /\ Announcing(p, q)
  <2>1. state'[p] = "Initializing"
    BY <1>1, <1>8 DEF StateStep, Announcing, Starts
  <2>2. CASE p \notin known'[q]
    BY <1>1, <1>2, <1>8, <2>1, <2>2, AnnouncingKept DEF JoinStage
  <2>3. CASE p \in known'[q]
    <3>1. ASSUME currentTask'[q].timePoint > 0 PROVE Informing(p, q)'
      <4>1. currentTask[q].timePoint > 0
        BY <1>6, <2>3, <3>1 DEF SameTimeOf
      <4>2. QED
        BY <1>1, <1>2, <1>8, <2>1, <2>3, <4>1, AnnouncingHeard
    <3>2. QED
      BY <2>1, <2>3, <3>1 DEF JoinStage
  <2>4. QED
    BY <2>2, <2>3
<1>9. CASE /\ state'[p] \notin {"Halted", "Gone"} /\ state[p] # "Down" /\ p \in known[q]
           /\ currentTask[q].timePoint > 0 => Informing(p, q) \/ Informed(p, q)
  <2>1. state'[p] # "Down" /\ state[p] # "Gone"
    BY <1>1, <1>9 DEF StateStep, Starts
  <2>2. p \in known'[q]
    BY <1>1, <1>9, <2>1, StaysKnown
  <2>3. ASSUME currentTask'[q].timePoint > 0
        PROVE  Informing(p, q)' \/ Informed(p, q)'
    <3>1. SameTimeOf(q)
      BY <1>6, <2>2, <2>3
    <3>2. CASE Informing(p, q)
      <4>1. state'[p] = "Initializing"
        BY <1>1, <1>9, <3>2 DEF StateStep, Informing, Starts
      <4>2. QED
        BY <1>1, <1>2, <3>1, <3>2, <4>1, InformingKept
    <3>3. CASE Informed(p, q)
      BY <1>1, <1>2, <3>1, <3>3, InformedKept
    <3>4. QED
      BY <1>9, <2>3, <3>1, <3>2, <3>3 DEF SameTimeOf
  <2>4. QED
    BY <2>1, <2>2, <2>3 DEF JoinStage
<1>10. CASE state[p] \in {"Halted", "Gone"}
  BY <1>1, <1>5, <1>10 DEF StateStep, Starts
<1>11. QED
  BY <1>4, <1>5, <1>7, <1>8, <1>9, <1>10 DEF JoinStage

LEMMA InitJoin == Init => JoinInv
<1> SUFFICES ASSUME Init PROVE JoinInv
  OBVIOUS
<1>1. /\ \A a \in Participant : /\ currentTask[a] = UnknownTask /\ myNextTime[a] = 0
                                /\ ~hopOnEvaluated[a] /\ known[a] = AtStart \ {a}
                                /\ state[a] = IF a \in AtStart THEN "Initializing" ELSE "Down"
      /\ \A a, b \in Participant : /\ otherNextTask[a][b] = UnknownTask
                                   /\ channel[a][b] = <<>>
  BY DEF Init
<1>2. AtStart \subseteq Participant /\ \A a \in Participant : 0 <= StepSize[a]
  BY SubsetAssumption, StepSizeAssumption
<1>3. \A a \in Participant : OwnDuration(a)
  BY <1>1 DEF OwnDuration, UnknownTask
<1>4. FirstAreKnown /\ FirstStepsTogether /\ FirstAreClose /\ HopsOnOnce
  BY <1>1, <1>2
     DEF FirstAreKnown, FirstStepsTogether, FirstAreClose, HopsOnOnce, Unadvanced, UnknownTask
<1>5. Truthful
  BY <1>1 DEF Truthful, Plain, UnknownTask
<1>6. JoinersAreInformed
  <2>1. ASSUME NEW p \in Participant \ (AtStart \cup Coordinated), NEW q \in AtStart
        PROVE  NotStarted(p, q)
    BY <1>1, <1>2 DEF NotStarted, Carries
  <2>2. QED
    BY <2>1 DEF JoinersAreInformed, JoinStage
<1>7. QED
  BY <1>3, <1>4, <1>5, <1>6 DEF JoinInv

LEMMA NextJoin ==
  ASSUME TimelineInv, TimelineInv', JoinInv, [Next]_vars
  PROVE  JoinInv'
<1>1. Summary /\ TypeOK /\ TypeOK' /\ TimeStep
  BY NextSummary DEF Summary, TimelineInv
<1>2. /\ \A a \in Participant : OwnDuration(a)
      /\ FirstAreKnown /\ FirstStepsTogether /\ FirstAreClose /\ HopsOnOnce
      /\ Truthful /\ JoinersAreInformed
  BY DEF JoinInv
<1>3. \A a \in Participant : OwnDuration(a)'
  BY <1>1, <1>2, OwnDurationKept
<1>4. FirstAreKnown' /\ HopsOnOnce' /\ Truthful'
  BY <1>1, <1>2, FirstAreKnownKept, HopsOnOnceKept, TruthfulKept
<1>5. FirstStepsTogether' /\ FirstAreClose'
  BY <1>1, <1>2, FirstStepsTogetherKept, FirstAreCloseKept
<1>6. JoinersAreInformed'
  BY <1>1, JoinersAreInformedKept
<1>7. QED
  BY <1>3, <1>4, <1>5, <1>6 DEF JoinInv

THEOREM JoinHolds == Spec => []JoinInv
<1>1. TimelineInv /\ TimelineInv' /\ JoinInv /\ [Next]_vars => JoinInv'
  BY NextJoin
<1>2. QED
  BY <1>1, InitJoin, TimelineHolds, PTL DEF Spec

(* What a joiner that runs has been told of a first participant beyond 0.  *)
LEMMA RunningIsInformed ==
  ASSUME TimelineInv, TimelineInv', JoinInv, Summary,
         NEW p \in Participant \ (AtStart \cup Coordinated), currentTask[p].timePoint = -1,
         state[p] = "Running",
         NEW q \in AtStart, state[q] # "Gone", SameTimeOf(q), currentTask[q].timePoint > 0
  PROVE  Latest(q, otherNextTask'[p][q])
<1>1. TypeOK /\ TypeOK' /\ Truthful /\ q \in Participant
  BY SubsetAssumption DEF TimelineInv, JoinInv
<1>2. JoinStage(p, q)
  BY DEF JoinInv, JoinersAreInformed
<1>3. Informed(p, q)
  BY <1>2 DEF JoinStage, NotStarted, Announcing, Informing
<1>4. Informed(p, q)'
  BY <1>1, <1>3, InformedKept
<1>5. QED
  BY <1>1, <1>4, StaysLatest DEF Informed, Latest

(* A peer that has not got beyond a first step at 0 is not taken for one   *)
(* that has.                                                               *)
LEMMA AdvancedIsBeyondFirst ==
  ASSUME TimelineInv, TypeOK', JoinInv, Summary,
         NEW p \in Participant, NEW r \in AtStart, state[r] # "Gone",
         otherNextTask'[p][r].timePoint > otherNextTask'[p][r].duration
  PROVE  currentTask[r].timePoint > 0
<1>1. TypeOK /\ Truthful /\ r \in Participant /\ PeerStep(p, r)
  BY SubsetAssumption DEF TimelineInv, JoinInv, Summary
<1>2. /\ currentTask[r].timePoint \in TimePoint /\ currentTask[r].duration \in Nat
      /\ StepSize[r] \in Nat
  BY <1>1, StepSizeAssumption DEF TypeOK, Task
<1>3. ASSUME currentTask[r].timePoint <= 0 PROVE Unadvanced(r)
  <2>1. CASE currentTask[r].timePoint = -1
    BY <1>1, <2>1 DEF JoinInv, FirstStepsTogether
  <2>2. CASE currentTask[r].timePoint = 0
    <3>1. myNextTime[r] = currentTask[r].duration /\ currentTask[r].duration <= StepSize[r]
      BY <1>1, <1>2, <2>2 DEF JoinInv, OwnDuration
    <3>2. QED
      BY <2>2, <3>1 DEF Unadvanced
  <2>3. QED
    BY <1>2, <1>3, <2>1, <2>2 DEF TimePoint
<1>4. Plain(r, otherNextTask'[p][r])
  BY <1>1, LearnsPlain
<1>5. otherNextTask'[p][r].timePoint \in Int /\ otherNextTask'[p][r].duration \in Int
  BY <1>1, WholeNext
<1>6. QED
  BY <1>2, <1>3, <1>4, <1>5 DEF Plain, TimePoint

(* FirstStepNotInThePast, for every configuration: a joiner has the latest *)
(* step of everybody it knows before its barrier is passed, and those that *)
(* started together are no further apart than one step.                    *)
THEOREM FirstStepNotInThePastHolds == Spec => FirstStepNotInThePast
<1> DEFINE NotBefore(p, q) ==
      \/ currentTask[q].timePoint <= currentTask'[p].timePoint
      \/ myNextTime[q] <= StepSize[q]
      \/ q \in Async /\ currentTask[q].timePoint <= currentTask[q].duration
      \/ \E a \in known'[p] \cap Async :
            /\ currentTask[a].timePoint = currentTask'[p].timePoint
            /\ currentTask[q].timePoint <= myNextTime[a]
    AllNotBefore ==
      \A p \in Participant \ Coordinated :
         currentTask[p].timePoint = -1 /\ Steps(p) /\ JoinsTheFirst(p) =>
            \A q \in known'[p] : NotBefore(p, q)
<1>1. TimelineInv /\ TimelineInv' /\ JoinInv /\ [Next]_vars => AllNotBefore
  <2> SUFFICES ASSUME TimelineInv, TimelineInv', JoinInv, [Next]_vars,
                      NEW p \in Participant \ Coordinated,
                      currentTask[p].timePoint = -1, Steps(p), JoinsTheFirst(p),
                      NEW q \in known'[p]
               PROVE  NotBefore(p, q)
    OBVIOUS
  <2>1. /\ Summary /\ TypeOK /\ TypeOK' /\ TimeStep
        /\ AtStart \subseteq Participant
        /\ \A r \in known'[p] : r \in AtStart /\ state[r] # "Gone"
    BY NextSummary, SubsetAssumption DEF Summary, TimelineInv, JoinsTheFirst
  <2>2. PICK start \in Nat : MovesOn(p, start)
    BY <2>1, Movement DEF Steps, SameTimeOf, MovesOn
  <2>3. currentTask'[p].timePoint = start /\ state[p] = "Running"
    BY <2>2 DEF MovesOn, BeginsStep, HopOnFails
  <2>4. /\ currentTask[q].timePoint \in TimePoint /\ currentTask[q].duration \in Nat
        /\ StepSize[q] \in Nat \ {0}
        /\ myNextTime[p] \in Nat /\ start >= myNextTime[p]
    BY <2>1, <2>2, StepSizeAssumption DEF TypeOK, Task, MovesOn
  <2>5. CASE p \in AtStart
    <3>1. currentTask[q].timePoint <= myNextTime[p]
      BY <2>1, <2>3, <2>5 DEF JoinInv, FirstAreClose
    <3>2. QED
      BY <2>3, <2>4, <3>1 DEF TimePoint
  <2>6. CASE p \notin AtStart /\ currentTask[q].timePoint > start
    <3>1. ASSUME NEW r \in known'[p], currentTask[r].timePoint > 0
          PROVE  Latest(r, otherNextTask'[p][r])
      <4>1. SameTimeOf(r)
        BY <2>1, <2>2, <2>6 DEF MovesOn
      <4>2. QED
        BY <2>1, <2>3, <2>6, <3>1, <4>1, RunningIsInformed
    <3>2. currentTask[q].timePoint > 0 /\ Latest(q, otherNextTask'[p][q])
      BY <2>4, <2>6, <3>1 DEF TimePoint
    <3>3. CASE otherNextTask'[p][q].timePoint > otherNextTask'[p][q].duration
      <4>1. \E at \in Nat : HopsOn(p, at)
        <5>1. otherNextTask'[p][q] \in Task
          BY <2>1 DEF TypeOK
        <5>2. otherNextTask'[p][q].timePoint \in Nat
          BY <3>3, <5>1 DEF Task, TimePoint
        <5>3. QED
          BY <3>3, <5>2 DEF HopsOn
      <4>2. HopsOn(p, start)
        <5>1. ~hopOnEvaluated[p]
          BY DEF JoinInv, HopsOnOnce
        <5>2. QED
          BY <2>2, <4>1, <5>1 DEF MovesOn
      <4>3. PICK r \in known'[p] :
               /\ otherNextTask'[p][r].timePoint > otherNextTask'[p][r].duration
               /\ otherNextTask'[p][r].timePoint = start
        BY <4>2 DEF HopsOn
      <4>4. currentTask[r].timePoint > 0
        BY <2>1, <4>3, AdvancedIsBeyondFirst
      <4>5. Latest(r, otherNextTask'[p][r])
        BY <3>1, <4>4
      <4>6. currentTask[q].timePoint <= myNextTime[r]
        BY <2>1 DEF JoinInv, FirstAreClose
      <4>7. CASE start = myNextTime[r]
        BY <2>3, <4>6, <4>7
      <4>8. CASE r \in Async /\ start = currentTask[r].timePoint
        BY <2>3, <4>6, <4>8
      <4>9. QED
        BY <4>3, <4>5, <4>7, <4>8 DEF Latest, LatestOf
    <3>4. CASE ~(otherNextTask'[p][q].timePoint > otherNextTask'[p][q].duration)
      <4>1. myNextTime[q] \in Nat
        BY <2>1 DEF TypeOK
      <4>2. QED
        BY <2>4, <3>2, <3>4, <4>1 DEF Latest, LatestOf, TimePoint
    <3>5. QED
      BY <3>3, <3>4
  <2>7. QED
    BY <2>3, <2>4, <2>5, <2>6 DEF TimePoint
<1>2. QED
  BY <1>1, JoinHolds, TimelineHolds, PTL DEF Spec, FirstStepNotInThePast

-----------------------------------------------------------------------------
(* Dynamic step sizes.                                                     *)

\* The flag of p is what the peers that p knows come to.
FollowsPeers(p) ==
    /\ dynamicStepPeers[p] = known[p] \cap Driver
    /\ dynamicStepEnabled[p] = MayShorten(p, known[p])

AllFollow == \A p \in Participant : FollowsPeers(p)

LEMMA RecomputeFollows ==
  ASSUME TypeOK, AllFollow,
         NEW p \in Participant, NEW kn \in SUBSET Participant,
         known' = [known EXCEPT ![p] = kn],
         RecomputeDynamicStepEnabled(p, kn \cap Driver)
  PROVE  AllFollow'
<1> SUFFICES ASSUME NEW a \in Participant PROVE FollowsPeers(a)'
  BY DEF AllFollow
<1>1. FollowsPeers(a)
  BY DEF AllFollow
<1>2. CASE a = p
  BY <1>2 DEF RecomputeDynamicStepEnabled, FollowsPeers, DynamicStepEnabled, MayShorten, TypeOK
<1>3. CASE a # p
  BY <1>1, <1>3 DEF RecomputeDynamicStepEnabled, FollowsPeers, MayShorten, TypeOK
<1>4. QED
  BY <1>2, <1>3

LEMMA InitFollows == Init => AllFollow
BY DEF Init, AllFollow, FollowsPeers, DynamicStepEnabled, MayShorten

LEMMA NextFollows ==
  ASSUME TypeOK, AllFollow, [Next]_vars
  PROVE  AllFollow'
<1>1. ASSUME UNCHANGED <<known, dynamicVars>>
      PROVE  AllFollow'
  BY <1>1 DEF AllFollow, FollowsPeers, MayShorten, dynamicVars
<1>2. ASSUME NEW p \in Participant, LocalStep(p)
      PROVE  UNCHANGED <<known, dynamicVars>>
  BY <1>2 DEF LocalStep, StartLifecycle, EnterRunning, CallPause, CallContinue, CallStop,
       CompleteSimulationStep, UpdateTask, RequestTask, PauseTask, ContinueTask, StopTask,
       SystemStopping, Disconnect, peerVars
<1>3. ASSUME NEW p \in Participant, NEW q \in Participant, Receive(p, q)
      PROVE  AllFollow'
  <2>1. CASE ReceiveServiceCreated(p, q)
    <3> DEFINE kn == known[p] \cup {q}
    <3>1. kn \in SUBSET Participant /\ dynamicStepPeers[p] \cup ({q} \cap Driver) = kn \cap Driver
      BY DEF TypeOK, AllFollow, FollowsPeers
    <3>2. known' = [known EXCEPT ![p] = kn]
      BY <2>1 DEF ReceiveServiceCreated
    <3>3. RecomputeDynamicStepEnabled(p, kn \cap Driver)
      BY <2>1, <3>1 DEF ReceiveServiceCreated
    <3> HIDE DEF kn
    <3>4. QED
      BY <3>1, <3>2, <3>3, RecomputeFollows
  <2>2. CASE ReceivePeerShutdown(p, q)
    <3> DEFINE kn == known[p] \ {q}
    <3>1. kn \in SUBSET Participant /\ dynamicStepPeers[p] \ {q} = kn \cap Driver
      BY DEF TypeOK, AllFollow, FollowsPeers
    <3>2. known' = [known EXCEPT ![p] = kn]
      BY <2>2 DEF ReceivePeerShutdown
    <3>3. RecomputeDynamicStepEnabled(p, kn \cap Driver)
      BY <2>2, <3>1 DEF ReceivePeerShutdown
    <3> HIDE DEF kn
    <3>4. QED
      BY <3>1, <3>2, <3>3, RecomputeFollows
  <2>3. CASE ~ReceiveServiceCreated(p, q) /\ ~ReceivePeerShutdown(p, q)
    <3>1. UNCHANGED <<known, dynamicVars>>
      BY <1>3, <2>3 DEF Receive, ReceiveNextSimTask, ReceiveCall, ReceiveCallReturn,
           ReceiveAbortSimulation, peerVars
    <3>2. QED
      BY <1>1, <3>1
  <2>4. QED
    BY <2>1, <2>2, <2>3
<1>4. CASE UNCHANGED vars
  BY <1>1, <1>4 DEF vars, peerVars
<1>5. QED
  BY <1>1, <1>2, <1>3, <1>4 DEF Next

(* The flag for dynamic steps follows the configuration and the peers that *)
(* are known, through every arrival and departure (ServiceCreated and      *)
(* ServiceRemoved in TimeSyncService), in every configuration.             *)
THEOREM DynamicStepsFollowPeers == Spec => []AllFollow
<1>1. TypeOK /\ AllFollow /\ [Next]_vars => AllFollow'
  BY NextFollows
<1>2. QED
  BY <1>1, InitFollows, TypeCorrect, PTL DEF Spec

\* What StepDurations allows when the flag is set.
DynamicDurations(p, t, kn, ot) ==
    LET ends == {t + StepSize[p]} \cup LaterTimes(t, kn, ot)
    IN  {x - t : x \in {e \in ends : \A f \in ends : e <= f}}

LEMMA DynamicDuration ==
  ASSUME NEW p \in Participant, NEW t, dynamicStepEnabled'[p], BeginsStep(p, t)
  PROVE  currentTask'[p].duration \in DynamicDurations(p, t, known'[p], otherNextTask'[p])
BY DEF BeginsStep, StepDurations, DynamicDurations

(* The end of a dynamic step that begins at t: the first time after t at   *)
(* which the full step or a task of a peer begins or ends.                 *)
LEMMA DynamicEnd ==
  ASSUME NEW p \in Participant, NEW t \in Nat,
         NEW kn \in SUBSET Participant, NEW ot \in [Participant -> Task],
         NEW dur \in DynamicDurations(p, t, kn, ot)
  PROVE  /\ t + dur <= t + StepSize[p]
         /\ \A u \in kn :
               \A x \in {ot[u].timePoint, ot[u].timePoint + ot[u].duration} :
                  x > t => t + dur <= x
         /\ \/ t + dur = t + StepSize[p]
            \/ \E u \in kn : t + dur \in {ot[u].timePoint, ot[u].timePoint + ot[u].duration}
<1> DEFINE ends == {t + StepSize[p]} \cup LaterTimes(t, kn, ot)
<1>1. PICK e \in ends : dur = e - t /\ \A f \in ends : e <= f
  BY DEF DynamicDurations
<1>2. StepSize[p] \in Nat
  BY StepSizeAssumption
<1>3. ASSUME NEW x \in LaterTimes(t, kn, ot)
      PROVE  x \in Int /\ \E u \in kn : x \in {ot[u].timePoint, ot[u].timePoint + ot[u].duration}
  BY <1>3 DEF LaterTimes, Task, TimePoint
<1>4. e \in Int
  BY <1>1, <1>2, <1>3
<1>5. t + dur = e
  BY <1>1, <1>4
<1>6. ASSUME NEW u \in kn,
             NEW x \in {ot[u].timePoint, ot[u].timePoint + ot[u].duration}, x > t
      PROVE  x \in ends
  BY <1>6 DEF LaterTimes
<1> HIDE DEF ends
<1>7. t + StepSize[p] \in ends
  BY DEF ends
<1>8. e = t + StepSize[p] \/ e \in LaterTimes(t, kn, ot)
  BY <1>1 DEF ends
<1>9. QED
  BY <1>1, <1>3, <1>5, <1>6, <1>7, <1>8

(* A step is cut short exactly when a driver is known: it does not end     *)
(* after the begin or the end of any task a peer has announced; otherwise  *)
(* it has the configured duration. In every configuration, hop on included.*)
THEOREM StepsAreNegotiated ==
  Spec => [][\A p \in Participant : Steps(p) =>
                IF MayShorten(p, known'[p])
                THEN \A u \in known'[p] :
                        \A x \in {otherNextTask'[p][u].timePoint,
                                  otherNextTask'[p][u].timePoint + otherNextTask'[p][u].duration} :
                           x > currentTask'[p].timePoint => myNextTime'[p] <= x
                ELSE currentTask'[p].duration = StepSize[p]]_vars
<1> DEFINE Negotiated ==
      \A p \in Participant : Steps(p) =>
         IF MayShorten(p, known'[p])
         THEN \A u \in known'[p] :
                 \A x \in {otherNextTask'[p][u].timePoint,
                           otherNextTask'[p][u].timePoint + otherNextTask'[p][u].duration} :
                    x > currentTask'[p].timePoint => myNextTime'[p] <= x
         ELSE currentTask'[p].duration = StepSize[p]
<1>1. TimelineInv /\ TimelineInv' /\ AllFollow' /\ [Next]_vars
         => Negotiated
  <2> SUFFICES ASSUME TimelineInv, TimelineInv', [Next]_vars, NEW p \in Participant,
                      AllFollow', Steps(p)
               PROVE  IF MayShorten(p, known'[p])
                      THEN \A u \in known'[p] :
                              \A x \in {otherNextTask'[p][u].timePoint,
                                  otherNextTask'[p][u].timePoint + otherNextTask'[p][u].duration} :
                                 x > currentTask'[p].timePoint => myNextTime'[p] <= x
                      ELSE currentTask'[p].duration = StepSize[p]
    OBVIOUS
  <2>1. Summary /\ TypeOK' /\ TimeStep
    BY NextSummary DEF Summary, TimelineInv
  <2>2. PICK start \in Nat : BeginsStep(p, start)
    BY <2>1, Movement DEF Steps, SameTimeOf, MovesOn, HopOnFails
  <2>3. dynamicStepEnabled'[p] = MayShorten(p, known'[p])
    BY DEF AllFollow, FollowsPeers
  <2>4. CASE ~MayShorten(p, known'[p])
    BY <2>2, <2>3, <2>4 DEF BeginsStep
  <2>5. CASE MayShorten(p, known'[p])
    <3>1. known'[p] \in SUBSET Participant /\ otherNextTask'[p] \in [Participant -> Task]
      BY <2>1 DEF TypeOK
    <3>2. currentTask'[p].duration \in
             DynamicDurations(p, start, known'[p], otherNextTask'[p])
      BY <2>2, <2>3, <2>5, DynamicDuration
    <3>3. \A u \in known'[p] :
             \A x \in {otherNextTask'[p][u].timePoint,
                       otherNextTask'[p][u].timePoint + otherNextTask'[p][u].duration} :
                x > start => start + currentTask'[p].duration <= x
      BY <3>1, <3>2, DynamicEnd
    <3>4. QED
      BY <2>2, <2>5, <3>3 DEF BeginsStep
  <2>6. QED
    BY <2>4, <2>5
<1>2. QED
  BY <1>1, TimelineHolds, DynamicStepsFollowPeers, PTL DEF Spec

-----------------------------------------------------------------------------
(* Dynamic step sizes among participants that start together.              *)

\* What is told of a is a time that it has reached, or its next step.
Announced(a, x) == x.timePoint <= currentTask[a].timePoint \/ x.timePoint = myNextTime[a]

AllAnnounced ==
    \A a, b \in Participant :
       /\ Announced(a, otherNextTask[b][a])
       /\ \A i \in 1..Len(channel[a][b]) :
             IsTask(channel[a][b][i]) => Announced(a, channel[a][b][i])

\* The step of s, begun at c and ending at n, ends where a full step of u begun
\* at c would end, or where u is going to begin the next one.
EndsWith(u, c, n) ==
    \/ n = c + StepSize[u] /\ c \in {currentTask[u].timePoint, myNextTime[u]}
    \/ currentTask[u].timePoint < c /\ myNextTime[u] = n

\* As long as nobody is beyond it, the step of s ends with somebody.
Planned(s) ==
    currentTask[s].timePoint >= 0
       /\ (\A w \in Participant : currentTask[w].timePoint <= currentTask[s].timePoint)
    => \E u \in Participant : EndsWith(u, currentTask[s].timePoint, myNextTime[s])

AlignInv ==
    /\ \A a \in Participant : a \notin known[a]
    /\ AllAnnounced
    /\ \A s \in Participant : Planned(s)

(* Nobody gets to know itself: no service is announced any more.           *)
LEMMA NobodyKnowsItself ==
  ASSUME TypeOK, TogetherInv, Summary, NEW a \in Participant, a \notin known[a]
  PROVE  a \notin known'[a]
<1>1. PeerStep(a, a)
  BY DEF Summary
<1>2. ~HeadIs(a, a, "ServiceCreated")
  <2>1. channel[a][a] \in Seq(Usable(a, state))
    BY DEF TogetherInv, Clean
  <2>2. channel[a][a] # <<>> => Head(channel[a][a]) \in Usable(a, state)
    BY <2>1
  <2>3. QED
    BY <2>2 DEF HeadIs, Usable, PeerShutdown
<1>3. QED
  BY <1>1, <1>2 DEF PeerStep

\* What a participant keeps to itself about its steps.
OwnSteps(u) ==
    /\ currentTask[u].timePoint \in Nat \cup {-1}
    /\ myNextTime[u] \in Nat
    /\ StepSize[u] \in Nat \ {0}
    /\ currentTask[u].timePoint < myNextTime[u]
    /\ currentTask[u].timePoint >= 0 =>
          myNextTime[u] <= currentTask[u].timePoint + StepSize[u]
    /\ currentTask[u].timePoint = -1 /\ state[u] # "Gone" => myNextTime[u] = 0

LEMMA OwnStepsHold ==
  ASSUME TimelineInv, JoinInv, AtStart = Participant, NEW u \in Participant
  PROVE  OwnSteps(u)
<1>1. /\ currentTask[u] \in Task /\ myNextTime[u] \in Nat /\ StepSize[u] \in Nat \ {0}
      /\ currentTask[u].timePoint < myNextTime[u]
  BY StepSizeAssumption DEF TimelineInv, TypeOK, OwnOrder
<1>2. OwnDuration(u)
  BY DEF JoinInv
<1>3. currentTask[u].timePoint = -1 /\ state[u] # "Gone" => myNextTime[u] = 0
  BY DEF JoinInv, FirstStepsTogether
<1>4. currentTask[u].timePoint \in Nat \cup {-1} /\ currentTask[u].duration \in Nat
  BY <1>1 DEF Task, TimePoint
<1>5. QED
  BY <1>1, <1>2, <1>3, <1>4 DEF OwnSteps, OwnDuration

\* p begins its next step, which nobody is beyond and nobody is behind.
NextOne(p) ==
    /\ state[p] = "Running"
    /\ UNCHANGED state
    /\ \A u \in Participant \ {p} : SameTimeOf(u)
    /\ \A u \in Participant : currentTask[u].timePoint <= myNextTime[p]
    /\ \A u \in Participant : state[u] # "Gone" => myNextTime[p] <= myNextTime[u]
    /\ \A q \in known'[p] : myNextTime[p] <= otherNextTask'[p][q].timePoint
    /\ BeginsStep(p, myNextTime[p])

LEMMA TogetherMovement ==
  ASSUME TimelineInv, TimelineInv', JoinInv, Summary, AtStart = Participant
  PROVE  (\A a \in Participant : SameTimeOf(a)) \/ (\E p \in Participant : NextOne(p))
<1>1. TypeOK /\ TypeOK' /\ TimeStep /\ Truthful /\ FirstStepsTogether /\ FirstAreKnown
  BY DEF TimelineInv, Summary, JoinInv
<1>2. ASSUME NEW p \in Participant, NEW start \in Nat, MovesOn(p, start)
      PROVE  NextOne(p)
  <2>1. state[p] # "Gone" /\ \A at : ~HopsOn(p, at)
    <3>1. state[p] # "Gone"
      BY <1>2 DEF MovesOn
    <3>2. QED
      BY <1>1, <3>1, NobodyHopsOn DEF HopsOn
  <2>2. start = myNextTime[p] /\ BeginsStep(p, start)
    BY <1>2, <2>1 DEF MovesOn, HopOnFails
  <2>3. \A u \in Participant : currentTask[u].timePoint <= myNextTime[p]
    BY <2>1 DEF JoinInv, FirstAreClose
  <2>4. ASSUME NEW u \in Participant, state[u] # "Gone" PROVE myNextTime[p] <= myNextTime[u]
    <3>1. CASE u = p
      BY <1>1, <3>1 DEF TypeOK
    <3>2. CASE u # p
      <4>1. u \in known'[p]
        BY <1>1, <2>4, <3>2, StaysKnown DEF Summary, FirstAreKnown
      <4>2. QED
        BY <1>1, <1>2, <3>2, <4>1, MovesWithin
    <3>3. QED
      BY <3>1, <3>2
  <2>5. QED
    BY <1>2, <2>2, <2>3, <2>4 DEF MovesOn, NextOne
<1>3. QED
  BY <1>1, <1>2, Movement

(* The next step of a becomes the one that it has reached.                 *)
LEMMA StaysAnnounced ==
  ASSUME TimelineInv, TimelineInv', JoinInv, Summary, AtStart = Participant,
         NEW a \in Participant, NEW x, Announced(a, x), x.timePoint \in Int
  PROVE  x.timePoint <= currentTask'[a].timePoint \/ x.timePoint = myNextTime'[a]
<1>1. OwnSteps(a)
  BY OwnStepsHold
<1>2. CASE SameTimeOf(a)
  BY <1>2 DEF SameTimeOf, Announced
<1>3. CASE NextOne(a)
  <2>1. currentTask'[a].timePoint = myNextTime[a]
    BY <1>3 DEF NextOne, BeginsStep
  <2>2. QED
    BY <1>1, <2>1 DEF OwnSteps, Announced
<1>4. QED
  BY <1>2, <1>3, TogetherMovement DEF NextOne

LEMMA AllAnnouncedKept ==
  ASSUME TimelineInv, TimelineInv', JoinInv, Summary, AtStart = Participant, AllAnnounced
  PROVE  AllAnnounced'
<1> DEFINE A(a, x) == x.timePoint <= currentTask'[a].timePoint \/ x.timePoint = myNextTime'[a]
<1> SUFFICES ASSUME NEW a \in Participant, NEW b \in Participant
             PROVE  /\ A(a, otherNextTask'[b][a])
                    /\ \A i \in 1..Len(channel'[a][b]) :
                          IsTask(channel'[a][b][i]) => A(a, channel'[a][b][i])
  BY DEF AllAnnounced, Announced
<1>1. TypeOK /\ TypeOK' /\ PeerStep(b, a) /\ LinkStep(a, b)
  BY DEF TimelineInv, Summary
<1>2. /\ channel[a][b] \in Seq(Message)
      /\ \A i \in 1..Len(channel[a][b]) : IsTask(channel[a][b][i]) =>
            A(a, channel[a][b][i])
  <2>1. channel[a][b] \in Seq(Message)
    BY <1>1 DEF TypeOK
  <2>2. ASSUME NEW i \in 1..Len(channel[a][b]), IsTask(channel[a][b][i])
        PROVE  A(a, channel[a][b][i])
    <3>1. channel[a][b][i] \in Message
      BY <2>1
    <3>2. channel[a][b][i].timePoint \in Int
      BY <2>2, <3>1, TaskTime DEF TimePoint
    <3>3. Announced(a, channel[a][b][i])
      BY <2>2 DEF AllAnnounced
    <3>4. QED
      BY <3>2, <3>3, StaysAnnounced
  <2>3. QED
    BY <2>1, <2>2
<1>3. A(a, otherNextTask'[b][a])
  <2>1. CASE otherNextTask'[b][a] = otherNextTask[b][a]
    <3>1. Announced(a, otherNextTask[b][a]) /\ otherNextTask[b][a].timePoint \in Int
      BY <1>1, Whole DEF AllAnnounced
    <3>2. QED
      BY <2>1, <3>1, StaysAnnounced
  <2>2. CASE HeadIs(a, b, "NextSimTask") /\ otherNextTask'[b][a] = TaskOf(Head(channel[a][b]))
    <3>1. 1 \in 1..Len(channel[a][b]) /\ Head(channel[a][b]) = channel[a][b][1]
      BY <1>2, <2>2 DEF HeadIs
    <3>2. QED
      BY <1>2, <2>2, <3>1 DEF HeadIs, IsTask, TaskOf
  <2>3. CASE otherNextTask'[b][a] = UnknownTask
    <3>1. currentTask'[a].timePoint \in TimePoint
      BY <1>1 DEF TypeOK, Task
    <3>2. QED
      BY <2>3, <3>1 DEF UnknownTask, TimePoint
  <2>4. QED
    BY <1>1, <2>1, <2>2, <2>3 DEF PeerStep
<1>4. ASSUME NEW i \in 1..Len(channel'[a][b]), IsTask(channel'[a][b][i])
      PROVE  A(a, channel'[a][b][i])
  <2>1. CASE \E j \in 1..Len(channel[a][b]) : channel'[a][b][i] = channel[a][b][j]
    BY <1>2, <1>4, <2>1
  <2>2. CASE Sends(a, b, channel'[a][b][i])
    <3>1. channel'[a][b][i] \in Message
      BY <2>2 DEF Sends
    <3>2. channel'[a][b][i].timePoint \in Int /\ currentTask'[a].timePoint \in Int
      BY <1>1, <1>4, <3>1, TaskTime, WholeNext DEF TimePoint
    <3>3. QED
      BY <1>4, <2>2, <3>2 DEF Sends, LatestOf
  <2>3. QED
    BY <1>1, <2>1, <2>2, Origin
<1>5. QED
  BY <1>3, <1>4

\* What has been learnt of u when p begins a step at t.
Learnt(p, u, t) ==
    /\ otherNextTask'[p][u].duration = StepSize[u]
    /\ \/ otherNextTask'[p][u].timePoint = myNextTime[u] /\ t <= myNextTime[u]
       \/ otherNextTask'[p][u].timePoint = t /\ currentTask[u].timePoint = t

LEMMA LearntBeforeStep ==
  ASSUME TimelineInv, TimelineInv', TogetherInv', JoinInv, AllAnnounced', AtStart = Participant,
         Summary, NEW p \in Participant, NextOne(p), NEW u \in known'[p], u # p
  PROVE  Learnt(p, u, myNextTime[p])
<1> DEFINE x == otherNextTask'[p][u]
<1>1. u \in Participant /\ TypeOK /\ TypeOK'
  BY DEF TimelineInv, TypeOK
<1>2. /\ x.timePoint \in Int /\ myNextTime[p] \in Nat
      /\ OwnSteps(u) /\ SameTimeOf(u)
      /\ currentTask[u].timePoint <= myNextTime[p]
      /\ myNextTime[p] <= x.timePoint
  BY <1>1, WholeNext, OwnStepsHold DEF OwnSteps, NextOne, TypeOK
<1>3. x.timePoint <= currentTask'[u].timePoint \/ x.timePoint = myNextTime'[u]
  BY <1>1 DEF AllAnnounced, Announced
<1>4. x.timePoint # -1 => x.duration = StepSize[u]
  BY <1>1 DEF TogetherInv, FullSteps
<1> HIDE DEF x
<1>5. QED
  BY <1>2, <1>3, <1>4 DEF SameTimeOf, OwnSteps, Learnt, x

\* The dynamic step that p begins does not end after a step that a peer it knows
\* ends later; any step ends with a full one or with the step of a peer.
EndFits(p) ==
    /\ myNextTime[p] < myNextTime'[p]
    /\ myNextTime'[p] <= myNextTime[p] + StepSize[p]
    /\ dynamicStepEnabled'[p] => \A u \in known'[p] :
          /\ u \in Participant \ {p} /\ myNextTime[p] <= myNextTime[u]
          /\ myNextTime[p] \in {currentTask[u].timePoint, myNextTime[u]} =>
                myNextTime'[p] <= myNextTime[p] + StepSize[u]
          /\ currentTask[u].timePoint < myNextTime[p] /\ myNextTime[p] < myNextTime[u] =>
                myNextTime'[p] <= myNextTime[u]
    /\ \/ myNextTime'[p] = myNextTime[p] + StepSize[p]
       \/ \E u \in Participant \ {p} :
             \/ myNextTime'[p] = myNextTime[u] /\ myNextTime[p] < myNextTime[u]
             \/ /\ myNextTime'[p] = myNextTime[p] + StepSize[u]
                /\ myNextTime[p] \in {currentTask[u].timePoint, myNextTime[u]}

LEMMA NextStepFits ==
  ASSUME TimelineInv, TimelineInv', TogetherInv, TogetherInv', JoinInv, AllAnnounced',
         AtStart = Participant, Summary,
         NEW p \in Participant, p \notin known[p], NextOne(p)
  PROVE  EndFits(p)
<1> DEFINE t == myNextTime[p]
           e == myNextTime'[p]
           dur == currentTask'[p].duration
<1>1. /\ TypeOK /\ TypeOK' /\ p \notin known'[p]
      /\ t \in Nat /\ StepSize[p] \in Nat \ {0}
  BY NobodyKnowsItself, StepSizeAssumption DEF TimelineInv, TypeOK
<1>2. /\ dur \in Nat \ {0} /\ dur <= StepSize[p] /\ e = t + dur
      /\ ~dynamicStepEnabled'[p] => dur = StepSize[p]
      /\ dur \in StepDurations(p, t, dynamicStepEnabled'[p], known'[p], otherNextTask'[p])
  BY DEF NextOne, BeginsStep
<1>3. CASE ~dynamicStepEnabled'[p]
  BY <1>1, <1>2, <1>3 DEF EndFits
<1>4. CASE dynamicStepEnabled'[p]
  <2> DEFINE x(u) == otherNextTask'[p][u].timePoint
             y(u) == otherNextTask'[p][u].timePoint + otherNextTask'[p][u].duration
  <2>1. known'[p] \in SUBSET Participant /\ otherNextTask'[p] \in [Participant -> Task]
    BY <1>1 DEF TypeOK
  <2>2. /\ \A u \in known'[p] : (x(u) > t => e <= x(u)) /\ (y(u) > t => e <= y(u))
        /\ e = t + StepSize[p] \/ \E u \in known'[p] : e \in {x(u), y(u)}
    <3>0. dur \in DynamicDurations(p, t, known'[p], otherNextTask'[p])
      BY <1>4, DynamicDuration DEF NextOne
    <3>1. ASSUME NEW ot \in [Participant -> Task], NEW kn \in SUBSET Participant,
                 dur \in DynamicDurations(p, t, kn, ot)
          PROVE  /\ \A u \in kn :
                       \A z \in {ot[u].timePoint, ot[u].timePoint + ot[u].duration} :
                          z > t => t + dur <= z
                 /\ \/ t + dur = t + StepSize[p]
                    \/ \E u \in kn : t + dur \in {ot[u].timePoint, ot[u].timePoint + ot[u].duration}
      <4>0. t \in Nat
        BY <1>1
      <4> HIDE DEF t, dur
      <4>1. QED
        BY <3>1, <4>0, DynamicEnd
    <3>2. QED
      BY <1>2, <2>1, <3>0, <3>1
  <2>3. ASSUME NEW u \in known'[p]
        PROVE  /\ u \in Participant \ {p} /\ OwnSteps(u)
               /\ \/ x(u) = myNextTime[u] /\ y(u) = myNextTime[u] + StepSize[u] /\ t <= myNextTime[u]
                  \/ x(u) = t /\ y(u) = t + StepSize[u] /\ currentTask[u].timePoint = t
    <3>1. u \in Participant /\ u # p
      BY <1>1, <2>1
    <3>2. Learnt(p, u, t)
      BY <3>1, LearntBeforeStep
    <3>3. QED
      BY <3>1, <3>2, OwnStepsHold DEF Learnt
  <2>4. ASSUME NEW u \in known'[p]
        PROVE  /\ u \in Participant \ {p} /\ t <= myNextTime[u]
               /\ t \in {currentTask[u].timePoint, myNextTime[u]} => e <= t + StepSize[u]
               /\ currentTask[u].timePoint < t /\ t < myNextTime[u] => e <= myNextTime[u]
    <3>1. (x(u) > t => e <= x(u)) /\ (y(u) > t => e <= y(u))
      BY <2>2
    <3>2. /\ OwnSteps(u)
          /\ \/ x(u) = myNextTime[u] /\ y(u) = myNextTime[u] + StepSize[u] /\ t <= myNextTime[u]
             \/ x(u) = t /\ y(u) = t + StepSize[u] /\ currentTask[u].timePoint = t
      BY <2>3
    <3> HIDE DEF x, y, e, t
    <3>3. t \in Nat /\ e \in Int
      BY <1>1, <1>2 DEF t, e
    <3>4. u \in Participant \ {p}
      BY <2>3
    <3>5. QED
      BY <3>1, <3>2, <3>3, <3>4 DEF OwnSteps
  <2>5. ASSUME NEW u \in known'[p], e \in {x(u), y(u)}
        PROVE  \/ e = myNextTime[u] /\ t < myNextTime[u]
               \/ e = t + StepSize[u] /\ t \in {currentTask[u].timePoint, myNextTime[u]}
    <3>1. (x(u) > t => e <= x(u)) /\ (y(u) > t => e <= y(u))
      BY <2>2
    <3>2. /\ OwnSteps(u)
          /\ \/ x(u) = myNextTime[u] /\ y(u) = myNextTime[u] + StepSize[u] /\ t <= myNextTime[u]
             \/ x(u) = t /\ y(u) = t + StepSize[u] /\ currentTask[u].timePoint = t
      BY <2>3
    <3>3. t \in Nat /\ e \in Int /\ t < e
      BY <1>1, <1>2
    <3> HIDE DEF x, y, e, t
    <3>4. QED
      BY <2>5, <3>1, <3>2, <3>3 DEF OwnSteps
  <2>6. \/ e = t + StepSize[p]
        \/ \E u \in Participant \ {p} :
              \/ e = myNextTime[u] /\ t < myNextTime[u]
              \/ e = t + StepSize[u] /\ t \in {currentTask[u].timePoint, myNextTime[u]}
    BY <2>2, <2>3, <2>5
  <2>7. t < e /\ e <= t + StepSize[p]
    BY <1>1, <1>2
  <2>8. QED
    BY <1>4, <2>4, <2>6, <2>7 DEF EndFits
<1>5. QED
  BY <1>3, <1>4

\* What is the same, and in order, when p begins its next step.
LEMMA NextOneNumbers ==
  ASSUME TimelineInv, JoinInv, AtStart = Participant, NEW p \in Participant, NextOne(p)
  PROVE  /\ currentTask'[p].timePoint = myNextTime[p]
         /\ \A u \in Participant :
               /\ OwnSteps(u)
               /\ currentTask[u].timePoint <= myNextTime[p]
               /\ u # p => /\ currentTask'[u].timePoint = currentTask[u].timePoint
                           /\ myNextTime'[u] = myNextTime[u]
BY OwnStepsHold DEF NextOne, SameTimeOf, BeginsStep

(* The step of s stays planned when p begins its next one.                 *)
LEMMA PlannedKept ==
  ASSUME TimelineInv, TimelineInv', JoinInv, AtStart = Participant, AlignInv,
         NEW p \in Participant, NextOne(p), EndFits(p),
         NEW s \in Participant
  PROVE  Planned(s)'
<1> DEFINE t == myNextTime[p]
           e == myNextTime'[p]
<1>1. /\ currentTask'[p].timePoint = t
      /\ t \in Nat /\ e \in Int /\ t < e
  BY NextOneNumbers, WholeNext DEF TimelineInv, TypeOK, EndFits
<1>2. ASSUME NEW u \in Participant
      PROVE  /\ OwnSteps(u)
             /\ currentTask[u].timePoint <= t
             /\ u # p => /\ currentTask'[u].timePoint = currentTask[u].timePoint
                         /\ myNextTime'[u] = myNextTime[u]
  BY NextOneNumbers
<1> DEFINE Ends(u, c, n) ==
      \/ n = c + StepSize[u] /\ c \in {currentTask'[u].timePoint, myNextTime'[u]}
      \/ currentTask'[u].timePoint < c /\ myNextTime'[u] = n
<1> SUFFICES ASSUME currentTask'[s].timePoint >= 0,
                    \A w \in Participant : currentTask'[w].timePoint <= currentTask'[s].timePoint
             PROVE  \E u \in Participant : Ends(u, currentTask'[s].timePoint, myNextTime'[s])
  BY DEF Planned, EndsWith
\* A step that begins at t is planned, and stays so.
<1>3. ASSUME NEW u \in Participant, currentTask[u].timePoint = t, t < myNextTime[u]
      PROVE  \E w \in Participant : Ends(w, t, myNextTime[u])
  <2>1. Planned(u) /\ \A w \in Participant : currentTask[w].timePoint <= currentTask[u].timePoint
    BY <1>2, <1>3 DEF AlignInv
  <2>2. PICK w \in Participant : EndsWith(w, t, myNextTime[u])
    BY <1>1, <1>3, <2>1 DEF Planned
  <2>3. CASE w = p
    BY <1>1, <1>3, <2>2, <2>3 DEF EndsWith
  <2>4. CASE w # p
    BY <1>2, <2>2, <2>4 DEF EndsWith
  <2>5. QED
    BY <2>3, <2>4
<1>4. CASE s = p
  <2>1. CASE e = t + StepSize[p]
    BY <1>1, <1>4, <2>1
  <2>2. ASSUME NEW u \in Participant \ {p}, e = myNextTime[u], t < myNextTime[u]
        PROVE  \E w \in Participant : Ends(w, t, e)
    <3>1. CASE currentTask[u].timePoint < t
      BY <1>2, <2>2, <3>1
    <3>2. CASE currentTask[u].timePoint = t
      BY <1>3, <2>2, <3>2
    <3>3. QED
      BY <1>1, <1>2, <3>1, <3>2 DEF OwnSteps
  <2>3. ASSUME NEW u \in Participant \ {p}, e = t + StepSize[u],
               t \in {currentTask[u].timePoint, myNextTime[u]}
        PROVE  Ends(u, t, e)
    BY <1>2, <2>3
  <2>4. QED
    BY <1>1, <1>4, <2>1, <2>2, <2>3 DEF EndFits
<1>5. CASE s # p
  <2>1. /\ currentTask'[s].timePoint = currentTask[s].timePoint
        /\ myNextTime'[s] = myNextTime[s]
        /\ currentTask[s].timePoint <= t /\ t <= currentTask[s].timePoint
    BY <1>1, <1>2, <1>5
  <2>2. currentTask[s].timePoint = t /\ t < myNextTime[s]
    BY <1>1, <1>2, <2>1 DEF OwnSteps
  <2>3. QED
    BY <1>3, <2>1, <2>2
<1>6. QED
  BY <1>4, <1>5

LEMMA InitAlign == AtStart = Participant /\ Init => AlignInv
<1> SUFFICES ASSUME AtStart = Participant, Init PROVE AlignInv
  OBVIOUS
<1>1. \A a \in Participant : a \notin known[a] /\ currentTask[a].timePoint = -1
  BY DEF Init, UnknownTask
<1>2. AllAnnounced
  BY DEF Init, AllAnnounced, Announced, UnknownTask
<1>3. QED
  BY <1>1, <1>2 DEF AlignInv, Planned

LEMMA NextAlign ==
  ASSUME TimelineInv, TimelineInv', TogetherInv, TogetherInv', JoinInv, AlignInv,
         AtStart = Participant, [Next]_vars
  PROVE  AlignInv' /\ \A p \in Participant : SameTimeOf(p) \/ (NextOne(p) /\ EndFits(p))
<1>1. Summary /\ TypeOK /\ TypeOK'
  BY NextSummary DEF TimelineInv, JoinInv
<1>2. AllAnnounced'
  BY <1>1, AllAnnouncedKept DEF AlignInv
<1>3. ASSUME NEW a \in Participant PROVE a \notin known'[a]
  BY <1>1, NobodyKnowsItself DEF AlignInv
<1>4. ASSUME NEW p \in Participant, NextOne(p) PROVE EndFits(p)
  BY <1>1, <1>2, <1>4, NextStepFits DEF AlignInv
<1>5. CASE \A a \in Participant : SameTimeOf(a)
  <2>1. \A s \in Participant : Planned(s)'
    BY <1>5 DEF AlignInv, Planned, EndsWith, SameTimeOf
  <2>2. QED
    BY <1>2, <1>3, <1>5, <2>1 DEF AlignInv
<1>6. ASSUME NEW p \in Participant, NextOne(p)
      PROVE  AlignInv' /\ \A a \in Participant : SameTimeOf(a) \/ (NextOne(a) /\ EndFits(a))
  <2>1. EndFits(p) /\ \A s \in Participant : Planned(s)'
    BY <1>4, <1>6, PlannedKept
  <2>2. \A a \in Participant \ {p} : SameTimeOf(a)
    BY <1>6 DEF NextOne
  <2>3. QED
    BY <1>2, <1>3, <1>6, <2>1, <2>2 DEF AlignInv
<1>7. QED
  BY <1>1, <1>5, <1>6, TogetherMovement

(* DynamicStepsAlign, whatever the step sizes, the configurations and the  *)
(* number of those that start together, and whoever leaves: a step has the *)
(* configured duration unless a driver is known, and then it ends no later *)
(* than the step of anybody else, announced or not.                        *)
THEOREM DynamicStepsAlignHolds ==
  ASSUME AtStart = Participant
  PROVE  Spec => DynamicStepsAlign
<1> DEFINE Fits(p) ==
      IF MayShorten(p, known'[p])
      THEN KnowsAll(p) /\ currentTask'[p].timePoint = myNextTime[p] =>
              \A q \in known'[p] :
                 IF myNextTime[q] > currentTask'[p].timePoint
                 THEN myNextTime'[p] <= myNextTime[q]
                 ELSE myNextTime'[p] <= currentTask'[p].timePoint + StepSize[q]
      ELSE currentTask'[p].duration = StepSize[p]
    AllFit == \A p \in Participant : Steps(p) => Fits(p)
<1>1. TimelineInv /\ TimelineInv' /\ TogetherInv /\ TogetherInv' /\ JoinInv /\ AlignInv
         /\ AllFollow' /\ [Next]_vars => AllFit
  <2> HIDE DEF Fits, AllFit
  <2> SUFFICES ASSUME TimelineInv, TimelineInv', TogetherInv, TogetherInv', JoinInv, AlignInv,
                      AllFollow', [Next]_vars,
                      NEW p \in Participant, Steps(p)
               PROVE  Fits(p)
    BY DEF AllFit
  <2> USE DEF Fits
  <2> DEFINE t == myNextTime[p]
             e == myNextTime'[p]
  <2>1. NextOne(p) /\ EndFits(p)
    BY NextAlign DEF Steps, SameTimeOf
  <2>2. /\ dynamicStepEnabled'[p] = MayShorten(p, known'[p])
        /\ ~dynamicStepEnabled'[p] => currentTask'[p].duration = StepSize[p]
        /\ currentTask'[p].timePoint = t
        /\ t \in Nat /\ e \in Int /\ t < e
    BY <2>1, WholeNext DEF AllFollow, FollowsPeers, NextOne, BeginsStep, TimelineInv, TypeOK, EndFits
  <2>3. CASE ~MayShorten(p, known'[p])
    BY <2>2, <2>3
  <2>4. ASSUME MayShorten(p, known'[p]), KnowsAll(p), NEW q \in known'[p]
        PROVE  IF myNextTime[q] > t THEN e <= myNextTime[q] ELSE e <= t + StepSize[q]
    <3>1. known'[p] = Participant \ {p}
      BY <2>4 DEF KnowsAll, TogetherInv
    <3>2. ASSUME NEW u \in Participant
          PROVE  /\ OwnSteps(u) /\ currentTask[u].timePoint <= t
                 /\ u # p => t <= myNextTime[u]
                 /\ t \in {currentTask[u].timePoint, myNextTime[u]} => e <= t + StepSize[u]
                 /\ currentTask[u].timePoint < t /\ t < myNextTime[u] => e <= myNextTime[u]
      <4>1. OwnSteps(u) /\ currentTask[u].timePoint <= t
        BY <2>1, NextOneNumbers
      <4>2. CASE u = p
        BY <2>1, <2>2, <4>1, <4>2 DEF EndFits
      <4>3. CASE u # p
        BY <2>1, <2>2, <2>4, <3>1, <4>1, <4>3 DEF EndFits
      <4>4. QED
        BY <4>2, <4>3
    <3>3. q \in Participant /\ q # p
      BY <3>1
    <3>4. CASE myNextTime[q] = t
      BY <2>2, <3>2, <3>3, <3>4
    <3>5. CASE t < myNextTime[q] /\ currentTask[q].timePoint < t
      BY <2>2, <3>2, <3>3, <3>5
    <3>6. CASE t < myNextTime[q] /\ currentTask[q].timePoint = t
      <4>1. PICK u \in Participant : EndsWith(u, t, myNextTime[q])
        BY <2>2, <3>2, <3>3, <3>6 DEF AlignInv, Planned
      <4>2. QED
        BY <2>2, <3>2, <3>6, <4>1 DEF EndsWith
    <3>7. OwnSteps(q) /\ currentTask[q].timePoint <= t /\ t <= myNextTime[q]
      BY <3>2, <3>3
    <3>8. QED
      BY <2>2, <3>4, <3>5, <3>6, <3>7 DEF OwnSteps
  <2>5. QED
    BY <2>2, <2>3, <2>4
<1>2. Init => TogetherInv /\ AlignInv
  BY InitTogether, InitAlign
<1>3. TimelineInv /\ TimelineInv' /\ TogetherInv /\ TogetherInv' /\ JoinInv /\ AlignInv /\ [Next]_vars
         => AlignInv'
  BY NextAlign
<1>4. TimelineInv /\ TimelineInv' /\ TogetherInv /\ [Next]_vars => TogetherInv'
  BY NextTogether
<1>5. QED
  BY <1>1, <1>2, <1>3, <1>4, TimelineHolds, JoinHolds, DynamicStepsFollowPeers, PTL
     DEF Spec, DynamicStepsAlign
=============================================================================
