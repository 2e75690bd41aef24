--------------------------- MODULE Subscriptions ---------------------------
(***************************************************************************)
(* Registration of services with the VAsioConnection: the receiver of a    *)
(* message type subscribes to it at every peer and awaits their            *)
(* acknowledges, while other participants join, publish and leave.         *)
(*                                                                         *)
(* A topic stands for a network name and message type with one publisher   *)
(* and a history of one message; a participant's service receives one      *)
(* topic. Synchronous registration blocks the user's thread until every    *)
(* peer has acknowledged; asynchronous registration, of services that are  *)
(* created by a handler on the IO thread, only raises a flag that delays   *)
(* the completion handlers. The IO thread of a participant runs posted     *)
(* tasks in order and handles the messages of each peer in order.          *)
(***************************************************************************)
EXTENDS Integers, Sequences, FiniteSets, SequencesExt

CONSTANTS
    Participant,
    AtStart,            \* participants that are connected to each other initially
    Topic,
    Publisher,          \* the participant that publishes a topic
    Receives,           \* topics that each participant registers a service for
    Async,              \* topics of services with UseAsyncRegistration
    Discovered,         \* topics whose services a discovery handler creates
    Starts,             \* participants whose user calls StartLifecycle
    MayLeave,           \* participants that may disconnect or crash
    MaxPublications,    \* bound: publications of each topic
    NoTopic             \* no topic

ASSUME SubscriptionsAssumption ==
    /\ AtStart \subseteq Participant
    /\ Publisher \in [Topic -> Participant]
    /\ Receives \in [Participant -> SUBSET Topic]
    /\ \A p \in Participant : \A t \in Receives[p] : Publisher[t] # p
    /\ Discovered \subseteq Async /\ Async \subseteq Topic
    /\ MaxPublications \in Nat
    /\ NoTopic \notin Topic

VARIABLES
    phase,          \* "Out", "Joining", "In" or "Left"
    peers,          \* VAsioConnection::_peers
    awaiting,       \* peers whose ParticipantAnnouncementReply is outstanding
    begun,          \* topics whose registration has begun
    receivers,      \* VAsioConnection::_vasioReceivers
    pendingSync,    \* _pendingSubscriptionAcknowledges
    pendingAsync,   \* _pendingAsyncSubscriptionAcknowledges
    acked,          \* the promise _receivedAllSubscriptionAcknowledges is set
    userWaits,      \* topic that the user's thread waits for
    ioWaits,        \* topic that the IO thread waits for
    hasPending,     \* _hasPendingAsyncSubscriptions
    handler,        \* the completion handler: "None", "Posted", "Added", "Invoked"
    tasks,          \* tasks posted to the io_context
    wire,           \* wire[p][q]: messages from p that q has not handled
    link,           \* link[t][p]: p's entries among the remote receivers of t
    published,      \* publications of a topic; the last one is its history
    received        \* publications that a receiver was handed

joinVars == <<phase, awaiting>>
pendingVars == <<receivers, pendingSync, pendingAsync, acked, hasPending>>
userVars == <<begun, userWaits, ioWaits>>
dataVars == <<link, published, received>>
vars == <<joinVars, peers, pendingVars, userVars, handler, tasks, wire, dataVars>>

-----------------------------------------------------------------------------
Up(p) == phase[p] \in {"Joining", "In"}
Idle(p) == Up(p) /\ ioWaits[p] = NoTopic

\* Messages ms of p appended to the wires w towards each q of the set to.
SendAll(w, p, to, ms) ==
    [w EXCEPT ![p] = [q \in Participant |->
        IF q \in to /\ Up(q) THEN w[p][q] \o ms ELSE w[p][q]]]

Data(t, n) == [kind |-> "Data", topic |-> t, number |-> n]

\* Faulty variant: services are always registered synchronously.
NeverAsync(t) == FALSE

UseAsyncRegistration(t) == t \in Async

\* Faulty variant: a receiver that is there already is added again.
AddedAgain(n) == n + 1

AddedOnce(n) == IF n > 0 THEN n ELSE n + 1

\* AddRemoteReceiver for each topic of ts at publisher q, on behalf of p.
Subscribed(q, p, ts) ==
    [t \in Topic |-> IF t \in ts /\ Publisher[t] = q
                     THEN [link[t] EXCEPT ![p] = AddedOnce(@)] ELSE link[t]]

\* The history that a new receiver is sent at once, topic by topic.
History(q, p, ts) ==
    LET due == {t \in ts : /\ Publisher[t] = q /\ published[t] > 0
                           /\ Subscribed(q, p, {t})[t][p] > link[t][p]}
        order == SetToSeq(due)
    IN  [i \in 1..Cardinality(due) |-> Data(order[i], published[order[i]])]

-----------------------------------------------------------------------------
(* Completion of subscriptions. The operators give the next values of      *)
(* pendingSync, pendingAsync, acked, hasPending and handler for p.         *)

\* Faulty variant: the first acknowledge completes all subscriptions.
SomeAcked(changed, pending) == changed

AllAcked(changed, pending) == changed /\ pending = {}

SetPending(p, sync, async, syncChanged, asyncChanged) ==
    /\ pendingSync' = [pendingSync EXCEPT ![p] = sync]
    /\ pendingAsync' = [pendingAsync EXCEPT ![p] = async]
    \* SyncSubscriptionsCompleted
    /\ acked' = [acked EXCEPT ![p] = @ \/ AllAcked(syncChanged, sync)]
    \* AsyncSubscriptionsCompleted
    /\ hasPending' = [hasPending EXCEPT ![p] = @ /\ ~AllAcked(asyncChanged, async)]
    /\ handler' = [handler EXCEPT ![p] =
                      IF @ = "Added" /\ AllAcked(asyncChanged, async) THEN "Invoked" ELSE @]

\* Entries leave the lists of p; the emptied list is complete.
RemovePending(p, gone) ==
    SetPending(p, pendingSync[p] \ gone, pendingAsync[p] \ gone,
               pendingSync[p] \cap gone # {}, pendingAsync[p] \cap gone # {})

\* RegisterSilKitServiceImpl: every peer, announced or just accepted, is sent a
\* subscription, which is pending until it is acknowledged.
RegisterSilKitServiceImpl(p, t) ==
    LET acks == peers[p] \X {t}
        async == UseAsyncRegistration(t)
    IN  /\ receivers' = [receivers EXCEPT ![p] = @ \cup {t}]
        /\ SetPending(p, pendingSync[p] \cup (IF async THEN {} ELSE acks),
                      pendingAsync[p] \cup (IF async THEN acks ELSE {}), ~async, async)
        /\ wire' = SendAll(wire, p, peers[p], <<[kind |-> "Subscribe", topic |-> t]>>)
        /\ UNCHANGED <<joinVars, peers, userVars, dataVars>>

-----------------------------------------------------------------------------
(* User threads.                                                           *)

\* JoinSimulation connects to every participant that the registry knows and
\* announces itself to it.
Join(p) ==
    LET known == {q \in Participant : Up(q)}
    IN  /\ phase[p] = "Out"
        /\ phase' = [phase EXCEPT ![p] = IF known = {} THEN "In" ELSE "Joining"]
        /\ awaiting' = [awaiting EXCEPT ![p] = known]
        /\ peers' = [peers EXCEPT ![p] = known]
        /\ wire' = SendAll(wire, p, known, <<[kind |-> "Connect"], [kind |-> "Announcement"]>>)
        /\ UNCHANGED <<pendingVars, userVars, handler, tasks, dataVars>>

\* RegisterSilKitService raises the flag or makes a new promise, posts the
\* registration and, with a promise, waits.
RegisterSilKitService(p, t) ==
    /\ begun' = [begun EXCEPT ![p] = @ \cup {t}]
    /\ IF UseAsyncRegistration(t)
       THEN hasPending' = [hasPending EXCEPT ![p] = TRUE] /\ UNCHANGED acked
       ELSE acked' = [acked EXCEPT ![p] = FALSE] /\ UNCHANGED hasPending
    /\ tasks' = [tasks EXCEPT ![p] = Append(@, t)]
    /\ UNCHANGED <<joinVars, peers, receivers, pendingSync, pendingAsync, handler, wire,
                   dataVars>>

\* The user creates a controller.
CreateController(p, t) ==
    /\ phase[p] = "In" /\ userWaits[p] = NoTopic
    /\ t \in Receives[p] \ (begun[p] \cup Discovered)
    /\ RegisterSilKitService(p, t)
    /\ userWaits' = [userWaits EXCEPT ![p] = IF UseAsyncRegistration(t) THEN NoTopic ELSE t]
    /\ UNCHANGED ioWaits

\* A discovery handler on the IO thread creates a service.
Discover(p, t) ==
    /\ phase[p] = "In" /\ Idle(p)
    /\ t \in (Receives[p] \cap Discovered) \ begun[p]
    /\ RegisterSilKitService(p, t)
    /\ ioWaits' = [ioWaits EXCEPT ![p] = IF UseAsyncRegistration(t) THEN NoTopic ELSE t]
    /\ UNCHANGED userWaits

\* RegisterSilKitService returns to the user.
Return(p) ==
    /\ Up(p) /\ userWaits[p] # NoTopic /\ acked[p]
    /\ userWaits' = [userWaits EXCEPT ![p] = NoTopic]
    /\ UNCHANGED <<joinVars, peers, pendingVars, begun, ioWaits, handler, tasks, wire, dataVars>>

\* StartLifecycle: the state machine on the IO thread will delay its next state
\* until the subscriptions are completed.
StartLifecycle(p) ==
    /\ p \in Starts /\ handler[p] = "None"
    /\ phase[p] = "In" /\ userWaits[p] = NoTopic
    /\ handler' = [handler EXCEPT ![p] = "Posted"]
    /\ tasks' = [tasks EXCEPT ![p] = Append(@, NoTopic)]
    /\ UNCHANGED <<joinVars, peers, pendingVars, userVars, wire, dataVars>>

\* A publication, when its posted SendMsg runs: to the receivers of the moment.
Publish(t) ==
    LET q == Publisher[t]
    IN  /\ phase[q] = "In" /\ Idle(q) /\ published[t] < MaxPublications
        /\ published' = [published EXCEPT ![t] = @ + 1]
        /\ wire' = [wire EXCEPT ![q] = [p \in Participant |->
              IF Up(p) THEN wire[q][p] \o [i \in 1..link[t][p] |-> Data(t, published'[t])]
              ELSE wire[q][p]]]
        /\ UNCHANGED <<joinVars, peers, pendingVars, userVars, handler, tasks, link, received>>

-----------------------------------------------------------------------------
(* The IO thread.                                                          *)

\* Faulty variant: the handler never waits.
InvokedAtOnce(p) == "Invoked"

AddedHandler(p) == IF hasPending[p] THEN "Added" ELSE "Invoked"

\* AddAsyncSubscriptionsCompletionHandler.
AddAsyncSubscriptionsCompletionHandler(p) ==
    /\ handler' = [handler EXCEPT ![p] = AddedHandler(p)]
    /\ UNCHANGED <<joinVars, peers, pendingVars, userVars, wire, dataVars>>

RunTask(p) ==
    /\ Idle(p) /\ tasks[p] # <<>>
    /\ tasks' = [tasks EXCEPT ![p] = Tail(@)]
    /\ LET t == Head(tasks[p])
       IN  IF t = NoTopic THEN AddAsyncSubscriptionsCompletionHandler(p)
           ELSE RegisterSilKitServiceImpl(p, t)

\* The accepted connection becomes a peer at once.
ReceiveConnect(p, q) ==
    /\ peers' = [peers EXCEPT ![p] = @ \cup {q}]
    /\ UNCHANGED <<joinVars, pendingVars, handler, dataVars>>

\* The reply to an announcement names the own receivers.
ReceiveAnnouncement(p, q) == UNCHANGED <<joinVars, peers, pendingVars, handler, dataVars>>

ReceiveReply(p, q, ts) ==
    /\ awaiting' = [awaiting EXCEPT ![p] = @ \ {q}]
    /\ phase' = [phase EXCEPT ![p] = IF awaiting[p] \subseteq {q} THEN "In" ELSE @]
    /\ link' = Subscribed(p, q, ts)
    /\ UNCHANGED <<peers, pendingVars, handler, published, received>>

ReceiveSubscribe(p, q, t) ==
    /\ link' = Subscribed(p, q, {t})
    /\ UNCHANGED <<joinVars, peers, pendingVars, handler, published, received>>

ReceiveAck(p, q, t) ==
    /\ RemovePending(p, {<<q, t>>})
    /\ UNCHANGED <<joinVars, peers, receivers, dataVars>>

ReceiveData(p, m) ==
    /\ received' = [received EXCEPT ![p][m.topic] = Append(@, m.number)]
    /\ UNCHANGED <<joinVars, peers, pendingVars, handler, link, published>>

\* Faulty variant: acknowledges of the peer are awaited further.
PendingOfNobody(p, q) == {}
PendingOf(p, q) == {q} \X Topic

\* OnPeerShutdown: q leaves the links, one entry each, the peers and the
\* pending lists.
ReceiveShutdown(p, q) ==
    /\ link' = [t \in Topic |-> IF Publisher[t] = p /\ link[t][q] > 0
                                THEN [link[t] EXCEPT ![q] = @ - 1] ELSE link[t]]
    /\ peers' = [peers EXCEPT ![p] = @ \ {q}]
    /\ RemovePending(p, PendingOf(p, q))
    /\ UNCHANGED <<joinVars, receivers, published, received>>

\* What p answers to the message m of q.
Answer(p, q, m) ==
    CASE m.kind = "Announcement" -> <<[kind |-> "Reply", topics |-> receivers[p]]>>
      [] m.kind = "Reply" -> History(p, q, m.topics)
      [] m.kind = "Subscribe" -> Append(History(p, q, {m.topic}), [kind |-> "Ack", topic |-> m.topic])
      [] OTHER -> <<>>

Receive(p, q) ==
    /\ Idle(p) /\ wire[q][p] # <<>>
    /\ LET m == Head(wire[q][p])
           taken == [wire EXCEPT ![q][p] = Tail(@)]
       IN  /\ wire' = SendAll(taken, p, {q}, Answer(p, q, m))
           /\ \/ m.kind = "Connect" /\ ReceiveConnect(p, q)
              \/ m.kind = "Announcement" /\ ReceiveAnnouncement(p, q)
              \/ m.kind = "Reply" /\ ReceiveReply(p, q, m.topics)
              \/ m.kind = "Subscribe" /\ ReceiveSubscribe(p, q, m.topic)
              \/ m.kind = "Ack" /\ ReceiveAck(p, q, m.topic)
              \/ m.kind = "Data" /\ ReceiveData(p, m)
              \/ m.kind = "PeerShutdown" /\ ReceiveShutdown(p, q)
    /\ UNCHANGED <<userVars, tasks>>

\* The connections of p end: a peer notices after the messages before.
Leave(p) ==
    /\ p \in MayLeave /\ Up(p)
    /\ phase' = [phase EXCEPT ![p] = "Left"]
    /\ wire' = [q \in Participant |-> [r \in Participant |->
          IF r = p THEN <<>>
          ELSE IF q = p /\ Up(r) /\ (r \in peers[p] \/ p \in peers[r])
          THEN Append(wire[p][r], [kind |-> "PeerShutdown"]) ELSE wire[q][r]]]
    /\ tasks' = [tasks EXCEPT ![p] = <<>>]
    /\ UNCHANGED <<awaiting, peers, pendingVars, userVars, handler, dataVars>>

-----------------------------------------------------------------------------
Init ==
    /\ phase = [p \in Participant |-> IF p \in AtStart THEN "In" ELSE "Out"]
    /\ peers = [p \in Participant |-> IF p \in AtStart THEN AtStart \ {p} ELSE {}]
    /\ awaiting = [p \in Participant |-> {}]
    /\ begun = [p \in Participant |-> {}]
    /\ receivers = [p \in Participant |-> {}]
    /\ pendingSync = [p \in Participant |-> {}]
    /\ pendingAsync = [p \in Participant |-> {}]
    /\ acked = [p \in Participant |-> FALSE]
    /\ userWaits = [p \in Participant |-> NoTopic]
    /\ ioWaits = [p \in Participant |-> NoTopic]
    /\ hasPending = [p \in Participant |-> FALSE]
    /\ handler = [p \in Participant |-> "None"]
    /\ tasks = [p \in Participant |-> <<>>]
    /\ wire = [p \in Participant |-> [q \in Participant |-> <<>>]]
    /\ link = [t \in Topic |-> [p \in Participant |-> 0]]
    /\ published = [t \in Topic |-> 0]
    /\ received = [p \in Participant |-> [t \in Topic |-> <<>>]]

Next ==
    \/ \E p \in Participant :
        \/ Join(p) \/ Return(p) \/ StartLifecycle(p) \/ RunTask(p) \/ Leave(p)
        \/ \E t \in Topic : CreateController(p, t) \/ Discover(p, t)
        \/ \E q \in Participant \ {p} : Receive(p, q)
    \/ \E t \in Topic : Publish(t)

Spec == Init /\ [][Next]_vars

\* IO threads do not rest while they have work; a wait that is over returns.
Fairness ==
    \A p \in Participant :
        /\ WF_vars(Return(p)) /\ WF_vars(RunTask(p))
        /\ \A q \in Participant \ {p} : WF_vars(Receive(p, q))

FairSpec == Spec /\ Fairness

-----------------------------------------------------------------------------
(* Properties.                                                             *)

\* When CreateController of a synchronously registered service has returned,
\* the publisher sends to it, also if it joined while the registration was in
\* progress: by its JoinSimulation returned or by the acknowledge.
SubscribedWhenReturned ==
    \A p \in Participant : \A t \in begun[p] \ (Async \cup {userWaits[p]}) :
        LET q == Publisher[t]
        IN  phase[p] = "In" /\ phase[q] = "In" /\ q \in peers[p] => link[t][p] > 0

\* What a receiver has been handed of topic t, and what is on its way.
Stream(p, t) ==
    received[p][t] \o
        FoldLeft(LAMBDA ns, m :
                     IF m.kind = "Data" /\ m.topic = t THEN Append(ns, m.number) ELSE ns,
                 <<>>, wire[Publisher[t]][p])

\* From its first publication on (the history, for a late receiver) a receiver
\* is sent every publication once and in order, up to the latest.
NoPublicationMissed ==
    \A t \in Topic : \A p \in Participant : link[t][p] > 0 /\ Up(p) /\ Up(Publisher[t]) =>
        LET s == Stream(p, t)
        IN  /\ published[t] > 0 => s # <<>> /\ Last(s) = published[t]
            /\ \A i \in DOMAIN s : i > 1 => s[i] = s[i - 1] + 1

\* The assertion in RegisterSilKitService holds: nothing is pending when the
\* user's thread is free to register the next service, whatever peers joined or
\* left meanwhile.
NothingPendingBetweenRegistrations ==
    \A p \in Participant :
        Up(p) /\ userWaits[p] = NoTopic /\ ioWaits[p] = NoTopic => pendingSync[p] = {}

\* "Delay the next state until pending subscriptions of controllers are
\* completed" (LifecycleStates.cpp).
HandlerWaitsForSubscriptions ==
    [][\A p \in Participant :
           handler[p] # "Invoked" /\ handler'[p] = "Invoked" => pendingAsync'[p] = {}]_vars

\* RegisterSilKitService returns, on the user's thread and on the IO thread,
\* even if the peers that are to acknowledge leave.
RegistrationReturns ==
    \A p \in Participant :
        userWaits[p] # NoTopic \/ ioWaits[p] # NoTopic
            ~> (userWaits[p] = NoTopic /\ ioWaits[p] = NoTopic) \/ ~Up(p)

\* The lifecycle's state machine is resumed.
HandlerIsInvoked ==
    \A p \in Participant : handler[p] = "Posted" ~> handler[p] = "Invoked" \/ ~Up(p)
=============================================================================
