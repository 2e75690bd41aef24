------------------------ MODULE SubscriptionsProofs ------------------------
(***************************************************************************)
(* Theorems about Subscriptions for any participants and topics: a service *)
(* that is registered is subscribed at its publisher, nothing of it is     *)
(* pending when the next one is registered, and the lifecycle's handler    *)
(* waits for a service that is registered asynchronously.                  *)
(***************************************************************************)
EXTENDS Subscriptions, FiniteSetTheorems, SequenceTheorems, TLAPS

Phase == {"Out", "Joining", "In", "Left"}
FiniteTopics == {ts \in SUBSET Topic : IsFiniteSet(ts)}

Message ==
    [kind : {"Connect", "Announcement", "PeerShutdown"}]
    \cup [kind : {"Subscribe", "Ack"}, topic : Topic]
    \cup [kind : {"Reply"}, topics : FiniteTopics]
    \cup [kind : {"Data"}, topic : Topic, number : Nat]

\* The registrations in the queue of posted tasks.
Queued(p) == Range(tasks[p]) \cap Topic

\* The types of the tables that the proofs use.
TablesOK ==
    /\ phase \in [Participant -> Phase]
    /\ peers \in [Participant -> SUBSET Participant]
    /\ awaiting \in [Participant -> SUBSET Participant]
    /\ begun \in [Participant -> SUBSET Topic]
    /\ receivers \in [Participant -> FiniteTopics]
    /\ pendingSync \in [Participant -> SUBSET (Participant \X (Topic \ Async))]
    /\ pendingAsync \in [Participant -> SUBSET (Participant \X Async)]
    /\ acked \in [Participant -> BOOLEAN]
    /\ hasPending \in [Participant -> BOOLEAN]
    /\ userWaits \in [Participant -> (Topic \ Async) \cup {NoTopic}]
    /\ ioWaits = [p \in Participant |-> NoTopic]
    /\ handler \in [Participant -> {"None", "Posted", "Added", "Invoked"}]
    /\ tasks \in [Participant -> Seq(Topic \cup {NoTopic})]
    /\ wire \in [Participant -> [Participant -> Seq(Message)]]
    /\ link \in [Topic -> [Participant -> Nat]]
    /\ published \in [Topic -> Nat]
    /\ \A p \in Participant : Queued(p) \subseteq begun[p] /\ begun[p] \subseteq Receives[p]

\* A participant that has not joined has nothing and is sent nothing.
NothingBefore ==
    \A p \in Participant : phase[p] = "Out" =>
        /\ begun[p] = {} /\ receivers[p] = {} /\ pendingSync[p] = {}
        /\ userWaits[p] = NoTopic /\ tasks[p] = <<>>
        /\ \A q \in Participant : wire[p][q] = <<>> /\ wire[q][p] = <<>>

QueuedOnce(p) ==
    \A i, j \in DOMAIN tasks[p] : tasks[p][i] = tasks[p][j] /\ tasks[p][i] \in Topic => i = j

\* Synchronous registrations: the only one that is begun and not done is the one
\* that the user's thread waits for. It is queued, or it has been run and its
\* acknowledges are all that is pending.
Waiting(p) ==
    /\ QueuedOnce(p)
    /\ Queued(p) \ Async \subseteq {userWaits[p]}
    /\ begun[p] \ (Async \cup {userWaits[p]}) \subseteq receivers[p]
    /\ pendingSync[p] \subseteq Participant \X {userWaits[p]}
    /\ userWaits[p] \in Queued(p) => ~acked[p] /\ pendingSync[p] = {}
    /\ userWaits[p] # NoTopic /\ userWaits[p] \notin Queued(p) => userWaits[p] \in receivers[p]
    /\ acked[p] => pendingSync[p] = {}

OneAtATime == \A p \in Participant : Up(p) => Waiting(p)

\* p's subscription to t at q is made, or to be acknowledged.
Arranged(p, q, t) == link[t][p] > 0 \/ <<q, t>> \in pendingSync[p] \cup pendingAsync[p]

\* q has been named to p as a peer, or its connection is the next message and
\* it awaits the reply to its announcement.
Introduced(p, q) ==
    \/ q \in peers[p]
    \/ /\ p \in awaiting[q] /\ wire[q][p] # <<>>
       /\ Head(wire[q][p]).kind = "Connect"

\* What the messages between two participants that are up say of their tables.
InboundOK(p, q) ==
    \A m \in Range(wire[q][p]) :
        /\ m.kind # "PeerShutdown"
        /\ m.kind = "Ack" /\ Publisher[m.topic] = q => link[m.topic][p] > 0

OutboundOK(p, q) ==
    \A m \in Range(wire[p][q]) : m.kind = "Reply" =>
        /\ q \in peers[p]
        /\ \A t \in receivers[p] \ m.topics : Publisher[t] = q => Arranged(p, q, t)

\* Every receiver of p is subscribed at the publisher q, or will be.
Provided(p, q) ==
    \A t \in receivers[p] : Publisher[t] = q => Arranged(p, q, t) \/ p \in awaiting[q]

ChannelInv(p, q) ==
    InboundOK(p, q) /\ OutboundOK(p, q) /\ Introduced(p, q) /\ Provided(p, q)

Connected ==
    /\ \A p \in Participant : phase[p] = "In" => awaiting[p] = {}
    /\ \A p, q \in Participant : p # q /\ Up(p) /\ Up(q) => ChannelInv(p, q)

\* One asynchronous service per participant: its registration is queued and
\* nothing is pending, or it has been run.
OneAsyncService == \A p \in Participant : \A t, u \in Receives[p] \cap Async : t = u

AsyncIsFlagged ==
    \A p \in Participant :
        /\ Queued(p) \cap Async # {} => hasPending[p] /\ pendingAsync[p] = {}
        /\ pendingAsync[p] # {} => hasPending[p]
        /\ begun[p] \cap Async = {} => pendingAsync[p] = {}

SubscriptionsInv == TablesOK /\ NothingBefore /\ OneAtATime /\ Connected

-----------------------------------------------------------------------------
(* Sequences of messages and tasks.                                        *)

\* Appending adds the appended elements and keeps the first one.
LEMMA ConcatFacts ==
    ASSUME NEW S, NEW s \in Seq(S), NEW u \in Seq(S)
    PROVE  /\ s \o u \in Seq(S)
           /\ Range(s \o u) = Range(s) \cup Range(u)
           /\ s # <<>> => s \o u # <<>> /\ Head(s \o u) = Head(s)
<1>1. s \o u \in Seq(S) /\ Len(s \o u) = Len(s) + Len(u)
    OBVIOUS
<1>2. \A i \in DOMAIN s : i \in DOMAIN (s \o u) /\ (s \o u)[i] = s[i]
    OBVIOUS
<1>3. \A i \in DOMAIN u : Len(s) + i \in DOMAIN (s \o u) /\ (s \o u)[Len(s) + i] = u[i]
    OBVIOUS
<1>4. \A i \in DOMAIN (s \o u) : i \in DOMAIN s \/ (i - Len(s) \in DOMAIN u /\ i = Len(s) + (i - Len(s)))
    BY <1>1
<1>5. Range(s) \cup Range(u) \subseteq Range(s \o u)
    BY <1>2, <1>3 DEF Range
<1>6. Range(s \o u) \subseteq Range(s) \cup Range(u)
    BY <1>2, <1>3, <1>4 DEF Range
<1> QED BY <1>1, <1>5, <1>6

\* Appending one element.
LEMMA AppendFacts ==
    ASSUME NEW S, NEW s \in Seq(S), NEW x \in S
    PROVE  /\ Append(s, x) \in Seq(S)
           /\ Range(Append(s, x)) = Range(s) \cup {x}
           /\ \A i \in DOMAIN Append(s, x) :
                  \/ i \in DOMAIN s /\ Append(s, x)[i] = s[i]
                  \/ i = Len(s) + 1 /\ Append(s, x)[i] = x
<1>1. \A i \in DOMAIN s : i \in DOMAIN Append(s, x) /\ Append(s, x)[i] = s[i]
    OBVIOUS
<1>2. Len(s) + 1 \in DOMAIN Append(s, x) /\ Append(s, x)[Len(s) + 1] = x
    OBVIOUS
<1>3. \A i \in DOMAIN Append(s, x) : i \in DOMAIN s \/ i = Len(s) + 1
    OBVIOUS
<1> QED BY <1>1, <1>2, <1>3 DEF Range

\* Taking the first element.
LEMMA TailFacts ==
    ASSUME NEW S, NEW s \in Seq(S), s # <<>>
    PROVE  /\ Tail(s) \in Seq(S) /\ Head(s) \in S
           /\ Head(s) \in Range(s)
           /\ Range(Tail(s)) \subseteq Range(s) /\ Range(s) = {Head(s)} \cup Range(Tail(s))
           /\ \A i \in DOMAIN Tail(s) : i + 1 \in DOMAIN s /\ i + 1 # 1 /\ Tail(s)[i] = s[i + 1]
<1>1. Head(s) = s[1] /\ 1 \in DOMAIN s /\ Tail(s) \in Seq(S) /\ Len(Tail(s)) = Len(s) - 1
    OBVIOUS
<1>2. \A i \in DOMAIN Tail(s) : i + 1 \in DOMAIN s /\ i + 1 # 1 /\ Tail(s)[i] = s[i + 1]
    OBVIOUS
<1>3. \A i \in DOMAIN s : i = 1 \/ (i - 1 \in DOMAIN Tail(s) /\ s[i] = Tail(s)[i - 1])
    OBVIOUS
<1>4. Head(s) \in S /\ Head(s) \in Range(s)
    BY <1>1 DEF Range
<1>5. Range(Tail(s)) \subseteq Range(s)
    BY <1>2 DEF Range
<1>6. Range(s) \subseteq {Head(s)} \cup Range(Tail(s))
    BY <1>1, <1>3 DEF Range
<1> QED BY <1>1, <1>2, <1>4, <1>5, <1>6

\* A finite set has an order, and it consists of the elements of the set.
LEMMA SetToSeqType ==
    ASSUME NEW S, IsFiniteSet(S)
    PROVE  SetToSeq(S) \in [1..Cardinality(S) -> S] /\ Cardinality(S) \in Nat
<1>1. Cardinality(S) \in Nat /\ ExistsBijection(1..Cardinality(S), S)
    BY FS_CardinalityType
<1>2. PICK f \in [1..Cardinality(S) -> S] : IsInjective(f)
    BY <1>1 DEF ExistsBijection, Bijection, Injection
<1> QED BY <1>1, <1>2 DEF SetToSeq

-----------------------------------------------------------------------------
(* Messages.                                                               *)

\* What SendAll appends, and to which connections.
SentTo(w, p, to, ms, a, b) ==
    IF a = p /\ b \in to /\ Up(b) THEN w[a][b] \o ms ELSE w[a][b]

LEMMA SendAllFacts ==
    ASSUME NEW w \in [Participant -> [Participant -> Seq(Message)]],
           NEW p \in Participant, NEW to, NEW ms \in Seq(Message)
    PROVE  /\ SendAll(w, p, to, ms) \in [Participant -> [Participant -> Seq(Message)]]
           /\ \A a, b \in Participant : SendAll(w, p, to, ms)[a][b] = SentTo(w, p, to, ms, a, b)
<1>1. \A b \in Participant : w[p][b] \o ms \in Seq(Message)
    BY ConcatFacts
<1> QED BY <1>1 DEF SendAll, SentTo

\* The history consists of publications.
LEMMA HistoryType ==
    ASSUME TablesOK, NEW q \in Participant, NEW p \in Participant, NEW ts \in FiniteTopics
    PROVE  /\ History(q, p, ts) \in Seq(Message)
           /\ \A m \in Range(History(q, p, ts)) : m.kind = "Data"
<1> DEFINE due == {t \in ts : /\ Publisher[t] = q /\ published[t] > 0
                              /\ Subscribed(q, p, {t})[t][p] > link[t][p]}
           order == SetToSeq(due)
           h == [i \in 1..Cardinality(due) |-> Data(order[i], published[order[i]])]
<1>1. History(q, p, ts) = h
    BY DEF History
<1>2. due \subseteq ts /\ due \subseteq Topic /\ IsFiniteSet(ts)
    BY DEF FiniteTopics
<1>3. IsFiniteSet(due)
    BY <1>2, FS_Subset
<1>4. order \in [1..Cardinality(due) -> due] /\ Cardinality(due) \in Nat
    BY <1>3, SetToSeqType
<1> HIDE DEF due, order
<1>5. \A i \in 1..Cardinality(due) : order[i] \in Topic /\ published[order[i]] \in Nat
    BY <1>2, <1>4 DEF TablesOK
<1>6. \A i \in 1..Cardinality(due) : h[i] \in Message /\ h[i].kind = "Data"
    BY <1>5 DEF Data, Message
<1>7. h \in Seq(Message)
    BY <1>4, <1>6
<1>8. \A m \in Range(h) : m.kind = "Data"
    BY <1>6 DEF Range
<1> QED BY <1>1, <1>7, <1>8

\* Answers are neither the end of a connection nor its beginning; only a
\* subscription is acknowledged and only an announcement replied to.
LEMMA AnswerType ==
    ASSUME TablesOK, NEW p \in Participant, NEW q \in Participant, NEW m \in Message
    PROVE  /\ Answer(p, q, m) \in Seq(Message)
           /\ \A a \in Range(Answer(p, q, m)) :
                  /\ a.kind # "PeerShutdown"
                  /\ a.kind = "Ack" => m.kind = "Subscribe" /\ a.topic = m.topic
                  /\ a.kind = "Reply" => m.kind = "Announcement" /\ a.topics = receivers[p]
<1>1. CASE m.kind = "Announcement"
    <2> DEFINE r == [kind |-> "Reply", topics |-> receivers[p]]
    <2>1. Answer(p, q, m) = <<r>>
        BY <1>1 DEF Answer
    <2>2. r \in Message
        BY DEF TablesOK, Message
    <2>3. Range(<<r>>) = {r}
        BY DEF Range
    <2> QED BY <1>1, <2>1, <2>2, <2>3
<1>2. CASE m.kind = "Reply"
    <2>1. m.topics \in FiniteTopics /\ Answer(p, q, m) = History(p, q, m.topics)
        BY <1>2 DEF Answer, Message
    <2> QED BY <2>1, HistoryType
<1>3. CASE m.kind = "Subscribe"
    <2> DEFINE h == History(p, q, {m.topic})
               a == [kind |-> "Ack", topic |-> m.topic]
    <2>1. m.topic \in Topic
        BY <1>3 DEF Message
    <2>2. {m.topic} \in FiniteTopics
        BY <2>1, FS_Singleton DEF FiniteTopics
    <2>3. h \in Seq(Message) /\ \A x \in Range(h) : x.kind = "Data"
        BY <2>2, HistoryType
    <2>4. a \in Message
        BY <2>1 DEF Message
    <2>5. Answer(p, q, m) = Append(h, a)
        BY <1>3 DEF Answer
    <2> HIDE DEF h
    <2>6. Append(h, a) \in Seq(Message) /\ Range(Append(h, a)) = Range(h) \cup {a}
        BY <2>3, <2>4, AppendFacts
    <2> QED BY <1>3, <2>3, <2>5, <2>6
<1>4. CASE m.kind \notin {"Announcement", "Reply", "Subscribe"}
    <2>1. Answer(p, q, m) = <<>>
        BY <1>4 DEF Answer
    <2>2. Range(<<>>) = {}
        BY DEF Range
    <2> QED BY <2>1, <2>2
<1> QED BY <1>1, <1>2, <1>3, <1>4

-----------------------------------------------------------------------------
(* Every action keeps the types.                                           *)

\* SetPending changes one participant's lists and what depends on them.
PendingChanged(p, sync, async, syncChanged, asyncChanged) ==
    /\ pendingSync'[p] = sync /\ pendingAsync'[p] = async
    /\ acked'[p] <=> (acked[p] \/ (syncChanged /\ sync = {}))
    /\ hasPending'[p] <=> (hasPending[p] /\ ~(asyncChanged /\ async = {}))
    /\ handler'[p] \in {handler[p], "Invoked"}
    /\ handler'[p] # handler[p] => async = {}
    /\ \A a \in Participant \ {p} :
           /\ pendingSync'[a] = pendingSync[a] /\ pendingAsync'[a] = pendingAsync[a]
           /\ acked'[a] = acked[a] /\ hasPending'[a] = hasPending[a]
           /\ handler'[a] = handler[a]

LEMMA SetPendingFacts ==
    ASSUME TablesOK, NEW p \in Participant,
           NEW sync \in SUBSET (Participant \X (Topic \ Async)),
           NEW async \in SUBSET (Participant \X Async),
           NEW syncChanged \in BOOLEAN, NEW asyncChanged \in BOOLEAN,
           SetPending(p, sync, async, syncChanged, asyncChanged)
    PROVE  /\ pendingSync' \in [Participant -> SUBSET (Participant \X (Topic \ Async))]
           /\ pendingAsync' \in [Participant -> SUBSET (Participant \X Async)]
           /\ acked' \in [Participant -> BOOLEAN]
           /\ hasPending' \in [Participant -> BOOLEAN]
           /\ handler' \in [Participant -> {"None", "Posted", "Added", "Invoked"}]
           /\ PendingChanged(p, sync, async, syncChanged, asyncChanged)
<1>1. /\ pendingSync' = [pendingSync EXCEPT ![p] = sync]
      /\ pendingAsync' = [pendingAsync EXCEPT ![p] = async]
    BY DEF SetPending
<1>2. acked' = [acked EXCEPT ![p] = acked[p] \/ (syncChanged /\ sync = {})]
    BY DEF SetPending, AllAcked
<1>3. hasPending' = [hasPending EXCEPT ![p] = hasPending[p] /\ ~(asyncChanged /\ async = {})]
    BY DEF SetPending, AllAcked
<1>4. handler' = [handler EXCEPT ![p] =
          IF handler[p] = "Added" /\ asyncChanged /\ async = {} THEN "Invoked" ELSE handler[p]]
    BY DEF SetPending, AllAcked
<1>5. /\ pendingSync' \in [Participant -> SUBSET (Participant \X (Topic \ Async))]
      /\ pendingAsync' \in [Participant -> SUBSET (Participant \X Async)]
      /\ pendingSync'[p] = sync /\ pendingAsync'[p] = async
      /\ \A a \in Participant \ {p} :
             pendingSync'[a] = pendingSync[a] /\ pendingAsync'[a] = pendingAsync[a]
    BY <1>1 DEF TablesOK
<1>6. /\ acked' \in [Participant -> BOOLEAN]
      /\ acked'[p] <=> (acked[p] \/ (syncChanged /\ sync = {}))
      /\ \A a \in Participant \ {p} : acked'[a] = acked[a]
    BY <1>2 DEF TablesOK
<1>7. /\ hasPending' \in [Participant -> BOOLEAN]
      /\ hasPending'[p] <=> (hasPending[p] /\ ~(asyncChanged /\ async = {}))
      /\ \A a \in Participant \ {p} : hasPending'[a] = hasPending[a]
    BY <1>3 DEF TablesOK
<1>8. /\ handler' \in [Participant -> {"None", "Posted", "Added", "Invoked"}]
      /\ handler'[p] \in {handler[p], "Invoked"}
      /\ handler'[p] # handler[p] => async = {}
      /\ \A a \in Participant \ {p} : handler'[a] = handler[a]
    BY <1>4 DEF TablesOK
<1> QED BY <1>5, <1>6, <1>7, <1>8 DEF PendingChanged

\* The variables that only the user's thread and the queue of tasks have.
QueueTypes ==
    /\ begun \in [Participant -> SUBSET Topic]
    /\ userWaits \in [Participant -> (Topic \ Async) \cup {NoTopic}]
    /\ ioWaits = [p \in Participant |-> NoTopic]
    /\ tasks \in [Participant -> Seq(Topic \cup {NoTopic})]
    /\ \A p \in Participant : Queued(p) \subseteq begun[p] /\ begun[p] \subseteq Receives[p]

\* The lists of pending acknowledges and what depends on them.
PendingTypes ==
    /\ pendingSync \in [Participant -> SUBSET (Participant \X (Topic \ Async))]
    /\ pendingAsync \in [Participant -> SUBSET (Participant \X Async)]
    /\ acked \in [Participant -> BOOLEAN]
    /\ hasPending \in [Participant -> BOOLEAN]
    /\ handler \in [Participant -> {"None", "Posted", "Added", "Invoked"}]

\* The tables that messages change, and the messages.
PeerTypes ==
    /\ phase \in [Participant -> Phase]
    /\ peers \in [Participant -> SUBSET Participant]
    /\ awaiting \in [Participant -> SUBSET Participant]
    /\ receivers \in [Participant -> FiniteTopics]
    /\ wire \in [Participant -> [Participant -> Seq(Message)]]
    /\ link \in [Topic -> [Participant -> Nat]]
    /\ published \in [Topic -> Nat]

\* The three groups are all of the types.
LEMMA TypesTogether == ASSUME QueueTypes', PendingTypes', PeerTypes' PROVE TablesOK'
BY DEF TablesOK, QueueTypes, PendingTypes, PeerTypes

\* A step that leaves one of the three groups alone keeps its types.
LEMMA TypesUnchanged ==
    ASSUME TablesOK
    PROVE  /\ UNCHANGED <<begun, userWaits, ioWaits, tasks>> => QueueTypes'
           /\ UNCHANGED <<pendingSync, pendingAsync, acked, hasPending, handler>> => PendingTypes'
           /\ UNCHANGED <<phase, peers, awaiting, receivers, wire, link, published>> => PeerTypes'
BY DEF TablesOK, QueueTypes, PendingTypes, PeerTypes, Queued

\* What the user's thread or a handler does when it registers a service.
LEMMA RegisterFacts ==
    ASSUME TablesOK, NEW p \in Participant, NEW t \in Receives[p],
           RegisterSilKitService(p, t)
    PROVE  /\ t \in Topic
           /\ begun' \in [Participant -> SUBSET Topic]
           /\ tasks' \in [Participant -> Seq(Topic \cup {NoTopic})]
           /\ begun'[p] = begun[p] \cup {t} /\ Queued(p)' = Queued(p) \cup {t}
           /\ tasks'[p] = Append(tasks[p], t)
           /\ \A a \in Participant \ {p} : begun'[a] = begun[a] /\ tasks'[a] = tasks[a]
           /\ \A a \in Participant : Queued(a)' \subseteq begun'[a] /\ begun'[a] \subseteq Receives[a]
<1>1. t \in Topic
    BY SubscriptionsAssumption
<1>2. /\ begun' = [begun EXCEPT ![p] = begun[p] \cup {t}]
      /\ tasks' = [tasks EXCEPT ![p] = Append(tasks[p], t)]
    BY DEF RegisterSilKitService
<1>3. tasks[p] \in Seq(Topic \cup {NoTopic})
    BY DEF TablesOK
<1>4. Append(tasks[p], t) \in Seq(Topic \cup {NoTopic}) /\ Range(Append(tasks[p], t)) = Range(tasks[p]) \cup {t}
    BY <1>1, <1>3, AppendFacts
<1>5. /\ tasks' \in [Participant -> Seq(Topic \cup {NoTopic})]
      /\ tasks'[p] = Append(tasks[p], t)
      /\ \A a \in Participant \ {p} : tasks'[a] = tasks[a]
    BY <1>2, <1>4 DEF TablesOK
<1>6. /\ begun' \in [Participant -> SUBSET Topic]
      /\ begun'[p] = begun[p] \cup {t}
      /\ \A a \in Participant \ {p} : begun'[a] = begun[a]
    BY <1>1, <1>2 DEF TablesOK
<1>7. Queued(p)' = Queued(p) \cup {t}
    BY <1>1, <1>4, <1>5 DEF Queued
<1>8. \A a \in Participant : Queued(a)' \subseteq begun'[a] /\ begun'[a] \subseteq Receives[a]
    BY <1>5, <1>6, <1>7 DEF TablesOK, Queued
<1> QED BY <1>1, <1>5, <1>6, <1>7, <1>8

LEMMA UserTypes ==
    ASSUME TablesOK, NEW p \in Participant,
           \/ \E t \in Topic : CreateController(p, t) \/ Discover(p, t)
           \/ Return(p) \/ StartLifecycle(p)
    PROVE  TablesOK'
<1>1. CASE \E t \in Topic : CreateController(p, t) \/ Discover(p, t)
    <2>1. PICK t \in Topic : CreateController(p, t) \/ Discover(p, t)
        BY <1>1
    <2>2. t \in Receives[p] /\ RegisterSilKitService(p, t)
        BY <2>1 DEF CreateController, Discover
    <2>3. /\ ioWaits' = [a \in Participant |-> NoTopic]
          /\ userWaits' \in [Participant -> (Topic \ Async) \cup {NoTopic}]
        <3>1. CASE CreateController(p, t)
            <4>1. (IF t \in Async THEN NoTopic ELSE t) \in (Topic \ Async) \cup {NoTopic}
                OBVIOUS
            <4>2. /\ userWaits' = [userWaits EXCEPT ![p] = IF t \in Async THEN NoTopic ELSE t]
                  /\ ioWaits' = ioWaits
                BY <3>1 DEF CreateController, UseAsyncRegistration
            <4> QED BY <4>1, <4>2 DEF TablesOK
        <3>2. CASE Discover(p, t)
            <4>1. t \in Async
                BY <3>2, SubscriptionsAssumption DEF Discover
            <4>2. ioWaits' = [ioWaits EXCEPT ![p] = NoTopic] /\ userWaits' = userWaits
                BY <3>2, <4>1 DEF Discover, UseAsyncRegistration
            <4> QED BY <4>2 DEF TablesOK
        <3> QED BY <2>1, <3>1, <3>2
    <2>4. QueueTypes'
        BY <2>2, <2>3, RegisterFacts DEF QueueTypes
    <2>5. /\ hasPending' \in [Participant -> BOOLEAN] /\ acked' \in [Participant -> BOOLEAN]
          /\ UNCHANGED <<pendingSync, pendingAsync, handler>>
        BY <2>2 DEF RegisterSilKitService, TablesOK
    <2>6. PendingTypes'
        BY <2>5 DEF PendingTypes, TablesOK
    <2>7. PeerTypes'
        BY <2>2, TypesUnchanged DEF RegisterSilKitService, joinVars, dataVars
    <2> QED BY <2>4, <2>6, <2>7, TypesTogether
<1>2. CASE Return(p)
    <2>1. userWaits' \in [Participant -> (Topic \ Async) \cup {NoTopic}] /\ UNCHANGED <<begun, ioWaits, tasks>>
        BY <1>2 DEF Return, TablesOK
    <2>2. QueueTypes'
        BY <2>1 DEF QueueTypes, TablesOK, Queued
    <2>3. PendingTypes' /\ PeerTypes'
        BY <1>2, TypesUnchanged DEF Return, joinVars, pendingVars, dataVars
    <2> QED BY <2>2, <2>3, TypesTogether
<1>3. CASE StartLifecycle(p)
    <2>1. tasks' = [tasks EXCEPT ![p] = Append(tasks[p], NoTopic)] /\ UNCHANGED userVars
        BY <1>3 DEF StartLifecycle
    <2>2. tasks[p] \in Seq(Topic \cup {NoTopic})
        BY DEF TablesOK
    <2>3. /\ Append(tasks[p], NoTopic) \in Seq(Topic \cup {NoTopic})
          /\ Range(Append(tasks[p], NoTopic)) = Range(tasks[p]) \cup {NoTopic}
        BY <2>2, AppendFacts
    <2>4. tasks' \in [Participant -> Seq(Topic \cup {NoTopic})]
        BY <2>1, <2>3 DEF TablesOK
    <2>5. ASSUME NEW a \in Participant PROVE Queued(a)' = Queued(a)
        <3>1. tasks'[a] = IF a = p THEN Append(tasks[p], NoTopic) ELSE tasks[a]
            BY <2>1 DEF TablesOK
        <3>2. NoTopic \notin Topic
            BY SubscriptionsAssumption
        <3> QED BY <2>3, <3>1, <3>2 DEF Queued
    <2>6. QueueTypes'
        BY <2>1, <2>4, <2>5 DEF QueueTypes, TablesOK, userVars
    <2>7. PendingTypes'
        BY <1>3 DEF StartLifecycle, pendingVars, PendingTypes, TablesOK
    <2>8. PeerTypes'
        BY <1>3, TypesUnchanged DEF StartLifecycle, joinVars, pendingVars, dataVars
    <2> QED BY <2>6, <2>7, <2>8, TypesTogether
<1> QED BY <1>1, <1>2, <1>3

\* JoinSimulation announces the participant to those that are up.
LEMMA JoinFacts ==
    ASSUME TablesOK, NEW p \in Participant, Join(p)
    PROVE  LET ms == <<[kind |-> "Connect"], [kind |-> "Announcement"]>>
               known == {q \in Participant : Up(q)}
           IN  /\ TablesOK' /\ ms \in Seq(Message)
               /\ \A a \in Participant \ {p} :
                      phase'[a] = phase[a] /\ peers'[a] = peers[a] /\ awaiting'[a] = awaiting[a]
               /\ peers'[p] = known /\ awaiting'[p] = known
               /\ phase'[p] = IF known = {} THEN "In" ELSE "Joining"
               /\ \A a, b \in Participant : wire'[a][b] =
                      IF a = p /\ b \in known THEN wire[a][b] \o ms ELSE wire[a][b]
<1> DEFINE ms == <<[kind |-> "Connect"], [kind |-> "Announcement"]>>
           known == {q \in Participant : Up(q)}
<1>1. ms \in Seq(Message)
    BY DEF Message
<1>2. wire' = SendAll(wire, p, known, ms)
    BY DEF Join
<1>3. wire \in [Participant -> [Participant -> Seq(Message)]]
    BY DEF TablesOK
<1> HIDE DEF ms
<1>4. /\ wire' \in [Participant -> [Participant -> Seq(Message)]]
      /\ \A a, b \in Participant : wire'[a][b] =
             IF a = p /\ b \in known THEN wire[a][b] \o ms ELSE wire[a][b]
    <2> HIDE DEF known
    <2>1. /\ SendAll(wire, p, known, ms) \in [Participant -> [Participant -> Seq(Message)]]
          /\ \A a, b \in Participant :
                 SendAll(wire, p, known, ms)[a][b] = SentTo(wire, p, known, ms, a, b)
        BY <1>1, <1>3, SendAllFacts
    <2>2. \A b \in Participant : b \in known <=> Up(b)
        BY DEF known
    <2> QED BY <1>2, <2>1, <2>2 DEF SentTo
<1>5. /\ peers' = [peers EXCEPT ![p] = known] /\ awaiting' = [awaiting EXCEPT ![p] = known]
      /\ phase' = [phase EXCEPT ![p] = IF known = {} THEN "In" ELSE "Joining"]
    BY DEF Join
<1>6. /\ phase' \in [Participant -> Phase]
      /\ peers' \in [Participant -> SUBSET Participant]
      /\ awaiting' \in [Participant -> SUBSET Participant]
      /\ \A a \in Participant \ {p} :
             phase'[a] = phase[a] /\ peers'[a] = peers[a] /\ awaiting'[a] = awaiting[a]
      /\ peers'[p] = known /\ awaiting'[p] = known
      /\ phase'[p] = IF known = {} THEN "In" ELSE "Joining"
    BY <1>5 DEF TablesOK, Phase
<1>7. PeerTypes'
    BY <1>4, <1>6 DEF Join, pendingVars, dataVars, PeerTypes, TablesOK
<1>8. QueueTypes' /\ PendingTypes'
    BY TypesUnchanged DEF Join, pendingVars, userVars
<1>9. TablesOK'
    BY <1>7, <1>8, TypesTogether
<1> QED BY <1>1, <1>4, <1>6, <1>9 DEF ms

\* A publication adds nothing but data to the connections.
LEMMA PublishFacts ==
    ASSUME TablesOK, NEW t \in Topic, Publish(t)
    PROVE  /\ TablesOK'
           /\ \A a, b \in Participant :
                  /\ Range(wire[a][b])' \subseteq Range(wire[a][b]) \cup {m \in Message : m.kind = "Data"}
                  /\ wire[a][b] # <<>> => wire'[a][b] # <<>> /\ Head(wire'[a][b]) = Head(wire[a][b])
                  /\ phase[b] = "Out" => wire'[a][b] = wire[a][b]
                  /\ phase[a] = "Out" => wire'[a][b] = wire[a][b]
<1> DEFINE q == Publisher[t]
           data(p) == [i \in 1..link[t][p] |-> Data(t, published'[t])]
<1>1. /\ q \in Participant /\ phase[q] = "In"
      /\ published' \in [Topic -> Nat]
      /\ wire' = [wire EXCEPT ![q] = [p \in Participant |->
                    IF Up(p) THEN wire[q][p] \o data(p) ELSE wire[q][p]]]
    <2>1. q \in Participant
        BY SubscriptionsAssumption
    <2>2. /\ phase[q] = "In"
          /\ published' = [published EXCEPT ![t] = published[t] + 1]
          /\ wire' = [wire EXCEPT ![q] = [p \in Participant |->
                        IF Up(p) THEN wire[q][p] \o data(p) ELSE wire[q][p]]]
        BY DEF Publish
    <2>3. published' \in [Topic -> Nat]
        BY <2>2 DEF TablesOK
    <2> QED BY <2>1, <2>2, <2>3
<1>2. \A p \in Participant : data(p) \in Seq(Message) /\ \A m \in Range(data(p)) : m \in Message /\ m.kind = "Data"
    <2> TAKE p \in Participant
    <2>1. link[t][p] \in Nat /\ Data(t, published'[t]) \in Message /\ Data(t, published'[t]).kind = "Data"
        BY <1>1 DEF TablesOK, Data, Message
    <2> QED BY <2>1 DEF Range
<1>3. wire \in [Participant -> [Participant -> Seq(Message)]]
    BY DEF TablesOK
<1> HIDE DEF q, data
<1>4. \A p \in Participant : /\ wire[q][p] \o data(p) \in Seq(Message)
                             /\ Range(wire[q][p] \o data(p)) = Range(wire[q][p]) \cup Range(data(p))
                             /\ wire[q][p] # <<>> => /\ wire[q][p] \o data(p) # <<>>
                                                     /\ Head(wire[q][p] \o data(p)) = Head(wire[q][p])
    BY <1>1, <1>2, <1>3, ConcatFacts
<1>5. /\ wire' \in [Participant -> [Participant -> Seq(Message)]]
      /\ \A a, b \in Participant : wire'[a][b] = IF a = q /\ Up(b) THEN wire[a][b] \o data(b) ELSE wire[a][b]
    BY <1>1, <1>3, <1>4
<1>6. PeerTypes'
    BY <1>1, <1>5 DEF Publish, joinVars, pendingVars, PeerTypes, TablesOK
<1>7. QueueTypes' /\ PendingTypes'
    BY TypesUnchanged DEF Publish, pendingVars, userVars
<1>8. TablesOK'
    BY <1>6, <1>7, TypesTogether
<1>9. ASSUME NEW a \in Participant, NEW b \in Participant
      PROVE  /\ Range(wire[a][b])' \subseteq Range(wire[a][b]) \cup {m \in Message : m.kind = "Data"}
             /\ wire[a][b] # <<>> => wire'[a][b] # <<>> /\ Head(wire'[a][b]) = Head(wire[a][b])
             /\ phase[b] = "Out" => wire'[a][b] = wire[a][b]
             /\ phase[a] = "Out" => wire'[a][b] = wire[a][b]
    <2>1. CASE a = q /\ Up(b)
        BY <1>1, <1>2, <1>4, <1>5, <2>1 DEF Up
    <2>2. CASE ~(a = q /\ Up(b))
        <3>1. wire'[a][b] = wire[a][b]
            BY <1>5, <2>2
        <3> QED BY <3>1
    <2> QED BY <2>1, <2>2
<1> QED BY <1>8, <1>9

\* What a registration does when its task runs.
LEMMA RegisterImplFacts ==
    ASSUME TablesOK, NEW p \in Participant, NEW t \in Topic, RegisterSilKitServiceImpl(p, t)
    PROVE  LET acks == peers[p] \X {t}
               sub == [kind |-> "Subscribe", topic |-> t]
           IN  /\ PendingTypes' /\ PeerTypes' /\ sub \in Message
               /\ receivers'[p] = receivers[p] \cup {t}
               /\ \A a \in Participant \ {p} : receivers'[a] = receivers[a]
               /\ PendingChanged(p, pendingSync[p] \cup (IF t \in Async THEN {} ELSE acks),
                                    pendingAsync[p] \cup (IF t \in Async THEN acks ELSE {}),
                                    t \notin Async, t \in Async)
               /\ \A a, b \in Participant : wire'[a][b] =
                      IF a = p /\ b \in peers[p] /\ Up(b) THEN wire[a][b] \o <<sub>> ELSE wire[a][b]
<1> DEFINE acks == peers[p] \X {t}
           sub == [kind |-> "Subscribe", topic |-> t]
           sync == pendingSync[p] \cup (IF t \in Async THEN {} ELSE acks)
           async == pendingAsync[p] \cup (IF t \in Async THEN acks ELSE {})
           isSync == t \notin Async
           isAsync == t \in Async
<1>1. /\ receivers' = [receivers EXCEPT ![p] = receivers[p] \cup {t}]
      /\ SetPending(p, sync, async, isSync, isAsync)
      /\ wire' = SendAll(wire, p, peers[p], <<sub>>)
      /\ UNCHANGED <<joinVars, peers, userVars, dataVars>>
    BY DEF RegisterSilKitServiceImpl, UseAsyncRegistration
<1>2. peers[p] \subseteq Participant
    BY DEF TablesOK
<1>3. sync \in SUBSET (Participant \X (Topic \ Async)) /\ async \in SUBSET (Participant \X Async)
    BY <1>2 DEF TablesOK
<1>4. receivers[p] \cup {t} \in FiniteTopics
    <2>1. receivers[p] \in FiniteTopics
        BY DEF TablesOK
    <2> QED BY <2>1, FS_AddElement DEF FiniteTopics
<1>5. receivers' \in [Participant -> FiniteTopics] /\ receivers'[p] = receivers[p] \cup {t}
      /\ \A a \in Participant \ {p} : receivers'[a] = receivers[a]
    BY <1>1, <1>4 DEF TablesOK
<1>6. sub \in Message
    BY DEF Message
<1>7. <<sub>> \in Seq(Message) /\ wire \in [Participant -> [Participant -> Seq(Message)]]
    BY <1>6 DEF TablesOK
<1> HIDE DEF sub
<1>8. /\ wire' \in [Participant -> [Participant -> Seq(Message)]]
      /\ \A a, b \in Participant : wire'[a][b] =
             IF a = p /\ b \in peers[p] /\ Up(b) THEN wire[a][b] \o <<sub>> ELSE wire[a][b]
    <2>1. /\ SendAll(wire, p, peers[p], <<sub>>) \in [Participant -> [Participant -> Seq(Message)]]
          /\ \A a, b \in Participant :
                 SendAll(wire, p, peers[p], <<sub>>)[a][b] = SentTo(wire, p, peers[p], <<sub>>, a, b)
        BY <1>7, SendAllFacts
    <2> QED BY <1>1, <2>1 DEF SentTo
<1> HIDE DEF sync, async, isSync, isAsync
<1>9. PendingTypes' /\ PendingChanged(p, sync, async, isSync, isAsync)
    <2>1. isSync \in BOOLEAN /\ isAsync \in BOOLEAN
        BY DEF isSync, isAsync
    <2>2. /\ pendingSync' \in [Participant -> SUBSET (Participant \X (Topic \ Async))]
          /\ pendingAsync' \in [Participant -> SUBSET (Participant \X Async)]
          /\ acked' \in [Participant -> BOOLEAN]
          /\ hasPending' \in [Participant -> BOOLEAN]
          /\ handler' \in [Participant -> {"None", "Posted", "Added", "Invoked"}]
          /\ PendingChanged(p, sync, async, isSync, isAsync)
        BY <1>1, <1>3, <2>1, SetPendingFacts
    <2> QED BY <2>2 DEF PendingTypes
<1>10. PeerTypes'
    BY <1>1, <1>5, <1>8 DEF PeerTypes, TablesOK, joinVars, dataVars
<1> QED BY <1>1, <1>3, <1>5, <1>6, <1>8, <1>9, <1>10 DEF sub, sync, async, isSync, isAsync

\* A task leaves the queue, whichever it is.
LEMMA TaskFacts ==
    ASSUME TablesOK, NEW p \in Participant, RunTask(p)
    PROVE  /\ QueueTypes'
           /\ Head(tasks[p]) \in Topic \cup {NoTopic}
           /\ Head(tasks[p]) \in Topic => Head(tasks[p]) \in Queued(p)
           /\ Queued(p) = Queued(p)' \cup ({Head(tasks[p])} \cap Topic)
           /\ QueuedOnce(p) => QueuedOnce(p)' /\ Head(tasks[p]) \notin Queued(p)'
           /\ tasks'[p] = Tail(tasks[p])
           /\ \A a \in Participant \ {p} : tasks'[a] = tasks[a]
           /\ UNCHANGED <<begun, userWaits, ioWaits>>
<1>1. tasks[p] \in Seq(Topic \cup {NoTopic}) /\ tasks[p] # <<>>
    BY DEF TablesOK, RunTask
<1>2. tasks' = [tasks EXCEPT ![p] = Tail(tasks[p])]
    BY DEF RunTask
<1>3. /\ Tail(tasks[p]) \in Seq(Topic \cup {NoTopic})
      /\ Head(tasks[p]) \in Topic \cup {NoTopic}
      /\ Range(tasks[p]) = {Head(tasks[p])} \cup Range(Tail(tasks[p]))
      /\ \A i \in DOMAIN Tail(tasks[p]) :
             i + 1 \in DOMAIN tasks[p] /\ i + 1 # 1 /\ Tail(tasks[p])[i] = tasks[p][i + 1]
    BY <1>1, TailFacts
<1>4. /\ tasks' \in [Participant -> Seq(Topic \cup {NoTopic})]
      /\ tasks'[p] = Tail(tasks[p])
      /\ \A a \in Participant \ {p} : tasks'[a] = tasks[a]
    BY <1>2, <1>3 DEF TablesOK
<1>5. UNCHANGED <<begun, userWaits, ioWaits>>
    BY DEF RunTask, RegisterSilKitServiceImpl, AddAsyncSubscriptionsCompletionHandler, userVars
<1>6. /\ Queued(p) = Queued(p)' \cup ({Head(tasks[p])} \cap Topic)
      /\ \A a \in Participant \ {p} : Queued(a)' = Queued(a)
    BY <1>3, <1>4 DEF Queued
<1>7. QueueTypes'
    BY <1>4, <1>5, <1>6 DEF QueueTypes, TablesOK
<1>8. ASSUME QueuedOnce(p) PROVE QueuedOnce(p)' /\ Head(tasks[p]) \notin Queued(p)'
    <2>1. Head(tasks[p]) = tasks[p][1] /\ 1 \in DOMAIN tasks[p]
        BY <1>1
    <2>2. \A i \in DOMAIN Tail(tasks[p]) : i \in Int
        BY <1>3
    <2>3. ASSUME Head(tasks[p]) \in Queued(p)' PROVE FALSE
        <3>1. PICK i \in DOMAIN Tail(tasks[p]) : Tail(tasks[p])[i] = Head(tasks[p])
            BY <1>4, <2>3 DEF Queued, Range
        <3>2. Head(tasks[p]) \in Topic
            BY <2>3 DEF Queued
        <3> QED BY <1>3, <1>8, <2>1, <3>1, <3>2 DEF QueuedOnce
    <2>4. ASSUME NEW i \in DOMAIN Tail(tasks[p]), NEW j \in DOMAIN Tail(tasks[p]),
                 Tail(tasks[p])[i] = Tail(tasks[p])[j], Tail(tasks[p])[i] \in Topic
          PROVE  i = j
        <3>1. i + 1 = j + 1
            BY <1>3, <1>8, <2>4 DEF QueuedOnce
        <3> QED BY <2>2, <3>1
    <2> QED BY <1>4, <2>3, <2>4 DEF QueuedOnce
<1> QED BY <1>3, <1>4, <1>5, <1>6, <1>7, <1>8 DEF Queued

LEMMA RunTaskTypes == ASSUME TablesOK, NEW p \in Participant, RunTask(p) PROVE TablesOK'
<1>1. QueueTypes' /\ Head(tasks[p]) \in Topic \cup {NoTopic}
    BY TaskFacts
<1>2. CASE Head(tasks[p]) = NoTopic
    <2>1. AddAsyncSubscriptionsCompletionHandler(p)
        BY <1>2 DEF RunTask
    <2>2. PendingTypes'
        BY <2>1 DEF AddAsyncSubscriptionsCompletionHandler, AddedHandler, pendingVars, PendingTypes, TablesOK
    <2>3. PeerTypes'
        BY <2>1, TypesUnchanged DEF AddAsyncSubscriptionsCompletionHandler, joinVars, pendingVars, dataVars
    <2> QED BY <1>1, <2>2, <2>3, TypesTogether
<1>3. CASE Head(tasks[p]) # NoTopic
    <2>1. RegisterSilKitServiceImpl(p, Head(tasks[p])) /\ Head(tasks[p]) \in Topic
        BY <1>1, <1>3 DEF RunTask
    <2>2. PendingTypes' /\ PeerTypes'
        BY <2>1, RegisterImplFacts
    <2> QED BY <1>1, <2>2, TypesTogether
<1> QED BY <1>2, <1>3

\* A subscription only adds receivers, those of the topics subscribed to.
LEMMA SubscribedFacts ==
    ASSUME TablesOK, NEW q \in Participant, NEW p \in Participant, NEW ts
    PROVE  /\ Subscribed(q, p, ts) \in [Topic -> [Participant -> Nat]]
           /\ \A t \in Topic, a \in Participant : link[t][a] > 0 => Subscribed(q, p, ts)[t][a] > 0
           /\ \A t \in ts \cap Topic : Publisher[t] = q => Subscribed(q, p, ts)[t][p] > 0
<1>1. \A t \in Topic : [link[t] EXCEPT ![p] = AddedOnce(@)] \in [Participant -> Nat]
    BY DEF TablesOK, AddedOnce
<1>2. ASSUME NEW t \in Topic, NEW a \in Participant
      PROVE  /\ link[t][a] > 0 => Subscribed(q, p, ts)[t][a] > 0
             /\ t \in ts /\ Publisher[t] = q => Subscribed(q, p, ts)[t][p] > 0
    <2>1. link[t] \in [Participant -> Nat] /\ link[t][a] \in Nat /\ link[t][p] \in Nat
        BY DEF TablesOK
    <2>2. CASE t \in ts /\ Publisher[t] = q
        <3>1. Subscribed(q, p, ts)[t] = [link[t] EXCEPT ![p] = AddedOnce(@)]
            BY <2>2 DEF Subscribed
        <3>2. AddedOnce(link[t][p]) > 0
            BY <2>1 DEF AddedOnce
        <3> QED BY <2>1, <3>1, <3>2
    <2>3. CASE ~(t \in ts /\ Publisher[t] = q)
        BY <2>3 DEF Subscribed
    <2> QED BY <2>2, <2>3
<1>3. Subscribed(q, p, ts) \in [Topic -> [Participant -> Nat]]
    BY <1>1 DEF Subscribed, TablesOK
<1> QED BY <1>2, <1>3

\* Handling a message takes it from its connection and appends the answer to
\* the one in the other direction.
LEMMA ReceiveWires ==
    ASSUME TablesOK, NEW p \in Participant, NEW q \in Participant \ {p}, Receive(p, q)
    PROVE  LET m == Head(wire[q][p])
           IN  /\ m \in Message /\ m \in Range(wire[q][p]) /\ wire[q][p] # <<>>
               /\ Answer(p, q, m) \in Seq(Message)
               /\ wire' \in [Participant -> [Participant -> Seq(Message)]]
               /\ wire'[q][p] = Tail(wire[q][p])
               /\ wire'[p][q] = IF Up(q) THEN wire[p][q] \o Answer(p, q, m) ELSE wire[p][q]
               /\ \A a, b \in Participant : ~(a = q /\ b = p) /\ ~(a = p /\ b = q) => wire'[a][b] = wire[a][b]
<1> DEFINE m == Head(wire[q][p])
           taken == [wire EXCEPT ![q] = [wire[q] EXCEPT ![p] = Tail(wire[q][p])]]
           ms == Answer(p, q, m)
<1>1. wire[q][p] \in Seq(Message) /\ wire[q][p] # <<>>
    BY DEF TablesOK, Receive
<1>2. m \in Message /\ m \in Range(wire[q][p]) /\ Tail(wire[q][p]) \in Seq(Message)
    BY <1>1, TailFacts
<1>3. ms \in Seq(Message)
    BY <1>2, AnswerType
<1>4. wire' = SendAll(taken, p, {q}, ms)
    BY DEF Receive
<1>5. /\ taken \in [Participant -> [Participant -> Seq(Message)]]
      /\ taken[q][p] = Tail(wire[q][p])
      /\ \A a, b \in Participant : ~(a = q /\ b = p) => taken[a][b] = wire[a][b]
    BY <1>2 DEF TablesOK
<1> HIDE DEF taken, ms
<1>6. /\ SendAll(taken, p, {q}, ms) \in [Participant -> [Participant -> Seq(Message)]]
      /\ \A a, b \in Participant :
             SendAll(taken, p, {q}, ms)[a][b] = SentTo(taken, p, {q}, ms, a, b)
    <2>1. taken \in [Participant -> [Participant -> Seq(Message)]]
        BY <1>5
    <2> QED BY ONLY <1>3, <2>1, p \in Participant, SendAllFacts
<1>7. wire'[q][p] = Tail(wire[q][p])
    BY <1>4, <1>5, <1>6 DEF SentTo
<1>8. wire'[p][q] = IF Up(q) THEN wire[p][q] \o ms ELSE wire[p][q]
    BY <1>4, <1>5, <1>6 DEF SentTo
<1>9. ASSUME NEW a \in Participant, NEW b \in Participant, ~(a = q /\ b = p), ~(a = p /\ b = q)
      PROVE  wire'[a][b] = wire[a][b]
    <2>1. wire'[a][b] = SentTo(taken, p, {q}, ms, a, b)
        BY <1>4, <1>6
    <2>2. taken[a][b] = wire[a][b]
        BY <1>5, <1>9
    <2> QED BY <1>9, <2>1, <2>2 DEF SentTo
<1> QED BY <1>1, <1>2, <1>3, <1>4, <1>6, <1>7, <1>8, <1>9 DEF ms

\* The entries of the pending lists that an acknowledge or a disconnect removes.
Removed(p, gone) ==
    PendingChanged(p, pendingSync[p] \ gone, pendingAsync[p] \ gone,
                   pendingSync[p] \cap gone # {}, pendingAsync[p] \cap gone # {})

LEMMA RemovePendingFacts ==
    ASSUME TablesOK, NEW p \in Participant, NEW gone, RemovePending(p, gone)
    PROVE  PendingTypes' /\ Removed(p, gone)
<1> DEFINE sync == pendingSync[p] \ gone
           async == pendingAsync[p] \ gone
           syncChanged == pendingSync[p] \cap gone # {}
           asyncChanged == pendingAsync[p] \cap gone # {}
<1>1. SetPending(p, sync, async, syncChanged, asyncChanged)
    BY DEF RemovePending
<1>2. /\ sync \in SUBSET (Participant \X (Topic \ Async))
      /\ async \in SUBSET (Participant \X Async)
      /\ syncChanged \in BOOLEAN /\ asyncChanged \in BOOLEAN
    BY DEF TablesOK
<1> HIDE DEF sync, async, syncChanged, asyncChanged
<1>3. /\ pendingSync' \in [Participant -> SUBSET (Participant \X (Topic \ Async))]
      /\ pendingAsync' \in [Participant -> SUBSET (Participant \X Async)]
      /\ acked' \in [Participant -> BOOLEAN]
      /\ hasPending' \in [Participant -> BOOLEAN]
      /\ handler' \in [Participant -> {"None", "Posted", "Added", "Invoked"}]
      /\ PendingChanged(p, sync, async, syncChanged, asyncChanged)
    BY <1>1, <1>2, SetPendingFacts
<1> QED BY <1>3 DEF PendingTypes, Removed, sync, async, syncChanged, asyncChanged

\* What is true of the lists of another participant's receivers after its end.
LEMMA ShutdownLinks ==
    ASSUME TablesOK, NEW p \in Participant, NEW q \in Participant, ReceiveShutdown(p, q)
    PROVE  /\ link' \in [Topic -> [Participant -> Nat]]
           /\ \A t \in Topic, a \in Participant : a # q => link'[t][a] = link[t][a]
<1>1. \A t \in Topic : link[t] \in [Participant -> Nat]
    BY DEF TablesOK
<1>2. \A t \in Topic : link[t][q] > 0 => [link[t] EXCEPT ![q] = @ - 1] \in [Participant -> Nat]
    BY <1>1
<1>3. link' = [t \in Topic |-> IF Publisher[t] = p /\ link[t][q] > 0
                               THEN [link[t] EXCEPT ![q] = @ - 1] ELSE link[t]]
    BY DEF ReceiveShutdown
<1> QED BY <1>1, <1>2, <1>3

LEMMA ReceiveTypes ==
    ASSUME TablesOK, NEW p \in Participant, NEW q \in Participant \ {p}, Receive(p, q)
    PROVE  TablesOK'
<1> DEFINE m == Head(wire[q][p])
<1>1. m \in Message /\ wire' \in [Participant -> [Participant -> Seq(Message)]]
    BY ReceiveWires
<1>2. QueueTypes'
    BY TypesUnchanged DEF Receive, userVars
<1>3. CASE m.kind = "Connect" /\ ReceiveConnect(p, q)
    <2>1. peers' \in [Participant -> SUBSET Participant]
        BY <1>3 DEF ReceiveConnect, TablesOK
    <2>2. PeerTypes'
        BY <1>1, <1>3, <2>1 DEF ReceiveConnect, joinVars, pendingVars, dataVars, PeerTypes, TablesOK
    <2>3. PendingTypes'
        BY <1>3, TypesUnchanged DEF ReceiveConnect, pendingVars
    <2> QED BY <1>2, <2>2, <2>3, TypesTogether
<1>4. CASE m.kind = "Announcement" /\ ReceiveAnnouncement(p, q)
    <2>1. PeerTypes'
        BY <1>1, <1>4 DEF ReceiveAnnouncement, joinVars, pendingVars, dataVars, PeerTypes, TablesOK
    <2>2. PendingTypes'
        BY <1>4, TypesUnchanged DEF ReceiveAnnouncement, pendingVars
    <2> QED BY <1>2, <2>1, <2>2, TypesTogether
<1>5. CASE m.kind = "Reply" /\ ReceiveReply(p, q, m.topics)
    <2>1. link' \in [Topic -> [Participant -> Nat]]
        BY <1>5, SubscribedFacts DEF ReceiveReply
    <2>2. awaiting' \in [Participant -> SUBSET Participant] /\ phase' \in [Participant -> Phase]
        BY <1>5 DEF ReceiveReply, TablesOK, Phase
    <2>3. PeerTypes'
        BY <1>1, <1>5, <2>1, <2>2 DEF ReceiveReply, pendingVars, PeerTypes, TablesOK
    <2>4. PendingTypes'
        BY <1>5, TypesUnchanged DEF ReceiveReply, pendingVars
    <2> QED BY <1>2, <2>3, <2>4, TypesTogether
<1>6. CASE m.kind = "Subscribe" /\ ReceiveSubscribe(p, q, m.topic)
    <2>1. link' \in [Topic -> [Participant -> Nat]]
        BY <1>6, SubscribedFacts DEF ReceiveSubscribe
    <2>2. PeerTypes'
        BY <1>1, <1>6, <2>1 DEF ReceiveSubscribe, joinVars, pendingVars, PeerTypes, TablesOK
    <2>3. PendingTypes'
        BY <1>6, TypesUnchanged DEF ReceiveSubscribe, pendingVars
    <2> QED BY <1>2, <2>2, <2>3, TypesTogether
<1>7. CASE m.kind = "Ack" /\ ReceiveAck(p, q, m.topic)
    <2>1. PendingTypes'
        BY <1>7, RemovePendingFacts DEF ReceiveAck
    <2>2. PeerTypes'
        BY <1>1, <1>7 DEF ReceiveAck, joinVars, dataVars, PeerTypes, TablesOK
    <2> QED BY <1>2, <2>1, <2>2, TypesTogether
<1>8. CASE m.kind = "Data" /\ ReceiveData(p, m)
    <2>1. PeerTypes'
        BY <1>1, <1>8 DEF ReceiveData, joinVars, pendingVars, PeerTypes, TablesOK
    <2>2. PendingTypes'
        BY <1>8, TypesUnchanged DEF ReceiveData, pendingVars
    <2> QED BY <1>2, <2>1, <2>2, TypesTogether
<1>9. CASE m.kind = "PeerShutdown" /\ ReceiveShutdown(p, q)
    <2>1. PendingTypes'
        BY <1>9, RemovePendingFacts DEF ReceiveShutdown
    <2>2. link' \in [Topic -> [Participant -> Nat]]
        BY <1>9, ShutdownLinks
    <2>3. peers' \in [Participant -> SUBSET Participant]
        BY <1>9 DEF ReceiveShutdown, TablesOK
    <2>4. PeerTypes'
        BY <1>1, <1>9, <2>2, <2>3 DEF ReceiveShutdown, joinVars, PeerTypes, TablesOK
    <2> QED BY <1>2, <2>1, <2>4, TypesTogether
<1> QED BY <1>3, <1>4, <1>5, <1>6, <1>7, <1>8, <1>9 DEF Receive

\* What else a message changes is the receiver's own: it may complete its
\* join and shrink its lists of pending acknowledges.
LEMMA ReceiveRest ==
    ASSUME TablesOK, NEW p \in Participant, NEW q \in Participant \ {p}, Receive(p, q)
    PROVE  /\ receivers' = receivers /\ UNCHANGED <<begun, userWaits, tasks>>
           /\ \A a \in Participant \ {p} :
                  phase'[a] = phase[a] /\ awaiting'[a] = awaiting[a] /\ peers'[a] = peers[a]
           /\ phase'[p] \in {phase[p], "In"}
           /\ \E gone : Removed(p, gone)
<1> DEFINE m == Head(wire[q][p])
           Rest == /\ receivers' = receivers
                   /\ \A a \in Participant \ {p} :
                          phase'[a] = phase[a] /\ awaiting'[a] = awaiting[a] /\ peers'[a] = peers[a]
                   /\ phase'[p] \in {phase[p], "In"}
<1>1. UNCHANGED <<begun, userWaits, tasks>>
    BY DEF Receive, userVars
<1>2. ASSUME UNCHANGED <<pendingSync, pendingAsync, acked, hasPending, handler>>
      PROVE  \E gone : Removed(p, gone)
    <2>1. Removed(p, {})
        BY <1>2 DEF Removed, PendingChanged
    <2> QED BY <2>1
<1>3. CASE m.kind = "Connect" /\ ReceiveConnect(p, q)
    <2>1. Rest
        BY <1>3 DEF ReceiveConnect, joinVars, pendingVars, TablesOK
    <2> QED BY <1>1, <1>2, <1>3, <2>1 DEF ReceiveConnect, pendingVars
<1>4. CASE m.kind = "Announcement" /\ ReceiveAnnouncement(p, q)
    <2>1. Rest
        BY <1>4 DEF ReceiveAnnouncement, joinVars, pendingVars, TablesOK
    <2> QED BY <1>1, <1>2, <1>4, <2>1 DEF ReceiveAnnouncement, pendingVars
<1>5. CASE m.kind = "Reply" /\ ReceiveReply(p, q, m.topics)
    <2>1. Rest
        BY <1>5 DEF ReceiveReply, joinVars, pendingVars, TablesOK
    <2> QED BY <1>1, <1>2, <1>5, <2>1 DEF ReceiveReply, pendingVars
<1>6. CASE m.kind = "Subscribe" /\ ReceiveSubscribe(p, q, m.topic)
    <2>1. Rest
        BY <1>6 DEF ReceiveSubscribe, joinVars, pendingVars, TablesOK
    <2> QED BY <1>1, <1>2, <1>6, <2>1 DEF ReceiveSubscribe, pendingVars
<1>7. CASE m.kind = "Ack" /\ ReceiveAck(p, q, m.topic)
    <2>1. Rest
        BY <1>7 DEF ReceiveAck, joinVars, TablesOK
    <2>2. Removed(p, {<<q, m.topic>>})
        BY <1>7, RemovePendingFacts DEF ReceiveAck
    <2> QED BY <1>1, <2>1, <2>2
<1>8. CASE m.kind = "Data" /\ ReceiveData(p, m)
    <2>1. Rest
        BY <1>8 DEF ReceiveData, joinVars, pendingVars, TablesOK
    <2> QED BY <1>1, <1>2, <1>8, <2>1 DEF ReceiveData, pendingVars
<1>9. CASE m.kind = "PeerShutdown" /\ ReceiveShutdown(p, q)
    <2>1. Rest
        BY <1>9 DEF ReceiveShutdown, joinVars, TablesOK
    <2>2. Removed(p, PendingOf(p, q))
        BY <1>9, RemovePendingFacts DEF ReceiveShutdown
    <2> QED BY <1>1, <2>1, <2>2
<1> QED BY <1>3, <1>4, <1>5, <1>6, <1>7, <1>8, <1>9 DEF Receive

\* The connections of a participant that leaves.
LEMMA LeaveFacts ==
    ASSUME TablesOK, NEW p \in Participant, Leave(p)
    PROVE  /\ TablesOK'
           /\ phase'[p] = "Left" /\ tasks'[p] = <<>>
           /\ \A a \in Participant \ {p} : phase'[a] = phase[a] /\ tasks'[a] = tasks[a]
           /\ \A a, b \in Participant : a # p /\ b # p => wire'[a][b] = wire[a][b]
           /\ \A a \in Participant : wire'[a][p] = <<>>
           /\ \A b \in Participant \ {p} : ~Up(b) => wire'[p][b] = wire[p][b]
<1> DEFINE end == [kind |-> "PeerShutdown"]
           ends(r) == Up(r) /\ (r \in peers[p] \/ p \in peers[r])
<1>1. wire' = [a \in Participant |-> [b \in Participant |->
                  IF b = p THEN <<>> ELSE IF a = p /\ ends(b) THEN Append(wire[p][b], end) ELSE wire[a][b]]]
    BY DEF Leave
<1>2. end \in Message
    BY DEF Message
<1> HIDE DEF end, ends
<1>3. \A b \in Participant : Append(wire[p][b], end) \in Seq(Message)
    BY <1>2, AppendFacts DEF TablesOK
<1>4. /\ wire' \in [Participant -> [Participant -> Seq(Message)]]
      /\ \A a, b \in Participant : a # p /\ b # p => wire'[a][b] = wire[a][b]
      /\ \A a \in Participant : wire'[a][p] = <<>>
    BY <1>1, <1>3 DEF TablesOK
<1>5. \A b \in Participant \ {p} : ~Up(b) => wire'[p][b] = wire[p][b]
    BY <1>1 DEF ends
<1>6. /\ phase' \in [Participant -> Phase] /\ phase'[p] = "Left"
      /\ \A a \in Participant \ {p} : phase'[a] = phase[a]
    BY DEF Leave, TablesOK, Phase
<1>7. /\ tasks' \in [Participant -> Seq(Topic \cup {NoTopic})] /\ tasks'[p] = <<>>
      /\ \A a \in Participant \ {p} : tasks'[a] = tasks[a]
    BY DEF Leave, TablesOK
<1>8. PeerTypes'
    BY <1>4, <1>6 DEF Leave, pendingVars, dataVars, PeerTypes, TablesOK
<1>9. PendingTypes'
    BY TypesUnchanged DEF Leave, pendingVars
<1>10. QueueTypes'
    <2>1. UNCHANGED <<begun, userWaits, ioWaits>>
        BY DEF Leave, userVars
    <2>2. Queued(p)' = {}
        BY <1>7 DEF Queued, Range
    <2>3. \A a \in Participant \ {p} : Queued(a)' = Queued(a)
        BY <1>7 DEF Queued
    <2> QED BY <1>7, <2>1, <2>2, <2>3 DEF QueueTypes, TablesOK
<1> QED BY <1>4, <1>5, <1>6, <1>7, <1>8, <1>9, <1>10, TypesTogether

LEMMA InitTypes == Init => TablesOK
<1> SUFFICES ASSUME Init PROVE TablesOK
    OBVIOUS
<1>1. {} \in FiniteTopics
    BY FS_EmptySet DEF FiniteTopics
<1>2. \A p \in Participant : Queued(p) = {} /\ begun[p] = {}
    BY DEF Init, Queued, Range
<1>3. AtStart \subseteq Participant
    BY SubscriptionsAssumption
<1> QED BY <1>1, <1>2, <1>3 DEF Init, TablesOK, Phase

\* Every step keeps the types.
LEMMA TypesKept == TablesOK /\ [Next]_vars => TablesOK'
<1> SUFFICES ASSUME TablesOK, [Next]_vars PROVE TablesOK'
    OBVIOUS
<1>1. ASSUME NEW p \in Participant,
             Join(p) \/ Return(p) \/ StartLifecycle(p) \/ RunTask(p) \/ Leave(p)
      PROVE  TablesOK'
    BY <1>1, JoinFacts, UserTypes, RunTaskTypes, LeaveFacts
<1>2. ASSUME NEW p \in Participant, NEW t \in Topic, CreateController(p, t) \/ Discover(p, t)
      PROVE  TablesOK'
    BY <1>2, UserTypes
<1>3. ASSUME NEW p \in Participant, NEW q \in Participant \ {p}, Receive(p, q)
      PROVE  TablesOK'
    BY <1>3, ReceiveTypes
<1>4. ASSUME NEW t \in Topic, Publish(t) PROVE TablesOK'
    BY <1>4, PublishFacts
<1>5. CASE UNCHANGED vars
    <2>1. QueueTypes' /\ PendingTypes' /\ PeerTypes'
        BY <1>5, TypesUnchanged DEF vars, joinVars, pendingVars, userVars, dataVars
    <2> QED BY <2>1, TypesTogether
<1> QED BY <1>1, <1>2, <1>3, <1>4, <1>5 DEF Next

-----------------------------------------------------------------------------
(* Participants that have not joined.                                      *)

\* No step changes what belongs to them, until they join.
LEMMA NothingBeforeKept == TablesOK /\ NothingBefore /\ [Next]_vars => NothingBefore'
<1> SUFFICES ASSUME TablesOK, NothingBefore, [Next]_vars,
                    NEW o \in Participant, phase'[o] = "Out"
             PROVE  /\ begun'[o] = {} /\ receivers'[o] = {} /\ pendingSync'[o] = {}
                    /\ userWaits'[o] = NoTopic /\ tasks'[o] = <<>>
                    /\ \A q \in Participant : wire'[o][q] = <<>> /\ wire'[q][o] = <<>>
    BY DEF NothingBefore
<1> DEFINE Same == /\ begun'[o] = begun[o] /\ receivers'[o] = receivers[o]
                   /\ pendingSync'[o] = pendingSync[o]
                   /\ userWaits'[o] = userWaits[o] /\ tasks'[o] = tasks[o]
           SameWires == \A q \in Participant : wire'[o][q] = wire[o][q] /\ wire'[q][o] = wire[q][o]
<1> SUFFICES phase[o] = "Out" /\ Same /\ SameWires
    BY DEF NothingBefore
<1>1. ASSUME NEW p \in Participant, Join(p)
      PROVE  phase[o] = "Out" /\ Same /\ SameWires
    <2>1. o # p
        BY <1>1, JoinFacts
    <2>2. phase[o] = "Out"
        BY <1>1, <2>1, JoinFacts
    <2>3. SameWires
        BY <1>1, <2>1, <2>2, JoinFacts DEF Up
    <2> QED BY <1>1, <2>2, <2>3 DEF Join, pendingVars, userVars
<1>2. ASSUME NEW p \in Participant, Return(p) \/ StartLifecycle(p)
      PROVE  phase[o] = "Out" /\ Same /\ SameWires
    <2>1. UNCHANGED <<phase, begun, receivers, pendingSync, wire>>
        BY <1>2 DEF Return, StartLifecycle, joinVars, pendingVars, userVars
    <2>2. p # o
        BY <1>2, <2>1 DEF Return, StartLifecycle, Up
    <2>3. userWaits'[o] = userWaits[o] /\ tasks'[o] = tasks[o]
        BY <1>2, <2>2 DEF Return, StartLifecycle, TablesOK, userVars
    <2> QED BY <2>1, <2>3
<1>3. ASSUME NEW p \in Participant, NEW t \in Topic, CreateController(p, t) \/ Discover(p, t)
      PROVE  phase[o] = "Out" /\ Same /\ SameWires
    <2>1. /\ phase[p] = "In" /\ t \in Receives[p] /\ RegisterSilKitService(p, t)
        BY <1>3 DEF CreateController, Discover
    <2>2. UNCHANGED <<phase, receivers, pendingSync, wire>>
        BY <2>1 DEF RegisterSilKitService, joinVars
    <2>3. p # o
        BY <2>1, <2>2
    <2>4. begun'[o] = begun[o] /\ tasks'[o] = tasks[o]
        BY <2>1, <2>3, RegisterFacts
    <2>5. userWaits'[o] = userWaits[o]
        BY <1>3, <2>3 DEF CreateController, Discover, TablesOK
    <2> QED BY <2>2, <2>4, <2>5
<1>4. ASSUME NEW p \in Participant, RunTask(p)
      PROVE  phase[o] = "Out" /\ Same /\ SameWires
    <2>1. phase' = phase /\ Up(p)
        BY <1>4 DEF RunTask, Idle, RegisterSilKitServiceImpl, AddAsyncSubscriptionsCompletionHandler, joinVars
    <2>2. p # o
        BY <2>1 DEF Up
    <2>3. tasks'[o] = tasks[o] /\ UNCHANGED <<begun, userWaits>>
        BY <1>4, <2>2, TaskFacts
    <2>4. CASE Head(tasks[p]) = NoTopic
        BY <1>4, <2>1, <2>3, <2>4 DEF RunTask, AddAsyncSubscriptionsCompletionHandler, pendingVars
    <2>5. CASE Head(tasks[p]) # NoTopic
        <3>1. Head(tasks[p]) \in Topic /\ RegisterSilKitServiceImpl(p, Head(tasks[p]))
            BY <1>4, <2>5, TaskFacts DEF RunTask
        <3>2. receivers'[o] = receivers[o]
            BY <2>2, <3>1, RegisterImplFacts
        <3>3. pendingSync'[o] = pendingSync[o]
            BY <2>2, <3>1, RegisterImplFacts DEF PendingChanged
        <3>4. SameWires
            <4> DEFINE sub == [kind |-> "Subscribe", topic |-> Head(tasks[p])]
            <4>1. \A a, b \in Participant : wire'[a][b] =
                      IF a = p /\ b \in peers[p] /\ Up(b) THEN wire[a][b] \o <<sub>> ELSE wire[a][b]
                BY <3>1, RegisterImplFacts
            <4>2. phase[o] = "Out" /\ ~Up(o)
                BY <2>1 DEF Up
            <4> QED BY <2>2, <4>1, <4>2
        <3> QED BY <2>1, <2>3, <3>2, <3>3, <3>4
    <2> QED BY <2>4, <2>5
<1>5. ASSUME NEW p \in Participant, NEW q \in Participant \ {p}, Receive(p, q)
      PROVE  phase[o] = "Out" /\ Same /\ SameWires
    <2>1. Up(p) /\ wire[q][p] # <<>>
        BY <1>5 DEF Receive, Idle
    <2>2. UNCHANGED <<begun, userWaits, tasks>>
        BY <1>5 DEF Receive, userVars
    <2>3. phase[o] = "Out" /\ o # p
        BY <1>5, <2>1, ReceiveRest DEF Up
    <2>4. o # q
        BY <2>1, <2>3 DEF NothingBefore
    <2>5. SameWires
        BY <1>5, <2>3, <2>4, ReceiveWires
    <2>6. receivers' = receivers /\ \E gone : Removed(p, gone)
        BY <1>5, ReceiveRest
    <2>7. pendingSync'[o] = pendingSync[o]
        BY <2>3, <2>6 DEF Removed, PendingChanged
    <2> QED BY <2>2, <2>3, <2>5, <2>6, <2>7
<1>6. ASSUME NEW p \in Participant, Leave(p)
      PROVE  phase[o] = "Out" /\ Same /\ SameWires
    <2>1. o # p
        BY <1>6, LeaveFacts
    <2>2. phase[o] = "Out" /\ tasks'[o] = tasks[o]
        BY <1>6, <2>1, LeaveFacts
    <2>3. \A q \in Participant : wire[o][q] = <<>> /\ wire[q][o] = <<>>
        BY <2>2 DEF NothingBefore
    <2>4. \A q \in Participant : wire'[o][q] = <<>> /\ wire'[q][o] = <<>>
        BY <1>6, <2>1, <2>2, <2>3, LeaveFacts DEF Up
    <2> QED BY <1>6, <2>2, <2>3, <2>4 DEF Leave, pendingVars, userVars
<1>7. ASSUME NEW t \in Topic, Publish(t)
      PROVE  phase[o] = "Out" /\ Same /\ SameWires
    <2>1. phase' = phase /\ Same
        BY <1>7 DEF Publish, joinVars, pendingVars, userVars
    <2>2. SameWires
        BY <1>7, <2>1, PublishFacts
    <2> QED BY <2>1, <2>2
<1>8. CASE UNCHANGED vars
    BY <1>8 DEF vars, joinVars, pendingVars, userVars
<1> QED BY <1>1, <1>2, <1>3, <1>4, <1>5, <1>6, <1>7, <1>8 DEF Next

-----------------------------------------------------------------------------
(* One synchronous registration at a time.                                 *)

\* A participant whose registrations a step does not touch.
WaitingVars(p) ==
    <<tasks[p], begun[p], userWaits[p], receivers[p], pendingSync[p], acked[p]>>

LEMMA WaitingUnchanged ==
    ASSUME NEW p, Waiting(p), UNCHANGED WaitingVars(p)
    PROVE  Waiting(p)'
BY DEF Waiting, WaitingVars, Queued, QueuedOnce

\* Nothing synchronous is pending for a user's thread that does not wait.
LEMMA NothingPending ==
    ASSUME TablesOK, NEW p \in Participant, Waiting(p), userWaits[p] = NoTopic
    PROVE  pendingSync[p] = {}
<1>1. pendingSync[p] \subseteq Participant \X (Topic \ Async)
    BY DEF TablesOK
<1>2. pendingSync[p] \subseteq Participant \X {NoTopic}
    BY DEF Waiting
<1>3. NoTopic \notin Topic
    BY SubscriptionsAssumption
<1> QED BY <1>1, <1>2, <1>3

\* A registration begins.
LEMMA RegisterKeepsWaiting ==
    ASSUME TablesOK, NEW p \in Participant, NEW t \in Topic, Waiting(p),
           CreateController(p, t) \/ Discover(p, t)
    PROVE  Waiting(p)'
<1>1. /\ t \in Receives[p] /\ t \notin begun[p] /\ RegisterSilKitService(p, t)
      /\ receivers' = receivers /\ pendingSync' = pendingSync
    BY DEF CreateController, Discover, RegisterSilKitService
<1>2. /\ begun'[p] = begun[p] \cup {t} /\ Queued(p)' = Queued(p) \cup {t}
      /\ tasks'[p] = Append(tasks[p], t)
    BY <1>1, RegisterFacts
<1>3. t \notin Queued(p)
    BY <1>1 DEF TablesOK
<1>4. QueuedOnce(p)'
    <2>1. tasks[p] \in Seq(Topic \cup {NoTopic})
        BY DEF TablesOK
    <2>2. \A i \in DOMAIN tasks'[p] :
              \/ i \in DOMAIN tasks[p] /\ tasks'[p][i] = tasks[p][i]
              \/ i = Len(tasks[p]) + 1 /\ tasks'[p][i] = t
        BY <1>2, <2>1, AppendFacts
    <2>3. \A i \in DOMAIN tasks[p] : tasks[p][i] # t
        BY <1>3 DEF Queued, Range
    <2> QED BY <2>2, <2>3 DEF QueuedOnce, Waiting
<1>5. CASE t \in Async
    <2>1. userWaits'[p] = userWaits[p]
        BY <1>5 DEF CreateController, Discover, UseAsyncRegistration, TablesOK
    <2>2. acked' = acked
        BY <1>1, <1>5 DEF RegisterSilKitService, UseAsyncRegistration
    <2>3. userWaits[p] # t
        BY <1>5, SubscriptionsAssumption DEF TablesOK
    <2> QED BY <1>1, <1>2, <1>4, <1>5, <2>1, <2>2, <2>3 DEF Waiting
<1>6. CASE t \notin Async
    <2>1. CreateController(p, t)
        BY <1>6, SubscriptionsAssumption DEF Discover
    <2>2. userWaits[p] = NoTopic /\ userWaits'[p] = t
        BY <1>6, <2>1 DEF CreateController, UseAsyncRegistration, TablesOK
    <2>3. acked'[p] = FALSE
        BY <1>1, <1>6 DEF RegisterSilKitService, UseAsyncRegistration, TablesOK
    <2>4. pendingSync[p] = {}
        BY <2>2, NothingPending
    <2>5. Queued(p) \ Async = {} /\ begun[p] \ Async \subseteq receivers[p]
        <3>1. NoTopic \notin Queued(p) /\ NoTopic \notin begun[p]
            BY SubscriptionsAssumption DEF Queued, TablesOK
        <3> QED BY <2>2, <3>1 DEF Waiting
    <2> QED BY <1>1, <1>2, <1>4, <2>2, <2>3, <2>4, <2>5 DEF Waiting
<1> QED BY <1>5, <1>6

\* RegisterSilKitService returns: its registration was run and acknowledged.
LEMMA ReturnKeepsWaiting ==
    ASSUME TablesOK, NEW p \in Participant, Waiting(p), Return(p)
    PROVE  Waiting(p)'
<1>1. /\ userWaits[p] # NoTopic /\ acked[p] /\ userWaits'[p] = NoTopic
      /\ UNCHANGED <<tasks, begun, receivers, pendingSync, acked>>
    BY DEF Return, pendingVars, TablesOK
<1>2. userWaits[p] \notin Queued(p) /\ pendingSync[p] = {} /\ userWaits[p] \in receivers[p]
    BY <1>1 DEF Waiting
<1>3. Queued(p)' = Queued(p) /\ (QueuedOnce(p) => QueuedOnce(p)')
    BY <1>1 DEF Queued, QueuedOnce
<1>4. NoTopic \notin Queued(p)
    BY SubscriptionsAssumption DEF Queued
<1> QED BY <1>1, <1>2, <1>3, <1>4 DEF Waiting

\* A registration is run.
LEMMA RunTaskKeepsWaiting ==
    ASSUME TablesOK, NEW p \in Participant, Waiting(p), RunTask(p)
    PROVE  Waiting(p)'
<1> DEFINE t == Head(tasks[p])
<1>1. /\ t \in Topic \cup {NoTopic} /\ (t \in Topic => t \in Queued(p))
      /\ Queued(p) = Queued(p)' \cup ({t} \cap Topic)
      /\ QueuedOnce(p)' /\ t \notin Queued(p)'
      /\ UNCHANGED <<begun, userWaits>>
    BY TaskFacts DEF Waiting
<1>2. CASE t = NoTopic
    <2>1. UNCHANGED <<receivers, pendingSync, acked>>
        BY <1>2 DEF RunTask, AddAsyncSubscriptionsCompletionHandler, pendingVars
    <2>2. Queued(p)' = Queued(p)
        BY <1>1, <1>2, SubscriptionsAssumption
    <2> QED BY <1>1, <2>1, <2>2 DEF Waiting
<1>3. CASE t # NoTopic
    <2>1. t \in Topic /\ RegisterSilKitServiceImpl(p, t)
        BY <1>1, <1>3 DEF RunTask
    <2> DEFINE acks == peers[p] \X {t}
               sync == pendingSync[p] \cup (IF t \in Async THEN {} ELSE acks)
               async == pendingAsync[p] \cup (IF t \in Async THEN acks ELSE {})
    <2>2. receivers'[p] = receivers[p] \cup {t} /\ PendingChanged(p, sync, async, t \notin Async, t \in Async)
        BY <2>1, RegisterImplFacts
    <2>3. pendingSync'[p] = sync /\ (acked'[p] <=> (acked[p] \/ (t \notin Async /\ sync = {})))
        BY <2>2 DEF PendingChanged
    <2>4. CASE t \in Async
        <3>1. userWaits[p] # t
            BY <2>4, SubscriptionsAssumption DEF TablesOK
        <3>2. pendingSync'[p] = pendingSync[p] /\ (acked'[p] <=> acked[p])
            BY <2>3, <2>4
        <3> QED BY <1>1, <2>1, <2>2, <2>4, <3>1, <3>2 DEF Waiting
    <2>5. CASE t \notin Async
        <3>1. t = userWaits[p] /\ ~acked[p] /\ pendingSync[p] = {}
            BY <1>1, <2>1, <2>5 DEF Waiting
        <3>2. Queued(p)' \ Async = {}
            BY <1>1, <3>1 DEF Waiting
        <3>3. pendingSync'[p] = acks /\ (acked'[p] <=> acks = {})
            BY <2>3, <2>5, <3>1
        <3>4. acks \subseteq Participant \X {userWaits'[p]}
            BY <1>1, <3>1 DEF TablesOK
        <3>5. userWaits'[p] = t /\ t \in receivers'[p]
            BY <1>1, <2>2, <3>1
        <3>6. begun[p] \ (Async \cup {t}) \subseteq receivers'[p]
            BY <2>2, <3>1 DEF Waiting
        <3> HIDE DEF acks, t
        <3> QED BY <1>1, <3>2, <3>3, <3>4, <3>5, <3>6 DEF Waiting
    <2> QED BY <2>4, <2>5
<1> QED BY <1>2, <1>3

\* Acknowledges arrive, or a peer goes.
LEMMA ReceiveKeepsWaiting ==
    ASSUME TablesOK, NEW p \in Participant, NEW q \in Participant \ {p}, Waiting(p), Receive(p, q)
    PROVE  Waiting(p)'
<1>1. UNCHANGED <<receivers, begun, userWaits, tasks>>
    BY ReceiveRest
<1>2. PICK gone : Removed(p, gone)
    BY ReceiveRest
<1>3. /\ pendingSync'[p] = pendingSync[p] \ gone
      /\ acked'[p] <=> (acked[p] \/ (pendingSync[p] \cap gone # {} /\ pendingSync'[p] = {}))
    BY <1>2 DEF Removed, PendingChanged
<1>4. Queued(p)' = Queued(p) /\ (QueuedOnce(p) => QueuedOnce(p)')
    BY <1>1 DEF Queued, QueuedOnce
<1>5. pendingSync[p] = {} => pendingSync'[p] = {} /\ (acked'[p] <=> acked[p])
    BY <1>3
<1>6. acked'[p] => pendingSync'[p] = {}
    BY <1>3 DEF Waiting
<1>7. pendingSync'[p] \subseteq Participant \X {userWaits[p]}
    BY <1>3 DEF Waiting
<1> QED BY <1>1, <1>4, <1>5, <1>6, <1>7 DEF Waiting

LEMMA OneAtATimeKept == TablesOK /\ NothingBefore /\ OneAtATime /\ [Next]_vars => OneAtATime'
<1> SUFFICES ASSUME TablesOK, NothingBefore, OneAtATime, [Next]_vars,
                    NEW o \in Participant, Up(o)'
             PROVE  Waiting(o)'
    BY DEF OneAtATime
<1>1. ASSUME NEW p \in Participant, Join(p) PROVE Waiting(o)'
    <2>1. UNCHANGED <<pendingVars, userVars, tasks>>
        BY <1>1 DEF Join
    <2>2. UNCHANGED WaitingVars(o)
        BY <2>1 DEF WaitingVars, pendingVars, userVars
    <2>3. CASE o = p
        <3>1. /\ begun[o] = {} /\ pendingSync[o] = {} /\ userWaits[o] = NoTopic /\ tasks[o] = <<>>
            BY <1>1, <2>3 DEF Join, NothingBefore
        <3>2. Queued(o) = {} /\ QueuedOnce(o)
            BY <3>1 DEF Queued, QueuedOnce, Range
        <3>3. Waiting(o)
            BY <3>1, <3>2 DEF Waiting
        <3> QED BY <2>2, <3>3, WaitingUnchanged
    <2>4. CASE o # p
        <3>1. Up(o)
            BY <1>1, <2>4, JoinFacts DEF Up
        <3> QED BY <2>2, <3>1, WaitingUnchanged DEF OneAtATime
    <2> QED BY <2>3, <2>4
<1>2. ASSUME NEW p \in Participant, Return(p) PROVE Waiting(o)'
    <2>1. Waiting(o)
        BY <1>2 DEF Return, joinVars, Up, OneAtATime
    <2>2. CASE o = p
        BY <1>2, <2>1, <2>2, ReturnKeepsWaiting
    <2>3. CASE o # p
        <3>1. UNCHANGED WaitingVars(o)
            BY <1>2, <2>3 DEF Return, pendingVars, TablesOK, WaitingVars
        <3> QED BY <2>1, <3>1, WaitingUnchanged
    <2> QED BY <2>2, <2>3
<1>3. ASSUME NEW p \in Participant, StartLifecycle(p) PROVE Waiting(o)'
    <2>1. Waiting(o) /\ UNCHANGED <<pendingVars, userVars>>
        BY <1>3 DEF StartLifecycle, joinVars, Up, OneAtATime
    <2>2. tasks' = [tasks EXCEPT ![p] = Append(tasks[p], NoTopic)]
        BY <1>3 DEF StartLifecycle
    <2>3. CASE o = p
        <3>1. tasks[p] \in Seq(Topic \cup {NoTopic}) /\ NoTopic \notin Topic
            BY SubscriptionsAssumption DEF TablesOK
        <3>2. /\ Range(Append(tasks[p], NoTopic)) = Range(tasks[p]) \cup {NoTopic}
              /\ \A i \in DOMAIN Append(tasks[p], NoTopic) :
                     \/ i \in DOMAIN tasks[p] /\ Append(tasks[p], NoTopic)[i] = tasks[p][i]
                     \/ i = Len(tasks[p]) + 1 /\ Append(tasks[p], NoTopic)[i] = NoTopic
            BY <3>1, AppendFacts
        <3>3. tasks'[p] = Append(tasks[p], NoTopic)
            BY <2>2 DEF TablesOK
        <3>4. Queued(p)' = Queued(p)
            BY <3>1, <3>2, <3>3 DEF Queued
        <3>5. QueuedOnce(p)'
            BY <2>1, <2>3, <3>1, <3>2, <3>3 DEF QueuedOnce, Waiting
        <3> QED BY <2>1, <2>3, <3>4, <3>5 DEF Waiting, pendingVars, userVars
    <2>4. CASE o # p
        <3>1. UNCHANGED WaitingVars(o)
            BY <2>1, <2>2, <2>4 DEF pendingVars, userVars, TablesOK, WaitingVars
        <3> QED BY <2>1, <3>1, WaitingUnchanged
    <2> QED BY <2>3, <2>4
<1>4. ASSUME NEW p \in Participant, NEW t \in Topic, CreateController(p, t) \/ Discover(p, t)
      PROVE  Waiting(o)'
    <2>1. t \in Receives[p] /\ RegisterSilKitService(p, t)
        BY <1>4 DEF CreateController, Discover
    <2>2. Waiting(o)
        BY <2>1 DEF RegisterSilKitService, joinVars, Up, OneAtATime
    <2>3. CASE o = p
        BY <1>4, <2>2, <2>3, RegisterKeepsWaiting
    <2>4. CASE o # p
        <3>1. tasks'[o] = tasks[o] /\ begun'[o] = begun[o]
            BY <2>1, <2>4, RegisterFacts
        <3>2. userWaits'[o] = userWaits[o]
            BY <1>4, <2>4 DEF CreateController, Discover, TablesOK
        <3>3. acked'[o] = acked[o] /\ UNCHANGED <<receivers, pendingSync>>
            BY <2>1, <2>4 DEF RegisterSilKitService, TablesOK
        <3> QED BY <2>2, <3>1, <3>2, <3>3, WaitingUnchanged DEF WaitingVars
    <2> QED BY <2>3, <2>4
<1>5. ASSUME NEW p \in Participant, RunTask(p) PROVE Waiting(o)'
    <2>1. Waiting(o)
        BY <1>5 DEF RunTask, AddAsyncSubscriptionsCompletionHandler, RegisterSilKitServiceImpl,
                    joinVars, Up, OneAtATime
    <2>2. CASE o = p
        BY <1>5, <2>1, <2>2, RunTaskKeepsWaiting
    <2>3. CASE o # p
        <3>1. tasks'[o] = tasks[o] /\ UNCHANGED <<begun, userWaits>> /\ Head(tasks[p]) \in Topic \cup {NoTopic}
            BY <1>5, <2>3, TaskFacts
        <3>2. receivers'[o] = receivers[o] /\ pendingSync'[o] = pendingSync[o] /\ acked'[o] = acked[o]
            <4>1. CASE Head(tasks[p]) = NoTopic
                BY <1>5, <4>1 DEF RunTask, AddAsyncSubscriptionsCompletionHandler, pendingVars
            <4>2. CASE Head(tasks[p]) # NoTopic
                <5> DEFINE t == Head(tasks[p])
                <5>1. t \in Topic /\ RegisterSilKitServiceImpl(p, t)
                    BY <1>5, <3>1, <4>2 DEF RunTask
                <5> HIDE DEF t
                <5>2. receivers'[o] = receivers[o]
                    BY <2>3, <5>1, RegisterImplFacts
                <5>3. \E sync, async : PendingChanged(p, sync, async, t \notin Async, t \in Async)
                    BY <5>1, RegisterImplFacts
                <5> QED BY <2>3, <5>2, <5>3 DEF PendingChanged
            <4> QED BY <4>1, <4>2
        <3> QED BY <2>1, <3>1, <3>2, WaitingUnchanged DEF WaitingVars
    <2> QED BY <2>2, <2>3
<1>6. ASSUME NEW p \in Participant, NEW q \in Participant \ {p}, Receive(p, q) PROVE Waiting(o)'
    <2>1. CASE o = p
        <3>1. Up(p)
            BY <1>6 DEF Receive, Idle
        <3> QED BY <1>6, <2>1, <3>1, ReceiveKeepsWaiting DEF OneAtATime
    <2>2. CASE o # p
        <3>1. UNCHANGED <<receivers, begun, userWaits, tasks>> /\ phase'[o] = phase[o] /\ \E gone : Removed(p, gone)
            BY <1>6, <2>2, ReceiveRest
        <3>2. pendingSync'[o] = pendingSync[o] /\ acked'[o] = acked[o]
            BY <2>2, <3>1 DEF Removed, PendingChanged
        <3>3. Waiting(o)
            BY <3>1 DEF Up, OneAtATime
        <3> QED BY <3>1, <3>2, <3>3, WaitingUnchanged DEF WaitingVars
    <2> QED BY <2>1, <2>2
<1>7. ASSUME NEW p \in Participant, Leave(p) PROVE Waiting(o)'
    <2>1. o # p
        BY <1>7, LeaveFacts DEF Up
    <2>2. phase'[o] = phase[o] /\ tasks'[o] = tasks[o]
        BY <1>7, <2>1, LeaveFacts
    <2>3. UNCHANGED WaitingVars(o)
        BY <1>7, <2>2 DEF Leave, pendingVars, userVars, WaitingVars
    <2> QED BY <2>2, <2>3, WaitingUnchanged DEF Up, OneAtATime
<1>8. ASSUME NEW t \in Topic, Publish(t) PROVE Waiting(o)'
    <2>1. UNCHANGED WaitingVars(o) /\ phase' = phase
        BY <1>8 DEF Publish, joinVars, pendingVars, userVars, WaitingVars
    <2> QED BY <2>1, WaitingUnchanged DEF Up, OneAtATime
<1>9. CASE UNCHANGED vars
    <2>1. UNCHANGED WaitingVars(o) /\ phase' = phase
        BY <1>9 DEF vars, joinVars, pendingVars, userVars, WaitingVars
    <2> QED BY <2>1, WaitingUnchanged DEF Up, OneAtATime
<1> QED BY <1>1, <1>2, <1>3, <1>4, <1>5, <1>6, <1>7, <1>8, <1>9 DEF Next

-----------------------------------------------------------------------------
(* Participants that are up and what is on the way between them.           *)

\* A step that undoes nothing that is arranged between p and q: what is new on
\* the connections agrees with the tables, and what p receives anew is arranged
\* if q is its peer.
ChannelStep(p, q, inbound, outbound) ==
    /\ Range(wire[q][p])' \subseteq Range(wire[q][p]) \cup inbound
    /\ Range(wire[p][q])' \subseteq Range(wire[p][q]) \cup outbound
    /\ \A m \in inbound : /\ m.kind # "PeerShutdown"
                          /\ m.kind = "Ack" /\ Publisher[m.topic] = q => link'[m.topic][p] > 0
    /\ \A m \in outbound : m.kind = "Reply" => q \in peers'[p] /\ receivers'[p] \subseteq m.topics
    /\ \A m \in Range(wire[q][p]) :
           m.kind = "Ack" /\ link[m.topic][p] > 0 => link'[m.topic][p] > 0
    /\ \A t \in receivers[p] : Publisher[t] = q /\ Arranged(p, q, t) => Arranged(p, q, t)'
    /\ \A t \in receivers'[p] \ receivers[p] :
           Publisher[t] = q /\ q \in peers[p] => Arranged(p, q, t)'
    /\ q \in peers[p] => q \in peers'[p]
    /\ p \in awaiting[q] =>
           \/ p \in awaiting'[q]
           \/ /\ q \in peers'[p]
              /\ \A t \in receivers'[p] : Publisher[t] = q => Arranged(p, q, t)'
    /\ q \notin peers'[p] /\ wire[q][p] # <<>> =>
           wire'[q][p] # <<>> /\ Head(wire'[q][p]) = Head(wire[q][p])

\* The pairwise invariant survives such a step.
LEMMA ChannelKept ==
    ASSUME NEW p \in Participant, NEW q \in Participant, ChannelInv(p, q),
           NEW inbound, NEW outbound, ChannelStep(p, q, inbound, outbound)
    PROVE  ChannelInv(p, q)'
<1>1. InboundOK(p, q)'
    BY DEF ChannelInv, InboundOK, ChannelStep
<1>2. OutboundOK(p, q)'
    BY DEF ChannelInv, OutboundOK, ChannelStep
<1>3. Introduced(p, q)'
    BY DEF ChannelInv, Introduced, ChannelStep
<1>4. Provided(p, q)'
    BY DEF ChannelInv, Introduced, Provided, ChannelStep
<1> QED BY <1>1, <1>2, <1>3, <1>4 DEF ChannelInv

\* In particular if it is about other variables or other connections.
ChannelVars(p, q) ==
    <<wire[q][p], wire[p][q], peers[p], awaiting[q], receivers[p], pendingSync[p], pendingAsync[p]>>

LEMMA ChannelUnchanged ==
    ASSUME TablesOK, NEW p \in Participant, NEW q \in Participant, ChannelInv(p, q),
           UNCHANGED ChannelVars(p, q),
           \A t \in Topic : link[t][p] > 0 => link'[t][p] > 0
    PROVE  ChannelInv(p, q)'
<1>1. \A m \in Range(wire[q][p]) : m.kind = "Ack" => m.topic \in Topic
    <2>1. wire[q][p] \in Seq(Message)
        BY DEF TablesOK
    <2>2. \A m \in Range(wire[q][p]) : m \in Message
        BY <2>1 DEF Range
    <2> QED BY <2>2 DEF Message
<1>2. \A t \in receivers[p] : t \in Topic
    BY DEF TablesOK, FiniteTopics
<1>3. \A t \in Topic : Arranged(p, q, t) => Arranged(p, q, t)'
    BY DEF Arranged, ChannelVars
<1>4. InboundOK(p, q)'
    BY <1>1 DEF ChannelInv, InboundOK, ChannelVars
<1>5. OutboundOK(p, q)'
    BY <1>2, <1>3 DEF ChannelInv, OutboundOK, ChannelVars
<1>6. Introduced(p, q)' /\ Provided(p, q)'
    BY <1>2, <1>3 DEF ChannelInv, Introduced, Provided, ChannelVars
<1> QED BY <1>4, <1>5, <1>6 DEF ChannelInv

\* A participant joins: it announces itself to everybody that is up, and awaits
\* their replies.
LEMMA JoinKeepsConnected ==
    ASSUME TablesOK, NothingBefore, Connected, NEW p \in Participant, Join(p)
    PROVE  Connected'
<1> DEFINE ms == <<[kind |-> "Connect"], [kind |-> "Announcement"]>>
           known == {q \in Participant : Up(q)}
<1>1. /\ \A a \in Participant \ {p} :
             phase'[a] = phase[a] /\ peers'[a] = peers[a] /\ awaiting'[a] = awaiting[a]
      /\ peers'[p] = known /\ awaiting'[p] = known
      /\ phase'[p] = IF known = {} THEN "In" ELSE "Joining"
      /\ \A a, b \in Participant : wire'[a][b] =
             IF a = p /\ b \in known THEN wire[a][b] \o ms ELSE wire[a][b]
    BY JoinFacts
<1>2. /\ phase[p] = "Out" /\ ~Up(p) /\ p \notin known
      /\ UNCHANGED <<receivers, pendingSync, pendingAsync, link>>
    BY DEF Join, Up, pendingVars, dataVars
<1>3. receivers[p] = {} /\ \A q \in Participant : wire[p][q] = <<>> /\ wire[q][p] = <<>>
    BY <1>2 DEF NothingBefore
<1>4. ASSUME NEW a \in Participant, phase'[a] = "In" PROVE awaiting'[a] = {}
    BY <1>1, <1>4 DEF Connected
<1>5. ASSUME NEW q \in Participant \ {p}, Up(q)' PROVE ChannelInv(p, q)' /\ ChannelInv(q, p)'
    <2>1. Up(q) /\ q \in known
        BY <1>1, <1>5 DEF Up
    <2>2. wire'[p][q] = ms /\ wire'[q][p] = <<>>
        <3>1. <<>> \o ms = ms
            OBVIOUS
        <3>2. wire'[p][q] = wire[p][q] \o ms
            BY <1>1, <2>1
        <3>3. wire'[q][p] = wire[q][p]
            BY <1>1, <1>2
        <3> QED BY <1>3, <3>1, <3>2, <3>3
    <2>3. /\ ms # <<>> /\ Head(ms).kind = "Connect"
          /\ \A m \in Range(ms) : m.kind \in {"Connect", "Announcement"}
        BY DEF Range
    <2>4. Range(<<>>) = {}
        BY DEF Range
    <2> HIDE DEF ms
    <2>5. ChannelInv(p, q)'
        BY <1>1, <1>2, <1>3, <2>1, <2>2, <2>3, <2>4
           DEF ChannelInv, InboundOK, OutboundOK, Introduced, Provided
    <2>6. ChannelInv(q, p)'
        BY <1>1, <1>2, <2>1, <2>2, <2>3, <2>4
           DEF ChannelInv, InboundOK, OutboundOK, Introduced, Provided
    <2> QED BY <2>5, <2>6
<1>6. ASSUME NEW a \in Participant, NEW b \in Participant, a # b, a # p, b # p, Up(a)', Up(b)'
      PROVE  ChannelInv(a, b)'
    <2>1. ChannelInv(a, b)
        BY <1>1, <1>6 DEF Connected, Up
    <2>2. UNCHANGED ChannelVars(a, b)
        BY <1>1, <1>2, <1>6 DEF ChannelVars
    <2> QED BY <1>2, <2>1, <2>2, ChannelUnchanged
<1> QED BY <1>4, <1>5, <1>6 DEF Connected

\* A registration is run: who is a peer is sent a subscription, and its
\* acknowledge is pending; who is not is still to announce itself.
LEMMA RunTaskKeepsConnected ==
    ASSUME TablesOK, Connected, NEW p \in Participant, RunTask(p)
    PROVE  Connected'
<1> DEFINE t == Head(tasks[p])
           sub == [kind |-> "Subscribe", topic |-> t]
<1>1. t \in Topic \cup {NoTopic} /\ UNCHANGED <<phase, awaiting, peers, link>>
    BY TaskFacts DEF RunTask, AddAsyncSubscriptionsCompletionHandler, RegisterSilKitServiceImpl,
                     joinVars, dataVars
<1>2. CASE t = NoTopic
    <2>1. UNCHANGED <<wire, receivers, pendingSync, pendingAsync>>
        BY <1>2 DEF RunTask, AddAsyncSubscriptionsCompletionHandler, pendingVars
    <2>2. \A a, b \in Participant : UNCHANGED ChannelVars(a, b)
        BY <1>1, <2>1 DEF ChannelVars
    <2>3. \A a, b \in Participant : ChannelInv(a, b) => ChannelInv(a, b)'
        BY <1>1, <2>2, ChannelUnchanged
    <2> QED BY <1>1, <2>3 DEF Connected, Up
<1>3. CASE t # NoTopic
    <2>1. t \in Topic /\ RegisterSilKitServiceImpl(p, t)
        BY <1>1, <1>3 DEF RunTask
    <2> HIDE DEF t
    <2> DEFINE acks == peers[p] \X {t}
               sync == pendingSync[p] \cup (IF t \in Async THEN {} ELSE acks)
               async == pendingAsync[p] \cup (IF t \in Async THEN acks ELSE {})
    <2>2. /\ sub \in Message
          /\ receivers'[p] = receivers[p] \cup {t}
          /\ \A a \in Participant \ {p} : receivers'[a] = receivers[a]
          /\ PendingChanged(p, sync, async, t \notin Async, t \in Async)
          /\ \A a, b \in Participant : wire'[a][b] =
                 IF a = p /\ b \in peers[p] /\ Up(b) THEN wire[a][b] \o <<sub>> ELSE wire[a][b]
        BY <2>1, RegisterImplFacts
    <2>3. /\ pendingSync'[p] \cup pendingAsync'[p] = pendingSync[p] \cup pendingAsync[p] \cup acks
          /\ \A a \in Participant \ {p} : pendingSync'[a] = pendingSync[a] /\ pendingAsync'[a] = pendingAsync[a]
        BY <2>2 DEF PendingChanged
    <2>4. \A a, b \in Participant :
              /\ Range(wire[a][b])' \subseteq Range(wire[a][b]) \cup {sub}
              /\ wire[a][b] # <<>> => wire'[a][b] # <<>> /\ Head(wire'[a][b]) = Head(wire[a][b])
        <3>1. ASSUME NEW a \in Participant, NEW b \in Participant
              PROVE  /\ wire[a][b] \in Seq(Message) /\ <<sub>> \in Seq(Message)
                     /\ Range(wire[a][b] \o <<sub>>) = Range(wire[a][b]) \cup {sub}
                     /\ wire[a][b] # <<>> => /\ wire[a][b] \o <<sub>> # <<>>
                                             /\ Head(wire[a][b] \o <<sub>>) = Head(wire[a][b])
            <4>1. wire[a][b] \in Seq(Message) /\ <<sub>> \in Seq(Message)
                BY <2>2 DEF TablesOK
            <4>2. Range(<<sub>>) = {sub}
                BY DEF Range
            <4> HIDE DEF sub
            <4> DEFINE one == <<sub>>
            <4>3. one \in Seq(Message) /\ Range(one) = {sub}
                BY <4>1, <4>2
            <4> HIDE DEF one
            <4>4. /\ Range(wire[a][b] \o one) = Range(wire[a][b]) \cup Range(one)
                  /\ wire[a][b] # <<>> => /\ wire[a][b] \o one # <<>>
                                          /\ Head(wire[a][b] \o one) = Head(wire[a][b])
                BY <4>1, <4>3, ConcatFacts
            <4> QED BY <4>1, <4>3, <4>4 DEF one
        <3> HIDE DEF sub
        <3>2. ASSUME NEW a \in Participant, NEW b \in Participant
              PROVE  /\ Range(wire[a][b])' \subseteq Range(wire[a][b]) \cup {sub}
                     /\ wire[a][b] # <<>> => wire'[a][b] # <<>> /\ Head(wire'[a][b]) = Head(wire[a][b])
            <4>1. CASE a = p /\ b \in peers[p] /\ Up(b)
                <5>1. wire'[a][b] = wire[a][b] \o <<sub>>
                    BY <2>2, <4>1
                <5> QED BY <3>1, <5>1
            <4>2. CASE ~(a = p /\ b \in peers[p] /\ Up(b))
                <5>1. wire'[a][b] = wire[a][b]
                    BY <2>2, <4>2
                <5> QED BY <5>1
            <4> QED BY <4>1, <4>2
        <3> QED BY <3>2
    <2>5. sub.kind = "Subscribe"
        OBVIOUS
    <2> HIDE DEF sub, sync, async
    <2>6. \A a, b \in Participant, u \in Topic : Arranged(a, b, u) => Arranged(a, b, u)'
        BY <1>1, <2>3 DEF Arranged
    <2>7. ASSUME NEW a \in Participant, NEW b \in Participant, a # b, ChannelInv(a, b)
          PROVE  ChannelInv(a, b)'
        <3>1. \A u \in receivers'[a] \ receivers[a] : Publisher[u] = b /\ b \in peers[a] => Arranged(a, b, u)'
            <4>1. SUFFICES ASSUME NEW u \in receivers'[a] \ receivers[a], b \in peers[a]
                           PROVE  Arranged(a, b, u)'
                OBVIOUS
            <4>2. a = p /\ u = t
                BY <2>2
            <4>3. <<b, t>> \in acks
                BY <4>1, <4>2
            <4>4. <<b, u>> \in pendingSync'[a] \cup pendingAsync'[a]
                BY <2>3, <4>2, <4>3
            <4> QED BY <4>4 DEF Arranged
        <3>2. \A u \in receivers[a] : u \in Topic
            BY DEF TablesOK, FiniteTopics
        <3>3. /\ \A m \in {sub} : /\ m.kind # "PeerShutdown"
                                  /\ m.kind = "Ack" /\ Publisher[m.topic] = b => link'[m.topic][a] > 0
              /\ \A m \in {sub} : m.kind = "Reply" => b \in peers'[a] /\ receivers'[a] \subseteq m.topics
            BY <2>5
        <3>4. /\ \A m \in Range(wire[b][a]) :
                     m.kind = "Ack" /\ link[m.topic][a] > 0 => link'[m.topic][a] > 0
              /\ \A u \in receivers[a] : Publisher[u] = b /\ Arranged(a, b, u) => Arranged(a, b, u)'
              /\ b \in peers[a] => b \in peers'[a]
              /\ a \in awaiting[b] => a \in awaiting'[b]
            BY <1>1, <2>6, <3>2
        <3>5. ChannelStep(a, b, {sub}, {sub})
            BY <2>4, <3>1, <3>3, <3>4 DEF ChannelStep
        <3> QED BY <2>7, <3>5, ChannelKept
    <2> QED BY <1>1, <2>7 DEF Connected, Up
<1> QED BY <1>2, <1>3

\* What a message does to the tables of its receiver p, by its kind.
ReceivedTables(p, q, m) ==
    /\ \A t \in Topic, a \in Participant :
           link[t][a] > 0 /\ (a # q \/ m.kind # "PeerShutdown") => link'[t][a] > 0
    /\ m.kind = "Subscribe" /\ Publisher[m.topic] = p => link'[m.topic][q] > 0
    /\ m.kind = "Reply" => \A t \in m.topics : Publisher[t] = p => link'[t][q] > 0
    /\ \A b \in peers[p] : b # q \/ m.kind # "PeerShutdown" => b \in peers'[p]
    /\ m.kind = "Connect" => q \in peers'[p]
    /\ \A b \in awaiting[p] : b # q \/ m.kind # "Reply" => b \in awaiting'[p]
    /\ phase'[p] = "In" => awaiting'[p] = {} \/ (phase[p] = "In" /\ awaiting'[p] \subseteq awaiting[p])
    /\ \A b \in Participant, t \in Topic :
           <<b, t>> \in pendingSync[p] \cup pendingAsync[p] =>
               \/ <<b, t>> \in pendingSync'[p] \cup pendingAsync'[p]
               \/ b = q /\ (m.kind = "PeerShutdown" \/ (m.kind = "Ack" /\ t = m.topic))

LEMMA ReceiveTables ==
    ASSUME TablesOK, NEW p \in Participant, NEW q \in Participant \ {p}, Receive(p, q)
    PROVE  ReceivedTables(p, q, Head(wire[q][p]))
<1> DEFINE m == Head(wire[q][p])
<1>1. m \in Message
    BY ReceiveWires
<1>2. ASSUME NEW gone, Removed(p, gone)
      PROVE  \A b \in Participant, t \in Topic : <<b, t>> \in pendingSync[p] \cup pendingAsync[p] =>
                 <<b, t>> \in pendingSync'[p] \cup pendingAsync'[p] \cup gone
    BY <1>2 DEF Removed, PendingChanged
<1>3. CASE m.kind = "Connect" /\ ReceiveConnect(p, q)
    BY <1>3 DEF ReceiveConnect, ReceivedTables, joinVars, pendingVars, dataVars, TablesOK
<1>4. CASE m.kind = "Announcement" /\ ReceiveAnnouncement(p, q)
    BY <1>4 DEF ReceiveAnnouncement, ReceivedTables, joinVars, pendingVars, dataVars, TablesOK
<1>5. CASE m.kind = "Reply" /\ ReceiveReply(p, q, m.topics)
    <2>1. link' = Subscribed(p, q, m.topics) /\ UNCHANGED <<peers, pendingVars>>
        BY <1>5 DEF ReceiveReply
    <2>2. m.topics \subseteq Topic
        BY <1>1, <1>5 DEF Message, FiniteTopics
    <2>3. /\ \A t \in Topic, a \in Participant : link[t][a] > 0 => link'[t][a] > 0
          /\ \A t \in m.topics \cap Topic : Publisher[t] = p => link'[t][q] > 0
        BY <2>1, SubscribedFacts
    <2>4. /\ awaiting'[p] = awaiting[p] \ {q}
          /\ phase'[p] = IF awaiting[p] \subseteq {q} THEN "In" ELSE phase[p]
        BY <1>5 DEF ReceiveReply, TablesOK
    <2> QED BY <1>5, <2>1, <2>2, <2>3, <2>4 DEF ReceivedTables, pendingVars
<1>6. CASE m.kind = "Subscribe" /\ ReceiveSubscribe(p, q, m.topic)
    <2>1. link' = Subscribed(p, q, {m.topic}) /\ UNCHANGED <<joinVars, peers, pendingVars>>
        BY <1>6 DEF ReceiveSubscribe
    <2>2. m.topic \in Topic
        BY <1>1, <1>6 DEF Message
    <2>3. /\ \A t \in Topic, a \in Participant : link[t][a] > 0 => link'[t][a] > 0
          /\ \A t \in {m.topic} \cap Topic : Publisher[t] = p => link'[t][q] > 0
        BY <2>1, SubscribedFacts
    <2> QED BY <1>6, <2>1, <2>2, <2>3 DEF ReceivedTables, joinVars, pendingVars
<1>7. CASE m.kind = "Ack" /\ ReceiveAck(p, q, m.topic)
    <2>1. Removed(p, {<<q, m.topic>>}) /\ UNCHANGED <<joinVars, peers, link>>
        BY <1>7, RemovePendingFacts DEF ReceiveAck, dataVars
    <2>2. \A b \in Participant, t \in Topic : <<b, t>> \in pendingSync[p] \cup pendingAsync[p] =>
              <<b, t>> \in pendingSync'[p] \cup pendingAsync'[p] \/ (b = q /\ t = m.topic)
        BY <1>2, <2>1
    <2> QED BY <1>7, <2>1, <2>2 DEF ReceivedTables, joinVars
<1>8. CASE m.kind = "Data" /\ ReceiveData(p, m)
    BY <1>8 DEF ReceiveData, ReceivedTables, joinVars, pendingVars, TablesOK
<1>9. CASE m.kind = "PeerShutdown" /\ ReceiveShutdown(p, q)
    <2>1. Removed(p, PendingOf(p, q)) /\ UNCHANGED joinVars
        BY <1>9, RemovePendingFacts DEF ReceiveShutdown
    <2>2. \A b \in Participant, t \in Topic : <<b, t>> \in pendingSync[p] \cup pendingAsync[p] =>
              <<b, t>> \in pendingSync'[p] \cup pendingAsync'[p] \/ b = q
        BY <1>2, <2>1 DEF PendingOf
    <2>3. \A t \in Topic, a \in Participant : a # q => link'[t][a] = link[t][a]
        BY <1>9, ShutdownLinks
    <2>4. peers'[p] = peers[p] \ {q}
        BY <1>9 DEF ReceiveShutdown, TablesOK
    <2> QED BY <1>9, <2>1, <2>2, <2>3, <2>4 DEF ReceivedTables, joinVars
<1> QED BY <1>3, <1>4, <1>5, <1>6, <1>7, <1>8, <1>9 DEF Receive

\* Handling a message keeps what is arranged between any two participants: an
\* acknowledge is only removed where the publisher has the subscription, a reply
\* completes those it names, and only who has gone is removed.
LEMMA ReceiveKeepsConnected ==
    ASSUME TablesOK, Connected, NEW p \in Participant, NEW q \in Participant \ {p}, Receive(p, q)
    PROVE  Connected'
<1> DEFINE m == Head(wire[q][p])
           ans == Range(Answer(p, q, m))
<1>1. /\ m \in Message /\ m \in Range(wire[q][p]) /\ wire[q][p] # <<>>
      /\ Answer(p, q, m) \in Seq(Message)
      /\ wire'[q][p] = Tail(wire[q][p])
      /\ wire'[p][q] = IF Up(q) THEN wire[p][q] \o Answer(p, q, m) ELSE wire[p][q]
      /\ \A a, b \in Participant : ~(a = q /\ b = p) /\ ~(a = p /\ b = q) => wire'[a][b] = wire[a][b]
    BY ReceiveWires
<1>2. \A x \in ans : /\ x.kind # "PeerShutdown"
                     /\ x.kind = "Ack" => m.kind = "Subscribe" /\ x.topic = m.topic
                     /\ x.kind = "Reply" => m.kind = "Announcement" /\ x.topics = receivers[p]
    BY <1>1, AnswerType
<1>3. ReceivedTables(p, q, m)
    BY ReceiveTables
<1>4. /\ receivers' = receivers
      /\ \A a \in Participant \ {p} :
             /\ phase'[a] = phase[a] /\ awaiting'[a] = awaiting[a] /\ peers'[a] = peers[a]
             /\ pendingSync'[a] = pendingSync[a] /\ pendingAsync'[a] = pendingAsync[a]
      /\ phase'[p] \in {phase[p], "In"}
    BY ReceiveRest DEF Removed, PendingChanged
<1>5. Up(p)
    BY DEF Receive, Idle
<1>6. Up(q) => ChannelInv(p, q) /\ ChannelInv(q, p) /\ m.kind # "PeerShutdown"
    BY <1>1, <1>5 DEF Connected, ChannelInv, InboundOK
<1>7. wire[p][q] \in Seq(Message) /\ wire[q][p] \in Seq(Message)
    BY DEF TablesOK
<1>8. Range(wire[q][p])' \subseteq Range(wire[q][p])
    BY <1>1, <1>7, TailFacts
<1>9. /\ Range(wire[p][q])' \subseteq Range(wire[p][q]) \cup ans
      /\ wire[p][q] # <<>> => wire'[p][q] # <<>> /\ Head(wire'[p][q]) = Head(wire[p][q])
    <2>1. CASE Up(q)
        <3> DEFINE s == wire[p][q]
                   u == Answer(p, q, m)
        <3>1. s \in Seq(Message) /\ u \in Seq(Message) /\ wire'[p][q] = s \o u /\ ans = Range(u)
            BY <1>1, <1>7, <2>1
        <3> HIDE DEF s, u, ans, m
        <3>2. Range(s \o u) = Range(s) \cup Range(u)
              /\ (s # <<>> => s \o u # <<>> /\ Head(s \o u) = Head(s))
            BY <3>1, ConcatFacts
        <3> QED BY <3>1, <3>2 DEF s
    <2>2. CASE ~Up(q)
        <3>1. wire'[p][q] = wire[p][q]
            BY <1>1, <2>2
        <3> QED BY <3>1
    <2> QED BY <2>1, <2>2
<1> HIDE DEF m, ans
<1>10. ASSUME NEW a \in Participant, phase'[a] = "In" PROVE awaiting'[a] = {}
    <2>1. CASE a = p
        BY <1>3, <1>10, <2>1 DEF ReceivedTables, Connected
    <2>2. CASE a # p
        BY <1>4, <1>10, <2>2 DEF Connected
    <2> QED BY <2>1, <2>2
<1>11. ASSUME NEW a \in Participant, NEW b \in Participant, a # b, Up(a)', Up(b)'
       PROVE  ChannelInv(a, b)'
    <2>1. Up(a) /\ Up(b) /\ ChannelInv(a, b)
        BY <1>4, <1>5, <1>11 DEF Up, Connected
    <2>2. ASSUME m.kind = "PeerShutdown" PROVE a # q /\ b # q
        BY <1>6, <2>1, <2>2
    <2>3. \A t \in Topic : link[t][a] > 0 => link'[t][a] > 0
        BY <1>3, <2>2 DEF ReceivedTables
    <2>4. b \in peers[a] => b \in peers'[a]
        BY <1>3, <1>4, <2>2 DEF ReceivedTables
    <2>5. \A t \in receivers[a] : t \in Topic
        BY DEF TablesOK, FiniteTopics
    <2>6. ASSUME NEW t \in receivers[a], Publisher[t] = b, Arranged(a, b, t)
          PROVE  Arranged(a, b, t)'
        <3>1. t \in Topic
            BY <2>5
        <3>2. CASE link[t][a] > 0
            BY <2>3, <3>1, <3>2 DEF Arranged
        <3>3. CASE a # p
            BY <1>4, <2>3, <2>6, <3>1, <3>3 DEF Arranged
        <3>4. CASE a = p /\ <<b, t>> \in pendingSync[p] \cup pendingAsync[p]
            <4>1. \/ <<b, t>> \in pendingSync'[p] \cup pendingAsync'[p]
                  \/ b = q /\ (m.kind = "PeerShutdown" \/ (m.kind = "Ack" /\ t = m.topic))
                BY <1>3, <3>1, <3>4 DEF ReceivedTables
            <4>2. CASE <<b, t>> \in pendingSync'[p] \cup pendingAsync'[p]
                BY <3>4, <4>2 DEF Arranged
            <4>3. CASE b = q /\ m.kind = "Ack" /\ t = m.topic
                <5>1. link[t][p] > 0
                    BY <1>1, <2>1, <2>6, <3>4, <4>3 DEF ChannelInv, InboundOK
                <5> QED BY <2>3, <3>1, <3>4, <5>1 DEF Arranged
            <4> QED BY <2>2, <4>1, <4>2, <4>3
        <3> QED BY <2>6, <3>2, <3>3, <3>4 DEF Arranged
    <2>7. ASSUME a \in awaiting[b], a \notin awaiting'[b]
          PROVE  b \in peers'[a] /\ \A t \in receivers'[a] : Publisher[t] = b => Arranged(a, b, t)'
        <3>1. b = p /\ a = q /\ m.kind = "Reply"
            BY <1>3, <1>4, <2>7 DEF ReceivedTables
        <3>2. p \in peers[q] /\ \A t \in receivers[q] \ m.topics : Publisher[t] = p => Arranged(q, p, t)
            BY <1>1, <2>1, <3>1 DEF ChannelInv, OutboundOK
        <3>3. \A t \in m.topics : Publisher[t] = p => Arranged(q, p, t)'
            BY <1>3, <3>1 DEF ReceivedTables, Arranged
        <3> QED BY <1>4, <2>4, <2>6, <3>1, <3>2, <3>3
    <2>8. ASSUME b \notin peers'[a], wire[b][a] # <<>>
          PROVE  wire'[b][a] # <<>> /\ Head(wire'[b][a]) = Head(wire[b][a])
        <3>1. CASE b = q /\ a = p
            <4>1. q \notin peers[p]
                BY <2>4, <2>8, <3>1
            <4>2. m.kind = "Connect"
                BY <2>1, <3>1, <4>1 DEF ChannelInv, Introduced, m
            <4> QED BY <1>3, <2>8, <3>1, <4>2 DEF ReceivedTables
        <3>2. CASE b = p /\ a = q
            BY <1>9, <2>8, <3>2
        <3>3. CASE ~(b = q /\ a = p) /\ ~(b = p /\ a = q)
            BY <1>1, <2>8, <3>3
        <3> QED BY <3>1, <3>2, <3>3
    <2> DEFINE inbound == IF b = p /\ a = q THEN ans ELSE {}
               outbound == IF a = p /\ b = q THEN ans ELSE {}
    <2>9. \A m1 \in inbound : /\ m1.kind # "PeerShutdown"
                              /\ m1.kind = "Ack" /\ Publisher[m1.topic] = b => link'[m1.topic][a] > 0
        BY <1>2, <1>3 DEF ReceivedTables
    <2>10. \A m1 \in outbound : m1.kind = "Reply" => b \in peers'[a] /\ receivers'[a] \subseteq m1.topics
        <3>1. CASE a = p /\ b = q /\ m.kind = "Announcement"
            <4>1. q \in peers[p]
                BY <2>1, <3>1 DEF ChannelInv, Introduced, m
            <4> QED BY <1>2, <1>4, <2>4, <3>1, <4>1
        <3>2. CASE ~(a = p /\ b = q /\ m.kind = "Announcement")
            BY <1>2, <3>2
        <3> QED BY <3>1, <3>2
    <2>11. /\ Range(wire[b][a])' \subseteq Range(wire[b][a]) \cup inbound
           /\ Range(wire[a][b])' \subseteq Range(wire[a][b]) \cup outbound
        <3>1. CASE a = p /\ b = q
            BY <1>8, <1>9, <3>1
        <3>2. CASE a = q /\ b = p
            BY <1>8, <1>9, <3>2
        <3>3. CASE ~(a = p /\ b = q) /\ ~(a = q /\ b = p)
            <4>1. wire'[a][b] = wire[a][b] /\ wire'[b][a] = wire[b][a]
                BY <1>1, <3>3
            <4> QED BY <4>1
        <3> QED BY <3>1, <3>2, <3>3
    <2>12. \A m1 \in Range(wire[b][a]) : m1.kind = "Ack" /\ link[m1.topic][a] > 0 => link'[m1.topic][a] > 0
        <3>1. wire[b][a] \in Seq(Message)
            BY DEF TablesOK
        <3>2. \A m1 \in Range(wire[b][a]) : m1.kind = "Ack" => m1.topic \in Topic
            <4>1. \A m1 \in Range(wire[b][a]) : m1 \in Message
                BY <3>1 DEF Range
            <4> QED BY <4>1 DEF Message
        <3> QED BY <2>3, <3>2
    <2> HIDE DEF inbound, outbound
    <2>13. ChannelStep(a, b, inbound, outbound)
        BY <1>4, <2>4, <2>6, <2>7, <2>8, <2>9, <2>10, <2>11, <2>12 DEF ChannelStep
    <2> QED BY <2>1, <2>13, ChannelKept
<1> QED BY <1>10, <1>11 DEF Connected

\* A participant leaves: the connections between the others stay as they are.
LEMMA LeaveKeepsConnected ==
    ASSUME TablesOK, Connected, NEW p \in Participant, Leave(p)
    PROVE  Connected'
<1>1. /\ phase'[p] = "Left"
      /\ \A a \in Participant \ {p} : phase'[a] = phase[a]
      /\ \A a, b \in Participant : a # p /\ b # p => wire'[a][b] = wire[a][b]
    BY LeaveFacts
<1>2. UNCHANGED <<awaiting, peers, receivers, pendingSync, pendingAsync, link>>
    BY DEF Leave, pendingVars, dataVars
<1>3. ASSUME NEW a \in Participant, phase'[a] = "In" PROVE awaiting'[a] = {}
    <2>1. a # p
        BY <1>1, <1>3
    <2> QED BY <1>1, <1>2, <1>3, <2>1 DEF Connected
<1>4. ASSUME NEW a \in Participant, NEW b \in Participant, a # b, Up(a)', Up(b)'
      PROVE  ChannelInv(a, b)'
    <2>1. a # p /\ b # p
        BY <1>1, <1>4 DEF Up
    <2>2. ChannelInv(a, b)
        BY <1>1, <1>4, <2>1 DEF Up, Connected
    <2>3. UNCHANGED ChannelVars(a, b)
        BY <1>1, <1>2, <2>1 DEF ChannelVars
    <2> QED BY <1>2, <2>2, <2>3, ChannelUnchanged
<1> QED BY <1>3, <1>4 DEF Connected

\* A publication adds data to the connections, and nothing else is changed.
LEMMA PublishKeepsConnected ==
    ASSUME TablesOK, Connected, NEW t \in Topic, Publish(t)
    PROVE  Connected'
<1> DEFINE data == {m \in Message : m.kind = "Data"}
<1>1. UNCHANGED <<phase, awaiting, peers, receivers, pendingSync, pendingAsync, link>>
    BY DEF Publish, joinVars, pendingVars
<1>2. \A a, b \in Participant :
          /\ Range(wire[a][b])' \subseteq Range(wire[a][b]) \cup data
          /\ wire[a][b] # <<>> => wire'[a][b] # <<>> /\ Head(wire'[a][b]) = Head(wire[a][b])
    BY PublishFacts
<1>3. \A m \in data : m.kind = "Data"
    OBVIOUS
<1> HIDE DEF data
<1>4. ASSUME NEW a \in Participant, NEW b \in Participant, ChannelInv(a, b)
      PROVE  ChannelInv(a, b)'
    <2>1. \A u \in receivers[a] : Arranged(a, b, u) => Arranged(a, b, u)'
        BY <1>1 DEF Arranged
    <2>2. ChannelStep(a, b, data, data)
        BY <1>1, <1>2, <1>3, <2>1 DEF ChannelStep
    <2> QED BY <1>4, <2>2, ChannelKept
<1> QED BY <1>1, <1>4 DEF Connected, Up

\* Every step keeps the connections and the tables in agreement.
LEMMA ConnectedKept == TablesOK /\ NothingBefore /\ Connected /\ [Next]_vars => Connected'
<1> SUFFICES ASSUME TablesOK, NothingBefore, Connected, [Next]_vars PROVE Connected'
    OBVIOUS
<1>1. ASSUME UNCHANGED <<phase, awaiting, peers, receivers, pendingSync, pendingAsync, link, wire>>
      PROVE  Connected'
    <2>1. \A a, b \in Participant : UNCHANGED ChannelVars(a, b)
        BY <1>1 DEF ChannelVars
    <2>2. \A a, b \in Participant : ChannelInv(a, b) => ChannelInv(a, b)'
        BY <1>1, <2>1, ChannelUnchanged
    <2> QED BY <1>1, <2>2 DEF Connected, Up
<1>2. ASSUME NEW p \in Participant, Return(p) \/ StartLifecycle(p) PROVE Connected'
    BY <1>1, <1>2 DEF Return, StartLifecycle, joinVars, pendingVars, dataVars
<1>3. ASSUME NEW p \in Participant, NEW t \in Topic, CreateController(p, t) \/ Discover(p, t)
      PROVE  Connected'
    BY <1>1, <1>3 DEF CreateController, Discover, RegisterSilKitService, joinVars, dataVars
<1>4. ASSUME NEW p \in Participant, Join(p) \/ RunTask(p) \/ Leave(p) PROVE Connected'
    BY <1>4, JoinKeepsConnected, RunTaskKeepsConnected, LeaveKeepsConnected
<1>5. ASSUME NEW p \in Participant, NEW q \in Participant \ {p}, Receive(p, q) PROVE Connected'
    BY <1>5, ReceiveKeepsConnected
<1>6. ASSUME NEW t \in Topic, Publish(t) PROVE Connected'
    BY <1>6, PublishKeepsConnected
<1>7. CASE UNCHANGED vars
    BY <1>1, <1>7 DEF vars, joinVars, pendingVars, dataVars
<1> QED BY <1>2, <1>3, <1>4, <1>5, <1>6, <1>7 DEF Next

-----------------------------------------------------------------------------
(* The theorems.                                                           *)

\* Initially nothing is registered, nothing is on the way, and who is up knows
\* everybody who is.
LEMMA InitHolds == Init => SubscriptionsInv
<1> SUFFICES ASSUME Init PROVE SubscriptionsInv
    OBVIOUS
<1>1. TablesOK
    BY InitTypes
<1>2. NothingBefore
    BY DEF Init, NothingBefore
<1>3. ASSUME NEW p \in Participant PROVE Waiting(p)
    <2>1. /\ tasks[p] = <<>> /\ begun[p] = {} /\ pendingSync[p] = {}
          /\ userWaits[p] = NoTopic
        BY DEF Init
    <2>2. Queued(p) = {} /\ QueuedOnce(p)
        BY <2>1 DEF Queued, QueuedOnce, Range
    <2> QED BY <2>1, <2>2 DEF Waiting
<1>4. ASSUME NEW p \in Participant, NEW q \in Participant, p # q, Up(p), Up(q)
      PROVE  ChannelInv(p, q)
    <2>1. p \in AtStart /\ q \in AtStart
        BY <1>4 DEF Init, Up
    <2>2. q \in peers[p] /\ receivers[p] = {} /\ wire[p][q] = <<>> /\ wire[q][p] = <<>>
        BY <1>4, <2>1 DEF Init
    <2>3. Range(<<>>) = {}
        BY DEF Range
    <2> QED BY <2>2, <2>3 DEF ChannelInv, InboundOK, OutboundOK, Introduced, Provided
<1>5. \A p \in Participant : awaiting[p] = {}
    BY DEF Init
<1> QED BY <1>1, <1>2, <1>3, <1>4, <1>5 DEF SubscriptionsInv, OneAtATime, Connected

\* The invariant of registration, for any participants, topics and services,
\* with participants that join and leave at any time.
THEOREM SubscriptionsHold == Spec => []SubscriptionsInv
<1>1. SubscriptionsInv /\ [Next]_vars => SubscriptionsInv'
    BY TypesKept, NothingBeforeKept, OneAtATimeKept, ConnectedKept DEF SubscriptionsInv
<1> QED BY InitHolds, <1>1, PTL DEF Spec

\* The assertion of RegisterSilKitService (VAsioConnection.hpp): no acknowledge
\* is pending when the user's thread is free to register the next service.
THEOREM NothingPendingHolds == Spec => []NothingPendingBetweenRegistrations
<1>1. SubscriptionsInv => NothingPendingBetweenRegistrations
    BY NothingPending DEF SubscriptionsInv, OneAtATime, NothingPendingBetweenRegistrations
<1> QED BY SubscriptionsHold, <1>1, PTL

\* A synchronous registration that has returned is in effect at the publisher,
\* whether the publisher was there, joined or announced itself meanwhile.
THEOREM SubscribedWhenReturnedHolds == Spec => []SubscribedWhenReturned
<1>1. SubscriptionsInv => SubscribedWhenReturned
    <2> SUFFICES ASSUME SubscriptionsInv, NEW p \in Participant,
                        NEW t \in begun[p] \ (Async \cup {userWaits[p]}),
                        phase[p] = "In", phase[Publisher[t]] = "In", Publisher[t] \in peers[p]
                 PROVE  link[t][p] > 0
        BY DEF SubscribedWhenReturned
    <2> DEFINE q == Publisher[t]
    <2>1. t \in Receives[p] /\ t \in Topic
        BY DEF SubscriptionsInv, TablesOK
    <2>2. q # p /\ q \in Participant
        BY <2>1, SubscriptionsAssumption
    <2>3. Waiting(p) /\ ChannelInv(p, q) /\ awaiting[q] = {}
        BY <2>2 DEF SubscriptionsInv, OneAtATime, Connected, Up
    <2>4. t \in receivers[p] /\ <<q, t>> \notin pendingSync[p]
        BY <2>3 DEF Waiting
    <2>5. <<q, t>> \notin pendingAsync[p]
        BY DEF SubscriptionsInv, TablesOK
    <2>6. Arranged(p, q, t)
        BY <2>3, <2>4 DEF ChannelInv, Provided
    <2> QED BY <2>4, <2>5, <2>6 DEF Arranged
<1> QED BY SubscriptionsHold, <1>1, PTL

-----------------------------------------------------------------------------
(* Asynchronous registration.                                              *)

\* What AsyncIsFlagged says of one participant.
Flagged(p) ==
    /\ Queued(p) \cap Async # {} => hasPending[p] /\ pendingAsync[p] = {}
    /\ pendingAsync[p] # {} => hasPending[p]
    /\ begun[p] \cap Async = {} => pendingAsync[p] = {}

\* A step that leaves its registrations alone, or forgets those in the queue.
LEMMA FlaggedUnchanged ==
    ASSUME NEW p, Flagged(p), Queued(p)' \subseteq Queued(p),
           UNCHANGED <<begun[p], pendingAsync[p], hasPending[p]>>
    PROVE  Flagged(p)'
BY DEF Flagged

\* A registration begins: the flag is raised, or it was not about this one.
LEMMA RegisterKeepsFlagged ==
    ASSUME OneAsyncService, TablesOK, NEW p \in Participant, NEW t \in Receives[p], Flagged(p),
           RegisterSilKitService(p, t), t \notin begun[p]
    PROVE  Flagged(p)'
<1>1. begun'[p] = begun[p] \cup {t} /\ Queued(p)' = Queued(p) \cup {t}
    BY RegisterFacts
<1>2. pendingAsync' = pendingAsync
    BY DEF RegisterSilKitService
<1>3. CASE t \in Async
    <2>1. begun[p] \cap Async = {}
        BY <1>3 DEF TablesOK, OneAsyncService
    <2>2. hasPending'[p] = TRUE
        BY <1>3 DEF RegisterSilKitService, UseAsyncRegistration, TablesOK
    <2> QED BY <1>1, <1>2, <1>3, <2>1, <2>2 DEF Flagged
<1>4. CASE t \notin Async
    <2>1. hasPending' = hasPending
        BY <1>4 DEF RegisterSilKitService, UseAsyncRegistration
    <2> QED BY <1>1, <1>2, <1>4, <2>1 DEF Flagged
<1> QED BY <1>3, <1>4

\* A registration is run: the flag stays up while acknowledges are pending.
LEMMA RunTaskKeepsFlagged ==
    ASSUME OneAsyncService, TablesOK, OneAtATime, NEW p \in Participant, RunTask(p), Flagged(p)
    PROVE  Flagged(p)'
<1> DEFINE t == Head(tasks[p])
<1>1. QueuedOnce(p)
    BY DEF OneAtATime, Waiting, RunTask, Idle
<1>2. /\ t \in Topic \cup {NoTopic} /\ (t \in Topic => t \in Queued(p))
      /\ Queued(p) = Queued(p)' \cup ({t} \cap Topic)
      /\ t \notin Queued(p)'
      /\ begun' = begun
    BY <1>1, TaskFacts
<1>3. CASE t = NoTopic
    <2>1. UNCHANGED <<pendingAsync, hasPending>>
        BY <1>3 DEF RunTask, AddAsyncSubscriptionsCompletionHandler, pendingVars
    <2> QED BY <1>2, <2>1, FlaggedUnchanged
<1>4. CASE t # NoTopic
    <2>1. t \in Topic /\ RegisterSilKitServiceImpl(p, t)
        BY <1>2, <1>4 DEF RunTask
    <2> DEFINE acks == peers[p] \X {t}
               sync == pendingSync[p] \cup (IF t \in Async THEN {} ELSE acks)
               async == pendingAsync[p] \cup (IF t \in Async THEN acks ELSE {})
    <2>2. PendingChanged(p, sync, async, t \notin Async, t \in Async)
        BY <2>1, RegisterImplFacts
    <2>3. /\ pendingAsync'[p] = async
          /\ hasPending'[p] <=> (hasPending[p] /\ ~(t \in Async /\ async = {}))
        BY <2>2 DEF PendingChanged
    <2>4. CASE t \in Async
        <3>1. hasPending[p] /\ t \in begun[p]
            BY <1>2, <2>1, <2>4 DEF Flagged, TablesOK
        <3>2. Queued(p)' \cap Async = {}
            <4>1. \A u \in Queued(p)' : u \in Receives[p] /\ u # t
                BY <1>2 DEF TablesOK
            <4>2. t \in Receives[p]
                BY <3>1 DEF TablesOK
            <4> QED BY <2>4, <4>1, <4>2 DEF OneAsyncService
        <3> HIDE DEF async, t
        <3> QED BY <1>2, <2>3, <2>4, <3>1, <3>2 DEF Flagged
    <2>5. CASE t \notin Async
        <3>1. pendingAsync'[p] = pendingAsync[p] /\ (hasPending'[p] <=> hasPending[p])
            BY <2>3, <2>5
        <3>2. Queued(p)' \subseteq Queued(p)
            BY <1>2
        <3> QED BY <1>2, <3>1, <3>2 DEF Flagged
    <2> QED BY <2>4, <2>5
<1> QED BY <1>3, <1>4

\* Acknowledges arrive, or a peer goes: the flag falls when nothing is pending.
LEMMA ReceiveKeepsFlagged ==
    ASSUME TablesOK, NEW p \in Participant, NEW q \in Participant \ {p}, Receive(p, q), Flagged(p)
    PROVE  Flagged(p)'
<1>1. UNCHANGED <<begun, tasks>>
    BY ReceiveRest
<1>2. PICK gone : Removed(p, gone)
    BY ReceiveRest
<1>3. /\ pendingAsync'[p] = pendingAsync[p] \ gone
      /\ hasPending'[p] <=> (hasPending[p] /\ ~(pendingAsync[p] \cap gone # {} /\ pendingAsync[p] \ gone = {}))
    BY <1>2 DEF Removed, PendingChanged
<1>4. Queued(p)' = Queued(p)
    BY <1>1 DEF Queued
<1> QED BY <1>1, <1>3, <1>4 DEF Flagged

\* Every step keeps the flag of every participant.
LEMMA AsyncIsFlaggedKept ==
    ASSUME OneAsyncService, TablesOK, OneAtATime, AsyncIsFlagged, [Next]_vars
    PROVE  AsyncIsFlagged'
<1> SUFFICES ASSUME NEW o \in Participant PROVE Flagged(o)'
    BY DEF AsyncIsFlagged, Flagged
<1>1. Flagged(o)
    BY DEF AsyncIsFlagged, Flagged
<1>2. ASSUME UNCHANGED <<tasks, begun, pendingAsync, hasPending>> PROVE Flagged(o)'
    BY <1>1, <1>2, FlaggedUnchanged DEF Queued
<1>3. ASSUME NEW p \in Participant, Join(p) \/ Return(p) PROVE Flagged(o)'
    BY <1>2, <1>3 DEF Join, Return, pendingVars, userVars
<1>4. ASSUME NEW p \in Participant, StartLifecycle(p) PROVE Flagged(o)'
    <2>1. tasks' = [tasks EXCEPT ![p] = Append(tasks[p], NoTopic)]
        BY <1>4 DEF StartLifecycle
    <2>2. tasks[p] \in Seq(Topic \cup {NoTopic}) /\ NoTopic \notin Topic
        BY SubscriptionsAssumption DEF TablesOK
    <2>3. Range(Append(tasks[p], NoTopic)) = Range(tasks[p]) \cup {NoTopic}
        BY <2>2, AppendFacts
    <2>4. tasks'[o] = IF o = p THEN Append(tasks[p], NoTopic) ELSE tasks[o]
        BY <2>1 DEF TablesOK
    <2>5. Queued(o)' \subseteq Queued(o)
        BY <2>2, <2>3, <2>4 DEF Queued
    <2> QED BY <1>1, <1>4, <2>5, FlaggedUnchanged DEF StartLifecycle, pendingVars, userVars
<1>5. ASSUME NEW p \in Participant, NEW t \in Topic, CreateController(p, t) \/ Discover(p, t)
      PROVE  Flagged(o)'
    <2>1. t \in Receives[p] \ begun[p] /\ RegisterSilKitService(p, t)
        BY <1>5 DEF CreateController, Discover
    <2>2. CASE o = p
        BY <1>1, <2>1, <2>2, RegisterKeepsFlagged
    <2>3. CASE o # p
        <3>1. tasks'[o] = tasks[o] /\ begun'[o] = begun[o]
            BY <2>1, <2>3, RegisterFacts
        <3>2. pendingAsync' = pendingAsync /\ hasPending'[o] = hasPending[o]
            BY <2>1, <2>3 DEF RegisterSilKitService, TablesOK
        <3> QED BY <1>1, <3>1, <3>2, FlaggedUnchanged DEF Queued
    <2> QED BY <2>2, <2>3
<1>6. ASSUME NEW p \in Participant, RunTask(p) PROVE Flagged(o)'
    <2>1. CASE o = p
        BY <1>1, <1>6, <2>1, RunTaskKeepsFlagged
    <2>2. CASE o # p
        <3>1. tasks'[o] = tasks[o] /\ begun' = begun /\ Head(tasks[p]) \in Topic \cup {NoTopic}
            BY <1>6, <2>2, TaskFacts
        <3>2. pendingAsync'[o] = pendingAsync[o] /\ hasPending'[o] = hasPending[o]
            <4>1. CASE Head(tasks[p]) = NoTopic
                BY <1>6, <4>1 DEF RunTask, AddAsyncSubscriptionsCompletionHandler, pendingVars
            <4>2. CASE Head(tasks[p]) # NoTopic
                <5> DEFINE t == Head(tasks[p])
                <5>1. t \in Topic /\ RegisterSilKitServiceImpl(p, t)
                    BY <1>6, <3>1, <4>2 DEF RunTask
                <5> HIDE DEF t
                <5>2. \E sync, async : PendingChanged(p, sync, async, t \notin Async, t \in Async)
                    BY <5>1, RegisterImplFacts
                <5> QED BY <2>2, <5>2 DEF PendingChanged
            <4> QED BY <4>1, <4>2
        <3> QED BY <1>1, <3>1, <3>2, FlaggedUnchanged DEF Queued
    <2> QED BY <2>1, <2>2
<1>7. ASSUME NEW p \in Participant, NEW q \in Participant \ {p}, Receive(p, q) PROVE Flagged(o)'
    <2>1. CASE o = p
        BY <1>1, <1>7, <2>1, ReceiveKeepsFlagged
    <2>2. CASE o # p
        <3>1. UNCHANGED <<begun, tasks>> /\ \E gone : Removed(p, gone)
            BY <1>7, ReceiveRest
        <3>2. pendingAsync'[o] = pendingAsync[o] /\ hasPending'[o] = hasPending[o]
            BY <2>2, <3>1 DEF Removed, PendingChanged
        <3> QED BY <1>1, <3>1, <3>2, FlaggedUnchanged DEF Queued
    <2> QED BY <2>1, <2>2
<1>8. ASSUME NEW p \in Participant, Leave(p) PROVE Flagged(o)'
    <2>1. tasks'[o] = IF o = p THEN <<>> ELSE tasks[o]
        BY <1>8, LeaveFacts
    <2>2. Queued(o)' \subseteq Queued(o)
        BY <2>1 DEF Queued, Range
    <2> QED BY <1>1, <1>8, <2>2, FlaggedUnchanged DEF Leave, pendingVars, userVars
<1>9. ASSUME NEW t \in Topic, Publish(t) PROVE Flagged(o)'
    BY <1>2, <1>9 DEF Publish, pendingVars, userVars
<1>10. CASE UNCHANGED vars
    BY <1>2, <1>10 DEF vars, pendingVars, userVars
<1> QED BY <1>3, <1>4, <1>5, <1>6, <1>7, <1>8, <1>9, <1>10 DEF Next

\* The handler of a participant is invoked only with nothing pending.
LEMMA HandlerSteps ==
    ASSUME TablesOK, AsyncIsFlagged, [Next]_vars,
           NEW o \in Participant, handler[o] # "Invoked", handler'[o] = "Invoked"
    PROVE  pendingAsync'[o] = {}
<1>1. ASSUME NEW p \in Participant, RunTask(p) PROVE pendingAsync'[o] = {}
    <2> DEFINE t == Head(tasks[p])
    <2>1. t \in Topic \cup {NoTopic}
        BY <1>1, TaskFacts
    <2>2. CASE t = NoTopic
        <3>1. handler' = [handler EXCEPT ![p] = AddedHandler(p)] /\ pendingAsync' = pendingAsync
            BY <1>1, <2>2 DEF RunTask, AddAsyncSubscriptionsCompletionHandler, pendingVars
        <3>2. o = p /\ AddedHandler(p) = "Invoked"
            BY <3>1 DEF TablesOK
        <3>3. ~hasPending[o]
            BY <3>2 DEF AddedHandler
        <3> QED BY <3>1, <3>3 DEF AsyncIsFlagged
    <2>3. CASE t # NoTopic
        <3>1. t \in Topic /\ RegisterSilKitServiceImpl(p, t)
            BY <1>1, <2>1, <2>3 DEF RunTask
        <3> HIDE DEF t
        <3>2. \E sync, async : PendingChanged(p, sync, async, t \notin Async, t \in Async)
            BY <3>1, RegisterImplFacts
        <3> QED BY <3>2 DEF PendingChanged
    <2> QED BY <2>2, <2>3
<1>2. ASSUME NEW p \in Participant, NEW q \in Participant \ {p}, Receive(p, q)
      PROVE  pendingAsync'[o] = {}
    <2>1. \E gone : Removed(p, gone)
        BY <1>2, ReceiveRest
    <2> QED BY <2>1 DEF Removed, PendingChanged
<1>3. ASSUME NEW p \in Participant, StartLifecycle(p) PROVE FALSE
    BY <1>3 DEF StartLifecycle, TablesOK
<1>4. ASSUME handler' = handler PROVE FALSE
    BY <1>4
<1>5. ASSUME NEW p \in Participant, Join(p) \/ Return(p) \/ Leave(p) PROVE FALSE
    BY <1>4, <1>5 DEF Join, Return, Leave
<1>6. ASSUME NEW p \in Participant, NEW t \in Topic, CreateController(p, t) \/ Discover(p, t)
      PROVE  FALSE
    BY <1>4, <1>6 DEF CreateController, Discover, RegisterSilKitService
<1>7. ASSUME NEW t \in Topic, Publish(t) PROVE FALSE
    BY <1>4, <1>7 DEF Publish
<1>8. CASE UNCHANGED vars
    BY <1>4, <1>8 DEF vars
<1> QED BY <1>1, <1>2, <1>3, <1>5, <1>6, <1>7, <1>8 DEF Next

\* "Delay the next state until pending subscriptions of controllers are
\* completed" (LifecycleStates.cpp), for a participant with one asynchronous
\* service. With more, one that completes lowers the flag of all.
THEOREM HandlerWaitsHolds ==
    ASSUME OneAsyncService
    PROVE  Spec => HandlerWaitsForSubscriptions
<1>1. Init => AsyncIsFlagged
    <2> SUFFICES ASSUME Init, NEW p \in Participant PROVE Flagged(p)
        BY DEF AsyncIsFlagged, Flagged
    <2>1. tasks[p] = <<>> /\ pendingAsync[p] = {}
        BY DEF Init
    <2>2. Queued(p) = {}
        BY <2>1 DEF Queued, Range
    <2> QED BY <2>1, <2>2 DEF Flagged
<1>2. SubscriptionsInv /\ AsyncIsFlagged /\ [Next]_vars => AsyncIsFlagged'
    BY AsyncIsFlaggedKept DEF SubscriptionsInv
<1>3. SubscriptionsInv /\ AsyncIsFlagged /\ [Next]_vars =>
          [\A p \in Participant :
              handler[p] # "Invoked" /\ handler'[p] = "Invoked" => pendingAsync'[p] = {}]_vars
    BY HandlerSteps DEF SubscriptionsInv
<1> QED BY SubscriptionsHold, <1>1, <1>2, <1>3, PTL DEF Spec, HandlerWaitsForSubscriptions
=============================================================================
