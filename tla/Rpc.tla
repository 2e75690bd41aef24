-------------------------------- MODULE Rpc --------------------------------
(***************************************************************************)
(* Remote procedure calls on top of the service discovery.                 *)
(*                                                                         *)
(* A client participant announces its RpcClient; the RpcServer of every    *)
(* participant that discovers it creates an RpcServerInternal for that     *)
(* client, subscribes to the client's own network and announces the        *)
(* internal server, which the client counts. A call is broadcast on the    *)
(* client's network and is finished by the answers of the servers counted  *)
(* when it was made, or by its timeout.                                    *)
(*                                                                         *)
(* One participant is one IO thread, which runs the tasks posted to it     *)
(* ("tasks") and handles the messages of each peer in the order they were  *)
(* sent ("wire"), and user threads. The media types and labels of all      *)
(* clients and servers match, but an internal server has no labels, which  *)
(* matters for the servers that a client finds when it begins to count     *)
(* (DiscoveryStore has the labels themselves). Subscriptions of            *)
(* synchronously registered services are complete when the registration    *)
(* returns (Subscriptions), so a server's answers always find the client   *)
(* that it has discovered.                                                 *)
(***************************************************************************)
EXTENDS Integers, Sequences, FiniteSets, SequencesExt

CONSTANTS
    Participant,    \* participants, connected to each other by the VAsio layer
    AtStart,        \* those that have already discovered each other initially
    Client,         \* participants that create an RpcClient
    Server,         \* participants that create an RpcServer
    HasHandler,     \* servers whose user has set a call handler
    Labelled,       \* clients whose labels include a mandatory one
    MayLeave,       \* those that may disconnect or crash
    Call,           \* identities of calls, each made once
    Caller,         \* the client of each call
    Timeout,        \* ticks until a call is cancelled; 0: Call without timeout
    TimerThread,    \* ticks come from a timer thread: no virtual time
    NoCall,         \* no call
    CountModulus,   \* bound: _numCounterparts is unsigned and wraps around here
    MaxLost         \* bound: messages of a wire that a crash loses

ASSUME SubsetAssumption ==
    /\ AtStart \subseteq Participant
    /\ Client \subseteq Participant
    /\ Server \subseteq Participant
    /\ HasHandler \subseteq Server
    /\ Labelled \subseteq Client
    /\ MayLeave \subseteq Participant
ASSUME CallAssumption ==
    /\ Caller \in [Call -> Client]
    /\ Timeout \in [Call -> Nat]
    /\ TimerThread \in BOOLEAN
    /\ NoCall \notin Call
    /\ MaxLost \in Nat
    /\ CountModulus \in Nat /\ CountModulus > 2 * Cardinality(Server)

VARIABLES
    phase,              \* "Out", "Joined", "Announced" its discovery or "Left"
    created,            \* services that its user has created
    tasks,              \* tasks posted to the io_context of each participant
    wire,               \* wire[p][q]: messages from p that q has not handled
    discoveryLink,      \* remote receivers of the discovery events of p
    known,              \* ServiceDiscovery::_servicesByParticipant
    internal,           \* RpcServer::_internalRpcServers: their clients
    callLink,           \* receivers of the calls of client c
    counting,           \* the client's discovery handler is registered
    numCounterparts,    \* RpcClient::_numCounterparts
    calling,            \* call whose counterparts were checked, not yet sent
    remaining,          \* RpcClient::_activeCalls: returns still expected
    timeouts,           \* RpcClient::_timeoutEntries
    receiving,          \* response found by ReceiveMessage, not yet handled
    handles,            \* RpcServerInternal::_activeCalls
    results             \* call result events handed to the user, by call

discoveryVars ==
    <<phase, created, discoveryLink, known, internal, counting, numCounterparts>>
clientVars == <<calling, remaining, timeouts, receiving, results>>
vars == <<discoveryVars, tasks, wire, callLink, clientVars, handles>>

-----------------------------------------------------------------------------
\* A discovered service: the ServiceDiscovery of a participant itself, its
\* RpcClient, or its RpcServerInternal for a client.
ServiceDiscovery(p) == [kind |-> "ServiceDiscovery", at |-> p, client |-> p]
RpcClient(c) == [kind |-> "RpcClient", at |-> c, client |-> c]
RpcServerInternal(s, c) == [kind |-> "RpcServerInternal", at |-> s, client |-> c]

Service ==
    [kind : {"ServiceDiscovery", "RpcClient", "RpcServerInternal"},
     at : Participant, client : Participant]

Up(p) == phase[p] \notin {"Out", "Left"}
Peers(p) == {q \in Participant \ {p} : Up(q)}

Post(ts, p, task) == [ts EXCEPT ![p] = Append(@, task)]
Posted(d, task) == [d EXCEPT !.posted = Append(@, task)]

\* Message m of p, appended to the wires w towards those of the set to.
SendTo(w, p, to, m) ==
    [w EXCEPT ![p] = [q \in Participant |->
        IF q \in to /\ Up(q) THEN Append(w[p][q], m) ELSE w[p][q]]]

-----------------------------------------------------------------------------
(* Service discovery and its handlers. A step of it computes a record of   *)
(* the participant's discovery state, so that a handler's announcement of  *)
(* another service can run nested in the announcement that calls it.       *)

Discovery(p) ==
    [known |-> known[p], internal |-> internal[p], posted |-> tasks[p],
     count |-> numCounterparts[p]]

SetDiscovery(p, d) ==
    /\ known' = [known EXCEPT ![p] = d.known]
    /\ tasks' = [tasks EXCEPT ![p] = d.posted]
    /\ internal' = [internal EXCEPT ![p] = d.internal]
    /\ numCounterparts' = [numCounterparts EXCEPT ![p] = d.count]

\* The handler of the RpcClient at p.
Counted(p, d, svc, change) ==
    IF counting[p] /\ svc.kind = "RpcServerInternal" /\ svc.client = p
    THEN [d EXCEPT !.count = (@ + change) % CountModulus] ELSE d

\* Faulty variant: the internal server is announced before it subscribes.
InternalServerAnnouncedFirst(p, d, c) ==
    LET svc == RpcServerInternal(p, c)
        announced == [d EXCEPT
            !.internal = @ \cup {c}, !.known = @ \cup {svc},
            !.posted = @ \o <<[kind |-> "Announce", service |-> svc],
                              [kind |-> "Register", client |-> c]>>]
    IN  Counted(p, announced, svc, 1)

\* RpcServer::AddInternalRpcServer: the internal server is registered with the
\* connection, then announced, which calls the own client's handler.
AddInternalRpcServer(p, d, c) ==
    LET svc == RpcServerInternal(p, c)
        announced == [d EXCEPT
            !.internal = @ \cup {c}, !.known = @ \cup {svc},
            !.posted = @ \o <<[kind |-> "Register", client |-> c],
                              [kind |-> "Announce", service |-> svc]>>]
    IN  Counted(p, announced, svc, 1)

\* The handler of the RpcServer at p, for the creation of a service.
Matched(p, d, svc) ==
    IF "RpcServer" \in created[p] /\ svc.kind = "RpcClient"
          /\ svc.client \notin d.internal
    THEN AddInternalRpcServer(p, d, svc.client) ELSE d

\* Faulty variant: a newcomer is not told the services that are already there.
AddedSilently(p, d, svc) ==
    IF svc \in d.known THEN d
    ELSE LET stored == [d EXCEPT !.known = @ \cup {svc}]
         IN  Counted(p, Matched(p, stored, svc), svc, 1)

\* OnServiceAddition: the ServiceDiscovery of a remote participant is answered
\* with all local services.
Added(p, d, svc) ==
    IF svc \in d.known THEN d
    ELSE LET own == {s \in d.known : s.at = p}
             answered == IF svc.kind = "ServiceDiscovery" /\ svc.at # p
                         THEN Posted(d, [kind |-> "AnnounceAll", to |-> svc.at, services |-> own])
                         ELSE d
             stored == [answered EXCEPT !.known = @ \cup {svc}]
         IN  Counted(p, Matched(p, stored, svc), svc, 1)

\* OnParticpantAddition: an announcement of several services. Unlike
\* OnServiceAddition it answers none of them.
AllAdded(p, d, svcs) ==
    FoldLeft(LAMBDA e, svc :
                 IF svc \in e.known THEN e
                 ELSE Counted(p, Matched(p, [e EXCEPT !.known = @ \cup {svc}], svc), svc, 1),
             d, SetToSeq(svcs))

\* Faulty variant: a departure is not told to the handlers.
ForgottenSilently(p, d, q) == [d EXCEPT !.known = {s \in @ : s.at # q}]

\* OnParticpantRemoval: all services of q are removed; of the handlers only the
\* client's reacts.
Forgotten(p, d, q) ==
    LET counted == {s \in d.known : s.at = q /\ s.kind = "RpcServerInternal" /\ s.client = p}
    IN  [d EXCEPT !.known = {s \in @ : s.at # q},
                  !.count = IF counting[p] THEN (@ - Cardinality(counted)) % CountModulus ELSE @]

-----------------------------------------------------------------------------
(* User threads: creation of the services.                                 *)

\* Join: the participant is connected, and its ServiceDiscovery has subscribed
\* to the discovery events of the others. Those learn of the subscription by a
\* message; it learns of theirs when it connects.
Join(p) ==
    /\ phase[p] = "Out"
    /\ phase' = [phase EXCEPT ![p] = "Joined"]
    /\ discoveryLink' = [discoveryLink EXCEPT ![p] = Peers(p)]
    /\ wire' = SendTo(wire, p, Peers(p), [kind |-> "Subscribe", link |-> "Discovery"])
    /\ UNCHANGED <<created, tasks, known, internal, callLink, counting, numCounterparts,
                   clientVars, handles>>

\* NotifyServiceCreated: the own handlers first, then the posted broadcast.
NotifyServiceCreated(p, svc) ==
    SetDiscovery(p, Posted(Added(p, Discovery(p), svc), [kind |-> "Announce", service |-> svc]))

\* The subscription is acknowledged by every peer: the ServiceDiscovery
\* announces itself.
AnnounceDiscovery(p) ==
    /\ phase[p] = "Joined"
    /\ \A q \in Peers(p) : p \in discoveryLink[q]
    /\ phase' = [phase EXCEPT ![p] = "Announced"]
    /\ NotifyServiceCreated(p, ServiceDiscovery(p))
    /\ UNCHANGED <<created, discoveryLink, wire, callLink, counting, clientVars, handles>>

\* CreateController for the RpcClient.
CreateRpcClient(p) ==
    /\ phase[p] = "Announced" /\ p \in Client /\ "RpcClient" \notin created[p]
    /\ created' = [created EXCEPT ![p] = @ \cup {"RpcClient"}]
    /\ NotifyServiceCreated(p, RpcClient(p))
    /\ UNCHANGED <<phase, discoveryLink, wire, callLink, counting, clientVars, handles>>

KnownCounterparts(p) ==
    {s \in known[p] : s.kind = "RpcServerInternal" /\ s.client = p}

\* RpcClient::RegisterServiceDiscovery: the handler is called for the services
\* known so far and is registered, in one step under the discovery's lock. The
\* labels of the client are compared with the internal servers' only here: a
\* mandatory one matches none of them.
CountServers(p) ==
    /\ Up(p) /\ "RpcClient" \in created[p] /\ ~counting[p]
    /\ counting' = [counting EXCEPT ![p] = TRUE]
    /\ numCounterparts' = [numCounterparts EXCEPT ![p] =
                              IF p \in Labelled THEN 0 ELSE Cardinality(KnownCounterparts(p))]
    /\ UNCHANGED <<phase, created, discoveryLink, known, internal, tasks, wire, callLink,
                   clientVars, handles>>

\* CreateRpcServer: its handler is called for the clients known so far. (The
\* service RpcServer itself is announced to nobody that reacts.)
CreateRpcServer(p) ==
    /\ phase[p] = "Announced" /\ p \in Server /\ "RpcServer" \notin created[p]
    /\ created' = [created EXCEPT ![p] = @ \cup {"RpcServer"}]
    /\ LET clients == {s.client : s \in {t \in known[p] : t.kind = "RpcClient"}}
       IN  SetDiscovery(p, FoldLeft(LAMBDA d, c : AddInternalRpcServer(p, d, c),
                                    Discovery(p), SetToSeq(clients)))
    /\ UNCHANGED <<phase, discoveryLink, wire, callLink, counting, clientVars, handles>>

-----------------------------------------------------------------------------
(* User threads: calls and their results.                                  *)

Result(rs, call, status) == [rs EXCEPT ![call] = Append(@, status)]
Without(f, call) == [k \in DOMAIN f \ {call} |-> f[k]]
With(f, call, n) == [k \in DOMAIN f \cup {call} |-> IF k = call THEN n ELSE f[k]]

Made(call) ==
    results[call] # <<>> \/ call \in DOMAIN remaining \/ calling[Caller[call]] = call

\* TriggerCall, up to the test for counterparts.
BeginCall(call) ==
    LET c == Caller[call]
    IN  /\ Up(c) /\ counting[c] /\ calling[c] = NoCall /\ ~Made(call)
        /\ IF numCounterparts[c] = 0
           THEN /\ results' = Result(results, call, "ServerNotReachable")
                /\ UNCHANGED calling
           ELSE /\ calling' = [calling EXCEPT ![c] = call]
                /\ UNCHANGED results
        /\ UNCHANGED <<discoveryVars, tasks, wire, callLink, remaining, timeouts, receiving,
                       handles>>

\* The number of counterparts as the signed number of expected returns.
Signed(n) == IF 2 * n < CountModulus THEN n ELSE n - CountModulus

\* The rest of TriggerCall, which reads the number of counterparts again.
TriggerCall(call) ==
    LET c == Caller[call]
    IN  /\ Up(c) /\ calling[c] = call
        /\ calling' = [calling EXCEPT ![c] = NoCall]
        /\ remaining' = With(remaining, call, Signed(numCounterparts[c]))
        /\ timeouts' = IF Timeout[call] > 0
                       THEN [timeouts EXCEPT ![c] = @ \cup {[call |-> call, left |-> Timeout[call]]}]
                       ELSE timeouts
        /\ tasks' = Post(tasks, c, [kind |-> "Call", call |-> call])
        /\ UNCHANGED <<discoveryVars, wire, callLink, receiving, results, handles>>

\* SubmitResult of the server's user, in its call handler or later.
SubmitResult(s, call) ==
    /\ Up(s) /\ call \in handles[s]
    /\ handles' = [handles EXCEPT ![s] = @ \ {call}]
    /\ tasks' = Post(tasks, s, [kind |-> "Respond", call |-> call, status |-> "Success"])
    /\ UNCHANGED <<discoveryVars, wire, callLink, clientVars>>

\* Faulty variant: only the timeout entry is forgotten, not the call.
CancelledButActive(c, expired) == remaining

Cancelled(c, expired) ==
    [k \in DOMAIN remaining \ expired |-> remaining[k]]

\* TimeHandler, called once per simulation step on the IO thread, or by the
\* timer thread of a participant without virtual time. The entry of a call that
\* was answered is still there: for it the code reads the user context of
\* end(), which is part of the map object, and does nothing with it.
Tick(c) ==
    LET ticked == {[e EXCEPT !.left = @ - 1] : e \in timeouts[c]}
        expired == {e.call : e \in {f \in ticked : f.left <= 0}}
    IN  /\ Up(c) /\ timeouts[c] # {}
        /\ TimerThread \/ receiving[c].call = NoCall
        /\ timeouts' = [timeouts EXCEPT ![c] = {e \in ticked : e.left > 0}]
        /\ remaining' = Cancelled(c, expired)
        /\ results' = [k \in Call |-> IF k \in expired \cap DOMAIN remaining
                                      THEN Append(results[k], "Timeout") ELSE results[k]]
        /\ UNCHANGED <<discoveryVars, tasks, wire, callLink, calling, receiving, handles>>

-----------------------------------------------------------------------------
(* The IO thread.                                                          *)

NoResponse == [call |-> NoCall, status |-> "Success"]
Idle(p) == Up(p) /\ receiving[p] = NoResponse

\* RpcServerInternal::ReceiveMessage, as the tasks ts of server s after it.
Answered(s, call, ts) ==
    IF s \in HasHandler /\ call \notin handles[s] THEN ts
    ELSE Post(ts, s, [kind |-> "Respond", call |-> call, status |-> "InternalError"])
Handled(s, call) ==
    IF s \in HasHandler THEN [handles EXCEPT ![s] = @ \cup {call}] ELSE handles

\* RpcClient::ReceiveMessage, up to the release of the lock.
Found(c, call, status) ==
    IF call \in DOMAIN remaining
    THEN [receiving EXCEPT ![c] = [call |-> call, status |-> status]]
    ELSE receiving

\* RegisterSilKitServiceImpl for an internal server: a subscription to the
\* calls of its client, or a local receiver.
RunRegister(p, c, rest) ==
    /\ tasks' = rest
    /\ callLink' = IF c = p THEN [callLink EXCEPT ![c] = @ \cup {p}] ELSE callLink
    /\ wire' = IF c = p THEN wire ELSE SendTo(wire, p, {c}, [kind |-> "Subscribe", link |-> "Call"])
    /\ UNCHANGED <<discoveryVars, clientVars, handles>>

RunAnnounce(p, svc, rest) ==
    /\ tasks' = rest
    /\ wire' = SendTo(wire, p, discoveryLink[p], [kind |-> "Created", service |-> svc])
    /\ UNCHANGED <<discoveryVars, callLink, clientVars, handles>>

\* A targeted message; to a participant that has left in the meantime it
\* throws, which the IO thread logs.
RunAnnounceAll(p, q, svcs, rest) ==
    /\ tasks' = rest
    /\ wire' = SendTo(wire, p, discoveryLink[p] \cap {q}, [kind |-> "Services", services |-> svcs])
    /\ UNCHANGED <<discoveryVars, callLink, clientVars, handles>>

\* The call goes to the local internal server at once, to the others by message.
RunCall(p, call, rest) ==
    /\ wire' = SendTo(wire, p, callLink[p] \ {p}, [kind |-> "Call", call |-> call])
    /\ tasks' = IF p \in callLink[p] THEN Answered(p, call, rest) ELSE rest
    /\ handles' = IF p \in callLink[p] THEN Handled(p, call) ELSE handles
    /\ UNCHANGED <<discoveryVars, callLink, clientVars>>

RunRespond(p, call, status, rest) ==
    LET c == Caller[call]
    IN  /\ tasks' = rest
        /\ wire' = SendTo(wire, p, {c} \ {p}, [kind |-> "Response", call |-> call, status |-> status])
        /\ receiving' = IF c = p THEN Found(p, call, status) ELSE receiving
        /\ UNCHANGED <<discoveryVars, callLink, calling, remaining, timeouts, results, handles>>

RunTask(p) ==
    /\ Idle(p) /\ tasks[p] # <<>>
    /\ LET t == Head(tasks[p])
           rest == [tasks EXCEPT ![p] = Tail(@)]
       IN  \/ t.kind = "Register" /\ RunRegister(p, t.client, rest)
           \/ t.kind = "Announce" /\ RunAnnounce(p, t.service, rest)
           \/ t.kind = "AnnounceAll" /\ RunAnnounceAll(p, t.to, t.services, rest)
           \/ t.kind = "Call" /\ RunCall(p, t.call, rest)
           \/ t.kind = "Respond" /\ RunRespond(p, t.call, t.status, rest)

\* TryAddRemoteSubscriber.
ReceiveSubscribe(p, q, m) ==
    /\ IF m.link = "Discovery"
       THEN discoveryLink' = [discoveryLink EXCEPT ![p] = @ \cup {q}] /\ UNCHANGED callLink
       ELSE callLink' = [callLink EXCEPT ![p] = @ \cup {q}] /\ UNCHANGED discoveryLink
    /\ UNCHANGED <<phase, created, known, internal, counting, numCounterparts, tasks,
                   clientVars, handles>>

ReceiveServices(p, d) ==
    /\ SetDiscovery(p, d)
    /\ UNCHANGED <<phase, created, discoveryLink, counting, callLink, clientVars, handles>>

ReceiveCall(p, call) ==
    /\ tasks' = Answered(p, call, tasks)
    /\ handles' = Handled(p, call)
    /\ UNCHANGED <<discoveryVars, callLink, clientVars>>

ReceiveResponse(p, m) ==
    /\ receiving' = Found(p, m.call, m.status)
    /\ UNCHANGED <<discoveryVars, tasks, callLink, calling, remaining, timeouts, results, handles>>

\* OnPeerShutdown: the services of q are removed, then q from the links.
ReceiveShutdown(p, q) ==
    /\ SetDiscovery(p, Forgotten(p, Discovery(p), q))
    /\ discoveryLink' = [discoveryLink EXCEPT ![p] = @ \ {q}]
    /\ callLink' = [callLink EXCEPT ![p] = @ \ {q}]
    /\ UNCHANGED <<phase, created, counting, clientVars, handles>>

Receive(p, q) ==
    /\ Idle(p) /\ wire[q][p] # <<>>
    /\ wire' = [wire EXCEPT ![q][p] = Tail(@)]
    /\ LET m == Head(wire[q][p])
       IN  \/ m.kind = "Subscribe" /\ ReceiveSubscribe(p, q, m)
           \/ m.kind = "Created" /\ ReceiveServices(p, Added(p, Discovery(p), m.service))
           \/ m.kind = "Services" /\ ReceiveServices(p, AllAdded(p, Discovery(p), m.services))
           \/ m.kind = "Call" /\ ReceiveCall(p, m.call)
           \/ m.kind = "Response" /\ ReceiveResponse(p, m)
           \/ m.kind = "PeerShutdown" /\ ReceiveShutdown(p, q)

\* Faulty variant: one return more is awaited than servers were counted.
DecrementedBelowZero(c, call) ==
    IF call \notin DOMAIN remaining THEN remaining
    ELSE IF remaining[call] <= 0 THEN Without(remaining, call)
    ELSE [remaining EXCEPT ![call] = @ - 1]

\* DecrementRemainingReturnCount, and the erasure after the last return.
Decremented(c, call) ==
    IF call \notin DOMAIN remaining THEN remaining
    ELSE IF remaining[call] <= 1 THEN Without(remaining, call)
    ELSE [remaining EXCEPT ![call] = @ - 1]

ToRpcCallStatus(status) ==
    CASE status = "Success" -> "Success"
      [] status = "InternalError" -> "InternalServerError"
      [] OTHER -> "UndefinedError"

\* The rest of ReceiveMessage, without the lock: the user's handler, then the
\* count. If a timer has erased the call in between, the iterator dangles; the
\* handler is called all the same.
FinishReceiving(c) ==
    LET r == receiving[c]
    IN  /\ Up(c) /\ r # NoResponse
        /\ receiving' = [receiving EXCEPT ![c] = NoResponse]
        /\ results' = Result(results, r.call, ToRpcCallStatus(r.status))
        /\ remaining' = Decremented(c, r.call)
        /\ UNCHANGED <<discoveryVars, tasks, wire, callLink, calling, timeouts, handles>>

\* A participant disconnects or crashes: its tasks are lost, and the end of what
\* it has not yet handed to the network.
Leave(p) ==
    /\ p \in MayLeave /\ Up(p)
    /\ phase' = [phase EXCEPT ![p] = "Left"]
    /\ \E lost \in [Participant -> 0..MaxLost] :
           /\ \A q \in Participant :
                  lost[q] <= IF q \in Peers(p) THEN Len(wire[p][q]) ELSE 0
           /\ wire' = [q \in Participant |-> [r \in Participant |->
                 IF r = p THEN <<>>
                 ELSE IF q # p \/ ~Up(r) THEN wire[q][r]
                 ELSE Append(SubSeq(wire[p][r], 1, Len(wire[p][r]) - lost[r]),
                             [kind |-> "PeerShutdown"])]]
    /\ tasks' = [tasks EXCEPT ![p] = <<>>]
    /\ handles' = [handles EXCEPT ![p] = {}]
    /\ timeouts' = [timeouts EXCEPT ![p] = {}]
    /\ calling' = [calling EXCEPT ![p] = NoCall]
    /\ receiving' = [receiving EXCEPT ![p] = NoResponse]
    /\ UNCHANGED <<created, discoveryLink, known, internal, counting, numCounterparts,
                   callLink, remaining, results>>

-----------------------------------------------------------------------------
Init ==
    /\ phase = [p \in Participant |-> IF p \in AtStart THEN "Announced" ELSE "Out"]
    /\ created = [p \in Participant |-> {}]
    /\ tasks = [p \in Participant |-> <<>>]
    /\ wire = [p \in Participant |-> [q \in Participant |-> <<>>]]
    /\ discoveryLink = [p \in Participant |-> IF p \in AtStart THEN AtStart \ {p} ELSE {}]
    /\ known = [p \in Participant |->
                   IF p \in AtStart THEN {ServiceDiscovery(q) : q \in AtStart} ELSE {}]
    /\ internal = [p \in Participant |-> {}]
    /\ callLink = [p \in Participant |-> {}]
    /\ counting = [p \in Participant |-> FALSE]
    /\ numCounterparts = [p \in Participant |-> 0]
    /\ calling = [p \in Participant |-> NoCall]
    /\ remaining = [k \in {} |-> 0]
    /\ timeouts = [p \in Participant |-> {}]
    /\ receiving = [p \in Participant |-> NoResponse]
    /\ handles = [p \in Participant |-> {}]
    /\ results = [k \in Call |-> <<>>]

Next ==
    \/ \E p \in Participant :
        \/ Join(p) \/ AnnounceDiscovery(p)
        \/ CreateRpcClient(p) \/ CountServers(p) \/ CreateRpcServer(p)
        \/ Tick(p) \/ RunTask(p) \/ FinishReceiving(p) \/ Leave(p)
        \/ \E q \in Participant \ {p} : Receive(p, q)
    \/ \E call \in Call : BeginCall(call) \/ TriggerCall(call)
    \/ \E s \in Server, call \in Call : SubmitResult(s, call)

Spec == Init /\ [][Next]_vars

\* IO threads do not rest while they have work, time advances, calls that were
\* begun and services whose creation was begun are completed.
Fairness ==
    /\ \A p \in Participant :
        /\ WF_vars(AnnounceDiscovery(p)) /\ WF_vars(CountServers(p))
        /\ WF_vars(Tick(p)) /\ WF_vars(RunTask(p)) /\ WF_vars(FinishReceiving(p))
        /\ \A q \in Participant \ {p} : WF_vars(Receive(p, q))
    /\ \A call \in Call : WF_vars(TriggerCall(call))

FairSpec == Spec /\ Fairness

\* The users of the servers answer every call that they are handed. Only the
\* calls without timeout depend on it.
UsersAnswer == \A s \in Server, call \in Call : WF_vars(SubmitResult(s, call))

-----------------------------------------------------------------------------
(* Properties.                                                             *)

\* A client that counts an internal server has it among the receivers of its
\* calls (a local one: as soon as the posted registration has run): no server
\* is announced before it has subscribed, and none stays subscribed or counted
\* without the other. So a counted server receives the call and owes a return.
CountedServersReceive ==
    \A c \in Client : Up(c) =>
        \A svc \in KnownCounterparts(c) :
            \/ svc.at \in callLink[c]
            \/ svc.at = c /\ \E i \in DOMAIN tasks[c] :
                   tasks[c][i] = [kind |-> "Register", client |-> c]

\* _numCounterparts is the number of internal servers that the discovery knows
\* for this client, however often a server was announced and whatever the order
\* of announcements, registrations and departures.
CountIsExact ==
    \A c \in Client : Up(c) /\ counting[c] =>
        numCounterparts[c] = Cardinality(KnownCounterparts(c))

\* "After the timeout occurred, no further call result events will be triggered
\* for this call": the promise of CallWithTimeout in IRpcClient.hpp.
NothingAfterTimeout ==
    [][\A k \in Call : results[k] # <<>> /\ Last(results[k]) = "Timeout"
           => results'[k] = results[k]]_vars

\* "No server matching the RpcSpec was found" (RpcDatatypes.hpp) is what a call
\* ends with only if none is known when it is made.
UnreachableIsTrue ==
    [][\A k \in Call : results[k] = <<>> /\ results'[k] = <<"ServerNotReachable">>
           => KnownCounterparts(Caller[k]) = {}]_vars

\* The user has a result of call k and the client expects no more.
Ended(k) == results[k] # <<>> /\ k \notin DOMAIN remaining

\* A call with a timeout ends, even if the servers crash or never answer.
TimedCallsEnd ==
    \A k \in Call : Timeout[k] > 0 /\ Caller[k] \notin MayLeave =>
        (Made(k) ~> Ended(k))

\* A call without timeout ends too, if the servers stay and their users answer.
CallsEnd ==
    UsersAnswer => \A k \in Call : Caller[k] \notin MayLeave =>
        (Made(k) ~> Ended(k) \/ \E s \in Server : phase[s] = "Left")

\* Discovery is complete: a client and a server find each other, whoever joined
\* or was created first, unless one of them leaves.
MatchesConnect ==
    \A c \in Client, s \in Server :
        Up(c) /\ counting[c] /\ Up(s) /\ "RpcServer" \in created[s]
            ~> RpcServerInternal(s, c) \in known[c] \/ ~Up(s) \/ ~Up(c)
=============================================================================
