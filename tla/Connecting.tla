----------------------------- MODULE Connecting -----------------------------
(***************************************************************************)
(* How a participant joins: it announces itself to the registry, connects  *)
(* to every participant that the registry knows and exchanges an           *)
(* announcement and a reply with each of them (ConnectKnownParticipants).  *)
(*                                                                         *)
(* A pair is connected directly, else remotely (the registry asks the      *)
(* known participant to connect to the joining one), else by a proxy: the  *)
(* registry relays the pair's messages. Connecting may fail or time out at *)
(* any moment, and participants may leave or crash at any moment. Sockets  *)
(* deliver in order what was sent before they were closed. The registry    *)
(* stays up, and its handling of a message is one step.                    *)
(***************************************************************************)
EXTENDS Integers, Sequences, FiniteSets, SequencesExt

CONSTANTS
    Participant,        \* names, all of the same simulation
    RemoteCapable,      \* participants with experimentalRemoteParticipantConnection
    ProxyCapable,       \* participants with registryAsFallbackProxy
    MayLeave,           \* participants that may leave or crash at any moment
    MayTimeOut,         \* participants whose waiting for a handshake may time out
    Duplicated,         \* names that a second process announces, too
    NoPeer              \* no peer

ASSUME ConnectingAssumption ==
    /\ RemoteCapable \cup ProxyCapable \cup MayLeave \cup MayTimeOut \cup Duplicated
           \subseteq Participant
    /\ NoPeer \notin {"direct", "remote", "proxy"}

Kind == {"direct", "remote", "proxy"}

VARIABLES
    phase,          \* where JoinSimulation is
    known,          \* peers of ConnectKnownParticipants
    stage,          \* PeerStage of a known participant
    timer,          \* _remoteConnectRequestTimer: "Off", "Armed" or "Expired"
    reverse,        \* RemoteConnectionManager::_connectPeers, <<target, origin>>
    peers,          \* VAsioConnection::_peers with a known name: <<kind, name>>
    named,          \* _participantNameToPeer: the kind of the peer of a name
    wire,           \* messages on the connections between participants
    toRegistry,     \* messages from a participant that the registry has to handle
    fromRegistry,   \* messages from the registry that a participant has to handle
    connected,      \* the registry's _connectedParticipants
    routes,         \* names that the registry's _participantNameToPeer has a peer for
    proxied,        \* the registry's _proxySourceToDestinations
    second          \* the second process of a name: "None", "Refused", "Gone"

joinVars == <<phase, known, stage>>
peerVars == <<peers, named>>
channelVars == <<wire, toRegistry, fromRegistry>>
registryVars == <<connected, routes, proxied, second>>
vars == <<joinVars, timer, reverse, peerVars, channelVars, registryVars>>

-----------------------------------------------------------------------------
Up(p) == phase[p] \notin {"Out", "Left"}
Announced(p) == Up(p) /\ phase[p] # "Failed"

Request(origin, target, status) ==
    [type |-> "Request", origin |-> origin, target |-> target, status |-> status]

Proxy(source, destination, payload) ==
    [type |-> "Proxy", source |-> source, destination |-> destination, payload |-> payload]

ToRegistry(p, m) == toRegistry' = [toRegistry EXCEPT ![p] = Append(@, m)]

FromRegistry(p, ms) ==
    fromRegistry' = [fromRegistry EXCEPT ![p] = IF Up(p) THEN @ \o ms ELSE @]

\* PeerStage >= WAITING_FOR_REPLY
Reached == {"WaitingForReply", "ReplyReceived"}

AllReplies(ts, st) == \A t \in ts : st[t] = "ReplyReceived"

\* UpdateStage: the phase of p after the stages of its known participants became st.
UpdateStage(p, st) ==
    IF phase[p] \notin {"Connecting", "Waiting"} THEN phase[p]
    ELSE IF \E t \in known[p] : st[t] = "Failure" THEN "Failed"
    ELSE IF phase[p] = "Connecting" /\ \E t \in known[p] : st[t] \notin Reached
    THEN "Connecting"
    ELSE IF AllReplies(known[p], st) THEN "Joined" ELSE "Waiting"

SetStage(p, t, s) ==
    LET st == [stage[p] EXCEPT ![t] = s]
    IN  /\ stage' = [stage EXCEPT ![p] = st]
        /\ phase' = [phase EXCEPT ![p] = UpdateStage(p, st)]
        /\ UNCHANGED known

\* Faulty variant: a new peer replaces the earlier ones of its name.
ReplacePeer(p, k, q) ==
    /\ peers' = [peers EXCEPT ![p] = {x \in @ : x[2] # q} \cup {<<k, q>>}]
    /\ named' = [named EXCEPT ![p][q] = k]

\* p has learned that its peer of a kind is q: SetInfo, AddPeer and
\* AssociateParticipantNameAndPeer, which keeps an earlier peer of that name.
AddPeer(p, k, q) ==
    /\ peers' = [peers EXCEPT ![p] = @ \cup {<<k, q>>}]
    /\ named' = [named EXCEPT ![p][q] = IF @ = NoPeer THEN k ELSE @]

\* Faulty variant: only the peer's own entry is erased, if it is the one found.
RemoveUnlessProxied(p, k, q) ==
    /\ peers' = [peers EXCEPT ![p] = @ \ {<<k, q>>}]
    /\ named' = [named EXCEPT ![p][q] = IF @ = "proxy" THEN @ ELSE NoPeer]

\* OnPeerShutdown at p: RemovePeerFromConnection erases the name, whichever of
\* its peers it refers to.
RemovePeer(p, k, q) ==
    /\ peers' = [peers EXCEPT ![p] = @ \ {<<k, q>>}]
    /\ named' = [named EXCEPT ![p][q] = NoPeer]

-----------------------------------------------------------------------------
(* Joining.                                                                *)

\* JoinSimulation opens the acceptors, connects to the registry and announces.
Join(p) ==
    /\ phase[p] = "Out"
    /\ phase' = [phase EXCEPT ![p] = "Announced"]
    /\ ToRegistry(p, [type |-> "Announcement"])
    /\ UNCHANGED <<known, stage, timer, reverse, peerVars, wire, fromRegistry, registryVars>>

\* WaitForRegistryHandshakeToComplete and WaitForAllReplies time out.
HandshakeTimeout(p) ==
    /\ p \in MayTimeOut /\ phase[p] \in {"Announced", "Waiting"}
    /\ phase' = [phase EXCEPT ![p] = "Failed"]
    /\ UNCHANGED <<known, stage, timer, reverse, peerVars, channelVars, registryVars>>

\* ConnectKnownParticipants::StartConnecting, on the user's thread.
StartConnecting(p) ==
    /\ phase[p] = "Accepted"
    /\ LET st == [t \in Participant |-> IF t \in known[p] THEN "Direct" ELSE "Invalid"]
       IN  /\ stage' = [stage EXCEPT ![p] = st]
           /\ phase' = [phase EXCEPT ![p] = IF known[p] = {} THEN "Joined" ELSE "Connecting"]
    /\ UNCHANGED <<known, timer, reverse, peerVars, channelVars, registryVars>>

\* Peer::OnConnectPeerSuccess
DirectSuccess(p, t) ==
    /\ Up(p) /\ stage[p][t] = "Direct" /\ Up(t)
    /\ SetStage(p, t, "WaitingForReply")
    /\ AddPeer(p, "direct", t)
    /\ wire' = wire \cup {[kind |-> "direct", from |-> p, to |-> t, payload |-> "Announcement"]}
    /\ UNCHANGED <<timer, reverse, toRegistry, fromRegistry, registryVars>>

\* TryProxyConnect, and HasFailed when it is not available.
ProxyConnect(p, t) ==
    IF {p, t} \subseteq ProxyCapable
    THEN /\ SetStage(p, t, "WaitingForReply")
         /\ AddPeer(p, "proxy", t)
         /\ ToRegistry(p, Proxy(p, t, "Announcement"))
    ELSE SetStage(p, t, "Failure") /\ UNCHANGED <<peerVars, toRegistry>>

\* Faulty variant: the proxy is used at once and the remote connection requested, too.
FailureWithoutReturn(p, t) ==
    /\ Up(p) /\ stage[p][t] = "Direct" /\ {p, t} \subseteq RemoteCapable
    /\ SetStage(p, t, "WaitingForReply")
    /\ AddPeer(p, "proxy", t)
    /\ toRegistry' = [toRegistry EXCEPT ![p] =
           @ \o <<Request(p, t, "REQUEST"), Proxy(p, t, "Announcement")>>]
    /\ UNCHANGED <<timer, reverse, wire, fromRegistry, registryVars>>

\* Peer::OnConnectPeerFailure
DirectFailure(p, t) ==
    /\ Up(p) /\ stage[p][t] = "Direct"
    /\ IF {p, t} \subseteq RemoteCapable
       THEN /\ SetStage(p, t, "RemoteConnectRequested")
            /\ timer' = [timer EXCEPT ![p][t] = "Armed"]
            /\ ToRegistry(p, Request(p, t, "REQUEST"))
            /\ UNCHANGED peerVars
       ELSE ProxyConnect(p, t) /\ UNCHANGED timer
    /\ UNCHANGED <<reverse, wire, fromRegistry, registryVars>>

\* Peer::OnTimerExpired
TimerExpired(p, t) ==
    /\ Up(p) /\ timer[p][t] = "Armed"
    /\ timer' = [timer EXCEPT ![p][t] = "Expired"]
    /\ IF stage[p][t] = "RemoteConnectRequested"
       THEN ProxyConnect(p, t)
       ELSE UNCHANGED <<joinVars, peerVars, toRegistry>>
    /\ UNCHANGED <<reverse, wire, fromRegistry, registryVars>>

\* The simulation is left, the join has failed or the process crashes.
Leave(p) ==
    /\ Up(p) /\ (p \in MayLeave \/ phase[p] = "Failed")
    /\ phase' = [phase EXCEPT ![p] = "Left"]
    /\ timer' = [timer EXCEPT ![p] = [t \in Participant |->
                     IF timer[p][t] = "Armed" THEN "Off" ELSE timer[p][t]]]
    /\ reverse' = {r \in reverse : r[1] # p}
    /\ peers' = [peers EXCEPT ![p] = {}]
    /\ named' = [named EXCEPT ![p] = [q \in Participant |-> NoPeer]]
    /\ wire' = {m \in wire : m.to # p}
    /\ ToRegistry(p, [type |-> "Shutdown"])
    /\ fromRegistry' = [fromRegistry EXCEPT ![p] = <<>>]
    /\ UNCHANGED <<known, stage, registryVars>>

-----------------------------------------------------------------------------
(* Messages between participants.                                          *)

\* What p answers q, on the same connection.
Answers(p, q, payload) ==
    CASE payload = "RemoteAnnouncement" -> <<"Announcement">>
      [] payload = "Announcement" -> <<"Reply">>
      [] OTHER -> <<>>

\* Faulty variant: a failure is ignored once the target is connecting.
OnlyRequested(p, t) == stage[p][t] = "RemoteConnectRequested"

AwaitsRemote(p, t) == stage[p][t] \in {"RemoteConnectRequested", "RemoteIsConnecting"}

\* p handles a payload that its peer of kind k has sent for q. An announcement
\* of a remote connection makes p announce itself, whatever the stage of q.
Handle(p, k, q, payload) ==
    \/ /\ payload = "RemoteAnnouncement"
       /\ IF AwaitsRemote(p, q)
          THEN SetStage(p, q, "WaitingForReply") ELSE UNCHANGED joinVars
       /\ AddPeer(p, k, q)
    \/ /\ payload = "Announcement"
       /\ AddPeer(p, k, q)
       /\ UNCHANGED joinVars
    \/ /\ payload = "Reply"
       /\ IF <<k, q>> \in peers[p] /\ stage[p][q] = "WaitingForReply"
          THEN SetStage(p, q, "ReplyReceived") ELSE UNCHANGED joinVars
       /\ UNCHANGED peerVars

OnWire(p, k, q, payloads) ==
    {[kind |-> k, from |-> p, to |-> q, payload |-> m] : m \in {x \in Range(payloads) : Up(q)}}

\* A message arrives on a direct or remote connection.
ReceiveFromPeer(p, q) == \E m \in wire :
    /\ m.to = p /\ m.from = q
    /\ Handle(p, m.kind, q, m.payload)
    /\ wire' = (wire \ {m}) \cup OnWire(p, m.kind, q, Answers(p, q, m.payload))
    /\ UNCHANGED <<timer, reverse, toRegistry, fromRegistry, registryVars>>

\* A direct or remote connection was closed by q.
PeerShutdown(p, q) == \E k \in Kind \ {"proxy"} :
    /\ <<k, q>> \in peers[p] /\ phase[q] = "Left"
    /\ \A m \in wire : ~(m.kind = k /\ m.from = q /\ m.to = p)
    /\ RemovePeer(p, k, q)
    /\ UNCHANGED <<joinVars, timer, reverse, channelVars, registryVars>>

-----------------------------------------------------------------------------
(* RemoteConnectionManager of the target t of a request of p.              *)

\* OnConnectPeerSuccess, OnRemoteConnectionSuccess. The peer is known to t by
\* its name when p has announced itself.
ReverseSuccess(t, p) ==
    /\ Up(t) /\ <<t, p>> \in reverse /\ Up(p)
    /\ reverse' = reverse \ {<<t, p>>}
    /\ wire' = wire \cup {[kind |-> "remote", from |-> t, to |-> p,
                           payload |-> "RemoteAnnouncement"]}
    /\ UNCHANGED <<joinVars, timer, peerVars, toRegistry, fromRegistry, registryVars>>

\* OnConnectPeerFailure, OnRemoteConnectionFailure
ReverseFailure(t, p) ==
    /\ Up(t) /\ <<t, p>> \in reverse
    /\ reverse' = reverse \ {<<t, p>>}
    /\ ToRegistry(t, Request(p, t, "FAILED_TO_CONNECT"))
    /\ UNCHANGED <<joinVars, timer, peerVars, wire, fromRegistry, registryVars>>

-----------------------------------------------------------------------------
(* A participant handles the first message from the registry.              *)

\* ReceiveKnownParticpants
ReceiveKnown(p, m) ==
    /\ m.type = "Known"
    /\ known' = [known EXCEPT ![p] = m.participants]
    /\ UNCHANGED <<phase, stage, timer, reverse, peerVars, wire, toRegistry>>

\* ReceiveParticipantAnnouncementReply of the registry
ReceiveAccepted(p, m) ==
    /\ m.type = "Accepted"
    /\ phase' = [phase EXCEPT ![p] = IF @ = "Announced" THEN "Accepted" ELSE @]
    /\ UNCHANGED <<known, stage, timer, reverse, peerVars, wire, toRegistry>>

\* ReceiveRemoteParticipantConnectRequest_Participant at the target
ReceiveRequest(p, m) ==
    /\ m.type = "Request" /\ m.target = p
    /\ reverse' = reverse \cup {<<p, m.origin>>}
    /\ ToRegistry(p, Request(m.origin, p, "CONNECTING"))
    /\ UNCHANGED <<joinVars, timer, peerVars, wire>>

\* ReceiveRemoteParticipantConnectRequest_Participant at the origin: the remote
\* participant is connecting, or has failed to.
ReceiveRequestStatus(p, m) ==
    /\ m.type = "Request" /\ m.origin = p
    /\ \/ /\ m.status = "CONNECTING"
          /\ IF stage[p][m.target] = "RemoteConnectRequested"
             THEN SetStage(p, m.target, "RemoteIsConnecting") ELSE UNCHANGED joinVars
          /\ UNCHANGED <<peerVars, toRegistry>>
       \/ /\ m.status = "FAILED_TO_CONNECT"
          /\ IF AwaitsRemote(p, m.target)
             THEN ProxyConnect(p, m.target)
             ELSE UNCHANGED <<joinVars, peerVars, toRegistry>>
    /\ UNCHANGED <<timer, reverse, wire>>

\* ReceiveProxyMessage at the destination: the message is handled as one of the
\* peer of that name, which is a new VAsioProxyPeer if there is none.
ReceiveProxy(p, m) ==
    /\ m.type = "Proxy" /\ m.payload # "Shutdown"
    /\ LET q == m.source
           k == IF named[p][q] = NoPeer THEN "proxy" ELSE named[p][q]
           answers == Answers(p, q, m.payload)
       IN  /\ Handle(p, k, q, m.payload)
           /\ IF k = "proxy"
              THEN /\ toRegistry' = [toRegistry EXCEPT ![p] =
                          @ \o [i \in DOMAIN answers |-> Proxy(p, q, answers[i])]]
                   /\ UNCHANGED wire
              ELSE wire' = wire \cup OnWire(p, k, q, answers) /\ UNCHANGED toRegistry
    /\ UNCHANGED <<timer, reverse>>

\* ReceiveProxyMessage with an empty payload
ReceiveProxyShutdown(p, m) ==
    /\ m.type = "Proxy" /\ m.payload = "Shutdown"
    /\ IF named[p][m.source] = NoPeer THEN UNCHANGED peerVars
       ELSE RemovePeer(p, named[p][m.source], m.source)
    /\ UNCHANGED <<joinVars, timer, reverse, wire, toRegistry>>

ReceiveFromRegistry(p) ==
    /\ Up(p) /\ fromRegistry[p] # <<>>
    /\ fromRegistry' = [fromRegistry EXCEPT ![p] = Tail(@)]
    /\ LET m == Head(fromRegistry[p])
       IN  \/ ReceiveKnown(p, m)
           \/ ReceiveAccepted(p, m)
           \/ ReceiveRequest(p, m)
           \/ ReceiveRequestStatus(p, m)
           \/ ReceiveProxy(p, m)
           \/ ReceiveProxyShutdown(p, m)
    /\ UNCHANGED registryVars

-----------------------------------------------------------------------------
(* The registry handles the first message from a participant.              *)

\* Faulty variant: a participant is announced once its join has succeeded.
KnownIfJoined(p) == {q \in connected \ {p} : phase[q] = "Joined"}

\* SendKnownParticipants
KnownTo(p) == connected \ {p}

\* VAsioRegistry::OnParticipantAnnouncement, then AssociateParticipantNameAndPeer
\* and the reply.
RegisterParticipant(p, m) ==
    /\ m.type = "Announcement"
    /\ FromRegistry(p, <<[type |-> "Known", participants |-> KnownTo(p)], [type |-> "Accepted"]>>)
    /\ connected' = connected \cup {p}
    /\ routes' = routes \cup {p}
    /\ UNCHANGED <<proxied, second>>

\* ReceiveRemoteParticipantConnectRequest_Registry
RelayRequest(p, m) ==
    /\ m.type = "Request"
    /\ LET destination == IF m.status = "REQUEST" THEN m.target ELSE m.origin
       IN  IF destination \in routes THEN FromRegistry(destination, <<m>>)
           ELSE UNCHANGED fromRegistry
    /\ UNCHANGED registryVars

\* Faulty variant: who is proxied for whom is not recorded.
NotRecorded(m) == {}

Recorded(m) == {<<m.source, m.destination>>}

\* ReceiveProxyMessage at the registry
RelayProxy(p, m) ==
    /\ m.type = "Proxy"
    /\ IF m.destination \in routes
       THEN /\ FromRegistry(m.destination, <<m>>)
            /\ proxied' = proxied \cup Recorded(m)
       ELSE UNCHANGED <<fromRegistry, proxied>>
    /\ UNCHANGED <<connected, routes, second>>

\* OnPeerShutdown of a peer of name p: SendProxyPeerShutdownNotification and
\* RemovePeerFromConnection.
PeerOfNameShutdown(p) ==
    /\ fromRegistry' = [d \in Participant |->
           IF <<p, d>> \in proxied /\ d \in routes /\ Up(d)
           THEN Append(fromRegistry[d], Proxy(p, d, "Shutdown")) ELSE fromRegistry[d]]
    /\ routes' = routes \ {p}
    /\ UNCHANGED proxied

\* and VAsioRegistry::OnPeerShutdown of the registered peer
UnregisterParticipant(p, m) ==
    /\ m.type = "Shutdown"
    /\ PeerOfNameShutdown(p)
    /\ connected' = connected \ {p}
    /\ UNCHANGED second

ReceiveAtRegistry(p) ==
    /\ toRegistry[p] # <<>>
    /\ toRegistry' = [toRegistry EXCEPT ![p] = Tail(@)]
    /\ LET m == Head(toRegistry[p])
       IN  \/ RegisterParticipant(p, m)
           \/ RelayRequest(p, m)
           \/ RelayProxy(p, m)
           \/ UnregisterParticipant(p, m)
    /\ UNCHANGED <<joinVars, timer, reverse, peerVars, wire>>

\* A second process announces the name of a registered participant: the registry
\* has set its peer's name and refuses it.
RefuseSecond(n) ==
    /\ n \in Duplicated \cap connected /\ second[n] = "None"
    /\ second' = [second EXCEPT ![n] = "Refused"]
    /\ UNCHANGED <<joinVars, timer, reverse, peerVars, channelVars, connected, routes, proxied>>

\* The refused process has closed its connection. VAsioRegistry::OnPeerShutdown
\* sees that its peer is not the registered one.
SecondShutdown(n) ==
    /\ second[n] = "Refused"
    /\ second' = [second EXCEPT ![n] = "Gone"]
    /\ PeerOfNameShutdown(n)
    /\ UNCHANGED <<joinVars, timer, reverse, peerVars, wire, toRegistry, connected>>

-----------------------------------------------------------------------------
Init ==
    LET ForAll(x) == [p \in Participant |-> x]
    IN  /\ phase = ForAll("Out")
        /\ known = ForAll({})
        /\ stage = ForAll(ForAll("Invalid"))
        /\ timer = ForAll(ForAll("Off"))
        /\ reverse = {}
        /\ peers = ForAll({})
        /\ named = ForAll(ForAll(NoPeer))
        /\ wire = {}
        /\ toRegistry = ForAll(<<>>)
        /\ fromRegistry = ForAll(<<>>)
        /\ connected = {} /\ routes = {} /\ proxied = {}
        /\ second = ForAll("None")

Next == \E p \in Participant :
    \/ Join(p) \/ HandshakeTimeout(p) \/ StartConnecting(p) \/ Leave(p)
    \/ ReceiveFromRegistry(p) \/ ReceiveAtRegistry(p)
    \/ RefuseSecond(p) \/ SecondShutdown(p)
    \/ \E q \in Participant :
        \/ DirectSuccess(p, q) \/ DirectFailure(p, q) \/ TimerExpired(p, q)
        \/ ReverseSuccess(p, q) \/ ReverseFailure(p, q)
        \/ ReceiveFromPeer(p, q) \/ PeerShutdown(p, q)

Spec == Init /\ [][Next]_vars

\* Messages are handled, connection attempts end, the timer expires, and a join
\* that has failed destroys its participant.
Fairness == \A p \in Participant :
    /\ WF_vars(StartConnecting(p)) /\ WF_vars(phase[p] = "Failed" /\ Leave(p))
    /\ WF_vars(ReceiveFromRegistry(p)) /\ WF_vars(ReceiveAtRegistry(p))
    /\ WF_vars(HandshakeTimeout(p))
    /\ \A q \in Participant :
        /\ WF_vars(DirectSuccess(p, q) \/ DirectFailure(p, q))
        /\ WF_vars(TimerExpired(p, q))
        /\ WF_vars(ReverseSuccess(p, q) \/ ReverseFailure(p, q))
        /\ WF_vars(ReceiveFromPeer(p, q)) /\ WF_vars(PeerShutdown(p, q))

FairSpec == Spec /\ Fairness

-----------------------------------------------------------------------------
(* Properties.                                                             *)

\* A second process of the name of p or q was refused and has gone.
Shadowed(p, q) == "Gone" \in {second[p], second[q]}

\* The connections of p and q that both of them know by name.
Links(p, q) == {k \in Kind : <<k, q>> \in peers[p] /\ <<k, p>> \in peers[q]}

\* When the joins of two participants have succeeded, however they were
\* interleaved, the two are connected: the later one was told of the earlier one
\* by SendKnownParticipants and has seen its reply (AllRepliesReceived). A second
\* process of one of the names can break the link again.
FullMesh == \A p, q \in Participant :
    p # q /\ phase[p] = "Joined" /\ phase[q] = "Joined" /\ ~Shadowed(p, q)
        => Links(p, q) # {}

\* The origin of a remote connection request did not wait for the target.
GaveUp(p, q) == "Expired" \in {timer[p][q], timer[q][p]}

\* The raw pointers of _participantNameToPeer refer to peers that exist; messages
\* of the registry and proxied ones are handled through them.
NamesReferToPeers == \A p, q \in Participant :
    named[p][q] # NoPeer => <<named[p][q], q>> \in peers[p]

\* A pair has one connection, unless the origin of a remote connection request
\* gave up waiting (OnTimerExpired) while the target was connecting to it.
OneLinkPerPair == \A p, q \in Participant :
    Cardinality(Links(p, q)) > 1 => GaveUp(p, q)

\* A link is only lost when one of the two leaves: proxied peers are removed by
\* an empty ProxyMessage of the registry, others by closing their socket. A
\* refused second process of a name, though, has the registry notify the
\* destinations of the first one.
LinksStay == [][\A p, q \in Participant :
    Links(p, q) # {} /\ Up(p)' /\ Up(q)' /\ ~Shadowed(p, q) => (Links(p, q) # {})']_vars

\* A participant that was asked to connect has gone after it said that it is
\* connecting, or the registry cannot tell that it failed: no event and no
\* timeout moves the origin on.
Abandoned(p) == \E t \in Participant :
    stage[p][t] = "RemoteIsConnecting" /\ (phase[t] = "Left" \/ Shadowed(p, t))

\* Every JoinSimulation returns or throws, unless it is abandoned.
JoinEnds == \A p \in Participant :
    phase[p] = "Announced" ~> phase[p] \in {"Joined", "Left"} \/ Abandoned(p)

\* A participant that has left is removed from the peers of every other one, the
\* proxied ones included, unless the pair was connected twice or the registry
\* has lost the route to one of them.
DepartedAreRemoved == \A p, q \in Participant :
    (phase[q] = "Left" /\ \E k \in Kind : <<k, q>> \in peers[p])
        ~> (phase[p] = "Left" \/ (\A k \in Kind : <<k, q>> \notin peers[p])
            \/ GaveUp(p, q) \/ Shadowed(p, q))
=============================================================================
