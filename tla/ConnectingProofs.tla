-------------------------- MODULE ConnectingProofs --------------------------
(***************************************************************************)
(* Proofs about Connecting, for any participants, capabilities and names   *)
(* that a second process announces:                                        *)
(*                                                                         *)
(* - the table of names of a participant only refers to peers that exist;  *)
(* - a link is only lost with one of the two that it connects;             *)
(* - participants whose joins have succeeded are connected;                *)
(* - two participants have one connection.                                 *)
(***************************************************************************)
EXTENDS Connecting, FiniteSetTheorems, SequenceTheorems, TLAPS

\* peers and named are functions of the participants. (Their values do not
\* matter here: what is in a message need not be known.)
TablesOK ==
    /\ peers = [p \in Participant |-> peers[p]]
    /\ named = [p \in Participant |-> [q \in Participant |-> named[p][q]]]

IInv == TablesOK /\ NamesReferToPeers

-----------------------------------------------------------------------------

\* A new peer keeps the invariant: the name refers to it or to an earlier one.
LEMMA AddKeepsIInv ==
    ASSUME IInv, NEW p \in Participant, NEW k, NEW q, AddPeer(p, k, q)
    PROVE  IInv'
<1>1. peers' = [peers EXCEPT ![p] = @ \cup {<<k, q>>}]
    BY DEF AddPeer
<1>2. named' = [named EXCEPT ![p][q] = IF named[p][q] = NoPeer THEN k ELSE named[p][q]]
    BY DEF AddPeer
<1>3. TablesOK'
    BY <1>1, <1>2 DEF IInv, TablesOK
<1>4. ASSUME NEW a \in Participant, NEW b \in Participant, named'[a][b] # NoPeer
      PROVE  <<named'[a][b], b>> \in peers'[a]
    <2>1. CASE a = p /\ b = q
        <3>1. named'[a][b] = IF named[p][q] = NoPeer THEN k ELSE named[p][q]
            BY <1>2, <2>1 DEF IInv, TablesOK
        <3>2. peers'[a] = peers[p] \cup {<<k, q>>}
            BY <1>1, <2>1 DEF IInv, TablesOK
        <3> QED BY <2>1, <3>1, <3>2 DEF IInv, NamesReferToPeers
    <2>2. CASE ~(a = p /\ b = q)
        <3>1. named'[a][b] = named[a][b]
            BY <1>2, <2>2 DEF IInv, TablesOK
        <3>2. peers[a] \subseteq peers'[a]
            BY <1>1 DEF IInv, TablesOK
        <3> QED BY <1>4, <3>1, <3>2 DEF IInv, NamesReferToPeers
    <2> QED BY <2>1, <2>2
<1> QED BY <1>3, <1>4 DEF IInv, NamesReferToPeers

\* OnPeerShutdown keeps the invariant: it erases the name with the peer.
LEMMA RemoveKeepsIInv ==
    ASSUME IInv, NEW p \in Participant, NEW k, NEW q, RemovePeer(p, k, q)
    PROVE  IInv'
<1>1. peers' = [peers EXCEPT ![p] = @ \ {<<k, q>>}]
    BY DEF RemovePeer
<1>2. named' = [named EXCEPT ![p] = [@ EXCEPT ![q] = NoPeer]]
    BY DEF RemovePeer
<1>3. TablesOK'
    BY <1>1, <1>2 DEF IInv, TablesOK
<1>4. ASSUME NEW a \in Participant, NEW b \in Participant, named'[a][b] # NoPeer
      PROVE  <<named'[a][b], b>> \in peers'[a]
    <2>1. ~(a = p /\ b = q) /\ named'[a][b] = named[a][b]
        BY <1>2, <1>4 DEF IInv, TablesOK
    <2>2. <<named[a][b], b>> \in peers[a]
        BY <1>4, <2>1 DEF IInv, NamesReferToPeers
    <2>3. CASE a = p
        <3>1. peers'[a] = peers[a] \ {<<k, q>>} /\ b # q
            BY <1>1, <2>1, <2>3 DEF IInv, TablesOK
        <3> QED BY <2>1, <2>2, <3>1
    <2>4. CASE a # p
        BY <1>1, <2>1, <2>2, <2>4 DEF IInv, TablesOK
    <2> QED BY <2>3, <2>4
<1> QED BY <1>3, <1>4 DEF IInv, NamesReferToPeers

\* So does a participant that leaves, which has no peers and no names then.
LEMMA LeaveKeepsIInv ==
    ASSUME IInv, NEW p \in Participant, Leave(p)
    PROVE  IInv'
<1>1. peers' = [peers EXCEPT ![p] = {}]
    BY DEF Leave
<1>2. named' = [named EXCEPT ![p] = [q \in Participant |-> NoPeer]]
    BY DEF Leave
<1>3. TablesOK'
    BY <1>1, <1>2 DEF IInv, TablesOK
<1>4. ASSUME NEW a \in Participant, NEW b \in Participant, named'[a][b] # NoPeer
      PROVE  <<named'[a][b], b>> \in peers'[a]
    <2>1. a # p
        BY <1>2, <1>4 DEF IInv, TablesOK
    <2>2. named'[a] = named[a] /\ peers'[a] = peers[a]
        BY <1>1, <1>2, <2>1 DEF IInv, TablesOK
    <2> QED BY <1>4, <2>2 DEF IInv, NamesReferToPeers
<1> QED BY <1>3, <1>4 DEF IInv, NamesReferToPeers

\* A step that leaves both tables alone keeps the invariant.
LEMMA UnchangedKeepsIInv == IInv /\ UNCHANGED peerVars => IInv'
BY DEF IInv, TablesOK, NamesReferToPeers, peerVars

\* A participant's steps as the origin or the target of a connection.
LEMMA ConnectingKeepsIInv ==
    ASSUME IInv, NEW p \in Participant, NEW t \in Participant,
           \/ DirectSuccess(p, t) \/ DirectFailure(p, t) \/ TimerExpired(p, t)
           \/ ReverseSuccess(p, t) \/ ReverseFailure(p, t)
    PROVE  IInv'
<1>1. ProxyConnect(p, t) => IInv'
    BY AddKeepsIInv, UnchangedKeepsIInv DEF ProxyConnect
<1>2. CASE DirectSuccess(p, t)
    BY <1>2, AddKeepsIInv DEF DirectSuccess
<1>3. CASE DirectFailure(p, t)
    BY <1>1, <1>3, UnchangedKeepsIInv DEF DirectFailure
<1>4. CASE TimerExpired(p, t)
    BY <1>1, <1>4, UnchangedKeepsIInv DEF TimerExpired, peerVars
<1>5. CASE ReverseSuccess(p, t)
    BY <1>5, UnchangedKeepsIInv DEF ReverseSuccess
<1>6. CASE ReverseFailure(p, t)
    BY <1>6, UnchangedKeepsIInv DEF ReverseFailure
<1> QED BY <1>2, <1>3, <1>4, <1>5, <1>6

\* Handling a message of a peer keeps the invariant, whoever it claims to be.
LEMMA HandleKeepsIInv ==
    ASSUME IInv, NEW p \in Participant, NEW k, NEW q, NEW payload, Handle(p, k, q, payload)
    PROVE  IInv'
BY AddKeepsIInv, UnchangedKeepsIInv DEF Handle

\* So does handling a message of the registry.
LEMMA FromRegistryKeepsIInv ==
    ASSUME IInv, NEW p \in Participant, ReceiveFromRegistry(p)
    PROVE  IInv'
<1> DEFINE m == Head(fromRegistry[p])
<1>1. \/ ReceiveKnown(p, m) \/ ReceiveAccepted(p, m) \/ ReceiveRequest(p, m)
      \/ ReceiveRequestStatus(p, m) \/ ReceiveProxy(p, m) \/ ReceiveProxyShutdown(p, m)
    BY DEF ReceiveFromRegistry
<1> HIDE DEF m
<1>2. CASE ReceiveKnown(p, m) \/ ReceiveAccepted(p, m) \/ ReceiveRequest(p, m)
    BY <1>2, UnchangedKeepsIInv DEF ReceiveKnown, ReceiveAccepted, ReceiveRequest
<1>3. CASE ReceiveRequestStatus(p, m)
    <2>1. ProxyConnect(p, m.target) => IInv'
        BY AddKeepsIInv, UnchangedKeepsIInv DEF ProxyConnect
    <2> QED BY <1>3, <2>1, UnchangedKeepsIInv DEF ReceiveRequestStatus
<1>4. CASE ReceiveProxy(p, m)
    BY <1>4, HandleKeepsIInv DEF ReceiveProxy
<1>5. CASE ReceiveProxyShutdown(p, m)
    BY <1>5, RemoveKeepsIInv, UnchangedKeepsIInv DEF ReceiveProxyShutdown
<1> QED BY <1>1, <1>2, <1>3, <1>4, <1>5

\* Every step keeps the invariant.
LEMMA NextKeepsIInv == IInv /\ [Next]_vars => IInv'
<1> SUFFICES ASSUME IInv, [Next]_vars PROVE IInv'
    OBVIOUS
<1>1. ASSUME NEW p \in Participant,
             \/ Join(p) \/ HandshakeTimeout(p) \/ StartConnecting(p)
             \/ ReceiveAtRegistry(p) \/ RefuseSecond(p) \/ SecondShutdown(p)
      PROVE  IInv'
    BY <1>1, UnchangedKeepsIInv
       DEF Join, HandshakeTimeout, StartConnecting, ReceiveAtRegistry, RefuseSecond,
           SecondShutdown
<1>2. ASSUME NEW p \in Participant, Leave(p) PROVE IInv'
    BY <1>2, LeaveKeepsIInv
<1>3. ASSUME NEW p \in Participant, ReceiveFromRegistry(p) PROVE IInv'
    BY <1>3, FromRegistryKeepsIInv
<1>4. ASSUME NEW p \in Participant, NEW q \in Participant,
             \/ DirectSuccess(p, q) \/ DirectFailure(p, q) \/ TimerExpired(p, q)
             \/ ReverseSuccess(p, q) \/ ReverseFailure(p, q)
      PROVE  IInv'
    BY <1>4, ConnectingKeepsIInv
<1>5. ASSUME NEW p \in Participant, NEW q \in Participant, ReceiveFromPeer(p, q)
      PROVE  IInv'
    BY <1>5, HandleKeepsIInv DEF ReceiveFromPeer
<1>6. ASSUME NEW p \in Participant, NEW q \in Participant, PeerShutdown(p, q)
      PROVE  IInv'
    BY <1>6, RemoveKeepsIInv DEF PeerShutdown
<1>7. CASE UNCHANGED vars
    BY <1>7, UnchangedKeepsIInv DEF vars
<1> QED BY <1>1, <1>2, <1>3, <1>4, <1>5, <1>6, <1>7 DEF Next

\* At first there are no peers and no names.
LEMMA InitIInv == Init => IInv
BY DEF Init, IInv, TablesOK, NamesReferToPeers

\* The raw pointers that FindPeerByName returns from _participantNameToPeer are
\* those of peers in _peers, for any participants, in every interleaving of
\* connecting, proxying, leaving and refusing, whatever messages arrive.
THEOREM NamesAlwaysReferToPeers == Spec => []NamesReferToPeers
<1>1. IInv => NamesReferToPeers
    BY DEF IInv
<1> QED BY <1>1, InitIInv, NextKeepsIInv, PTL DEF Spec

-----------------------------------------------------------------------------
(* Sequences of messages.                                                  *)

\* Appending adds the appended elements and keeps the first one.
LEMMA ConcatFacts ==
    ASSUME NEW S, NEW s \in Seq(S), NEW u \in Seq(S)
    PROVE  /\ s \o u \in Seq(S)
           /\ Range(s \o u) = Range(s) \cup Range(u)
           /\ s # <<>> => s \o u # <<>> /\ Head(s \o u) = Head(s)
<1>1. s \o u \in Seq(S) /\ Len(s \o u) = Len(s) + Len(u)
    OBVIOUS
<1>2. \A i \in DOMAIN s : i \in DOMAIN (s \o u) /\ (s \o u)[i] = s[i]
    OBVIOUS
<1>3. \A i \in DOMAIN u : Len(s) + i \in DOMAIN (s \o u) /\ (s \o u)[Len(s) + i] = u[i]
    OBVIOUS
<1>4. \A i \in DOMAIN (s \o u) : i \in DOMAIN s \/ (i - Len(s) \in DOMAIN u /\ i = Len(s) + (i - Len(s)))
    BY <1>1
<1>5. Range(s) \cup Range(u) \subseteq Range(s \o u)
    BY <1>2, <1>3 DEF Range
<1>6. Range(s \o u) \subseteq Range(s) \cup Range(u)
    BY <1>2, <1>3, <1>4 DEF Range
<1> QED BY <1>1, <1>5, <1>6

\* Appending one element.
LEMMA AppendFacts ==
    ASSUME NEW S, NEW s \in Seq(S), NEW x \in S
    PROVE  /\ Append(s, x) \in Seq(S)
           /\ Range(Append(s, x)) = Range(s) \cup {x}
           /\ \A i \in DOMAIN Append(s, x) :
                  \/ i \in DOMAIN s /\ Append(s, x)[i] = s[i]
                  \/ i = Len(s) + 1 /\ Append(s, x)[i] = x
<1>1. \A i \in DOMAIN s : i \in DOMAIN Append(s, x) /\ Append(s, x)[i] = s[i]
    OBVIOUS
<1>2. Len(s) + 1 \in DOMAIN Append(s, x) /\ Append(s, x)[Len(s) + 1] = x
    OBVIOUS
<1>3. \A i \in DOMAIN Append(s, x) : i \in DOMAIN s \/ i = Len(s) + 1
    OBVIOUS
<1> QED BY <1>1, <1>2, <1>3 DEF Range

\* Taking the first element.
LEMMA TailFacts ==
    ASSUME NEW S, NEW s \in Seq(S), s # <<>>
    PROVE  /\ Tail(s) \in Seq(S) /\ Head(s) \in S
           /\ Head(s) \in Range(s)
           /\ Range(Tail(s)) \subseteq Range(s) /\ Range(s) = {Head(s)} \cup Range(Tail(s))
           /\ \A i \in DOMAIN Tail(s) : i + 1 \in DOMAIN s /\ i + 1 # 1 /\ Tail(s)[i] = s[i + 1]
<1>1. Head(s) = s[1] /\ 1 \in DOMAIN s /\ Tail(s) \in Seq(S) /\ Len(Tail(s)) = Len(s) - 1
    OBVIOUS
<1>2. \A i \in DOMAIN Tail(s) : i + 1 \in DOMAIN s /\ i + 1 # 1 /\ Tail(s)[i] = s[i + 1]
    OBVIOUS
<1>3. \A i \in DOMAIN s : i = 1 \/ (i - 1 \in DOMAIN Tail(s) /\ s[i] = Tail(s)[i - 1])
    OBVIOUS
<1>4. Head(s) \in S /\ Head(s) \in Range(s)
    BY <1>1 DEF Range
<1>5. Range(Tail(s)) \subseteq Range(s)
    BY <1>2 DEF Range
<1>6. Range(s) \subseteq {Head(s)} \cup Range(Tail(s))
    BY <1>1, <1>3 DEF Range
<1> QED BY <1>1, <1>2, <1>4, <1>5, <1>6

\* Which is none of those that it may be taken for.
LEMMA TailIsShorter ==
    ASSUME NEW S, NEW s \in Seq(S), s # <<>>
    PROVE  Tail(s) # s /\ \A x \in S : Append(s, x) # Tail(s)
<1>1. Len(s) \in Nat /\ Len(Tail(s)) = Len(s) - 1
    OBVIOUS
<1>2. \A x \in S : Len(Append(s, x)) = Len(s) + 1
    OBVIOUS
<1>3. Tail(s) # s
    <2>1. SUFFICES ASSUME Tail(s) = s PROVE FALSE
        OBVIOUS
    <2>2. Len(Tail(s)) = Len(s)
        BY <2>1, Zenon
    <2> QED BY <1>1, <2>2
<1>4. ASSUME NEW x \in S PROVE Append(s, x) # Tail(s)
    <2>1. SUFFICES ASSUME Append(s, x) = Tail(s) PROVE FALSE
        OBVIOUS
    <2>2. Len(Append(s, x)) = Len(Tail(s))
        BY <2>1, Zenon
    <2> QED BY <1>1, <1>2, <2>2
<1> QED BY <1>3, <1>4

-----------------------------------------------------------------------------
(* The values of the variables.                                            *)

Phase == {"Out", "Announced", "Accepted", "Connecting", "Waiting", "Joined", "Failed", "Left"}

Stage == {"Invalid", "Direct", "RemoteConnectRequested", "RemoteIsConnecting",
          "WaitingForReply", "ReplyReceived", "Failure"}

RequestMessage ==
    [type : {"Request"}, origin : Participant, target : Participant,
     status : {"REQUEST", "CONNECTING", "FAILED_TO_CONNECT"}]

ProxyMessage(payloads) ==
    [type : {"Proxy"}, source : Participant, destination : Participant, payload : payloads]

\* What a participant sends to the registry; the shutdown stands for the closed connection.
Sent == [type : {"Announcement", "Shutdown"}] \cup RequestMessage
            \cup ProxyMessage({"Announcement", "Reply"})

\* What the registry sends to a participant.
Delivered == [type : {"Accepted"}] \cup [type : {"Known"}, participants : SUBSET Participant]
                 \cup RequestMessage \cup ProxyMessage({"Announcement", "Reply", "Shutdown"})

WireMessage ==
    [kind : {"direct", "remote"}, from : Participant, to : Participant,
     payload : {"RemoteAnnouncement", "Announcement", "Reply"}]

JoinTyped ==
    /\ phase \in [Participant -> Phase]
    /\ known \in [Participant -> SUBSET Participant]
    /\ stage \in [Participant -> [Participant -> Stage]]

RemoteTyped ==
    /\ timer \in [Participant -> [Participant -> {"Off", "Armed", "Expired"}]]
    /\ reverse \subseteq Participant \X Participant

PeersTyped ==
    /\ peers \in [Participant -> SUBSET (Kind \X Participant)]
    /\ named \in [Participant -> [Participant -> Kind \cup {NoPeer}]]

ToTyped == toRegistry \in [Participant -> Seq(Sent)]

FromTyped == fromRegistry \in [Participant -> Seq(Delivered)]

RegistryTyped ==
    /\ connected \subseteq Participant /\ routes \subseteq Participant
    /\ proxied \subseteq Participant \X Participant
    /\ second \in [Participant -> {"None", "Refused", "Gone"}]

Typed ==
    /\ JoinTyped /\ RemoteTyped /\ PeersTyped /\ wire \subseteq WireMessage
    /\ ToTyped /\ FromTyped /\ RegistryTyped

\* The values of the phases that the stages move.
LEMMA UpdateStageFacts ==
    ASSUME JoinTyped, NEW p \in Participant, NEW st \in [Participant -> Stage]
    PROVE  /\ UpdateStage(p, st) \in Phase
           /\ phase[p] \notin {"Connecting", "Waiting"} => UpdateStage(p, st) = phase[p]
           /\ phase[p] \in {"Connecting", "Waiting"}
                  => UpdateStage(p, st) \in {"Connecting", "Waiting", "Joined", "Failed"}
           /\ UpdateStage(p, st) = "Joined"
                  => phase[p] = "Joined" \/ \A t \in known[p] : st[t] = "ReplyReceived"
BY DEF UpdateStage, AllReplies, Phase, JoinTyped

\* SetStage changes one stage, and the phase with it.
LEMMA SetStageFacts ==
    ASSUME JoinTyped, NEW p \in Participant, NEW t \in Participant, NEW s \in Stage,
           SetStage(p, t, s)
    PROVE  /\ JoinTyped' /\ known' = known
           /\ \A a \in Participant : a # p => phase'[a] = phase[a] /\ stage'[a] = stage[a]
           /\ stage'[p][t] = s /\ \A b \in Participant \ {t} : stage'[p][b] = stage[p][b]
           /\ phase[p] \notin {"Connecting", "Waiting"} => phase'[p] = phase[p]
           /\ phase[p] \in {"Connecting", "Waiting"}
                  => phase'[p] \in {"Connecting", "Waiting", "Joined", "Failed"}
           /\ phase'[p] = "Joined"
                  => phase[p] = "Joined" \/ \A u \in known[p] : stage'[p][u] = "ReplyReceived"
<1> DEFINE st == [stage[p] EXCEPT ![t] = s]
<1>1. st \in [Participant -> Stage] /\ st[t] = s /\ \A b \in Participant \ {t} : st[b] = stage[p][b]
    BY DEF JoinTyped
<1>2. /\ stage' = [stage EXCEPT ![p] = st]
      /\ phase' = [phase EXCEPT ![p] = UpdateStage(p, st)]
      /\ known' = known
    BY DEF SetStage
<1> HIDE DEF st
<1>3. UpdateStage(p, st) \in Phase
    BY <1>1, UpdateStageFacts
<1>4. JoinTyped'
    BY <1>1, <1>2, <1>3 DEF JoinTyped
<1>5. stage'[p] = st /\ phase'[p] = UpdateStage(p, st)
    BY <1>2 DEF JoinTyped
<1>6. \A a \in Participant : a # p => phase'[a] = phase[a] /\ stage'[a] = stage[a]
    BY <1>2 DEF JoinTyped
<1> QED BY <1>1, <1>2, <1>4, <1>5, <1>6, UpdateStageFacts

\* AddPeer adds one peer, and its name if there is none.
LEMMA AddPeerFacts ==
    ASSUME PeersTyped, NEW p \in Participant, NEW k \in Kind, NEW q \in Participant,
           AddPeer(p, k, q)
    PROVE  /\ PeersTyped'
           /\ peers'[p] = peers[p] \cup {<<k, q>>}
           /\ \A a \in Participant : a # p => peers'[a] = peers[a] /\ named'[a] = named[a]
<1>1. /\ peers' = [peers EXCEPT ![p] = peers[p] \cup {<<k, q>>}]
      /\ named' = [named EXCEPT ![p] = [named[p] EXCEPT ![q] = IF named[p][q] = NoPeer THEN k ELSE named[p][q]]]
    BY DEF AddPeer, PeersTyped
<1>2. peers[p] \cup {<<k, q>>} \in SUBSET (Kind \X Participant)
    BY DEF PeersTyped
<1>3. [named[p] EXCEPT ![q] = IF named[p][q] = NoPeer THEN k ELSE named[p][q]]
          \in [Participant -> Kind \cup {NoPeer}]
    BY DEF PeersTyped
<1> QED BY <1>1, <1>2, <1>3 DEF PeersTyped

\* RemovePeer removes one peer.
LEMMA RemovePeerFacts ==
    ASSUME PeersTyped, NEW p \in Participant, NEW k \in Kind, NEW q \in Participant,
           RemovePeer(p, k, q)
    PROVE  /\ PeersTyped'
           /\ peers'[p] = peers[p] \ {<<k, q>>}
           /\ \A a \in Participant : a # p => peers'[a] = peers[a] /\ named'[a] = named[a]
<1>1. /\ peers' = [peers EXCEPT ![p] = peers[p] \ {<<k, q>>}]
      /\ named' = [named EXCEPT ![p] = [named[p] EXCEPT ![q] = NoPeer]]
    BY DEF RemovePeer, PeersTyped
<1> QED BY <1>1 DEF PeersTyped

\* A message for the registry is appended to those of its sender.
LEMMA ToRegistryFacts ==
    ASSUME ToTyped, NEW p \in Participant, NEW m \in Sent, ToRegistry(p, m)
    PROVE  /\ ToTyped'
           /\ toRegistry'[p] = Append(toRegistry[p], m)
           /\ Range(toRegistry'[p]) = Range(toRegistry[p]) \cup {m}
           /\ \A a \in Participant : a # p => toRegistry'[a] = toRegistry[a]
<1>1. toRegistry' = [toRegistry EXCEPT ![p] = Append(toRegistry[p], m)]
    BY DEF ToRegistry, ToTyped
<1>2. /\ Append(toRegistry[p], m) \in Seq(Sent)
      /\ Range(Append(toRegistry[p], m)) = Range(toRegistry[p]) \cup {m}
    BY AppendFacts DEF ToTyped
<1> QED BY <1>1, <1>2 DEF ToTyped

\* Messages of the registry are appended to those for a participant that is up.
LEMMA FromRegistryFacts ==
    ASSUME FromTyped, NEW p \in Participant, NEW ms \in Seq(Delivered), FromRegistry(p, ms)
    PROVE  /\ FromTyped'
           /\ fromRegistry'[p] = IF Up(p) THEN fromRegistry[p] \o ms ELSE fromRegistry[p]
           /\ Range(fromRegistry'[p])
                  = IF Up(p) THEN Range(fromRegistry[p]) \cup Range(ms) ELSE Range(fromRegistry[p])
           /\ \A a \in Participant : a # p => fromRegistry'[a] = fromRegistry[a]
<1> DEFINE s == IF Up(p) THEN fromRegistry[p] \o ms ELSE fromRegistry[p]
<1>1. fromRegistry' = [fromRegistry EXCEPT ![p] = s]
    BY DEF FromRegistry, FromTyped
<1>2. fromRegistry[p] \in Seq(Delivered)
    BY DEF FromTyped
<1>3. /\ fromRegistry[p] \o ms \in Seq(Delivered)
      /\ Range(fromRegistry[p] \o ms) = Range(fromRegistry[p]) \cup Range(ms)
    BY <1>2, ConcatFacts
<1>4. s \in Seq(Delivered)
    BY <1>2, <1>3
<1>5. FromTyped' /\ fromRegistry'[p] = s /\ \A a \in Participant : a # p => fromRegistry'[a] = fromRegistry[a]
    BY <1>1, <1>4 DEF FromTyped
<1> QED BY <1>3, <1>5

\* TryProxyConnect: the stage, and if the proxy is available the peer and the message.
LEMMA ProxyConnectFacts ==
    ASSUME Typed, NEW p \in Participant, NEW t \in Participant, ProxyConnect(p, t)
    PROVE  /\ JoinTyped' /\ PeersTyped' /\ ToTyped'
           /\ \/ /\ SetStage(p, t, "WaitingForReply") /\ AddPeer(p, "proxy", t)
                 /\ ToRegistry(p, Proxy(p, t, "Announcement"))
              \/ SetStage(p, t, "Failure") /\ UNCHANGED <<peerVars, toRegistry>>
           /\ Proxy(p, t, "Announcement") \in Sent
<1>1. Proxy(p, t, "Announcement") \in Sent
    BY DEF Proxy, Sent, ProxyMessage
<1>2. CASE {p, t} \subseteq ProxyCapable
    <2>1. /\ SetStage(p, t, "WaitingForReply") /\ AddPeer(p, "proxy", t)
          /\ ToRegistry(p, Proxy(p, t, "Announcement"))
        BY <1>2 DEF ProxyConnect
    <2>2. JoinTyped'
        BY <2>1, SetStageFacts DEF Typed, Stage
    <2>3. PeersTyped'
        BY <2>1, AddPeerFacts DEF Typed, Kind
    <2>4. ToTyped'
        BY <1>1, <2>1, ToRegistryFacts DEF Typed
    <2> QED BY <1>1, <2>1, <2>2, <2>3, <2>4
<1>3. CASE ~({p, t} \subseteq ProxyCapable)
    <2>1. SetStage(p, t, "Failure") /\ UNCHANGED <<peerVars, toRegistry>>
        BY <1>3 DEF ProxyConnect
    <2>2. JoinTyped'
        BY <2>1, SetStageFacts DEF Typed, Stage
    <2> QED BY <1>1, <2>1, <2>2 DEF Typed, PeersTyped, ToTyped, peerVars
<1> QED BY <1>2, <1>3

\* What is answered, and to whom it is sent.
LEMMA AnswersFacts ==
    ASSUME NEW p \in Participant, NEW q \in Participant, NEW payload
    PROVE  \/ payload = "RemoteAnnouncement" /\ Answers(p, q, payload) = <<"Announcement">>
           \/ payload = "Announcement" /\ Answers(p, q, payload) = <<"Reply">>
           \/ payload \notin {"RemoteAnnouncement", "Announcement"} /\ Answers(p, q, payload) = <<>>
BY DEF Answers

LEMMA OnWireFacts ==
    ASSUME NEW p \in Participant, NEW k, NEW q \in Participant, NEW payload
    PROVE  \A m \in OnWire(p, k, q, Answers(p, q, payload)) :
               /\ Up(q)
               /\ \/ /\ payload = "RemoteAnnouncement"
                     /\ m = [kind |-> k, from |-> p, to |-> q, payload |-> "Announcement"]
                  \/ /\ payload = "Announcement"
                     /\ m = [kind |-> k, from |-> p, to |-> q, payload |-> "Reply"]
<1>1. Range(<<"Announcement">>) = {"Announcement"} /\ Range(<<"Reply">>) = {"Reply"} /\ Range(<<>>) = {}
    BY DEF Range
<1>2. \/ payload = "RemoteAnnouncement" /\ Range(Answers(p, q, payload)) = {"Announcement"}
      \/ payload = "Announcement" /\ Range(Answers(p, q, payload)) = {"Reply"}
      \/ Range(Answers(p, q, payload)) = {}
    BY <1>1, AnswersFacts
<1> QED BY <1>2 DEF OnWire

\* Handling a payload changes the stage and the peers of the two.
LEMMA HandleFacts ==
    ASSUME JoinTyped, PeersTyped, NEW p \in Participant, NEW k \in Kind, NEW q \in Participant,
           NEW payload, Handle(p, k, q, payload)
    PROVE  /\ JoinTyped' /\ PeersTyped'
           /\ \/ /\ payload \in {"RemoteAnnouncement", "Announcement"}
                 /\ AddPeer(p, k, q)
                 /\ \/ UNCHANGED joinVars
                    \/ /\ payload = "RemoteAnnouncement" /\ AwaitsRemote(p, q)
                       /\ SetStage(p, q, "WaitingForReply")
              \/ /\ payload = "Reply" /\ UNCHANGED peerVars
                 /\ \/ UNCHANGED joinVars
                    \/ /\ <<k, q>> \in peers[p] /\ stage[p][q] = "WaitingForReply"
                       /\ SetStage(p, q, "ReplyReceived")
<1>1. \/ /\ payload \in {"RemoteAnnouncement", "Announcement"}
         /\ AddPeer(p, k, q)
         /\ \/ UNCHANGED joinVars
            \/ /\ payload = "RemoteAnnouncement" /\ AwaitsRemote(p, q)
               /\ SetStage(p, q, "WaitingForReply")
      \/ /\ payload = "Reply" /\ UNCHANGED peerVars
         /\ \/ UNCHANGED joinVars
            \/ /\ <<k, q>> \in peers[p] /\ stage[p][q] = "WaitingForReply"
               /\ SetStage(p, q, "ReplyReceived")
    BY DEF Handle
<1>2. AddPeer(p, k, q) => PeersTyped'
    BY AddPeerFacts
<1>3. SetStage(p, q, "WaitingForReply") \/ SetStage(p, q, "ReplyReceived") => JoinTyped'
    BY SetStageFacts DEF Stage
<1>4. UNCHANGED joinVars => JoinTyped'
    BY DEF joinVars, JoinTyped
<1>5. UNCHANGED peerVars => PeersTyped'
    BY DEF peerVars, PeersTyped
<1> QED BY <1>1, <1>2, <1>3, <1>4, <1>5

\* A participant takes its first message from the registry.
LEMMA FromHeadFacts ==
    ASSUME FromTyped, NEW p \in Participant, fromRegistry[p] # <<>>,
           fromRegistry' = [fromRegistry EXCEPT ![p] = Tail(@)]
    PROVE  /\ FromTyped' /\ Head(fromRegistry[p]) \in Delivered
           /\ fromRegistry'[p] = Tail(fromRegistry[p])
           /\ Range(fromRegistry[p]) = {Head(fromRegistry[p])} \cup Range(fromRegistry'[p])
           /\ \A a \in Participant : a # p => fromRegistry'[a] = fromRegistry[a]
<1>1. fromRegistry[p] \in Seq(Delivered)
    BY DEF FromTyped
<1>2. /\ Tail(fromRegistry[p]) \in Seq(Delivered) /\ Head(fromRegistry[p]) \in Delivered
      /\ Range(fromRegistry[p]) = {Head(fromRegistry[p])} \cup Range(Tail(fromRegistry[p]))
    BY <1>1, TailFacts
<1> QED BY <1>2 DEF FromTyped

\* The registry takes the first message of a participant.
LEMMA ToHeadFacts ==
    ASSUME ToTyped, NEW p \in Participant, toRegistry[p] # <<>>,
           toRegistry' = [toRegistry EXCEPT ![p] = Tail(@)]
    PROVE  /\ ToTyped' /\ Head(toRegistry[p]) \in Sent
           /\ toRegistry'[p] = Tail(toRegistry[p])
           /\ Range(toRegistry[p]) = {Head(toRegistry[p])} \cup Range(toRegistry'[p])
           /\ \A a \in Participant : a # p => toRegistry'[a] = toRegistry[a]
<1>1. toRegistry[p] \in Seq(Sent)
    BY DEF ToTyped
<1>2. /\ Tail(toRegistry[p]) \in Seq(Sent) /\ Head(toRegistry[p]) \in Sent
      /\ Range(toRegistry[p]) = {Head(toRegistry[p])} \cup Range(Tail(toRegistry[p]))
    BY <1>1, TailFacts
<1> QED BY <1>2 DEF ToTyped

\* The fields of the messages.
LEMMA MessageFields ==
    /\ \A m \in Sent \cup Delivered :
           /\ m.type = "Request" => m \in RequestMessage
           /\ m.type = "Proxy" => m \in ProxyMessage({"Announcement", "Reply", "Shutdown"})
           /\ m.type = "Known" => m.participants \in SUBSET Participant
           /\ m.type \in {"Announcement", "Shutdown", "Request", "Proxy", "Known", "Accepted"}
    /\ \A m \in Sent : m.type = "Proxy" => m \in ProxyMessage({"Announcement", "Reply"})
    /\ RequestMessage \subseteq Sent \cap Delivered
    /\ ProxyMessage({"Announcement", "Reply"}) \subseteq Sent
    /\ ProxyMessage({"Announcement", "Reply", "Shutdown"}) \subseteq Delivered
BY DEF Sent, Delivered, RequestMessage, ProxyMessage

\* What ReceiveProxy does with the message of a peer of kind k.
ProxyHandled(p, m, k) ==
    /\ k = IF named[p][m.source] = NoPeer THEN "proxy" ELSE named[p][m.source]
    /\ m.source \in Participant /\ m.payload \in {"Announcement", "Reply"}
    /\ Handle(p, k, m.source, m.payload)
    /\ UNCHANGED <<timer, reverse>>
    /\ \/ /\ k = "proxy" /\ m.payload = "Announcement" /\ UNCHANGED wire
          /\ Proxy(p, m.source, "Reply") \in Sent
          /\ ToRegistry(p, Proxy(p, m.source, "Reply"))
       \/ m.payload # "Announcement" /\ UNCHANGED <<wire, toRegistry>>
       \/ /\ k # "proxy" /\ m.payload = "Announcement" /\ UNCHANGED toRegistry
          /\ wire' = wire \cup OnWire(p, k, m.source, Answers(p, m.source, "Announcement"))

\* A proxied announcement or reply is handled as one of the peer of that name; a
\* reply goes back the same way.
LEMMA ReceiveProxyFacts ==
    ASSUME Typed, NEW p \in Participant,
           NEW m \in ProxyMessage({"Announcement", "Reply", "Shutdown"}), ReceiveProxy(p, m)
    PROVE  \E k \in Kind : ProxyHandled(p, m, k)
<1> DEFINE q == m.source
           k == IF named[p][q] = NoPeer THEN "proxy" ELSE named[p][q]
           answers == Answers(p, q, m.payload)
           sent == [i \in DOMAIN answers |-> Proxy(p, q, answers[i])]
<1>1. q \in Participant /\ m.payload \in {"Announcement", "Reply"}
    BY DEF ProxyMessage, ReceiveProxy
<1>2. k \in Kind
    BY <1>1, ConnectingAssumption DEF Typed, PeersTyped, Kind
<1>3. /\ Handle(p, k, q, m.payload)
      /\ IF k = "proxy"
         THEN toRegistry' = [toRegistry EXCEPT ![p] = @ \o sent] /\ UNCHANGED wire
         ELSE wire' = wire \cup OnWire(p, k, q, answers) /\ UNCHANGED toRegistry
      /\ UNCHANGED <<timer, reverse>>
    BY DEF ReceiveProxy
<1>4. toRegistry[p] \in Seq(Sent) /\ DOMAIN toRegistry = Participant
    BY DEF Typed, ToTyped
<1>5. CASE m.payload = "Announcement"
    <2>1. answers = <<"Reply">>
        BY <1>1, <1>5, AnswersFacts
    <2>2. sent = <<Proxy(p, q, "Reply")>>
        <3>1. DOMAIN sent = 1..1 /\ sent[1] = Proxy(p, q, "Reply")
            BY <2>1
        <3> QED BY <3>1, <2>1
    <2>3. Proxy(p, q, "Reply") \in Sent
        BY <1>1 DEF Proxy, Sent, ProxyMessage
    <2>4. toRegistry[p] \o sent = Append(toRegistry[p], Proxy(p, q, "Reply"))
        BY <1>4, <2>2, <2>3, AppendIsConcat
    <2>5. k = "proxy" => ToRegistry(p, Proxy(p, q, "Reply"))
        BY <1>3, <2>4 DEF ToRegistry, Typed, ToTyped
    <2> QED BY <1>1, <1>2, <1>3, <1>5, <2>3, <2>5 DEF ProxyHandled
<1>6. CASE m.payload = "Reply"
    <2>1. answers = <<>>
        BY <1>1, <1>6, AnswersFacts
    <2>2. sent = <<>>
        BY <2>1
    <2>3. toRegistry[p] \o sent = toRegistry[p]
        BY <1>4, <2>2
    <2>4. [toRegistry EXCEPT ![p] = toRegistry[p]] = toRegistry
        BY <1>4 DEF Typed, ToTyped
    <2>5. k = "proxy" => UNCHANGED <<wire, toRegistry>>
        BY <1>3, <2>3, <2>4
    <2>6. OnWire(p, k, q, answers) = {}
        BY <1>1, <1>6, <2>1, OnWireFacts
    <2>7. k # "proxy" => UNCHANGED <<wire, toRegistry>>
        BY <1>3, <2>6
    <2> QED BY <1>1, <1>2, <1>3, <1>6, <2>5, <2>7 DEF ProxyHandled
<1> QED BY <1>1, <1>5, <1>6

\* What a step leaves alone keeps its values.
LEMMA TypedUnchanged ==
    /\ JoinTyped /\ UNCHANGED joinVars => JoinTyped'
    /\ RemoteTyped /\ UNCHANGED <<timer, reverse>> => RemoteTyped'
    /\ PeersTyped /\ UNCHANGED peerVars => PeersTyped'
    /\ ToTyped /\ UNCHANGED toRegistry => ToTyped'
    /\ FromTyped /\ UNCHANGED fromRegistry => FromTyped'
    /\ RegistryTyped /\ UNCHANGED registryVars => RegistryTyped'
BY DEF JoinTyped, RemoteTyped, PeersTyped, ToTyped, FromTyped, RegistryTyped, joinVars, peerVars,
       registryVars

\* The steps of JoinSimulation and the end of a participant.
LEMMA JoinTypes ==
    ASSUME Typed, NEW p \in Participant,
           Join(p) \/ HandshakeTimeout(p) \/ StartConnecting(p)
    PROVE  Typed'
<1>1. CASE Join(p)
    <2>1. [type |-> "Announcement"] \in Sent
        BY DEF Sent
    <2>2. ToTyped'
        BY <1>1, <2>1, ToRegistryFacts DEF Join, Typed
    <2>3. JoinTyped'
        BY <1>1 DEF Join, Typed, JoinTyped, Phase
    <2> QED BY <1>1, <2>2, <2>3, TypedUnchanged DEF Join, Typed
<1>2. CASE HandshakeTimeout(p)
    <2>1. JoinTyped'
        BY <1>2 DEF HandshakeTimeout, Typed, JoinTyped, Phase
    <2> QED BY <1>2, <2>1, TypedUnchanged DEF HandshakeTimeout, Typed, channelVars
<1>3. CASE StartConnecting(p)
    <2>1. [t \in Participant |-> IF t \in known[p] THEN "Direct" ELSE "Invalid"] \in [Participant -> Stage]
        BY DEF Stage
    <2>2. JoinTyped'
        BY <1>3, <2>1 DEF StartConnecting, Typed, JoinTyped, Phase
    <2> QED BY <1>3, <2>2, TypedUnchanged DEF StartConnecting, Typed, channelVars
<1> QED BY <1>1, <1>2, <1>3

LEMMA LeaveTypes ==
    ASSUME Typed, NEW p \in Participant, Leave(p)
    PROVE  Typed'
<1>1. [type |-> "Shutdown"] \in Sent
    BY DEF Sent
<1>2. ToTyped'
    BY <1>1, ToRegistryFacts DEF Leave, Typed
<1>3. JoinTyped'
    BY DEF Leave, Typed, JoinTyped, Phase
<1>4. [t \in Participant |-> IF timer[p][t] = "Armed" THEN "Off" ELSE timer[p][t]]
          \in [Participant -> {"Off", "Armed", "Expired"}]
    BY DEF Typed, RemoteTyped
<1>5. RemoteTyped'
    BY <1>4 DEF Leave, Typed, RemoteTyped
<1>6. PeersTyped'
    BY DEF Leave, Typed, PeersTyped
<1>7. FromTyped'
    BY DEF Leave, Typed, FromTyped
<1> QED BY <1>2, <1>3, <1>5, <1>6, <1>7, TypedUnchanged DEF Leave, Typed

\* The steps of a connection attempt.
LEMMA ConnectingTypes ==
    ASSUME Typed, NEW p \in Participant, NEW t \in Participant,
           \/ DirectSuccess(p, t) \/ DirectFailure(p, t) \/ TimerExpired(p, t)
           \/ ReverseSuccess(p, t) \/ ReverseFailure(p, t)
    PROVE  Typed'
<1>1. CASE DirectSuccess(p, t)
    <2>1. JoinTyped'
        BY <1>1, SetStageFacts DEF DirectSuccess, Typed, Stage
    <2>2. PeersTyped'
        BY <1>1, AddPeerFacts DEF DirectSuccess, Typed, Kind
    <2>3. (wire \subseteq WireMessage)'
        BY <1>1 DEF DirectSuccess, Typed, WireMessage
    <2> QED BY <1>1, <2>1, <2>2, <2>3, TypedUnchanged DEF DirectSuccess, Typed
<1>2. CASE DirectFailure(p, t)
    <2>1. CASE {p, t} \subseteq RemoteCapable
        <3>1. /\ SetStage(p, t, "RemoteConnectRequested")
              /\ timer' = [timer EXCEPT ![p][t] = "Armed"]
              /\ ToRegistry(p, Request(p, t, "REQUEST"))
              /\ UNCHANGED <<peerVars, reverse, wire, fromRegistry, registryVars>>
            BY <1>2, <2>1 DEF DirectFailure
        <3>2. Request(p, t, "REQUEST") \in Sent
            BY DEF Request, Sent, RequestMessage
        <3>3. JoinTyped'
            BY <3>1, SetStageFacts DEF Typed, Stage
        <3>4. ToTyped'
            BY <3>1, <3>2, ToRegistryFacts DEF Typed
        <3>5. RemoteTyped'
            BY <3>1 DEF Typed, RemoteTyped
        <3> QED BY <3>1, <3>3, <3>4, <3>5, TypedUnchanged DEF Typed
    <2>2. CASE ~({p, t} \subseteq RemoteCapable)
        <3>1. ProxyConnect(p, t) /\ UNCHANGED <<timer, reverse, wire, fromRegistry, registryVars>>
            BY <1>2, <2>2 DEF DirectFailure
        <3> QED BY <3>1, ProxyConnectFacts, TypedUnchanged DEF Typed
    <2> QED BY <2>1, <2>2
<1>3. CASE TimerExpired(p, t)
    <2>1. RemoteTyped'
        BY <1>3 DEF TimerExpired, Typed, RemoteTyped
    <2>2. JoinTyped' /\ PeersTyped' /\ ToTyped'
        BY <1>3, ProxyConnectFacts, TypedUnchanged DEF TimerExpired, Typed
    <2> QED BY <1>3, <2>1, <2>2, TypedUnchanged DEF TimerExpired, Typed
<1>4. CASE ReverseSuccess(p, t)
    <2>1. (wire \subseteq WireMessage)'
        BY <1>4 DEF ReverseSuccess, Typed, WireMessage
    <2>2. RemoteTyped'
        BY <1>4 DEF ReverseSuccess, Typed, RemoteTyped
    <2> QED BY <1>4, <2>1, <2>2, TypedUnchanged DEF ReverseSuccess, Typed
<1>5. CASE ReverseFailure(p, t)
    <2>1. Request(t, p, "FAILED_TO_CONNECT") \in Sent
        BY DEF Request, Sent, RequestMessage
    <2>2. ToTyped'
        BY <1>5, <2>1, ToRegistryFacts DEF ReverseFailure, Typed
    <2>3. RemoteTyped'
        BY <1>5 DEF ReverseFailure, Typed, RemoteTyped
    <2> QED BY <1>5, <2>2, <2>3, TypedUnchanged DEF ReverseFailure, Typed
<1> QED BY <1>1, <1>2, <1>3, <1>4, <1>5

\* A message arrives from a peer, or its connection is closed.
LEMMA PeerTypes ==
    ASSUME Typed, NEW p \in Participant, NEW q \in Participant,
           ReceiveFromPeer(p, q) \/ PeerShutdown(p, q)
    PROVE  Typed'
<1>1. CASE ReceiveFromPeer(p, q)
    <2>1. PICK m \in wire :
              /\ m.to = p /\ m.from = q
              /\ Handle(p, m.kind, q, m.payload)
              /\ wire' = (wire \ {m}) \cup OnWire(p, m.kind, q, Answers(p, q, m.payload))
              /\ UNCHANGED <<timer, reverse, toRegistry, fromRegistry, registryVars>>
        BY <1>1 DEF ReceiveFromPeer
    <2>2. m.kind \in {"direct", "remote"}
        BY <2>1 DEF Typed, WireMessage
    <2>3. JoinTyped' /\ PeersTyped'
        BY <2>1, <2>2, HandleFacts DEF Typed, Kind
    <2>4. OnWire(p, m.kind, q, Answers(p, q, m.payload)) \subseteq WireMessage
        BY <2>2, OnWireFacts DEF WireMessage
    <2> QED BY <2>1, <2>3, <2>4, TypedUnchanged DEF Typed
<1>2. CASE PeerShutdown(p, q)
    BY <1>2, RemovePeerFacts, TypedUnchanged DEF PeerShutdown, Typed, channelVars
<1> QED BY <1>1, <1>2

\* A participant handles a message of the registry.
LEMMA FromRegistryTypes ==
    ASSUME Typed, NEW p \in Participant, ReceiveFromRegistry(p)
    PROVE  Typed'
<1> DEFINE m == Head(fromRegistry[p])
<1>1. \/ ReceiveKnown(p, m) \/ ReceiveAccepted(p, m) \/ ReceiveRequest(p, m)
      \/ ReceiveRequestStatus(p, m) \/ ReceiveProxy(p, m) \/ ReceiveProxyShutdown(p, m)
    BY DEF ReceiveFromRegistry
<1>2. FromTyped' /\ m \in Delivered /\ UNCHANGED registryVars
    BY FromHeadFacts DEF ReceiveFromRegistry, Typed
<1> HIDE DEF m
<1>3. CASE ReceiveKnown(p, m)
    <2>1. m.participants \in SUBSET Participant
        BY <1>2, <1>3, MessageFields DEF ReceiveKnown
    <2>2. JoinTyped'
        BY <1>3, <2>1 DEF ReceiveKnown, Typed, JoinTyped
    <2> QED BY <1>2, <1>3, <2>2, TypedUnchanged DEF ReceiveKnown, Typed
<1>4. CASE ReceiveAccepted(p, m)
    <2>1. JoinTyped'
        BY <1>4 DEF ReceiveAccepted, Typed, JoinTyped, Phase
    <2> QED BY <1>2, <1>4, <2>1, TypedUnchanged DEF ReceiveAccepted, Typed
<1>5. CASE ReceiveRequest(p, m)
    <2>1. m.origin \in Participant
        BY <1>2, <1>5, MessageFields DEF ReceiveRequest, RequestMessage
    <2>2. Request(m.origin, p, "CONNECTING") \in Sent
        BY <2>1 DEF Request, Sent, RequestMessage
    <2>3. ToTyped'
        BY <1>5, <2>2, ToRegistryFacts DEF ReceiveRequest, Typed
    <2>4. RemoteTyped'
        BY <1>5, <2>1 DEF ReceiveRequest, Typed, RemoteTyped
    <2> QED BY <1>2, <1>5, <2>3, <2>4, TypedUnchanged DEF ReceiveRequest, Typed
<1>6. CASE ReceiveRequestStatus(p, m)
    <2>1. m.target \in Participant
        BY <1>2, <1>6, MessageFields DEF ReceiveRequestStatus, RequestMessage
    <2>2. JoinTyped' /\ PeersTyped' /\ ToTyped'
        <3>1. \/ SetStage(p, m.target, "RemoteIsConnecting") /\ UNCHANGED <<peerVars, toRegistry>>
              \/ ProxyConnect(p, m.target)
              \/ UNCHANGED <<joinVars, peerVars, toRegistry>>
            BY <1>6 DEF ReceiveRequestStatus
        <3>2. SetStage(p, m.target, "RemoteIsConnecting") => JoinTyped'
            BY <2>1, SetStageFacts DEF Typed, Stage
        <3>3. ProxyConnect(p, m.target) => JoinTyped' /\ PeersTyped' /\ ToTyped'
            BY <2>1, ProxyConnectFacts
        <3> QED BY <3>1, <3>2, <3>3, TypedUnchanged DEF Typed
    <2> QED BY <1>2, <1>6, <2>2, TypedUnchanged DEF ReceiveRequestStatus, Typed
<1>7. CASE ReceiveProxy(p, m)
    <2>1. m \in ProxyMessage({"Announcement", "Reply", "Shutdown"})
        BY <1>2, <1>7, MessageFields DEF ReceiveProxy
    <2>2. PICK k \in Kind : ProxyHandled(p, m, k)
        BY <1>7, <2>1, ReceiveProxyFacts
    <2>3. JoinTyped' /\ PeersTyped'
        BY <2>2, HandleFacts DEF ProxyHandled, Typed
    <2>4. ToTyped'
        BY <2>2, ToRegistryFacts, TypedUnchanged DEF ProxyHandled, Typed
    <2>5. k # "proxy" => OnWire(p, k, m.source, Answers(p, m.source, "Announcement")) \subseteq WireMessage
        BY <2>2, OnWireFacts DEF ProxyHandled, WireMessage, Kind
    <2>6. (wire \subseteq WireMessage)'
        BY <2>2, <2>5 DEF ProxyHandled, Typed
    <2> QED BY <1>2, <2>2, <2>3, <2>4, <2>6, TypedUnchanged DEF ProxyHandled, Typed
<1>8. CASE ReceiveProxyShutdown(p, m)
    <2>1. m.source \in Participant
        BY <1>2, <1>8, MessageFields DEF ReceiveProxyShutdown, ProxyMessage
    <2>2. named[p][m.source] # NoPeer => named[p][m.source] \in Kind
        BY <2>1 DEF Typed, PeersTyped
    <2>3. PeersTyped'
        BY <1>8, <2>1, <2>2, RemovePeerFacts, TypedUnchanged DEF ReceiveProxyShutdown, Typed
    <2> QED BY <1>2, <1>8, <2>3, TypedUnchanged DEF ReceiveProxyShutdown, Typed
<1> QED BY <1>1, <1>3, <1>4, <1>5, <1>6, <1>7, <1>8

\* OnPeerShutdown at the registry: the destinations of the name are notified.
LEMMA PeerOfNameShutdownFacts ==
    ASSUME FromTyped, RegistryTyped, NEW p \in Participant, PeerOfNameShutdown(p)
    PROVE  /\ FromTyped' /\ routes' = routes \ {p} /\ proxied' = proxied
           /\ \A d \in Participant :
                  fromRegistry'[d] = IF <<p, d>> \in proxied /\ d \in routes /\ Up(d)
                                     THEN Append(fromRegistry[d], Proxy(p, d, "Shutdown"))
                                     ELSE fromRegistry[d]
           /\ \A d \in Participant : Range(fromRegistry'[d])
                  = IF <<p, d>> \in proxied /\ d \in routes /\ Up(d)
                    THEN Range(fromRegistry[d]) \cup {Proxy(p, d, "Shutdown")}
                    ELSE Range(fromRegistry[d])
<1>1. \A d \in Participant :
          fromRegistry'[d] = IF <<p, d>> \in proxied /\ d \in routes /\ Up(d)
                             THEN Append(fromRegistry[d], Proxy(p, d, "Shutdown"))
                             ELSE fromRegistry[d]
    BY DEF PeerOfNameShutdown
<1>2. \A d \in Participant :
          /\ fromRegistry[d] \in Seq(Delivered) /\ Proxy(p, d, "Shutdown") \in Delivered
          /\ Append(fromRegistry[d], Proxy(p, d, "Shutdown")) \in Seq(Delivered)
          /\ Range(Append(fromRegistry[d], Proxy(p, d, "Shutdown")))
                 = Range(fromRegistry[d]) \cup {Proxy(p, d, "Shutdown")}
    <2> TAKE d \in Participant
    <2>1. fromRegistry[d] \in Seq(Delivered) /\ Proxy(p, d, "Shutdown") \in Delivered
        BY DEF FromTyped, Proxy, Delivered, ProxyMessage
    <2> QED BY <2>1, AppendFacts
<1>3. fromRegistry' = [d \in Participant |-> fromRegistry'[d]]
    BY DEF PeerOfNameShutdown
<1>4. \A d \in Participant : fromRegistry'[d] \in Seq(Delivered)
    BY <1>1, <1>2
<1>5. FromTyped'
    BY <1>3, <1>4 DEF FromTyped
<1> QED BY <1>1, <1>2, <1>5 DEF PeerOfNameShutdown

\* What the registry tells a participant that it registers.
LEMMA WelcomeFacts ==
    ASSUME RegistryTyped, NEW p \in Participant
    PROVE  LET ms == <<[type |-> "Known", participants |-> KnownTo(p)], [type |-> "Accepted"]>>
           IN  /\ ms \in Seq(Delivered)
               /\ Range(ms) = {[type |-> "Known", participants |-> KnownTo(p)], [type |-> "Accepted"]}
<1> DEFINE k == [type |-> "Known", participants |-> KnownTo(p)]
           a == [type |-> "Accepted"]
<1>1. k \in Delivered /\ a \in Delivered
    BY DEF RegistryTyped, KnownTo, Delivered
<1> HIDE DEF k, a
<1>2. <<k, a>> \in Seq(Delivered) /\ DOMAIN <<k, a>> = {1, 2} /\ <<k, a>>[1] = k /\ <<k, a>>[2] = a
    BY <1>1
<1>3. Range(<<k, a>>) = {k, a}
    BY <1>2 DEF Range
<1> QED BY <1>2, <1>3 DEF k, a

LEMMA OneMessage ==
    ASSUME NEW m \in Delivered
    PROVE  <<m>> \in Seq(Delivered) /\ Range(<<m>>) = {m}
<1>1. <<m>> \in Seq(Delivered) /\ DOMAIN <<m>> = {1} /\ <<m>>[1] = m
    OBVIOUS
<1> QED BY <1>1 DEF Range

\* The registry handles a message.
LEMMA AtRegistryTypes ==
    ASSUME Typed, NEW p \in Participant,
           ReceiveAtRegistry(p) \/ RefuseSecond(p) \/ SecondShutdown(p)
    PROVE  Typed'
<1>1. CASE ReceiveAtRegistry(p)
    <2> DEFINE m == Head(toRegistry[p])
    <2>1. \/ RegisterParticipant(p, m) \/ RelayRequest(p, m) \/ RelayProxy(p, m)
          \/ UnregisterParticipant(p, m)
        BY <1>1 DEF ReceiveAtRegistry
    <2>2. ToTyped' /\ m \in Sent /\ UNCHANGED <<joinVars, timer, reverse, peerVars, wire>>
        BY <1>1, ToHeadFacts DEF ReceiveAtRegistry, Typed
    <2> HIDE DEF m
    <2>3. CASE RegisterParticipant(p, m)
        <3>1. FromTyped'
            BY <2>3, WelcomeFacts, FromRegistryFacts DEF RegisterParticipant, Typed
        <3>2. RegistryTyped'
            BY <2>3 DEF RegisterParticipant, Typed, RegistryTyped
        <3> QED BY <2>2, <3>1, <3>2, TypedUnchanged DEF Typed
    <2>4. CASE RelayRequest(p, m)
        <3>1. m \in Delivered /\ m.target \in Participant /\ m.origin \in Participant
            BY <2>2, <2>4, MessageFields DEF RelayRequest, RequestMessage
        <3>2. FromTyped'
            BY <2>4, <3>1, OneMessage, FromRegistryFacts, TypedUnchanged DEF RelayRequest, Typed
        <3> QED BY <2>2, <2>4, <3>2, TypedUnchanged DEF RelayRequest, Typed
    <2>5. CASE RelayProxy(p, m)
        <3>1. m \in Delivered /\ m.source \in Participant /\ m.destination \in Participant
            BY <2>2, <2>5, MessageFields DEF RelayProxy, ProxyMessage
        <3>2. FromTyped'
            BY <2>5, <3>1, OneMessage, FromRegistryFacts, TypedUnchanged DEF RelayProxy, Typed
        <3>3. RegistryTyped'
            BY <2>5, <3>1 DEF RelayProxy, Recorded, Typed, RegistryTyped
        <3> QED BY <2>2, <2>5, <3>2, <3>3, TypedUnchanged DEF RelayProxy, Typed
    <2>6. CASE UnregisterParticipant(p, m)
        <3>1. FromTyped' /\ routes' = routes \ {p} /\ proxied' = proxied
            BY <2>6, PeerOfNameShutdownFacts DEF UnregisterParticipant, Typed
        <3>2. RegistryTyped'
            BY <2>6, <3>1 DEF UnregisterParticipant, Typed, RegistryTyped
        <3> QED BY <2>2, <3>1, <3>2, TypedUnchanged DEF Typed
    <2> QED BY <2>1, <2>3, <2>4, <2>5, <2>6
<1>2. CASE RefuseSecond(p)
    <2>1. RegistryTyped'
        BY <1>2 DEF RefuseSecond, Typed, RegistryTyped
    <2> QED BY <1>2, <2>1, TypedUnchanged DEF RefuseSecond, Typed, channelVars
<1>3. CASE SecondShutdown(p)
    <2>1. FromTyped' /\ routes' = routes \ {p} /\ proxied' = proxied
        BY <1>3, PeerOfNameShutdownFacts DEF SecondShutdown, Typed
    <2>2. RegistryTyped'
        BY <1>3, <2>1 DEF SecondShutdown, Typed, RegistryTyped
    <2> QED BY <1>3, <2>1, <2>2, TypedUnchanged DEF SecondShutdown, Typed
<1> QED BY <1>1, <1>2, <1>3

\* Every step keeps the values.
LEMMA NextTypes == Typed /\ [Next]_vars => Typed'
<1> SUFFICES ASSUME Typed, [Next]_vars PROVE Typed'
    OBVIOUS
<1>1. CASE UNCHANGED vars
    BY <1>1, TypedUnchanged DEF vars, channelVars, Typed
<1> QED BY <1>1, JoinTypes, LeaveTypes, ConnectingTypes, PeerTypes, FromRegistryTypes,
           AtRegistryTypes DEF Next

LEMMA InitTypes == Init => Typed
BY DEF Init, Typed, JoinTyped, RemoteTyped, PeersTyped, ToTyped, FromTyped, RegistryTyped, Phase,
       Stage, WireMessage

-----------------------------------------------------------------------------
(* What a step may change.                                                 *)

\* A reply of t that a takes for the one it waits for.
ReplyArrives(a, t) ==
    \E k \in Kind :
        /\ <<k, t>> \in peers[a] /\ UNCHANGED peers
        /\ \/ \E m \in wire : m.kind = k /\ m.from = t /\ m.to = a /\ m.payload = "Reply"
           \/ \E m \in Range(fromRegistry[a]) :
                  m.type = "Proxy" /\ m.source = t /\ m.payload = "Reply"

\* A connection attempt of a goes on.
StageMove(a, t, s) ==
    /\ SetStage(a, t, s)
    /\ stage[a][t] \in {"Direct", "RemoteConnectRequested", "RemoteIsConnecting", "WaitingForReply"}
    /\ s \in {"RemoteConnectRequested", "RemoteIsConnecting", "WaitingForReply", "ReplyReceived",
              "Failure"}
    /\ s \in {"RemoteConnectRequested", "RemoteIsConnecting"}
           => stage[a][t] \in {"Direct", "RemoteConnectRequested"}
    /\ s = "ReplyReceived" => ReplyArrives(a, t)

\* The message that a participant takes from the registry.
Taken(a) == Head(fromRegistry[a])

JoinMove(a) ==
    \/ Join(a) \/ HandshakeTimeout(a) \/ StartConnecting(a) \/ Leave(a)
    \/ ReceiveFromRegistry(a) /\ (ReceiveKnown(a, Taken(a)) \/ ReceiveAccepted(a, Taken(a)))
    \/ \E t \in Participant, s \in Stage : StageMove(a, t, s)

Kept(a) == phase'[a] = phase[a] /\ known'[a] = known[a] /\ stage'[a] = stage[a]

\* The stages change in the steps of connecting.
LEMMA ConnectingMoves ==
    ASSUME Typed, NEW p \in Participant, NEW t \in Participant,
           \/ DirectSuccess(p, t) \/ DirectFailure(p, t) \/ TimerExpired(p, t)
           \/ ReverseSuccess(p, t) \/ ReverseFailure(p, t)
    PROVE  (\E s \in Stage : StageMove(p, t, s)) \/ UNCHANGED joinVars
<1>1. ProxyConnect(p, t) /\ stage[p][t] \in {"Direct", "RemoteConnectRequested", "RemoteIsConnecting"}
          => \E s \in Stage : StageMove(p, t, s)
    BY ProxyConnectFacts DEF StageMove, Stage
<1>2. CASE DirectSuccess(p, t)
    BY <1>2 DEF DirectSuccess, StageMove, Stage
<1>3. CASE DirectFailure(p, t)
    <2>1. SetStage(p, t, "RemoteConnectRequested") \/ ProxyConnect(p, t)
        BY <1>3 DEF DirectFailure
    <2> QED BY <1>1, <1>3, <2>1 DEF DirectFailure, StageMove, Stage
<1>4. CASE TimerExpired(p, t)
    BY <1>1, <1>4 DEF TimerExpired, joinVars
<1>5. CASE ReverseSuccess(p, t) \/ ReverseFailure(p, t)
    BY <1>5 DEF ReverseSuccess, ReverseFailure
<1> QED BY <1>2, <1>3, <1>4, <1>5

\* And when a message of a peer arrives.
LEMMA PeerMoves ==
    ASSUME Typed, NEW p \in Participant, NEW q \in Participant, ReceiveFromPeer(p, q)
    PROVE  (\E s \in Stage : StageMove(p, q, s)) \/ UNCHANGED joinVars
<1>1. PICK m \in wire : m.to = p /\ m.from = q /\ Handle(p, m.kind, q, m.payload)
    BY DEF ReceiveFromPeer
<1>2. m.kind \in Kind
    BY <1>1 DEF Typed, WireMessage, Kind
<1>3. \/ UNCHANGED joinVars
      \/ AwaitsRemote(p, q) /\ SetStage(p, q, "WaitingForReply")
      \/ /\ m.payload = "Reply" /\ UNCHANGED peerVars /\ <<m.kind, q>> \in peers[p]
         /\ stage[p][q] = "WaitingForReply" /\ SetStage(p, q, "ReplyReceived")
    BY <1>1, <1>2, HandleFacts DEF Typed
<1>4. CASE AwaitsRemote(p, q) /\ SetStage(p, q, "WaitingForReply")
    BY <1>4 DEF AwaitsRemote, StageMove, Stage
<1>5. CASE /\ m.payload = "Reply" /\ UNCHANGED peerVars /\ <<m.kind, q>> \in peers[p]
           /\ stage[p][q] = "WaitingForReply" /\ SetStage(p, q, "ReplyReceived")
    <2>1. ReplyArrives(p, q)
        BY <1>1, <1>2, <1>5 DEF ReplyArrives, peerVars
    <2> QED BY <1>5, <2>1 DEF StageMove, Stage
<1> QED BY <1>3, <1>4, <1>5

\* And when one of the registry arrives.
LEMMA FromRegistryMoves ==
    ASSUME Typed, NEW p \in Participant, ReceiveFromRegistry(p)
    PROVE  JoinMove(p) \/ UNCHANGED joinVars
<1> DEFINE m == Taken(p)
<1>1. \/ ReceiveKnown(p, m) \/ ReceiveAccepted(p, m) \/ ReceiveRequest(p, m)
      \/ ReceiveRequestStatus(p, m) \/ ReceiveProxy(p, m) \/ ReceiveProxyShutdown(p, m)
    BY DEF ReceiveFromRegistry, Taken
<1>2. m \in Delivered /\ m \in Range(fromRegistry[p])
    BY FromHeadFacts DEF ReceiveFromRegistry, Typed, Taken
<1>3. CASE ReceiveKnown(p, m) \/ ReceiveAccepted(p, m)
    BY <1>3 DEF JoinMove
<1> HIDE DEF m
<1>4. CASE ReceiveRequest(p, m) \/ ReceiveProxyShutdown(p, m)
    BY <1>4 DEF ReceiveRequest, ReceiveProxyShutdown
<1>5. CASE ReceiveRequestStatus(p, m)
    <2>1. m.target \in Participant
        BY <1>2, <1>5, MessageFields DEF ReceiveRequestStatus, RequestMessage
    <2>2. \/ UNCHANGED joinVars
          \/ stage[p][m.target] = "RemoteConnectRequested" /\ SetStage(p, m.target, "RemoteIsConnecting")
          \/ AwaitsRemote(p, m.target) /\ ProxyConnect(p, m.target)
        BY <1>5 DEF ReceiveRequestStatus, joinVars
    <2>3. \/ UNCHANGED joinVars
          \/ stage[p][m.target] = "RemoteConnectRequested" /\ SetStage(p, m.target, "RemoteIsConnecting")
          \/ AwaitsRemote(p, m.target) /\ (\/ SetStage(p, m.target, "WaitingForReply")
                                           \/ SetStage(p, m.target, "Failure"))
        BY <2>1, <2>2, ProxyConnectFacts
    <2>4. UNCHANGED joinVars \/ \E s \in Stage : StageMove(p, m.target, s)
        BY <2>3 DEF AwaitsRemote, StageMove, Stage
    <2> QED BY <2>1, <2>4 DEF JoinMove
<1>6. CASE ReceiveProxy(p, m)
    <2>1. m \in ProxyMessage({"Announcement", "Reply", "Shutdown"}) /\ m.type = "Proxy"
        BY <1>2, <1>6, MessageFields DEF ReceiveProxy
    <2>2. PICK k \in Kind : ProxyHandled(p, m, k)
        BY <1>6, <2>1, ReceiveProxyFacts
    <2>3. m.source \in Participant /\ m.payload \in {"Announcement", "Reply"}
              /\ Handle(p, k, m.source, m.payload)
        BY <2>2 DEF ProxyHandled
    <2>4. \/ UNCHANGED joinVars
          \/ /\ m.payload = "Reply" /\ UNCHANGED peerVars /\ <<k, m.source>> \in peers[p]
             /\ stage[p][m.source] = "WaitingForReply" /\ SetStage(p, m.source, "ReplyReceived")
        BY <2>3, HandleFacts DEF Typed
    <2>5. CASE /\ m.payload = "Reply" /\ UNCHANGED peerVars /\ <<k, m.source>> \in peers[p]
               /\ stage[p][m.source] = "WaitingForReply" /\ SetStage(p, m.source, "ReplyReceived")
        <3>1. ReplyArrives(p, m.source)
            BY <1>2, <2>1, <2>5 DEF ReplyArrives, peerVars
        <3> QED BY <2>3, <2>5, <3>1 DEF StageMove, Stage, JoinMove
    <2> QED BY <2>4, <2>5
<1> QED BY <1>1, <1>3, <1>4, <1>5, <1>6

\* Where JoinSimulation is, the known participants and their stages only change in
\* these ways.
LEMMA JoinSteps ==
    ASSUME Typed, [Next]_vars, NEW a \in Participant
    PROVE  JoinMove(a) \/ Kept(a)
<1>1. UNCHANGED joinVars => Kept(a)
    BY DEF joinVars, Kept
<1>2. ASSUME NEW p \in Participant, Join(p) \/ HandshakeTimeout(p) \/ StartConnecting(p) \/ Leave(p)
      PROVE  JoinMove(a) \/ Kept(a)
    <2>1. CASE a = p
        BY <1>2, <2>1 DEF JoinMove
    <2>2. CASE a # p
        BY <1>2, <2>2 DEF Join, HandshakeTimeout, StartConnecting, Leave, Kept, Typed, JoinTyped
    <2> QED BY <2>1, <2>2
<1>3. ASSUME NEW p \in Participant, NEW t \in Participant, NEW s \in Stage, StageMove(p, t, s)
      PROVE  JoinMove(a) \/ Kept(a)
    <2>1. CASE a = p
        BY <1>3, <2>1 DEF JoinMove
    <2>2. CASE a # p
        BY <1>3, <2>2, SetStageFacts DEF StageMove, Kept, Typed
    <2> QED BY <2>1, <2>2
<1>4. ASSUME NEW p \in Participant, ReceiveFromRegistry(p)
      PROVE  JoinMove(a) \/ Kept(a)
    <2>1. CASE a = p
        BY <1>1, <1>4, <2>1, FromRegistryMoves
    <2>2. CASE a # p /\ (ReceiveKnown(p, Taken(p)) \/ ReceiveAccepted(p, Taken(p)))
        BY <2>2 DEF ReceiveKnown, ReceiveAccepted, Kept, Typed, JoinTyped
    <2>3. CASE a # p /\ (Join(p) \/ HandshakeTimeout(p) \/ StartConnecting(p) \/ Leave(p))
        BY <1>2, <2>3
    <2> QED BY <1>1, <1>3, <1>4, <2>1, <2>2, <2>3, FromRegistryMoves DEF JoinMove
<1>5. CASE UNCHANGED vars
    BY <1>1, <1>5 DEF vars
<1>6. ASSUME NEW p \in Participant,
             ReceiveAtRegistry(p) \/ RefuseSecond(p) \/ SecondShutdown(p)
      PROVE  Kept(a)
    BY <1>1, <1>6 DEF ReceiveAtRegistry, RefuseSecond, SecondShutdown
<1>7. ASSUME NEW p \in Participant, NEW q \in Participant, PeerShutdown(p, q)
      PROVE  Kept(a)
    BY <1>1, <1>7 DEF PeerShutdown
<1>8. ASSUME NEW p \in Participant, NEW q \in Participant,
             \/ DirectSuccess(p, q) \/ DirectFailure(p, q) \/ TimerExpired(p, q)
             \/ ReverseSuccess(p, q) \/ ReverseFailure(p, q)
      PROVE  JoinMove(a) \/ Kept(a)
    BY <1>1, <1>3, <1>8, ConnectingMoves
<1>9. ASSUME NEW p \in Participant, NEW q \in Participant, ReceiveFromPeer(p, q)
      PROVE  JoinMove(a) \/ Kept(a)
    BY <1>1, <1>3, <1>9, PeerMoves
<1> QED BY <1>2, <1>4, <1>5, <1>6, <1>7, <1>8, <1>9 DEF Next

\* The registry's own state changes with what it handles.
LEMMA RegistryMoves ==
    ASSUME [Next]_vars
    PROVE  UNCHANGED registryVars \/ \E p \in Participant :
               ReceiveAtRegistry(p) \/ RefuseSecond(p) \/ SecondShutdown(p)
<1>1. ASSUME NEW p \in Participant,
             \/ Join(p) \/ HandshakeTimeout(p) \/ StartConnecting(p) \/ Leave(p)
             \/ ReceiveFromRegistry(p)
      PROVE  UNCHANGED registryVars
    BY <1>1 DEF Join, HandshakeTimeout, StartConnecting, Leave, ReceiveFromRegistry
<1>2. ASSUME NEW p \in Participant, NEW q \in Participant,
             \/ DirectSuccess(p, q) \/ DirectFailure(p, q) \/ TimerExpired(p, q)
             \/ ReverseSuccess(p, q) \/ ReverseFailure(p, q)
             \/ ReceiveFromPeer(p, q) \/ PeerShutdown(p, q)
      PROVE  UNCHANGED registryVars
    BY <1>2 DEF DirectSuccess, DirectFailure, TimerExpired, ReverseSuccess, ReverseFailure,
                ReceiveFromPeer, PeerShutdown
<1>3. UNCHANGED vars => UNCHANGED registryVars
    BY DEF vars
<1> QED BY <1>1, <1>2, <1>3 DEF Next

\* Leaving is final, as is the end of a second process.
LEMMA EndsAreFinal ==
    ASSUME Typed, [Next]_vars, NEW a \in Participant
    PROVE  /\ phase[a] = "Left" => phase'[a] = "Left"
           /\ phase'[a] = "Out" => phase[a] = "Out"
           /\ second[a] = "Gone" => second'[a] = "Gone"
<1>1. JoinMove(a) \/ Kept(a)
    BY JoinSteps
<1>2. phase[a] \in Phase
    BY DEF Typed, JoinTyped
<1>3. ASSUME NEW t \in Participant, NEW s \in Stage, StageMove(a, t, s)
      PROVE  (phase[a] = "Left" => phase'[a] = "Left") /\ (phase'[a] = "Out" => phase[a] = "Out")
    BY <1>2, <1>3, SetStageFacts DEF StageMove, Typed
<1>4. (phase[a] = "Left" => phase'[a] = "Left") /\ (phase'[a] = "Out" => phase[a] = "Out")
    BY <1>1, <1>2, <1>3
       DEF JoinMove, Kept, Join, HandshakeTimeout, StartConnecting, Leave, Up, ReceiveFromRegistry,
           ReceiveKnown, ReceiveAccepted, Typed, JoinTyped
<1>5. UNCHANGED registryVars \/ \E p \in Participant :
          ReceiveAtRegistry(p) \/ RefuseSecond(p) \/ SecondShutdown(p)
    BY RegistryMoves
<1>6. second[a] = "Gone" => second'[a] = "Gone"
    BY <1>5 DEF registryVars, ReceiveAtRegistry, RegisterParticipant, RelayRequest, RelayProxy,
           UnregisterParticipant, RefuseSecond, SecondShutdown, Typed, RegistryTyped
<1> QED BY <1>4, <1>6

\* A participant that was proxied is only declared gone when its name is.
Gone(a) == phase[a] = "Left" \/ second[a] = "Gone"

DepartedOnly ==
    /\ \A p \in Participant : \A m \in Range(toRegistry[p]) :
           m.type = "Shutdown" => phase[p] = "Left"
    /\ \A p \in Participant : \A m \in Range(fromRegistry[p]) :
           m.type = "Proxy" /\ m.payload = "Shutdown" => Gone(m.source)

\* What a participant that sends a message to the registry has done.
NewSent(a, m) ==
    /\ Up(a) \/ Join(a)
    /\ \/ m = [type |-> "Announcement"] /\ Join(a)
       \/ m = [type |-> "Shutdown"] /\ Leave(a)
       \/ \E t \in Participant :
              m = Request(a, t, "REQUEST") /\ {a, t} \subseteq RemoteCapable /\ DirectFailure(a, t)
       \/ \E o \in Participant :
              /\ m = Request(o, a, "CONNECTING") /\ Taken(a).origin = o
              /\ ReceiveFromRegistry(a) /\ ReceiveRequest(a, Taken(a))
       \/ \E o \in Participant : m = Request(o, a, "FAILED_TO_CONNECT") /\ ReverseFailure(a, o)
       \/ \E t \in Participant :
              m = Proxy(a, t, "Announcement") /\ AddPeer(a, "proxy", t)
       \/ \E t \in Participant :
              /\ m = Proxy(a, t, "Reply") /\ AddPeer(a, "proxy", t)
              /\ \E x \in Range(fromRegistry[a]) :
                     x.type = "Proxy" /\ x.source = t /\ x.payload = "Announcement"

\* A message is appended to those for the registry, the first one is taken, or
\* both, when a participant answers the registry.
LEMMA SentSteps ==
    ASSUME Typed, [Next]_vars, NEW a \in Participant
    PROVE  \/ toRegistry'[a] = toRegistry[a]
           \/ /\ ReceiveAtRegistry(a) /\ toRegistry'[a] = Tail(toRegistry[a])
              /\ Range(toRegistry[a]) = {Head(toRegistry[a])} \cup Range(toRegistry'[a])
           \/ \E m \in Sent :
                  /\ NewSent(a, m) /\ toRegistry'[a] = Append(toRegistry[a], m)
                  /\ Range(toRegistry'[a]) = Range(toRegistry[a]) \cup {m}
<1> DEFINE Same == toRegistry'[a] = toRegistry[a]
           More == \E m \in Sent :
                       /\ NewSent(a, m) /\ toRegistry'[a] = Append(toRegistry[a], m)
                       /\ Range(toRegistry'[a]) = Range(toRegistry[a]) \cup {m}
<1>1. ASSUME NEW p \in Participant, NEW m \in Sent, ToRegistry(p, m), NewSent(p, m)
      PROVE  Same \/ More
    <2>1. CASE a = p
        BY <1>1, <2>1, ToRegistryFacts DEF Typed
    <2>2. CASE a # p
        BY <1>1, <2>2, ToRegistryFacts DEF Typed
    <2> QED BY <2>1, <2>2
<1>2. ASSUME NEW p \in Participant, NEW t \in Participant, Up(p), ProxyConnect(p, t)
      PROVE  Same \/ More
    <2>1. Proxy(p, t, "Announcement") \in Sent
        BY <1>2, ProxyConnectFacts
    <2>2. CASE AddPeer(p, "proxy", t) /\ ToRegistry(p, Proxy(p, t, "Announcement"))
        <3>1. NewSent(p, Proxy(p, t, "Announcement"))
            BY <1>2, <2>2 DEF NewSent
        <3> QED BY <1>1, <2>1, <2>2, <3>1
    <2> QED BY <1>2, <2>2, ProxyConnectFacts
<1>3. ASSUME NEW p \in Participant, NEW o \in Participant, NEW t \in Participant,
             NEW status \in {"REQUEST", "CONNECTING", "FAILED_TO_CONNECT"},
             ToRegistry(p, Request(o, t, status)), NewSent(p, Request(o, t, status))
      PROVE  Same \/ More
    <2>1. Request(o, t, status) \in Sent
        BY DEF Request, RequestMessage, Sent
    <2> QED BY <1>1, <1>3, <2>1
<1> HIDE DEF Same, More
<1>4. UNCHANGED toRegistry => Same
    BY DEF Same
<1>5. ASSUME NEW p \in Participant, Join(p) \/ Leave(p)
      PROVE  Same \/ More
    <2>1. [type |-> "Announcement"] \in Sent /\ [type |-> "Shutdown"] \in Sent
        BY DEF Sent
    <2> QED BY <1>1, <1>5, <2>1 DEF Join, Leave, NewSent
<1>6. ASSUME NEW p \in Participant,
             HandshakeTimeout(p) \/ StartConnecting(p) \/ RefuseSecond(p) \/ SecondShutdown(p)
      PROVE  Same
    BY <1>4, <1>6 DEF HandshakeTimeout, StartConnecting, RefuseSecond, SecondShutdown, channelVars
<1>7. ASSUME NEW p \in Participant, NEW q \in Participant,
             \/ DirectSuccess(p, q) \/ DirectFailure(p, q) \/ TimerExpired(p, q)
             \/ ReverseSuccess(p, q) \/ ReverseFailure(p, q)
      PROVE  Same \/ More
    <2>1. CASE {p, q} \subseteq RemoteCapable /\ DirectFailure(p, q)
        <3>1. NewSent(p, Request(p, q, "REQUEST"))
            BY <2>1 DEF NewSent, DirectFailure
        <3>2. ToRegistry(p, Request(p, q, "REQUEST"))
            BY <2>1 DEF DirectFailure
        <3> QED BY <1>3, <3>1, <3>2
    <2>2. CASE ReverseFailure(p, q)
        <3>1. NewSent(p, Request(q, p, "FAILED_TO_CONNECT"))
            BY <2>2 DEF NewSent, ReverseFailure
        <3>2. ToRegistry(p, Request(q, p, "FAILED_TO_CONNECT"))
            BY <2>2 DEF ReverseFailure
        <3> QED BY <1>3, <3>1, <3>2
    <2>3. CASE ~({p, q} \subseteq RemoteCapable) /\ DirectFailure(p, q)
        BY <1>2, <2>3 DEF DirectFailure
    <2>4. CASE DirectSuccess(p, q) \/ TimerExpired(p, q) \/ ReverseSuccess(p, q)
        BY <1>2, <1>4, <2>4 DEF DirectSuccess, TimerExpired, ReverseSuccess
    <2> QED BY <1>7, <2>1, <2>2, <2>3, <2>4
<1>8. ASSUME NEW p \in Participant, NEW q \in Participant, ReceiveFromPeer(p, q) \/ PeerShutdown(p, q)
      PROVE  Same
    BY <1>4, <1>8 DEF ReceiveFromPeer, PeerShutdown, channelVars
<1>9. ASSUME NEW p \in Participant, ReceiveFromRegistry(p)
      PROVE  Same \/ More
    <2> DEFINE m == Taken(p)
    <2>1. \/ ReceiveKnown(p, m) \/ ReceiveAccepted(p, m) \/ ReceiveRequest(p, m)
          \/ ReceiveRequestStatus(p, m) \/ ReceiveProxy(p, m) \/ ReceiveProxyShutdown(p, m)
        BY <1>9 DEF ReceiveFromRegistry, Taken
    <2>2. m \in Delivered /\ m \in Range(fromRegistry[p])
        BY <1>9, FromHeadFacts DEF ReceiveFromRegistry, Typed, Taken
    <2> HIDE DEF m
    <2>3. CASE ReceiveKnown(p, m) \/ ReceiveAccepted(p, m) \/ ReceiveProxyShutdown(p, m)
        BY <1>4, <2>3 DEF ReceiveKnown, ReceiveAccepted, ReceiveProxyShutdown
    <2>4. CASE ReceiveRequest(p, m)
        <3>1. m.origin \in Participant
            BY <2>2, <2>4, MessageFields DEF ReceiveRequest, RequestMessage
        <3>2. NewSent(p, Request(m.origin, p, "CONNECTING"))
            BY <1>9, <2>4, <3>1 DEF NewSent, ReceiveFromRegistry, m
        <3>3. ToRegistry(p, Request(m.origin, p, "CONNECTING"))
            BY <2>4 DEF ReceiveRequest
        <3> QED BY <1>3, <3>1, <3>2, <3>3
    <2>5. CASE ReceiveRequestStatus(p, m)
        <3>1. m.target \in Participant
            BY <2>2, <2>5, MessageFields DEF ReceiveRequestStatus, RequestMessage
        <3> QED BY <1>2, <1>4, <1>9, <2>5, <3>1 DEF ReceiveRequestStatus, ReceiveFromRegistry
    <2>6. CASE ReceiveProxy(p, m)
        <3>1. m \in ProxyMessage({"Announcement", "Reply", "Shutdown"}) /\ m.type = "Proxy"
            BY <2>2, <2>6, MessageFields DEF ReceiveProxy
        <3>2. PICK k \in Kind : ProxyHandled(p, m, k)
            BY <2>6, <3>1, ReceiveProxyFacts
        <3>3. CASE UNCHANGED toRegistry
            BY <1>4, <3>3
        <3>4. CASE /\ k = "proxy" /\ m.payload = "Announcement"
                   /\ Proxy(p, m.source, "Reply") \in Sent
                   /\ ToRegistry(p, Proxy(p, m.source, "Reply"))
            <4>1. m.source \in Participant /\ AddPeer(p, "proxy", m.source)
                BY <3>2, <3>4, HandleFacts DEF ProxyHandled, Typed
            <4>2. NewSent(p, Proxy(p, m.source, "Reply"))
                BY <1>9, <2>2, <3>1, <3>4, <4>1 DEF NewSent, ReceiveFromRegistry
            <4> QED BY <1>1, <3>4, <4>2
        <3> QED BY <3>2, <3>3, <3>4 DEF ProxyHandled
    <2> QED BY <2>1, <2>3, <2>4, <2>5, <2>6
<1>10. ASSUME NEW p \in Participant, ReceiveAtRegistry(p)
       PROVE  \/ Same
              \/ /\ ReceiveAtRegistry(a) /\ toRegistry'[a] = Tail(toRegistry[a])
                 /\ Range(toRegistry[a]) = {Head(toRegistry[a])} \cup Range(toRegistry'[a])
    <2>1. CASE a = p
        BY <1>10, <2>1, ToHeadFacts DEF ReceiveAtRegistry, Typed
    <2>2. CASE a # p
        BY <1>10, <2>2, ToHeadFacts DEF ReceiveAtRegistry, Typed, Same
    <2> QED BY <2>1, <2>2
<1>11. CASE UNCHANGED vars
    BY <1>4, <1>11 DEF vars, channelVars
<1> QED BY <1>5, <1>6, <1>7, <1>8, <1>9, <1>10, <1>11 DEF Next, Same, More

\* What the registry takes from a participant.
Handled(s) == Head(toRegistry[s])

\* Why the registry sends a message to a participant.
NewDelivered(a, m) ==
    /\ a \in routes /\ Up(a)
    /\ \/ \E s \in Participant :
              /\ ReceiveAtRegistry(s) /\ m = Handled(s)
              /\ \/ m.type = "Request" /\ a = IF m.status = "REQUEST" THEN m.target ELSE m.origin
                 \/ m.type = "Proxy" /\ a = m.destination
       \/ \E s \in Participant :
              /\ m = Proxy(s, a, "Shutdown")
              /\ \/ ReceiveAtRegistry(s) /\ Handled(s).type = "Shutdown"
                 \/ SecondShutdown(s)

Welcome(a) == <<[type |-> "Known", participants |-> KnownTo(a)], [type |-> "Accepted"]>>

\* What happens to the messages for a.
DeliveredStep(a) ==
    \/ fromRegistry'[a] = fromRegistry[a]
    \/ Leave(a) /\ fromRegistry'[a] = <<>>
    \/ /\ ReceiveFromRegistry(a) /\ fromRegistry'[a] = Tail(fromRegistry[a])
       /\ Range(fromRegistry[a]) = {Taken(a)} \cup Range(fromRegistry'[a])
    \/ /\ ReceiveAtRegistry(a) /\ RegisterParticipant(a, Handled(a)) /\ Up(a)
       /\ fromRegistry'[a] = fromRegistry[a] \o Welcome(a)
       /\ Range(fromRegistry'[a]) = Range(fromRegistry[a]) \cup Range(Welcome(a))
    \/ \E m \in Delivered :
           /\ NewDelivered(a, m) /\ fromRegistry'[a] = Append(fromRegistry[a], m)
           /\ Range(fromRegistry'[a]) = Range(fromRegistry[a]) \cup {m}

\* The registry appends one message.
LEMMA OneDelivered ==
    ASSUME FromTyped, NEW d \in Participant, NEW m \in Delivered, FromRegistry(d, <<m>>),
           NEW a \in Participant
    PROVE  \/ fromRegistry'[a] = fromRegistry[a]
           \/ /\ a = d /\ Up(a) /\ fromRegistry'[a] = Append(fromRegistry[a], m)
              /\ Range(fromRegistry'[a]) = Range(fromRegistry[a]) \cup {m}
<1>1. fromRegistry[d] \in Seq(Delivered)
    BY DEF FromTyped
<1>2. fromRegistry[d] \o <<m>> = Append(fromRegistry[d], m)
    BY <1>1, AppendIsConcat
<1>3. <<m>> \in Seq(Delivered) /\ Range(<<m>>) = {m}
    BY OneMessage
<1> QED BY <1>2, <1>3, FromRegistryFacts

\* What the registry delivers when it has taken a message, or a second process ends.
LEMMA AtRegistryDelivers ==
    ASSUME Typed, NEW s \in Participant,
           ReceiveAtRegistry(s) \/ RefuseSecond(s) \/ SecondShutdown(s),
           NEW a \in Participant
    PROVE  DeliveredStep(a)
<1>1. CASE ReceiveAtRegistry(s)
    <2> DEFINE m == Handled(s)
    <2>1. \/ RegisterParticipant(s, m) \/ RelayRequest(s, m) \/ RelayProxy(s, m)
          \/ UnregisterParticipant(s, m)
        BY <1>1 DEF ReceiveAtRegistry, Handled
    <2>2. m \in Sent
        BY <1>1, ToHeadFacts DEF ReceiveAtRegistry, Typed, Handled
    <2>3. CASE RegisterParticipant(s, m)
        <3>1. Welcome(s) \in Seq(Delivered) /\ FromRegistry(s, Welcome(s))
            BY <2>3, WelcomeFacts DEF RegisterParticipant, Typed, Welcome
        <3>2. CASE a = s
            BY <1>1, <2>3, <3>1, <3>2, FromRegistryFacts DEF Typed, DeliveredStep
        <3>3. CASE a # s
            BY <3>1, <3>3, FromRegistryFacts DEF Typed, DeliveredStep
        <3> QED BY <3>2, <3>3
    <2>4. CASE RelayRequest(s, m)
        <3> DEFINE d == IF m.status = "REQUEST" THEN m.target ELSE m.origin
        <3>1. m \in Delivered /\ d \in Participant
            BY <2>2, <2>4, MessageFields DEF RelayRequest, RequestMessage
        <3>2. \/ UNCHANGED fromRegistry
              \/ d \in routes /\ FromRegistry(d, <<m>>)
            BY <2>4 DEF RelayRequest
        <3>3. CASE d \in routes /\ FromRegistry(d, <<m>>)
            <4>1. \/ fromRegistry'[a] = fromRegistry[a]
                  \/ /\ a = d /\ Up(a) /\ fromRegistry'[a] = Append(fromRegistry[a], m)
                     /\ Range(fromRegistry'[a]) = Range(fromRegistry[a]) \cup {m}
                BY <3>1, <3>3, OneDelivered DEF Typed
            <4>2. a = d /\ Up(a) => NewDelivered(a, m)
                BY <1>1, <2>4, <3>3 DEF NewDelivered, RelayRequest
            <4> QED BY <3>1, <4>1, <4>2 DEF DeliveredStep
        <3> QED BY <3>2, <3>3 DEF DeliveredStep
    <2>5. CASE RelayProxy(s, m)
        <3>1. m \in Delivered /\ m.destination \in Participant
            BY <2>2, <2>5, MessageFields DEF RelayProxy, ProxyMessage
        <3>2. \/ UNCHANGED fromRegistry
              \/ m.destination \in routes /\ FromRegistry(m.destination, <<m>>)
            BY <2>5 DEF RelayProxy
        <3>3. CASE m.destination \in routes /\ FromRegistry(m.destination, <<m>>)
            <4>1. \/ fromRegistry'[a] = fromRegistry[a]
                  \/ /\ a = m.destination /\ Up(a) /\ fromRegistry'[a] = Append(fromRegistry[a], m)
                     /\ Range(fromRegistry'[a]) = Range(fromRegistry[a]) \cup {m}
                BY <3>1, <3>3, OneDelivered DEF Typed
            <4>2. a = m.destination /\ Up(a) => NewDelivered(a, m)
                BY <1>1, <2>5, <3>3 DEF NewDelivered, RelayProxy
            <4> QED BY <3>1, <4>1, <4>2 DEF DeliveredStep
        <3> QED BY <3>2, <3>3 DEF DeliveredStep
    <2>6. CASE UnregisterParticipant(s, m)
        <3>1. PeerOfNameShutdown(s) /\ m.type = "Shutdown"
            BY <2>6 DEF UnregisterParticipant
        <3>2. CASE a \in routes /\ Up(a)
            <4>1. Proxy(s, a, "Shutdown") \in Delivered
                BY DEF Proxy, Delivered, ProxyMessage
            <4>2. NewDelivered(a, Proxy(s, a, "Shutdown"))
                BY <1>1, <3>1, <3>2 DEF NewDelivered
            <4> QED BY <3>1, <4>1, <4>2, PeerOfNameShutdownFacts DEF Typed, DeliveredStep
        <3>3. CASE ~(a \in routes /\ Up(a))
            BY <3>1, <3>3, PeerOfNameShutdownFacts DEF Typed, DeliveredStep
        <3> QED BY <3>2, <3>3
    <2> QED BY <2>1, <2>3, <2>4, <2>5, <2>6
<1>2. CASE RefuseSecond(s)
    BY <1>2 DEF RefuseSecond, channelVars, DeliveredStep
<1>3. CASE SecondShutdown(s)
    <2>1. PeerOfNameShutdown(s)
        BY <1>3 DEF SecondShutdown
    <2>2. CASE a \in routes /\ Up(a)
        <3>1. Proxy(s, a, "Shutdown") \in Delivered
            BY DEF Proxy, Delivered, ProxyMessage
        <3>2. NewDelivered(a, Proxy(s, a, "Shutdown"))
            BY <1>3, <2>2 DEF NewDelivered
        <3> QED BY <2>1, <3>1, <3>2, PeerOfNameShutdownFacts DEF Typed, DeliveredStep
    <2>3. CASE ~(a \in routes /\ Up(a))
        BY <2>1, <2>3, PeerOfNameShutdownFacts DEF Typed, DeliveredStep
    <2> QED BY <2>2, <2>3
<1> QED BY <1>1, <1>2, <1>3

LEMMA DeliveredSteps ==
    ASSUME Typed, [Next]_vars, NEW a \in Participant
    PROVE  DeliveredStep(a)
<1>1. UNCHANGED fromRegistry => DeliveredStep(a)
    BY DEF DeliveredStep
<1>2. ASSUME NEW p \in Participant,
             Join(p) \/ HandshakeTimeout(p) \/ StartConnecting(p)
      PROVE  DeliveredStep(a)
    BY <1>1, <1>2 DEF Join, HandshakeTimeout, StartConnecting, channelVars
<1>3. ASSUME NEW p \in Participant, Leave(p) PROVE DeliveredStep(a)
    BY <1>3 DEF Leave, Typed, FromTyped, DeliveredStep
<1>4. ASSUME NEW p \in Participant, ReceiveFromRegistry(p) PROVE DeliveredStep(a)
    <2>1. CASE a = p
        BY <1>4, <2>1, FromHeadFacts DEF ReceiveFromRegistry, Typed, DeliveredStep, Taken
    <2>2. CASE a # p
        BY <1>4, <2>2, FromHeadFacts DEF ReceiveFromRegistry, Typed, DeliveredStep
    <2> QED BY <2>1, <2>2
<1>5. ASSUME NEW p \in Participant, NEW q \in Participant,
             \/ DirectSuccess(p, q) \/ DirectFailure(p, q) \/ TimerExpired(p, q)
             \/ ReverseSuccess(p, q) \/ ReverseFailure(p, q)
             \/ ReceiveFromPeer(p, q) \/ PeerShutdown(p, q)
      PROVE  DeliveredStep(a)
    BY <1>1, <1>5
       DEF DirectSuccess, DirectFailure, TimerExpired, ReverseSuccess, ReverseFailure,
           ReceiveFromPeer, PeerShutdown, channelVars
<1>6. CASE UNCHANGED vars
    BY <1>1, <1>6 DEF vars, channelVars
<1> QED BY <1>2, <1>3, <1>4, <1>5, <1>6, AtRegistryDelivers DEF Next

\* The registry only closes the connection of a name when its participant, or a
\* second process of the name, has gone.
LEMMA DepartedKept == Typed /\ DepartedOnly /\ [Next]_vars => DepartedOnly'
<1> SUFFICES ASSUME Typed, DepartedOnly, [Next]_vars PROVE DepartedOnly'
    OBVIOUS
<1>1. ASSUME NEW p \in Participant, NEW m \in Range(toRegistry'[p]), m.type = "Shutdown"
      PROVE  phase'[p] = "Left"
    <2>1. m \in Range(toRegistry[p]) => phase'[p] = "Left"
        BY <1>1, EndsAreFinal DEF DepartedOnly
    <2>2. ASSUME NewSent(p, m) PROVE phase'[p] = "Left"
        <3>1. Leave(p)
            BY <1>1, <2>2 DEF NewSent, Request, Proxy
        <3> QED BY <3>1 DEF Leave, Typed, JoinTyped
    <2>3. m \in Range(toRegistry[p]) \/ NewSent(p, m)
        BY <1>1, SentSteps
    <2> QED BY <2>1, <2>2, <2>3
<1>2. ASSUME NEW p \in Participant, NEW m \in Range(fromRegistry'[p]),
             m.type = "Proxy", m.payload = "Shutdown"
      PROVE  Gone(m.source)'
    <2>1. \A a \in Participant : Gone(a) => Gone(a)'
        BY EndsAreFinal DEF Gone
    <2>2. fromRegistry'[p] \in Seq(Delivered)
        BY NextTypes DEF Typed, FromTyped
    <2>3. m \in Delivered
        BY <1>2, <2>2 DEF Range
    <2>4. m.source \in Participant
        BY <1>2, <2>3, MessageFields DEF ProxyMessage
    <2>5. m \in Range(fromRegistry[p]) => Gone(m.source)'
        BY <1>2, <2>1, <2>4 DEF DepartedOnly
    <2>6. ASSUME NewDelivered(p, m) PROVE Gone(m.source)'
        <3>1. ASSUME NEW s \in Participant, ReceiveAtRegistry(s), m = Handled(s) PROVE FALSE
            <4>1. m \in Sent
                BY <3>1, ToHeadFacts DEF ReceiveAtRegistry, Typed, Handled
            <4> QED BY <1>2, <4>1, MessageFields DEF ProxyMessage
        <3>2. ASSUME NEW s \in Participant, m = Proxy(s, p, "Shutdown"),
                     ReceiveAtRegistry(s), Handled(s).type = "Shutdown"
              PROVE  Gone(m.source)'
            <4>1. Handled(s) \in Range(toRegistry[s])
                BY <3>2, ToHeadFacts DEF ReceiveAtRegistry, Typed, Handled
            <4>2. Gone(s) /\ m.source = s
                BY <3>2, <4>1 DEF DepartedOnly, Gone, Proxy
            <4> QED BY <2>1, <4>2
        <3>3. ASSUME NEW s \in Participant, m = Proxy(s, p, "Shutdown"), SecondShutdown(s)
              PROVE  Gone(m.source)'
            <4>1. second'[s] = "Gone" /\ m.source = s
                BY <3>3 DEF SecondShutdown, Typed, RegistryTyped, Proxy
            <4> QED BY <4>1 DEF Gone
        <3> QED BY <2>6, <3>1, <3>2, <3>3 DEF NewDelivered
    <2>7. m \notin Range(Welcome(p))
        BY <1>2, WelcomeFacts DEF Typed, Welcome
    <2>8. m \notin Range(<<>>)
        BY DEF Range
    <2> QED BY <1>2, <2>5, <2>6, <2>7, <2>8, DeliveredSteps DEF DeliveredStep
<1> QED BY <1>1, <1>2 DEF DepartedOnly

\* A participant only forgets a peer when it leaves itself or the peer is gone.
LEMMA PeersSteps ==
    ASSUME Typed, DepartedOnly, [Next]_vars, NEW a \in Participant, NEW k \in Kind,
           NEW b \in Participant, <<k, b>> \in peers[a]
    PROVE  <<k, b>> \in peers'[a] \/ phase'[a] = "Left" \/ Gone(b)
<1> DEFINE Stays == <<k, b>> \in peers'[a]
<1>1. UNCHANGED peerVars => Stays
    BY DEF peerVars
<1>2. ASSUME NEW p \in Participant, NEW j \in Kind, NEW q \in Participant, AddPeer(p, j, q)
      PROVE  Stays
    BY <1>2, AddPeerFacts DEF Typed
<1>3. ASSUME NEW p \in Participant, NEW j \in Kind, NEW q \in Participant, RemovePeer(p, j, q),
             Gone(q)
      PROVE  Stays \/ Gone(b)
    BY <1>3, RemovePeerFacts DEF Typed
<1> HIDE DEF Stays
<1>4. ASSUME NEW p \in Participant,
             \/ Join(p) \/ HandshakeTimeout(p) \/ StartConnecting(p)
             \/ ReceiveAtRegistry(p) \/ RefuseSecond(p) \/ SecondShutdown(p)
      PROVE  Stays
    BY <1>1, <1>4 DEF Join, HandshakeTimeout, StartConnecting, ReceiveAtRegistry, RefuseSecond,
                      SecondShutdown
<1>5. ASSUME NEW p \in Participant, Leave(p)
      PROVE  Stays \/ phase'[a] = "Left"
    BY <1>5 DEF Leave, Typed, PeersTyped, JoinTyped, Stays
<1>6. ASSUME NEW p \in Participant, NEW q \in Participant, ProxyConnect(p, q)
      PROVE  Stays
    <2>1. AddPeer(p, "proxy", q) \/ UNCHANGED peerVars
        BY <1>6, ProxyConnectFacts
    <2> QED BY <1>1, <1>2, <2>1 DEF Kind
<1>7. ASSUME NEW p \in Participant, NEW q \in Participant,
             \/ DirectSuccess(p, q) \/ DirectFailure(p, q) \/ TimerExpired(p, q)
             \/ ReverseSuccess(p, q) \/ ReverseFailure(p, q)
      PROVE  Stays
    <2>1. AddPeer(p, "direct", q) \/ ProxyConnect(p, q) \/ UNCHANGED peerVars
        BY <1>7 DEF DirectSuccess, DirectFailure, TimerExpired, ReverseSuccess, ReverseFailure
    <2> QED BY <1>1, <1>2, <1>6, <2>1 DEF Kind
<1>8. ASSUME NEW p \in Participant, NEW q \in Participant, ReceiveFromPeer(p, q)
      PROVE  Stays
    <2>1. PICK m \in wire : m.to = p /\ m.from = q /\ Handle(p, m.kind, q, m.payload)
        BY <1>8 DEF ReceiveFromPeer
    <2>2. m.kind \in Kind
        BY <2>1 DEF Typed, WireMessage, Kind
    <2> QED BY <1>1, <1>2, <2>1, <2>2, HandleFacts DEF Typed
<1>9. ASSUME NEW p \in Participant, NEW q \in Participant, PeerShutdown(p, q)
      PROVE  Stays \/ Gone(b)
    BY <1>3, <1>9 DEF PeerShutdown, Gone
<1>10. ASSUME NEW p \in Participant, ReceiveFromRegistry(p)
       PROVE  Stays \/ Gone(b)
    <2> DEFINE m == Taken(p)
    <2>1. \/ ReceiveKnown(p, m) \/ ReceiveAccepted(p, m) \/ ReceiveRequest(p, m)
          \/ ReceiveRequestStatus(p, m) \/ ReceiveProxy(p, m) \/ ReceiveProxyShutdown(p, m)
        BY <1>10 DEF ReceiveFromRegistry, Taken
    <2>2. m \in Delivered /\ m \in Range(fromRegistry[p])
        BY <1>10, FromHeadFacts DEF ReceiveFromRegistry, Typed, Taken
    <2> HIDE DEF m
    <2>3. CASE ReceiveKnown(p, m) \/ ReceiveAccepted(p, m) \/ ReceiveRequest(p, m)
        BY <1>1, <2>3 DEF ReceiveKnown, ReceiveAccepted, ReceiveRequest
    <2>4. CASE ReceiveRequestStatus(p, m)
        <3>1. m.target \in Participant
            BY <2>2, <2>4, MessageFields DEF ReceiveRequestStatus, RequestMessage
        <3> QED BY <1>1, <1>6, <2>4, <3>1 DEF ReceiveRequestStatus
    <2>5. CASE ReceiveProxy(p, m)
        <3>1. m \in ProxyMessage({"Announcement", "Reply", "Shutdown"}) /\ m.type = "Proxy"
            BY <2>2, <2>5, MessageFields DEF ReceiveProxy
        <3>2. PICK j \in Kind : ProxyHandled(p, m, j)
            BY <2>5, <3>1, ReceiveProxyFacts
        <3>3. m.source \in Participant /\ Handle(p, j, m.source, m.payload)
            BY <3>2 DEF ProxyHandled
        <3> QED BY <1>1, <1>2, <3>3, HandleFacts DEF Typed
    <2>6. CASE ReceiveProxyShutdown(p, m)
        <3>1. m.source \in Participant /\ Gone(m.source)
            BY <2>2, <2>6, MessageFields DEF ReceiveProxyShutdown, ProxyMessage, DepartedOnly
        <3>2. named[p][m.source] # NoPeer => named[p][m.source] \in Kind
            BY <3>1 DEF Typed, PeersTyped
        <3> QED BY <1>1, <1>3, <2>6, <3>1, <3>2 DEF ReceiveProxyShutdown
    <2> QED BY <2>1, <2>3, <2>4, <2>5, <2>6
<1>11. CASE UNCHANGED vars
    BY <1>1, <1>11 DEF vars, Stays
<1> QED BY <1>4, <1>5, <1>7, <1>8, <1>9, <1>10, <1>11 DEF Next, Stays

\* A link of two participants is only lost with one of the two: the registry's
\* empty ProxyMessage and a closed socket make OnPeerShutdown remove the peer that
\* has left and none that is still there, for any participants, kinds of
\* connections and interleavings.
THEOREM LinksAlwaysStay == Spec => LinksStay
<1>1. Init => DepartedOnly
    BY DEF Init, DepartedOnly, Range
<1>2. Typed /\ DepartedOnly /\ [Next]_vars
          => [\A p, q \in Participant :
                  Links(p, q) # {} /\ Up(p)' /\ Up(q)' /\ ~Shadowed(p, q)
                      => (Links(p, q) # {})']_vars
    <2> SUFFICES ASSUME Typed, DepartedOnly, [Next]_vars, NEW p \in Participant, NEW q \in Participant,
                        Links(p, q) # {}, Up(p)', Up(q)', ~Shadowed(p, q)
                 PROVE  (Links(p, q) # {})'
        OBVIOUS
    <2>1. PICK k \in Kind : <<k, q>> \in peers[p] /\ <<k, p>> \in peers[q]
        BY DEF Links
    <2>2. phase'[p] # "Left" /\ phase'[q] # "Left"
        BY DEF Up
    <2>3. ~Gone(p) /\ ~Gone(q)
        BY <2>2, EndsAreFinal DEF Gone, Shadowed
    <2>4. <<k, q>> \in peers'[p] /\ <<k, p>> \in peers'[q]
        BY <2>1, <2>2, <2>3, PeersSteps
    <2> QED BY <2>4 DEF Links
<1> QED BY <1>1, <1>2, InitTypes, NextTypes, DepartedKept, PTL DEF Spec, LinksStay

-----------------------------------------------------------------------------
(* Registration: what the registry knows, and what it has told.            *)

\* The registry has not handled the announcement of p yet.
Unannounced(p) ==
    phase[p] = "Out" \/ \E m \in Range(toRegistry[p]) : m.type = "Announcement"

\* A participant announces itself once, before anything else.
AnnouncedFirst(p) ==
    /\ phase[p] = "Out" => toRegistry[p] = <<>>
    /\ \A i \in DOMAIN toRegistry[p] : toRegistry[p][i].type = "Announcement" => i = 1

\* Until then it is not told anything.
NotToldBefore(p) ==
    Unannounced(p) =>
        /\ fromRegistry[p] = <<>> /\ p \notin connected /\ p \notin routes /\ known[p] = {}
        /\ phase[p] \in {"Out", "Announced", "Failed", "Left"}

\* Then it is registered until it leaves.
RegisteredWhileUp(p) == phase[p] # "Left" /\ ~Unannounced(p) => p \in connected

\* It is welcomed by the known participants and the reply, in that order, and
\* once; JoinSimulation waits for the reply.
WelcomedOnce(p) ==
    /\ \A i \in DOMAIN fromRegistry[p] :
           /\ fromRegistry[p][i].type = "Known" => i = 1
           /\ fromRegistry[p][i].type = "Accepted"
                  => i = 1 \/ (i = 2 /\ fromRegistry[p][1].type = "Known")
    /\ \A m \in Range(fromRegistry[p]) :
           /\ m.type = "Known" => known[p] = {}
           /\ m.type \in {"Known", "Accepted"} => phase[p] \in {"Announced", "Failed"}

RegistrationOK == \A p \in Participant :
    AnnouncedFirst(p) /\ NotToldBefore(p) /\ RegisteredWhileUp(p) /\ WelcomedOnce(p)

\* The messages of a participant do not become announcements again.
LEMMA AnnouncedFirstKept ==
    ASSUME Typed, RegistrationOK, [Next]_vars, NEW a \in Participant
    PROVE  /\ AnnouncedFirst(a)'
           /\ Unannounced(a)' => Unannounced(a)
           /\ Unannounced(a) /\ ~Unannounced(a)'
                  => ReceiveAtRegistry(a) /\ RegisterParticipant(a, Handled(a))
<1>1. toRegistry[a] \in Seq(Sent) /\ AnnouncedFirst(a)
    BY DEF Typed, ToTyped, RegistrationOK
<1>2. phase'[a] = "Out" => phase[a] = "Out"
    BY EndsAreFinal
<1>3. CASE toRegistry'[a] = toRegistry[a]
    <2>1. phase[a] = "Out" /\ phase'[a] # "Out" => FALSE
        <3>1. SUFFICES ASSUME phase[a] = "Out", phase'[a] # "Out" PROVE FALSE
            OBVIOUS
        <3>2. JoinMove(a)
            BY <3>1, JoinSteps DEF Kept
        <3>3. ASSUME NEW t \in Participant, NEW s \in Stage, StageMove(a, t, s) PROVE FALSE
            BY <3>1, <3>3, SetStageFacts DEF StageMove, Typed
        <3>4. Join(a) => toRegistry'[a] # toRegistry[a]
            <4>1. [type |-> "Announcement"] \in Sent
                BY DEF Sent
            <4>2. Join(a) => toRegistry'[a] = Append(toRegistry[a], [type |-> "Announcement"])
                BY <4>1, ToRegistryFacts DEF Join, Typed
            <4>3. Len(Append(toRegistry[a], [type |-> "Announcement"])) = Len(toRegistry[a]) + 1
                BY <1>1, <4>1
            <4> QED BY <1>1, <4>2, <4>3
        <3> QED BY <1>3, <3>1, <3>2, <3>3, <3>4
                DEF JoinMove, HandshakeTimeout, StartConnecting, Leave, Up, ReceiveFromRegistry
    <2> QED BY <1>1, <1>2, <1>3, <2>1 DEF AnnouncedFirst, Unannounced
<1>4. CASE /\ ReceiveAtRegistry(a) /\ toRegistry'[a] = Tail(toRegistry[a])
           /\ Range(toRegistry[a]) = {Head(toRegistry[a])} \cup Range(toRegistry'[a])
    <2>1. toRegistry[a] # <<>> /\ UNCHANGED phase
        BY <1>4 DEF ReceiveAtRegistry, joinVars
    <2>2. phase[a] # "Out" /\ phase'[a] # "Out"
        BY <1>1, <2>1 DEF AnnouncedFirst
    <2>3. \A i \in DOMAIN toRegistry'[a] : toRegistry'[a][i].type # "Announcement"
        BY <1>1, <1>4, <2>1, TailFacts DEF AnnouncedFirst
    <2>4. AnnouncedFirst(a)'
        BY <2>2, <2>3 DEF AnnouncedFirst
    <2>5. ~Unannounced(a)'
        BY <2>2, <2>3 DEF Unannounced, Range
    <2>6. Unannounced(a) => Handled(a).type = "Announcement"
        BY <1>4, <2>2, <2>5 DEF Unannounced, Handled
    <2>7. Handled(a).type = "Announcement" => RegisterParticipant(a, Handled(a))
        BY <1>4 DEF ReceiveAtRegistry, Handled, RelayRequest, RelayProxy, UnregisterParticipant
    <2> QED BY <1>4, <2>4, <2>5, <2>6, <2>7
<1>5. ASSUME NEW m \in Sent, NewSent(a, m), toRegistry'[a] = Append(toRegistry[a], m),
             Range(toRegistry'[a]) = Range(toRegistry[a]) \cup {m}
      PROVE  /\ AnnouncedFirst(a)'
             /\ Unannounced(a)' => Unannounced(a)
             /\ ~(Unannounced(a) /\ ~Unannounced(a)')
    <2>1. CASE Join(a)
        <3>1. phase[a] = "Out" /\ phase'[a] = "Announced" /\ toRegistry[a] = <<>>
            BY <1>1, <2>1 DEF Join, Typed, JoinTyped, AnnouncedFirst
        <3>2. \A i \in DOMAIN toRegistry'[a] : i = 1
            BY <1>1, <1>5, <3>1, AppendFacts
        <3>3. m.type = "Announcement"
            <4>1. [type |-> "Announcement"] \in Sent
                BY DEF Sent
            <4>2. toRegistry'[a] = Append(toRegistry[a], [type |-> "Announcement"])
                BY <2>1, <4>1, ToRegistryFacts DEF Join, Typed
            <4>3. Append(<<>>, m) = <<m>> /\ Append(<<>>, [type |-> "Announcement"]) = <<[type |-> "Announcement"]>>
                OBVIOUS
            <4>4. <<m>>[1] = m /\ <<[type |-> "Announcement"]>>[1] = [type |-> "Announcement"]
                OBVIOUS
            <4>5. m = [type |-> "Announcement"]
                BY <1>5, <3>1, <4>2, <4>3, <4>4
            <4> QED BY <4>5
        <3> QED BY <1>5, <3>1, <3>2, <3>3 DEF AnnouncedFirst, Unannounced
    <2>2. CASE ~Join(a)
        <3>1. m.type # "Announcement"
            BY <1>5, <2>2 DEF NewSent, Request, Proxy
        <3>2. phase[a] # "Out" /\ phase'[a] # "Out"
            BY <1>2, <1>5, <2>2 DEF NewSent, Up
        <3>3. AnnouncedFirst(a)'
            BY <1>1, <1>5, <3>1, <3>2, AppendFacts DEF AnnouncedFirst
        <3> QED BY <1>5, <3>1, <3>2, <3>3 DEF Unannounced
    <2> QED BY <2>1, <2>2
<1> QED BY <1>3, <1>4, <1>5, SentSteps

\* The registry learns of a participant by its announcement, and forgets it when
\* the connection is closed.
LEMMA RegistrySteps ==
    ASSUME Typed, [Next]_vars, NEW a \in Participant
    PROVE  /\ a \in connected' => \/ a \in connected
                                  \/ ReceiveAtRegistry(a) /\ RegisterParticipant(a, Handled(a))
           /\ a \in connected => \/ a \in connected'
                                 \/ ReceiveAtRegistry(a) /\ Handled(a).type = "Shutdown"
           /\ a \in routes' => \/ a \in routes
                               \/ ReceiveAtRegistry(a) /\ RegisterParticipant(a, Handled(a))
<1>1. UNCHANGED registryVars \/ \E p \in Participant :
          ReceiveAtRegistry(p) \/ RefuseSecond(p) \/ SecondShutdown(p)
    BY RegistryMoves
<1>2. ASSUME NEW p \in Participant, ReceiveAtRegistry(p)
      PROVE  /\ a \in connected' => a \in connected \/ (a = p /\ RegisterParticipant(a, Handled(a)))
             /\ a \in connected => a \in connected' \/ (a = p /\ Handled(a).type = "Shutdown")
             /\ a \in routes' => a \in routes \/ (a = p /\ RegisterParticipant(a, Handled(a)))
    <2>1. \/ RegisterParticipant(p, Handled(p)) \/ RelayRequest(p, Handled(p))
          \/ RelayProxy(p, Handled(p)) \/ UnregisterParticipant(p, Handled(p))
        BY <1>2 DEF ReceiveAtRegistry, Handled
    <2>2. CASE RegisterParticipant(p, Handled(p))
        BY <2>2 DEF RegisterParticipant
    <2>3. CASE RelayRequest(p, Handled(p)) \/ RelayProxy(p, Handled(p))
        BY <2>3 DEF RelayRequest, RelayProxy, registryVars
    <2>4. CASE UnregisterParticipant(p, Handled(p))
        BY <2>4 DEF UnregisterParticipant, PeerOfNameShutdown
    <2> QED BY <2>1, <2>2, <2>3, <2>4
<1>3. ASSUME NEW p \in Participant, RefuseSecond(p) \/ SecondShutdown(p)
      PROVE  connected' = connected /\ routes' \subseteq routes
    BY <1>3 DEF RefuseSecond, SecondShutdown, PeerOfNameShutdown
<1> QED BY <1>1, <1>2, <1>3 DEF registryVars

LEMMA NotToldBeforeKept ==
    ASSUME Typed, RegistrationOK, [Next]_vars, NEW a \in Participant
    PROVE  NotToldBefore(a)'
<1> SUFFICES ASSUME Unannounced(a)'
             PROVE  /\ fromRegistry'[a] = <<>> /\ a \notin connected' /\ a \notin routes'
                    /\ known'[a] = {}
                    /\ phase'[a] \in {"Out", "Announced", "Failed", "Left"}
    BY DEF NotToldBefore
<1>1. Unannounced(a)
    BY AnnouncedFirstKept
<1>2. /\ fromRegistry[a] = <<>> /\ a \notin connected /\ a \notin routes /\ known[a] = {}
      /\ phase[a] \in {"Out", "Announced", "Failed", "Left"}
    BY <1>1 DEF RegistrationOK, NotToldBefore
<1>3. ~(ReceiveAtRegistry(a) /\ RegisterParticipant(a, Handled(a)))
    <2>1. SUFFICES ASSUME ReceiveAtRegistry(a), RegisterParticipant(a, Handled(a)) PROVE FALSE
        OBVIOUS
    <2>2. toRegistry[a] \in Seq(Sent) /\ toRegistry[a] # <<>> /\ toRegistry'[a] = Tail(toRegistry[a])
        BY <2>1, ToHeadFacts DEF ReceiveAtRegistry, Typed, ToTyped
    <2>3. \A i \in DOMAIN toRegistry'[a] : toRegistry'[a][i].type # "Announcement"
        BY <2>2, TailFacts DEF RegistrationOK, AnnouncedFirst
    <2>4. phase'[a] = phase[a] /\ phase[a] # "Out"
        BY <2>1, <2>2 DEF RegistrationOK, AnnouncedFirst, ReceiveAtRegistry, joinVars
    <2> QED BY <2>3, <2>4 DEF Unannounced, Range
<1>4. fromRegistry'[a] = <<>>
    BY <1>2, <1>3, DeliveredSteps DEF DeliveredStep, NewDelivered, ReceiveFromRegistry
<1>5. a \notin connected' /\ a \notin routes'
    BY <1>2, <1>3, RegistrySteps
<1>6. ASSUME NEW t \in Participant, NEW s \in Stage, StageMove(a, t, s)
      PROVE  known'[a] = known[a] /\ phase'[a] = phase[a]
    BY <1>2, <1>6, SetStageFacts DEF StageMove, Typed
<1>7. JoinMove(a) \/ Kept(a)
    BY JoinSteps
<1>8. known'[a] = {}
    BY <1>2, <1>6, <1>7
       DEF JoinMove, Kept, Join, HandshakeTimeout, StartConnecting, Leave, ReceiveFromRegistry
<1>9. phase'[a] \in {"Out", "Announced", "Failed", "Left"}
    BY <1>2, <1>6, <1>7
       DEF JoinMove, Kept, Join, HandshakeTimeout, StartConnecting, Leave, ReceiveFromRegistry,
           Typed, JoinTyped
<1> QED BY <1>4, <1>5, <1>8, <1>9

LEMMA RegisteredWhileUpKept ==
    ASSUME Typed, DepartedOnly, RegistrationOK, [Next]_vars, NEW a \in Participant
    PROVE  RegisteredWhileUp(a)'
<1> SUFFICES ASSUME phase'[a] # "Left", ~Unannounced(a)' PROVE a \in connected'
    BY DEF RegisteredWhileUp
<1>1. phase[a] # "Left"
    BY EndsAreFinal
<1>2. CASE Unannounced(a)
    <2>1. RegisterParticipant(a, Handled(a))
        BY <1>2, AnnouncedFirstKept
    <2> QED BY <2>1 DEF RegisterParticipant
<1>3. CASE ~Unannounced(a)
    <2>1. a \in connected
        BY <1>1, <1>3 DEF RegistrationOK, RegisteredWhileUp
    <2>2. ~(ReceiveAtRegistry(a) /\ Handled(a).type = "Shutdown")
        <3>1. ReceiveAtRegistry(a) => Handled(a) \in Range(toRegistry[a])
            BY ToHeadFacts DEF ReceiveAtRegistry, Typed, Handled
        <3> QED BY <1>1, <3>1 DEF DepartedOnly
    <2> QED BY <2>1, <2>2, RegistrySteps
<1> QED BY <1>2, <1>3

\* What is welcomed waits, and is not told twice.
LEMMA WelcomedOnceKept ==
    ASSUME Typed, RegistrationOK, [Next]_vars, NEW a \in Participant
    PROVE  WelcomedOnce(a)'
<1>1. fromRegistry[a] \in Seq(Delivered) /\ WelcomedOnce(a) /\ phase[a] \in Phase
    BY DEF Typed, FromTyped, JoinTyped, RegistrationOK
<1>2. JoinMove(a) \/ Kept(a)
    BY JoinSteps
<1>3. ASSUME NEW t \in Participant, NEW s \in Stage, StageMove(a, t, s)
      PROVE  /\ known'[a] = known[a]
             /\ phase[a] \in {"Announced", "Failed"} => phase'[a] = phase[a]
    BY <1>3, SetStageFacts DEF StageMove, Typed
<1>4. CASE fromRegistry'[a] = <<>>
    BY <1>4 DEF WelcomedOnce, Range
<1>5. CASE ReceiveFromRegistry(a) /\ fromRegistry'[a] = Tail(fromRegistry[a])
    <2>1. /\ fromRegistry[a] # <<>>
          /\ \A i \in DOMAIN fromRegistry'[a] :
                 /\ i + 1 \in DOMAIN fromRegistry[a] /\ i + 1 # 1 /\ i \in Nat
                 /\ fromRegistry'[a][i] = fromRegistry[a][i + 1]
          /\ Taken(a) = fromRegistry[a][1]
        <3>1. fromRegistry[a] # <<>>
            BY <1>5 DEF ReceiveFromRegistry
        <3>2. Taken(a) = fromRegistry[a][1]
            BY <1>1, <3>1 DEF Taken
        <3>3. \A i \in DOMAIN Tail(fromRegistry[a]) : i \in Nat
            BY <1>1, <3>1
        <3> QED BY <1>1, <1>5, <3>1, <3>2, <3>3, TailFacts
    <2>2. \A i \in DOMAIN fromRegistry'[a] :
              /\ fromRegistry'[a][i].type # "Known"
              /\ fromRegistry'[a][i].type = "Accepted" => i = 1 /\ Taken(a).type = "Known"
        BY <1>1, <2>1 DEF WelcomedOnce
    <2>3. ASSUME NEW m \in Range(fromRegistry'[a]), m.type \in {"Known", "Accepted"}
          PROVE  phase'[a] \in {"Announced", "Failed"}
        <3>1. m.type = "Accepted" /\ Taken(a).type = "Known" /\ m \in Range(fromRegistry[a])
            BY <2>1, <2>2, <2>3 DEF Range
        <3>2. phase[a] \in {"Announced", "Failed"}
            BY <1>1, <3>1 DEF WelcomedOnce
        <3>3. ReceiveFromRegistry(a) => ~Join(a) /\ ~HandshakeTimeout(a) /\ ~StartConnecting(a) /\ ~Leave(a)
            <4>1. fromRegistry'[a] # fromRegistry[a]
                BY <1>1, <1>5, <2>1, TailIsShorter
            <4>2. ReceiveFromRegistry(a) /\ Leave(a) => FALSE
                BY <2>3, <1>1 DEF Leave, Typed, FromTyped, Range
            <4> QED BY <4>1, <4>2 DEF Join, HandshakeTimeout, StartConnecting, channelVars
        <3>4. ~ReceiveAccepted(a, Taken(a))
            BY <3>1 DEF ReceiveAccepted
        <3> QED BY <1>2, <1>3, <1>5, <3>2, <3>3, <3>4 DEF JoinMove, Kept, ReceiveKnown
    <2> QED BY <2>2, <2>3 DEF WelcomedOnce, Range
<1>6. ASSUME \/ fromRegistry'[a] = fromRegistry[a]
             \/ \E m \in Delivered : NewDelivered(a, m) /\ fromRegistry'[a] = Append(fromRegistry[a], m)
      PROVE  WelcomedOnce(a)'
    <2>1. ASSUME NEW m \in Delivered, NewDelivered(a, m) PROVE m.type \in {"Request", "Proxy"}
        BY <2>1 DEF NewDelivered, Proxy
    <2> DEFINE SameWelcome ==
          /\ \A i \in DOMAIN fromRegistry'[a] :
                 fromRegistry'[a][i].type \in {"Known", "Accepted"}
                     => i \in DOMAIN fromRegistry[a] /\ fromRegistry'[a][i] = fromRegistry[a][i]
          /\ \A m \in Range(fromRegistry'[a]) :
                 m.type \in {"Known", "Accepted"} => m \in Range(fromRegistry[a])
          /\ fromRegistry[a] # <<>> => fromRegistry'[a][1] = fromRegistry[a][1]
    <2>2. SameWelcome
        <3>1. CASE fromRegistry'[a] = fromRegistry[a]
            BY <3>1
        <3>2. ASSUME NEW m \in Delivered, NewDelivered(a, m), fromRegistry'[a] = Append(fromRegistry[a], m)
              PROVE  SameWelcome
            <4>1. m.type \notin {"Known", "Accepted"}
                BY <2>1, <3>2
            <4>2. fromRegistry[a] # <<>> => fromRegistry'[a][1] = fromRegistry[a][1]
                BY <1>1, <3>2
            <4> QED BY <1>1, <3>2, <4>1, <4>2, AppendFacts
        <3> QED BY <1>6, <3>1, <3>2
    <2>3. \/ fromRegistry'[a] # <<>> /\ fromRegistry[a] # <<>>
          \/ \A m \in Range(fromRegistry'[a]) : m.type \notin {"Known", "Accepted"}
        BY <1>1, <2>2 DEF Range
    <2>4. ASSUME NEW m \in Range(fromRegistry'[a]), m.type \in {"Known", "Accepted"}
          PROVE  phase'[a] \in {"Announced", "Failed"} /\ known'[a] = known[a]
        <3>1. phase[a] \in {"Announced", "Failed"}
            BY <1>1, <2>2, <2>4 DEF WelcomedOnce
        <3>2. fromRegistry[a] # <<>> /\ fromRegistry'[a] # <<>>
            BY <2>3, <2>4
        <3>3. fromRegistry'[a] # Tail(fromRegistry[a])
            BY <1>1, <1>6, <3>2, TailIsShorter
        <3>4. ~Leave(a) /\ ~ReceiveFromRegistry(a)
            BY <3>2, <3>3, FromHeadFacts DEF Leave, ReceiveFromRegistry, Typed, FromTyped
        <3> QED BY <1>1, <1>2, <1>3, <3>1, <3>4
                DEF JoinMove, Kept, Join, HandshakeTimeout, StartConnecting, Typed, JoinTyped
    <2>5. \A i \in DOMAIN fromRegistry'[a] :
              /\ fromRegistry'[a][i].type = "Known" => i = 1
              /\ fromRegistry'[a][i].type = "Accepted"
                     => i = 1 \/ (i = 2 /\ fromRegistry'[a][1].type = "Known")
        <3> TAKE i \in DOMAIN fromRegistry'[a]
        <3>1. fromRegistry'[a][i].type \in {"Known", "Accepted"} => fromRegistry[a] # <<>>
            BY <1>1, <2>2
        <3> QED BY <1>1, <2>2, <3>1 DEF WelcomedOnce
    <2>6. \A m \in Range(fromRegistry'[a]) : m.type = "Known" => known'[a] = {}
        BY <1>1, <2>2, <2>4 DEF WelcomedOnce
    <2> QED BY <2>4, <2>5, <2>6 DEF WelcomedOnce
<1>7. ASSUME ReceiveAtRegistry(a), RegisterParticipant(a, Handled(a)), Up(a),
             fromRegistry'[a] = fromRegistry[a] \o Welcome(a),
             Range(fromRegistry'[a]) = Range(fromRegistry[a]) \cup Range(Welcome(a))
      PROVE  WelcomedOnce(a)'
    <2>1. Handled(a) \in Range(toRegistry[a]) /\ Handled(a).type = "Announcement"
        BY <1>7, ToHeadFacts DEF ReceiveAtRegistry, Typed, Handled, RegisterParticipant
    <2>2. Unannounced(a)
        BY <2>1 DEF Unannounced
    <2>3. fromRegistry[a] = <<>> /\ known[a] = {} /\ phase[a] \in {"Announced", "Failed"}
        BY <1>7, <2>2 DEF RegistrationOK, NotToldBefore, Up
    <2>4. known'[a] = {} /\ phase'[a] \in {"Announced", "Failed"}
        BY <1>7, <2>3 DEF ReceiveAtRegistry, joinVars
    <2>5. fromRegistry'[a] = Welcome(a)
        <3>1. Welcome(a) \in Seq(Delivered)
            BY WelcomeFacts DEF Typed, Welcome
        <3> QED BY <1>7, <2>3, <3>1
    <2>6. /\ DOMAIN Welcome(a) = 1..2
          /\ Welcome(a)[1].type = "Known" /\ Welcome(a)[2].type = "Accepted"
        BY DEF Welcome
    <2>7. \A i \in 1..2 : i = 1 \/ i = 2
        OBVIOUS
    <2> QED BY <2>4, <2>5, <2>6, <2>7 DEF WelcomedOnce
<1> QED BY <1>4, <1>5, <1>6, <1>7, DeliveredSteps DEF DeliveredStep

\* q is a known participant of p, or on its way to be one.
Told(p, q) ==
    \/ q \in known[p]
    \/ \E m \in Range(fromRegistry[p]) : m.type = "Known" /\ q \in m.participants

\* Of two registered participants, one has been told of the other.
OneIsTold ==
    \A p, q \in connected :
        p # q /\ phase[p] # "Left" /\ phase[q] # "Left" => Told(p, q) \/ Told(q, p)

LEMMA RegistrationKept ==
    Typed /\ DepartedOnly /\ RegistrationOK /\ [Next]_vars => RegistrationOK'
BY AnnouncedFirstKept, NotToldBeforeKept, RegisteredWhileUpKept, WelcomedOnceKept DEF RegistrationOK

\* What a participant was told of is not forgotten while it is there.
LEMMA ToldStays ==
    ASSUME Typed, RegistrationOK, [Next]_vars, NEW p \in Participant, NEW q \in Participant,
           Told(p, q), phase'[p] # "Left"
    PROVE  Told(p, q)'
<1>1. fromRegistry[p] \in Seq(Delivered) /\ WelcomedOnce(p)
    BY DEF Typed, FromTyped, RegistrationOK
<1>2. JoinMove(p) \/ Kept(p)
    BY JoinSteps
<1>3. ~Leave(p)
    BY DEF Leave, Typed, JoinTyped
<1>4. ASSUME NEW t \in Participant, NEW s \in Stage, StageMove(p, t, s)
      PROVE  known'[p] = known[p]
    BY <1>4, SetStageFacts DEF StageMove, Typed
<1>5. \/ known'[p] = known[p]
      \/ ReceiveFromRegistry(p) /\ ReceiveKnown(p, Taken(p))
    BY <1>2, <1>3, <1>4
       DEF JoinMove, Kept, Join, HandshakeTimeout, StartConnecting, ReceiveAccepted
<1>6. ASSUME ReceiveFromRegistry(p), ReceiveKnown(p, Taken(p))
      PROVE  Told(p, q)'
    <2>1. Taken(p) \in Range(fromRegistry[p]) /\ Taken(p) = fromRegistry[p][1]
        <3>1. fromRegistry[p] # <<>>
            BY <1>6 DEF ReceiveFromRegistry
        <3> QED BY <1>1, <3>1 DEF Taken, Range
    <2>2. known[p] = {} /\ known'[p] = Taken(p).participants
        BY <1>1, <1>6, <2>1 DEF WelcomedOnce, ReceiveKnown, Typed, JoinTyped
    <2>3. \A m \in Range(fromRegistry[p]) : m.type = "Known" => m = Taken(p)
        BY <1>1, <2>1 DEF WelcomedOnce, Range
    <2> QED BY <2>2, <2>3 DEF Told
<1>7. ASSUME known'[p] = known[p], ~(ReceiveFromRegistry(p) /\ ReceiveKnown(p, Taken(p)))
      PROVE  Told(p, q)'
    <2>1. ASSUME ReceiveFromRegistry(p), Taken(p).type = "Known" PROVE FALSE
        BY <1>7, <2>1 DEF ReceiveFromRegistry, Taken, ReceiveAccepted, ReceiveRequest,
                          ReceiveRequestStatus, ReceiveProxy, ReceiveProxyShutdown
    <2>2. \A m \in Range(fromRegistry[p]) : m.type = "Known" => m \in Range(fromRegistry'[p])
        BY <1>3, <2>1, DeliveredSteps DEF DeliveredStep
    <2> QED BY <1>7, <2>2 DEF Told
<1> QED BY <1>5, <1>6, <1>7

\* A participant that registers is told of all that are registered.
LEMMA OneIsToldKept ==
    Typed /\ RegistrationOK /\ OneIsTold /\ [Next]_vars => OneIsTold'
<1> SUFFICES ASSUME Typed, RegistrationOK, OneIsTold, [Next]_vars,
                    NEW p \in connected', NEW q \in connected', p # q,
                    phase'[p] # "Left", phase'[q] # "Left"
             PROVE  Told(p, q)' \/ Told(q, p)'
    BY DEF OneIsTold
<1>1. p \in Participant /\ q \in Participant
    BY NextTypes DEF Typed, RegistryTyped
<1>2. phase[p] # "Left" /\ phase[q] # "Left"
    BY <1>1, EndsAreFinal
<1>3. CASE p \in connected /\ q \in connected
    BY <1>1, <1>2, <1>3, ToldStays DEF OneIsTold
<1>4. ASSUME NEW a \in Participant, NEW b \in connected', a # b, a \notin connected, a \in connected',
             phase'[a] # "Left"
      PROVE  Told(a, b)'
    <2>1. ReceiveAtRegistry(a) /\ RegisterParticipant(a, Handled(a))
        BY <1>4, RegistrySteps
    <2>2. toRegistry[a] # <<>> /\ phase'[a] = phase[a]
        BY <2>1 DEF ReceiveAtRegistry, joinVars
    <2>3. Up(a)
        BY <1>4, <2>2 DEF Up, RegistrationOK, AnnouncedFirst
    <2>4. Welcome(a) \in Seq(Delivered) /\ FromRegistry(a, Welcome(a))
              /\ [type |-> "Known", participants |-> KnownTo(a)] \in Range(Welcome(a))
        BY <2>1, WelcomeFacts DEF RegisterParticipant, Typed, Welcome
    <2>5. [type |-> "Known", participants |-> KnownTo(a)] \in Range(fromRegistry'[a])
        BY <2>3, <2>4, FromRegistryFacts DEF Typed
    <2>6. b \in KnownTo(a)
        BY <1>4, <2>1 DEF RegisterParticipant, KnownTo
    <2> QED BY <2>5, <2>6 DEF Told
<1> QED BY <1>1, <1>3, <1>4

-----------------------------------------------------------------------------
(* Announcements and replies of participants.                              *)

\* A message is sent on a connection between participants when its answer is due.
LEMMA WireSteps ==
    ASSUME Typed, [Next]_vars, NEW m \in wire', m \notin wire, m.payload = "Reply"
    PROVE  m.kind \in Kind /\ m.from \in Participant /\ m.to \in Participant
               /\ AddPeer(m.from, m.kind, m.to)
<1>1. m \in WireMessage
    BY NextTypes DEF Typed
<1>2. m.kind \in Kind /\ m.from \in Participant /\ m.to \in Participant
    BY <1>1 DEF WireMessage, Kind
<1>3. ASSUME NEW p \in Participant, NEW k \in Kind, NEW q \in Participant, NEW payload,
             m \in OnWire(p, k, q, Answers(p, q, payload)), Handle(p, k, q, payload)
      PROVE  AddPeer(m.from, m.kind, m.to)
    <2>1. payload = "Announcement" /\ m = [kind |-> k, from |-> p, to |-> q, payload |-> "Reply"]
        BY <1>3, OnWireFacts
    <2>2. AddPeer(p, k, q)
        BY <1>3, <2>1 DEF Handle
    <2> QED BY <2>1, <2>2
<1>4. ASSUME NEW p \in Participant,
             \/ Join(p) \/ HandshakeTimeout(p) \/ StartConnecting(p) \/ Leave(p)
             \/ ReceiveAtRegistry(p) \/ RefuseSecond(p) \/ SecondShutdown(p)
      PROVE  wire' \subseteq wire
    BY <1>4 DEF Join, HandshakeTimeout, StartConnecting, Leave, ReceiveAtRegistry, RefuseSecond,
                SecondShutdown, channelVars
<1>5. ASSUME NEW p \in Participant, NEW q \in Participant,
             \/ DirectSuccess(p, q) \/ DirectFailure(p, q) \/ TimerExpired(p, q)
             \/ ReverseSuccess(p, q) \/ ReverseFailure(p, q) \/ PeerShutdown(p, q)
      PROVE  \A x \in wire' : x \in wire \/ x.payload # "Reply"
    <2>1. CASE DirectSuccess(p, q)
        BY <2>1 DEF DirectSuccess
    <2>2. CASE ReverseSuccess(p, q)
        BY <2>2 DEF ReverseSuccess
    <2>3. CASE DirectFailure(p, q) \/ TimerExpired(p, q) \/ ReverseFailure(p, q) \/ PeerShutdown(p, q)
        BY <2>3 DEF DirectFailure, TimerExpired, ReverseFailure, PeerShutdown, channelVars
    <2> QED BY <1>5, <2>1, <2>2, <2>3
<1>6. ASSUME NEW p \in Participant, NEW q \in Participant, ReceiveFromPeer(p, q)
      PROVE  AddPeer(m.from, m.kind, m.to)
    <2>1. PICK x \in wire :
              /\ Handle(p, x.kind, q, x.payload)
              /\ wire' = (wire \ {x}) \cup OnWire(p, x.kind, q, Answers(p, q, x.payload))
        BY <1>6 DEF ReceiveFromPeer
    <2>2. x.kind \in Kind
        BY <2>1 DEF Typed, WireMessage, Kind
    <2> QED BY <1>3, <2>1, <2>2
<1>7. ASSUME NEW p \in Participant, ReceiveFromRegistry(p)
      PROVE  AddPeer(m.from, m.kind, m.to)
    <2> DEFINE x == Taken(p)
    <2>1. \/ ReceiveKnown(p, x) \/ ReceiveAccepted(p, x) \/ ReceiveRequest(p, x)
          \/ ReceiveRequestStatus(p, x) \/ ReceiveProxy(p, x) \/ ReceiveProxyShutdown(p, x)
        BY <1>7 DEF ReceiveFromRegistry, Taken
    <2>2. x \in Delivered
        BY <1>7, FromHeadFacts DEF ReceiveFromRegistry, Typed, Taken
    <2> HIDE DEF x
    <2>3. ReceiveProxy(p, x)
        BY <2>1 DEF ReceiveKnown, ReceiveAccepted, ReceiveRequest, ReceiveRequestStatus,
                    ReceiveProxyShutdown
    <2>4. x \in ProxyMessage({"Announcement", "Reply", "Shutdown"})
        BY <2>2, <2>3, MessageFields DEF ReceiveProxy
    <2>5. PICK k \in Kind : ProxyHandled(p, x, k)
        BY <2>3, <2>4, ReceiveProxyFacts
    <2>6. /\ x.source \in Participant /\ Handle(p, k, x.source, x.payload)
          /\ x.payload = "Announcement"
          /\ wire' = wire \cup OnWire(p, k, x.source, Answers(p, x.source, x.payload))
        BY <2>5 DEF ProxyHandled
    <2> QED BY <1>3, <2>6
<1>8. UNCHANGED vars => wire' = wire
    BY DEF vars, channelVars
<1> QED BY <1>2, <1>4, <1>5, <1>6, <1>7, <1>8 DEF Next

Stayed(p, q) == ~Gone(p) /\ ~Gone(q)

InFlight(m) ==
    \E a \in Participant : m \in Range(toRegistry[a]) \/ m \in Range(fromRegistry[a])

\* The registry relays a message to its destination.
RelayedRight == \A a \in Participant : \A m \in Range(fromRegistry[a]) :
    m.type = "Proxy" => m.destination = a

\* The sender of an announcement or a reply has the receiver for a peer; that of a
\* reply by proxy was one of its receiver's, too.
PeersBehindMessages ==
    \A p, q \in Participant : Stayed(p, q) =>
        /\ \A m \in wire : m.from = q /\ m.to = p /\ m.payload = "Reply" => <<m.kind, p>> \in peers[q]
        /\ InFlight(Proxy(p, q, "Announcement")) => <<"proxy", q>> \in peers[p]
        /\ InFlight(Proxy(q, p, "Reply")) => <<"proxy", p>> \in peers[q] /\ <<"proxy", q>> \in peers[p]

RepliedAreLinked ==
    \A p, q \in Participant : Stayed(p, q) /\ stage[p][q] = "ReplyReceived" => Links(p, q) # {}

\* JoinSimulation has succeeded when the last reply has arrived.
JoinedHasReplies ==
    \A p \in Participant : phase[p] = "Joined" => \A t \in known[p] : stage[p][t] = "ReplyReceived"

LEMMA ProxyFields ==
    /\ \A m \in ProxyMessage({"Announcement", "Reply", "Shutdown"}) :
           m = Proxy(m.source, m.destination, m.payload)
    /\ \A s, d, c, s2, d2, c2 : Proxy(s, d, c) = Proxy(s2, d2, c2) => s = s2 /\ d = d2 /\ c = c2
<1>1. ASSUME NEW s, NEW d, NEW c
      PROVE  Proxy(s, d, c).source = s /\ Proxy(s, d, c).destination = d /\ Proxy(s, d, c).payload = c
    BY DEF Proxy
<1>2. ASSUME NEW s, NEW d, NEW c, NEW s2, NEW d2, NEW c2, Proxy(s, d, c) = Proxy(s2, d2, c2)
      PROVE  s = s2 /\ d = d2 /\ c = c2
    <2>1. /\ Proxy(s, d, c).source = s /\ Proxy(s, d, c).destination = d /\ Proxy(s, d, c).payload = c
          /\ Proxy(s2, d2, c2).source = s2 /\ Proxy(s2, d2, c2).destination = d2
          /\ Proxy(s2, d2, c2).payload = c2
        BY <1>1
    <2> QED BY <1>2, <2>1
<1> QED BY <1>2 DEF ProxyMessage, Proxy

LEMMA RelayedRightKept == Typed /\ RelayedRight /\ [Next]_vars => RelayedRight'
<1> SUFFICES ASSUME Typed, RelayedRight, [Next]_vars, NEW a \in Participant,
                    NEW m \in Range(fromRegistry'[a]), m.type = "Proxy"
             PROVE  m.destination = a
    BY DEF RelayedRight
<1>1. m \in Range(fromRegistry[a]) => m.destination = a
    BY DEF RelayedRight
<1>2. NewDelivered(a, m) => m.destination = a
    BY DEF NewDelivered, Proxy
<1>3. m \notin Range(Welcome(a)) /\ m \notin Range(<<>>)
    BY WelcomeFacts DEF Typed, Welcome, Range
<1> QED BY <1>1, <1>2, <1>3, DeliveredSteps DEF DeliveredStep

\* A message that is in flight was, or was just sent.
LEMMA InFlightSteps ==
    ASSUME Typed, [Next]_vars, NEW m, m.type = "Proxy", m.payload # "Shutdown", InFlight(m)'
    PROVE  InFlight(m) \/ \E a \in Participant : NewSent(a, m)
<1>1. ASSUME NEW a \in Participant, m \in Range(toRegistry'[a])
      PROVE  m \in Range(toRegistry[a]) \/ NewSent(a, m)
    BY <1>1, SentSteps
<1>2. ASSUME NEW a \in Participant, m \in Range(fromRegistry'[a])
      PROVE  m \in Range(fromRegistry[a]) \/ \E s \in Participant : m \in Range(toRegistry[s])
    <2>1. ASSUME NewDelivered(a, m) PROVE \E s \in Participant : m \in Range(toRegistry[s])
        <3>1. PICK s \in Participant : ReceiveAtRegistry(s) /\ m = Handled(s)
            BY <2>1 DEF NewDelivered, Proxy
        <3> QED BY <3>1, ToHeadFacts DEF ReceiveAtRegistry, Typed, Handled
    <2>2. m \notin Range(Welcome(a)) /\ m \notin Range(<<>>)
        BY WelcomeFacts DEF Typed, Welcome, Range
    <2> QED BY <1>2, <2>1, <2>2, DeliveredSteps DEF DeliveredStep
<1> QED BY <1>1, <1>2 DEF InFlight

LEMMA PeersBehindMessagesKept ==
    Typed /\ DepartedOnly /\ RelayedRight /\ PeersBehindMessages /\ [Next]_vars
        => PeersBehindMessages'
<1> SUFFICES ASSUME Typed, DepartedOnly, RelayedRight, PeersBehindMessages, [Next]_vars,
                    NEW p \in Participant, NEW q \in Participant, Stayed(p, q)'
             PROVE  /\ \A m \in wire' : m.from = q /\ m.to = p /\ m.payload = "Reply"
                           => <<m.kind, p>> \in peers'[q]
                    /\ InFlight(Proxy(p, q, "Announcement"))' => <<"proxy", q>> \in peers'[p]
                    /\ InFlight(Proxy(q, p, "Reply"))'
                           => <<"proxy", p>> \in peers'[q] /\ <<"proxy", q>> \in peers'[p]
    BY DEF PeersBehindMessages
<1>1. Stayed(p, q) /\ phase'[p] # "Left" /\ phase'[q] # "Left"
    BY EndsAreFinal DEF Stayed, Gone
<1>2. \A k \in Kind : /\ <<k, q>> \in peers[p] => <<k, q>> \in peers'[p]
                      /\ <<k, p>> \in peers[q] => <<k, p>> \in peers'[q]
    BY <1>1, PeersSteps DEF Stayed
<1>3. ASSUME NEW a \in Participant, NEW k \in Kind, NEW b \in Participant, AddPeer(a, k, b)
      PROVE  <<k, b>> \in peers'[a]
    BY <1>3, AddPeerFacts DEF Typed
<1>4. ASSUME NEW m \in wire', m.from = q, m.to = p, m.payload = "Reply"
      PROVE  <<m.kind, p>> \in peers'[q]
    <2>1. CASE m \in wire
        <3>1. m.kind \in Kind
            BY <2>1 DEF Typed, WireMessage, Kind
        <3> QED BY <1>1, <1>2, <1>4, <2>1, <3>1 DEF PeersBehindMessages
    <2>2. CASE m \notin wire
        BY <1>3, <1>4, <2>2, WireSteps
    <2> QED BY <2>1, <2>2
<1>5. "proxy" \in Kind
    BY DEF Kind
<1>6. ASSUME InFlight(Proxy(p, q, "Announcement"))'
      PROVE  <<"proxy", q>> \in peers'[p]
    <2>1. InFlight(Proxy(p, q, "Announcement"))
              \/ \E a \in Participant : NewSent(a, Proxy(p, q, "Announcement"))
        BY <1>6, InFlightSteps DEF Proxy
    <2>2. ASSUME NEW a \in Participant, NewSent(a, Proxy(p, q, "Announcement"))
          PROVE  AddPeer(p, "proxy", q)
        <3> DEFINE m == Proxy(p, q, "Announcement")
        <3>1. m.type = "Proxy" /\ m.payload = "Announcement"
            BY DEF Proxy
        <3>2. PICK t \in Participant, c \in {"Announcement", "Reply"} :
                  m = Proxy(a, t, c) /\ AddPeer(a, "proxy", t)
            BY <2>2, <3>1 DEF NewSent, Request
        <3> QED BY <3>2, ProxyFields
    <2> QED BY <1>1, <1>2, <1>3, <1>5, <2>1, <2>2 DEF PeersBehindMessages
<1>7. ASSUME InFlight(Proxy(q, p, "Reply"))'
      PROVE  <<"proxy", p>> \in peers'[q] /\ <<"proxy", q>> \in peers'[p]
    <2>1. InFlight(Proxy(q, p, "Reply"))
              \/ \E a \in Participant : NewSent(a, Proxy(q, p, "Reply"))
        BY <1>7, InFlightSteps DEF Proxy
    <2>2. ASSUME NEW a \in Participant, NewSent(a, Proxy(q, p, "Reply"))
          PROVE  AddPeer(q, "proxy", p) /\ InFlight(Proxy(p, q, "Announcement"))
        <3> DEFINE m == Proxy(q, p, "Reply")
        <3>1. m.type = "Proxy" /\ m.payload = "Reply"
            BY DEF Proxy
        <3>2. PICK t \in Participant :
                  /\ m = Proxy(a, t, "Reply") /\ AddPeer(a, "proxy", t)
                  /\ \E x \in Range(fromRegistry[a]) :
                         x.type = "Proxy" /\ x.source = t /\ x.payload = "Announcement"
            BY <2>2, <3>1 DEF NewSent, Request, Proxy
        <3>3. a = q /\ t = p
            BY <3>2, ProxyFields
        <3>4. PICK x \in Range(fromRegistry[q]) :
                  x.type = "Proxy" /\ x.source = p /\ x.payload = "Announcement"
            BY <3>2, <3>3
        <3>5. x \in Delivered /\ x.destination = q
            BY <3>4 DEF Typed, FromTyped, Range, RelayedRight
        <3>6. x = Proxy(p, q, "Announcement")
            BY <3>4, <3>5, MessageFields, ProxyFields
        <3> QED BY <3>2, <3>3, <3>6 DEF InFlight
    <2> QED BY <1>1, <1>2, <1>3, <1>5, <2>1, <2>2 DEF PeersBehindMessages
<1> QED BY <1>4, <1>6, <1>7

\* The reply that ends the connecting of a pair finds the peers on both sides.
LEMMA RepliedAreLinkedKept ==
    /\ Typed /\ DepartedOnly /\ RelayedRight /\ PeersBehindMessages /\ RepliedAreLinked /\ [Next]_vars
        => RepliedAreLinked'
<1> SUFFICES ASSUME Typed, DepartedOnly, RelayedRight, PeersBehindMessages, RepliedAreLinked,
                    [Next]_vars, NEW p \in Participant, NEW q \in Participant, Stayed(p, q)',
                    stage'[p][q] = "ReplyReceived"
             PROVE  (Links(p, q) # {})'
    BY DEF RepliedAreLinked
<1>1. Stayed(p, q) /\ phase'[p] # "Left" /\ phase'[q] # "Left"
    BY EndsAreFinal DEF Stayed, Gone
<1>2. CASE stage[p][q] = "ReplyReceived"
    <2>1. PICK k \in Kind : <<k, q>> \in peers[p] /\ <<k, p>> \in peers[q]
        BY <1>1, <1>2 DEF RepliedAreLinked, Links
    <2>2. <<k, q>> \in peers'[p] /\ <<k, p>> \in peers'[q]
        BY <1>1, <2>1, PeersSteps DEF Stayed
    <2> QED BY <2>2 DEF Links
<1>3. CASE stage[p][q] # "ReplyReceived"
    <2>1. JoinMove(p) \/ Kept(p)
        BY JoinSteps
    <2>2. ~StartConnecting(p)
        BY DEF StartConnecting, Typed, JoinTyped
    <2>3. PICK t \in Participant, s \in Stage : StageMove(p, t, s)
        BY <1>3, <2>1, <2>2
           DEF JoinMove, Kept, Join, HandshakeTimeout, Leave, ReceiveKnown, ReceiveAccepted
    <2>4. t = q /\ s = "ReplyReceived"
        BY <1>3, <2>3, SetStageFacts DEF StageMove, Typed
    <2>5. ReplyArrives(p, q)
        BY <2>3, <2>4 DEF StageMove
    <2>6. \E k \in Kind : <<k, q>> \in peers[p] /\ <<k, p>> \in peers[q]
        <3>1. PICK k \in Kind :
                  /\ <<k, q>> \in peers[p]
                  /\ \/ \E m \in wire : m.kind = k /\ m.from = q /\ m.to = p /\ m.payload = "Reply"
                     \/ \E m \in Range(fromRegistry[p]) :
                            m.type = "Proxy" /\ m.source = q /\ m.payload = "Reply"
            BY <2>5 DEF ReplyArrives
        <3>2. CASE \E m \in wire : m.kind = k /\ m.from = q /\ m.to = p /\ m.payload = "Reply"
            BY <1>1, <3>1, <3>2 DEF PeersBehindMessages
        <3>3. ASSUME NEW m \in Range(fromRegistry[p]), m.type = "Proxy", m.source = q,
                     m.payload = "Reply"
              PROVE  <<"proxy", q>> \in peers[p] /\ <<"proxy", p>> \in peers[q]
            <4>1. m \in Delivered /\ m.destination = p
                BY <3>3 DEF Typed, FromTyped, Range, RelayedRight
            <4>2. m = Proxy(q, p, "Reply")
                BY <3>3, <4>1, MessageFields, ProxyFields
            <4> QED BY <1>1, <3>3, <4>2 DEF PeersBehindMessages, InFlight
        <3> QED BY <3>1, <3>2, <3>3 DEF Kind
    <2>7. UNCHANGED peers
        BY <2>5 DEF ReplyArrives
    <2> QED BY <2>6, <2>7 DEF Links
<1> QED BY <1>2, <1>3

\* UpdateStage ends the join with the last reply, and the stages stay.
LEMMA JoinedHasRepliesKept ==
    Typed /\ RegistrationOK /\ JoinedHasReplies /\ [Next]_vars => JoinedHasReplies'
<1> SUFFICES ASSUME Typed, RegistrationOK, JoinedHasReplies, [Next]_vars,
                    NEW p \in Participant, phase'[p] = "Joined", NEW u \in known'[p]
             PROVE  stage'[p][u] = "ReplyReceived"
    BY DEF JoinedHasReplies
<1>1. JoinMove(p) \/ Kept(p)
    BY JoinSteps
<1>2. u \in Participant
    BY NextTypes DEF Typed, JoinTyped
<1>3. CASE Kept(p)
    BY <1>3 DEF Kept, JoinedHasReplies
<1>4. CASE Join(p) \/ HandshakeTimeout(p) \/ Leave(p)
    BY <1>4 DEF Join, HandshakeTimeout, Leave, Typed, JoinTyped
<1>5. CASE StartConnecting(p)
    BY <1>5 DEF StartConnecting, Typed, JoinTyped
<1>6. CASE ReceiveFromRegistry(p) /\ (ReceiveKnown(p, Taken(p)) \/ ReceiveAccepted(p, Taken(p)))
    <2>1. Taken(p) \in Range(fromRegistry[p]) /\ Taken(p).type \in {"Known", "Accepted"}
        BY <1>6, FromHeadFacts DEF ReceiveFromRegistry, Typed, Taken, ReceiveKnown, ReceiveAccepted
    <2>2. phase[p] \in {"Announced", "Failed"}
        BY <2>1 DEF RegistrationOK, WelcomedOnce
    <2> QED BY <1>6, <2>2 DEF ReceiveKnown, ReceiveAccepted, Typed, JoinTyped
<1>7. ASSUME NEW t \in Participant, NEW s \in Stage, StageMove(p, t, s)
      PROVE  stage'[p][u] = "ReplyReceived"
    <2>1. u \in known[p] /\ (phase[p] = "Joined" \/ stage'[p][u] = "ReplyReceived")
        BY <1>7, SetStageFacts DEF StageMove, Typed
    <2>2. ASSUME phase[p] = "Joined" PROVE stage'[p][u] = "ReplyReceived"
        <3>1. stage[p][u] = "ReplyReceived"
            BY <2>1, <2>2 DEF JoinedHasReplies
        <3>2. u # t
            BY <1>7, <3>1 DEF StageMove
        <3> QED BY <1>2, <1>7, <3>1, <3>2, SetStageFacts DEF StageMove, Typed
    <2> QED BY <2>1, <2>2
<1> QED BY <1>1, <1>3, <1>4, <1>5, <1>6, <1>7 DEF JoinMove

MeshInv ==
    /\ Typed /\ DepartedOnly /\ RegistrationOK /\ OneIsTold
    /\ RelayedRight /\ PeersBehindMessages /\ RepliedAreLinked /\ JoinedHasReplies

LEMMA InitMesh == Init => MeshInv
<1> SUFFICES ASSUME Init PROVE MeshInv
    OBVIOUS
<1>1. \A p \in Participant :
          /\ phase[p] = "Out" /\ toRegistry[p] = <<>> /\ fromRegistry[p] = <<>> /\ known[p] = {}
          /\ \A q \in Participant : stage[p][q] = "Invalid"
    BY DEF Init
<1>2. wire = {} /\ connected = {} /\ routes = {} /\ Range(<<>>) = {} /\ DOMAIN <<>> = {}
    BY DEF Init, Range
<1>3. DepartedOnly /\ OneIsTold /\ RelayedRight
    BY <1>1, <1>2 DEF DepartedOnly, OneIsTold, RelayedRight
<1>4. RegistrationOK
    BY <1>1, <1>2
       DEF RegistrationOK, AnnouncedFirst, NotToldBefore, RegisteredWhileUp, WelcomedOnce, Unannounced
<1>5. PeersBehindMessages
    BY <1>1, <1>2 DEF PeersBehindMessages, InFlight
<1>6. RepliedAreLinked /\ JoinedHasReplies
    BY <1>1 DEF RepliedAreLinked, JoinedHasReplies
<1> QED BY <1>3, <1>4, <1>5, <1>6, InitTypes DEF MeshInv

LEMMA NextMesh == MeshInv /\ [Next]_vars => MeshInv'
BY NextTypes, DepartedKept, RegistrationKept, OneIsToldKept, RelayedRightKept,
   PeersBehindMessagesKept, RepliedAreLinkedKept, JoinedHasRepliesKept DEF MeshInv

\* JoinSimulation leaves no gap in the mesh: of two participants whose joins have
\* succeeded, SendKnownParticipants told one of the other, and AllRepliesReceived
\* held it until the two were connected; so they are still, for any number of
\* participants, in every interleaving of their joins and of failing, timing out
\* and proxied connections.
THEOREM MeshIsFull == Spec => []FullMesh
<1>1. MeshInv => FullMesh
    <2> SUFFICES ASSUME MeshInv, NEW p \in Participant, NEW q \in Participant, p # q,
                        phase[p] = "Joined", phase[q] = "Joined", ~Shadowed(p, q)
                 PROVE  Links(p, q) # {}
        BY DEF FullMesh
    <2>1. Stayed(p, q) /\ Stayed(q, p)
        BY DEF Stayed, Gone, Shadowed
    <2>2. ASSUME NEW a \in Participant, phase[a] = "Joined"
          PROVE  a \in connected /\ \A m \in Range(fromRegistry[a]) : m.type # "Known"
        BY <2>2 DEF MeshInv, RegistrationOK, NotToldBefore, RegisteredWhileUp, WelcomedOnce
    <2>3. q \in known[p] \/ p \in known[q]
        BY <2>2 DEF MeshInv, OneIsTold, Told
    <2>4. Links(p, q) # {} \/ Links(q, p) # {}
        BY <2>1, <2>3 DEF MeshInv, JoinedHasReplies, RepliedAreLinked
    <2> QED BY <2>4 DEF Links
<1> QED BY <1>1, InitMesh, NextMesh, PTL DEF Spec

-----------------------------------------------------------------------------
(* One of two participants connects to the other.                          *)

\* The connecting has begun, and is not forgotten.
Begun(o, t) == stage[o][t] \notin {"Invalid", "Direct"}

\* Participants are told of those that registered before them.
ToldInOrder ==
    \A p, q \in Participant :
        Told(p, q) => p # q /\ ~Told(q, p) /\ ~Unannounced(q)

\* Stages are those of known participants, from StartConnecting on.
StagesInOrder ==
    \A p, q \in Participant :
        /\ stage[p][q] # "Invalid" => q \in known[p]
        /\ phase[p] \in {"Out", "Announced", "Accepted"} => stage[p][q] = "Invalid"
        /\ ~Begun(p, q) => timer[p][q] = "Off"

OrderInv == Typed /\ DepartedOnly /\ RegistrationOK /\ ToldInOrder /\ StagesInOrder

\* One of two participants at most connects to the other.
LEMMA OneConnects ==
    ASSUME OrderInv, NEW p \in Participant, NEW q \in Participant, stage[p][q] # "Invalid"
    PROVE  stage[q][p] = "Invalid" /\ p # q
BY DEF OrderInv, ToldInOrder, StagesInOrder, Told

LEMMA ToldInOrderKept == Typed /\ RegistrationOK /\ ToldInOrder /\ [Next]_vars => ToldInOrder'
<1> SUFFICES ASSUME Typed, RegistrationOK, ToldInOrder, [Next]_vars PROVE ToldInOrder'
    OBVIOUS
<1>1. ASSUME NEW p \in Participant, NEW q \in Participant, Told(p, q)'
      PROVE  Told(p, q) \/ (Unannounced(p) /\ ~Unannounced(p)' /\ q \in connected /\ p # q)
    <2>1. ASSUME q \in known'[p], q \notin known[p]
          PROVE  Told(p, q)
        <3>1. JoinMove(p)
            BY <2>1, JoinSteps DEF Kept
        <3>2. ASSUME NEW t \in Participant, NEW s \in Stage, StageMove(p, t, s) PROVE FALSE
            BY <2>1, <3>2, SetStageFacts DEF StageMove, Typed
        <3>3. ReceiveFromRegistry(p) /\ ReceiveKnown(p, Taken(p))
            BY <2>1, <3>1, <3>2
               DEF JoinMove, Join, HandshakeTimeout, StartConnecting, Leave, ReceiveAccepted
        <3>4. Taken(p) \in Range(fromRegistry[p])
            BY <3>3, FromHeadFacts DEF ReceiveFromRegistry, Typed, Taken
        <3>5. Taken(p).type = "Known" /\ q \in Taken(p).participants
            BY <2>1, <3>3 DEF ReceiveKnown, Typed, JoinTyped
        <3> QED BY <3>4, <3>5 DEF Told
    <2>2. ASSUME NEW m \in Range(fromRegistry'[p]), m.type = "Known", q \in m.participants,
                 m \notin Range(fromRegistry[p])
          PROVE  Unannounced(p) /\ ~Unannounced(p)' /\ q \in connected /\ p # q
        <3>1. ~NewDelivered(p, m)
            BY <2>2 DEF NewDelivered, Proxy
        <3>2. /\ ReceiveAtRegistry(p) /\ RegisterParticipant(p, Handled(p))
              /\ m \in Range(Welcome(p))
            <4>1. m \notin Range(<<>>)
                BY DEF Range
            <4>2. DeliveredStep(p)
                BY DeliveredSteps
            <4> QED BY <2>2, <3>1, <4>1, <4>2 DEF DeliveredStep
        <3>3. q \in connected /\ p # q
            BY <2>2, <3>2, WelcomeFacts DEF Typed, Welcome, KnownTo
        <3>4. Handled(p) \in Range(toRegistry[p]) /\ Handled(p).type = "Announcement"
            BY <3>2, ToHeadFacts DEF ReceiveAtRegistry, Typed, Handled, RegisterParticipant
        <3>5. p \in connected'
            BY <3>2 DEF RegisterParticipant
        <3> QED BY <3>3, <3>4, <3>5, NotToldBeforeKept DEF Unannounced, NotToldBefore
    <2> QED BY <1>1, <2>1, <2>2 DEF Told
<1>2. \A q \in Participant : Unannounced(q)' => Unannounced(q)
    BY AnnouncedFirstKept
<1>3. \A q \in Participant : q \in connected => ~Unannounced(q)
    BY DEF RegistrationOK, NotToldBefore
<1>4. ASSUME NEW p \in Participant, NEW q \in Participant, Told(p, q)'
      PROVE  p # q /\ ~Told(q, p)' /\ ~Unannounced(q)'
    BY <1>1, <1>2, <1>3, <1>4 DEF ToldInOrder
<1> QED BY <1>4 DEF ToldInOrder

\* A stage that has begun goes on, and only DirectFailure begins to ask for a remote
\* connection.
LEMMA StageSteps ==
    ASSUME Typed, StagesInOrder, [Next]_vars, NEW p \in Participant, NEW q \in Participant
    PROVE  /\ Begun(p, q) => Begun(p, q)'
           /\ AwaitsRemote(p, q)' => AwaitsRemote(p, q) \/ stage[p][q] = "Direct"
           /\ stage[p][q] # "Invalid" => stage'[p][q] # "Invalid"
<1>1. JoinMove(p) \/ Kept(p)
    BY JoinSteps
<1>2. CASE StartConnecting(p)
    <2>1. stage[p][q] = "Invalid"
        BY <1>2 DEF StartConnecting, StagesInOrder
    <2>2. stage'[p][q] \in {"Invalid", "Direct"}
        BY <1>2 DEF StartConnecting, Typed, JoinTyped
    <2> QED BY <2>1, <2>2 DEF Begun, AwaitsRemote
<1>3. ASSUME NEW t \in Participant, NEW s \in Stage, StageMove(p, t, s)
      PROVE  /\ Begun(p, q) => Begun(p, q)'
             /\ AwaitsRemote(p, q)' => AwaitsRemote(p, q) \/ stage[p][q] = "Direct"
             /\ stage[p][q] # "Invalid" => stage'[p][q] # "Invalid"
    <2>1. CASE q = t
        <3>1. stage'[p][q] = s
            BY <1>3, <2>1, SetStageFacts DEF StageMove, Typed
        <3> QED BY <1>3, <2>1, <3>1 DEF StageMove, Begun, AwaitsRemote
    <2>2. CASE q # t
        <3>1. stage'[p][q] = stage[p][q]
            BY <1>3, <2>2, SetStageFacts DEF StageMove, Typed
        <3> QED BY <3>1 DEF Begun, AwaitsRemote
    <2> QED BY <2>1, <2>2
<1>4. CASE stage'[p] = stage[p]
    BY <1>4 DEF Begun, AwaitsRemote
<1> QED BY <1>1, <1>2, <1>3, <1>4
        DEF JoinMove, Kept, Join, HandshakeTimeout, Leave, ReceiveKnown, ReceiveAccepted

\* The timer is started when the connecting begins; that it has expired is final.
LEMMA TimerSteps ==
    ASSUME Typed, StagesInOrder, [Next]_vars, NEW p \in Participant, NEW q \in Participant
    PROVE  /\ timer'[p][q] # timer[p][q] =>
                  \/ DirectFailure(p, q) /\ {p, q} \subseteq RemoteCapable
                  \/ TimerExpired(p, q)
                  \/ timer[p][q] = "Armed" /\ timer'[p][q] = "Off"
           /\ timer[p][q] = "Expired" => timer'[p][q] = "Expired"
<1> DEFINE Moves ==
        \/ timer'[p][q] = timer[p][q]
        \/ DirectFailure(p, q) /\ {p, q} \subseteq RemoteCapable
        \/ TimerExpired(p, q)
        \/ timer[p][q] = "Armed" /\ timer'[p][q] = "Off"
<1>1. ASSUME NEW a \in Participant,
             \/ Join(a) \/ HandshakeTimeout(a) \/ StartConnecting(a)
             \/ ReceiveAtRegistry(a) \/ RefuseSecond(a) \/ SecondShutdown(a)
      PROVE  Moves
    BY <1>1 DEF Join, HandshakeTimeout, StartConnecting, ReceiveAtRegistry, RefuseSecond,
                SecondShutdown
<1>2. ASSUME NEW a \in Participant, Leave(a) PROVE Moves
    BY <1>2 DEF Leave, Typed, RemoteTyped
<1>3. ASSUME NEW a \in Participant, ReceiveFromRegistry(a) PROVE Moves
    BY <1>3 DEF ReceiveFromRegistry, ReceiveKnown, ReceiveAccepted, ReceiveRequest,
                ReceiveRequestStatus, ReceiveProxy, ReceiveProxyShutdown
<1>4. ASSUME NEW a \in Participant, NEW b \in Participant,
             \/ DirectSuccess(a, b) \/ ReverseSuccess(a, b) \/ ReverseFailure(a, b)
             \/ ReceiveFromPeer(a, b) \/ PeerShutdown(a, b)
      PROVE  Moves
    BY <1>4 DEF DirectSuccess, ReverseSuccess, ReverseFailure, ReceiveFromPeer, PeerShutdown
<1>5. ASSUME NEW a \in Participant, NEW b \in Participant, DirectFailure(a, b) PROVE Moves
    <2>1. CASE {a, b} \subseteq RemoteCapable
        BY <1>5, <2>1 DEF DirectFailure, Typed, RemoteTyped
    <2>2. CASE ~({a, b} \subseteq RemoteCapable)
        BY <1>5, <2>2 DEF DirectFailure
    <2> QED BY <2>1, <2>2
<1>6. ASSUME NEW a \in Participant, NEW b \in Participant, TimerExpired(a, b) PROVE Moves
    BY <1>6 DEF TimerExpired, Typed, RemoteTyped
<1>7. UNCHANGED vars => Moves
    BY DEF vars
<1>8. Moves
    BY <1>1, <1>2, <1>3, <1>4, <1>5, <1>6, <1>7 DEF Next
<1>9. DirectFailure(p, q) => timer[p][q] = "Off"
    BY DEF DirectFailure, StagesInOrder, Begun
<1>10. TimerExpired(p, q) => timer'[p][q] = "Expired"
    BY DEF TimerExpired, Typed, RemoteTyped
<1> QED BY <1>8, <1>9, <1>10

LEMMA StagesInOrderKept ==
    Typed /\ RegistrationOK /\ StagesInOrder /\ [Next]_vars => StagesInOrder'
<1> SUFFICES ASSUME Typed, RegistrationOK, StagesInOrder, [Next]_vars,
                    NEW p \in Participant, NEW q \in Participant
             PROVE  /\ stage'[p][q] # "Invalid" => q \in known'[p]
                    /\ phase'[p] \in {"Out", "Announced", "Accepted"} => stage'[p][q] = "Invalid"
                    /\ ~Begun(p, q)' => timer'[p][q] = "Off"
    BY DEF StagesInOrder
<1>1. JoinMove(p) \/ Kept(p)
    BY JoinSteps
<1>2. ASSUME NEW t \in Participant, NEW s \in Stage, StageMove(p, t, s)
      PROVE  /\ known'[p] = known[p]
             /\ stage'[p][q] # "Invalid" => stage[p][q] # "Invalid"
             /\ phase[p] \notin {"Out", "Announced", "Accepted"}
             /\ phase'[p] \notin {"Out", "Announced", "Accepted"}
    <2>1. phase[p] \notin {"Out", "Announced", "Accepted"}
        BY <1>2 DEF StageMove, StagesInOrder
    <2>2. CASE q = t
        BY <1>2, <2>1, <2>2, SetStageFacts DEF StageMove, Typed
    <2>3. CASE q # t
        BY <1>2, <2>1, <2>3, SetStageFacts DEF StageMove, Typed
    <2> QED BY <2>2, <2>3
<1>3. ASSUME StartConnecting(p)
      PROVE  /\ stage'[p][q] # "Invalid" => q \in known'[p]
             /\ phase'[p] \notin {"Out", "Announced", "Accepted"}
    BY <1>3 DEF StartConnecting, Typed, JoinTyped
<1>4. ASSUME ReceiveFromRegistry(p), ReceiveKnown(p, Taken(p))
      PROVE  /\ stage[p][q] = "Invalid"
             /\ stage'[p] = stage[p] /\ phase'[p] = phase[p]
    <2>1. Taken(p) \in Range(fromRegistry[p]) /\ Taken(p).type = "Known"
        BY <1>4, FromHeadFacts DEF ReceiveFromRegistry, Typed, Taken, ReceiveKnown
    <2>2. known[p] = {}
        BY <2>1 DEF RegistrationOK, WelcomedOnce
    <2> QED BY <1>4, <2>2 DEF StagesInOrder, ReceiveKnown
<1>5. ASSUME stage'[p] = stage[p], known'[p] = known[p],
             phase'[p] \in {"Out", "Announced", "Accepted"}
                 => phase[p] \in {"Out", "Announced", "Accepted"}
      PROVE  /\ stage'[p][q] # "Invalid" => q \in known'[p]
             /\ phase'[p] \in {"Out", "Announced", "Accepted"} => stage'[p][q] = "Invalid"
    BY <1>5 DEF StagesInOrder
<1>6. ~Begun(p, q)' => timer'[p][q] = "Off"
    <2>1. SUFFICES ASSUME ~Begun(p, q)' PROVE timer'[p][q] = "Off"
        OBVIOUS
    <2>2. ~Begun(p, q) /\ timer[p][q] = "Off"
        BY <2>1, StageSteps DEF StagesInOrder
    <2>3. ASSUME DirectFailure(p, q), {p, q} \subseteq RemoteCapable PROVE FALSE
        <3>1. stage'[p][q] = "RemoteConnectRequested"
            BY <2>3, SetStageFacts DEF DirectFailure, Typed, Stage
        <3> QED BY <2>1, <3>1 DEF Begun
    <2> QED BY <2>2, <2>3, TimerSteps DEF TimerExpired
<1>7. /\ stage'[p][q] # "Invalid" => q \in known'[p]
      /\ phase'[p] \in {"Out", "Announced", "Accepted"} => stage'[p][q] = "Invalid"
    <2>1. CASE \E t \in Participant, s \in Stage : StageMove(p, t, s)
        BY <1>2, <2>1 DEF StagesInOrder
    <2>2. CASE Join(p) \/ HandshakeTimeout(p) \/ Leave(p) \/ Kept(p) \/ ReceiveAccepted(p, Taken(p))
        BY <1>5, <2>2 DEF Join, HandshakeTimeout, Leave, Kept, ReceiveAccepted, Typed, JoinTyped
    <2> QED BY <1>1, <1>3, <1>4, <2>1, <2>2 DEF JoinMove
<1> QED BY <1>6, <1>7
\* Who connects to whom does not depend on when.
LEMMA OrderKept == OrderInv /\ [Next]_vars => OrderInv'
BY NextTypes, DepartedKept, RegistrationKept, ToldInOrderKept, StagesInOrderKept DEF OrderInv

-----------------------------------------------------------------------------
(* What there is of a connection of two participants.                      *)

\* A peer, or a message of one, that two participants have of a kind of connection.
Trace(k, p, q) ==
    \/ <<k, q>> \in peers[p] \/ <<k, p>> \in peers[q]
    \/ \E m \in wire :
           m.kind = k /\ ((m.from = p /\ m.to = q) \/ (m.from = q /\ m.to = p))
    \/ k = "proxy" /\ \E c \in {"Announcement", "Reply"} :
           InFlight(Proxy(p, q, c)) \/ InFlight(Proxy(q, p, c))

\* p falls back on the proxy.
ProxyStart(p, q) ==
    \/ DirectFailure(p, q) /\ ~({p, q} \subseteq RemoteCapable)
    \/ TimerExpired(p, q)
    \/ /\ ReceiveFromRegistry(p) /\ ReceiveRequestStatus(p, Taken(p))
       /\ Taken(p).status = "FAILED_TO_CONNECT" /\ Taken(p).target = q
       /\ AwaitsRemote(p, q)

\* p opens a connection to q.
Opens(k, p, q) ==
    \/ k = "direct" /\ DirectSuccess(p, q)
    \/ k = "remote" /\ ReverseSuccess(p, q)
    \/ k = "proxy" /\ ProxyStart(p, q)

\* The registry has relayed what it was sent: a proxied message that is handled is
\* one of its peer.
LEMMA TraceOfProxied ==
    ASSUME Typed, RelayedRight, NEW p \in Participant, ReceiveFromRegistry(p),
           Taken(p).type = "Proxy", Taken(p).payload \in {"Announcement", "Reply"}
    PROVE  Taken(p).source \in Participant /\ Trace("proxy", p, Taken(p).source)
<1> DEFINE m == Taken(p)
<1>1. m \in Delivered /\ m \in Range(fromRegistry[p])
    BY FromHeadFacts DEF ReceiveFromRegistry, Typed, Taken
<1>2. m.source \in Participant /\ m = Proxy(m.source, m.destination, m.payload)
    BY <1>1, MessageFields, ProxyFields DEF ProxyMessage
<1>3. m.destination = p
    BY <1>1 DEF RelayedRight
<1>4. InFlight(Proxy(m.source, p, m.payload))
    BY <1>1, <1>2, <1>3 DEF InFlight
<1> QED BY <1>2, <1>4 DEF Trace

\* A participant has a new peer when it opens a connection, or as it handles a
\* message of that peer.
LEMMA PeersGrow ==
    ASSUME Typed, RelayedRight, NamesReferToPeers, [Next]_vars,
           NEW a \in Participant, NEW k \in Kind, NEW b \in Participant, <<k, b>> \in peers'[a]
    PROVE  Trace(k, a, b) \/ Opens(k, a, b)
<1> DEFINE Old == peers'[a] \subseteq peers[a]
           Fine == Trace(k, a, b) \/ Opens(k, a, b)
<1>1. Old => Fine
    BY DEF Trace
<1>2. UNCHANGED peerVars => Old
    BY DEF peerVars
<1>3. ASSUME NEW p \in Participant, NEW j \in Kind, NEW q \in Participant, AddPeer(p, j, q)
      PROVE  Old \/ (a = p /\ (Fine \/ (k = j /\ b = q)))
    <2>1. CASE a = p
        <3>1. <<k, b>> \in peers[a] \/ <<k, b>> = <<j, q>>
            BY <1>3, <2>1, AddPeerFacts DEF Typed
        <3> QED BY <2>1, <3>1 DEF Trace
    <2>2. CASE a # p
        BY <1>3, <2>2, AddPeerFacts DEF Typed
    <2> QED BY <2>1, <2>2
<1>4. ASSUME NEW p \in Participant, NEW j \in Kind, NEW q \in Participant, RemovePeer(p, j, q)
      PROVE  Old
    BY <1>4, RemovePeerFacts DEF Typed
<1> HIDE DEF Old
<1>5. ASSUME NEW p \in Participant,
             \/ Join(p) \/ HandshakeTimeout(p) \/ StartConnecting(p)
             \/ ReceiveAtRegistry(p) \/ RefuseSecond(p) \/ SecondShutdown(p)
      PROVE  Old
    BY <1>2, <1>5 DEF Join, HandshakeTimeout, StartConnecting, ReceiveAtRegistry, RefuseSecond,
                      SecondShutdown
<1>6. ASSUME NEW p \in Participant, Leave(p) PROVE Old
    BY <1>6 DEF Leave, Typed, PeersTyped, Old
<1>7. ASSUME NEW p \in Participant, NEW q \in Participant, ProxyConnect(p, q), ProxyStart(p, q)
      PROVE  Old \/ Fine
    <2>1. AddPeer(p, "proxy", q) \/ UNCHANGED peerVars
        BY <1>7, ProxyConnectFacts
    <2>2. "proxy" \in Kind
        BY DEF Kind
    <2> QED BY <1>2, <1>3, <1>7, <2>1, <2>2 DEF Opens
<1>8. ASSUME NEW p \in Participant, NEW q \in Participant, DirectSuccess(p, q)
      PROVE  Old \/ Fine
    <2>1. AddPeer(p, "direct", q) /\ "direct" \in Kind
        BY <1>8 DEF DirectSuccess, Kind
    <2> QED BY <1>3, <1>8, <2>1 DEF Opens
<1>9. ASSUME NEW p \in Participant, NEW q \in Participant, DirectFailure(p, q) \/ TimerExpired(p, q)
      PROVE  Old \/ Fine
    <2>1. (ProxyConnect(p, q) /\ ProxyStart(p, q)) \/ UNCHANGED peerVars
        BY <1>9 DEF DirectFailure, TimerExpired, ProxyStart
    <2> QED BY <1>2, <1>7, <2>1
<1>10. ASSUME NEW p \in Participant, NEW q \in Participant,
              ReverseSuccess(p, q) \/ ReverseFailure(p, q) \/ PeerShutdown(p, q)
       PROVE  Old
    BY <1>2, <1>4, <1>10 DEF ReverseSuccess, ReverseFailure, PeerShutdown
<1>11. ASSUME NEW p \in Participant, NEW q \in Participant, ReceiveFromPeer(p, q)
       PROVE  Old \/ Fine
    <2>1. PICK m \in wire : m.to = p /\ m.from = q /\ Handle(p, m.kind, q, m.payload)
        BY <1>11 DEF ReceiveFromPeer
    <2>2. m.kind \in Kind
        BY <2>1 DEF Typed, WireMessage, Kind
    <2>3. AddPeer(p, m.kind, q) \/ UNCHANGED peerVars
        BY <2>1, <2>2, HandleFacts DEF Typed
    <2>4. a = p /\ k = m.kind /\ b = q => Trace(k, a, b)
        BY <2>1 DEF Trace
    <2> QED BY <1>2, <1>3, <2>2, <2>3, <2>4
<1>12. ASSUME NEW p \in Participant, ReceiveFromRegistry(p)
       PROVE  Old \/ Fine
    <2> DEFINE m == Taken(p)
    <2>1. \/ ReceiveKnown(p, m) \/ ReceiveAccepted(p, m) \/ ReceiveRequest(p, m)
          \/ ReceiveRequestStatus(p, m) \/ ReceiveProxy(p, m) \/ ReceiveProxyShutdown(p, m)
        BY <1>12 DEF ReceiveFromRegistry, Taken
    <2>2. m \in Delivered /\ m \in Range(fromRegistry[p])
        BY <1>12, FromHeadFacts DEF ReceiveFromRegistry, Typed, Taken
    <2>3. m.type = "Proxy" /\ m.payload \in {"Announcement", "Reply"}
              => m.source \in Participant /\ Trace("proxy", p, m.source)
        BY <1>12, TraceOfProxied
    <2>4. \A q \in Participant :
              /\ ReceiveRequestStatus(p, m) /\ m.status = "FAILED_TO_CONNECT" /\ m.target = q
              /\ AwaitsRemote(p, q)
              => ProxyStart(p, q)
        BY <1>12 DEF ProxyStart
    <2> HIDE DEF m
    <2>5. CASE ReceiveKnown(p, m) \/ ReceiveAccepted(p, m) \/ ReceiveRequest(p, m)
        BY <1>2, <2>5 DEF ReceiveKnown, ReceiveAccepted, ReceiveRequest
    <2>6. CASE ReceiveRequestStatus(p, m)
        <3>1. m.target \in Participant
            BY <2>2, <2>6, MessageFields DEF ReceiveRequestStatus, RequestMessage
        <3>2. \/ UNCHANGED peerVars
              \/ ProxyConnect(p, m.target) /\ ProxyStart(p, m.target)
            BY <2>4, <2>6, <3>1 DEF ReceiveRequestStatus
        <3> QED BY <1>2, <1>7, <3>1, <3>2
    <2>7. CASE ReceiveProxy(p, m)
        <3>1. m \in ProxyMessage({"Announcement", "Reply", "Shutdown"}) /\ m.type = "Proxy"
            BY <2>2, <2>7, MessageFields DEF ReceiveProxy
        <3>2. PICK j \in Kind : ProxyHandled(p, m, j)
            BY <2>7, <3>1, ReceiveProxyFacts
        <3>3. /\ m.source \in Participant /\ Handle(p, j, m.source, m.payload)
              /\ m.payload \in {"Announcement", "Reply"}
              /\ j = IF named[p][m.source] = NoPeer THEN "proxy" ELSE named[p][m.source]
            BY <3>2 DEF ProxyHandled
        <3>4. AddPeer(p, j, m.source) \/ UNCHANGED peerVars
            BY <3>3, HandleFacts DEF Typed
        <3>5. Trace(j, p, m.source)
            BY <2>3, <3>1, <3>3 DEF NamesReferToPeers, Trace
        <3> QED BY <1>2, <1>3, <3>3, <3>4, <3>5
    <2>8. CASE ReceiveProxyShutdown(p, m)
        <3>1. m.source \in Participant
            BY <2>2, <2>8, MessageFields DEF ReceiveProxyShutdown, ProxyMessage
        <3>2. named[p][m.source] # NoPeer => named[p][m.source] \in Kind
            BY <3>1 DEF Typed, PeersTyped
        <3> QED BY <1>2, <1>4, <2>8, <3>1, <3>2 DEF ReceiveProxyShutdown
    <2> QED BY <2>1, <2>5, <2>6, <2>7, <2>8
<1>13. UNCHANGED vars => Old
    BY <1>2 DEF vars
<1> HIDE DEF Fine
<1>14. Old \/ Fine
    BY <1>5, <1>6, <1>8, <1>9, <1>10, <1>11, <1>12, <1>13 DEF Next
<1> QED BY <1>1, <1>14 DEF Fine

\* A message is sent to a participant when a connection to it is opened, or as an
\* answer on the same one.
LEMMA WireGrows ==
    ASSUME Typed, RelayedRight, NamesReferToPeers, [Next]_vars, NEW m \in wire', m \notin wire
    PROVE  /\ m.kind \in Kind /\ m.from \in Participant /\ m.to \in Participant
           /\ Trace(m.kind, m.from, m.to) \/ Opens(m.kind, m.from, m.to)
<1> DEFINE Fine == Trace(m.kind, m.from, m.to) \/ Opens(m.kind, m.from, m.to)
<1>1. m \in WireMessage
    BY NextTypes DEF Typed
<1>2. m.kind \in Kind /\ m.from \in Participant /\ m.to \in Participant
    BY <1>1 DEF WireMessage, Kind
<1>3. ASSUME NEW p \in Participant, NEW k \in Kind, NEW q \in Participant, NEW payload,
             m \in OnWire(p, k, q, Answers(p, q, payload)), Trace(k, p, q)
      PROVE  Fine
    BY <1>3, OnWireFacts
<1>4. ASSUME NEW p \in Participant,
             \/ Join(p) \/ HandshakeTimeout(p) \/ StartConnecting(p) \/ Leave(p)
             \/ ReceiveAtRegistry(p) \/ RefuseSecond(p) \/ SecondShutdown(p)
      PROVE  wire' \subseteq wire
    BY <1>4 DEF Join, HandshakeTimeout, StartConnecting, Leave, ReceiveAtRegistry, RefuseSecond,
                SecondShutdown, channelVars
<1>5. ASSUME NEW p \in Participant, NEW q \in Participant, DirectSuccess(p, q)
      PROVE  Fine
    <2>1. m = [kind |-> "direct", from |-> p, to |-> q, payload |-> "Announcement"]
        BY <1>5 DEF DirectSuccess
    <2> QED BY <1>5, <2>1 DEF Opens
<1>6. ASSUME NEW p \in Participant, NEW q \in Participant, ReverseSuccess(p, q)
      PROVE  Fine
    <2>1. m = [kind |-> "remote", from |-> p, to |-> q, payload |-> "RemoteAnnouncement"]
        BY <1>6 DEF ReverseSuccess
    <2> QED BY <1>6, <2>1 DEF Opens
<1>7. ASSUME NEW p \in Participant, NEW q \in Participant,
             DirectFailure(p, q) \/ TimerExpired(p, q) \/ ReverseFailure(p, q) \/ PeerShutdown(p, q)
      PROVE  wire' = wire
    BY <1>7 DEF DirectFailure, TimerExpired, ReverseFailure, PeerShutdown, channelVars
<1>8. ASSUME NEW p \in Participant, NEW q \in Participant, ReceiveFromPeer(p, q)
      PROVE  Fine
    <2>1. PICK x \in wire :
              /\ x.to = p /\ x.from = q
              /\ wire' = (wire \ {x}) \cup OnWire(p, x.kind, q, Answers(p, q, x.payload))
        BY <1>8 DEF ReceiveFromPeer
    <2>2. x.kind \in Kind
        BY <2>1 DEF Typed, WireMessage, Kind
    <2>3. Trace(x.kind, p, q)
        BY <2>1 DEF Trace
    <2> QED BY <1>3, <2>1, <2>2, <2>3
<1>9. ASSUME NEW p \in Participant, ReceiveFromRegistry(p)
      PROVE  Fine
    <2> DEFINE x == Taken(p)
    <2>1. \/ ReceiveKnown(p, x) \/ ReceiveAccepted(p, x) \/ ReceiveRequest(p, x)
          \/ ReceiveRequestStatus(p, x) \/ ReceiveProxy(p, x) \/ ReceiveProxyShutdown(p, x)
        BY <1>9 DEF ReceiveFromRegistry, Taken
    <2>2. x \in Delivered
        BY <1>9, FromHeadFacts DEF ReceiveFromRegistry, Typed, Taken
    <2> HIDE DEF x
    <2>3. ReceiveProxy(p, x)
        BY <2>1 DEF ReceiveKnown, ReceiveAccepted, ReceiveRequest, ReceiveRequestStatus,
                    ReceiveProxyShutdown
    <2>4. x \in ProxyMessage({"Announcement", "Reply", "Shutdown"})
        BY <2>2, <2>3, MessageFields DEF ReceiveProxy
    <2>5. PICK k \in Kind : ProxyHandled(p, x, k)
        BY <2>3, <2>4, ReceiveProxyFacts
    <2>6. /\ x.source \in Participant /\ k # "proxy"
          /\ k = IF named[p][x.source] = NoPeer THEN "proxy" ELSE named[p][x.source]
          /\ wire' = wire \cup OnWire(p, k, x.source, Answers(p, x.source, x.payload))
        BY <2>5 DEF ProxyHandled
    <2>7. Trace(k, p, x.source)
        BY <2>6 DEF NamesReferToPeers, Trace
    <2> QED BY <1>3, <2>6, <2>7
<1>10. UNCHANGED vars => wire' = wire
    BY DEF vars, channelVars
<1> HIDE DEF Fine
<1>11. Fine
    BY <1>4, <1>5, <1>6, <1>7, <1>8, <1>9, <1>10 DEF Next
<1> QED BY <1>2, <1>11 DEF Fine

\* What there is of a connection was there, or the connection is opened.
LEMMA TraceSteps ==
    ASSUME Typed, RelayedRight, NamesReferToPeers, [Next]_vars,
           NEW k \in Kind, NEW p \in Participant, NEW q \in Participant, Trace(k, p, q)'
    PROVE  Trace(k, p, q) \/ Opens(k, p, q) \/ Opens(k, q, p)
<1>1. Trace(k, q, p) => Trace(k, p, q)
    BY DEF Trace
<1>2. <<k, q>> \in peers'[p] => Trace(k, p, q) \/ Opens(k, p, q)
    BY PeersGrow
<1>3. <<k, p>> \in peers'[q] => Trace(k, p, q) \/ Opens(k, q, p)
    BY <1>1, PeersGrow
<1>4. ASSUME NEW m \in wire', m.kind = k,
             (m.from = p /\ m.to = q) \/ (m.from = q /\ m.to = p)
      PROVE  Trace(k, p, q) \/ Opens(k, p, q) \/ Opens(k, q, p)
    <2>1. CASE m \in wire
        BY <1>4, <2>1 DEF Trace
    <2>2. CASE m \notin wire
        BY <1>1, <1>4, <2>2, WireGrows
    <2> QED BY <2>1, <2>2
<1>5. ASSUME k = "proxy", NEW a \in Participant, NEW b \in Participant,
             NEW c \in {"Announcement", "Reply"}, InFlight(Proxy(a, b, c))'
      PROVE  Trace(k, a, b) \/ Opens(k, a, b)
    <2>1. CASE InFlight(Proxy(a, b, c))
        BY <1>5, <2>1 DEF Trace
    <2>2. CASE ~InFlight(Proxy(a, b, c))
        <3>1. Proxy(a, b, c).type = "Proxy" /\ Proxy(a, b, c).payload # "Shutdown"
            BY DEF Proxy
        <3>2. PICK s \in Participant : NewSent(s, Proxy(a, b, c))
            BY <1>5, <2>2, <3>1, InFlightSteps
        <3>3. PICK t \in Participant :
                  /\ AddPeer(s, "proxy", t)
                  /\ Proxy(a, b, c) = Proxy(s, t, "Announcement") \/ Proxy(a, b, c) = Proxy(s, t, "Reply")
            BY <3>1, <3>2 DEF NewSent, Request
        <3>4. s = a /\ t = b
            BY <3>3, ProxyFields
        <3>5. <<k, b>> \in peers'[a]
            BY <1>5, <3>3, <3>4, AddPeerFacts DEF Typed, Kind
        <3> QED BY <3>5, PeersGrow
    <2> QED BY <2>1, <2>2
<1> QED BY <1>1, <1>2, <1>3, <1>4, <1>5 DEF Trace

-----------------------------------------------------------------------------
(* A request to connect remotely is in one place, from DirectFailure at    *)
(* its origin until its target has connected or the origin has heard that  *)
(* it failed.                                                              *)

\* s has m at most once.
Single(s, m) == \A i, j \in DOMAIN s : s[i] = m /\ s[j] = m => i = j

LEMMA SingleFacts ==
    ASSUME NEW S, NEW s \in Seq(S), NEW m, Single(s, m)
    PROVE  /\ \A x \in S : x # m \/ m \notin Range(s) => Single(Append(s, x), m)
           /\ \A u \in Seq(S) : m \notin Range(u) => Single(s \o u, m)
           /\ s # <<>> => Single(Tail(s), m) /\ (Head(s) = m => m \notin Range(Tail(s)))
<1>1. ASSUME NEW x \in S, x # m \/ m \notin Range(s) PROVE Single(Append(s, x), m)
    <2>1. \A i \in DOMAIN Append(s, x) :
              \/ i \in DOMAIN s /\ Append(s, x)[i] = s[i]
              \/ i = Len(s) + 1 /\ Append(s, x)[i] = x
        BY AppendFacts
    <2>2. x = m => \A i \in DOMAIN s : s[i] # m
        BY <1>1 DEF Range
    <2> QED BY <2>1, <2>2 DEF Single
<1>2. ASSUME NEW u \in Seq(S), m \notin Range(u) PROVE Single(s \o u, m)
    <2>1. \A i \in DOMAIN (s \o u) :
              \/ i \in DOMAIN s /\ (s \o u)[i] = s[i]
              \/ i - Len(s) \in DOMAIN u /\ (s \o u)[i] = u[i - Len(s)]
        OBVIOUS
    <2>2. \A i \in DOMAIN u : u[i] # m
        BY <1>2 DEF Range
    <2>3. \A i \in DOMAIN (s \o u) : (s \o u)[i] = m => i \in DOMAIN s /\ s[i] = m
        BY <2>1, <2>2
    <2> QED BY <2>3 DEF Single
<1>3. ASSUME s # <<>> PROVE Single(Tail(s), m) /\ (Head(s) = m => m \notin Range(Tail(s)))
    <2>1. \A i \in DOMAIN Tail(s) :
              /\ i \in Nat /\ i + 1 \in DOMAIN s /\ i + 1 # 1 /\ Tail(s)[i] = s[i + 1]
        BY <1>3, TailFacts
    <2>2. Head(s) = s[1] /\ 1 \in DOMAIN s
        BY <1>3
    <2>3. Single(Tail(s), m)
        <3>1. SUFFICES ASSUME NEW i \in DOMAIN Tail(s), NEW j \in DOMAIN Tail(s),
                              Tail(s)[i] = m, Tail(s)[j] = m
                       PROVE  i = j
            BY DEF Single
        <3>2. s[i + 1] = m /\ s[j + 1] = m /\ i + 1 \in DOMAIN s /\ j + 1 \in DOMAIN s
            BY <2>1, <3>1
        <3>3. i + 1 = j + 1
            BY <3>2 DEF Single
        <3> QED BY <2>1, <3>3
    <2>4. ASSUME Head(s) = m, NEW i \in DOMAIN Tail(s), Tail(s)[i] = m PROVE FALSE
        <3>1. i + 1 \in DOMAIN s /\ s[i + 1] = m /\ s[1] = m /\ i + 1 # 1
            BY <2>1, <2>2, <2>4
        <3> QED BY <2>2, <3>1 DEF Single
    <2> QED BY <2>3, <2>4 DEF Range
<1> QED BY <1>1, <1>2, <1>3

LEMMA RequestFields ==
    /\ \A m \in RequestMessage : m = Request(m.origin, m.target, m.status)
    /\ \A o, t, s : /\ Request(o, t, s).type = "Request" /\ Request(o, t, s).status = s
                    /\ Request(o, t, s).origin = o /\ Request(o, t, s).target = t
BY DEF RequestMessage, Request

Asks(o, t) == Request(o, t, "REQUEST")
Fails(o, t) == Request(o, t, "FAILED_TO_CONNECT")

\* The places of the request: on its way to the target, where the target connects,
\* and on the way back.
AskAt(i, o, t) ==
    \/ i = 1 /\ Asks(o, t) \in Range(toRegistry[o])
    \/ i = 2 /\ Asks(o, t) \in Range(fromRegistry[t])
    \/ i = 3 /\ <<t, o>> \in reverse
    \/ i = 4 /\ Fails(o, t) \in Range(toRegistry[t])
    \/ i = 5 /\ Fails(o, t) \in Range(fromRegistry[o])

Ask(o, t) == \E i \in 1..5 : AskAt(i, o, t)

\* The request comes to a place.
Comes(i, o, t) ==
    \/ i = 1 /\ DirectFailure(o, t) /\ {o, t} \subseteq RemoteCapable
    \/ i = 2 /\ ReceiveAtRegistry(o) /\ Handled(o) = Asks(o, t)
    \/ i = 3 /\ ReceiveFromRegistry(t) /\ Taken(t) = Asks(o, t)
    \/ i = 4 /\ ReverseFailure(t, o)
    \/ i = 5 /\ ReceiveAtRegistry(t) /\ Handled(t) = Fails(o, t)

OneToken(o, t) ==
    /\ \A i, j \in 1..5 : AskAt(i, o, t) /\ AskAt(j, o, t) => i = j
    /\ Single(toRegistry[o], Asks(o, t)) /\ Single(fromRegistry[t], Asks(o, t))
    /\ Single(toRegistry[t], Fails(o, t)) /\ Single(fromRegistry[o], Fails(o, t))

\* Requests go from the origin to the target, and what became of them goes back.
RoutedRight ==
    /\ \A a \in Participant : \A m \in Range(toRegistry[a]) : m.type = "Request" =>
           m.origin # m.target /\ a = IF m.status = "REQUEST" THEN m.origin ELSE m.target
    /\ \A a \in Participant : \A m \in Range(fromRegistry[a]) : m.type = "Request" =>
           m.origin # m.target /\ a = IF m.status = "REQUEST" THEN m.target ELSE m.origin
    /\ \A r \in reverse : r[1] # r[2]

\* A participant that is asked to connect remembers it.
LEMMA ReverseSteps ==
    ASSUME Typed, [Next]_vars, NEW r \in reverse', r \notin reverse
    PROVE  \E p \in Participant :
               ReceiveFromRegistry(p) /\ ReceiveRequest(p, Taken(p)) /\ r = <<p, Taken(p).origin>>
<1>1. ASSUME NEW p \in Participant,
             \/ Join(p) \/ HandshakeTimeout(p) \/ StartConnecting(p) \/ Leave(p)
             \/ ReceiveAtRegistry(p) \/ RefuseSecond(p) \/ SecondShutdown(p)
      PROVE  reverse' \subseteq reverse
    BY <1>1 DEF Join, HandshakeTimeout, StartConnecting, Leave, ReceiveAtRegistry, RefuseSecond,
                SecondShutdown
<1>2. ASSUME NEW p \in Participant, NEW q \in Participant,
             \/ DirectSuccess(p, q) \/ DirectFailure(p, q) \/ TimerExpired(p, q)
             \/ ReverseSuccess(p, q) \/ ReverseFailure(p, q)
             \/ ReceiveFromPeer(p, q) \/ PeerShutdown(p, q)
      PROVE  reverse' \subseteq reverse
    BY <1>2 DEF DirectSuccess, DirectFailure, TimerExpired, ReverseSuccess, ReverseFailure,
                ReceiveFromPeer, PeerShutdown
<1>3. ASSUME NEW p \in Participant, ReceiveFromRegistry(p)
      PROVE  ReceiveRequest(p, Taken(p)) /\ r = <<p, Taken(p).origin>>
    BY <1>3 DEF ReceiveFromRegistry, ReceiveKnown, ReceiveAccepted, ReceiveRequest,
                ReceiveRequestStatus, ReceiveProxy, ReceiveProxyShutdown, Taken
<1>4. UNCHANGED vars => reverse' = reverse
    BY DEF vars
<1> QED BY <1>1, <1>2, <1>3, <1>4 DEF Next

\* What a participant takes from the registry was in flight, as was what the
\* registry takes.
LEMMA TakenFacts ==
    ASSUME Typed, NEW p \in Participant
    PROVE  /\ ReceiveFromRegistry(p) => Taken(p) \in Delivered /\ Taken(p) \in Range(fromRegistry[p])
           /\ ReceiveAtRegistry(p) => Handled(p) \in Sent /\ Handled(p) \in Range(toRegistry[p])
BY FromHeadFacts, ToHeadFacts DEF ReceiveFromRegistry, ReceiveAtRegistry, Typed, Taken, Handled

LEMMA RoutedRightKept == OrderInv /\ RoutedRight /\ [Next]_vars => RoutedRight'
<1> SUFFICES ASSUME OrderInv, RoutedRight, [Next]_vars PROVE RoutedRight'
    OBVIOUS
<1> USE DEF OrderInv
<1>1. ASSUME NEW p \in Participant, ReceiveFromRegistry(p), ReceiveRequest(p, Taken(p))
      PROVE  Taken(p).origin # p
    BY <1>1, TakenFacts DEF RoutedRight, ReceiveRequest
<1>2. ASSUME NEW a \in Participant, NEW m \in Range(toRegistry'[a]), m.type = "Request",
             m \notin Range(toRegistry[a])
      PROVE  m.origin # m.target /\ a = IF m.status = "REQUEST" THEN m.origin ELSE m.target
    <2>1. NewSent(a, m)
        BY <1>2, SentSteps
    <2>2. ASSUME NEW t \in Participant, m = Request(a, t, "REQUEST"), DirectFailure(a, t)
          PROVE  a # t
        BY <2>2, OneConnects DEF DirectFailure
    <2>3. ASSUME NEW o \in Participant, m = Request(o, a, "FAILED_TO_CONNECT"), ReverseFailure(a, o)
          PROVE  a # o
        BY <2>3 DEF ReverseFailure, RoutedRight
    <2> QED BY <1>1, <1>2, <2>1, <2>2, <2>3, RequestFields DEF NewSent, Proxy
<1>3. ASSUME NEW a \in Participant, NEW m \in Range(fromRegistry'[a]), m.type = "Request",
             m \notin Range(fromRegistry[a])
      PROVE  m.origin # m.target /\ a = IF m.status = "REQUEST" THEN m.target ELSE m.origin
    <2>1. m \notin Range(Welcome(a)) /\ m \notin Range(<<>>)
        BY <1>3, WelcomeFacts DEF Typed, Welcome, Range
    <2>2. NewDelivered(a, m)
        BY <1>3, <2>1, DeliveredSteps DEF DeliveredStep
    <2> QED BY <1>3, <2>2, TakenFacts DEF NewDelivered, RoutedRight, Proxy
<1>4. ASSUME NEW r \in reverse', r \notin reverse PROVE r[1] # r[2]
    BY <1>1, <1>4, ReverseSteps
<1> QED BY <1>2, <1>3, <1>4 DEF RoutedRight

\* A request comes to a place from the one before, and to the first when the
\* connecting begins.
LEMMA AskMoves ==
    ASSUME OrderInv, RoutedRight, [Next]_vars, NEW o \in Participant, NEW t \in Participant,
           OneToken(o, t), NEW i \in 1..5, Comes(i, o, t)
    PROVE  \/ i = 1 /\ stage[o][t] = "Direct"
           \/ i # 1 /\ AskAt(i - 1, o, t) /\ ~AskAt(i - 1, o, t)'
<1> USE DEF OrderInv
<1>1. CASE i = 1
    BY <1>1 DEF Comes, DirectFailure
<1>2. ASSUME NEW p \in Participant, NEW m, ReceiveAtRegistry(p), Handled(p) = m,
             Single(toRegistry[p], m)
      PROVE  m \in Range(toRegistry[p]) /\ m \notin Range(toRegistry'[p])
    <2>1. toRegistry[p] \in Seq(Sent) /\ toRegistry[p] # <<>>
          /\ toRegistry'[p] = Tail(toRegistry[p])
        BY <1>2, ToHeadFacts DEF ReceiveAtRegistry, Typed, ToTyped
    <2> QED BY <1>2, <2>1, SingleFacts, TakenFacts DEF Handled
<1>3. ASSUME NEW p \in Participant, NEW m, ReceiveFromRegistry(p), Taken(p) = m,
             Single(fromRegistry[p], m)
      PROVE  m \in Range(fromRegistry[p]) /\ m \notin Range(fromRegistry'[p])
    <2>1. fromRegistry[p] \in Seq(Delivered) /\ fromRegistry[p] # <<>>
          /\ fromRegistry'[p] = Tail(fromRegistry[p])
        BY <1>3, FromHeadFacts DEF ReceiveFromRegistry, Typed, FromTyped
    <2> QED BY <1>3, <2>1, SingleFacts, TakenFacts DEF Taken
<1>4. CASE i = 2
    <2>1. Asks(o, t) \in Range(toRegistry[o]) /\ Asks(o, t) \notin Range(toRegistry'[o])
        BY <1>2, <1>4 DEF Comes, OneToken
    <2> QED BY <1>4, <2>1 DEF AskAt
<1>5. CASE i = 3
    <2>1. Asks(o, t) \in Range(fromRegistry[t]) /\ Asks(o, t) \notin Range(fromRegistry'[t])
        BY <1>3, <1>5 DEF Comes, OneToken
    <2> QED BY <1>5, <2>1 DEF AskAt
<1>6. CASE i = 4
    <2>1. <<t, o>> \in reverse /\ <<t, o>> \notin reverse'
        BY <1>6 DEF Comes, ReverseFailure
    <2> QED BY <1>6, <2>1 DEF AskAt
<1>7. CASE i = 5
    <2>1. Fails(o, t) \in Range(toRegistry[t]) /\ Fails(o, t) \notin Range(toRegistry'[t])
        BY <1>2, <1>7 DEF Comes, OneToken
    <2> QED BY <1>7, <2>1 DEF AskAt
<1> QED BY <1>1, <1>4, <1>5, <1>6, <1>7

\* A request that a participant sends, or is sent, has come there.
LEMMA SentRequest ==
    ASSUME NEW o \in Participant, NEW t \in Participant
    PROVE  /\ NewSent(o, Asks(o, t)) => Comes(1, o, t)
           /\ NewSent(t, Fails(o, t)) => Comes(4, o, t)
<1>1. ASSUME NewSent(o, Asks(o, t)) PROVE Comes(1, o, t)
    <2>1. PICK u \in Participant :
              Asks(o, t) = Request(o, u, "REQUEST") /\ {o, u} \subseteq RemoteCapable
              /\ DirectFailure(o, u)
        BY <1>1, RequestFields DEF NewSent, Asks, Proxy
    <2>2. u = t
        BY <2>1, RequestFields DEF Asks
    <2> QED BY <2>1, <2>2 DEF Comes
<1>2. ASSUME NewSent(t, Fails(o, t)) PROVE Comes(4, o, t)
    <2>1. PICK u \in Participant :
              Fails(o, t) = Request(u, t, "FAILED_TO_CONNECT") /\ ReverseFailure(t, u)
        BY <1>2, RequestFields DEF NewSent, Fails, Proxy
    <2>2. u = o
        BY <2>1, RequestFields DEF Fails
    <2> QED BY <2>1, <2>2 DEF Comes
<1> QED BY <1>1, <1>2

LEMMA DeliveredRequest ==
    ASSUME Typed, RoutedRight, NEW o \in Participant, NEW t \in Participant
    PROVE  /\ NewDelivered(t, Asks(o, t)) => Comes(2, o, t)
           /\ NewDelivered(o, Fails(o, t)) => Comes(5, o, t)
<1>1. ASSUME NewDelivered(t, Asks(o, t)) PROVE Comes(2, o, t)
    <2>1. PICK s \in Participant : ReceiveAtRegistry(s) /\ Asks(o, t) = Handled(s)
        BY <1>1, RequestFields DEF NewDelivered, Asks, Proxy
    <2>2. s = o
        BY <2>1, TakenFacts, RequestFields DEF RoutedRight, Asks
    <2> QED BY <2>1, <2>2 DEF Comes
<1>2. ASSUME NewDelivered(o, Fails(o, t)) PROVE Comes(5, o, t)
    <2>1. PICK s \in Participant : ReceiveAtRegistry(s) /\ Fails(o, t) = Handled(s)
        BY <1>2, RequestFields DEF NewDelivered, Fails, Proxy
    <2>2. s = t
        BY <2>1, TakenFacts, RequestFields DEF RoutedRight, Fails
    <2> QED BY <2>1, <2>2 DEF Comes
<1> QED BY <1>1, <1>2

\* The messages of the registry other than those that are relayed are no requests.
LEMMA DeliveredOne ==
    ASSUME Typed, [Next]_vars, NEW a \in Participant, NEW m, m.type = "Request"
    PROVE  /\ m \in Range(fromRegistry'[a]) => m \in Range(fromRegistry[a]) \/ NewDelivered(a, m)
           /\ Single(fromRegistry[a], m)
                  => \/ Single(fromRegistry'[a], m)
                     \/ NewDelivered(a, m) /\ m \in Range(fromRegistry[a])
<1>1. DeliveredStep(a)
    BY DeliveredSteps
<1>2. Welcome(a) \in Seq(Delivered) /\ m \notin Range(Welcome(a)) /\ m \notin Range(<<>>)
    BY WelcomeFacts DEF Typed, Welcome, Range
<1>3. fromRegistry[a] \in Seq(Delivered)
    BY DEF Typed, FromTyped
<1>4. Single(<<>>, m)
    BY DEF Single
<1>5. ReceiveFromRegistry(a) => fromRegistry[a] # <<>>
    BY DEF ReceiveFromRegistry
<1>6. m \in Range(fromRegistry'[a]) => m \in Range(fromRegistry[a]) \/ NewDelivered(a, m)
    BY <1>1, <1>2 DEF DeliveredStep
<1>7. ASSUME Single(fromRegistry[a], m)
      PROVE  \/ Single(fromRegistry'[a], m)
             \/ NewDelivered(a, m) /\ m \in Range(fromRegistry[a])
    <2>1. /\ \A x \in Delivered : x # m \/ m \notin Range(fromRegistry[a])
                 => Single(Append(fromRegistry[a], x), m)
          /\ Single(fromRegistry[a] \o Welcome(a), m)
          /\ fromRegistry[a] # <<>> => Single(Tail(fromRegistry[a]), m)
        BY <1>2, <1>3, <1>7, SingleFacts
    <2> QED BY <1>1, <1>4, <1>5, <1>7, <2>1 DEF DeliveredStep
<1> QED BY <1>6, <1>7

LEMMA SentOne ==
    ASSUME Typed, [Next]_vars, NEW a \in Participant, NEW m
    PROVE  /\ m \in Range(toRegistry'[a]) => m \in Range(toRegistry[a]) \/ NewSent(a, m)
           /\ Single(toRegistry[a], m)
                  => \/ Single(toRegistry'[a], m)
                     \/ NewSent(a, m) /\ m \in Range(toRegistry[a])
<1>1. toRegistry[a] \in Seq(Sent)
    BY DEF Typed, ToTyped
<1>2. ReceiveAtRegistry(a) => toRegistry[a] # <<>>
    BY DEF ReceiveAtRegistry
<1>3. m \in Range(toRegistry'[a]) => m \in Range(toRegistry[a]) \/ NewSent(a, m)
    BY SentSteps
<1>4. ASSUME Single(toRegistry[a], m)
      PROVE  Single(toRegistry'[a], m) \/ (NewSent(a, m) /\ m \in Range(toRegistry[a]))
    <2>1. /\ \A x \in Sent : x # m \/ m \notin Range(toRegistry[a])
                 => Single(Append(toRegistry[a], x), m)
          /\ toRegistry[a] # <<>> => Single(Tail(toRegistry[a]), m)
        BY <1>1, <1>4, SingleFacts
    <2> QED BY <1>2, <1>4, <2>1, SentSteps
<1> QED BY <1>3, <1>4

LEMMA AskSteps ==
    ASSUME OrderInv, RoutedRight, [Next]_vars, NEW o \in Participant, NEW t \in Participant,
           NEW i \in 1..5, AskAt(i, o, t)'
    PROVE  AskAt(i, o, t) \/ Comes(i, o, t)
<1> USE DEF OrderInv
<1>1. Asks(o, t).type = "Request" /\ Fails(o, t).type = "Request"
    BY RequestFields DEF Asks, Fails
<1>2. CASE i = 1
    <2>1. Asks(o, t) \in Range(toRegistry'[o])
        BY <1>2 DEF AskAt
    <2> QED BY <1>2, <2>1, SentOne, SentRequest DEF AskAt
<1>3. CASE i = 2
    <2>1. Asks(o, t) \in Range(fromRegistry'[t])
        BY <1>3 DEF AskAt
    <2> QED BY <1>1, <1>3, <2>1, DeliveredOne, DeliveredRequest DEF AskAt
<1>4. CASE i = 3
    <2>1. SUFFICES ASSUME <<t, o>> \in reverse', <<t, o>> \notin reverse PROVE Comes(i, o, t)
        BY <1>4 DEF AskAt
    <2>2. PICK p \in Participant :
              ReceiveFromRegistry(p) /\ ReceiveRequest(p, Taken(p)) /\ <<t, o>> = <<p, Taken(p).origin>>
        BY <2>1, ReverseSteps
    <2>3. /\ Taken(t).type = "Request" /\ Taken(t).target = t /\ Taken(t).origin = o
          /\ Taken(t) \in Range(fromRegistry[t]) /\ Taken(t) \in Delivered
        BY <2>2, TakenFacts DEF ReceiveRequest
    <2>4. Taken(t).status = "REQUEST"
        BY <2>3 DEF RoutedRight
    <2>5. Taken(t) = Asks(o, t)
        BY <2>3, <2>4, MessageFields, RequestFields DEF Asks
    <2> QED BY <1>4, <2>2, <2>5 DEF Comes
<1>5. CASE i = 4
    <2>1. Fails(o, t) \in Range(toRegistry'[t])
        BY <1>5 DEF AskAt
    <2> QED BY <1>5, <2>1, SentOne, SentRequest DEF AskAt
<1>6. CASE i = 5
    <2>1. Fails(o, t) \in Range(fromRegistry'[o])
        BY <1>6 DEF AskAt
    <2> QED BY <1>1, <1>6, <2>1, DeliveredOne, DeliveredRequest DEF AskAt
<1> QED BY <1>2, <1>3, <1>4, <1>5, <1>6

\* The request is in one place: it leaves one as it comes to the next.
LEMMA OneTokenKept ==
    ASSUME OrderInv, RoutedRight, [Next]_vars, NEW o \in Participant, NEW t \in Participant,
           OneToken(o, t), Ask(o, t) => Begun(o, t)
    PROVE  OneToken(o, t)'
<1>1. ASSUME Comes(1, o, t) PROVE \A i \in 1..5 : ~AskAt(i, o, t)
    BY <1>1 DEF Ask, Begun, Comes, DirectFailure
<1>2. ASSUME NEW i \in 1..5, Comes(i, o, t)
      PROVE  i = 1 \/ (i - 1 \in 1..5 /\ AskAt(i - 1, o, t) /\ ~AskAt(i - 1, o, t)')
    BY <1>2, AskMoves
<1>3. \A i \in 1..5 : AskAt(i, o, t)' => AskAt(i, o, t) \/ Comes(i, o, t)
    BY AskSteps
<1>4. ASSUME NEW i \in 1..5, Comes(i, o, t) PROVE ~AskAt(i, o, t)
    BY <1>1, <1>2, <1>4 DEF OneToken
<1>5. ASSUME NEW i \in 1..5, NEW j \in 1..5, AskAt(i, o, t), AskAt(i, o, t)', Comes(j, o, t)
      PROVE  FALSE
    BY <1>1, <1>2, <1>5 DEF OneToken
<1>6. ASSUME NEW i \in 1..5, NEW j \in 1..5, Comes(i, o, t), Comes(j, o, t)
      PROVE  i = j
    <2>1. CASE i = 1 \/ j = 1
        BY <1>1, <1>2, <1>6, <2>1
    <2>2. CASE i # 1 /\ j # 1
        BY <1>2, <1>6, <2>2 DEF OneToken
    <2> QED BY <2>1, <2>2
<1>7. \A i, j \in 1..5 : AskAt(i, o, t)' /\ AskAt(j, o, t)' => i = j
    BY <1>3, <1>5, <1>6 DEF OneToken
<1>8. Asks(o, t).type = "Request" /\ Fails(o, t).type = "Request"
    BY RequestFields DEF Asks, Fails
<1>9. Single(toRegistry'[o], Asks(o, t))
    <2>1. ~(NewSent(o, Asks(o, t)) /\ Asks(o, t) \in Range(toRegistry[o]))
        BY <1>4, SentRequest DEF AskAt
    <2> QED BY <2>1, SentOne DEF OneToken, OrderInv
<1>10. Single(toRegistry'[t], Fails(o, t))
    <2>1. ~(NewSent(t, Fails(o, t)) /\ Fails(o, t) \in Range(toRegistry[t]))
        BY <1>4, SentRequest DEF AskAt
    <2> QED BY <2>1, SentOne DEF OneToken, OrderInv
<1>11. Single(fromRegistry'[t], Asks(o, t))
    <2>1. ~(NewDelivered(t, Asks(o, t)) /\ Asks(o, t) \in Range(fromRegistry[t]))
        BY <1>4, DeliveredRequest DEF AskAt, OrderInv
    <2> QED BY <1>8, <2>1, DeliveredOne DEF OneToken, OrderInv
<1>12. Single(fromRegistry'[o], Fails(o, t))
    <2>1. ~(NewDelivered(o, Fails(o, t)) /\ Fails(o, t) \in Range(fromRegistry[o]))
        BY <1>4, DeliveredRequest DEF AskAt, OrderInv
    <2> QED BY <1>8, <2>1, DeliveredOne DEF OneToken, OrderInv
<1> QED BY <1>7, <1>9, <1>10, <1>11, <1>12 DEF OneToken, Asks, Fails, Request

-----------------------------------------------------------------------------
(* A pair has one connection.                                              *)

\* Nothing is there of a connection that nobody has begun.
TraceBegun == \A k \in Kind : \A p, q \in Participant :
    Trace(k, p, q) => Begun(p, q) \/ Begun(q, p)

AskBegun == \A o, t \in Participant : Ask(o, t) => Begun(o, t)

\* Unless o gave up waiting, its connection to t is of one kind, none is there
\* while t is asked to connect, and o waits for t in vain only.
OneWay(o, t) ==
    Begun(o, t) /\ ~GaveUp(o, t) =>
        /\ \A k, j \in Kind : Trace(k, o, t) /\ Trace(j, o, t) => k = j
        /\ Ask(o, t) => \A k \in Kind : ~Trace(k, o, t)
        /\ AwaitsRemote(o, t) => ~Trace("direct", o, t) /\ ~Trace("proxy", o, t)

LinkInv ==
    /\ OrderInv /\ IInv /\ RelayedRight /\ RoutedRight /\ TraceBegun /\ AskBegun
    /\ \A o, t \in Participant : OneToken(o, t) /\ OneWay(o, t)

\* Falling back on the proxy ends the waiting.
LEMMA ProxyStartFacts ==
    ASSUME OrderInv, RoutedRight, [Next]_vars, NEW p \in Participant, NEW q \in Participant,
           ProxyStart(p, q)
    PROVE  \/ timer'[p][q] = "Expired" /\ Begun(p, q)
           \/ /\ stage[p][q] = "Direct" /\ stage'[p][q] \in {"WaitingForReply", "Failure"}
              /\ DirectFailure(p, q) /\ ~({p, q} \subseteq RemoteCapable)
           \/ /\ AwaitsRemote(p, q) /\ stage'[p][q] \in {"WaitingForReply", "Failure"}
              /\ ReceiveFromRegistry(p)
              /\ Taken(p) = Fails(p, q) /\ UNCHANGED reverse
<1> USE DEF OrderInv
<1>1. ASSUME ProxyConnect(p, q) PROVE stage'[p][q] \in {"WaitingForReply", "Failure"}
    BY <1>1, ProxyConnectFacts, SetStageFacts DEF Typed, Stage
<1>2. CASE DirectFailure(p, q) /\ ~({p, q} \subseteq RemoteCapable)
    BY <1>1, <1>2 DEF DirectFailure
<1>3. CASE TimerExpired(p, q)
    BY <1>3 DEF TimerExpired, Typed, RemoteTyped, StagesInOrder
<1>4. CASE /\ ReceiveFromRegistry(p) /\ ReceiveRequestStatus(p, Taken(p))
           /\ Taken(p).status = "FAILED_TO_CONNECT" /\ Taken(p).target = q
           /\ AwaitsRemote(p, q)
    <2>1. ProxyConnect(p, q) /\ UNCHANGED reverse
        BY <1>4 DEF ReceiveRequestStatus
    <2>2. Taken(p) = Fails(p, q)
        BY <1>4, TakenFacts, MessageFields, RequestFields DEF ReceiveRequestStatus, Fails
    <2> QED BY <1>1, <1>4, <2>1, <2>2
<1> QED BY <1>2, <1>3, <1>4 DEF ProxyStart

\* A connection is opened by who begins, or as was asked for.
LEMMA OpensFacts ==
    ASSUME OrderInv, RoutedRight, [Next]_vars, NEW k \in Kind, NEW p \in Participant,
           NEW q \in Participant, Opens(k, p, q)
    PROVE  \/ k # "remote" /\ stage[p][q] # "Invalid" /\ Begun(p, q)'
           \/ k = "remote" /\ AskAt(3, q, p)
<1>1. CASE k = "direct" /\ DirectSuccess(p, q)
    <2>1. stage'[p][q] = "WaitingForReply"
        BY <1>1, SetStageFacts DEF DirectSuccess, OrderInv, Typed, Stage
    <2> QED BY <1>1, <2>1 DEF DirectSuccess, Begun
<1>2. CASE k = "remote" /\ ReverseSuccess(p, q)
    BY <1>2 DEF ReverseSuccess, AskAt
<1>3. CASE k = "proxy" /\ ProxyStart(p, q)
    <2>1. Begun(p, q) => Begun(p, q)'
        BY StageSteps DEF OrderInv
    <2> QED BY <1>3, <2>1, ProxyStartFacts DEF Begun, AwaitsRemote
<1> QED BY <1>1, <1>2, <1>3 DEF Opens

LEMMA AskBegunKept ==
    ASSUME LinkInv, [Next]_vars, NEW o \in Participant, NEW t \in Participant, Ask(o, t)'
    PROVE  Begun(o, t)' /\ (Ask(o, t) \/ Comes(1, o, t))
<1> USE DEF LinkInv
<1>1. Ask(o, t) => Begun(o, t)'
    BY StageSteps DEF AskBegun, OrderInv
<1>2. PICK i \in 1..5 : AskAt(i, o, t)'
    BY DEF Ask
<1>3. AskAt(i, o, t) \/ Comes(i, o, t)
    BY <1>2, AskSteps
<1>4. CASE i # 1 /\ Comes(i, o, t)
    <2>1. AskAt(i - 1, o, t) /\ i - 1 \in 1..5
        BY <1>4, AskMoves
    <2> QED BY <1>1, <2>1 DEF Ask
<1>5. CASE i = 1 /\ Comes(i, o, t)
    <2>1. DirectFailure(o, t) /\ {o, t} \subseteq RemoteCapable
        BY <1>5 DEF Comes
    <2>2. stage'[o][t] = "RemoteConnectRequested"
        BY <2>1, SetStageFacts DEF DirectFailure, OrderInv, Typed, Stage
    <2> QED BY <1>5, <2>2 DEF Begun
<1> QED BY <1>1, <1>3, <1>4, <1>5 DEF Ask

LEMMA TraceBegunKept == LinkInv /\ [Next]_vars => TraceBegun'
<1> SUFFICES ASSUME LinkInv, [Next]_vars, NEW k \in Kind, NEW p \in Participant,
                    NEW q \in Participant, Trace(k, p, q)'
             PROVE  Begun(p, q)' \/ Begun(q, p)'
    BY DEF TraceBegun
<1>1. \A a, b \in Participant : Begun(a, b) => Begun(a, b)'
    BY StageSteps DEF LinkInv, OrderInv
<1>2. ASSUME NEW a \in Participant, NEW b \in Participant, Opens(k, a, b)
      PROVE  Begun(a, b)' \/ Begun(b, a)'
    <2>1. AskAt(3, b, a) => Ask(b, a)
        BY DEF Ask
    <2> QED BY <1>1, <1>2, <2>1, OpensFacts DEF LinkInv, AskBegun
<1>3. Trace(k, p, q) \/ Opens(k, p, q) \/ Opens(k, q, p)
    BY TraceSteps DEF LinkInv, OrderInv, IInv
<1> QED BY <1>1, <1>2, <1>3 DEF LinkInv, TraceBegun

\* What the steps do that open a connection of o and t, or ask for one, when o is
\* the one that connects and has not given up.
LEMMA PairSteps ==
    ASSUME LinkInv, [Next]_vars, NEW o \in Participant, NEW t \in Participant,
           Begun(o, t)', ~GaveUp(o, t)'
    PROVE  /\ ~GaveUp(o, t)
           /\ \A k \in Kind : Trace(k, o, t)' =>
                  \/ Trace(k, o, t)
                  \/ k = "direct" /\ DirectSuccess(o, t)
                  \/ k = "remote" /\ ReverseSuccess(t, o)
                  \/ k = "proxy" /\ ProxyStart(o, t)
           /\ ~Begun(o, t) => ~Ask(o, t) /\ \A k \in Kind : ~Trace(k, o, t)
<1> USE DEF LinkInv
<1>1. stage'[t][o] = "Invalid"
    <2>1. OrderInv' /\ stage'[o][t] # "Invalid"
        BY OrderKept DEF Begun
    <2> QED BY <2>1 DEF OrderInv, ToldInOrder, StagesInOrder, Told
<1>2. stage[t][o] = "Invalid"
    BY <1>1, StageSteps DEF OrderInv
<1>3. ~Begun(t, o) /\ ~Begun(t, o)' /\ ~Ask(t, o)
    BY <1>1, <1>2 DEF Begun, AskBegun
<1>4. ~GaveUp(o, t)
    BY TimerSteps DEF GaveUp, OrderInv
<1>5. ASSUME NEW k \in Kind, Trace(k, o, t)', ~Trace(k, o, t)
      PROVE  \/ k = "direct" /\ DirectSuccess(o, t)
             \/ k = "remote" /\ ReverseSuccess(t, o)
             \/ k = "proxy" /\ ProxyStart(o, t)
    <2>1. Opens(k, o, t) \/ Opens(k, t, o)
        BY <1>5, TraceSteps DEF OrderInv, IInv
    <2>2. k # "remote" => ~Opens(k, t, o)
        BY <1>2, OpensFacts
    <2>3. k = "remote" => ~Opens(k, o, t)
        BY <1>3, OpensFacts DEF Ask
    <2> QED BY <2>1, <2>2, <2>3 DEF Opens
<1>6. ~Begun(o, t) => ~Ask(o, t) /\ \A k \in Kind : ~Trace(k, o, t)
    BY <1>3 DEF AskBegun, TraceBegun
<1> QED BY <1>4, <1>5, <1>6

\* A request that is used up is not there any more.
LEMMA AskEnds ==
    ASSUME LinkInv, [Next]_vars, NEW o \in Participant, NEW t \in Participant,
           \/ ReverseSuccess(t, o) /\ \A k \in Kind : ~Trace(k, o, t)
           \/ ReceiveFromRegistry(o) /\ Taken(o) = Fails(o, t) /\ UNCHANGED reverse
    PROVE  Ask(o, t) /\ ~Ask(o, t)'
<1> USE DEF LinkInv
<1>1. ASSUME NEW n \in {3, 5}, AskAt(n, o, t), ~AskAt(n, o, t)', ~Comes(n + 1, o, t)
      PROVE  Ask(o, t) /\ ~Ask(o, t)'
    <2>1. n \in 1..5 /\ n \in Int
        OBVIOUS
    <2>2. \A i \in 1..5 : AskAt(i, o, t) => i = n
        BY <1>1, <2>1 DEF OneToken
    <2>3. ASSUME NEW i \in 1..5, Comes(i, o, t) PROVE FALSE
        <3>1. i # 1
            <4>1. Begun(o, t)
                BY <1>1, <2>1 DEF Ask, AskBegun
            <4> QED BY <2>3, <4>1 DEF Begun, Comes, DirectFailure
        <3>2. AskAt(i - 1, o, t) /\ i - 1 \in 1..5
            BY <2>3, <3>1, AskMoves
        <3>3. i = n + 1
            BY <2>1, <2>2, <3>2
        <3> QED BY <1>1, <2>3, <3>3
    <2>4. \A i \in 1..5 : ~AskAt(i, o, t)'
        BY <1>1, <2>2, <2>3, AskSteps
    <2> QED BY <1>1, <2>1, <2>4 DEF Ask
<1>2. CASE ReverseSuccess(t, o) /\ \A k \in Kind : ~Trace(k, o, t)
    <2>1. AskAt(3, o, t) /\ ~AskAt(3, o, t)'
        BY <1>2 DEF ReverseSuccess, AskAt
    <2>2. ASSUME ReverseFailure(t, o) PROVE FALSE
        <3> DEFINE m == [kind |-> "remote", from |-> t, to |-> o, payload |-> "RemoteAnnouncement"]
        <3>1. m \in wire' /\ wire' = wire
            BY <1>2, <2>2 DEF ReverseSuccess, ReverseFailure
        <3>2. m.kind = "remote" /\ m.from = t /\ m.to = o
            OBVIOUS
        <3> HIDE DEF m
        <3>3. Trace("remote", o, t)
            BY <3>1, <3>2 DEF Trace
        <3> QED BY <1>2, <3>3 DEF Kind
    <2>3. ~Comes(4, o, t)
        BY <2>2 DEF Comes
    <2> QED BY <1>1, <2>1, <2>3
<1>3. CASE ReceiveFromRegistry(o) /\ Taken(o) = Fails(o, t) /\ UNCHANGED reverse
    <2>1. fromRegistry[o] \in Seq(Delivered) /\ fromRegistry[o] # <<>>
          /\ fromRegistry'[o] = Tail(fromRegistry[o])
        BY <1>3, FromHeadFacts DEF ReceiveFromRegistry, OrderInv, Typed, FromTyped
    <2>2. Single(fromRegistry[o], Fails(o, t))
        BY DEF OneToken
    <2>3. Fails(o, t) \in Range(fromRegistry[o]) /\ Fails(o, t) \notin Range(fromRegistry'[o])
        BY <1>3, <2>1, <2>2, SingleFacts, TakenFacts DEF Taken, OrderInv
    <2>4. AskAt(5, o, t) /\ ~AskAt(5, o, t)' /\ ~Comes(6, o, t)
        BY <2>3 DEF AskAt, Comes, Fails, Request
    <2> QED BY <1>1, <2>4
<1> QED BY <1>2, <1>3

\* The connection of a pair stays the only one: another is opened when there is none.
LEMMA OneWayKept ==
    ASSUME LinkInv, [Next]_vars, NEW o \in Participant, NEW t \in Participant
    PROVE  OneWay(o, t)'
<1> SUFFICES ASSUME Begun(o, t)', ~GaveUp(o, t)'
             PROVE  /\ \A k, j \in Kind : Trace(k, o, t)' /\ Trace(j, o, t)' => k = j
                    /\ Ask(o, t)' => \A k \in Kind : ~Trace(k, o, t)'
                    /\ AwaitsRemote(o, t)' => ~Trace("direct", o, t)' /\ ~Trace("proxy", o, t)'
    BY DEF OneWay
<1> USE DEF LinkInv
<1> DEFINE Clear == \A k \in Kind : ~Trace(k, o, t)
<1>1. /\ ~GaveUp(o, t)
      /\ \A k \in Kind : Trace(k, o, t)' =>
             \/ Trace(k, o, t)
             \/ k = "direct" /\ DirectSuccess(o, t)
             \/ k = "remote" /\ ReverseSuccess(t, o)
             \/ k = "proxy" /\ ProxyStart(o, t)
      /\ ~Begun(o, t) => ~Ask(o, t) /\ Clear
    BY PairSteps
<1>2. /\ \A k, j \in Kind : Trace(k, o, t) /\ Trace(j, o, t) => k = j
      /\ Ask(o, t) => Clear
      /\ AwaitsRemote(o, t) => ~Trace("direct", o, t) /\ ~Trace("proxy", o, t)
    <2>1. CASE Begun(o, t)
        BY <1>1, <2>1 DEF OneWay
    <2>2. CASE ~Begun(o, t)
        BY <1>1, <2>2 DEF Kind
    <2> QED BY <2>1, <2>2
<1>3. Ask(o, t)' => Ask(o, t) \/ Comes(1, o, t)
    BY AskBegunKept
<1>4. {"direct", "remote", "proxy"} = Kind
    BY DEF Kind
<1> HIDE DEF Clear
<1>5. ASSUME DirectSuccess(o, t)
      PROVE  /\ Clear /\ ~Ask(o, t)' /\ ~AwaitsRemote(o, t)'
             /\ ~ReverseSuccess(t, o) /\ ~ProxyStart(o, t)
    <2>1. stage[o][t] = "Direct" /\ stage'[o][t] = "WaitingForReply"
        BY <1>5, SetStageFacts DEF DirectSuccess, OrderInv, Typed, Stage
    <2>2. Clear /\ ~Ask(o, t) /\ ~AwaitsRemote(o, t) /\ ~AwaitsRemote(o, t)'
        BY <1>1, <2>1 DEF Begun, AwaitsRemote
    <2>3. ~Comes(1, o, t)
        <3>1. ASSUME DirectFailure(o, t), {o, t} \subseteq RemoteCapable PROVE FALSE
            <4>1. stage'[o][t] = "RemoteConnectRequested"
                BY <3>1, SetStageFacts DEF DirectFailure, OrderInv, Typed, Stage
            <4> QED BY <2>1, <4>1
        <3> QED BY <3>1 DEF Comes
    <2>4. ~ReverseSuccess(t, o)
        BY <2>2 DEF ReverseSuccess, Ask, AskAt
    <2>5. ~DirectFailure(o, t)
        <3>1. SUFFICES ASSUME DirectFailure(o, t) PROVE FALSE
            OBVIOUS
        <3> DEFINE m == [kind |-> "direct", from |-> o, to |-> t, payload |-> "Announcement"]
        <3>2. m \in wire' /\ wire' = wire
            BY <1>5, <3>1 DEF DirectSuccess, DirectFailure
        <3>3. m.kind = "direct" /\ m.from = o /\ m.to = t
            OBVIOUS
        <3> HIDE DEF m
        <3>4. Trace("direct", o, t)
            BY <3>2, <3>3 DEF Trace
        <3> QED BY <1>4, <2>2, <3>4 DEF Clear
    <2>6. ~ProxyStart(o, t)
        BY <1>1, <2>1, <2>2, <2>5, ProxyStartFacts DEF Begun
    <2> QED BY <1>3, <2>2, <2>3, <2>4, <2>6
<1>6. ASSUME Comes(1, o, t)
      PROVE  Clear /\ ~ReverseSuccess(t, o) /\ ~ProxyStart(o, t)
    <2>1. stage[o][t] = "Direct" /\ {o, t} \subseteq RemoteCapable
        BY <1>6 DEF Comes, DirectFailure
    <2>2. Clear /\ ~Ask(o, t) /\ ~AwaitsRemote(o, t)
        BY <1>1, <2>1 DEF Begun, AwaitsRemote
    <2>3. ~ReverseSuccess(t, o)
        BY <2>2 DEF ReverseSuccess, Ask, AskAt
    <2>4. ~ProxyStart(o, t)
        BY <2>1, <2>2, ProxyStartFacts DEF Begun
    <2> QED BY <2>2, <2>3, <2>4
<1>7. ASSUME ReverseSuccess(t, o)
      PROVE  Clear /\ ~Ask(o, t)' /\ ~ProxyStart(o, t)
    <2>1. AskAt(3, o, t) /\ ~AskAt(3, o, t)'
        BY <1>7 DEF ReverseSuccess, AskAt
    <2>2. Clear /\ Begun(o, t)
        BY <1>2, <2>1 DEF Ask, AskBegun
    <2>3. ~Ask(o, t)'
        BY <1>7, <2>2, AskEnds DEF Clear
    <2>4. ASSUME ProxyStart(o, t) PROVE FALSE
        <3>1. timer'[o][t] # "Expired" /\ stage[o][t] # "Direct"
            BY <2>2 DEF GaveUp, Begun
        <3>2. UNCHANGED reverse
            BY <2>4, <3>1, ProxyStartFacts
        <3> QED BY <1>7, <3>2 DEF ReverseSuccess
    <2> QED BY <2>2, <2>3, <2>4
<1>8. ASSUME ProxyStart(o, t)
      PROVE  Clear /\ ~Ask(o, t)' /\ ~AwaitsRemote(o, t)'
    <2>1. timer'[o][t] # "Expired"
        BY DEF GaveUp
    <2>2. CASE stage[o][t] = "Direct" /\ stage'[o][t] \in {"WaitingForReply", "Failure"}
        <3>1. Clear /\ ~Ask(o, t)
            BY <1>1, <2>2 DEF Begun
        <3>2. ~Comes(1, o, t)
            BY <1>6, <1>8
        <3> QED BY <1>3, <2>2, <3>1, <3>2 DEF AwaitsRemote
    <2>3. CASE /\ AwaitsRemote(o, t) /\ stage'[o][t] \in {"WaitingForReply", "Failure"}
               /\ ReceiveFromRegistry(o) /\ Taken(o) = Fails(o, t) /\ UNCHANGED reverse
        <3>1. Ask(o, t) /\ ~Ask(o, t)'
            BY <2>3, AskEnds
        <3> QED BY <1>2, <2>3, <3>1 DEF AwaitsRemote
    <2> QED BY <1>8, <2>1, <2>2, <2>3, ProxyStartFacts
<1>9. ASSUME NEW k \in Kind, NEW j \in Kind, Trace(k, o, t)', Trace(j, o, t)'
      PROVE  k = j
    BY <1>1, <1>2, <1>5, <1>7, <1>8, <1>9 DEF Clear
<1>10. ASSUME Ask(o, t)', NEW k \in Kind, Trace(k, o, t)' PROVE FALSE
    BY <1>1, <1>2, <1>3, <1>5, <1>6, <1>7, <1>8, <1>10 DEF Clear
<1>11. ASSUME AwaitsRemote(o, t)' PROVE ~Trace("direct", o, t)' /\ ~Trace("proxy", o, t)'
    <2>1. AwaitsRemote(o, t) \/ stage[o][t] = "Direct"
        BY <1>11, StageSteps DEF OrderInv
    <2>2. ~Trace("direct", o, t) /\ ~Trace("proxy", o, t)
        BY <1>1, <1>2, <1>4, <2>1 DEF Begun, Clear
    <2> QED BY <1>1, <1>4, <1>5, <1>8, <1>11, <2>2
<1> QED BY <1>9, <1>10, <1>11

LEMMA InitLink == Init => LinkInv
<1> SUFFICES ASSUME Init PROVE LinkInv
    OBVIOUS
<1>1. Typed /\ IInv
    BY InitTypes, InitIInv
<1>2. /\ \A p \in Participant : /\ phase[p] = "Out" /\ known[p] = {} /\ peers[p] = {}
                                /\ toRegistry[p] = <<>> /\ fromRegistry[p] = <<>>
      /\ \A p, q \in Participant : stage[p][q] = "Invalid" /\ timer[p][q] = "Off"
      /\ reverse = {} /\ wire = {} /\ connected = {} /\ routes = {}
    BY DEF Init
<1>3. Range(<<>>) = {} /\ DOMAIN <<>> = {}
    BY DEF Range
<1>4. DepartedOnly /\ RelayedRight /\ RoutedRight
    BY <1>2, <1>3 DEF DepartedOnly, RelayedRight, RoutedRight
<1>5. RegistrationOK
    BY <1>2, <1>3 DEF RegistrationOK, AnnouncedFirst, NotToldBefore, RegisteredWhileUp, WelcomedOnce,
                      Unannounced
<1>6. ToldInOrder /\ StagesInOrder
    BY <1>2, <1>3 DEF ToldInOrder, Told, StagesInOrder
<1>7. \A k : \A p, q \in Participant : ~Trace(k, p, q)
    BY <1>2, <1>3 DEF Trace, InFlight
<1>8. \A o, t \in Participant : (\A i \in 1..5 : ~AskAt(i, o, t)) /\ ~Begun(o, t)
    BY <1>2, <1>3 DEF AskAt, Begun
<1>9. \A o, t \in Participant : OneToken(o, t) /\ OneWay(o, t)
    BY <1>2, <1>3, <1>8 DEF OneToken, OneWay, Single
<1> QED BY <1>1, <1>4, <1>5, <1>6, <1>7, <1>8, <1>9 DEF LinkInv, OrderInv, TraceBegun, AskBegun, Ask

LEMMA NextLink == LinkInv /\ [Next]_vars => LinkInv'
<1> SUFFICES ASSUME LinkInv, [Next]_vars PROVE LinkInv'
    OBVIOUS
<1>1. OrderInv' /\ IInv' /\ RelayedRight' /\ RoutedRight'
    BY OrderKept, NextKeepsIInv, RelayedRightKept, RoutedRightKept DEF LinkInv, OrderInv
<1>2. TraceBegun' /\ AskBegun'
    BY TraceBegunKept, AskBegunKept DEF AskBegun
<1>3. ASSUME NEW o \in Participant, NEW t \in Participant PROVE OneToken(o, t)' /\ OneWay(o, t)'
    BY OneTokenKept, OneWayKept DEF LinkInv, AskBegun
<1> QED BY <1>1, <1>2, <1>3 DEF LinkInv

\* Two participants are connected once, however the direct connection, the remote
\* one and the proxy were tried, answered late or lost, for any participants: what
\* OnTimerExpired does is the only way to a second connection.
THEOREM OneLinkForAPair == Spec => []OneLinkPerPair
<1>1. LinkInv => OneLinkPerPair
    <2> SUFFICES ASSUME LinkInv, NEW p \in Participant, NEW q \in Participant, ~GaveUp(p, q)
                 PROVE  ~(Cardinality(Links(p, q)) > 1)
        BY DEF OneLinkPerPair
    <2>1. \A k \in Links(p, q) : k \in Kind /\ Trace(k, p, q) /\ Trace(k, q, p)
        BY DEF Links, Trace
    <2>2. ~GaveUp(q, p)
        BY DEF GaveUp
    <2>3. \A k, j \in Links(p, q) : k = j
        BY <2>1, <2>2 DEF LinkInv, TraceBegun, OneWay
    <2>4. CASE Links(p, q) = {}
        BY <2>4, FS_EmptySet
    <2>5. ASSUME NEW k \in Links(p, q) PROVE Cardinality(Links(p, q)) = 1
        <3>1. Links(p, q) = {k}
            BY <2>3, <2>5
        <3> QED BY <3>1, FS_Singleton
    <2> QED BY <2>4, <2>5
<1> QED BY <1>1, InitLink, NextLink, PTL DEF Spec
=============================================================================
