------------------------ MODULE DiscoveryStoreProofs ------------------------
(***************************************************************************)
(* Proofs about the SpecificDiscoveryStore for any number of services,     *)
(* handlers and labels: which cluster is searched never connects what does *)
(* not match, and the clusters of the labels are exact.                    *)
(***************************************************************************)
EXTENDS DiscoveryStore, TLAPS

\* The part of the types that the proofs need. The keys that are entered in
\* notLabelMap depend on a fold over a list of labels.
MapsOK ==
    /\ labels \in [Item -> LabelLists]
    /\ status \in [Item -> {"None", "Known", "Removed"}]
    /\ labelMap \in [Key \X Value -> [Item -> Nat]]
    /\ joined \in [Handler -> SUBSET Service]

\* An item has a label with a key and a value.
Carries(x, kv) == \E l \in Range(labels[x]) : <<l.key, l.value>> = kv

\* LabelMapIsExact, over pairs of a key and a value.
MapIsExact == \A x \in Item : \A kv \in Key \X Value :
    labelMap[kv][x] > 0 <=> Known(x) /\ Carries(x, kv)

IInv == MapsOK /\ JoinedMatch /\ MapIsExact

-----------------------------------------------------------------------------

\* Util::MatchLabels is symmetric.
LEMMA MatchLabelsIsSymmetric ==
    ASSUME NEW ls1, NEW ls2, MatchLabels(ls1, ls2)
    PROVE  MatchLabels(ls2, ls1)
BY DEF MatchLabels

\* What is found matches and is of the kind that is searched, whichever label the
\* search has chosen.
LEMMA FoundMatches ==
    ASSUME NEW ls, NEW kind, NEW x \in Found(ls, kind)
    PROVE  x \in kind /\ MatchLabels(labels[x], ls)
<1> DEFINE l == Minimal(ls, kind).label
<1>1. x \in Candidates(l, kind) /\ MatchLabels(labels[x], ls)
    BY DEF Found
<1>2. x \in kind
    <2> HIDE DEF l
    <2> QED BY <1>1 DEF Candidates, In
<1> QED BY <1>1, <1>2

\* Adding an item to the clusters keeps their type, and enters it exactly for its
\* labels.
LEMMA InsertIsExact ==
    ASSUME MapsOK, NEW x \in Item, NEW before, Insert(x, before)
    PROVE  /\ labelMap' \in [Key \X Value -> [Item -> Nat]]
           /\ \A kv \in Key \X Value :
                  /\ Carries(x, kv) => labelMap'[kv][x] > 0
                  /\ ~Carries(x, kv) => labelMap'[kv][x] = labelMap[kv][x]
                  /\ \A y \in Item \ {x} : labelMap'[kv][y] = labelMap[kv][y]
<1> DEFINE has == {<<l.key, l.value>> : l \in Range(labels[x])}
           lm == [kv \in Key \X Value |->
                     IF kv \in has THEN [labelMap[kv] EXCEPT ![x] = @ + 1] ELSE labelMap[kv]]
<1>1. labelMap' = lm
    BY DEF Insert, AddOne
<1>2. \A kv : kv \in has <=> Carries(x, kv)
    BY DEF Carries
<1> HIDE DEF has
<1>3. ASSUME NEW kv \in Key \X Value
      PROVE  /\ lm[kv] \in [Item -> Nat]
             /\ kv \in has => lm[kv][x] > 0
             /\ kv \notin has => lm[kv][x] = labelMap[kv][x]
             /\ \A y \in Item \ {x} : lm[kv][y] = labelMap[kv][y]
    <2>1. labelMap[kv] \in [Item -> Nat]
        BY DEF MapsOK
    <2>2. CASE kv \in has
        <3>1. lm[kv] = [labelMap[kv] EXCEPT ![x] = @ + 1]
            BY <2>2
        <3> QED BY <2>1, <2>2, <3>1
    <2>3. CASE kv \notin has
        BY <2>1, <2>3
    <2> QED BY <2>2, <2>3
<1>4. lm \in [Key \X Value -> [Item -> Nat]]
    BY <1>3
<1> HIDE DEF lm
<1> QED BY <1>1, <1>2, <1>3, <1>4

\* Removing a service takes it out of the cluster of every label.
LEMMA RemovalIsExact ==
    ASSUME MapsOK, NEW s \in Service, NEW before, RemoveLookupNode(s, before)
    PROVE  /\ labelMap' \in [Key \X Value -> [Item -> Nat]]
           /\ \A kv \in Key \X Value :
                  /\ labelMap'[kv][s] = 0
                  /\ \A y \in Item \ {s} : labelMap'[kv][y] = labelMap[kv][y]
<1>1. labelMap' = [kv \in Key \X Value |-> [labelMap[kv] EXCEPT ![s] = 0]]
    BY DEF RemoveLookupNode, Without
<1>2. \A kv \in Key \X Value : labelMap[kv] \in [Item -> Nat]
    BY DEF MapsOK
<1>3. s \in Item
    BY DEF Item
<1> QED BY <1>1, <1>2, <1>3

\* The store is empty at first.
LEMMA InitIInv == Init => IInv
<1> SUFFICES ASSUME Init PROVE IInv
    OBVIOUS
<1>1. MapsOK
    BY DEF MapsOK, Init, EmptyCluster, Item
<1>2. JoinedMatch
    BY DEF JoinedMatch, Init
<1>3. MapIsExact
    <2>1. ASSUME NEW x \in Item, NEW kv \in Key \X Value
          PROVE  labelMap[kv][x] = 0 /\ ~Known(x)
        BY DEF Init, EmptyCluster, Known
    <2> QED BY <2>1 DEF MapIsExact
<1> QED BY <1>1, <1>2, <1>3 DEF IInv

\* Adding an item keeps MapIsExact.
LEMMA InsertKeepsMap ==
    ASSUME IInv, NEW x \in Item, NEW before, Insert(x, before), status[x] = "None",
           status' = [status EXCEPT ![x] = "Known"], labels' = labels
    PROVE  MapIsExact'
<1> SUFFICES ASSUME NEW y \in Item, NEW kv \in Key \X Value
             PROVE  labelMap'[kv][y] > 0 <=> (Known(y) /\ Carries(y, kv))'
    BY DEF MapIsExact
<1>1. /\ Carries(x, kv) => labelMap'[kv][x] > 0
      /\ ~Carries(x, kv) => labelMap'[kv][x] = labelMap[kv][x]
      /\ y # x => labelMap'[kv][y] = labelMap[kv][y]
    BY InsertIsExact DEF IInv
<1>2. Carries(y, kv)' <=> Carries(y, kv)
    BY DEF Carries
<1>3. labelMap[kv][y] > 0 <=> Known(y) /\ Carries(y, kv)
    BY DEF IInv, MapIsExact
<1>4. CASE y = x
    <2>1. Known(x)' /\ ~Known(x)
        BY DEF Known, IInv, MapsOK
    <2> QED BY <1>1, <1>2, <1>3, <1>4, <2>1
<1>5. CASE y # x
    <2>1. Known(y)' <=> Known(y)
        BY <1>5 DEF Known, IInv, MapsOK
    <2> QED BY <1>1, <1>2, <1>3, <1>5, <2>1
<1> QED BY <1>4, <1>5

\* Removing a service keeps MapIsExact.
LEMMA RemovalKeepsMap ==
    ASSUME IInv, NEW s \in Service, NEW before, RemoveLookupNode(s, before),
           status' = [status EXCEPT ![s] = "Removed"], labels' = labels
    PROVE  MapIsExact'
<1> SUFFICES ASSUME NEW y \in Item, NEW kv \in Key \X Value
             PROVE  labelMap'[kv][y] > 0 <=> (Known(y) /\ Carries(y, kv))'
    BY DEF MapIsExact
<1>1. labelMap'[kv][s] = 0 /\ (y # s => labelMap'[kv][y] = labelMap[kv][y])
    BY RemovalIsExact DEF IInv
<1>2. Carries(y, kv)' <=> Carries(y, kv)
    BY DEF Carries
<1>3. labelMap[kv][y] > 0 <=> Known(y) /\ Carries(y, kv)
    BY DEF IInv, MapIsExact
<1>4. s \in Item
    BY DEF Item
<1>5. CASE y = s
    <2>1. ~Known(s)'
        BY <1>4 DEF Known, IInv, MapsOK
    <2> QED BY <1>1, <1>5, <2>1
<1>6. CASE y # s
    <2>1. Known(y)' <=> Known(y)
        BY <1>4, <1>6 DEF Known, IInv, MapsOK
    <2> QED BY <1>1, <1>2, <1>3, <1>6, <2>1
<1> QED BY <1>5, <1>6

\* A service that appears is matched by the handlers it is connected to, and one
\* that goes is connected to no more of them.
LEMMA ServiceKeepsIInv ==
    ASSUME IInv, NEW s \in Service, ServiceCreated(s) \/ ServiceRemoved(s)
    PROVE  IInv'
<1>1. s \in Item /\ labels' = labels
    BY DEF Item, ServiceCreated, ServiceRemoved
<1>2. CASE ServiceCreated(s)
    <2>1. Insert(s, Searched(labels[s], Handler))
        BY <1>2 DEF ServiceCreated
    <2>2. MapsOK'
        <3>1. labelMap' \in [Key \X Value -> [Item -> Nat]]
            BY <1>1, <2>1, InsertIsExact DEF IInv
        <3>2. joined' \in [Handler -> SUBSET Service]
            BY <1>2 DEF ServiceCreated, IInv, MapsOK
        <3>3. status' \in [Item -> {"None", "Known", "Removed"}]
            BY <1>2 DEF ServiceCreated, IInv, MapsOK
        <3> QED BY <1>1, <3>1, <3>2, <3>3 DEF IInv, MapsOK
    <2>3. JoinedMatch'
        <3> SUFFICES ASSUME NEW h \in Handler, NEW t \in joined'[h]
                     PROVE  MatchLabels(labels[h], labels[t])
            BY <1>1 DEF JoinedMatch, Match
        <3>1. t \in joined[h] \/ (t = s /\ h \in Found(labels[s], Handler))
            BY <1>2 DEF ServiceCreated
        <3>2. CASE t \in joined[h]
            BY <3>2 DEF IInv, JoinedMatch, Match
        <3>3. CASE t = s /\ h \in Found(labels[s], Handler)
            BY <3>3, FoundMatches
        <3> QED BY <3>1, <3>2, <3>3
    <2>4. MapIsExact'
        <3>1. status[s] = "None" /\ status' = [status EXCEPT ![s] = "Known"]
            BY <1>2 DEF ServiceCreated
        <3> QED BY <1>1, <2>1, <3>1, InsertKeepsMap
    <2> QED BY <2>2, <2>3, <2>4 DEF IInv
<1>3. CASE ServiceRemoved(s)
    <2>1. RemoveLookupNode(s, Searched(labels[s], Handler))
        BY <1>3 DEF ServiceRemoved
    <2>2. MapsOK'
        <3>1. labelMap' \in [Key \X Value -> [Item -> Nat]]
            BY <2>1, RemovalIsExact DEF IInv
        <3>2. joined' \in [Handler -> SUBSET Service]
            BY <1>3 DEF ServiceRemoved, IInv, MapsOK
        <3>3. status' \in [Item -> {"None", "Known", "Removed"}]
            BY <1>3 DEF ServiceRemoved, IInv, MapsOK
        <3> QED BY <1>1, <3>1, <3>2, <3>3 DEF IInv, MapsOK
    <2>3. JoinedMatch'
        <3>1. \A h \in Handler : joined'[h] \subseteq joined[h]
            BY <1>3 DEF ServiceRemoved
        <3> QED BY <1>1, <3>1 DEF IInv, JoinedMatch, Match
    <2>4. MapIsExact'
        <3>1. status' = [status EXCEPT ![s] = "Removed"]
            BY <1>3 DEF ServiceRemoved
        <3> QED BY <1>1, <2>1, <3>1, RemovalKeepsMap
    <2> QED BY <2>2, <2>3, <2>4 DEF IInv
<1> QED BY <1>2, <1>3

\* A handler that registers matches the services it is connected to.
LEMMA HandlerKeepsIInv ==
    ASSUME IInv, NEW h \in Handler, RegisterHandler(h)
    PROVE  IInv'
<1>1. /\ h \in Item
      /\ labels' = labels
      /\ Insert(h, Searched(labels[h], Service))
      /\ status[h] = "None" /\ status' = [status EXCEPT ![h] = "Known"]
    BY DEF Item, RegisterHandler
<1>2. \A t \in Found(labels[h], Service) :
          t \in Service /\ MatchLabels(labels[h], labels[t])
    BY FoundMatches, MatchLabelsIsSymmetric
<1>3. joined' = [joined EXCEPT ![h] = Found(labels[h], Service)]
    BY DEF RegisterHandler
<1>4. MapsOK'
    <2>1. labelMap' \in [Key \X Value -> [Item -> Nat]]
        BY <1>1, InsertIsExact DEF IInv
    <2>2. joined' \in [Handler -> SUBSET Service]
        BY <1>2, <1>3 DEF IInv, MapsOK
    <2>3. status' \in [Item -> {"None", "Known", "Removed"}]
        BY <1>1 DEF IInv, MapsOK
    <2> QED BY <1>1, <2>1, <2>2, <2>3 DEF IInv, MapsOK
<1>5. JoinedMatch'
    <2> SUFFICES ASSUME NEW g \in Handler, NEW t \in joined'[g]
                 PROVE  MatchLabels(labels[g], labels[t])
        BY <1>1 DEF JoinedMatch, Match
    <2>1. CASE g = h
        <3>1. t \in Found(labels[h], Service)
            BY <1>3, <2>1 DEF IInv, MapsOK
        <3> QED BY <1>2, <2>1, <3>1
    <2>2. CASE g # h
        BY <1>3, <2>2 DEF IInv, MapsOK, JoinedMatch, Match
    <2> QED BY <2>1, <2>2
<1>6. MapIsExact'
    BY <1>1, InsertKeepsMap
<1> QED BY <1>4, <1>5, <1>6 DEF IInv

\* Every step keeps the invariant.
LEMMA NextKeepsIInv == IInv /\ [Next]_vars => IInv'
<1> SUFFICES ASSUME IInv, [Next]_vars PROVE IInv'
    OBVIOUS
<1>1. ASSUME NEW s \in Service, ServiceCreated(s) \/ ServiceRemoved(s) PROVE IInv'
    BY <1>1, ServiceKeepsIInv
<1>2. ASSUME NEW h \in Handler, RegisterHandler(h) PROVE IInv'
    BY <1>2, HandlerKeepsIInv
<1>3. CASE UNCHANGED vars
    <2>1. MapsOK'
        BY <1>3 DEF IInv, MapsOK, vars, clusterVars
    <2>2. JoinedMatch'
        BY <1>3 DEF IInv, JoinedMatch, Match, MatchLabels, Matches, vars, clusterVars
    <2>3. MapIsExact'
        BY <1>3 DEF IInv, MapIsExact, Known, Carries, vars, clusterVars
    <2> QED BY <2>1, <2>2, <2>3 DEF IInv
<1> QED BY <1>1, <1>2, <1>3 DEF Next

-----------------------------------------------------------------------------

\* The invariant holds in every state.
LEMMA AlwaysIInv == Spec => []IInv
BY InitIInv, NextKeepsIInv, PTL DEF Spec

\* Whatever SpecificDiscoveryStore searches and however its clusters have come
\* about, a data subscriber only receives publishers that match its labels.
THEOREM OnlyMatchingAreJoined == Spec => []JoinedMatch
<1>1. IInv => JoinedMatch
    BY DEF IInv
<1> QED BY <1>1, AlwaysIInv, PTL

\* UpdateDiscoveryClusters and RemoveLookupNode keep the cluster of every label
\* exact: no service or handler is missing from it and none is left in it.
THEOREM LabelMapStaysExact == Spec => []LabelMapIsExact
<1>1. IInv => LabelMapIsExact
    <2> SUFFICES ASSUME IInv, NEW x \in Item, NEW k \in Key, NEW v \in Value
                 PROVE  labelMap[k, v][x] > 0 <=>
                            Known(x) /\ \E l \in Range(labels[x]) : l.key = k /\ l.value = v
        BY DEF LabelMapIsExact
    <2>1. labelMap[<<k, v>>][x] > 0 <=> Known(x) /\ Carries(x, <<k, v>>)
        BY DEF IInv, MapIsExact
    <2>2. Carries(x, <<k, v>>) <=> \E l \in Range(labels[x]) : l.key = k /\ l.value = v
        BY DEF Carries
    <2> QED BY <2>1, <2>2
<1> QED BY <1>1, AlwaysIInv, PTL
=============================================================================
