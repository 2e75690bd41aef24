--------------------------- MODULE DiscoveryStore ---------------------------
(***************************************************************************)
(* The SpecificDiscoveryStore: which data subscribers learn of which data  *)
(* publishers of a topic, by their labels. (RPC servers and clients use it *)
(* alike.) To avoid comparing all of them, services and handlers are kept  *)
(* in clusters, and only the clusters of the label that promises the       *)
(* fewest candidates are searched.                                         *)
(*                                                                         *)
(* A service is a publisher and a handler belongs to a subscriber, both of *)
(* the same topic and media type. The store is used under the mutex        *)
(* _discoveryMx, so each operation is one step; the order of the           *)
(* operations is that in which publishers and subscribers of several       *)
(* participants become known.                                              *)
(***************************************************************************)
EXTENDS Integers, Sequences, FiniteSets, SequencesExt, FiniteSetsExt

CONSTANTS
    Service,
    Handler,
    Key,                \* keys of labels
    Value,              \* values of labels
    LabelLists,         \* lists of labels that services and handlers may have
    NoLabel             \* nullptr

Label == [key : Key, value : Value, optional : BOOLEAN]

ASSUME DiscoveryAssumption ==
    /\ IsFiniteSet(Service) /\ IsFiniteSet(Handler) /\ Service \cap Handler = {}
    /\ LabelLists \subseteq Seq(Label)
    \* The keys of a list are distinct.
    /\ \A ls \in LabelLists : \A i, j \in DOMAIN ls : ls[i].key = ls[j].key => i = j
    /\ NoLabel \notin Label

Item == Service \cup Handler

VARIABLES
    labels,         \* the labels of each service and handler
    status,         \* "None", "Known" or "Removed"
    allCluster,     \* DiscoveryKeyNode::allCluster
    noLabelCluster, \* DiscoveryKeyNode::noLabelCluster
    labelMap,       \* DiscoveryKeyNode::labelMap
    notLabelMap,    \* DiscoveryKeyNode::notLabelMap
    entries,        \* the keys that notLabelMap has an entry for
    joined          \* DataSubscriber::_internalSubscribers: services it receives

\* A cluster is a bag: the number of entries of each service and handler.
clusterVars == <<allCluster, noLabelCluster, labelMap, notLabelMap, entries>>
vars == <<labels, status, clusterVars, joined>>

-----------------------------------------------------------------------------
(* Util::MatchLabels                                                       *)

Matches(l, ls) ==
    LET same == {m \in Range(ls) : m.key = l.key}
    IN  IF same = {} THEN l.optional ELSE \A m \in same : m.value = l.value

MatchLabels(ls1, ls2) ==
    /\ \A l \in Range(ls1) : Matches(l, ls2)
    /\ \A l \in Range(ls2) : Matches(l, ls1)

-----------------------------------------------------------------------------
(* Searching. The kind of the candidates is Service or Handler.            *)

EmptyCluster == [x \in Item |-> 0]

In(c, kind) == {x \in kind : c[x] > 0}

\* Candidates of a label: its exact matches and, if it is optional, those that
\* are entered as not having its key.
Size(l, kind) ==
    SumFunctionOnSet(labelMap[l.key, l.value], kind)
        + (IF l.optional THEN SumFunctionOnSet(notLabelMap[l.key], kind) ELSE 0)

\* GetLabelWithMinimalHandlerSet and GetLabelWithMinimalNodeSet: the label with
\* the fewest candidates. Looking up an optional label enters its key in
\* notLabelMap.
Minimal(ls, kind) ==
    FoldLeft(LAMBDA best, l :
                 IF best.count <= 1 THEN best
                 ELSE LET n == Size(l, kind)
                          better == n < best.count /\ (l.optional => n > 0)
                      IN  [count |-> IF better THEN n ELSE best.count,
                           label |-> IF better THEN l ELSE best.label,
                           entered |-> best.entered \cup (IF l.optional THEN {l.key} ELSE {})],
             [count |-> SumFunctionOnSet(allCluster, kind), label |-> NoLabel, entered |-> {}],
             ls)

Candidates(l, kind) ==
    IF l = NoLabel THEN In(allCluster, kind)
    ELSE In(labelMap[l.key, l.value], kind)
         \cup IF l.optional THEN In(notLabelMap[l.key], kind) \cup In(noLabelCluster, kind)
              ELSE {}

\* Faulty variant: candidates are not compared.
FoundUnchecked(ls, kind) == Candidates(Minimal(ls, kind).label, kind)

\* What is found for the labels ls.
Found(ls, kind) ==
    {x \in Candidates(Minimal(ls, kind).label, kind) : MatchLabels(labels[x], ls)}

-----------------------------------------------------------------------------
(* Updating.                                                               *)

\* Faulty variant: only labels of keys that are known already are entered.
AddIfEntered(x, before) == IF {l.key : l \in Range(labels[x])} \subseteq before THEN 1 ELSE 0

AddOne(x, before) == 1

\* UpdateDiscoveryClusters: x is added to the clusters, after a search has made
\* before the keys of notLabelMap. For a key that is new there, all that was
\* added before and x are copied to those that do not have it.
Insert(x, before) ==
    LET own == {l.key : l \in Range(labels[x])}
        all == [allCluster EXCEPT ![x] = @ + 1]
        after == IF own = {} THEN before ELSE before \cup own
        has == {<<l.key, l.value>> : l \in Range(labels[x])}
    IN  /\ allCluster' = all
        /\ noLabelCluster' = IF own = {} THEN [noLabelCluster EXCEPT ![x] = @ + 1]
                             ELSE noLabelCluster
        /\ labelMap' = [kv \in Key \X Value |->
               IF kv \in has THEN [labelMap[kv] EXCEPT ![x] = @ + AddOne(x, before)]
               ELSE labelMap[kv]]
        /\ notLabelMap' = [k \in Key |->
               LET copied == IF k \in own \ before THEN all ELSE notLabelMap[k]
               IN  IF own # {} /\ k \in after \ own THEN [copied EXCEPT ![x] = @ + 1] ELSE copied]
        /\ entries' = after

\* Faulty variant: a service stays in the clusters of its labels.
WithoutAll(c, x) == IF c = allCluster THEN [c EXCEPT ![x] = 0] ELSE c

Without(c, x) == [c EXCEPT ![x] = 0]

\* The service s is erased from every cluster.
RemoveLookupNode(s, before) ==
    /\ allCluster' = Without(allCluster, s)
    /\ noLabelCluster' = Without(noLabelCluster, s)
    /\ labelMap' = [kv \in Key \X Value |-> Without(labelMap[kv], s)]
    /\ notLabelMap' = [k \in Key |-> Without(notLabelMap[k], s)]
    /\ entries' = before

Searched(ls, kind) == entries \cup Minimal(ls, kind).entered

-----------------------------------------------------------------------------
(* Operations.                                                             *)

\* ServiceChange(ServiceCreated): handlers that are found add an internal
\* subscriber, unless they have it (DataSubscriber::RegisterServiceDiscovery).
ServiceCreated(s) ==
    /\ status[s] = "None"
    /\ status' = [status EXCEPT ![s] = "Known"]
    /\ joined' = [h \in Handler |->
           IF h \in Found(labels[s], Handler) THEN joined[h] \cup {s} ELSE joined[h]]
    /\ Insert(s, Searched(labels[s], Handler))
    /\ UNCHANGED labels

\* ServiceChange(ServiceRemoved): handlers that are found remove it.
ServiceRemoved(s) ==
    /\ status[s] = "Known"
    /\ status' = [status EXCEPT ![s] = "Removed"]
    /\ joined' = [h \in Handler |->
           IF h \in Found(labels[s], Handler) THEN joined[h] \ {s} ELSE joined[h]]
    /\ RemoveLookupNode(s, Searched(labels[s], Handler))
    /\ UNCHANGED labels

\* RegisterSpecificServiceDiscoveryHandler
RegisterHandler(h) ==
    /\ status[h] = "None"
    /\ status' = [status EXCEPT ![h] = "Known"]
    /\ joined' = [joined EXCEPT ![h] = Found(labels[h], Service)]
    /\ Insert(h, Searched(labels[h], Service))
    /\ UNCHANGED labels

Init ==
    /\ labels \in [Item -> LabelLists]
    /\ status = [x \in Item |-> "None"]
    /\ allCluster = EmptyCluster
    /\ noLabelCluster = EmptyCluster
    /\ labelMap = [kv \in Key \X Value |-> EmptyCluster]
    /\ notLabelMap = [k \in Key |-> EmptyCluster]
    /\ entries = {}
    /\ joined = [h \in Handler |-> {}]

Next ==
    \/ \E s \in Service : ServiceCreated(s) \/ ServiceRemoved(s)
    \/ \E h \in Handler : RegisterHandler(h)

Spec == Init /\ [][Next]_vars

-----------------------------------------------------------------------------
(* Properties.                                                             *)

Match(h, s) == MatchLabels(labels[h], labels[s])
Known(x) == status[x] = "Known"
HasOptional(x) == \E l \in Range(labels[x]) : l.optional

\* A subscriber only receives publishers that match its labels, whichever clusters
\* were searched and whatever is left in them.
JoinedMatch == \A h \in Handler : \A s \in joined[h] : Match(h, s)

\* A handler that registers or a service that appears without optional labels is
\* connected to exactly the known ones that match, whatever labels those have and
\* whatever was searched and added before.
ArrivalIsExact == [][\A h \in Handler, s \in Service :
    (Known(h) /\ Known(s))' /\ (\E x \in {h, s} : ~Known(x) /\ ~HasOptional(x))
        => (s \in joined'[h] <=> Match(h, s))]_vars

\* A removed publisher without optional labels is removed from every subscriber.
RemovedIsLeft == \A s \in Service, h \in Handler :
    status[s] = "Removed" /\ ~HasOptional(s) => s \notin joined[h]

\* Every cluster of a label holds exactly the services and handlers with it.
LabelMapIsExact == \A x \in Item : \A k \in Key, v \in Value :
    labelMap[k, v][x] > 0 <=>
        Known(x) /\ \E l \in Range(labels[x]) : l.key = k /\ l.value = v

\* Services and handlers match by the rules for their labels, regardless of the
\* order in which they and others appear.
MatchingAreJoined == \A h \in Handler, s \in Service :
    Known(h) /\ Known(s) /\ Match(h, s) => s \in joined[h]
=============================================================================
