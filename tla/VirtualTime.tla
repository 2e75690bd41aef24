----------------------------- MODULE VirtualTime -----------------------------
(***************************************************************************)
(* What the virtual time synchronization promises to the participants of a *)
(* simulation that started together: one discrete time line on which every *)
(* participant executes its steps one after the other, and a participant   *)
(* executes a step only when no participant that is still present has a    *)
(* step at an earlier time left. How the participants find out is the      *)
(* business of TimeSync, which implements this specification.              *)
(***************************************************************************)
EXTENDS Integers

CONSTANT Participant

VARIABLES
    present,    \* participants that have not disconnected
    now,        \* time of the last executed step, -1 before the first
    next        \* time of the next step

vars == <<present, now, next>>

TypeOK ==
    /\ present \subseteq Participant
    /\ now \in [Participant -> Nat \cup {-1}]
    /\ next \in [Participant -> Nat]

Init ==
    /\ present = Participant
    /\ now = [p \in Participant |-> -1]
    /\ next = [p \in Participant |-> 0]

Step(p) ==
    /\ p \in present
    /\ \A q \in present : next[p] <= next[q]
    /\ now' = [now EXCEPT ![p] = next[p]]
    /\ next'[p] \in Nat
    /\ next'[p] > next[p]
    /\ next' = [next EXCEPT ![p] = next'[p]]
    /\ UNCHANGED present

Leave(p) ==
    /\ p \in present
    /\ present' = present \ {p}
    /\ UNCHANGED <<now, next>>

Next == \E p \in Participant : Step(p) \/ Leave(p)

Spec == Init /\ [][Next]_vars

\* Nobody is beyond the next step of a participant that is still present.
Lockstep ==
    \A p \in Participant, q \in present : now[p] <= next[q]

=============================================================================
