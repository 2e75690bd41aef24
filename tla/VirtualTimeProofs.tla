-------------------------- MODULE VirtualTimeProofs --------------------------
(***************************************************************************)
(* Proofs about the abstract time line of VirtualTime.                     *)
(***************************************************************************)
EXTENDS VirtualTime, TLAPS

(* The variables keep their types: times are natural numbers, and a        *)
(* participant that leaves was one.                                        *)
THEOREM VirtualTimeTypeCorrect == Spec => []TypeOK
<1>1. Init => TypeOK
  BY DEF Init, TypeOK
<1>2. TypeOK /\ [Next]_vars => TypeOK'
  <2> SUFFICES ASSUME TypeOK, [Next]_vars PROVE TypeOK'
    OBVIOUS
  <2>1. ASSUME NEW p \in Participant, Step(p) PROVE TypeOK'
    <3>1. next[p] \in Nat /\ next'[p] \in Nat
      BY <2>1 DEF TypeOK, Step
    <3>2. QED
      BY <2>1, <3>1 DEF TypeOK, Step
  <2>2. ASSUME NEW p \in Participant, Leave(p) PROVE TypeOK'
    BY <2>2 DEF TypeOK, Leave
  <2>3. CASE UNCHANGED vars
    BY <2>3 DEF TypeOK, vars
  <2>4. QED
    BY <2>1, <2>2, <2>3 DEF Next
<1>3. QED
  BY <1>1, <1>2, PTL DEF Spec

(* Nobody executes a step beyond the next step of a participant that is    *)
(* still present: the virtual time of the simulation is well defined.      *)
THEOREM LockstepHolds == Spec => []Lockstep
<1>1. Init => Lockstep
  BY DEF Init, Lockstep
<1>2. TypeOK /\ Lockstep /\ [Next]_vars => Lockstep'
  <2> SUFFICES ASSUME TypeOK, Lockstep, [Next]_vars,
                      NEW a \in Participant, NEW b \in present'
               PROVE now'[a] <= next'[b]
    BY DEF Lockstep
  <2>1. ASSUME NEW p \in Participant, Step(p) PROVE now'[a] <= next'[b]
    <3>1. b \in present /\ b \in Participant
      BY <2>1 DEF Step, TypeOK
    <3>2. next[b] <= next'[b] /\ next[b] \in Nat /\ next'[b] \in Nat
      <4>1. CASE b = p
        BY <2>1, <3>1, <4>1 DEF Step, TypeOK
      <4>2. CASE b # p
        BY <2>1, <3>1, <4>2 DEF Step, TypeOK
      <4>3. QED
        BY <4>1, <4>2
    <3>3. now'[a] <= next[b] /\ now'[a] \in Int
      <4>1. CASE a = p
        BY <2>1, <3>1, <4>1 DEF Step, TypeOK
      <4>2. CASE a # p
        BY <2>1, <3>1, <4>2 DEF Step, TypeOK, Lockstep
      <4>3. QED
        BY <4>1, <4>2
    <3>4. QED
      BY <3>2, <3>3
  <2>2. ASSUME NEW p \in Participant, Leave(p) PROVE now'[a] <= next'[b]
    BY <2>2 DEF Lockstep, Leave
  <2>3. CASE UNCHANGED vars
    BY <2>3 DEF Lockstep, vars
  <2>4. QED
    BY <2>1, <2>2, <2>3 DEF Next
<1>3. QED
  BY <1>1, <1>2, VirtualTimeTypeCorrect, PTL DEF Spec
=============================================================================
