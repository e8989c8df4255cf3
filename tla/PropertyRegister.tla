-------------------------- MODULE PropertyRegister --------------------------
(***************************************************************************)
(* What the property service promises for one property, with no locks in   *)
(* sight: a set replaces the whole value at one instant, and a get answers *)
(* with the value the property holds at one instant between its call and   *)
(* its return.  PropertyLock implements this module.                       *)
(***************************************************************************)
CONSTANTS Threads,      \* the threads that call the service
          Values,       \* what a property can hold
          NoValue,      \* the property is not in the tree
          Pending       \* a get that has not taken its answer yet

VARIABLES reg,          \* the property's value
          got           \* per thread, the answer of its last get

regvars == <<reg, got>>

RegInit == /\ reg \in Values \cup {NoValue}
           /\ got = [t \in Threads |-> NoValue]

\* get_property is called: the earlier answer no longer counts.
Ask(t) == /\ got' = [got EXCEPT ![t] = Pending]
          /\ UNCHANGED reg

\* The instant at which a get takes effect.
Answer(t) == /\ got[t] = Pending
             /\ got' = [got EXCEPT ![t] = reg]
             /\ UNCHANGED reg

\* The instant at which a set, a load or a release takes effect.
Assign(v) == /\ reg' = v
             /\ UNCHANGED got

RegNext == \/ \E t \in Threads : Ask(t) \/ Answer(t)
           \/ \E v \in Values \cup {NoValue} : Assign(v)

RegSpec == RegInit /\ [][RegNext]_regvars
=============================================================================
