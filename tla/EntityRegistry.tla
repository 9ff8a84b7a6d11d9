--------------------------- MODULE EntityRegistry ---------------------------
(***************************************************************************)
(* What the retained UI world promises (include/enjin2/ui/world.hpp:84-133 *)
(* and :13-33): entities are made and destroyed, a living entity holds at  *)
(* most one component of each type, the one that was attached last, and a  *)
(* destroyed one holds none for ever.                                      *)
(***************************************************************************)
EXTENDS Integers

CONSTANTS Types, Values

VARIABLES
    made,      \* how many entities were ever made: the names of all of them
    living,    \* the names of those that live
    holds      \* for each type, the components by the names of their entities

vars == <<made, living, holds>>

Init ==
    /\ made = 0
    /\ living = {}
    /\ holds = [t \in Types |-> [n \in {} |-> n]]

Create ==
    /\ made' = made + 1
    /\ living' = living \cup {made + 1}
    /\ UNCHANGED holds

Destroy(n) ==
    /\ living' = living \ {n}
    /\ holds' = [t \in Types |-> [k \in DOMAIN holds[t] \ {n} |-> holds[t][k]]]
    /\ UNCHANGED made

Attach(n, t, v) ==
    /\ holds' = [holds EXCEPT ![t] = [k \in DOMAIN @ \cup {n} |-> IF k = n THEN v ELSE @[k]]]
    /\ UNCHANGED <<made, living>>

Detach(n, t) ==
    /\ holds' = [holds EXCEPT ![t] = [k \in DOMAIN @ \ {n} |-> @[k]]]
    /\ UNCHANGED <<made, living>>

Next ==
    \/ Create
    \/ \E n \in living : \/ Destroy(n)
                         \/ \E t \in Types : Detach(n, t)
                         \/ \E t \in Types, v \in Values : Attach(n, t, v)

Spec == Init /\ [][Next]_vars

=============================================================================
