---------------------------- MODULE SlotSemaphore ----------------------------
(***************************************************************************)
(* What model-slot-lease.ts promises: "a semaphore over the inference      *)
(* backend's concurrent slots".  A user enters only while there is room    *)
(* and leaves whenever it likes.                                           *)
(***************************************************************************)
EXTENDS Integers, FiniteSets

CONSTANTS Users, Capacity
VARIABLE inside

Init == inside = {}

Enter(u) ==
    /\ u \notin inside
    /\ Cardinality(inside) < Capacity
    /\ inside' = inside \cup {u}

Leave(u) ==
    /\ u \in inside
    /\ inside' = inside \ {u}

Next == \E u \in Users : Enter(u) \/ Leave(u)

Spec == Init /\ [][Next]_inside
=============================================================================
