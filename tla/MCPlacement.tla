------------------------------ MODULE MCPlacement ------------------------------
(* Two models that exclude each other and a small one that fits next to both. *)
EXTENDS Placement

MCCost == [m \in Models |-> IF m = "c" THEN 1 ELSE 2]

Spend(f, o, d) == [faults |-> f, ops |-> o, deaths |-> d]

\* Failing rollbacks; a death after a failure; a failure next to a sweep, a
\* command or a sync.
MCBudgets == {Spend(2, 0, 0), Spend(1, 0, 1), Spend(1, 1, 0)}
================================================================================
