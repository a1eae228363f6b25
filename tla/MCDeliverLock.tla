---- MODULE MCDeliverLock ----
EXTENDS DeliverLock, TLC

(* A project and a directory inside it: the two roots overlap. *)
MCOverlap == Roots \X Roots
MCAnyRoot == [p \in Procs |-> Roots]
MCSymmetry == Permutations(Roots)

(* One launch on each of the two roots: the instance of a disagreement in the
   README. *)
CONSTANTS Outer, Inner
MCNested == [p \in Procs |-> IF p = 1 THEN {Outer} ELSE {Inner}]
====
