---------------------------- MODULE MCModelSlots ----------------------------
(* TLC instances of ModelSlots: an id for each row MaxCeiling admits and one *)
(* for a process that still names a row that is gone.                        *)
EXTENDS ModelSlots, TLC

CONSTANTS p1, p2, p3, i1, i2, i3

SafetySymmetry == Permutations(Procs) \cup Permutations(Ids)
=============================================================================
