------------------------------ MODULE MCMissions ------------------------------
(* TLC instances of Missions.                                                *)
EXTENDS Missions, TLC

CONSTANTS d1, d2
=============================================================================
