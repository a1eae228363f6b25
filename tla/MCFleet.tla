-------------------------------- MODULE MCFleet --------------------------------
(* TLC instances of Fleet.                                                   *)
EXTENDS Fleet, TLC

CONSTANTS t1, t2, t3

\* Two tasks block a third.
FanIn == {<<t3, t1>>, <<t3, t2>>}

Spend(m, e, r, s, g) ==
    [moves |-> m, edits |-> e, reports |-> r, silences |-> s, grants |-> g]

\* Tasks: claims, releases and edits.  Agents: reports, silences and claims.
\* A little of both.
MCBudgets == {Spend(4, 2, 0, 0, 0), Spend(1, 0, 2, 2, 3), Spend(2, 1, 1, 1, 1)}
MCSymmetry == Permutations(Agents) \cup Permutations({t1, t2})
=============================================================================
