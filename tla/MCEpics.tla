-------------------------------- MODULE MCEpics --------------------------------
EXTENDS Epics

CONSTANTS a, b     \* the names of the epics

\* b needs a, and the planner lists it first.
Dependent == {<<[id |-> b, deps |-> {a}], [id |-> a, deps |-> {}]>>}

\* The instance of a disagreement in the README.
Single == {<<[id |-> a, deps |-> {}]>>}
=============================================================================
