---------------------------- MODULE MCDeployQueue ----------------------------
(* TLC instances of DeployQueue.                                             *)
EXTENDS DeployQueue, TLC

CONSTANTS p1, p2

Ask(k, t, n, keys) == [kind |-> k, target |-> t, prio |-> n, keys |-> keys]

\* A commit with files and a message or with files only, an urgent push, and a
\* workflow trigger without inputs, each to one target.
Mixed == {Ask("commit", "main", 5, {"list", "text"}), Ask("commit", "main", 5, {"list"}),
          Ask("push", "main", 9, {"text"}), Ask("workflow", "ci", 5, {})}
\* One kind of action only: the instances of the README's disagreements.
Commits == {Ask("commit", "main", 5, {"list", "text"})}
Triggers == {Ask("workflow", "ci", 5, {})}
Deploys == {Ask("deploy", "staging", 5, {"text"})}
Symmetry == Permutations(Procs)
=============================================================================
