----------------------------- MODULE MCConvergence -----------------------------
(* Three configurations: a bounded single loop judged on gates of its own, a  *)
(* loop until delivered whose target is the judge, and the loop of an epic    *)
(* that may yield to the next attempt, at maximum fidelity.                   *)
EXTENDS Convergence

Modal(on) == [f \in {"epic", "until", "primary", "max", "agentic", "prior", "flat", "steer", "script"} |-> f \in on]
MCModes ==
    {Modal({"agentic", "script"}),
     Modal({"until", "primary", "steer", "script"}),
     Modal({"epic", "until", "max", "agentic", "flat", "steer"})}
\* The loop of a later epic in a project with gates of its own.
PriorModes == {Modal({"epic", "agentic", "prior"})}
\* The loops of an epic judged by a gate script of their own.
ScriptModes == {Modal({"epic", "agentic", "primary", "script"})}
================================================================================
