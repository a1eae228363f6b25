------------------------------- MODULE TaskStore -------------------------------
(***************************************************************************)
(* The task table of tasks/service.ts and its blocking dependencies, which *)
(* any number of processes share through SQLite.  Each action is one SQL   *)
(* statement that changes it; Fleet puts them in the order of the methods. *)
(* A dependency <<t, b>> says that b blocks t.                             *)
(***************************************************************************)
CONSTANTS Tasks, Agents, Nobody

VARIABLES status,    \* of each task, "gone" once its row is deleted
          assignee,  \* Nobody, or the agent it is assigned to
          needs,     \* task_dependencies of type 'blocks'
          stamped    \* tasks with a closed_at

store == <<status, assignee, needs, stamped>>

Settled == {"done", "wont_do"}
Statuses == {"open", "in_progress", "blocked"} \cup Settled
Exists(t) == status[t] # "gone"

-----------------------------------------------------------------------------
(* What the relations of a task say (getWithRelations).                    *)

Blockers(t) == {b \in Tasks : <<t, b>> \in needs /\ status[b] \notin Settled \cup {"gone"}}
Ready(t) == status[t] = "open" /\ Blockers(t) = {}

\* wouldCreateCycle: b reaches t, that is, every set that contains b and the
\* blockers of its members contains t.
WouldCreateCycle(t, b) ==
    \A s \in SUBSET Tasks :
        b \in s /\ (\A e \in needs : e[1] \in s => e[2] \in s) => t \in s

-----------------------------------------------------------------------------
(* Statements.                                                             *)

\* update: only a status that differs is written, with closed_at set or cleared.
SetStatus(t, s) ==
    /\ Exists(t)
    /\ status[t] # s
    /\ status' = [status EXCEPT ![t] = s]
    /\ stamped' = IF s \in Settled THEN stamped \cup {t} ELSE stamped \ {t}
    /\ UNCHANGED <<assignee, needs>>

SetAssignee(t, a) ==
    /\ Exists(t)
    /\ assignee[t] # a
    /\ assignee' = [assignee EXCEPT ![t] = a]
    /\ UNCHANGED <<status, needs, stamped>>

\* close: whatever the task has become since it was read.
MarkDone(t) ==
    /\ status' = IF Exists(t) THEN [status EXCEPT ![t] = "done"] ELSE status
    /\ stamped' = IF Exists(t) THEN stamped \cup {t} ELSE stamped
    /\ UNCHANGED <<assignee, needs>>

\* notifyUnblockedDependents moves a dependent that is ready and blocked to
\* open.  A task is ready only when its status is open, so there is none.
Unblocked(t) == {d \in Tasks : <<d, t>> \in needs /\ Ready(d) /\ status[d] = "blocked"}
Reopen(ds) ==
    /\ status' = [t \in Tasks |-> IF t \in ds THEN "open" ELSE status[t]]
    /\ UNCHANGED <<assignee, needs, stamped>>

\* tryClaim: one conditional UPDATE, on the assignee alone.
\* Mutant: the check was made when the task was read.
Claimable_Checked(t, a) == Exists(t)
Claimable(t, a) == Exists(t) /\ assignee[t] \in {Nobody, a}
TakeTask(t, a) ==
    /\ status' = [status EXCEPT ![t] = "in_progress"]
    /\ assignee' = [assignee EXCEPT ![t] = a]
    /\ UNCHANGED <<needs, stamped>>

\* Foreign keys: no edge to a row that is gone, no row deleted under an edge.
AddEdge(t, b) ==
    /\ needs' = IF Exists(t) /\ Exists(b) THEN needs \cup {<<t, b>>} ELSE needs
    /\ UNCHANGED <<status, assignee, stamped>>

RemoveEdge(t, b) ==
    /\ <<t, b>> \in needs
    /\ needs' = needs \ {<<t, b>>}
    /\ UNCHANGED <<status, assignee, stamped>>

DropEdges(t) ==
    /\ needs' = {e \in needs : t \notin {e[1], e[2]}}
    /\ UNCHANGED <<status, assignee, stamped>>

DropRow(t) ==
    LET kept == \E e \in needs : t \in {e[1], e[2]}
    IN  /\ status' = IF kept THEN status ELSE [status EXCEPT ![t] = "gone"]
        /\ assignee' = IF kept THEN assignee ELSE [assignee EXCEPT ![t] = Nobody]
        /\ stamped' = IF kept THEN stamped ELSE stamped \ {t}
        /\ UNCHANGED needs

StoreTypeOK ==
    /\ status \in [Tasks -> Statuses \cup {"gone"}]
    /\ assignee \in [Tasks -> Agents \cup {Nobody}]
    /\ needs \subseteq {e \in Tasks \X Tasks : e[1] # e[2] /\ Exists(e[1]) /\ Exists(e[2])}
    /\ stamped \subseteq {t \in Tasks : Exists(t)}
=============================================================================
