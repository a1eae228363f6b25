--------------------------------- MODULE Fleet ---------------------------------
(***************************************************************************)
(* Agents at work on shared tasks: the commands of tasks/coordination.ts,  *)
(* tasks/service.ts and coordination/service.ts as sequences of the        *)
(* statements of TaskStore and AgentRegistry.  Every command is a process  *)
(* of its own on the same SQLite files; there is no transaction around a   *)
(* command, so the others run between any two of its statements, and it    *)
(* may die there.  An agent runs one command at a time: at[a] is the       *)
(* command and what it still has to do.                                    *)
(***************************************************************************)
EXTENDS Naturals, FiniteSets, TaskStore

CONSTANTS Unknown,
          Plan,     \* the dependencies the tasks start with
          Budgets   \* bounds of a behaviour, on each kind of command

VARIABLES row, silent, older, announced, claims, reaped,
          at,
          owed,     \* history: <<a, t>>, the release of a made t ready and nobody told
          won,      \* history: agents whose claim succeeded, until it is given away
          left      \* what is left of the budget

INSTANCE AgentRegistry WITH Works <- Tasks

fleet == <<row, silent, older, announced, claims, reaped>>
history == <<owed, won>>
vars == <<store, fleet, at, history, left>>

Idle == <<"idle">>
Busy(a, step) == at[a][1] = step
Work(a) == at[a][2]
Becomes(a, x) == at' = [at EXCEPT ![a] = x]
Free(a) == at[a] = Idle

\* What a release made ready stays owed as long as it is ready.
Owe(new) == owed' = {o \in owed \cup new : Ready(o[2])'}
Spends(what) == left[what] > 0 /\ left' = [left EXCEPT ![what] = @ - 1]

FleetAssumption ==
    /\ Nobody \notin Agents /\ Unknown \notin RowStatuses
    /\ Plan \subseteq {e \in Tasks \X Tasks : e[1] # e[2]}
    /\ Budgets \subseteq [{"moves", "edits", "reports", "silences", "grants"} -> Nat]
ASSUME FleetAssumption

Init ==
    /\ status = [t \in Tasks |-> "open"]
    /\ assignee = [t \in Tasks |-> Nobody]
    /\ needs = Plan
    /\ stamped = {}
    /\ row = [a \in Agents |-> Unknown]
    /\ silent = {} /\ older = [a \in Agents |-> {}]
    /\ announced = {} /\ claims = {} /\ reaped = {}
    /\ at = [a \in Agents |-> Idle]
    /\ owed = {} /\ won = [t \in Tasks |-> {}]
    /\ left \in Budgets

-----------------------------------------------------------------------------
(* TaskCoordinator.claim: read, take, announce.                            *)

BeginClaim(a, t) ==
    /\ Free(a) /\ Spends("moves")
    /\ Claimable(t, a)
    /\ Blockers(t) = {}
    /\ Becomes(a, <<"claim", t>>)
    /\ UNCHANGED <<store, fleet, history>>

TryClaim(a) ==
    /\ Busy(a, "claim")
    /\ LET t == Work(a) IN
       \/ /\ Claimable(t, a)
          /\ TakeTask(t, a)
          /\ won' = [won EXCEPT ![t] = @ \cup {a}]
          /\ Becomes(a, <<"announce", t>>)
       \/ /\ ~Claimable(t, a)
          /\ Becomes(a, Idle)
          /\ UNCHANGED <<store, won>>
    /\ Owe({})
    /\ UNCHANGED <<fleet, left>>

Announce(a) ==
    /\ Busy(a, "announce")
    /\ AnnounceWork(a, Work(a))
    /\ Becomes(a, Idle)
    /\ UNCHANGED <<store, history, left>>

-----------------------------------------------------------------------------
(* TaskCoordinator.release: close, notify, complete the announcement of    *)
(* this agent, broadcast what is ready now.  Anyone may release any task.  *)

CloseTask(a, t) ==
    /\ Free(a) /\ Spends("moves")
    /\ Exists(t)
    /\ MarkDone(t)
    /\ Owe({a} \X {d \in Tasks : ~Ready(d)})
    /\ Becomes(a, <<"notify", t>>)
    /\ UNCHANGED <<fleet, won>>

Notify(a) ==
    /\ Busy(a, "notify")
    /\ Reopen(Unblocked(Work(a)))
    /\ Owe({})
    /\ CompleteWork(a, Work(a))
    /\ Becomes(a, <<"tell", Work(a)>>)
    /\ UNCHANGED <<won, left>>

\* Mutant: only what waits for t and was marked as blocked.
NowReady_Blocked(t) == {d \in Tasks \ {t} : Ready(d) /\ status[d] = "blocked"}
NowReady(t) == {d \in Tasks \ {t} : Ready(d)}

Tell(a) ==
    /\ Busy(a, "tell")
    /\ owed' = {o \in owed : o[2] \notin NowReady(Work(a))}
    /\ Becomes(a, Idle)
    /\ UNCHANGED <<store, fleet, won, left>>

-----------------------------------------------------------------------------
(* Edits of the task table (cli/task.ts, dashboard/controls.ts).           *)

EditTask(t) ==
    /\ Spends("edits")
    /\ \/ /\ \E s \in Statuses : SetStatus(t, s)
          /\ UNCHANGED won
       \/ \E a \in Agents \cup {Nobody} :
             /\ SetAssignee(t, a)
             /\ won' = [won EXCEPT ![t] = {a} \cap Agents]
       \/ /\ Exists(t) /\ MarkDone(t)
          /\ UNCHANGED won
       \/ /\ \E b \in Tasks : RemoveEdge(t, b)
          /\ UNCHANGED won
    /\ Owe({})
    /\ UNCHANGED <<fleet, at>>

\* addDependency: the search for a cycle, and later the insert.
BeginLink(a, t, b) ==
    /\ Free(a) /\ Spends("edits")
    /\ t # b /\ Exists(t) /\ Exists(b) /\ ~WouldCreateCycle(t, b)
    /\ Becomes(a, <<"link", <<t, b>>>>)
    /\ UNCHANGED <<store, fleet, history>>

Link(a) ==
    /\ Busy(a, "link")
    /\ AddEdge(Work(a)[1], Work(a)[2])
    /\ Owe({})
    /\ Becomes(a, Idle)
    /\ UNCHANGED <<fleet, won, left>>

\* delete: first what refers to the task, then its row.
BeginDelete(a, t) ==
    /\ Free(a) /\ Spends("edits")
    /\ DropEdges(t)
    /\ Owe({})
    /\ Becomes(a, <<"delete", t>>)
    /\ UNCHANGED <<fleet, won>>

Delete(a) ==
    /\ Busy(a, "delete")
    /\ DropRow(Work(a))
    /\ won' = [won EXCEPT ![Work(a)] = IF status'[Work(a)] = "gone" THEN {} ELSE @]
    /\ Owe({})
    /\ Becomes(a, Idle)
    /\ UNCHANGED <<fleet, left>>

\* reapStale: tasks in progress that nobody touched for days are listed, and
\* then set to open one after the other, whatever they are by then.
BeginReap(a, ts) ==
    /\ Free(a) /\ Spends("edits")
    /\ ts # {} /\ \A t \in ts : status[t] = "in_progress"
    /\ Becomes(a, <<"reap", ts>>)
    /\ UNCHANGED <<store, fleet, history>>

ReapOne(a, t) ==
    /\ Busy(a, "reap")
    /\ t \in Work(a)
    /\ \/ SetStatus(t, "open")
       \/ status[t] \in {"open", "gone"} /\ UNCHANGED store
    /\ Owe({})
    /\ Becomes(a, IF Work(a) = {t} THEN Idle ELSE <<"reap", Work(a) \ {t}>>)
    /\ UNCHANGED <<fleet, won, left>>

-----------------------------------------------------------------------------
(* The registry.                                                           *)

\* One statement on the agent's own row.
Report(a) ==
    /\ Free(a) /\ Spends("reports")
    /\ Register(a) \/ Heartbeat(a) \/ \E s \in RowStatuses : UpdateStatus(a, s)
    /\ UNCHANGED <<store, at, history>>

BeginDeregister(a) ==
    /\ Free(a) /\ row[a] # Unknown
    /\ Spends("reports")
    /\ ReleaseAllClaims(a)
    /\ Becomes(a, <<"deregister">>)
    /\ UNCHANGED <<store, history>>

Deregister(a) ==
    /\ Busy(a, "deregister")
    /\ MarkCompleted(a)
    /\ Becomes(a, Idle)
    /\ UNCHANGED <<store, history, left>>

Claim(a) ==
    /\ Free(a) /\ Spends("grants")
    /\ \E kind \in Kinds : ClaimResource(a, kind)
    /\ UNCHANGED <<store, at, history>>

EndClaim ==
    /\ \/ \E a \in Agents : Free(a) /\ (\E c \in claims : c.by = a) /\ ReleaseAllClaims(a)
       \/ \E c \in claims : Expire(c)
    /\ UNCHANGED <<store, at, history, left>>

Silence(a) ==
    /\ Spends("silences")
    /\ FallSilent(a)
    /\ UNCHANGED <<store, at, history>>

BeginCleanup(a) ==
    /\ Free(a) /\ Stale # {}
    /\ FixCutoff(a)
    /\ Becomes(a, <<"cleanup", Stale>>)
    /\ UNCHANGED <<store, history, left>>

StripClaims(a, b) ==
    /\ Busy(a, "cleanup")
    /\ b \in Work(a)
    /\ ReleaseAllClaims(b)
    /\ Becomes(a, <<"strip", Work(a) \ {b}, b>>)
    /\ UNCHANGED <<store, history, left>>

StripAnnouncements(a) ==
    /\ Busy(a, "strip")
    /\ CompleteAnnouncements(at[a][3])
    /\ Becomes(a, <<"cleanup", Work(a)>>)
    /\ UNCHANGED <<store, history, left>>

Fail(a) ==
    /\ Busy(a, "cleanup")
    /\ Work(a) = {}
    /\ MarkFailed(a, Failing(a))
    /\ Becomes(a, Idle)
    /\ UNCHANGED <<store, history, left>>

\* The process of a command dies, and what its release owed with it.
Crash(a) ==
    /\ ~Free(a)
    /\ Becomes(a, Idle)
    /\ older' = [older EXCEPT ![a] = {}]
    /\ owed' = {o \in owed : o[1] # a}
    /\ UNCHANGED <<store, row, silent, announced, claims, reaped, won, left>>

Next ==
    \/ \E a \in Agents :
        \/ \E t \in Tasks : BeginClaim(a, t) \/ CloseTask(a, t) \/ BeginDelete(a, t) \/ ReapOne(a, t)
        \/ TryClaim(a) \/ Announce(a) \/ Notify(a) \/ Tell(a)
        \/ \E t, b \in Tasks : BeginLink(a, t, b)
        \/ Link(a) \/ Delete(a)
        \/ \E ts \in SUBSET Tasks : BeginReap(a, ts)
        \/ Report(a) \/ BeginDeregister(a) \/ Deregister(a) \/ Claim(a) \/ Silence(a)
        \/ BeginCleanup(a) \/ StripAnnouncements(a) \/ Fail(a) \/ Crash(a)
        \/ \E b \in Agents : StripClaims(a, b)
    \/ \E t \in Tasks : EditTask(t)
    \/ EndClaim

Spec == Init /\ [][Next]_vars

-----------------------------------------------------------------------------
(* Properties.                                                             *)

\* A command and what it still has to do.
Commands ==
    {Idle, <<"deregister">>}
    \cup ({"claim", "announce", "notify", "tell", "delete"} \X Tasks)
    \cup ({"link"} \X {e \in Tasks \X Tasks : e[1] # e[2]})
    \cup ({"reap"} \X SUBSET Tasks)
    \cup ({"cleanup"} \X SUBSET Agents)
    \cup ({"strip"} \X (SUBSET Agents) \X Agents)

\* Rows, edges and claims refer to what exists, and an agent that a cleanup
\* failed is failed.
TypeOK ==
    /\ StoreTypeOK /\ RegistryTypeOK
    /\ at \in [Agents -> Commands]
    /\ owed \subseteq Agents \X {t \in Tasks : Ready(t)}
    /\ won \in [Tasks -> SUBSET Agents]

\* "Two agent processes could each read assignee=null and both assign
\* themselves" (tryClaim): at most one agent has been told that a task is its
\* own, unless somebody took it away by hand.
OneWinner == \A t \in Tasks : Cardinality(won[t]) <= 1

\* Of several releases that close the blockers of a task at the same time, at
\* least one sees it ready and broadcasts it: what a release made ready, and
\* still is, has been told by the time that very release is over, unless the
\* release died, whichever others died or went on.
UnblockTold == \A o \in owed : Busy(o[1], "notify") \/ Busy(o[1], "tell")

\* cleanupAgentsOlderThan strips first and marks later: an agent that claims or
\* announces in between is not marked, so one it marked failed holds neither
\* claims nor open announcements.
FailedHoldsNothing ==
    \A a \in reaped : (\A c \in claims : c.by # a) /\ (\A n \in announced : n[1] # a)

\* No exclusive claim next to an unexpired claim of anybody, whatever expiries,
\* cleanups and deregistrations there were.
ExclusiveIsAlone == (\E c \in claims : c.kind = "exclusive") => Cardinality(claims) = 1

\* Claims are exclusive where they say so, and not those of the failed.
ClaimsSound == FailedHoldsNothing /\ ExclusiveIsAlone
=============================================================================
