----------------------------- MODULE Orchestrator -----------------------------
(***************************************************************************)
(* The task orchestrator of a delivery (delivery/task-orchestrator.ts) as  *)
(* delivery/orchestrated-mission.ts wires it: a graph of tasks runs in     *)
(* parallel, each attempt in a git worktree of its own that is seeded from *)
(* the main tree and merged back under a lock; a failed task is retried,   *)
(* then replaced by a repair chain, then fails and takes its dependents    *)
(* with it; an accepted task may discover further tasks; accepted tasks    *)
(* and the grown plan are persisted, and a later process resumes.          *)
(*                                                                         *)
(* The scheduler is one async function: its steps are the stretches        *)
(* between its awaits, and `at` is the await it is suspended in.  Attempts *)
(* run beside it.  A task id is <<t, n>>: the task itself for n = 0, the   *)
(* n-th link ever scheduled to repair it for n > 0.  What a task wrote is  *)
(* abstracted to its id being in a tree.                                   *)
(***************************************************************************)
EXTENDS PhaseGraph

CONSTANTS Plans,        \* the plans a run may start from, tasks in planner order
          Finds,        \* the tasks an accepted task may discover, in the order it lists them
          Deps,         \* the dependencies each task declares
          Fanout,       \* deliver.parallelTasks
          MaxRepairs,   \* maxRepairsPerTask
          MaxTasks,     \* cap on the tasks ever scheduled by a process
          MaxPersisted, \* MAX_PERSISTED_PHASES
          MaxChain,     \* bound: length of a repair chain
          MaxCrashes    \* bound: processes that die

\* parsePhaseArray keeps the first of the entries with one name, and no more of
\* them than can be persisted.
Listed == {s \in Seq(DOMAIN Deps) : \A i, j \in DOMAIN s : s[i] = s[j] => i = j}

ASSUME OrchestratorAssumption ==
    /\ {Fanout, MaxTasks, MaxPersisted} \subseteq Nat \ {0}
    /\ {MaxRepairs, MaxChain, MaxCrashes} \subseteq Nat
    /\ \A p \in Plans : p \in Listed /\ Len(p) <= MaxTasks /\ Len(p) <= MaxPersisted
    /\ Deps \in [DOMAIN Deps -> SUBSET DOMAIN Deps]
    /\ Finds \in [DOMAIN Deps -> Listed]

VARIABLES disk,      \* the run's state file: phases and accepted ids (taskOutcomes)
          tree,      \* ids whose work is in the main tree
          isolated,  \* whether worktrees are available
          at,        \* where the scheduler is: "dead", "ended", or the await it is in
          pending,   \* tasks not dispatched yet, topologically ordered: [id, deps]
          known, done, failed, scheduled,
          inFlight,  \* ids dispatched and not settled
          settling,  \* the task being settled and its repair so far
          attempts,  \* the running attempts, by id
          mergeChain,\* who waits for the merge lock, in order; the head holds it
          crashes

memory == <<pending, known, done, failed, scheduled, inFlight, settling, attempts, mergeChain>>
vars == <<disk, tree, isolated, at, memory, crashes>>

Task(t) == <<t, 0>>
NoOne == <<>>
Nobody == [id |-> NoOne, kind |-> "task", tries |-> 0, links |-> 0, finds |-> FALSE]
NoAttempts == [id \in {} |-> 0]
Tasks == {Task(t) : t \in DOMAIN Deps}
Links == (DOMAIN Deps) \X (Nat \ {0})
Ids == Tasks \cup Links
Declared(t) == [id |-> Task(t), deps |-> {Task(d) : d \in Deps[t]}]
Concurrency == IF isolated THEN Fanout ELSE 1

-----------------------------------------------------------------------------
(* Graphs.                                                                  *)

\* What the NEW_TASKS feed makes of the array in an accepted task's output:
\* parsePhaseArray orders it, which keeps the dependencies inside the array.
NewTasks(t) == TopoOrder([i \in DOMAIN Finds[t] |-> Declared(Finds[t][i])])

\* The grown plan in the order of topoOrder, each task with the dependencies it
\* had, as far as they are known.
Resorted_Cleaned(ps, ids) == TopoOrder(ps)
Resorted(ps, ids) ==
    LET s == CHOOSE o \in Orders(ps) \cup {[n \in DOMAIN ps |-> n]} :
                Orders(ps) # {} => o \in Orders(ps)
    IN  [n \in DOMAIN ps |-> [ps[s[n]] EXCEPT !.deps = (@ \cap ids) \ {ps[s[n]].id}]]

\* The tasks a failure takes with it: the least set closed under "depends on a
\* failed or skipped task".
Doomed(ps, bad) ==
    {id \in IdsOf(ps) :
        \A S \in SUBSET IdsOf(ps) :
            (\A i \in DOMAIN ps : ps[i].deps \cap (bad \cup S) # {} => ps[i].id \in S)
                => id \in S}

-----------------------------------------------------------------------------
(* Attempts and the merge lock.                                             *)

Busy(id) == id \in DOMAIN attempts /\ attempts[id].at # "over"
Attempt(where) == [at |-> where, base |-> {}, ok |-> FALSE, finds |-> FALSE]
Dropped(id) == [i \in DOMAIN attempts \ {id} |-> attempts[i]]

\* Begin the attempts of a set of ids, in order: an isolated one queues for
\* its worktree, the others edit the main tree at once.
Begin(ids) ==
    /\ attempts' = [i \in (DOMAIN attempts \cup ToSet(ids)) |->
                        IF i \notin ToSet(ids) THEN attempts[i]
                        ELSE IF isolated THEN Attempt("queued")
                        ELSE [Attempt("tree") EXCEPT !.base = tree]]
    /\ mergeChain' = IF isolated
                     THEN mergeChain \o [i \in DOMAIN ids |-> [id |-> ids[i], op |-> "acquire"]]
                     ELSE mergeChain

First == Head(mergeChain)
Serves(op) == mergeChain # <<>> /\ First.op = op
scheduler == <<pending, known, done, failed, scheduled, inFlight, settling, at>>

\* A worktree seeded with the main tree as it is now; on any git error the
\* attempt waits for the lock again, to run in the main tree.
Acquire_Unlocked ==
    /\ Serves("acquire")
    /\ \E given \in BOOLEAN :
         attempts' = [attempts EXCEPT ![First.id].at = IF given THEN "run" ELSE "tree",
                                      ![First.id].base = tree]
    /\ mergeChain' = Tail(mergeChain)
    /\ UNCHANGED <<disk, tree, isolated, crashes, scheduler>>
Acquire ==
    /\ Serves("acquire")
    /\ \E given \in BOOLEAN :
         /\ attempts' = [attempts EXCEPT ![First.id] =
                            IF given THEN [@ EXCEPT !.at = "run", !.base = tree] ELSE @]
         /\ mergeChain' = IF given THEN Tail(mergeChain)
                          ELSE Append(Tail(mergeChain), [id |-> First.id, op |-> "tree"])
    /\ UNCHANGED <<disk, tree, isolated, crashes, scheduler>>

\* The fallback holds the lock for the whole run.
EnterTree ==
    /\ Serves("tree") /\ Busy(First.id) /\ attempts[First.id].at = "queued"
    /\ attempts' = [attempts EXCEPT ![First.id].at = "tree", ![First.id].base = tree]
    /\ UNCHANGED <<disk, tree, isolated, crashes, scheduler, mergeChain>>

MayFind(id) == id[2] = 0 /\ Finds[id[1]] # <<>>

\* mergeChain goes on whether the run ends well or not.
Released_Stuck(id, ok) ==
    IF mergeChain # <<>> /\ First.id = id /\ ok THEN Tail(mergeChain) ELSE mergeChain
Released(id, ok) ==
    IF mergeChain # <<>> /\ First.id = id THEN Tail(mergeChain) ELSE mergeChain

\* An attempt in the main tree ends: what it wrote is in the tree already.
LeaveTree(id) ==
    /\ Busy(id) /\ attempts[id].at = "tree"
    /\ \E ok, finds \in BOOLEAN :
         /\ finds => ok /\ MayFind(id)
         /\ attempts' = [attempts EXCEPT ![id] = [@ EXCEPT !.at = "over", !.ok = ok, !.finds = finds]]
         /\ tree' = IF ok THEN tree \cup {id} ELSE tree
    /\ mergeChain' = Released(id, attempts'[id].ok)
    /\ UNCHANGED <<disk, isolated, crashes, scheduler>>

\* The loop in a worktree ends; an accepted one goes to be merged.
FinishRun(id) ==
    /\ Busy(id) /\ attempts[id].at = "run"
    /\ \E ok, finds \in BOOLEAN :
         /\ finds => ok /\ MayFind(id)
         /\ attempts' = [attempts EXCEPT ![id] = [@ EXCEPT !.at = "queued", !.ok = ok, !.finds = finds]]
         /\ mergeChain' = Append(mergeChain, [id |-> id, op |-> IF ok THEN "merge" ELSE "clean"])
    /\ UNCHANGED <<disk, tree, isolated, crashes, scheduler>>

\* mergeBack applies the delta or refuses it (a sibling came first, a
\* protected file, a git error): then the attempt has failed after all.
MergeBack ==
    /\ Serves("merge")
    /\ \E applied \in BOOLEAN :
         /\ tree' = IF applied THEN tree \cup {First.id} ELSE tree
         /\ attempts' = [attempts EXCEPT ![First.id] =
                            IF applied THEN @ ELSE [@ EXCEPT !.ok = FALSE, !.finds = FALSE]]
    /\ mergeChain' = Append(Tail(mergeChain), [id |-> First.id, op |-> "clean"])
    /\ UNCHANGED <<disk, isolated, crashes, scheduler>>

Cleanup ==
    /\ Serves("clean")
    /\ attempts' = [attempts EXCEPT ![First.id].at = "over"]
    /\ mergeChain' = Tail(mergeChain)
    /\ UNCHANGED <<disk, tree, isolated, crashes, scheduler>>

-----------------------------------------------------------------------------
(* The scheduler.                                                           *)

\* Where the tasks are that are not skipped and whose dependencies have succeeded.
Ready(skipped) == {i \in DOMAIN pending : pending[i].id \notin skipped /\ pending[i].deps \subseteq done}

\* The first ready tasks in graph order, as many as there are free slots.
Chosen(ready) ==
    LET slots == Concurrency - Cardinality(inFlight)
    IN  [i \in 1..(IF slots < Len(ready) THEN slots ELSE Len(ready)) |-> ready[i].id]

\* Skip what a failure has doomed, fill the free slots, and wait for a flight
\* to finish.  With nothing ready and nothing running the rest is
\* unsatisfiable and skipped.
Schedule ==
    /\ at = "top"
    /\ \E skipped \in {Doomed(pending, failed)} :
       \E ready \in {Picked(pending, Ready(skipped))} :
       \E ids \in {Chosen(ready)} :
         IF ready = <<>> /\ inFlight = {}
         THEN /\ failed' = failed \cup IdsOf(pending)
              /\ pending' = <<>> /\ at' = "ended"
              /\ UNCHANGED <<inFlight, attempts, mergeChain>>
         ELSE /\ failed' = failed \cup skipped
              /\ pending' = Without(pending, skipped \cup ToSet(ids))
              /\ inFlight' = inFlight \cup ToSet(ids)
              /\ Begin(ids)
              /\ at' = "race"
    /\ UNCHANGED <<disk, tree, isolated, known, done, scheduled, settling, crashes>>

\* recordSuccess: the accepted set is persisted before publish is awaited.
Record(id) ==
    /\ done' = done \cup {id}
    /\ disk' = [disk EXCEPT !.accepted = done']
    /\ at' = "publish"

\* The task of the settlement ends without success.
GiveUp(also) ==
    /\ failed' = failed \cup {settling.id} \cup also
    /\ at' = "top" /\ settling' = Nobody

\* An attempt of the settled task is over: accept it, try again, or ask for a
\* repair chain.
Judge(id, tries) ==
    LET a == attempts[id]
    IN  /\ settling' = [Nobody EXCEPT !.id = id, !.tries = tries, !.finds = a.finds]
        /\ IF a.ok
           THEN /\ Record(id) /\ attempts' = Dropped(id)
                /\ UNCHANGED mergeChain
           ELSE IF tries <= MaxRepairs
           THEN at' = "retry" /\ Begin(<<id>>) /\ UNCHANGED <<disk, done>>
           ELSE at' = "replan" /\ attempts' = Dropped(id) /\ UNCHANGED <<disk, done, mergeChain>>

\* Promise.race: any flight that is over may be settled next.
Settle ==
    /\ at = "race"
    /\ \E id \in inFlight :
         /\ attempts[id].at = "over"
         /\ inFlight' = inFlight \ {id}
         /\ Judge(id, 1)
    /\ UNCHANGED <<tree, isolated, pending, known, failed, scheduled, crashes>>

Retried ==
    /\ at = "retry" /\ attempts[settling.id].at = "over"
    /\ Judge(settling.id, settling.tries + 1)
    /\ UNCHANGED <<tree, isolated, pending, known, failed, scheduled, inFlight, crashes>>

\* Names of links are bumped until they are new.
NewLink(t) == <<t, CHOOSE n \in 1..(Cardinality(known) + 1) : <<t, n>> \notin known>>
StartLink ==
    LET link == NewLink(settling.id[1])
    IN  /\ known' = known \cup {link}
        /\ scheduled' = scheduled + 1
        /\ Begin(<<link>>)
        /\ at' = "chain"

\* repairTask answers with a chain, or declines; one that would exceed the cap
\* is declined for it.
Replan ==
    /\ at = "replan"
    /\ \E n \in 0..MaxChain :
         IF n = 0 \/ scheduled + n > MaxTasks
         THEN /\ GiveUp({})
              /\ UNCHANGED <<known, scheduled, attempts, mergeChain>>
         ELSE /\ settling' = [settling EXCEPT !.links = n, !.kind = "link"]
              /\ StartLink /\ UNCHANGED failed
    /\ UNCHANGED <<disk, tree, isolated, pending, done, inFlight, crashes>>

\* A link is over: its own discoveries are dropped, and one that fails breaks
\* the chain.
Linked ==
    /\ at = "chain"
    /\ \E link \in DOMAIN attempts \ inFlight :
         /\ attempts[link].at = "over"
         /\ attempts' = Dropped(link)
         /\ IF attempts[link].ok
            THEN /\ settling' = [settling EXCEPT !.links = @ - 1]
                 /\ Record(link) /\ UNCHANGED failed
            ELSE UNCHANGED <<done, disk>> /\ GiveUp({link})
    /\ UNCHANGED <<tree, isolated, pending, known, scheduled, inFlight, mergeChain, crashes>>

\* The discoveries of the accepted task that nobody knew.
Fresh == IF settling.finds
         THEN Without(NewTasks(settling.id[1]), known)
         ELSE <<>>

\* publish returns.  A link is followed by the next, the last by the credit of
\* the original id; a task's discoveries are folded in and persisted.
Published ==
    /\ at = "publish"
    /\ \E fresh \in {Fresh} :
          \/ /\ settling.kind = "link" /\ settling.links > 0
              /\ StartLink
              /\ UNCHANGED <<disk, pending, done, settling>>
           \/ /\ settling.kind = "link" /\ settling.links = 0
              /\ settling' = [settling EXCEPT !.kind = "task"]
              /\ Record(settling.id)
              /\ UNCHANGED <<pending, known, scheduled, attempts, mergeChain>>
           \/ /\ settling.kind = "task" /\ at' = "top"
              /\ IF fresh # <<>> /\ scheduled + Len(fresh) <= MaxTasks
                 THEN /\ known' = known \cup IdsOf(fresh)
                      /\ scheduled' = scheduled + Len(fresh)
                      /\ pending' = Resorted(pending \o fresh, known')
                      /\ disk' = [disk EXCEPT !.phases =
                                    LET all == @ \o fresh
                                    IN  SubSeq(all, 1, IF Len(all) < MaxPersisted
                                                       THEN Len(all) ELSE MaxPersisted)]
                 ELSE UNCHANGED <<known, scheduled, pending, disk>>
              /\ settling' = Nobody
              /\ UNCHANGED <<done, attempts, mergeChain>>
    /\ UNCHANGED <<tree, isolated, failed, inFlight, crashes>>

-----------------------------------------------------------------------------
(* Death and resume.                                                        *)

Forget ==
    /\ pending' = <<>> /\ known' = {} /\ done' = {} /\ failed' = {} /\ scheduled' = 0
    /\ inFlight' = {} /\ settling' = Nobody
    /\ attempts' = NoAttempts /\ mergeChain' = <<>>

\* The process dies: its worktrees are swept, what was merged stays.
Crash ==
    /\ at \notin {"dead", "ended"} /\ crashes < MaxCrashes
    /\ crashes' = crashes + 1 /\ at' = "dead" /\ Forget
    /\ UNCHANGED <<disk, tree, isolated>>

\* orchestrate: accepted tasks of an earlier process are done and known and
\* leave the pending list.
Pending_All(phases, accepted) == TopoOrder(phases)
Pending(phases, accepted) ==
    Without(TopoOrder(phases), accepted)
Known(phases, accepted) == IdsOf(phases) \cup accepted
Start ==
    /\ at = "dead"
    /\ pending' = Pending(disk.phases, disk.accepted)
    /\ known' = Known(disk.phases, disk.accepted)
    /\ done' = disk.accepted
    /\ scheduled' = Len(disk.phases)
    /\ at' = "top"
    /\ UNCHANGED <<disk, tree, isolated, failed, inFlight, settling, attempts, mergeChain, crashes>>

Init ==
    /\ \E plan \in Plans :
         disk = [phases |-> [i \in DOMAIN plan |-> Declared(plan[i])], accepted |-> {}]
    /\ tree = {} /\ isolated \in BOOLEAN /\ at = "dead" /\ crashes = 0
    /\ pending = <<>> /\ known = {} /\ done = {} /\ failed = {} /\ scheduled = 0
    /\ inFlight = {} /\ settling = Nobody
    /\ attempts = NoAttempts /\ mergeChain = <<>>

Work(id) == LeaveTree(id) \/ FinishRun(id)
Locked == Acquire \/ EnterTree \/ MergeBack \/ Cleanup
Loop == Schedule \/ Settle \/ Retried \/ Replan \/ Linked \/ Published
Next == \/ Start \/ Loop \/ Locked \/ Crash
        \/ \E id \in DOMAIN attempts : Work(id)

\* The event loop runs whatever is ready; an attempt ends by its turn and time
\* budgets.  Nobody is obliged to resume.
Fairness == WF_vars(Loop) /\ WF_vars(Locked) /\ WF_vars(\E id \in DOMAIN attempts : Work(id))
Spec == Init /\ [][Next]_vars /\ Fairness

-----------------------------------------------------------------------------
(* Properties.                                                              *)

\* State keeps its type; no process schedules more than MaxTasks and its plan,
\* and an attempt starts from a tree the main tree has been.
Phases == [id : Tasks, deps : SUBSET Tasks]
Tries == [at : {"queued", "run", "tree", "over"}, base : SUBSET tree, ok : BOOLEAN, finds : BOOLEAN]
Waits == [id : known, op : {"acquire", "tree", "merge", "clean"}]
TypeOK ==
    /\ at \in {"dead", "top", "race", "retry", "replan", "chain", "publish", "ended"}
    /\ isolated \in BOOLEAN /\ crashes \in 0..MaxCrashes
    /\ tree \subseteq Ids /\ known \subseteq Ids /\ done \subseteq known /\ failed \subseteq known
    /\ disk \in [phases : Seq(Phases), accepted : SUBSET Ids] /\ Len(disk.phases) <= MaxPersisted
    /\ pending \in Seq(Phases) /\ IdsOf(pending) \subseteq known
    /\ scheduled \in 0..MaxTasks
    /\ inFlight \subseteq known \cap Tasks /\ inFlight \subseteq DOMAIN attempts
    /\ settling \in [id : known \cup {NoOne}, kind : {"task", "link"}, tries : Nat, links : Nat,
                     finds : BOOLEAN]
    /\ DOMAIN attempts \subseteq known /\ attempts \in [DOMAIN attempts -> Tries]
    /\ mergeChain \in Seq(Waits)

\* An attempt of a task is made on a tree that holds the work of everything
\* the task declares to depend on, done by the task or by a link of its
\* repair: never on a broken base, whatever failed, was discovered, or was
\* resumed meanwhile.
BuildsOnDone ==
    \A id \in DOMAIN attempts :
        id[2] = 0 /\ attempts[id].at \in {"run", "tree"} =>
            \A d \in Deps[id[1]] \ {id[1]} :
                Task(d) \in known => \E w \in attempts[id].base : w[1] = d

\* While an attempt edits the main tree nobody else merges into it.
TreeUndisturbed ==
    [][\A id \in DOMAIN attempts : Busy(id) /\ attempts[id].at = "tree" /\ Busy(id)' => tree' = tree]_vars

\* What a process has recorded as accepted is never attempted again, by it or
\* by the one that resumes.
AcceptedNotRedone == disk.accepted \cap DOMAIN attempts = {}

\* A mission that ends without a failure has every task of the persisted plan
\* accepted, and the work of each in the tree.
SuccessIsComplete ==
    at = "ended" /\ failed = {} =>
        \A id \in IdsOf(disk.phases) :
            id \in disk.accepted /\ \E w \in tree : w[1] = id[1]

\* What was accepted is neither redone nor forgotten, across processes.
AcceptedKept == AcceptedNotRedone /\ SuccessIsComplete

\* A process that is not killed ends, with every task accepted or failed, and
\* no attempt is left waiting for the lock or for a task that cannot come.
Ends == [](at # "dead" => <>(at \in {"dead", "ended"}))
=============================================================================
