----------------------------- MODULE DeployQueue -----------------------------
(***************************************************************************)
(* The deploy queue of coordination/deploy-batcher.ts: processes queue git *)
(* and deploy actions, merge an action into a similar pending one, collect *)
(* pending actions into batches and execute the batches.  The tables       *)
(* deploy_queue and deploy_batches are shared by every process; the code   *)
(* between two SQL statements is local.  One action is one statement, one  *)
(* transaction, or one external command.                                   *)
(*                                                                         *)
(* A payload is reduced to what is in it of which queue() call: a pair of  *)
(* the call and "list" for its arrays (files, messages), which a merge     *)
(* concatenates, or "text" for its other keys (message, remote, ref,       *)
(* inputs), which a merge overwrites.  A window that has elapsed is the    *)
(* flag ripe.                                                              *)
(***************************************************************************)
EXTENDS Integers, Sequences, FiniteSets

CONSTANTS Procs,         \* processes using a DeployBatcher
          Requests,      \* what may be queued: records [kind, target, prio, keys]
          MaxCalls,      \* bound: queue() calls in a behaviour
          MaxBatch,      \* maxBatchSize
          Commands,      \* commands in use, of flush, batch and execute
          MayCrash       \* whether processes may die

ASSUME DeployAssumption ==
    /\ Requests \subseteq [kind : {"commit", "push", "merge", "deploy", "workflow"},
                           target : STRING, prio : Nat, keys : SUBSET {"list", "text"}]
    /\ MaxCalls \in Nat /\ MaxBatch \in Nat \ {0} /\ MayCrash \in BOOLEAN
    /\ Commands \subseteq {"flush", "batch", "execute"}

VARIABLES queue,     \* deploy_queue, in the order of its AUTOINCREMENT id
          batches,   \* status column of deploy_batches, by batch
          stage,     \* where each process is
          mode,      \* the command it runs: queue, flush, batch or execute
          req,       \* the request it queues, and the number of the call
          hit,       \* the row findSimilarAction returned
          draft,     \* the payload it is about to write
          picked,    \* rows selected by createBatch
          batch,     \* the batch it executes
          todo,      \* rows of executeBatch still to run, with their payload as read
          settled,   \* rows that ran and wait for updateActionStatus
          tally,     \* whether any action of the batch succeeded, or failed
          calls,     \* number of queue() calls so far
          accepted,  \* <<part, row>>: what a call brought, and the id it returned
          ran,       \* <<batch, row>> whose command took effect
          shipped    \* parts that were in a command that took effect

\* What queueing and executing work on.
executing == <<batch, todo, settled, tally, ran, shipped>>
queueing == <<req, hit, draft, calls, accepted>>
vars == <<queue, batches, stage, mode, req, hit, draft, picked, batch, todo, settled,
          tally, calls, accepted, ran, shipped>>

Stages == {"idle", "find", "insert", "read", "write", "select", "picked", "load", "exec"}
Rows == 1..Len(queue)
NoCall == 0
Parts == (1..MaxCalls) \X {"list", "text"}

TypeOK ==
    /\ \A r \in Rows :
         /\ queue[r].status \in {"pending", "batched", "completed", "failed"}
         /\ queue[r].batch \in 0..Len(batches)
         /\ queue[r].payload \subseteq Parts
         /\ (queue[r].status = "pending") <=> (queue[r].batch = 0)
    /\ \A b \in 1..Len(batches) :
         batches[b] \in {"pending", "executing", "completed", "failed"}
    /\ stage \in [Procs -> Stages]
    /\ calls \in 0..MaxCalls
    /\ \A p \in Procs : picked[p] \subseteq Rows /\ DOMAIN todo[p] \subseteq Rows

\* Action types canMerge accepts, and those executeParallel runs.
Mergeable == {"commit", "push", "workflow"}
ParallelSafe == {"workflow"}

\* ORDER BY priority DESC, queued_at ASC, and LIMIT n.
Precedes(i, j) == \/ queue[i].prio > queue[j].prio
                  \/ queue[i].prio = queue[j].prio /\ i < j
FirstOf(S, n) == {i \in S : Cardinality({j \in S : Precedes(j, i)}) < n}

NoRequest == [ask |-> CHOOSE r \in Requests : TRUE, call |-> NoCall]

Init ==
    /\ queue = <<>>
    /\ batches = <<>>
    /\ stage = [p \in Procs |-> "idle"]
    /\ mode = [p \in Procs |-> "queue"]
    /\ req = [p \in Procs |-> NoRequest]
    /\ hit = [p \in Procs |-> 0]
    /\ draft = [p \in Procs |-> {}]
    /\ picked = [p \in Procs |-> {}]
    /\ batch = [p \in Procs |-> 0]
    /\ todo = [p \in Procs |-> <<>>]
    /\ settled = [p \in Procs |-> <<>>]
    /\ tally = [p \in Procs |-> [good |-> FALSE, bad |-> FALSE]]
    /\ calls = 0
    /\ accepted = {} /\ ran = {} /\ shipped = {}

-----------------------------------------------------------------------------
(* queue(): find a similar pending action, then merge into it or insert.    *)

Queue(p) ==
    /\ stage[p] = "idle" /\ calls < MaxCalls
    /\ calls' = calls + 1
    /\ \E r \in Requests : req' = [req EXCEPT ![p] = [ask |-> r, call |-> calls + 1]]
    /\ stage' = [stage EXCEPT ![p] = "find"]
    /\ mode' = [mode EXCEPT ![p] = "queue"]
    /\ UNCHANGED <<queue, batches, hit, draft, accepted, executing, picked>>

\* Mutant: findSimilarAction also returns a row that has left the queue.
Similar_AnyStatus(ask) ==
    {r \in Rows : queue[r].kind = ask.kind /\ queue[r].target = ask.target}

\* findSimilarAction: the newest pending row of the same type and target.
Similar(ask) == {r \in Rows : /\ queue[r].status = "pending"
                              /\ queue[r].kind = ask.kind /\ queue[r].target = ask.target}
Newest(S) == CHOOSE r \in S : \A q \in S : q <= r

\* queue() returns the id of a row: what a process keeps between two commands.
Brought(p) == {req[p].call} \X req[p].ask.keys
Returns(p, r) ==
    /\ stage' = [stage EXCEPT ![p] = "idle"]
    /\ accepted' = accepted \cup (Brought(p) \X {r})
    /\ req' = [req EXCEPT ![p] = NoRequest]
    /\ hit' = [hit EXCEPT ![p] = 0]
    /\ draft' = [draft EXCEPT ![p] = {}]

\* canMerge looks at the type only; what cannot merge is inserted, and a call
\* without a payload has nothing to merge.
Find(p) ==
    /\ stage[p] = "find"
    /\ LET ask == req[p].ask IN
       \/ /\ Similar(ask) # {} /\ ask.kind \in Mergeable /\ ask.keys # {}
          /\ hit' = [hit EXCEPT ![p] = Newest(Similar(ask))]
          /\ stage' = [stage EXCEPT ![p] = "read"]
          /\ UNCHANGED <<req, draft, accepted>>
       \/ /\ Similar(ask) # {} /\ ask.kind \in Mergeable /\ ask.keys = {}
          /\ Returns(p, Newest(Similar(ask)))
       \/ /\ Similar(ask) = {} \/ ask.kind \notin Mergeable
          /\ stage' = [stage EXCEPT ![p] = "insert"]
          /\ UNCHANGED <<req, hit, draft, accepted>>
    /\ UNCHANGED <<queue, batches, mode, calls, executing, picked>>

\* A new pending row; its batch window starts now.
NewRow(p) == [kind |-> req[p].ask.kind, target |-> req[p].ask.target, prio |-> req[p].ask.prio,
              status |-> "pending", batch |-> 0, ripe |-> FALSE,
              payload |-> Brought(p)]

Insert(p) ==
    /\ stage[p] = "insert"
    /\ queue' = Append(queue, NewRow(p))
    /\ Returns(p, Len(queue) + 1)
    /\ UNCHANGED <<batches, mode, calls, executing, picked>>

\* queueBulk, and queueDeploy of the coordination service: insert at once,
\* looking for nothing similar.
InsertDirectly(p) ==
    /\ stage[p] = "find"
    /\ queue' = Append(queue, NewRow(p))
    /\ Returns(p, Len(queue) + 1)
    /\ UNCHANGED <<batches, mode, calls, executing, picked>>

\* mergePayloads: arrays are concatenated, every other key is overwritten.
Merged(payload, p) ==
    {x \in payload : x[2] = "list" \/ "text" \notin req[p].ask.keys} \cup Brought(p)

MergeRead(p) ==
    /\ stage[p] = "read"
    /\ draft' = [draft EXCEPT ![p] = Merged(queue[hit[p]].payload, p)]
    /\ stage' = [stage EXCEPT ![p] = "write"]
    /\ UNCHANGED <<queue, batches, mode, req, hit, calls, accepted, executing, picked>>

\* UPDATE ... WHERE id, whatever has become of the row since it was found.
MergeWrite(p) ==
    /\ stage[p] = "write"
    /\ queue' = [queue EXCEPT ![hit[p]].payload = draft[p]]
    /\ Returns(p, hit[p])
    /\ UNCHANGED <<batches, mode, calls, executing, picked>>

\* The batch window of a pending row elapses.
Ripen(r) ==
    /\ queue[r].status = "pending" /\ ~queue[r].ripe
    /\ queue' = [queue EXCEPT ![r].ripe = TRUE]
    /\ UNCHANGED <<batches, stage, mode, executing, queueing, picked>>

-----------------------------------------------------------------------------
(* createBatch, by `deploy batch` or by the loop of flushAll.               *)

\* Mutant: rows already batched are collected again.
Pending_Batched == {r \in Rows : queue[r].status \in {"pending", "batched"}}
Pending == {r \in Rows : queue[r].status = "pending"}
Ready == {r \in Pending : queue[r].ripe}

StartBatching(p) ==
    /\ stage[p] = "idle"
    /\ \E m \in Commands \ {"execute"} : mode' = [mode EXCEPT ![p] = m]
    /\ stage' = [stage EXCEPT ![p] = "select"]
    /\ UNCHANGED <<queue, batches, picked, executing, queueing>>

\* The SELECT; nothing ready ends the command.
SelectReady(p) ==
    /\ stage[p] = "select"
    /\ picked' = [picked EXCEPT ![p] = FirstOf(Ready, MaxBatch)]
    /\ stage' = [stage EXCEPT ![p] = IF Ready = {} THEN "idle" ELSE "picked"]
    /\ UNCHANGED <<queue, batches, mode, executing, queueing>>

\* The transaction marks the rows selected before it, by id alone.
CreateBatch(p) ==
    /\ stage[p] = "picked"
    /\ LET b == Len(batches) + 1 IN
         /\ batches' = Append(batches, "pending")
         /\ queue' = [r \in Rows |-> IF r \in picked[p]
                                     THEN [queue[r] EXCEPT !.status = "batched", !.batch = b]
                                     ELSE queue[r]]
         /\ batch' = [batch EXCEPT ![p] = IF mode[p] = "flush" THEN b ELSE 0]
    /\ picked' = [picked EXCEPT ![p] = {}]
    /\ stage' = [stage EXCEPT ![p] = IF mode[p] = "flush" THEN "load" ELSE "idle"]
    /\ UNCHANGED <<mode, todo, settled, tally, ran, shipped, queueing>>

-----------------------------------------------------------------------------
(* executeBatch, by flushAll or by `deploy execute --batch-id`.             *)

Execute(p) ==
    /\ stage[p] = "idle" /\ "execute" \in Commands
    /\ \E b \in 1..Len(batches) : batch' = [batch EXCEPT ![p] = b]
    /\ mode' = [mode EXCEPT ![p] = "execute"]
    /\ stage' = [stage EXCEPT ![p] = "load"]
    /\ UNCHANGED <<queue, batches, todo, settled, tally, ran, shipped, queueing, picked>>

\* Mutant: the load forgets the status and takes every row of the batch.
LoadBatch_AnyStatus(p) ==
    /\ stage[p] = "load"
    /\ todo' = [todo EXCEPT ![p] =
                  [r \in {x \in Rows : queue[x].batch = batch[p]}
                     |-> queue[r].payload]]
    /\ batches' = [batches EXCEPT ![batch[p]] = "executing"]
    /\ tally' = [tally EXCEPT ![p] = [good |-> FALSE, bad |-> FALSE]]
    /\ stage' = [stage EXCEPT ![p] = "exec"]
    /\ UNCHANGED <<queue, mode, batch, settled, ran, shipped, queueing, picked>>

\* The rows still batched under this id, with the payload they have now; then
\* the batch is marked, which nothing reads in between.
LoadBatch(p) ==
    /\ stage[p] = "load"
    /\ todo' = [todo EXCEPT ![p] =
                  [r \in {x \in Rows : queue[x].batch = batch[p] /\ queue[x].status = "batched"}
                     |-> queue[r].payload]]
    /\ batches' = [batches EXCEPT ![batch[p]] = "executing"]
    /\ tally' = [tally EXCEPT ![p] = [good |-> FALSE, bad |-> FALSE]]
    /\ stage' = [stage EXCEPT ![p] = "exec"]
    /\ UNCHANGED <<queue, mode, batch, settled, ran, shipped, queueing, picked>>

Workflows(p) == {r \in DOMAIN todo[p] : queue[r].kind \in ParallelSafe}

\* The external command of row r: it succeeds, fails, or times out, in which
\* case the child goes on and may still do its work.
Command(p, r) ==
    /\ \E result \in {"ok", "failed", "late"} :
         /\ settled' = [settled EXCEPT ![p] = Append(@, <<r, result = "ok">>)]
         /\ \/ result = "failed" /\ UNCHANGED <<ran, shipped>>
            \/ /\ result \in {"ok", "late"}
               /\ ran' = ran \cup {<<batch[p], r>>}
               /\ shipped' = shipped \cup todo[p][r]
    /\ todo' = [todo EXCEPT ![p] = [x \in DOMAIN todo[p] \ {r} |-> todo[p][x]]]
    /\ UNCHANGED <<queue, batches, stage, mode, batch, tally, queueing, picked>>

\* executeParallel: workflow triggers first, in any order.
RunWorkflow(p) ==
    /\ stage[p] = "exec"
    /\ \E r \in Workflows(p) : Command(p, r)

\* The sequential rows, one at a time, each recorded before the next.
RunSerial(p) ==
    /\ stage[p] = "exec" /\ Workflows(p) = {} /\ settled[p] = <<>>
    /\ \E r \in FirstOf(DOMAIN todo[p], 1) : Command(p, r)

\* Mutant: only successes are recorded.
RecordOutcome_SuccessOnly(p) ==
    /\ stage[p] = "exec" /\ Workflows(p) = {} /\ settled[p] # <<>>
    /\ LET r == Head(settled[p])[1]  ok == Head(settled[p])[2] IN
         /\ queue' = [queue EXCEPT ![r].status = IF ok THEN "completed" ELSE @]
         /\ tally' = [tally EXCEPT ![p] = [good |-> @.good \/ ok, bad |-> @.bad \/ ~ok]]
    /\ settled' = [settled EXCEPT ![p] = Tail(@)]
    /\ UNCHANGED <<batches, stage, mode, batch, todo, ran, shipped, queueing, picked>>

\* updateActionStatus, of the workflows once all of them have settled.
RecordOutcome(p) ==
    /\ stage[p] = "exec" /\ Workflows(p) = {} /\ settled[p] # <<>>
    /\ LET r == Head(settled[p])[1]  ok == Head(settled[p])[2] IN
         /\ queue' = [queue EXCEPT ![r].status = IF ok THEN "completed" ELSE "failed"]
         /\ tally' = [tally EXCEPT ![p] = [good |-> @.good \/ ok, bad |-> @.bad \/ ~ok]]
    /\ settled' = [settled EXCEPT ![p] = Tail(@)]
    /\ UNCHANGED <<batches, stage, mode, batch, todo, ran, shipped, queueing, picked>>

\* The batch is closed; flushAll looks for the next one.
CloseBatch(p) ==
    /\ stage[p] = "exec" /\ DOMAIN todo[p] = {} /\ settled[p] = <<>>
    /\ batches' = [batches EXCEPT ![batch[p]] =
                     IF tally[p].bad /\ ~tally[p].good THEN "failed" ELSE "completed"]
    /\ batch' = [batch EXCEPT ![p] = 0]
    /\ tally' = [tally EXCEPT ![p] = [good |-> FALSE, bad |-> FALSE]]
    /\ todo' = [todo EXCEPT ![p] = <<>>]
    /\ stage' = [stage EXCEPT ![p] = IF mode[p] = "flush" THEN "select" ELSE "idle"]
    /\ UNCHANGED <<queue, mode, settled, ran, shipped, queueing, picked>>

-----------------------------------------------------------------------------
\* A process dies: the tables stay, what it held is gone.
Crash(p) ==
    /\ MayCrash /\ stage[p] # "idle"
    /\ stage' = [stage EXCEPT ![p] = "idle"]
    /\ req' = [req EXCEPT ![p] = NoRequest]
    /\ hit' = [hit EXCEPT ![p] = 0]
    /\ draft' = [draft EXCEPT ![p] = {}]
    /\ picked' = [picked EXCEPT ![p] = {}]
    /\ batch' = [batch EXCEPT ![p] = 0]
    /\ todo' = [todo EXCEPT ![p] = <<>>]
    /\ settled' = [settled EXCEPT ![p] = <<>>]
    /\ tally' = [tally EXCEPT ![p] = [good |-> FALSE, bad |-> FALSE]]
    /\ UNCHANGED <<queue, batches, mode, calls, accepted, ran, shipped>>

Next ==
    \/ \E p \in Procs :
         \/ Queue(p) \/ Find(p) \/ Insert(p) \/ InsertDirectly(p)
         \/ MergeRead(p) \/ MergeWrite(p)
         \/ StartBatching(p) \/ SelectReady(p) \/ CreateBatch(p)
         \/ Execute(p) \/ LoadBatch(p) \/ RunWorkflow(p) \/ RunSerial(p)
         \/ RecordOutcome(p) \/ CloseBatch(p) \/ Crash(p)
    \/ \E r \in Rows : Ripen(r)

Spec == Init /\ [][Next]_vars

\* Somebody keeps flushing, windows elapse, and every command in progress goes
\* on (external commands carry a timeout).  Used with MayCrash = FALSE.
Fairness ==
    /\ \A p \in Procs :
         /\ WF_vars(StartBatching(p))
         /\ WF_vars(Find(p) \/ Insert(p) \/ InsertDirectly(p) \/ MergeRead(p) \/ MergeWrite(p))
         /\ WF_vars(SelectReady(p) \/ CreateBatch(p) \/ LoadBatch(p) \/ RunWorkflow(p)
                      \/ RunSerial(p) \/ RecordOutcome(p) \/ CloseBatch(p))
    /\ \A r \in 1..MaxCalls : WF_vars(r \in Rows /\ Ripen(r))
FairSpec == Spec /\ Fairness

-----------------------------------------------------------------------------
(* Properties.                                                              *)

\* What a call of queue() brought is in the row whose id the call returned, or,
\* where a merge overwrites (message, remote, ref), what a later call brought
\* instead; and once that row is completed, it was in a command that ran.
ContributionsKept ==
    \A a \in accepted :
        LET x == a[1]  row == queue[a[2]] IN
        \E y \in row.payload :
            /\ y = x \/ (x[2] = "text" /\ y[2] = "text" /\ y[1] > x[1])
            /\ row.status = "completed" => y \in shipped

\* An action recorded as completed or failed is never taken up again, by a
\* second execution of its batch or by another batch (updateActionStatus).
SettledIsFinal ==
    [][\A r \in Rows : queue[r].status \in {"completed", "failed"}
                         => queue'[r].status = queue[r].status]_vars

\* The command of an action takes effect for one batch only ("queued, squashed,
\* and deduplicated into one ordered batch").
RunInOneBatch ==
    \A x, y \in ran : x[2] = y[2] => x[1] = y[1]

\* With processes that keep flushing, every queued action is run and recorded,
\* also when two flushes select the same rows and one takes them from the other.
EveryActionSettles ==
    \A r \in 1..MaxCalls :
        (r \in Rows /\ queue[r].status = "pending")
          ~> (r \in Rows /\ queue[r].status \in {"completed", "failed"})
=============================================================================
