-------------------------- MODULE DeployQueueProofs --------------------------
(***************************************************************************)
(* Theorems about DeployQueue.  Types hold for any number of processes;    *)
(* that an action runs once and is recorded once, and that a merge keeps   *)
(* what was queued, hold for one process at a time, which the code does    *)
(* not enforce.                                                            *)
(***************************************************************************)
EXTENDS DeployQueue, SequenceTheorems, WellFoundedInduction, TLAPS

Solo == \A p, q \in Procs : p = q

-----------------------------------------------------------------------------
(* The inductive invariants.                                                *)

Outcomes == {"pending", "executing", "completed", "failed"}
Statuses == {"pending", "batched", "completed", "failed"}
Kinds == {"commit", "push", "merge", "deploy", "workflow"}
Row == [kind : Kinds, target : STRING, prio : Nat, status : Statuses, batch : Nat,
        ripe : BOOLEAN, payload : SUBSET Parts]

\* A row has a batch from the moment it has left the queue.
TablesOK ==
    /\ queue \in Seq(Row) /\ batches \in Seq(Outcomes)
    /\ \A r \in Rows : /\ queue[r].batch <= Len(batches)
                       /\ queue[r].status = "pending" <=> queue[r].batch = 0

Asking(p) == stage[p] \in {"find", "insert", "read", "write"}
Merging(p) == stage[p] \in {"read", "write"}
Executing(p) == stage[p] \in {"load", "exec"}

\* What a process works on exists, and what it executes has left the queue.
WorkOK(p) ==
    /\ Asking(p) => req[p].ask \in Requests /\ req[p].call \in 1..MaxCalls
    /\ Merging(p) => hit[p] \in Rows
    /\ Executing(p) => batch[p] \in 1..Len(batches)
    /\ picked[p] \subseteq Rows
    /\ \A r \in DOMAIN todo[p] : /\ r \in Rows /\ queue[r].batch # 0
                                 /\ todo[p][r] \subseteq Parts
    /\ \A i \in 1..Len(settled[p]) : /\ settled[p][i][1] \in Rows
                                     /\ queue[settled[p][i][1]].batch # 0
ShapeOK ==
    /\ stage \in [Procs -> Stages]
    /\ mode \in [Procs -> {"queue"} \cup Commands]
    /\ DOMAIN req = Procs /\ DOMAIN todo = Procs
    /\ hit \in [Procs -> Nat] /\ batch \in [Procs -> Nat]
    /\ draft \in [Procs -> SUBSET Parts]
    /\ picked \in [Procs -> SUBSET Nat]
    /\ settled \in [Procs -> Seq(Nat \X BOOLEAN)]
    /\ tally \in [Procs -> [good : BOOLEAN, bad : BOOLEAN]]
    /\ calls \in 0..MaxCalls
    /\ accepted \subseteq Parts \X Nat /\ shipped \subseteq Parts
LocalsOK == ShapeOK /\ \A p \in Procs : WorkOK(p)

DeployTyped == TablesOK /\ LocalsOK

\* Alone at work, a process finds the rows as it left them: the one it merges
\* into and those it has picked still wait, those it executes are still those of
\* its batch, and none is executed twice.
Undisturbed(p) ==
    /\ Merging(p) => queue[hit[p]].status = "pending"
    /\ \A r \in picked[p] : queue[r].status = "pending"
    /\ picked[p] # {} => stage[p] = "picked"
    /\ \A r \in DOMAIN todo[p] : queue[r].status = "batched" /\ queue[r].batch = batch[p]
    /\ \A i \in 1..Len(settled[p]) :
         LET r == settled[p][i][1] IN
         /\ queue[r].status = "batched" /\ queue[r].batch = batch[p] /\ r \notin DOMAIN todo[p]
         /\ \A j \in 1..Len(settled[p]) : settled[p][j][1] = r => i = j
    /\ DOMAIN todo[p] # {} \/ settled[p] # <<>> => stage[p] = "exec"
RowsUndisturbed == \A p \in Procs : Undisturbed(p)

\* A command acts for the batch its row is in.
RanInItsBatch == \A x \in ran : x[2] \in Rows /\ x[1] # 0 /\ queue[x[2]].batch = x[1]

\* Payloads in the hands of a process are those of their rows.
Faithful(p) ==
    /\ stage[p] = "write" => draft[p] = Merged(queue[hit[p]].payload, p)
    /\ \A r \in DOMAIN todo[p] : todo[p][r] = queue[r].payload
    /\ \A i \in 1..Len(settled[p]) :
         settled[p][i][2] => queue[settled[p][i][1]].payload \subseteq shipped
PayloadsFaithful == \A p \in Procs : Faithful(p)
\* A text that a merge has overwritten gave way to that of a later call.
Covers(y, x) == y = x \/ (x[2] = "text" /\ y[2] = "text" /\ y[1] > x[1])
\* What a call brought is covered in its row, and what is completed has shipped.
NothingLost ==
    /\ \A a \in accepted :
         a[2] \in Rows /\ \E y \in queue[a[2]].payload : Covers(y, a[1])
    /\ \A r \in Rows : queue[r].status = "completed" => queue[r].payload \subseteq shipped

\* Alone at work, a process queues what is later than everything in the rows.
InOrder ==
    /\ \A r \in Rows : \A y \in queue[r].payload : y[1] <= calls
    /\ \A p \in Procs : Asking(p) =>
         /\ req[p].call = calls
         /\ \A r \in Rows : \A y \in queue[r].payload : y[1] < calls

-----------------------------------------------------------------------------
(* Types.                                                                   *)

\* What a call brings are parts of a payload.
LEMMA BroughtParts ==
    ASSUME NEW p \in Procs, req[p].ask \in Requests, req[p].call \in 1..MaxCalls
    PROVE  Brought(p) \in SUBSET Parts
<1>1. req[p].ask.keys \subseteq {"list", "text"}
  BY DeployAssumption
<1> QED
  BY <1>1 DEF Brought, Parts

\* What the statements change in a row.
LEMMA RowFields ==
    ASSUME NEW w \in Row
    PROVE  w.batch \in Nat /\ w.status \in Statuses /\ w.payload \subseteq Parts
  BY DEF Row
LEMMA StatusChange ==
    ASSUME NEW w \in Row, NEW s \in Statuses
    PROVE  LET v == [w EXCEPT !.status = s]
           IN  v \in Row /\ v.status = s /\ v.batch = w.batch /\ v.payload = w.payload
  BY DEF Row, Statuses
LEMMA BatchChange ==
    ASSUME NEW w \in Row, NEW b \in Nat
    PROVE  LET v == [w EXCEPT !.status = "batched", !.batch = b]
           IN  v \in Row /\ v.status = "batched" /\ v.batch = b /\ v.payload = w.payload
  BY DEF Row, Statuses
LEMMA PayloadChange ==
    ASSUME NEW w \in Row, NEW f \in SUBSET Parts
    PROVE  LET v == [w EXCEPT !.payload = f]
           IN  v \in Row /\ v.status = w.status /\ v.batch = w.batch /\ v.payload = f
  BY DEF Row, Statuses
LEMMA RipeChange ==
    ASSUME NEW w \in Row
    PROVE  LET v == [w EXCEPT !.ripe = TRUE]
           IN  v \in Row /\ v.status = w.status /\ v.batch = w.batch /\ v.payload = w.payload
  BY DEF Row, Statuses

LEMMA RowsTyped ==
    ASSUME DeployTyped
    PROVE  /\ queue \in Seq(Row) /\ Len(queue) \in Nat
           /\ batches \in Seq(Outcomes) /\ Len(batches) \in Nat
           /\ \A r \in Rows : /\ queue[r] \in Row /\ queue[r].batch \in Nat
                              /\ queue[r].batch <= Len(batches)
                              /\ queue[r].status = "pending" <=> queue[r].batch = 0
<1>1. queue \in Seq(Row) /\ batches \in Seq(Outcomes)
  BY DEF DeployTyped, TablesOK
<1>2. \A r \in Rows : queue[r] \in Row
  BY <1>1 DEF Rows
<1>3. \A r \in Rows : queue[r].batch \in Nat
  BY <1>2, RowFields
<1> QED
  BY <1>1, <1>2, <1>3 DEF DeployTyped, TablesOK

\* Rows stay, and do not come back to the queue; batches stay.
Grows ==
    /\ Len(queue) \in Nat /\ Len(queue') \in Nat /\ Rows \subseteq Rows'
    /\ \A r \in Rows : queue[r].batch # 0 => queue'[r].batch # 0
    /\ 1..Len(batches) \subseteq 1..Len(batches')

LEMMA NewRowFacts ==
    ASSUME DeployTyped, NEW p \in Procs, Asking(p)
    PROVE  /\ NewRow(p) \in Row /\ NewRow(p).batch = 0 /\ NewRow(p).status = "pending"
           /\ NewRow(p).payload = Brought(p)
<1>1. req[p].ask \in Requests /\ req[p].call \in 1..MaxCalls
  BY DEF DeployTyped, LocalsOK, WorkOK
<1>2. req[p].ask.kind \in Kinds /\ req[p].ask.target \in STRING /\ req[p].ask.prio \in Nat
  BY <1>1, DeployAssumption DEF Kinds
<1>3. Brought(p) \in SUBSET Parts
  BY <1>1, BroughtParts
<1> QED
  BY <1>2, <1>3 DEF NewRow, Row, Statuses

\* A statement that adds a row, and one that changes columns of those there are.
LEMMA AppendRow ==
    ASSUME DeployTyped, NEW w \in Row, w.batch = 0, w.status = "pending",
           queue' = Append(queue, w), batches' = batches
    PROVE  /\ TablesOK' /\ Grows
           /\ Rows' = Rows \cup {Len(queue) + 1} /\ queue'[Len(queue) + 1] = w
           /\ \A r \in Rows : queue'[r] = queue[r]
<1>1. /\ queue \in Seq(Row) /\ Len(queue) \in Nat
      /\ batches \in Seq(Outcomes) /\ Len(batches) \in Nat
      /\ \A r \in Rows : /\ queue[r].batch \in Nat /\ queue[r].batch <= Len(batches)
                         /\ queue[r].status = "pending" <=> queue[r].batch = 0
  BY RowsTyped
<1>2. /\ queue' \in Seq(Row) /\ Len(queue') = Len(queue) + 1
      /\ queue'[Len(queue) + 1] = w /\ \A r \in 1..Len(queue) : queue'[r] = queue[r]
  BY <1>1
<1>3. Rows' = Rows \cup {Len(queue) + 1}
  BY <1>1, <1>2 DEF Rows
<1>4. \A r \in Rows' : /\ queue'[r].batch <= Len(batches')
                       /\ queue'[r].status = "pending" <=> queue'[r].batch = 0
  BY <1>1, <1>2, <1>3 DEF Rows
<1>5. /\ \A r \in Rows : queue'[r] = queue[r]
      /\ queue' \in Seq(Row) /\ Len(queue') \in Nat
  BY <1>1, <1>2 DEF Rows
<1> QED
  BY <1>1, <1>2, <1>3, <1>4, <1>5 DEF TablesOK, Grows

LEMMA UpdateRows ==
    ASSUME DeployTyped, NEW ws \in [Rows -> Row], queue' = ws,
           batches' \in Seq(Outcomes), Len(batches') \in Nat, Len(batches) <= Len(batches'),
           \A r \in Rows : ws[r].batch = queue[r].batch \/ ws[r].batch \in 1..Len(batches'),
           \A r \in Rows : ws[r].status = "pending" <=> ws[r].batch = 0
    PROVE  TablesOK' /\ Grows /\ Rows' = Rows
<1>1. /\ queue \in Seq(Row) /\ Len(queue) \in Nat /\ Len(batches) \in Nat
      /\ \A r \in Rows : queue[r].batch \in Nat /\ queue[r].batch <= Len(batches)
  BY RowsTyped
<1>2. queue' \in Seq(Row) /\ Len(queue') = Len(queue)
  BY <1>1 DEF Rows
<1>3. Rows' = Rows
  BY <1>2 DEF Rows
<1>4. \A r \in Rows : /\ ws[r].batch <= Len(batches')
                      /\ queue[r].batch # 0 => ws[r].batch # 0
  BY <1>1
<1>5. 1..Len(batches) \subseteq 1..Len(batches')
  BY <1>1
<1> QED
  BY <1>1, <1>2, <1>3, <1>4, <1>5 DEF TablesOK, Grows

LEMMA UpdateOne ==
    ASSUME DeployTyped, NEW r \in Rows, NEW w \in Row, queue' = [queue EXCEPT ![r] = w],
           batches' = batches, w.batch = queue[r].batch, w.status = "pending" <=> w.batch = 0
    PROVE  /\ TablesOK' /\ Grows /\ Rows' = Rows
           /\ queue'[r] = w /\ \A q \in Rows : q # r => queue'[q] = queue[q]
<1>1. /\ queue \in [Rows -> Row] /\ batches \in Seq(Outcomes) /\ Len(batches) \in Nat
      /\ \A q \in Rows : queue[q].status = "pending" <=> queue[q].batch = 0
  <2>1. queue \in Seq(Row) /\ batches \in Seq(Outcomes) /\ Len(batches) \in Nat
        /\ \A q \in Rows : queue[q].status = "pending" <=> queue[q].batch = 0
    BY RowsTyped
  <2> QED
    BY <2>1 DEF Rows
<1>2. queue' \in [Rows -> Row]
  BY <1>1
<1>3. queue'[r] = w /\ \A q \in Rows : q # r => queue'[q] = queue[q]
  BY <1>1
<1>4. \A ws : ws = queue' =>
        /\ ws \in [Rows -> Row]
        /\ \A q \in Rows : ws[q].batch = queue[q].batch \/ ws[q].batch \in 1..Len(batches')
        /\ \A q \in Rows : ws[q].status = "pending" <=> ws[q].batch = 0
  BY <1>1, <1>2, <1>3
<1>5. batches' \in Seq(Outcomes) /\ Len(batches') \in Nat /\ Len(batches) <= Len(batches')
  BY <1>1
<1>6. TablesOK' /\ Grows /\ Rows' = Rows
  BY <1>4, <1>5, UpdateRows
<1> QED
  BY <1>3, <1>6

\* The statements, by what they do to the rows.
LEMMA WritesRow ==
    ASSUME DeployTyped, NEW p \in Procs, MergeWrite(p)
    PROVE  /\ TablesOK' /\ Grows /\ Rows' = Rows /\ hit[p] \in Rows
           /\ \A r \in Rows : /\ queue'[r].batch = queue[r].batch /\ queue'[r].status = queue[r].status
                              /\ queue'[r].payload = IF r = hit[p] THEN draft[p] ELSE queue[r].payload
<1> DEFINE w == [queue[hit[p]] EXCEPT !.payload = draft[p]]
<1>1. hit[p] \in Rows /\ draft[p] \in SUBSET Parts
  BY DEF MergeWrite, DeployTyped, LocalsOK, ShapeOK, WorkOK, Merging
<1>2. queue[hit[p]] \in Row /\ (queue[hit[p]].status = "pending" <=> queue[hit[p]].batch = 0)
  BY <1>1, RowsTyped
<1>3. /\ w \in Row /\ w.status = queue[hit[p]].status /\ w.batch = queue[hit[p]].batch
      /\ w.payload = draft[p]
  BY <1>1, <1>2, PayloadChange
<1>4. queue' = [queue EXCEPT ![hit[p]] = w] /\ batches' = batches
  BY DEF MergeWrite
<1> HIDE DEF w
<1>5. /\ TablesOK' /\ Grows /\ Rows' = Rows
      /\ queue'[hit[p]] = w /\ \A q \in Rows : q # hit[p] => queue'[q] = queue[q]
  BY <1>1, <1>2, <1>3, <1>4, UpdateOne
<1> QED
  BY <1>1, <1>3, <1>5

LEMMA RipensRow ==
    ASSUME DeployTyped, NEW r \in Rows, Ripen(r)
    PROVE  /\ TablesOK' /\ Grows /\ Rows' = Rows
           /\ \A q \in Rows : /\ queue'[q].batch = queue[q].batch /\ queue'[q].status = queue[q].status
                              /\ queue'[q].payload = queue[q].payload
<1> DEFINE w == [queue[r] EXCEPT !.ripe = TRUE]
<1>1. queue[r] \in Row /\ (queue[r].status = "pending" <=> queue[r].batch = 0)
  BY RowsTyped
<1>2. w \in Row /\ w.status = queue[r].status /\ w.batch = queue[r].batch /\ w.payload = queue[r].payload
  BY <1>1, RipeChange
<1>3. queue' = [queue EXCEPT ![r] = w] /\ batches' = batches
  BY DEF Ripen
<1> HIDE DEF w
<1>4. /\ TablesOK' /\ Grows /\ Rows' = Rows
      /\ queue'[r] = w /\ \A q \in Rows : q # r => queue'[q] = queue[q]
  BY <1>1, <1>2, <1>3, UpdateOne
<1> QED
  BY <1>2, <1>4

LEMMA RecordsRow ==
    ASSUME DeployTyped, NEW p \in Procs, RecordOutcome(p)
    PROVE  LET r == settled[p][1][1] IN
           /\ TablesOK' /\ Grows /\ Rows' = Rows /\ r \in Rows
           /\ Len(settled[p]) \in Nat \ {0} /\ settled'[p] = Tail(settled[p])
           /\ queue'[r].status = IF settled[p][1][2] THEN "completed" ELSE "failed"
           /\ \A q \in Rows : /\ queue'[q].batch = queue[q].batch /\ queue'[q].payload = queue[q].payload
                              /\ q # r => queue'[q].status = queue[q].status
<1> DEFINE r == settled[p][1][1]
           s == IF settled[p][1][2] THEN "completed" ELSE "failed"
           w == [queue[r] EXCEPT !.status = s]
<1>1. settled \in [Procs -> Seq(Nat \X BOOLEAN)] /\ settled[p] \in Seq(Nat \X BOOLEAN) /\ settled[p] # <<>>
  BY DEF RecordOutcome, DeployTyped, LocalsOK, ShapeOK
<1>2. /\ Len(settled[p]) \in Nat \ {0} /\ Head(settled[p]) = settled[p][1]
      /\ settled[p][1] \in Nat \X BOOLEAN
  BY <1>1
<1>3. r \in Rows /\ queue[r].batch # 0
  BY <1>2 DEF DeployTyped, LocalsOK, WorkOK
<1>4. queue[r] \in Row
  BY <1>3, RowsTyped
<1>5. s \in Statuses /\ s # "pending"
  BY DEF Statuses
<1>6. w \in Row /\ w.status = s /\ w.batch = queue[r].batch /\ w.payload = queue[r].payload
  BY <1>4, <1>5, StatusChange
<1>7. /\ queue' = [queue EXCEPT ![r] = w] /\ batches' = batches
      /\ settled' = [settled EXCEPT ![p] = Tail(@)]
  BY <1>2 DEF RecordOutcome
<1>8. settled'[p] = Tail(settled[p])
  BY <1>1, <1>7
<1> HIDE DEF w, r, s
<1>9. /\ TablesOK' /\ Grows /\ Rows' = Rows
      /\ queue'[r] = w /\ \A q \in Rows : q # r => queue'[q] = queue[q]
  BY <1>3, <1>5, <1>6, <1>7, UpdateOne
<1> QED
  BY <1>2, <1>3, <1>6, <1>8, <1>9 DEF r, s

LEMMA BatchesRows ==
    ASSUME DeployTyped, NEW p \in Procs, CreateBatch(p)
    PROVE  LET b == Len(batches) + 1 IN
           /\ TablesOK' /\ Grows /\ Rows' = Rows /\ picked[p] \subseteq Rows
           /\ Len(batches) \in Nat /\ Len(batches') = b
           /\ \A r \in Rows : /\ queue'[r].payload = queue[r].payload
                              /\ r \in picked[p] => queue'[r].status = "batched" /\ queue'[r].batch = b
                              /\ r \notin picked[p] => queue'[r] = queue[r]
<1> DEFINE b == Len(batches) + 1
           new(r) == [queue[r] EXCEPT !.status = "batched", !.batch = b]
           ws == [r \in Rows |-> IF r \in picked[p] THEN new(r) ELSE queue[r]]
<1>1. /\ Len(batches) \in Nat /\ batches \in Seq(Outcomes)
      /\ \A r \in Rows : queue[r] \in Row /\ (queue[r].status = "pending" <=> queue[r].batch = 0)
  BY RowsTyped
<1>2. b \in Nat /\ b # 0 /\ "batched" \in Statuses
  BY <1>1 DEF Statuses
<1>3. \A r \in Rows : /\ new(r) \in Row /\ new(r).status = "batched" /\ new(r).batch = b
                      /\ new(r).payload = queue[r].payload
  BY <1>1, <1>2, BatchChange
<1>4. queue' = ws /\ batches' = Append(batches, "pending")
  BY DEF CreateBatch
<1>5. picked[p] \subseteq Rows
  BY DEF DeployTyped, LocalsOK, WorkOK
<1>6. batches' \in Seq(Outcomes) /\ Len(batches') = b /\ Len(batches) <= b /\ b \in 1..b
  <2>1. "pending" \in Outcomes
    BY DEF Outcomes
  <2>2. batches' \in Seq(Outcomes) /\ Len(batches') = Len(batches) + 1
    BY <1>1, <1>4, <2>1, AppendProperties
  <2> QED
    BY <1>1, <2>2
<1> HIDE DEF new
<1>7. /\ ws \in [Rows -> Row]
      /\ \A r \in Rows : ws[r] = IF r \in picked[p] THEN new(r) ELSE queue[r]
  BY <1>1, <1>3
<1> HIDE DEF ws, b
<1>8. /\ \A r \in Rows : ws[r].batch = queue[r].batch \/ ws[r].batch \in 1..b
      /\ \A r \in Rows : ws[r].status = "pending" <=> ws[r].batch = 0
  BY <1>1, <1>2, <1>3, <1>6, <1>7
<1>9. TablesOK' /\ Grows /\ Rows' = Rows
  BY <1>2, <1>4, <1>6, <1>7, <1>8, UpdateRows
<1> QED
  BY <1>1, <1>3, <1>4, <1>5, <1>6, <1>7, <1>9 DEF b

\* The steps that touch neither table, and those that only touch the batches.
Quiet(p) == \/ Queue(p) \/ Find(p) \/ MergeRead(p) \/ StartBatching(p) \/ SelectReady(p)
            \/ Execute(p) \/ RunWorkflow(p) \/ RunSerial(p) \/ Crash(p)

LEMMA QuietRows ==
    ASSUME NEW p \in Procs, Quiet(p)
    PROVE  UNCHANGED <<queue, batches>>
  BY DEF Quiet, Queue, Find, MergeRead, StartBatching, SelectReady, Execute, RunWorkflow, RunSerial,
         Command, Crash

LEMMA MarksBatch ==
    ASSUME DeployTyped, NEW p \in Procs, LoadBatch(p) \/ CloseBatch(p)
    PROVE  queue' = queue /\ TablesOK' /\ Grows /\ Len(batches') = Len(batches)
<1>0. /\ queue \in Seq(Row) /\ Len(queue) \in Nat
      /\ batches \in Seq(Outcomes) /\ Len(batches) \in Nat
      /\ \A r \in Rows : /\ queue[r].batch <= Len(batches)
                         /\ queue[r].status = "pending" <=> queue[r].batch = 0
  BY RowsTyped
<1>1. /\ queue' = queue
      /\ \E s \in Outcomes : batches' = [batches EXCEPT ![batch[p]] = s]
  BY DEF LoadBatch, CloseBatch, Outcomes
<1>2. batches' \in Seq(Outcomes) /\ Len(batches') = Len(batches)
  <2>1. PICK s \in Outcomes : batches' = [batches EXCEPT ![batch[p]] = s]
    BY <1>1
  <2>2. batch[p] \in 1..Len(batches)
    BY DEF LoadBatch, CloseBatch, DeployTyped, LocalsOK, WorkOK, Executing
  <2> QED
    BY <1>0, <2>1, <2>2, ExceptSeq
<1> QED
  BY <1>0, <1>1, <1>2 DEF TablesOK, Grows, Rows

LEMMA TablesStep ==
    ASSUME DeployTyped, [Next]_vars
    PROVE  TablesOK' /\ Grows
<1>1. CASE UNCHANGED <<queue, batches>>
  <2>1. /\ queue \in Seq(Row) /\ Len(queue) \in Nat
        /\ batches \in Seq(Outcomes) /\ Len(batches) \in Nat
    BY RowsTyped
  <2> QED
    BY <1>1, <2>1 DEF DeployTyped, TablesOK, Grows, Rows
<1>2. ASSUME NEW p \in Procs, Insert(p) \/ InsertDirectly(p) PROVE TablesOK' /\ Grows
  <2>1. Asking(p) /\ queue' = Append(queue, NewRow(p)) /\ batches' = batches
    BY <1>2 DEF Insert, InsertDirectly, Asking
  <2> QED
    BY <2>1, NewRowFacts, AppendRow
<1>3. ASSUME NEW p \in Procs, MergeWrite(p) PROVE TablesOK' /\ Grows
  BY <1>3, WritesRow
<1>4. ASSUME NEW p \in Procs, CreateBatch(p) PROVE TablesOK' /\ Grows
  BY <1>4, BatchesRows
<1>5. ASSUME NEW p \in Procs, LoadBatch(p) \/ CloseBatch(p) PROVE TablesOK' /\ Grows
  BY <1>5, MarksBatch
<1>6. ASSUME NEW p \in Procs, RecordOutcome(p) PROVE TablesOK' /\ Grows
  BY <1>6, RecordsRow
<1>7. ASSUME NEW r \in Rows, Ripen(r) PROVE TablesOK' /\ Grows
  BY <1>7, RipensRow
<1>8. ASSUME NEW p \in Procs, Quiet(p) PROVE UNCHANGED <<queue, batches>>
  BY <1>8, QuietRows
<1> QED
  BY <1>1, <1>2, <1>3, <1>4, <1>5, <1>6, <1>7, <1>8 DEF Next, vars, Quiet

\* What a process does not touch of its own stays good.
LEMMA WorkStays ==
    ASSUME DeployTyped, Grows, NEW p \in Procs,
           stage'[p] = stage[p], req'[p] = req[p], hit'[p] = hit[p], batch'[p] = batch[p],
           picked'[p] = picked[p], todo'[p] = todo[p], settled'[p] = settled[p]
    PROVE  WorkOK(p)'
<1>1. WorkOK(p)
  BY DEF DeployTyped, LocalsOK
<1> QED
  BY <1>1 DEF WorkOK, Asking, Merging, Executing, Grows

\* A bounded set of numbers has a greatest one.
LEMMA GreatestExists ==
    ASSUME NEW n \in Nat, NEW S \in SUBSET (1..n), S # {}
    PROVE  \E r \in S : \A q \in S : q <= r
<1> DEFINE Gaps == {m \in Nat : \E x \in S : m = n - x}
<1>0. \A x \in S : x \in Nat /\ n - x \in Nat
  OBVIOUS
<1>1. Gaps \subseteq Nat /\ Gaps # {}
  BY <1>0
<1>2. IsWellFoundedOn(OpToRel(<, Nat), Nat)
  BY NatLessThanWellFounded
<1>3. \E g \in Gaps : \A h \in Gaps : ~(<<h, g>> \in OpToRel(<, Nat))
  <2> HIDE DEF Gaps
  <2> QED BY <1>1, <1>2, WFMin
<1>4. PICK g \in Gaps : \A h \in Gaps : ~(<<h, g>> \in OpToRel(<, Nat))
  BY <1>3
<1>5. \A h \in Gaps : ~(h < g)
  <2> HIDE DEF Gaps
  <2> QED BY <1>1, <1>4 DEF OpToRel
<1>6. PICK r \in S : g = n - r
  OBVIOUS
<1>7. \A q \in S : q <= r
  <2> TAKE q \in S
  <2>1. n - q \in Gaps
    BY <1>0
  <2>2. ~(n - q < n - r)
    BY <1>5, <1>6, <2>1
  <2> QED
    BY <1>0, <2>2
<1> QED
  BY <1>7

LEMMA FoundIsRow ==
    ASSUME DeployTyped, NEW ask, Similar(ask) # {}
    PROVE  Newest(Similar(ask)) \in Similar(ask)
<1>1. Len(queue) \in Nat /\ Similar(ask) \in SUBSET (1..Len(queue))
  BY RowsTyped DEF Similar, Rows
<1>2. \E r \in Similar(ask) : \A q \in Similar(ask) : q <= r
  BY <1>1, GreatestExists
<1> QED
  BY <1>2 DEF Newest

LEMMA LocalsStep ==
    ASSUME DeployTyped, [Next]_vars
    PROVE  LocalsOK'
<1>0. Grows
  BY TablesStep
<1>a. ShapeOK
  BY DEF DeployTyped, LocalsOK
<1>b. DeployTyped
  OBVIOUS
<1> DEFINE Mine(p) == \A q \in Procs \ {p} :
             /\ stage'[q] = stage[q] /\ req'[q] = req[q] /\ hit'[q] = hit[q] /\ batch'[q] = batch[q]
             /\ picked'[q] = picked[q] /\ todo'[q] = todo[q] /\ settled'[q] = settled[q]
<1>c. ASSUME NEW p \in Procs, ShapeOK', Mine(p), WorkOK(p)' PROVE LocalsOK'
  <2>1. ASSUME NEW q \in Procs, q # p PROVE WorkOK(q)'
    BY <1>0, <1>b, <1>c, <2>1, WorkStays
  <2> QED
    BY <1>c, <2>1 DEF LocalsOK
<1>d. \A p \in Procs : WorkOK(p)
  BY DEF DeployTyped, LocalsOK
<1> HIDE <1>b
<1>1. CASE UNCHANGED <<stage, mode, queueing, executing, picked>>
  <2>1. ShapeOK'
    BY <1>a, <1>1 DEF ShapeOK, queueing, executing
  <2>2. \A p \in Procs : WorkOK(p)'
    BY <1>0, <1>1, WorkStays DEF queueing, executing
  <2> QED
    BY <2>1, <2>2 DEF LocalsOK
<1>2. ASSUME NEW p \in Procs, Queue(p) PROVE LocalsOK'
  <2>0. UNCHANGED <<queue, batches, hit, draft, accepted, executing, picked>>
    BY <1>2 DEF Queue
  <2>1. ShapeOK' /\ Mine(p)
    BY <1>a, <1>2, DeployAssumption DEF Queue, ShapeOK, executing, Stages
  <2>2. PICK r \in Requests : req' = [req EXCEPT ![p] = [ask |-> r, call |-> calls + 1]]
    BY <1>2 DEF Queue
  <2>3. /\ req'[p].ask = r /\ req'[p].call = calls + 1 /\ calls + 1 \in 1..MaxCalls
        /\ stage'[p] = "find"
    BY <1>a, <1>2, <2>2, DeployAssumption DEF Queue, ShapeOK
  <2>4. WorkOK(p)'
    BY <1>d, <2>0, <2>3 DEF WorkOK, Asking, Merging, Executing, executing, Rows
  <2> QED
    BY <1>c, <2>1, <2>4
<1>e. ASSUME NEW p \in Procs, NEW r \in Nat, Asking(p), Returns(p, r),
             UNCHANGED <<mode, calls, executing, picked>>
      PROVE  LocalsOK'
  <2>1. Brought(p) \in SUBSET Parts
    BY <1>d, <1>e, BroughtParts DEF WorkOK
  <2>2. accepted' \subseteq Parts \X Nat
    BY <1>a, <1>e, <2>1 DEF ShapeOK, Returns
  <2>3. ShapeOK' /\ Mine(p)
    BY <1>a, <1>e, <2>2 DEF ShapeOK, Returns, executing, Stages
  <2>4. stage'[p] = "idle"
    BY <1>a, <1>e DEF ShapeOK, Returns
  <2>5. WorkOK(p)'
    BY <1>0, <1>d, <1>e, <2>4 DEF WorkOK, Asking, Merging, Executing, executing, Grows
  <2> QED
    BY <1>c, <2>3, <2>5
<1>3. ASSUME NEW p \in Procs, Find(p) PROVE LocalsOK'
  <2>0. /\ UNCHANGED <<queue, batches, mode, calls, executing, picked>> /\ stage[p] = "find"
    BY <1>3 DEF Find
  <2>1. stage \in [Procs -> Stages] /\ hit \in [Procs -> Nat] /\ Rows \subseteq Nat
    BY <1>a DEF ShapeOK, Rows
  <2>2. CASE /\ Similar(req[p].ask) # {} /\ UNCHANGED <<req, draft, accepted>>
             /\ hit' = [hit EXCEPT ![p] = Newest(Similar(req[p].ask))]
             /\ stage' = [stage EXCEPT ![p] = "read"]
    <3>1. Newest(Similar(req[p].ask)) \in Rows
      BY <2>2, <1>b, FoundIsRow DEF Similar
    <3>2. hit' \in [Procs -> Nat] /\ hit'[p] \in Rows /\ \A q \in Procs \ {p} : hit'[q] = hit[q]
      BY <2>1, <2>2, <3>1
    <3>3. stage' \in [Procs -> Stages] /\ stage'[p] = "read" /\ \A q \in Procs \ {p} : stage'[q] = stage[q]
      BY <2>1, <2>2 DEF Stages
    <3>4. ShapeOK' /\ Mine(p)
      BY <1>a, <2>0, <2>2, <3>2, <3>3 DEF ShapeOK, executing
    <3>5. WorkOK(p)'
      BY <1>d, <2>0, <2>2, <3>2, <3>3 DEF WorkOK, Asking, Merging, Executing, executing, Rows
    <3> QED
      BY <1>c, <3>4, <3>5
  <2>3. CASE Similar(req[p].ask) # {} /\ Returns(p, Newest(Similar(req[p].ask)))
    <3>1. Newest(Similar(req[p].ask)) \in Rows
      BY <2>3, <1>b, FoundIsRow DEF Similar
    <3> QED
      BY <1>e, <2>0, <2>1, <2>3, <3>1 DEF Asking
  <2>4. CASE stage' = [stage EXCEPT ![p] = "insert"] /\ UNCHANGED <<req, hit, draft, accepted>>
    <3>1. stage' \in [Procs -> Stages] /\ stage'[p] = "insert" /\ \A q \in Procs \ {p} : stage'[q] = stage[q]
      BY <2>1, <2>4 DEF Stages
    <3>2. ShapeOK' /\ Mine(p)
      BY <1>a, <2>0, <2>4, <3>1 DEF ShapeOK, executing
    <3>3. WorkOK(p)'
      BY <1>d, <2>0, <2>4, <3>1 DEF WorkOK, Asking, Merging, Executing, executing, Rows
    <3> QED
      BY <1>c, <3>2, <3>3
  <2> QED
    BY <1>3, <2>2, <2>3, <2>4 DEF Find
<1>4. ASSUME NEW p \in Procs, Insert(p) \/ InsertDirectly(p) \/ MergeWrite(p) PROVE LocalsOK'
  <2>1. /\ UNCHANGED <<mode, calls, executing, picked>> /\ Asking(p)
        /\ \E r \in {hit[p], Len(queue) + 1} : Returns(p, r)
    BY <1>4 DEF Insert, InsertDirectly, MergeWrite, Asking
  <2>2. hit[p] \in Nat /\ Len(queue) + 1 \in Nat
    BY <1>a, <1>b, RowsTyped DEF ShapeOK
  <2> QED
    BY <1>e, <2>1, <2>2
<1>5. ASSUME NEW p \in Procs, MergeRead(p) PROVE LocalsOK'
  <2>0. /\ UNCHANGED <<queue, batches, mode, req, hit, calls, accepted, executing, picked>>
        /\ stage[p] = "read"
    BY <1>5 DEF MergeRead
  <2>1. hit[p] \in Rows /\ req[p].call \in 1..MaxCalls
    BY <1>d, <2>0 DEF WorkOK, Asking, Merging
  <2>2. Merged(queue[hit[p]].payload, p) \in SUBSET Parts
    <3>1. queue[hit[p]].payload \subseteq Parts
      BY <1>b, <2>1, RowsTyped, RowFields
    <3>2. Brought(p) \in SUBSET Parts
      BY <1>d, <2>0, BroughtParts DEF WorkOK, Asking
    <3> QED
      BY <3>1, <3>2 DEF Merged
  <2>3. ShapeOK' /\ Mine(p) /\ stage'[p] = "write"
    BY <1>a, <1>5, <2>0, <2>2 DEF ShapeOK, MergeRead, executing, Stages
  <2>4. WorkOK(p)'
    BY <1>d, <2>0, <2>3 DEF WorkOK, Asking, Merging, Executing, executing, Rows
  <2> QED
    BY <1>c, <2>3, <2>4
<1>6. ASSUME NEW p \in Procs, StartBatching(p) PROVE LocalsOK'
  <2>0. UNCHANGED <<queue, batches, picked, executing, queueing>>
    BY <1>6 DEF StartBatching
  <2>1. ShapeOK' /\ Mine(p) /\ stage'[p] = "select"
    BY <1>a, <1>6, <2>0 DEF ShapeOK, StartBatching, executing, queueing, Stages
  <2>2. WorkOK(p)'
    BY <1>d, <2>0, <2>1 DEF WorkOK, Asking, Merging, Executing, executing, queueing, Rows
  <2> QED
    BY <1>c, <2>1, <2>2
<1>7. ASSUME NEW p \in Procs, SelectReady(p) PROVE LocalsOK'
  <2>0. UNCHANGED <<queue, batches, mode, executing, queueing>>
    BY <1>7 DEF SelectReady
  <2>1. /\ FirstOf(Ready, MaxBatch) \subseteq Rows /\ Rows \subseteq Nat
        /\ picked' = [picked EXCEPT ![p] = FirstOf(Ready, MaxBatch)]
        /\ \E s \in {"idle", "picked"} : stage' = [stage EXCEPT ![p] = s]
    <3>1. FirstOf(Ready, MaxBatch) \subseteq Rows /\ Rows \subseteq Nat
      BY DEF FirstOf, Ready, Pending, Rows
    <3>2. \E s \in {"idle", "picked"} : stage' = [stage EXCEPT ![p] = s]
      BY <1>7, Zenon DEF SelectReady
    <3> QED
      BY <1>7, <3>1, <3>2 DEF SelectReady
  <2>2. ShapeOK' /\ Mine(p) /\ stage'[p] \in {"idle", "picked"} /\ picked'[p] \subseteq Rows
    BY <1>a, <2>0, <2>1 DEF ShapeOK, executing, queueing, Stages
  <2>3. WorkOK(p)'
    BY <1>d, <2>0, <2>2 DEF WorkOK, Asking, Merging, Executing, executing, queueing, Rows
  <2> QED
    BY <1>c, <2>2, <2>3
<1>8. ASSUME NEW p \in Procs, CreateBatch(p) PROVE LocalsOK'
  <2> DEFINE b == Len(batches) + 1
  <2>0. UNCHANGED <<mode, todo, settled, tally, ran, shipped, queueing>>
    BY <1>8 DEF CreateBatch
  <2>1. Len(batches) \in Nat /\ Len(batches') = b
    BY <1>b, <1>8, BatchesRows
  <2>2. /\ \/ /\ batch' = [batch EXCEPT ![p] = b] /\ stage' = [stage EXCEPT ![p] = "load"]
           \/ /\ batch' = [batch EXCEPT ![p] = 0] /\ stage' = [stage EXCEPT ![p] = "idle"]
        /\ picked' = [picked EXCEPT ![p] = {}]
    BY <1>8 DEF CreateBatch
  <2>3. /\ ShapeOK' /\ Mine(p) /\ picked'[p] = {}
        /\ \/ stage'[p] = "load" /\ batch'[p] = b
           \/ stage'[p] = "idle"
    <3>1. b \in Nat
      BY <2>1
    <3>2. stage' \in [Procs -> Stages] /\ batch' \in [Procs -> Nat]
      <4>1. stage \in [Procs -> Stages] /\ batch \in [Procs -> Nat]
        BY <1>a DEF ShapeOK
      <4>2. stage' = [stage EXCEPT ![p] = "load"] \/ stage' = [stage EXCEPT ![p] = "idle"]
        BY <2>2
      <4>3. batch' = [batch EXCEPT ![p] = b] \/ batch' = [batch EXCEPT ![p] = 0]
        BY <2>2
      <4>4. "load" \in Stages /\ "idle" \in Stages
        BY DEF Stages
      <4> HIDE DEF b
      <4> QED
        BY <3>1, <4>1, <4>2, <4>3, <4>4
    <3>3. /\ picked' \in [Procs -> SUBSET Nat]
          /\ \A q \in Procs \ {p} : /\ stage'[q] = stage[q] /\ batch'[q] = batch[q]
                                    /\ picked'[q] = picked[q]
      BY <1>a, <2>2 DEF ShapeOK
    <3>4. /\ picked'[p] = {}
          /\ \/ stage'[p] = "load" /\ batch'[p] = b
             \/ stage'[p] = "idle"
      BY <1>a, <2>2 DEF ShapeOK
    <3>5. ShapeOK'
      BY <1>a, <2>0, <3>2, <3>3 DEF ShapeOK, queueing
    <3>6. Mine(p)
      BY <2>0, <3>3 DEF queueing
    <3> QED
      BY <3>4, <3>5, <3>6
  <2>4. batch'[p] = b => batch'[p] \in 1..Len(batches')
    BY <2>1
  <2> HIDE DEF b
  <2>5. WorkOK(p)'
    BY <1>0, <1>d, <2>0, <2>3, <2>4 DEF WorkOK, Asking, Merging, Executing, queueing, Grows
  <2> QED
    BY <1>c, <2>3, <2>5
<1>9. ASSUME NEW p \in Procs, Execute(p) PROVE LocalsOK'
  <2>0. UNCHANGED <<queue, batches, todo, settled, tally, ran, shipped, queueing, picked>>
    BY <1>9 DEF Execute
  <2>1. PICK b \in 1..Len(batches) : batch' = [batch EXCEPT ![p] = b]
    BY <1>9 DEF Execute
  <2>2. /\ ShapeOK' /\ Mine(p) /\ stage'[p] = "load" /\ batch'[p] = b
    BY <1>a, <1>9, <2>0, <2>1, DeployAssumption DEF ShapeOK, Execute, queueing, Stages
  <2>3. WorkOK(p)'
    BY <1>0, <1>d, <2>0, <2>1, <2>2 DEF WorkOK, Asking, Merging, Executing, queueing, Grows
  <2> QED
    BY <1>c, <2>2, <2>3
<1>10. ASSUME NEW p \in Procs, LoadBatch(p) PROVE LocalsOK'
  <2> DEFINE mine == {x \in Rows : queue[x].batch = batch[p] /\ queue[x].status = "batched"}
             load == [r \in mine |-> queue[r].payload]
  <2>0. /\ UNCHANGED <<queue, mode, batch, settled, ran, shipped, queueing, picked>>
        /\ stage[p] = "load" /\ todo' = [todo EXCEPT ![p] = load]
    BY <1>10 DEF LoadBatch
  <2>1. ShapeOK' /\ Mine(p) /\ stage'[p] = "exec" /\ todo'[p] = load
    BY <1>a, <1>10, <2>0 DEF ShapeOK, LoadBatch, queueing, Stages
  <2>2. \A r \in DOMAIN load : /\ r \in Rows /\ queue[r].batch # 0
                               /\ load[r] \subseteq Parts
    <3>1. /\ \A r \in Rows : queue[r] \in Row /\ (queue[r].status = "pending" <=> queue[r].batch = 0)
      BY <1>b, RowsTyped
    <3>2. \A r \in Rows : queue[r].payload \subseteq Parts
      BY <3>1, RowFields
    <3> QED
      BY <3>1, <3>2
  <2> HIDE DEF load
  <2>3. WorkOK(p)'
    BY <1>0, <1>d, <2>0, <2>1, <2>2 DEF WorkOK, Asking, Merging, Executing, queueing, Grows
  <2> QED
    BY <1>c, <2>1, <2>3
<1>11. ASSUME NEW p \in Procs, RunWorkflow(p) \/ RunSerial(p) PROVE LocalsOK'
  <2>1. PICK r \in DOMAIN todo[p] : Command(p, r)
    BY <1>11 DEF RunWorkflow, RunSerial, Workflows, FirstOf
  <2>2. stage[p] = "exec"
    BY <1>11 DEF RunWorkflow, RunSerial
  <2>3. UNCHANGED <<queue, batches, stage, mode, batch, tally, queueing, picked>>
    BY <2>1 DEF Command
  <2>4. PICK ok \in BOOLEAN : settled' = [settled EXCEPT ![p] = Append(@, <<r, ok>>)]
    BY <2>1 DEF Command
  <2>5. shipped' = shipped \/ shipped' = shipped \cup todo[p][r]
    BY <2>1 DEF Command
  <2>6. r \in Rows /\ r \in Nat /\ queue[r].batch # 0 /\ todo[p][r] \subseteq Parts
    BY <1>d DEF WorkOK, Rows
  <2>7. /\ DOMAIN todo' = Procs /\ \A q \in Procs \ {p} : todo'[q] = todo[q]
        /\ DOMAIN todo'[p] \subseteq DOMAIN todo[p]
        /\ \A x \in DOMAIN todo'[p] : todo'[p][x] = todo[p][x]
    BY <1>a, <2>1 DEF Command, ShapeOK
  <2>8. /\ settled \in [Procs -> Seq(Nat \X BOOLEAN)]
        /\ <<r, ok>> \in Nat \X BOOLEAN
    BY <1>a, <2>6 DEF ShapeOK
  <2>9. /\ settled'[p] = Append(settled[p], <<r, ok>>) /\ settled[p] \in Seq(Nat \X BOOLEAN)
        /\ \A q \in Procs \ {p} : settled'[q] = settled[q]
    BY <2>4, <2>8
  <2>10. /\ settled'[p] \in Seq(Nat \X BOOLEAN)
         /\ Len(settled'[p]) = Len(settled[p]) + 1 /\ Len(settled[p]) \in Nat
         /\ settled'[p][Len(settled[p]) + 1] = <<r, ok>>
         /\ \A i \in 1..Len(settled[p]) : settled'[p][i] = settled[p][i]
    BY <2>8, <2>9, AppendProperties
  <2>11. settled' \in [Procs -> Seq(Nat \X BOOLEAN)]
    BY <2>4, <2>8, <2>9, <2>10
  <2>12. ShapeOK' /\ Mine(p)
    BY <1>a, <2>3, <2>5, <2>6, <2>7, <2>9, <2>11 DEF ShapeOK, queueing
  <2>13. \A i \in 1..Len(settled'[p]) : /\ settled'[p][i][1] \in Rows
                                        /\ queue[settled'[p][i][1]].batch # 0
    <3> TAKE i \in 1..Len(settled'[p])
    <3>1. CASE i \in 1..Len(settled[p])
      BY <1>d, <2>10, <3>1 DEF WorkOK
    <3>2. CASE i = Len(settled[p]) + 1
      BY <2>6, <2>10, <3>2
    <3> QED
      BY <2>10, <3>1, <3>2
  <2>14. WorkOK(p)'
    BY <1>d, <2>2, <2>3, <2>7, <2>13 DEF WorkOK, Asking, Merging, Executing, queueing, Rows
  <2> QED
    BY <1>c, <2>12, <2>14
<1>12. ASSUME NEW p \in Procs, RecordOutcome(p) PROVE LocalsOK'
  <2>0. /\ UNCHANGED <<batches, stage, mode, batch, todo, ran, shipped, queueing, picked>>
        /\ settled[p] # <<>>
        /\ settled' = [settled EXCEPT ![p] = Tail(@)]
    BY <1>12 DEF RecordOutcome
  <2>1. settled \in [Procs -> Seq(Nat \X BOOLEAN)] /\ settled[p] \in Seq(Nat \X BOOLEAN)
    BY <1>a DEF ShapeOK
  <2>2. settled'[p] = Tail(settled[p]) /\ \A q \in Procs \ {p} : settled'[q] = settled[q]
    BY <2>0, <2>1
  <2>3. /\ settled'[p] \in Seq(Nat \X BOOLEAN) /\ Len(settled[p]) \in Nat
        /\ Len(settled'[p]) = Len(settled[p]) - 1
        /\ \A i \in 1..Len(settled'[p]) : settled'[p][i] = settled[p][i + 1]
    BY <2>0, <2>1, <2>2, HeadTailProperties
  <2>4. settled' \in [Procs -> Seq(Nat \X BOOLEAN)]
    BY <2>0, <2>1, <2>2, <2>3
  <2>5. tally' \in [Procs -> [good : BOOLEAN, bad : BOOLEAN]]
    <3>1. settled[p][1][2] \in BOOLEAN /\ Head(settled[p]) = settled[p][1]
      BY <2>0, <2>1, LenProperties
    <3> QED
      BY <1>12, <1>a, <3>1 DEF RecordOutcome, ShapeOK
  <2>6. ShapeOK' /\ Mine(p)
    BY <1>a, <2>0, <2>2, <2>4, <2>5 DEF ShapeOK, queueing
  <2>7. \A i \in 1..Len(settled'[p]) : /\ settled'[p][i][1] \in Rows
                                       /\ queue[settled'[p][i][1]].batch # 0
    <3> TAKE i \in 1..Len(settled'[p])
    <3>1. i + 1 \in 1..Len(settled[p]) /\ settled'[p][i] = settled[p][i + 1]
      BY <2>3
    <3> QED
      BY <1>d, <3>1 DEF WorkOK
  <2>8. WorkOK(p)'
    BY <1>0, <1>d, <2>0, <2>7 DEF WorkOK, Asking, Merging, Executing, queueing, Grows
  <2> QED
    BY <1>c, <2>6, <2>8
<1>13. ASSUME NEW p \in Procs, CloseBatch(p) PROVE LocalsOK'
  <2>0. /\ UNCHANGED <<queue, mode, settled, ran, shipped, queueing, picked>>
        /\ \E s \in {"select", "idle"} : stage' = [stage EXCEPT ![p] = s]
        /\ todo' = [todo EXCEPT ![p] = <<>>]
    BY <1>13 DEF CloseBatch
  <2>1. ShapeOK' /\ Mine(p) /\ stage'[p] \in {"select", "idle"} /\ todo'[p] = <<>>
    BY <1>a, <1>13, <2>0 DEF ShapeOK, CloseBatch, queueing, Stages
  <2>2. WorkOK(p)'
    BY <1>0, <1>d, <2>0, <2>1 DEF WorkOK, Asking, Merging, Executing, queueing, Grows
  <2> QED
    BY <1>c, <2>1, <2>2
<1>14. ASSUME NEW p \in Procs, Crash(p) PROVE LocalsOK'
  <2>0. UNCHANGED <<queue, batches, mode, calls, accepted, ran, shipped>>
    BY <1>14 DEF Crash
  <2>1. /\ ShapeOK' /\ Mine(p) /\ stage'[p] = "idle" /\ todo'[p] = <<>> /\ picked'[p] = {}
        /\ settled'[p] = <<>>
    BY <1>a, <1>14, <2>0 DEF ShapeOK, Crash, Stages
  <2>2. WorkOK(p)'
    BY <2>0, <2>1 DEF WorkOK, Asking, Merging, Executing
  <2> QED
    BY <1>c, <2>1, <2>2
<1>15. ASSUME NEW r \in Rows, Ripen(r) PROVE LocalsOK'
  BY <1>1, <1>15 DEF Ripen
<1> QED
  BY <1>1, <1>2, <1>3, <1>4, <1>5, <1>6, <1>7, <1>8, <1>9, <1>10, <1>11, <1>12, <1>13, <1>14, <1>15
     DEF Next, vars, queueing, executing

\* The columns of deploy_queue and deploy_batches, and what each process holds,
\* stay what they are typed to be, for any number of processes and any order of
\* their statements; a row is pending exactly while no batch has it.
THEOREM DeployTypeCorrect == Spec => []TypeOK
<1>1. Init => DeployTyped
  <2> SUFFICES ASSUME Init PROVE DeployTyped
    OBVIOUS
  <2>1. TablesOK
    BY DEF Init, TablesOK, Rows
  <2>2. ShapeOK
    BY DeployAssumption DEF Init, ShapeOK, Stages
  <2>3. ASSUME NEW p \in Procs PROVE WorkOK(p)
    BY DEF Init, WorkOK, Asking, Merging, Executing
  <2> QED
    BY <2>1, <2>2, <2>3 DEF DeployTyped, LocalsOK
<1>2. DeployTyped /\ [Next]_vars => DeployTyped'
  BY TablesStep, LocalsStep DEF DeployTyped
<1>3. DeployTyped => TypeOK
  <2> SUFFICES ASSUME DeployTyped PROVE TypeOK
    OBVIOUS
  <2>1. /\ \A r \in Rows : /\ queue[r] \in Row /\ queue[r].batch \in Nat
                           /\ queue[r].batch <= Len(batches)
                           /\ queue[r].status = "pending" <=> queue[r].batch = 0
        /\ batches \in Seq(Outcomes) /\ Len(batches) \in Nat
    BY RowsTyped
  <2>2. \A r \in Rows : queue[r].status \in Statuses /\ queue[r].payload \subseteq Parts
    BY <2>1, RowFields
  <2>3. ShapeOK /\ \A p \in Procs : WorkOK(p)
    BY DEF DeployTyped, LocalsOK
  <2>4. \A b \in 1..Len(batches) : batches[b] \in Outcomes
    BY <2>1
  <2>5. \A p \in Procs : picked[p] \subseteq Rows /\ DOMAIN todo[p] \subseteq Rows
    BY <2>3 DEF WorkOK
  <2>6. \A r \in Rows : queue[r].batch \in 0..Len(batches)
    BY <2>1
  <2> QED
    BY <2>1, <2>2, <2>3, <2>4, <2>5, <2>6 DEF TypeOK, ShapeOK, Statuses, Outcomes
<1> QED
  BY <1>1, <1>2, <1>3, PTL DEF Spec

-----------------------------------------------------------------------------
(* One process at a time.                                                   *)

\* What a step of the only process does to what it holds.
LEMMA UndisturbedStep ==
    ASSUME DeployTyped, RowsUndisturbed, Solo, [Next]_vars
    PROVE  RowsUndisturbed'
<1>a. ShapeOK /\ \A p \in Procs : WorkOK(p)
  BY DEF DeployTyped, LocalsOK
<1>b. \A p \in Procs : Undisturbed(p)
  BY DEF RowsUndisturbed
<1>c. ASSUME NEW p \in Procs, Undisturbed(p)' PROVE RowsUndisturbed'
  BY <1>c DEF RowsUndisturbed, Solo
<1>d. /\ \A r \in Rows : queue[r] \in Row /\ queue[r].batch \in Nat
      /\ Len(queue) \in Nat
  BY RowsTyped
<1>i. ASSUME NEW p \in Procs,
             ~Merging(p)', picked'[p] = {}, DOMAIN todo'[p] = {}, settled'[p] = <<>>
      PROVE  RowsUndisturbed'
  <2>1. Len(settled'[p]) = 0
    BY <1>i
  <2>2. Undisturbed(p)'
    BY <1>i, <2>1 DEF Undisturbed
  <2> QED
    BY <1>c, <2>2
<1>j. ASSUME NEW p \in Procs, stage[p] \notin {"picked", "exec"}
      PROVE  picked[p] = {} /\ DOMAIN todo[p] = {} /\ settled[p] = <<>>
  BY <1>b, <1>j DEF Undisturbed
<1>1. CASE UNCHANGED vars
  BY <1>1 DEF RowsUndisturbed, Undisturbed, Merging, vars
<1>2. ASSUME NEW p \in Procs, Queue(p) \/ StartBatching(p) \/ Execute(p) PROVE RowsUndisturbed'
  <2>1. /\ UNCHANGED <<todo, settled, picked>> /\ stage[p] = "idle"
        /\ \E s \in {"find", "select", "load"} : stage' = [stage EXCEPT ![p] = s]
    BY <1>2 DEF Queue, StartBatching, Execute, executing
  <2>2. ~Merging(p)'
    BY <1>a, <2>1 DEF Merging, ShapeOK
  <2>3. picked[p] = {} /\ DOMAIN todo[p] = {} /\ settled[p] = <<>>
    BY <1>j, <2>1
  <2> QED
    BY <1>i, <2>1, <2>2, <2>3
<1>3. ASSUME NEW p \in Procs, Insert(p) \/ InsertDirectly(p) \/ MergeWrite(p) PROVE RowsUndisturbed'
  <2>1. /\ UNCHANGED <<todo, settled, picked>> /\ stage[p] \in {"find", "insert", "write"}
        /\ stage' = [stage EXCEPT ![p] = "idle"]
    BY <1>3 DEF Insert, InsertDirectly, MergeWrite, Returns, executing
  <2>2. ~Merging(p)'
    BY <1>a, <2>1 DEF Merging, ShapeOK
  <2>3. picked[p] = {} /\ DOMAIN todo[p] = {} /\ settled[p] = <<>>
    BY <1>j, <2>1
  <2> QED
    BY <1>i, <2>1, <2>2, <2>3
<1>4. ASSUME NEW p \in Procs, Find(p) \/ MergeRead(p) PROVE RowsUndisturbed'
  <2>1. /\ UNCHANGED <<queue, todo, settled, picked>> /\ stage[p] \in {"find", "read"}
    BY <1>4 DEF Find, MergeRead, executing
  <2>2. picked[p] = {} /\ DOMAIN todo[p] = {} /\ settled[p] = <<>> /\ Len(settled[p]) = 0
    BY <1>j, <2>1
  <2>3. Merging(p)' => queue[hit'[p]].status = "pending"
    <3>0. hit \in [Procs -> Nat] /\ stage \in [Procs -> Stages]
      BY <1>a DEF ShapeOK
    <3>1. CASE MergeRead(p)
      <4>1. stage[p] = "read" /\ hit' = hit
        BY <3>1 DEF MergeRead
      <4> QED
        BY <1>b, <4>1 DEF Undisturbed, Merging
    <3>2. CASE Find(p)
      <4>1. CASE \E q \in {"insert", "idle"} : stage' = [stage EXCEPT ![p] = q]
        BY <3>0, <4>1 DEF Merging
      <4>2. CASE /\ Similar(req[p].ask) # {}
                 /\ hit' = [hit EXCEPT ![p] = Newest(Similar(req[p].ask))]
        <5>1. hit'[p] \in Similar(req[p].ask)
          BY <3>0, <4>2, FoundIsRow
        <5> QED
          BY <5>1 DEF Similar
      <4> QED
        BY <3>2, <4>1, <4>2 DEF Find, Returns
    <3> QED
      BY <1>4, <3>1, <3>2
  <2>4. Undisturbed(p)'
    BY <2>1, <2>2, <2>3 DEF Undisturbed
  <2> QED
    BY <1>c, <2>4
<1>5. ASSUME NEW p \in Procs, SelectReady(p) PROVE RowsUndisturbed'
  <2>1. /\ UNCHANGED <<queue, batch, todo, settled>> /\ stage[p] = "select"
        /\ picked' = [picked EXCEPT ![p] = FirstOf(Ready, MaxBatch)]
        /\ stage' = [stage EXCEPT ![p] = IF Ready = {} THEN "idle" ELSE "picked"]
    BY <1>5 DEF SelectReady, executing
  <2>2. DOMAIN todo[p] = {} /\ settled[p] = <<>> /\ Len(settled[p]) = 0
    BY <1>j, <2>1
  <2>3. picked'[p] = FirstOf(Ready, MaxBatch) /\ stage'[p] = IF Ready = {} THEN "idle" ELSE "picked"
    BY <1>a, <2>1 DEF ShapeOK
  <2>4. /\ \A r \in picked'[p] : queue[r].status = "pending"
        /\ picked'[p] # {} => Ready # {}
    BY <2>3 DEF FirstOf, Ready, Pending
  <2>5. Undisturbed(p)'
    BY <2>1, <2>2, <2>3, <2>4 DEF Undisturbed, Merging
  <2> QED
    BY <1>c, <2>5
<1>6. ASSUME NEW p \in Procs, CreateBatch(p) PROVE RowsUndisturbed'
  <2>1. /\ UNCHANGED <<todo, settled>> /\ stage[p] = "picked"
        /\ picked' = [picked EXCEPT ![p] = {}]
        /\ stage' = [stage EXCEPT ![p] = IF mode[p] = "flush" THEN "load" ELSE "idle"]
    BY <1>6 DEF CreateBatch
  <2>2. DOMAIN todo[p] = {} /\ settled[p] = <<>>
    BY <1>b, <2>1 DEF Undisturbed
  <2>3. picked'[p] = {} /\ ~Merging(p)'
    BY <1>a, <2>1 DEF ShapeOK, Merging
  <2> QED
    BY <1>i, <2>1, <2>2, <2>3
<1>7. ASSUME NEW p \in Procs, LoadBatch(p) PROVE RowsUndisturbed'
  <2> DEFINE load == [r \in {x \in Rows : queue[x].batch = batch[p] /\ queue[x].status = "batched"}
                        |-> queue[r].payload]
  <2>1. /\ UNCHANGED <<queue, settled, picked, batch>> /\ stage[p] = "load"
        /\ todo' = [todo EXCEPT ![p] = load]
        /\ stage' = [stage EXCEPT ![p] = "exec"]
    BY <1>7 DEF LoadBatch
  <2>2. picked[p] = {} /\ settled[p] = <<>> /\ Len(settled[p]) = 0
    BY <1>j, <2>1
  <2>3. todo'[p] = load /\ stage'[p] = "exec"
    BY <1>a, <2>1 DEF ShapeOK
  <2>4. \A r \in DOMAIN todo'[p] : queue[r].batch = batch[p] /\ queue[r].status = "batched"
    BY <2>3
  <2> HIDE DEF load
  <2>5. Undisturbed(p)'
    BY <2>1, <2>2, <2>3, <2>4 DEF Undisturbed, Merging
  <2> QED
    BY <1>c, <2>5
<1>8. ASSUME NEW p \in Procs, RunWorkflow(p) \/ RunSerial(p) PROVE RowsUndisturbed'
  <2>1. PICK r \in DOMAIN todo[p] : Command(p, r)
    BY <1>8 DEF RunWorkflow, RunSerial, Workflows, FirstOf
  <2>2. stage[p] = "exec"
    BY <1>8 DEF RunWorkflow, RunSerial
  <2>3. UNCHANGED <<queue, stage, batch, picked>>
    BY <2>1 DEF Command
  <2>4. PICK ok \in BOOLEAN : settled' = [settled EXCEPT ![p] = Append(@, <<r, ok>>)]
    BY <2>1 DEF Command
  <2>5. DOMAIN todo'[p] = DOMAIN todo[p] \ {r}
    BY <1>a, <2>1 DEF Command, ShapeOK
  <2>6. settled[p] \in Seq(Nat \X BOOLEAN) /\ r \in Nat
    BY <1>a DEF ShapeOK, WorkOK, Rows
  <2>7. settled'[p] = Append(settled[p], <<r, ok>>)
    BY <1>a, <2>4 DEF ShapeOK
  <2>8. /\ Len(settled'[p]) = Len(settled[p]) + 1 /\ Len(settled[p]) \in Nat
        /\ settled'[p][Len(settled[p]) + 1] = <<r, ok>>
        /\ \A i \in 1..Len(settled[p]) : settled'[p][i] = settled[p][i]
    BY <2>6, <2>7, AppendProperties
  <2>9. Undisturbed(p) /\ picked[p] = {}
    BY <1>b, <2>2 DEF Undisturbed
  <2> DEFINE row(i) == settled'[p][i][1]
  <2>10. /\ \A i \in 1..Len(settled[p]) : row(i) = settled[p][i][1] /\ row(i) # r
         /\ row(Len(settled[p]) + 1) = r
    BY <2>8, <2>9 DEF Undisturbed
  <2>11. /\ queue[r].status = "batched" /\ queue[r].batch = batch[p]
         /\ \A i \in 1..Len(settled[p]) :
              /\ queue[row(i)].status = "batched" /\ queue[row(i)].batch = batch[p]
              /\ row(i) \notin DOMAIN todo[p]
    BY <2>8, <2>9 DEF Undisturbed
  <2>12. \A i, j \in 1..Len(settled[p]) : row(j) = row(i) => i = j
    BY <2>9, <2>10 DEF Undisturbed
  <2>13. \A i \in 1..Len(settled'[p]) : i \in 1..Len(settled[p]) \/ i = Len(settled[p]) + 1
    BY <2>8
  <2> HIDE DEF row
  <2>14. \A i \in 1..Len(settled'[p]) :
           /\ queue[row(i)].status = "batched" /\ queue[row(i)].batch = batch[p]
           /\ row(i) \notin DOMAIN todo'[p]
           /\ \A j \in 1..Len(settled'[p]) : row(j) = row(i) => i = j
    BY <2>5, <2>10, <2>11, <2>12, <2>13
  <2>15. \A x \in DOMAIN todo'[p] : queue[x].status = "batched" /\ queue[x].batch = batch[p]
    BY <2>5, <2>9 DEF Undisturbed
  <2>16. Undisturbed(p)'
    BY <2>2, <2>3, <2>9, <2>14, <2>15 DEF Undisturbed, Merging, row
  <2> QED
    BY <1>c, <2>16
<1>9. ASSUME NEW p \in Procs, RecordOutcome(p) PROVE RowsUndisturbed'
  <2> DEFINE r == settled[p][1][1]
  <2>1. /\ UNCHANGED <<stage, batch, todo, picked, hit>> /\ stage[p] = "exec"
    BY <1>9 DEF RecordOutcome, queueing
  <2>2. /\ r \in Rows /\ Len(settled[p]) \in Nat \ {0} /\ settled'[p] = Tail(settled[p])
        /\ \A q \in Rows : /\ queue'[q].batch = queue[q].batch
                           /\ q # r => queue'[q].status = queue[q].status
    BY <1>9, RecordsRow
  <2>3. settled[p] \in Seq(Nat \X BOOLEAN) /\ settled[p] # <<>>
    BY <1>9, <1>a DEF ShapeOK, RecordOutcome
  <2>4. /\ Len(settled'[p]) = Len(settled[p]) - 1
        /\ \A i \in 1..Len(settled'[p]) : settled'[p][i] = settled[p][i + 1]
    BY <2>2, <2>3, HeadTailProperties
  <2>5. Undisturbed(p) /\ picked[p] = {}
    BY <1>b, <2>1 DEF Undisturbed
  <2>6. \A i \in 1..Len(settled'[p]) : i + 1 \in 1..Len(settled[p]) /\ i + 1 # 1
    BY <2>2, <2>4
  <2>7. r \notin DOMAIN todo[p] /\ 1 \in 1..Len(settled[p])
    BY <2>2, <2>5 DEF Undisturbed
  <2>8. \A i \in 2..Len(settled[p]) :
          /\ settled[p][i][1] \in Rows /\ settled[p][i][1] # r
          /\ queue[settled[p][i][1]].status = "batched" /\ queue[settled[p][i][1]].batch = batch[p]
          /\ settled[p][i][1] \notin DOMAIN todo[p]
          /\ \A j \in 2..Len(settled[p]) : settled[p][j][1] = settled[p][i][1] => i = j
    <3> TAKE i \in 2..Len(settled[p])
    <3>1. i \in 1..Len(settled[p]) /\ i # 1
      BY <2>2
    <3>2. settled[p][i][1] \in Rows
      BY <1>a, <3>1 DEF WorkOK
    <3> QED
      BY <2>5, <2>7, <3>1, <3>2 DEF Undisturbed
  <2> HIDE DEF r
  <2>9. \A i \in 1..Len(settled'[p]) :
          /\ queue'[settled'[p][i][1]].status = "batched"
          /\ queue'[settled'[p][i][1]].batch = batch[p]
          /\ settled'[p][i][1] \notin DOMAIN todo[p]
          /\ \A j \in 1..Len(settled'[p]) : settled'[p][j][1] = settled'[p][i][1] => i = j
    <3> TAKE i \in 1..Len(settled'[p])
    <3>1. i + 1 \in 2..Len(settled[p]) /\ settled'[p][i] = settled[p][i + 1]
      BY <2>2, <2>4
    <3>2. ASSUME NEW j \in 1..Len(settled'[p]), settled'[p][j][1] = settled'[p][i][1] PROVE i = j
      <4>1. j + 1 \in 2..Len(settled[p]) /\ settled'[p][j] = settled[p][j + 1]
        BY <2>2, <2>4
      <4>2. i + 1 = j + 1
        BY <2>8, <3>1, <3>2, <4>1
      <4> QED
        BY <4>2
    <3> QED
      BY <2>2, <2>8, <3>1, <3>2
  <2>10. \A x \in DOMAIN todo[p] : queue'[x].status = "batched" /\ queue'[x].batch = batch[p]
    <3>1. \A x \in DOMAIN todo[p] : x \in Rows /\ x # r
      BY <1>a, <2>7 DEF WorkOK
    <3> QED
      BY <2>2, <2>5, <3>1 DEF Undisturbed
  <2>11. Undisturbed(p)'
    BY <2>1, <2>5, <2>9, <2>10 DEF Undisturbed, Merging
  <2> QED
    BY <1>c, <2>11
<1>10. ASSUME NEW p \in Procs, CloseBatch(p) \/ Crash(p) PROVE RowsUndisturbed'
  <2>1. /\ todo' = [todo EXCEPT ![p] = <<>>]
        /\ \E s \in {"select", "idle"} : stage' = [stage EXCEPT ![p] = s]
    BY <1>10, Zenon DEF CloseBatch, Crash
  <2>2. DOMAIN todo'[p] = {} /\ ~Merging(p)'
    BY <1>a, <2>1 DEF ShapeOK, Merging
  <2>3. picked'[p] = {} /\ settled'[p] = <<>>
    <3>1. CASE CloseBatch(p)
      BY <3>1, <1>b DEF CloseBatch, Undisturbed
    <3>2. CASE Crash(p)
      BY <3>2, <1>a DEF Crash, ShapeOK
    <3> QED
      BY <1>10, <3>1, <3>2
  <2> QED
    BY <1>i, <2>2, <2>3
<1>11. ASSUME NEW r \in Rows, Ripen(r) PROVE RowsUndisturbed'
  <2>1. /\ UNCHANGED <<stage, hit, picked, todo, settled, batch>>
    BY <1>11 DEF Ripen, executing, queueing
  <2>2. \A q \in Rows : queue'[q].batch = queue[q].batch /\ queue'[q].status = queue[q].status
    BY <1>11, RipensRow
  <2>3. ASSUME NEW p \in Procs PROVE Undisturbed(p)'
    <3>1. /\ Merging(p) => hit[p] \in Rows
          /\ picked[p] \subseteq Rows /\ DOMAIN todo[p] \subseteq Rows
          /\ \A i \in 1..Len(settled[p]) : settled[p][i][1] \in Rows
      BY <1>a DEF WorkOK
    <3>2. Undisturbed(p)
      BY <1>b
    <3> QED
      BY <2>1, <2>2, <3>1, <3>2 DEF Undisturbed, Merging
  <2> QED
    BY <2>3 DEF RowsUndisturbed
<1> QED
  BY <1>1, <1>2, <1>3, <1>4, <1>5, <1>6, <1>7, <1>8, <1>9, <1>10, <1>11 DEF Next

LEMMA InitUndisturbed ==
    ASSUME Init
    PROVE  /\ DeployTyped /\ RowsUndisturbed /\ RanInItsBatch
           /\ PayloadsFaithful /\ NothingLost /\ InOrder
<1>1. TablesOK
  BY DEF Init, TablesOK, Rows
<1>2. ShapeOK
  BY DeployAssumption DEF Init, ShapeOK, Stages
<1>3. ASSUME NEW p \in Procs PROVE WorkOK(p) /\ Undisturbed(p) /\ Faithful(p)
  BY DEF Init, WorkOK, Undisturbed, Faithful, Asking, Merging, Executing
<1>4. NothingLost /\ InOrder
  BY DEF Init, NothingLost, InOrder, Asking, Rows
<1> QED
  BY <1>1, <1>2, <1>3, <1>4 DEF Init, DeployTyped, LocalsOK, RowsUndisturbed, RanInItsBatch,
     PayloadsFaithful, Rows

\* What the only process does to the rows others could have relied on.
LEMMA SoloRows ==
    ASSUME DeployTyped, RowsUndisturbed, Solo, [Next]_vars
    PROVE  \A r \in Rows :
              /\ queue[r].status \in {"completed", "failed"} => queue'[r].status = queue[r].status
              /\ queue[r].batch # 0 => queue'[r].batch = queue[r].batch
<1>a. /\ \A r \in Rows : queue[r].status = "pending" <=> queue[r].batch = 0
  BY RowsTyped
<1>1. CASE UNCHANGED <<queue, batches>>
  BY <1>1
<1>2. ASSUME NEW p \in Procs, Insert(p) \/ InsertDirectly(p)
      PROVE  \A r \in Rows : queue'[r] = queue[r]
  <2>1. Asking(p) /\ queue' = Append(queue, NewRow(p)) /\ batches' = batches
    BY <1>2 DEF Insert, InsertDirectly, Asking
  <2> QED
    BY <2>1, NewRowFacts, AppendRow
<1>3. ASSUME NEW p \in Procs, MergeWrite(p)
      PROVE  \A r \in Rows : queue'[r].batch = queue[r].batch /\ queue'[r].status = queue[r].status
  BY <1>3, WritesRow
<1>4. ASSUME NEW p \in Procs, CreateBatch(p)
      PROVE  \A r \in Rows : queue[r].status # "pending" => queue'[r] = queue[r]
  <2>1. \A r \in picked[p] : queue[r].status = "pending"
    BY DEF RowsUndisturbed, Undisturbed
  <2>2. \A r \in Rows : r \notin picked[p] => queue'[r] = queue[r]
    BY <1>4, BatchesRows
  <2> QED
    BY <2>1, <2>2
<1>5. ASSUME NEW p \in Procs, LoadBatch(p) \/ CloseBatch(p) PROVE queue' = queue
  BY <1>5, MarksBatch
<1>6. ASSUME NEW p \in Procs, RecordOutcome(p)
      PROVE  \A r \in Rows : /\ queue'[r].batch = queue[r].batch
                             /\ queue[r].status # "batched" => queue'[r].status = queue[r].status
  <2> DEFINE s == settled[p][1][1]
  <2>1. /\ Len(settled[p]) \in Nat \ {0}
        /\ \A r \in Rows : /\ queue'[r].batch = queue[r].batch
                           /\ r # s => queue'[r].status = queue[r].status
    BY <1>6, RecordsRow
  <2>2. queue[s].status = "batched"
    <3>1. 1 \in 1..Len(settled[p])
      BY <2>1
    <3> QED
      BY <3>1 DEF RowsUndisturbed, Undisturbed
  <2> QED
    BY <2>1, <2>2
<1>7. ASSUME NEW q \in Rows, Ripen(q)
      PROVE  \A r \in Rows : queue'[r].batch = queue[r].batch /\ queue'[r].status = queue[r].status
  BY <1>7, RipensRow
<1>8. ASSUME NEW p \in Procs, Quiet(p) PROVE UNCHANGED <<queue, batches>>
  BY <1>8, QuietRows
<1> QED
  BY <1>a, <1>1, <1>2, <1>3, <1>4, <1>5, <1>6, <1>7, <1>8 DEF Next, vars, Quiet

\* With one process at a time on the queue, an action recorded as completed or
\* failed is never taken up again, whatever fails, times out or is killed.
THEOREM SettledIsFinalHolds ==
    ASSUME Solo
    PROVE  Spec => SettledIsFinal
<1>1. Init => DeployTyped /\ RowsUndisturbed
  BY InitUndisturbed
<1>2. DeployTyped /\ RowsUndisturbed /\ [Next]_vars => (DeployTyped /\ RowsUndisturbed)'
  BY TablesStep, LocalsStep, UndisturbedStep DEF DeployTyped
<1>3. DeployTyped /\ RowsUndisturbed /\ [Next]_vars
        => [\A r \in Rows : queue[r].status \in {"completed", "failed"}
                              => queue'[r].status = queue[r].status]_vars
  BY SoloRows
<1> QED
  BY <1>1, <1>2, <1>3, PTL DEF Spec, SettledIsFinal

\* With one process at a time on the queue, the command of an action takes
\* effect for one batch only, the one its row was collected in.
THEOREM RunInOneBatchHolds ==
    ASSUME Solo
    PROVE  Spec => []RunInOneBatch
<1> DEFINE RunInv == DeployTyped /\ RowsUndisturbed /\ RanInItsBatch
<1>1. Init => RunInv
  BY InitUndisturbed
<1>2. RunInv /\ [Next]_vars => RunInv'
  <2> SUFFICES ASSUME RunInv, [Next]_vars PROVE RunInv'
    OBVIOUS
  <2>1. DeployTyped' /\ RowsUndisturbed' /\ Rows \subseteq Rows'
    BY TablesStep, LocalsStep, UndisturbedStep DEF DeployTyped, Grows
  <2>2. \A r \in Rows : queue[r].batch # 0 => queue'[r].batch = queue[r].batch
    BY SoloRows
  <2>3. \A x \in ran' \ ran : x[2] \in Rows /\ x[1] # 0 /\ queue[x[2]].batch = x[1]
    <3>1. ASSUME NEW p \in Procs, RunWorkflow(p) \/ RunSerial(p)
          PROVE  \A x \in ran' \ ran : x[2] \in Rows /\ x[1] # 0 /\ queue[x[2]].batch = x[1]
      <4>1. PICK r \in DOMAIN todo[p] : Command(p, r)
        BY <3>1 DEF RunWorkflow, RunSerial, Workflows, FirstOf
      <4>2. \A x \in ran' \ ran : x = <<batch[p], r>>
        BY <4>1 DEF Command
      <4>3. r \in Rows /\ queue[r].batch # 0
        BY DEF DeployTyped, LocalsOK, WorkOK
      <4>4. queue[r].batch = batch[p]
        BY DEF RowsUndisturbed, Undisturbed
      <4> QED
        BY <4>2, <4>3, <4>4
    <3>2. (\A p \in Procs : ~RunWorkflow(p) /\ ~RunSerial(p)) => ran' = ran
      BY DEF Next, vars, Queue, Find, Insert, InsertDirectly, MergeRead, MergeWrite, StartBatching,
             SelectReady, CreateBatch, Execute, LoadBatch, RecordOutcome, CloseBatch, Crash, Ripen,
             executing
    <3> QED
      BY <3>1, <3>2
  <2>4. \A x \in ran' : x[2] \in Rows /\ x[1] # 0 /\ queue[x[2]].batch = x[1]
    BY <2>3 DEF RanInItsBatch
  <2> QED
    BY <2>1, <2>2, <2>4 DEF RanInItsBatch
<1>3. RunInv => RunInOneBatch
  BY DEF RanInItsBatch, RunInOneBatch
<1> QED
  BY <1>1, <1>2, <1>3, PTL DEF Spec

-----------------------------------------------------------------------------
(* What queue() has accepted.                                               *)

\* Only a merge changes a payload, and nothing that has shipped comes back.
LEMMA PayloadsStay ==
    ASSUME DeployTyped, [Next]_vars, \A p \in Procs : ~MergeWrite(p)
    PROVE  \A r \in Rows : queue'[r].payload = queue[r].payload
<1>1. CASE UNCHANGED <<queue, batches>>
  BY <1>1
<1>2. ASSUME NEW p \in Procs, Insert(p) \/ InsertDirectly(p)
      PROVE  \A r \in Rows : queue'[r] = queue[r]
  <2>1. Asking(p) /\ queue' = Append(queue, NewRow(p)) /\ batches' = batches
    BY <1>2 DEF Insert, InsertDirectly, Asking
  <2> QED
    BY <2>1, NewRowFacts, AppendRow
<1>3. ASSUME NEW p \in Procs, CreateBatch(p)
      PROVE  \A r \in Rows : queue'[r].payload = queue[r].payload
  BY <1>3, BatchesRows
<1>4. ASSUME NEW p \in Procs, LoadBatch(p) \/ CloseBatch(p) PROVE queue' = queue
  BY <1>4, MarksBatch
<1>5. ASSUME NEW p \in Procs, RecordOutcome(p)
      PROVE  \A r \in Rows : queue'[r].payload = queue[r].payload
  BY <1>5, RecordsRow
<1>6. ASSUME NEW q \in Rows, Ripen(q) PROVE \A r \in Rows : queue'[r].payload = queue[r].payload
  BY <1>6, RipensRow
<1>7. ASSUME NEW p \in Procs, Quiet(p) PROVE UNCHANGED <<queue, batches>>
  BY <1>7, QuietRows
<1> QED
  BY <1>1, <1>2, <1>3, <1>4, <1>5, <1>6, <1>7 DEF Next, vars, Quiet

LEMMA ShippedGrows ==
    ASSUME [Next]_vars
    PROVE  shipped \subseteq shipped'
  BY DEF Next, vars, Queue, Find, Insert, InsertDirectly, MergeRead, MergeWrite, StartBatching,
         SelectReady, CreateBatch, Execute, LoadBatch, RunWorkflow, RunSerial, Command, RecordOutcome,
         CloseBatch, Crash, Ripen, executing

\* A process whose payloads nobody touches keeps them faithful.
LEMMA FaithfulStays ==
    ASSUME DeployTyped, PayloadsFaithful, shipped \subseteq shipped', NEW q \in Procs,
           \A r \in Rows : queue'[r].payload = queue[r].payload,
           \/ /\ stage'[q] = stage[q] /\ draft'[q] = draft[q] /\ hit'[q] = hit[q] /\ req'[q] = req[q]
           \/ stage'[q] # "write",
           \/ todo'[q] = todo[q]
           \/ todo'[q] = <<>>,
           \/ settled'[q] = settled[q]
           \/ settled'[q] = <<>>
    PROVE  Faithful(q)'
<1>1. WorkOK(q) /\ Faithful(q)
  BY DEF DeployTyped, LocalsOK, PayloadsFaithful
<1>2. stage'[q] = "write" => draft'[q] = Merged(queue[hit[q]].payload, q)' /\ hit[q] \in Rows
  BY <1>1 DEF WorkOK, Faithful, Merging, Merged, Brought
<1>3. \A r \in DOMAIN todo'[q] : todo'[q][r] = queue'[r].payload
  <2>1. CASE todo'[q] = todo[q]
    BY <1>1, <2>1 DEF WorkOK, Faithful
  <2>2. CASE todo'[q] = <<>>
    BY <2>2
  <2> QED
    BY <2>1, <2>2
<1>4. \A i \in 1..Len(settled'[q]) :
        settled'[q][i][2] => queue'[settled'[q][i][1]].payload \subseteq shipped'
  <2>1. CASE settled'[q] = settled[q]
    BY <1>1, <2>1 DEF WorkOK, Faithful
  <2>2. CASE settled'[q] = <<>>
    BY <2>2
  <2> QED
    BY <2>1, <2>2
<1> QED
  BY <1>2, <1>3, <1>4 DEF Faithful

\* The payloads that the processes hold.
LEMMA FaithfulStep ==
    ASSUME DeployTyped, PayloadsFaithful, [Next]_vars, \A p \in Procs : ~MergeWrite(p)
    PROVE  PayloadsFaithful'
<1>a. ShapeOK /\ \A p \in Procs : WorkOK(p) /\ Faithful(p)
  BY DEF DeployTyped, LocalsOK, PayloadsFaithful
<1>b. (\A r \in Rows : queue'[r].payload = queue[r].payload) /\ shipped \subseteq shipped'
  BY PayloadsStay, ShippedGrows
<1>c. ASSUME NEW p \in Procs, Faithful(p)',
             \A q \in Procs \ {p} : /\ stage'[q] = stage[q] /\ draft'[q] = draft[q] /\ hit'[q] = hit[q]
                                    /\ req'[q] = req[q] /\ todo'[q] = todo[q]
                                    /\ settled'[q] = settled[q]
      PROVE  PayloadsFaithful'
  <2>1. ASSUME NEW q \in Procs, q # p PROVE Faithful(q)'
    BY <1>b, <1>c, <2>1, FaithfulStays
  <2> QED
    BY <1>c, <2>1 DEF PayloadsFaithful
<1>1. CASE UNCHANGED <<stage, draft, hit, req, todo, settled>>
  <2>1. ASSUME NEW q \in Procs PROVE Faithful(q)'
    BY <1>b, <1>1, FaithfulStays
  <2> QED
    BY <2>1 DEF PayloadsFaithful
<1>2. ASSUME NEW p \in Procs,
             \/ Queue(p) \/ Find(p) \/ Insert(p) \/ InsertDirectly(p) \/ StartBatching(p)
             \/ SelectReady(p) \/ CreateBatch(p) \/ Execute(p) \/ CloseBatch(p) \/ Crash(p)
      PROVE  PayloadsFaithful'
  <2>1. /\ stage' \in [Procs -> {"find", "read", "insert", "idle", "select", "picked", "load"}
                                  \cup Stages]
        /\ stage'[p] # "write"
        /\ \A q \in Procs \ {p} : stage'[q] = stage[q]
    <3>1. \E s \in {"find", "read", "insert", "idle", "select", "picked", "load"} :
             stage' = [stage EXCEPT ![p] = s]
      BY <1>2, Zenon DEF Queue, Find, Insert, InsertDirectly, Returns, StartBatching, SelectReady,
         CreateBatch, Execute, CloseBatch, Crash
    <3> QED
      BY <1>a, <3>1 DEF ShapeOK
  <2>2. \A q \in Procs \ {p} : draft'[q] = draft[q] /\ hit'[q] = hit[q] /\ req'[q] = req[q]
    BY <1>a, <1>2 DEF ShapeOK, Queue, Find, Insert, InsertDirectly, Returns, StartBatching,
       SelectReady, CreateBatch, Execute, CloseBatch, Crash, queueing
  <2>3. /\ todo' = todo \/ todo' = [todo EXCEPT ![p] = <<>>]
        /\ settled' = settled \/ settled' = [settled EXCEPT ![p] = <<>>]
    BY <1>2 DEF Queue, Find, Insert, InsertDirectly, Returns, StartBatching,
       SelectReady, CreateBatch, Execute, CloseBatch, Crash, executing
  <2>4. /\ todo'[p] = todo[p] \/ todo'[p] = <<>>
        /\ settled'[p] = settled[p] \/ settled'[p] = <<>>
        /\ \A q \in Procs \ {p} : todo'[q] = todo[q] /\ settled'[q] = settled[q]
    BY <1>a, <2>3 DEF ShapeOK
  <2>5. Faithful(p)'
    BY <1>b, <2>1, <2>4, FaithfulStays
  <2> QED
    BY <1>c, <2>1, <2>2, <2>4, <2>5
<1>3. ASSUME NEW p \in Procs, MergeRead(p) PROVE PayloadsFaithful'
  <2>1. /\ UNCHANGED <<queue, req, hit, todo, settled>> /\ shipped' = shipped
        /\ draft' = [draft EXCEPT ![p] = Merged(queue[hit[p]].payload, p)]
        /\ stage' = [stage EXCEPT ![p] = "write"]
    BY <1>3 DEF MergeRead, executing
  <2>2. draft'[p] = Merged(queue[hit[p]].payload, p)
    BY <1>a, <2>1 DEF ShapeOK
  <2>3. Faithful(p)'
    BY <1>a, <2>1, <2>2 DEF Faithful, Merged, Brought
  <2>4. \A q \in Procs \ {p} : stage'[q] = stage[q] /\ draft'[q] = draft[q]
    BY <1>a, <2>1 DEF ShapeOK
  <2> QED
    BY <1>c, <2>1, <2>3, <2>4
<1>4. ASSUME NEW p \in Procs, LoadBatch(p) PROVE PayloadsFaithful'
  <2> DEFINE load == [r \in {x \in Rows : queue[x].batch = batch[p] /\ queue[x].status = "batched"}
                        |-> queue[r].payload]
  <2>1. /\ UNCHANGED <<queue, settled, req, hit, draft>> /\ shipped' = shipped
        /\ todo' = [todo EXCEPT ![p] = load]
        /\ stage' = [stage EXCEPT ![p] = "exec"]
    BY <1>4 DEF LoadBatch, queueing
  <2>2. todo'[p] = load /\ stage'[p] = "exec"
    BY <1>a, <2>1 DEF ShapeOK
  <2>3. \A r \in DOMAIN todo'[p] : todo'[p][r] = queue[r].payload
    BY <2>2
  <2> HIDE DEF load
  <2>4. Faithful(p)'
    BY <1>a, <2>1, <2>2, <2>3 DEF Faithful
  <2>5. \A q \in Procs \ {p} : stage'[q] = stage[q] /\ todo'[q] = todo[q]
    BY <1>a, <2>1 DEF ShapeOK
  <2> QED
    BY <1>c, <2>1, <2>4, <2>5
<1>5. ASSUME NEW p \in Procs, RunWorkflow(p) \/ RunSerial(p) PROVE PayloadsFaithful'
  <2>1. PICK r \in DOMAIN todo[p] : Command(p, r)
    BY <1>5 DEF RunWorkflow, RunSerial, Workflows, FirstOf
  <2>2. stage[p] = "exec"
    BY <1>5 DEF RunWorkflow, RunSerial
  <2>3. UNCHANGED <<queue, stage, req, hit, draft>>
    BY <2>1 DEF Command, queueing
  <2>4. PICK ok \in BOOLEAN : /\ settled' = [settled EXCEPT ![p] = Append(@, <<r, ok>>)]
                              /\ ok => todo[p][r] \subseteq shipped'
    BY <2>1 DEF Command
  <2>5. /\ todo'[p] = [x \in DOMAIN todo[p] \ {r} |-> todo[p][x]]
        /\ \A q \in Procs \ {p} : todo'[q] = todo[q]
    BY <1>a, <2>1 DEF Command, ShapeOK
  <2>6. settled[p] \in Seq(Nat \X BOOLEAN) /\ r \in Nat /\ r \in Rows
    BY <1>a DEF ShapeOK, WorkOK, Rows
  <2>7. /\ settled'[p] = Append(settled[p], <<r, ok>>)
        /\ \A q \in Procs \ {p} : settled'[q] = settled[q]
    BY <1>a, <2>4 DEF ShapeOK
  <2>8. /\ Len(settled'[p]) = Len(settled[p]) + 1 /\ Len(settled[p]) \in Nat
        /\ settled'[p][Len(settled[p]) + 1] = <<r, ok>>
        /\ \A i \in 1..Len(settled[p]) : settled'[p][i] = settled[p][i]
    BY <2>6, <2>7, AppendProperties
  <2>9. \A i \in 1..Len(settled'[p]) :
          settled'[p][i][2] => queue[settled'[p][i][1]].payload \subseteq shipped'
    <3> TAKE i \in 1..Len(settled'[p])
    <3>1. CASE i \in 1..Len(settled[p])
      BY <1>a, <1>b, <2>8, <3>1 DEF Faithful
    <3>2. CASE i = Len(settled[p]) + 1
      <4>1. todo[p][r] = queue[r].payload
        BY <1>a DEF Faithful
      <4> QED
        BY <2>4, <2>8, <3>2, <4>1
    <3> QED
      BY <2>8, <3>1, <3>2
  <2>10. \A x \in DOMAIN todo'[p] : todo'[p][x] = queue[x].payload
    <3>1. \A x \in DOMAIN todo'[p] : x \in DOMAIN todo[p] /\ todo'[p][x] = todo[p][x]
      BY <2>5
    <3> QED
      BY <1>a, <3>1 DEF Faithful
  <2>11. Faithful(p)'
    BY <2>2, <2>3, <2>9, <2>10 DEF Faithful
  <2> QED
    BY <1>c, <2>3, <2>5, <2>7, <2>11
<1>6. ASSUME NEW p \in Procs, RecordOutcome(p) PROVE PayloadsFaithful'
  <2>1. /\ UNCHANGED <<stage, todo, req, hit, draft>> /\ stage[p] = "exec" /\ settled[p] # <<>>
        /\ settled' = [settled EXCEPT ![p] = Tail(@)]
    BY <1>6 DEF RecordOutcome, queueing
  <2>2. /\ settled'[p] = Tail(settled[p]) /\ settled[p] \in Seq(Nat \X BOOLEAN)
        /\ \A q \in Procs \ {p} : settled'[q] = settled[q]
    BY <1>a, <2>1 DEF ShapeOK
  <2>3. /\ Len(settled'[p]) = Len(settled[p]) - 1 /\ Len(settled[p]) \in Nat
        /\ \A i \in 1..Len(settled'[p]) : settled'[p][i] = settled[p][i + 1]
    <3>1. settled[p] \in Seq(Nat \X BOOLEAN) /\ settled[p] # <<>> /\ settled'[p] = Tail(settled[p])
      BY <2>1, <2>2
    <3> QED
      BY <3>1, HeadTailProperties
  <2>4. \A i \in 1..Len(settled'[p]) :
          settled'[p][i][2] => queue'[settled'[p][i][1]].payload \subseteq shipped'
    <3> TAKE i \in 1..Len(settled'[p])
    <3>1. i + 1 \in 1..Len(settled[p]) /\ settled'[p][i] = settled[p][i + 1]
      BY <2>3
    <3>2. settled[p][i + 1][1] \in Rows
      BY <1>a, <3>1 DEF WorkOK
    <3>3. settled[p][i + 1][2] => queue[settled[p][i + 1][1]].payload \subseteq shipped
      BY <1>a, <3>1 DEF Faithful
    <3> QED
      BY <1>b, <3>1, <3>2, <3>3
  <2>5. \A r \in DOMAIN todo[p] : todo[p][r] = queue'[r].payload
    BY <1>a, <1>b DEF WorkOK, Faithful
  <2>6. Faithful(p)'
    BY <2>1, <2>4, <2>5 DEF Faithful
  <2> QED
    BY <1>c, <2>1, <2>2, <2>6
<1>7. ASSUME NEW r \in Rows, Ripen(r) PROVE PayloadsFaithful'
  BY <1>1, <1>7 DEF Ripen, executing, queueing
<1> QED
  BY <1>1, <1>2, <1>3, <1>4, <1>5, <1>6, <1>7 DEF Next, vars

\* Under Solo, calls are queued one after the other.
LEMMA InOrderStep ==
    ASSUME DeployTyped, PayloadsFaithful, InOrder, Solo, [Next]_vars
    PROVE  InOrder'
<1>a. ShapeOK /\ calls \in Nat /\ \A p \in Procs : WorkOK(p)
  BY DeployAssumption DEF DeployTyped, LocalsOK, ShapeOK
<1>b. \A r \in Rows : \A y \in queue[r].payload : y[1] \in Nat
  BY RowsTyped, RowFields DEF Parts
<1>c. ASSUME NEW p \in Procs, Asking(p) PROVE \A y \in Brought(p) : y[1] = calls
  BY <1>c DEF Brought, InOrder
<1>d. ASSUME calls' = calls, \A r \in Rows' : \A y \in queue'[r].payload : y[1] <= calls,
             \A p \in Procs : ~Asking(p)'
      PROVE  InOrder'
  BY <1>d DEF InOrder
<1>e. ASSUME \A r \in Rows : queue'[r].payload = queue[r].payload, Rows' = Rows, calls' = calls,
             \A p \in Procs : Asking(p)' => Asking(p) /\ req'[p] = req[p]
      PROVE  InOrder'
  BY <1>e DEF InOrder
<1>1. CASE UNCHANGED vars
  BY <1>1 DEF InOrder, Asking, Rows, vars
<1>2. ASSUME NEW p \in Procs, Queue(p) PROVE InOrder'
  <2>1. /\ calls' = calls + 1 /\ queue' = queue
        /\ \E r \in Requests : req' = [req EXCEPT ![p] = [ask |-> r, call |-> calls + 1]]
    BY <1>2 DEF Queue
  <2>2. req'[p].call = calls' /\ Rows' = Rows
    BY <1>a, <2>1 DEF ShapeOK, Rows
  <2>3. \A r \in Rows : \A y \in queue[r].payload : y[1] < calls'
    BY <1>a, <1>b, <2>1 DEF InOrder
  <2>4. \A r \in Rows : \A y \in queue[r].payload : y[1] <= calls'
    BY <1>a, <1>b, <2>1 DEF InOrder
  <2> QED
    BY <2>1, <2>2, <2>3, <2>4 DEF InOrder, Solo
<1>3. ASSUME NEW p \in Procs, Find(p) \/ MergeRead(p) PROVE InOrder'
  <2>1. Asking(p) /\ queue' = queue /\ calls' = calls /\ Rows' = Rows
    BY <1>3 DEF Find, MergeRead, Asking, Rows
  <2>2. req' = req \/ stage' = [stage EXCEPT ![p] = "idle"]
    BY <1>3 DEF Find, MergeRead, Returns
  <2>3. Asking(p)' => req' = req
    BY <1>a, <2>2 DEF ShapeOK, Asking
  <2>4. \A q \in Procs : Asking(q)' => Asking(q) /\ req'[q] = req[q]
    BY <2>1, <2>3 DEF Solo
  <2> QED
    BY <1>e, <2>1, <2>4
<1>4. ASSUME NEW p \in Procs, Insert(p) \/ InsertDirectly(p) PROVE InOrder'
  <2>1. /\ Asking(p) /\ queue' = Append(queue, NewRow(p)) /\ batches' = batches /\ calls' = calls
        /\ stage' = [stage EXCEPT ![p] = "idle"]
    BY <1>4 DEF Insert, InsertDirectly, Asking, Returns
  <2>2. ~Asking(p)'
    BY <1>a, <2>1 DEF ShapeOK, Asking
  <2>3. /\ NewRow(p) \in Row /\ NewRow(p).batch = 0 /\ NewRow(p).status = "pending"
        /\ NewRow(p).payload = Brought(p)
    BY <2>1, NewRowFacts
  <2>4. /\ Rows' = Rows \cup {Len(queue) + 1} /\ queue'[Len(queue) + 1] = NewRow(p)
        /\ \A r \in Rows : queue'[r] = queue[r]
    BY <2>1, <2>3, AppendRow
  <2>5. \A y \in Brought(p) : y[1] <= calls
    BY <1>a, <1>c, <2>1
  <2>6. \A r \in Rows' : \A y \in queue'[r].payload : y[1] <= calls
    BY <2>3, <2>4, <2>5 DEF InOrder
  <2> QED
    BY <1>d, <2>1, <2>2, <2>6 DEF Solo
<1>5. ASSUME NEW p \in Procs, MergeWrite(p) PROVE InOrder'
  <2>1. Asking(p) /\ stage[p] = "write" /\ calls' = calls /\ stage' = [stage EXCEPT ![p] = "idle"]
    BY <1>5 DEF MergeWrite, Asking, Returns
  <2>2. ~Asking(p)'
    BY <1>a, <2>1 DEF ShapeOK, Asking
  <2>3. /\ Rows' = Rows /\ hit[p] \in Rows
        /\ \A r \in Rows : queue'[r].payload = IF r = hit[p] THEN draft[p] ELSE queue[r].payload
    BY <1>5, WritesRow
  <2>4. draft[p] \subseteq queue[hit[p]].payload \cup Brought(p)
    BY <2>1 DEF PayloadsFaithful, Faithful, Merged
  <2>5. \A y \in Brought(p) : y[1] <= calls
    BY <1>a, <1>c, <2>1
  <2>6. \A r \in Rows' : \A y \in queue'[r].payload : y[1] <= calls
    BY <2>3, <2>4, <2>5 DEF InOrder
  <2> QED
    BY <1>d, <2>1, <2>2, <2>6 DEF Solo
<1>6. ASSUME NEW p \in Procs,
             \/ StartBatching(p) \/ SelectReady(p) \/ CreateBatch(p) \/ Execute(p) \/ LoadBatch(p)
             \/ RunWorkflow(p) \/ RunSerial(p) \/ RecordOutcome(p) \/ CloseBatch(p)
      PROVE  InOrder'
  <2>1. /\ calls' = calls /\ ~MergeWrite(p)
        /\ \/ stage' = stage /\ req' = req
           \/ \E s \in {"idle", "select", "picked", "load", "exec"} : stage' = [stage EXCEPT ![p] = s]
    <3>1. calls' = calls /\ ~MergeWrite(p)
      BY <1>6 DEF StartBatching, SelectReady, CreateBatch, Execute, LoadBatch, RunWorkflow, RunSerial,
         Command, RecordOutcome, CloseBatch, queueing, MergeWrite
    <3>2. CASE RunWorkflow(p) \/ RunSerial(p) \/ RecordOutcome(p)
      BY <3>1, <3>2 DEF RunWorkflow, RunSerial, Command, RecordOutcome, queueing
    <3>3. CASE \/ StartBatching(p) \/ SelectReady(p) \/ CreateBatch(p) \/ Execute(p) \/ LoadBatch(p)
               \/ CloseBatch(p)
      <4>1. \E s \in {"idle", "select", "picked", "load", "exec"} : stage' = [stage EXCEPT ![p] = s]
        BY <3>3, Zenon DEF StartBatching, SelectReady, CreateBatch, Execute, LoadBatch, CloseBatch
      <4> QED
        BY <3>1, <4>1
    <3> QED
      BY <1>6, <3>2, <3>3
  <2>2. \A q \in Procs : Asking(q)' => Asking(q) /\ req'[q] = req[q]
    BY <1>a, <2>1 DEF ShapeOK, Asking, Solo
  <2>3. \A r \in Rows : queue'[r].payload = queue[r].payload
    BY <2>1, PayloadsStay DEF Solo
  <2>4. Rows' = Rows
    <3>1. CASE CreateBatch(p)
      BY <3>1, BatchesRows
    <3>2. CASE RecordOutcome(p)
      BY <3>2, RecordsRow
    <3>3. CASE ~CreateBatch(p) /\ ~RecordOutcome(p)
      BY <1>6, <3>3 DEF StartBatching, SelectReady, Execute, LoadBatch, RunWorkflow, RunSerial,
         Command, CloseBatch, Rows
    <3> QED
      BY <3>1, <3>2, <3>3
  <2> QED
    BY <1>e, <2>1, <2>2, <2>3, <2>4
<1>7. ASSUME NEW r \in Rows, Ripen(r) PROVE InOrder'
  <2>1. UNCHANGED <<stage, req, calls>>
    BY <1>7 DEF Ripen, queueing
  <2>2. Rows' = Rows /\ \A q \in Rows : queue'[q].payload = queue[q].payload
    BY <1>7, RipensRow
  <2> QED
    BY <1>e, <2>1, <2>2 DEF Asking
<1>8. ASSUME NEW p \in Procs, Crash(p) PROVE InOrder'
  <2>1. /\ queue' = queue /\ calls' = calls /\ Rows' = Rows
        /\ stage' = [stage EXCEPT ![p] = "idle"]
    BY <1>8 DEF Crash, Rows
  <2>2. ~Asking(p)'
    BY <1>a, <2>1 DEF ShapeOK, Asking
  <2> QED
    BY <1>e, <2>1, <2>2 DEF Solo
<1> QED
  BY <1>1, <1>2, <1>3, <1>4, <1>5, <1>6, <1>7, <1>8 DEF Next

\* A merge covers what its row held, and what the call brought.
LEMMA MergeCovers ==
    ASSUME NEW p \in Procs, NEW old \in SUBSET Parts, Brought(p) \in SUBSET Parts,
           \A y \in old : y[1] < req[p].call, req[p].call \in Nat,
           NEW x \in Parts, x \in Brought(p) \/ \E y \in old : Covers(y, x)
    PROVE  \E y \in Merged(old, p) : Covers(y, x)
<1>1. CASE x \in Brought(p)
  BY <1>1 DEF Merged, Covers
<1>2. CASE \E y \in old : Covers(y, x)
  <2>1. PICK y \in old : Covers(y, x)
    BY <1>2
  <2>2. CASE y[2] = "list" \/ "text" \notin req[p].ask.keys
    BY <2>1, <2>2 DEF Merged
  <2>3. CASE y[2] # "list" /\ "text" \in req[p].ask.keys
    <3> DEFINE z == <<req[p].call, "text">>
    <3>1. z \in Brought(p) /\ z \in Merged(old, p)
      BY <2>3 DEF Brought, Merged
    <3>2. y[1] \in Nat /\ x[1] \in Nat /\ y[1] >= x[1] /\ x[2] = "text"
      BY <2>1, <2>3 DEF Covers, Parts
    <3>3. z[1] > x[1] /\ z[2] = "text"
      BY <3>2
    <3> QED
      BY <3>1, <3>2, <3>3 DEF Covers
  <2> QED
    BY <2>2, <2>3
<1> QED
  BY <1>1, <1>2

\* A merge by the only process: nobody holds another payload, and the row it
\* writes is still pending, with the payload it read.
LEMMA MergeKeeps ==
    ASSUME DeployTyped, Solo, RowsUndisturbed, InOrder, PayloadsFaithful, NothingLost,
           NEW p \in Procs, MergeWrite(p)
    PROVE  PayloadsFaithful' /\ NothingLost'
<1>0. stage[p] = "write" /\ Asking(p)
  BY DEF MergeWrite, Asking
<1>1. /\ UNCHANGED <<todo, settled, shipped>> /\ stage' = [stage EXCEPT ![p] = "idle"]
      /\ accepted' = accepted \cup (Brought(p) \X {hit[p]})
  BY DEF MergeWrite, Returns, executing
<1>2. /\ Rows' = Rows /\ hit[p] \in Rows
      /\ \A r \in Rows : /\ queue'[r].status = queue[r].status
                         /\ queue'[r].payload = IF r = hit[p] THEN draft[p] ELSE queue[r].payload
  BY WritesRow
<1>3. /\ queue[hit[p]].status = "pending" /\ DOMAIN todo[p] = {} /\ settled[p] = <<>>
  BY <1>0 DEF RowsUndisturbed, Undisturbed, Merging
<1>4. draft[p] = Merged(queue[hit[p]].payload, p)
  BY <1>0 DEF PayloadsFaithful, Faithful
<1>5. PayloadsFaithful'
  <2>1. stage'[p] = "idle" /\ Len(settled[p]) = 0
    BY <1>1, <1>3 DEF DeployTyped, LocalsOK, ShapeOK
  <2>2. Faithful(p)'
    BY <1>1, <1>3, <2>1 DEF Faithful
  <2> QED
    BY <2>2 DEF PayloadsFaithful, Solo
<1>6. /\ queue[hit[p]].payload \in SUBSET Parts /\ Brought(p) \in SUBSET Parts /\ req[p].call \in Nat
      /\ \A y \in queue[hit[p]].payload : y[1] < req[p].call
  <2>1. WorkOK(p)
    BY DEF DeployTyped, LocalsOK
  <2>2. req[p].ask \in Requests /\ req[p].call \in 1..MaxCalls
    BY <1>0, <2>1 DEF WorkOK
  <2>3. queue[hit[p]].payload \in SUBSET Parts
    BY <1>2, RowsTyped, RowFields
  <2> QED
    BY <1>0, <1>2, <2>2, <2>3, BroughtParts DEF InOrder
<1>7. accepted \subseteq Parts \X Nat
  BY DEF DeployTyped, LocalsOK, ShapeOK
<1>8. \A a \in accepted' : a[2] \in Rows /\ \E y \in queue'[a[2]].payload : Covers(y, a[1])
  <2> TAKE a \in accepted'
  <2>1. CASE a \in Brought(p) \X {hit[p]}
    <3>1. a[1] \in Brought(p) /\ a[2] = hit[p] /\ a[1] \in Parts
      BY <1>6, <2>1
    <3>2. \E y \in Merged(queue[hit[p]].payload, p) : Covers(y, a[1])
      BY <1>6, <3>1, MergeCovers
    <3> QED
      BY <1>2, <1>4, <3>1, <3>2
  <2>2. CASE a \in accepted
    <3>1. /\ a[1] \in Parts /\ a[2] \in Rows
          /\ \E y \in queue[a[2]].payload : Covers(y, a[1])
      BY <1>7, <2>2 DEF NothingLost
    <3>2. CASE a[2] = hit[p]
      <4>1. \E y \in Merged(queue[hit[p]].payload, p) : Covers(y, a[1])
        BY <1>6, <3>1, <3>2, MergeCovers
      <4> QED
        BY <1>2, <1>4, <3>2, <4>1
    <3>3. CASE a[2] # hit[p]
      BY <1>2, <3>1, <3>3
    <3> QED
      BY <3>2, <3>3
  <2> QED
    BY <1>1, <2>1, <2>2
<1>9. \A r \in Rows : queue'[r].status = "completed" => queue'[r].payload \subseteq shipped
  BY <1>2, <1>3 DEF NothingLost
<1> QED
  BY <1>1, <1>2, <1>5, <1>8, <1>9 DEF NothingLost

\* Every other step.
LEMMA KeptStep ==
    ASSUME DeployTyped, PayloadsFaithful, NothingLost, [Next]_vars, \A p \in Procs : ~MergeWrite(p)
    PROVE  NothingLost'
<1>a. /\ \A r \in Rows : queue'[r].payload = queue[r].payload
      /\ shipped \subseteq shipped' /\ Rows \subseteq Rows' /\ PayloadsFaithful'
  BY PayloadsStay, ShippedGrows, TablesStep, FaithfulStep DEF Grows
<1>b. ASSUME accepted' = accepted
      PROVE  \A a \in accepted' : a[2] \in Rows' /\ \E y \in queue'[a[2]].payload : Covers(y, a[1])
  BY <1>a, <1>b DEF NothingLost
<1>c. ASSUME accepted' = accepted, Rows' = Rows,
             \A r \in Rows : queue'[r].status = "completed" => queue[r].status = "completed"
      PROVE  NothingLost'
  <2>1. \A r \in Rows' : queue'[r].status = "completed" => queue'[r].payload \subseteq shipped'
    BY <1>a, <1>c DEF NothingLost
  <2> QED
    BY <1>b, <1>c, <2>1 DEF NothingLost
<1>1. CASE UNCHANGED <<queue, accepted>>
  BY <1>c, <1>1 DEF Rows
<1>2. ASSUME NEW p \in Procs, Insert(p) \/ InsertDirectly(p) PROVE NothingLost'
  <2>0. /\ Asking(p) /\ queue' = Append(queue, NewRow(p)) /\ batches' = batches
        /\ accepted' = accepted \cup (Brought(p) \X {Len(queue) + 1})
    BY <1>2 DEF Insert, InsertDirectly, Asking, Returns
  <2>1. /\ NewRow(p) \in Row /\ NewRow(p).batch = 0 /\ NewRow(p).status = "pending"
        /\ NewRow(p).payload = Brought(p)
    BY <2>0, NewRowFacts
  <2>2. /\ Rows' = Rows \cup {Len(queue) + 1} /\ queue'[Len(queue) + 1] = NewRow(p)
        /\ \A r \in Rows : queue'[r] = queue[r]
    BY <2>0, <2>1, AppendRow
  <2>3. \A a \in accepted' : a[2] \in Rows' /\ \E y \in queue'[a[2]].payload : Covers(y, a[1])
    <3> TAKE a \in accepted'
    <3>1. CASE a \in Brought(p) \X {Len(queue) + 1}
      <4>1. a[1] \in Brought(p) /\ a[2] = Len(queue) + 1
        BY <3>1
      <4> QED
        BY <2>1, <2>2, <4>1 DEF Covers
    <3>2. CASE a \in accepted
      BY <2>2, <3>2 DEF NothingLost
    <3> QED
      BY <2>0, <3>1, <3>2
  <2>4. \A r \in Rows' : queue'[r].status = "completed" => queue'[r].payload \subseteq shipped'
    BY <1>a, <2>1, <2>2 DEF NothingLost
  <2> QED
    BY <2>3, <2>4 DEF NothingLost
<1>3. ASSUME NEW p \in Procs, CreateBatch(p) PROVE NothingLost'
  <2>1. accepted' = accepted
    BY <1>3 DEF CreateBatch, queueing
  <2>2. /\ Rows' = Rows
        /\ \A r \in Rows : /\ r \in picked[p] => queue'[r].status = "batched"
                           /\ r \notin picked[p] => queue'[r] = queue[r]
    BY <1>3, BatchesRows
  <2> QED
    BY <1>c, <2>1, <2>2
<1>4. ASSUME NEW p \in Procs, LoadBatch(p) \/ CloseBatch(p) PROVE UNCHANGED <<queue, accepted>>
  BY <1>4 DEF LoadBatch, CloseBatch, queueing
<1>5. ASSUME NEW p \in Procs, RecordOutcome(p) PROVE NothingLost'
  <2> DEFINE s == settled[p][1][1]
  <2>0. accepted' = accepted
    BY <1>5 DEF RecordOutcome, queueing
  <2>1. /\ Rows' = Rows /\ s \in Rows /\ Len(settled[p]) \in Nat \ {0}
        /\ queue'[s].status = IF settled[p][1][2] THEN "completed" ELSE "failed"
        /\ \A q \in Rows : q # s => queue'[q].status = queue[q].status
    BY <1>5, RecordsRow
  <2>2. queue'[s].status = "completed" => settled[p][1][2]
    BY <2>1
  <2>3. settled[p][1][2] => queue[s].payload \subseteq shipped
    <3>1. 1 \in 1..Len(settled[p])
      BY <2>1
    <3> QED
      BY <3>1 DEF PayloadsFaithful, Faithful
  <2> HIDE DEF s
  <2>4. \A r \in Rows' : queue'[r].status = "completed" => queue'[r].payload \subseteq shipped'
    BY <1>a, <2>1, <2>2, <2>3 DEF NothingLost
  <2> QED
    BY <1>b, <2>0, <2>4 DEF NothingLost
<1>6. ASSUME NEW q \in Rows, Ripen(q) PROVE NothingLost'
  <2>1. accepted' = accepted
    BY <1>6 DEF Ripen, queueing
  <2>2. Rows' = Rows /\ \A r \in Rows : queue'[r].status = queue[r].status
    BY <1>6, RipensRow
  <2> QED
    BY <1>c, <2>1, <2>2
<1>7. ASSUME NEW p \in Procs, Quiet(p) PROVE UNCHANGED <<queue, accepted>>
  <2>1. queue' = queue
    BY <1>7, QuietRows
  <2>2. CASE Find(p)
    <3>1. accepted' = accepted \/ \E r : req[p].ask.keys = {} /\ accepted' = accepted \cup (Brought(p) \X {r})
      BY <2>2 DEF Find, Returns
    <3>2. \A r : req[p].ask.keys = {} => Brought(p) \X {r} = {}
      BY DEF Brought
    <3> QED
      BY <2>1, <3>1, <3>2
  <2>3. CASE ~Find(p)
    <3>1. accepted' = accepted
      BY <1>7, <2>3 DEF Quiet, Queue, MergeRead, StartBatching, SelectReady, Execute, RunWorkflow,
         RunSerial, Command, Crash, queueing
    <3> QED
      BY <2>1, <3>1
  <2> QED
    BY <2>2, <2>3
<1> QED
  BY <1>1, <1>2, <1>3, <1>4, <1>5, <1>6, <1>7 DEF Next, vars, Quiet

\* With one process at a time on the queue, what a call brought is in the row it
\* was told of, or gave way there to a later call's text, and has shipped once
\* that row is completed, whatever is merged, batched, executed again or killed.
THEOREM ContributionsKeptHolds ==
    ASSUME Solo
    PROVE  Spec => []ContributionsKept
<1> DEFINE KeptInv == DeployTyped /\ RowsUndisturbed /\ InOrder /\ PayloadsFaithful /\ NothingLost
<1>1. Init => KeptInv
  BY InitUndisturbed
<1>2. KeptInv /\ [Next]_vars => KeptInv'
  <2> SUFFICES ASSUME KeptInv, [Next]_vars PROVE KeptInv'
    OBVIOUS
  <2>1. DeployTyped' /\ RowsUndisturbed' /\ InOrder'
    BY TablesStep, LocalsStep, UndisturbedStep, InOrderStep DEF DeployTyped
  <2>2. PayloadsFaithful' /\ NothingLost'
    BY MergeKeeps, FaithfulStep, KeptStep
  <2> QED
    BY <2>1, <2>2
<1>3. KeptInv => ContributionsKept
  BY DEF NothingLost, ContributionsKept, Covers
<1> QED
  BY <1>1, <1>2, <1>3, PTL DEF Spec
=============================================================================
