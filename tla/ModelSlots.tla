----------------------------- MODULE ModelSlots -----------------------------
(***************************************************************************)
(* The cross-process model-slot lease: withModelSlot of                    *)
(* utils/model-slot-lease.ts over the model_leases and model_backpressure  *)
(* tables of coordination/service.ts.  Several OS processes share one      *)
(* SQLite file; a process takes a lease before a model call, renews it     *)
(* while the call runs and deletes it afterwards.  The number of leases is *)
(* bounded by a limit that shrinks on exhaustion and recovers on success.  *)
(*                                                                         *)
(* One action is one SQL statement or one transaction.  Timestamps are     *)
(* countdowns: rem[id] is expires_at - now (-1 once it has expired),       *)
(* due[p] is the time to the next renewal (negative when it is late),      *)
(* wait[p] is deadline - now, cool is the rest of the recovery cooldown.   *)
(* The clock unit is any duration much longer than one statement.  A local *)
(* that goes out of scope is set back to a fixed value, to merge states.   *)
(***************************************************************************)
EXTENDS Integers, FiniteSets

CONSTANTS Procs,        \* callers of withModelSlot in distinct OS processes
          Ids,          \* values of the AUTOINCREMENT key
          NoLease,      \* leaseId = null
          Ceilings,     \* static budgets a process may resolve
          MaxCeiling,   \* the largest of them
          Ttl,          \* ttlMs
          RenewEvery,   \* ttl/3
          MaxLate,      \* how late a renewal timer may fire
          MaxMissed,    \* bound: renewals that fail one after the other
          Timeout,      \* timeoutMs
          Cooldown      \* UAP_BP_RECOVER_MS

ASSUME LeaseAssumption == NoLease \notin Ids
ASSUME CeilingAssumption ==
    /\ MaxCeiling \in Nat \ {0}
    /\ Ceilings \subseteq 1..MaxCeiling
ASSUME TimeAssumption ==
    /\ Ttl \in Nat \ {0}
    /\ RenewEvery \in 1..Ttl
    /\ MaxLate \in Nat
    /\ MaxMissed \in Nat
    /\ Timeout \in Nat
    /\ Cooldown \in Nat

VARIABLES rows,     \* keys present in model_leases
          rem,      \* time to expires_at, per key
          limit,    \* model_backpressure.limit_val, 0 while there is no row
          ceiling,  \* model_backpressure.ceiling
          cool,     \* cooldown left since last_decrease_at
          pc,       \* where each process is in withModelSlot
          why,      \* what the backpressure row is being read for
          seen,     \* the row as _bpRow returned it to the process
          lease,    \* leaseId
          due,      \* time to the next renewal of the process
          missed,   \* history: renewals of its lease that failed since one succeeded
          wait      \* time to the deadline of the acquire loop

tables == <<rows, rem, limit, ceiling, cool>>
locals == <<pc, why, seen, lease, due, missed, wait>>
vars == <<rows, rem, limit, ceiling, cool, pc, why, seen, lease, due, missed, wait>>

Lesser(a, b) == IF a <= b THEN a ELSE b
Greater(a, b) == IF a >= b THEN a ELSE b

Stages == {"idle", "select", "insert", "sync", "use", "sleep", "run", "release"}
Purposes == {"admit", "timedOut", "success", "exhausted"}
Sights == [lim : 1..MaxCeiling, ceil : 1..MaxCeiling, cool : 0..Cooldown]

\* One type invariant: the shape of both tables and of every local.
TypeOK ==
    /\ rows \in SUBSET Ids
    /\ rem \in [Ids -> -1..Ttl]
    /\ limit \in 0..MaxCeiling
    /\ ceiling \in 1..MaxCeiling
    /\ cool \in 0..Cooldown
    /\ pc \in [Procs -> Stages]
    /\ why \in [Procs -> Purposes]
    /\ seen \in [Procs -> Sights]
    /\ lease \in [Procs -> Ids \cup {NoLease}]
    /\ due \in [Procs -> -MaxLate..RenewEvery]
    /\ missed \in [Procs -> 0..MaxMissed]
    /\ wait \in [Procs -> 0..Timeout]

\* Mutant: a row is reaped in the very instant it expires.
Live_Early == {id \in rows : rem[id] > 0}
Live == {id \in rows : rem[id] >= 0}

\* A key AUTOINCREMENT may hand out: one no row and no process still names.
Fresh == {id \in Ids \ rows : \A p \in Procs : lease[p] # id}

\* A process inside fn with a lease, whose renewal timer is running.
Busy(p) == lease[p] # NoLease /\ pc[p] # "release"

\* What seen[p] holds outside a read of the row.
Blank == [lim |-> 1, ceil |-> 1, cool |-> 0]

Init ==
    /\ rows = {}
    /\ rem = [id \in Ids |-> -1]
    /\ limit = 0
    /\ ceiling = MaxCeiling
    /\ cool = 0
    /\ pc = [p \in Procs |-> "idle"]
    /\ why = [p \in Procs |-> "admit"]
    /\ seen = [p \in Procs |-> Blank]
    /\ lease = [p \in Procs |-> NoLease]
    /\ due = [p \in Procs |-> RenewEvery]
    /\ missed = [p \in Procs |-> 0]
    /\ wait = [p \in Procs |-> 0]

-----------------------------------------------------------------------------
(* Entering: the acquire loop.                                              *)

\* withModelSlot is called; the deadline is fixed before the first try.
Call(p) ==
    /\ pc[p] = "idle"
    /\ pc' = [pc EXCEPT ![p] = "select"]
    /\ wait' = [wait EXCEPT ![p] = Timeout]
    /\ UNCHANGED <<tables, why, seen, lease, due, missed>>

\* What _bpRow returns under ceiling c: the caller's own values when there is
\* no row, else the row, lowered to the ceiling when that has changed.
Sight(c) ==
    IF limit = 0
    THEN [lim |-> c, ceil |-> c, cool |-> 0]
    ELSE [lim |-> IF ceiling # c THEN Lesser(limit, c) ELSE limit,
          ceil |-> c, cool |-> cool]

\* _bpRow's SELECT, under the ceiling the process resolves this time; a
\* missing row or another ceiling in it takes a second statement.
Select(p) ==
    /\ pc[p] = "select"
    /\ \E c \in Ceilings :
         /\ seen' = [seen EXCEPT ![p] = Sight(c)]
         /\ pc' = [pc EXCEPT ![p] = IF limit = 0 THEN "insert"
                                   ELSE IF ceiling # c THEN "sync" ELSE "use"]
    /\ UNCHANGED <<tables, why, lease, due, missed, wait>>

\* INSERT OR IGNORE: the caller uses its own values even if another process
\* created the row in between.
InsertRow(p) ==
    /\ pc[p] = "insert"
    /\ limit' = IF limit = 0 THEN seen[p].lim ELSE limit
    /\ ceiling' = IF limit = 0 THEN seen[p].ceil ELSE ceiling
    /\ pc' = [pc EXCEPT ![p] = "use"]
    /\ UNCHANGED <<rows, rem, cool, why, seen, lease, due, missed, wait>>

\* The ceiling changed: limit_val = MIN(limit_val, ceiling) in the database.
SyncCeiling(p) ==
    /\ pc[p] = "sync"
    /\ ceiling' = seen[p].ceil
    /\ limit' = Lesser(limit, seen[p].ceil)
    /\ pc' = [pc EXCEPT ![p] = "use"]
    /\ UNCHANGED <<rows, rem, cool, why, seen, lease, due, missed, wait>>

\* getAdaptiveLimit's clamp of what was read.
Budget(p) == Greater(1, Lesser(seen[p].lim, seen[p].ceil))

\* Mutant: off by one in the comparison with the budget.
Grant_OffByOne(p) ==
    /\ pc[p] = "use" /\ why[p] = "admit"
    /\ Cardinality(Live) <= Budget(p)
    /\ \E id \in Fresh :
         /\ rows' = Live \cup {id}
         /\ rem' = [rem EXCEPT ![id] = Ttl]
         /\ lease' = [lease EXCEPT ![p] = id]
    /\ due' = [due EXCEPT ![p] = RenewEvery]
    /\ missed' = [missed EXCEPT ![p] = 0]
    /\ pc' = [pc EXCEPT ![p] = "run"]
    /\ seen' = [seen EXCEPT ![p] = Blank]
    /\ wait' = [wait EXCEPT ![p] = 0]
    /\ UNCHANGED <<limit, ceiling, cool, why>>

\* The acquire transaction finds room: reap, count, insert.
Grant(p) ==
    /\ pc[p] = "use" /\ why[p] = "admit"
    /\ Cardinality(Live) < Budget(p)
    /\ \E id \in Fresh :
         /\ rows' = Live \cup {id}
         /\ rem' = [rem EXCEPT ![id] = Ttl]
         /\ lease' = [lease EXCEPT ![p] = id]
    /\ due' = [due EXCEPT ![p] = RenewEvery]
    /\ missed' = [missed EXCEPT ![p] = 0]
    /\ pc' = [pc EXCEPT ![p] = "run"]
    /\ seen' = [seen EXCEPT ![p] = Blank]
    /\ wait' = [wait EXCEPT ![p] = 0]
    /\ UNCHANGED <<limit, ceiling, cool, why>>

\* The acquire transaction finds the budget full, with time left: sleep.
Full(p) ==
    /\ pc[p] = "use" /\ why[p] = "admit"
    /\ Cardinality(Live) >= Budget(p)
    /\ wait[p] > 0
    /\ rows' = Live
    /\ pc' = [pc EXCEPT ![p] = "sleep"]
    /\ seen' = [seen EXCEPT ![p] = Blank]
    /\ UNCHANGED <<rem, limit, ceiling, cool, why, lease, due, missed, wait>>

\* Full at or past the deadline: give up, report exhaustion, run unleased.
GiveUp(p) ==
    /\ pc[p] = "use" /\ why[p] = "admit"
    /\ Cardinality(Live) >= Budget(p)
    /\ wait[p] = 0
    /\ rows' = Live
    /\ pc' = [pc EXCEPT ![p] = "select"]
    /\ why' = [why EXCEPT ![p] = "timedOut"]
    /\ seen' = [seen EXCEPT ![p] = Blank]
    /\ UNCHANGED <<rem, limit, ceiling, cool, lease, due, missed, wait>>

\* Mutant: every poll starts a new deadline.
Poll_NewDeadline(p) ==
    /\ pc[p] = "sleep"
    /\ pc' = [pc EXCEPT ![p] = "select"]
    /\ wait' = [wait EXCEPT ![p] = Timeout]
    /\ UNCHANGED <<tables, why, seen, lease, due, missed>>

Poll(p) ==
    /\ pc[p] = "sleep"
    /\ pc' = [pc EXCEPT ![p] = "select"]
    /\ UNCHANGED <<tables, why, seen, lease, due, missed, wait>>

-----------------------------------------------------------------------------
(* Running, renewing, reporting and leaving.                                *)

\* Mutant: the renewal touches no row (a wrong id).
Renew_NoRow(p) ==
    /\ Busy(p) /\ due[p] <= 0
    /\ due' = [due EXCEPT ![p] = RenewEvery]
    /\ missed' = [missed EXCEPT ![p] = 0]
    /\ UNCHANGED <<tables, pc, why, seen, lease, wait>>

\* Mutant: the renewal's UPDATE has no WHERE clause.
Renew_EveryRow(p) ==
    /\ Busy(p) /\ due[p] <= 0
    /\ rem' = [id \in Ids |-> IF id \in rows THEN Ttl ELSE rem[id]]
    /\ due' = [due EXCEPT ![p] = RenewEvery]
    /\ missed' = [missed EXCEPT ![p] = 0]
    /\ UNCHANGED <<rows, limit, ceiling, cool, pc, why, seen, lease, wait>>

\* The interval callback: UPDATE ... WHERE id, a no-op when the row is gone.
Renew(p) ==
    /\ Busy(p)
    /\ due[p] <= 0
    /\ rem' = IF lease[p] \in rows THEN [rem EXCEPT ![lease[p]] = Ttl] ELSE rem
    /\ due' = [due EXCEPT ![p] = RenewEvery]
    /\ missed' = [missed EXCEPT ![p] = 0]
    /\ UNCHANGED <<rows, limit, ceiling, cool, pc, why, seen, lease, wait>>

\* The UPDATE of the interval callback throws, which is ignored; the timer goes
\* on.  MaxMissed bounds how often that happens in a row.
RenewFails(p) ==
    /\ Busy(p)
    /\ due[p] <= 0
    /\ missed[p] < MaxMissed
    /\ missed' = [missed EXCEPT ![p] = @ + 1]
    /\ due' = [due EXCEPT ![p] = RenewEvery]
    /\ UNCHANGED <<tables, pc, why, seen, lease, wait>>

\* The model call ends: well, with an exhaustion error, or with another one.
Finish(p) ==
    /\ pc[p] = "run"
    /\ \/ \E outcome \in {"success", "exhausted"} :
            /\ why' = [why EXCEPT ![p] = outcome]
            /\ pc' = [pc EXCEPT ![p] = "select"]
       \/ /\ pc' = [pc EXCEPT ![p] = "release"]
          /\ UNCHANGED why
    /\ UNCHANGED <<tables, seen, lease, due, missed, wait>>

\* Where a report returns to: before fn for a missed deadline, else after it.
AfterReport(p) == IF why[p] = "timedOut" THEN "run" ELSE "release"

\* recordModelExhaustion's UPDATE, from the limit read earlier.
Shrink(p) ==
    /\ pc[p] = "use" /\ why[p] \in {"timedOut", "exhausted"}
    /\ limit' = Greater(1, seen[p].lim \div 2)
    /\ cool' = Cooldown
    /\ pc' = [pc EXCEPT ![p] = AfterReport(p)]
    /\ why' = [why EXCEPT ![p] = "admit"]
    /\ seen' = [seen EXCEPT ![p] = Blank]
    /\ UNCHANGED <<rows, rem, ceiling, lease, due, missed, wait>>

\* recordModelSuccess: one step up unless at the ceiling or within the
\* cooldown, as read earlier.
MayGrow(p) == seen[p].lim < seen[p].ceil /\ seen[p].cool = 0

Grow(p) ==
    /\ pc[p] = "use" /\ why[p] = "success"
    /\ limit' = IF MayGrow(p) THEN Lesser(seen[p].ceil, seen[p].lim + 1) ELSE limit
    /\ pc' = [pc EXCEPT ![p] = "release"]
    /\ why' = [why EXCEPT ![p] = "admit"]
    /\ seen' = [seen EXCEPT ![p] = Blank]
    /\ UNCHANGED <<rows, rem, ceiling, cool, lease, due, missed, wait>>

\* The finally block: clear the timer and delete the row by its id.
Release(p) ==
    /\ pc[p] = "release"
    /\ rows' = rows \ {lease[p]}
    /\ rem' = [id \in Ids |-> IF id = lease[p] THEN -1 ELSE rem[id]]
    /\ lease' = [lease EXCEPT ![p] = NoLease]
    /\ due' = [due EXCEPT ![p] = RenewEvery]
    /\ missed' = [missed EXCEPT ![p] = 0]
    /\ pc' = [pc EXCEPT ![p] = "idle"]
    /\ UNCHANGED <<limit, ceiling, cool, why, seen, wait>>

\* A statement throws (the database is locked for longer than busy_timeout):
\* admission fails open into fn, a report or a release is given up silently.
StoreFails(p) ==
    /\ pc[p] \in {"select", "insert", "sync", "use", "release"}
    /\ pc' = [pc EXCEPT ![p] = CASE pc[p] = "release" -> "idle"
                                 [] pc[p] # "release" /\ why[p] = "admit" -> "run"
                                 [] OTHER -> AfterReport(p)]
    /\ lease' = [lease EXCEPT ![p] = IF pc[p] = "release" THEN NoLease ELSE @]
    /\ due' = [due EXCEPT ![p] = IF pc[p] = "release" THEN RenewEvery ELSE @]
    /\ missed' = [missed EXCEPT ![p] = IF pc[p] = "release" THEN 0 ELSE @]
    /\ why' = [why EXCEPT ![p] = "admit"]
    /\ seen' = [seen EXCEPT ![p] = Blank]
    /\ wait' = [wait EXCEPT ![p] = 0]
    /\ UNCHANGED tables

\* The process dies; its row stays until some acquirer reaps it.
Crash(p) ==
    /\ pc[p] # "idle"
    /\ pc' = [pc EXCEPT ![p] = "idle"]
    /\ lease' = [lease EXCEPT ![p] = NoLease]
    /\ due' = [due EXCEPT ![p] = RenewEvery]
    /\ missed' = [missed EXCEPT ![p] = 0]
    /\ why' = [why EXCEPT ![p] = "admit"]
    /\ seen' = [seen EXCEPT ![p] = Blank]
    /\ wait' = [wait EXCEPT ![p] = 0]
    /\ UNCHANGED tables

\* Time passes.  No renewal timer is ever more than MaxLate behind.
Tick ==
    /\ \A p \in Procs : Busy(p) => due[p] > -MaxLate
    /\ rem' = [id \in Ids |-> Greater(-1, rem[id] - 1)]
    /\ due' = [p \in Procs |-> IF Busy(p) THEN due[p] - 1 ELSE due[p]]
    /\ wait' = [p \in Procs |-> Greater(0, wait[p] - 1)]
    /\ cool' = Greater(0, cool - 1)
    /\ UNCHANGED <<rows, limit, ceiling, pc, why, seen, lease, missed>>

-----------------------------------------------------------------------------
Next ==
    \/ \E p \in Procs :
         \/ Call(p) \/ Select(p) \/ InsertRow(p) \/ SyncCeiling(p)
         \/ Grant(p) \/ Full(p) \/ GiveUp(p) \/ Poll(p)
         \/ Renew(p) \/ RenewFails(p) \/ Finish(p) \/ Shrink(p) \/ Grow(p) \/ Release(p)
         \/ StoreFails(p) \/ Crash(p)
    \/ Tick

Spec == Init /\ [][Next]_vars

\* Timers fire, statements return and model calls end (they carry an HTTP
\* timeout).  Nothing obliges a process to call, to fail or to crash.
Fairness ==
    /\ WF_vars(Tick)
    /\ \A p \in Procs :
         /\ WF_vars(Select(p) \/ InsertRow(p) \/ SyncCeiling(p))
         /\ WF_vars(Grant(p) \/ Full(p) \/ GiveUp(p) \/ Shrink(p) \/ Grow(p))
         /\ WF_vars(Poll(p))
         /\ WF_vars(Renew(p) \/ RenewFails(p))
         /\ WF_vars(Finish(p))
         /\ WF_vars(Release(p))

FairSpec == Spec /\ Fairness

-----------------------------------------------------------------------------
(* Properties.                                                              *)

\* The table never holds more leases than the largest budget, whatever dies,
\* runs late or resolves another ceiling: acquireModelSlot's reap, count and
\* insert are one transaction.
RowsWithinBudget == Cardinality(rows) <= MaxCeiling

\* A process in the middle of a model call still has its row, unexpired: what
\* the renewal timer of withModelSlot is for.  Needs a ttl that is longer than
\* MaxMissed failed renewals and the one that succeeds, each as late as can be.
CallersKeepRow == \A p \in Procs : Busy(p) => lease[p] \in Live

\* At most MaxCeiling leased model calls run at a time (header of
\* model-slot-lease.ts); calls that failed open are not counted.
LeasedCallsBounded == Cardinality({p \in Procs : Busy(p)}) <= MaxCeiling

\* A row that has not expired is only ever removed by the process that holds
\* it: neither a reap nor a late release takes a live lease from its holder.
OnlyHolderRemoves ==
    [][\A id \in rows \ rows' :
          \/ rem[id] < 0
          \/ \E p \in Procs : /\ pc[p] = "release"
                            /\ {q \in Procs : lease[q] = id} = {p}]_vars

\* The limit never rises while the cooldown that follows a decrease runs
\* (recordModelSuccess is "cooldown-gated").
RecoveryIsGated == [][limit > 0 /\ limit' > limit => cool = 0]_vars

\* Every caller gets into fn (or dies): a slot, or fail-open at the deadline.
EveryCallProceeds ==
    \A p \in Procs : (pc[p] = "select" /\ why[p] = "admit") ~> pc[p] \in {"run", "idle"}

\* The row of a dead holder expires, however long the others keep renewing.
OrphansExpire ==
    \A id \in Ids : (id \in rows /\ \A p \in Procs : lease[p] # id)
                      ~> (id \notin rows \/ rem[id] < 0)

-----------------------------------------------------------------------------
(* The lease table implements a counting semaphore over the leased calls.   *)
Semaphore == INSTANCE SlotSemaphore
    WITH Users <- Procs, Capacity <- MaxCeiling, inside <- {p \in Procs : Busy(p)}
Implements == Semaphore!Spec
=============================================================================
