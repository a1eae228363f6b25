------------------------------- MODULE Placement -------------------------------
(***************************************************************************)
(* Model placement on one device: admission of gated requests              *)
(* (dashboard/placement-routes.ts), loads that requests cause by           *)
(* themselves (placement/auto.ts), the operator's commands and the         *)
(* sequence that swaps units (placement/enforce.ts), the sweep of idle     *)
(* residents (placement/idle.ts), over the ledger (placement/ledger.ts).   *)
(*                                                                         *)
(* A model has one measured configuration and one unit, and one client     *)
(* asks for it.  Everything between two awaits of the controller is one    *)
(* action; each use of the ledger is under its lock.  A sequence belongs   *)
(* to a run: the automatic one of a model, the sweep, or the operator.     *)
(***************************************************************************)
EXTENDS Integers, Sequences, FiniteSets, FiniteSetsExt

CONSTANTS Models, Cost, Capacity,
          AllowDisplace,   \* models whose automatic load may evict others
          AllowUnload,     \* models the sweep may unload
          Overlap,         \* sequences of different kinds run at the same time
          LateEffects,     \* a systemctl call that times out may still act
          MaxRuns,         \* automatic runs queued or in flight
          MaxSends,        \* generations in flight at a time
          Budgets,         \* bounds of a behaviour: faults; sweeps, commands and syncs; deaths
          Nothing

ASSUME PlacementAssumption ==
    /\ Cost \in [Models -> Nat] /\ Capacity \in Nat
    /\ AllowDisplace \subseteq Models /\ AllowUnload \subseteq Models
    /\ {Overlap, LateEffects} \subseteq BOOLEAN
    /\ MaxRuns \in Nat /\ MaxSends \in Nat /\ Budgets \subseteq [{"faults", "ops", "deaths"} -> Nat]
    /\ Nothing \notin Models

VARIABLES up,       \* units that run
          res,      \* ledger: state of each resident, "none" where there is none
          usage,    \* ledger: age of the last gated use, of models the sweep may unload
          pending,  \* ledger: models with an unexpired pending entry
          queue,    \* models with an automatic run, in the order of the tail
          job,      \* the sequence of each run
          resting,  \* failure cooldowns: <<"auto", model>>, <<"sweep", model>>
          busy,     \* proxy: models with a generation registered as in flight
          view,     \* what the sync of another process has probed, {} if none runs
          incomplete, \* history: a rollback reported that it was incomplete
          orphaned, \* history: models whose sequence died with its process
          left      \* what is left of the bounds

ledger == <<res, usage, pending>>
history == <<incomplete, orphaned>>
vars == <<up, ledger, queue, job, resting, busy, view, history, left>>

Runs == Models \cup {"sweep", "operator"}
NoJob == [at |-> "idle", load |-> Nothing, victims |-> {}, stopped |-> {}, started |-> FALSE,
          asked |-> FALSE, base |-> 0, rest |-> {}, dead |-> {}]
Goes(a, j) == job' = [job EXCEPT ![a] = j]
To(a, at) == Goes(a, [job[a] EXCEPT !.at = at])
At(a, at) == job[a].at = at
Idle(a) == At(a, "idle")
Alone(a) ==
    Overlap \/ \A b \in Runs \ (IF a \in Models THEN Models ELSE {a}) : job[b].at \in {"idle", "queued"}
Spends(what) == left[what] > 0 /\ left' = [left EXCEPT ![what] = @ - 1]

-----------------------------------------------------------------------------
(* Options of a request, on the ledger r.                                  *)

Used(S) == MapThenSumSet(LAMBDA m : Cost[m], S)
Room(r, gone) == Capacity - Used({m \in Models : r[m] # "none"} \ gone)
Evictions(r, m) ==
    {vs \in SUBSET {v \in Models : r[v] = "hot"} : vs # {} /\ Cost[m] <= Room(r, vs)}
Smallest(sets) == CHOOSE vs \in sets : \A ws \in sets : Used(vs) <= Used(ws)

Option(r, m) ==
    CASE r[m] = "hot" -> [kind |-> "reuse", victims |-> {}]
      [] r[m] # "hot" /\ Cost[m] <= Room(r, {}) -> [kind |-> "alongside", victims |-> {}]
      [] OTHER -> IF Evictions(r, m) = {} THEN [kind |-> "none", victims |-> {}]
                  ELSE [kind |-> "displace", victims |-> Smallest(Evictions(r, m))]

AutoMay(m, o) ==
    /\ ~\E i \in DOMAIN queue : queue[i] = m
    /\ Len(queue) < MaxRuns
    /\ <<"auto", m>> \notin resting
    /\ o.kind \in {"reuse", "alongside"} \/ (o.kind = "displace" /\ m \in AllowDisplace)

\* syncLedger: what runs is resident; the markers of a drain survive.
Synced(r, live) ==
    [m \in Models |-> IF m \notin live THEN "none" ELSE IF r[m] = "draining" THEN "draining" ELSE "hot"]

-----------------------------------------------------------------------------
(* Admission, the proxy, time, and the sync of another process.            *)

\* A resident that is not draining serves the request; the use is noted.
Forward(m) ==
    /\ res[m] = "hot"
    /\ usage' = [w \in AllowUnload |-> IF w = m THEN "fresh" ELSE usage[w]]
    /\ UNCHANGED <<up, res, pending, queue, job, resting, busy, view, history, left>>

\* The proxy sends a request and registers its generation: one that was let
\* through long before, behind awaits and the semaphore of its target, or one
\* that it lets through by itself, since the controller did not answer.
Send(m) ==
    /\ m \in up \ busy /\ Cardinality(busy) < MaxSends
    /\ busy' = busy \cup {m}
    /\ UNCHANGED <<up, ledger, queue, job, resting, view, history, left>>

\* The request is parked, with a run of its own where policy and room allow.
Park(m) ==
    /\ res[m] # "hot" /\ m \notin pending
    /\ pending' = pending \cup {m}
    /\ LET o == Option(res, m)
       IN  IF AutoMay(m, o)
           THEN /\ queue' = Append(queue, m)
                /\ Goes(m, [NoJob EXCEPT !.at = "queued", !.load = m, !.victims = o.victims])
           ELSE UNCHANGED <<queue, job>>
    /\ UNCHANGED <<up, res, usage, resting, busy, view, history, left>>

\* The entry of a run is extended past it; others expire.
Lapse(m) ==
    /\ m \in pending
    /\ ~\E i \in DOMAIN queue : queue[i] = m
    /\ pending' = pending \ {m}
    /\ UNCHANGED <<up, res, usage, queue, job, resting, busy, view, history, left>>

Respond(m) ==
    /\ m \in busy
    /\ busy' = busy \ {m}
    /\ UNCHANGED <<up, ledger, queue, job, resting, view, history, left>>

\* The idle window passes since the last use of m on record.
Age(m) ==
    /\ m \in AllowUnload /\ usage[m] = "fresh"
    /\ usage' = [usage EXCEPT ![m] = "old"]
    /\ UNCHANGED <<up, res, pending, queue, job, resting, busy, view, history, left>>

Cool ==
    /\ \E c \in resting : resting' = resting \ {c}
    /\ UNCHANGED <<up, ledger, queue, job, busy, view, history, left>>

\* `models status` or a dashboard: the units are probed before the lock is taken.
SyncProbe ==
    /\ view = {} /\ Spends("ops")
    /\ view' = {up}
    /\ UNCHANGED <<up, ledger, queue, job, resting, busy, history>>
SyncWrite ==
    /\ \E live \in view : res' = Synced(res, live)
    /\ view' = {}
    /\ UNCHANGED <<up, usage, pending, queue, job, resting, busy, history, left>>

-----------------------------------------------------------------------------
(* How a run ends, by its kind.                                            *)

EndAuto(m, ok) ==
    /\ queue' = SelectSeq(queue, LAMBDA q : q # m)
    /\ pending' = IF ok THEN pending \ {m} ELSE pending
    /\ resting' = IF ok THEN resting \ {<<"auto", m>>} ELSE resting \cup {<<"auto", m>>}
    /\ Goes(m, NoJob)
    /\ UNCHANGED usage

\* A command of the operator; apply removes the entry it was given for.
EndOperator(j, ok) ==
    /\ pending' = IF ok /\ j.asked THEN pending \ {j.load} ELSE pending
    /\ Goes("operator", NoJob)
    /\ UNCHANGED <<queue, usage, resting>>

\* One unload of the sweep; it goes on to the next it has listed.
EndUnload(j, ok) ==
    LET cooldowns == {"sweep"} \X j.victims
    IN  /\ usage' = [m \in AllowUnload |-> IF ok /\ m \in j.victims THEN "none" ELSE usage[m]]
        /\ resting' = IF ok THEN resting \ cooldowns ELSE resting \cup cooldowns
        /\ Goes("sweep", [NoJob EXCEPT !.at = "sweep", !.rest = j.rest, !.dead = j.dead])
        /\ UNCHANGED <<queue, pending>>

End(a, j, ok) ==
    \/ a \in Models /\ EndAuto(a, ok)
    \/ a = "operator" /\ EndOperator(j, ok)
    \/ a = "sweep" /\ EndUnload(j, ok)

-----------------------------------------------------------------------------
(* enforceOption and unloadPlacement up to their first await: sync, derive *)
(* again, refuse on drift, mark the victims.                               *)

Marks(a, j, r) ==
    /\ res' = [m \in Models |-> IF m \in j.victims THEN "draining" ELSE r[m]]
    /\ Goes(a, [j EXCEPT !.at = IF j.victims = {} THEN "start" ELSE "drain"])
    /\ UNCHANGED <<usage, pending, queue, resting>>

Enforce(a, j, kind) ==
    LET r == Synced(res, up)
        o == Option(r, j.load)
    IN  \/ /\ o = [kind |-> kind, victims |-> j.victims] /\ kind # "reuse"
           /\ Marks(a, j, r)
        \/ /\ o = [kind |-> kind, victims |-> j.victims] /\ kind = "reuse"
           /\ res' = r /\ End(a, j, TRUE)
        \/ /\ o # [kind |-> kind, victims |-> j.victims]
           /\ res' = r /\ End(a, j, FALSE)

Unload(a, j) ==
    LET r == Synced(res, up)
    IN  \/ j.victims \subseteq up /\ Marks(a, j, r)
        \/ ~(j.victims \subseteq up) /\ res' = r /\ End(a, j, FALSE)

\* The runs before this one in the tail.
\* Mutant: the run waits for a promise of its own.
Awaited_Itself(m) == {i \in DOMAIN queue : \E k \in DOMAIN queue : queue[k] = m /\ i <= k}
Awaited(m) == {i \in DOMAIN queue : \E k \in DOMAIN queue : queue[k] = m /\ i < k}

BeginAuto(m) ==
    /\ At(m, "queued") /\ Awaited(m) = {} /\ Alone(m)
    /\ Enforce(m, job[m], IF job[m].victims = {} THEN "alongside" ELSE "displace")
    /\ UNCHANGED <<up, busy, view, history, left>>

\* uap models apply, load and unload, or the same from the dashboard.
Apply(m) ==
    /\ Idle("operator") /\ Alone("operator") /\ Spends("ops")
    /\ m \in pending
    /\ LET o == Option(res, m)
       IN  /\ o.kind # "none"
           /\ Enforce("operator", [NoJob EXCEPT !.load = m, !.victims = o.victims, !.asked = TRUE], o.kind)
    /\ UNCHANGED <<up, busy, view, history>>
Load(m) ==
    /\ Idle("operator") /\ Alone("operator") /\ Spends("ops")
    /\ LET o == Option(res, m)
       IN  /\ o.kind \in {"reuse", "alongside"}
           /\ Enforce("operator", [NoJob EXCEPT !.load = m], o.kind)
    /\ UNCHANGED <<up, busy, view, history>>
UnloadByHand(m) ==
    /\ Idle("operator") /\ Alone("operator") /\ Spends("ops")
    /\ Unload("operator", [NoJob EXCEPT !.victims = {m}])
    /\ UNCHANGED <<up, busy, view, history>>
Dismiss(m) ==
    /\ m \in pending /\ Spends("ops")
    /\ pending' = pending \ {m}
    /\ UNCHANGED <<up, res, usage, queue, job, resting, busy, view, history>>

-----------------------------------------------------------------------------
(* The sweep.  A tick reads the ledger once; what it skips, because the    *)
(* endpoint is in use, cannot be asked, or is in cooldown, it is done with.*)

Deferred(skipped) ==
    [m \in AllowUnload |-> IF m \in skipped \cap busy THEN "fresh" ELSE usage[m]]
Prune(u, dead) == [m \in AllowUnload |-> IF m \in dead THEN "none" ELSE u[m]]

SweepOn(j) ==
    \/ \E m \in j.rest \ busy :
         /\ <<"sweep", m>> \notin resting
         /\ Unload("sweep", [j EXCEPT !.victims = {m}, !.rest = @ \ {m}])
    \/ \E skipped \in (SUBSET j.rest) \ {{}} :
         /\ usage' = Deferred(skipped)
         /\ Goes("sweep", [j EXCEPT !.at = "sweep", !.rest = @ \ skipped])
         /\ UNCHANGED <<res, pending, queue, resting>>
    \/ /\ j.rest = {}
       /\ usage' = Prune(usage, j.dead)
       /\ Goes("sweep", NoJob)
       /\ UNCHANGED <<res, pending, queue, resting>>

Candidates == {m \in AllowUnload : res[m] = "hot" /\ m \notin pending /\ <<"sweep", m>> \notin resting}
BeginSweep ==
    /\ Idle("sweep") /\ Alone("sweep") /\ Spends("ops")
    /\ LET tick == [NoJob EXCEPT !.at = "sweep",
                                 !.rest = {m \in Candidates : usage[m] = "old"},
                                 !.dead = {m \in AllowUnload : usage[m] # "none" /\ res[m] = "none"}]
       IN  \/ SweepOn(tick)
           \/ /\ \E m \in Candidates : usage[m] = "none"
              /\ usage' = [m \in AllowUnload |-> IF m \in Candidates /\ usage[m] = "none" THEN "fresh" ELSE usage[m]]
              /\ Goes("sweep", tick)
              /\ UNCHANGED <<res, pending, queue, resting>>
    /\ UNCHANGED <<up, busy, view, history>>
Sweep ==
    /\ At("sweep", "sweep") /\ Alone("sweep")
    /\ SweepOn(job["sweep"])
    /\ UNCHANGED <<up, busy, view, history, left>>

-----------------------------------------------------------------------------
(* The awaited steps of a sequence.                                        *)

Fails(a) == To(a, IF job[a].started THEN "unstart" ELSE "restart")

\* drain waits for the generations in flight, up to a deadline; a proxy that
\* does not answer counts as busy.
Drain(a) ==
    /\ At(a, "drain")
    /\ \/ job[a].victims \cap busy = {} /\ To(a, "check") /\ UNCHANGED left
       \/ job[a].victims \cap busy # {} /\ Fails(a) /\ UNCHANGED left
       \/ Spends("faults") /\ Fails(a)
    /\ UNCHANGED <<up, ledger, queue, resting, busy, view, history>>

\* One more look right before the first stop, and the memory in use there.
Check(a) ==
    /\ At(a, "check")
    /\ \/ job[a].victims \cap busy = {} /\ Goes(a, [job[a] EXCEPT !.at = "stop", !.base = Used(up)])
       \/ job[a].victims \cap busy # {} /\ Fails(a)
    /\ UNCHANGED <<up, ledger, queue, resting, busy, view, history, left>>

Stop(a) ==
    /\ At(a, "stop")
    /\ \E v \in job[a].victims \ job[a].stopped :
         \/ /\ up' = up \ {v}
            /\ Goes(a, [job[a] EXCEPT !.stopped = @ \cup {v},
                                      !.at = IF job[a].victims \subseteq job[a].stopped \cup {v}
                                             THEN "freed" ELSE "stop"])
            /\ UNCHANGED left
         \/ /\ Spends("faults") /\ Fails(a)
            /\ up' = up \/ (LateEffects /\ up' = up \ {v})
    /\ UNCHANGED <<ledger, queue, resting, busy, view, history>>

\* The memory has come back, or an engine outside its unit keeps it.
Freed(a) ==
    /\ At(a, "freed")
    /\ \/ /\ Used(up) <= job[a].base - Used(job[a].victims)
          /\ To(a, IF job[a].load = Nothing THEN "settle" ELSE "start")
          /\ UNCHANGED left
       \/ /\ Used(up) > job[a].base - Used(job[a].victims)
          /\ Fails(a) /\ UNCHANGED left
       \/ Spends("faults") /\ Fails(a)
    /\ UNCHANGED <<up, ledger, queue, resting, busy, view, history>>

Start(a) ==
    /\ At(a, "start")
    /\ LET m == job[a].load
       IN  /\ \/ /\ up' = up \cup {m}
                 /\ Goes(a, [job[a] EXCEPT !.at = "up", !.started = TRUE])
                 /\ UNCHANGED left
              \/ /\ Spends("faults") /\ Fails(a)
                 /\ up' = up \/ (LateEffects /\ up' = up \cup {m})
    /\ UNCHANGED <<ledger, queue, resting, busy, view, history>>

\* Active, healthy and serving the requested id, before a deadline.
VerifyUp(a) ==
    /\ At(a, "up")
    /\ \/ job[a].load \in up /\ To(a, "settle") /\ UNCHANGED left
       \/ job[a].load \notin up /\ Fails(a) /\ UNCHANGED left
       \/ Spends("faults") /\ Fails(a)
    /\ UNCHANGED <<up, ledger, queue, resting, busy, view, history>>

Settle(a) ==
    /\ At(a, "settle")
    /\ res' = Synced(res, up)
    /\ End(a, job[a], TRUE)
    /\ UNCHANGED <<up, busy, view, history, left>>

\* The rollback: stop what was started, start what was stopped, and take the
\* markers of this sequence back.
\* Mutant: the unit that came up wrong is left running.
Unstarted_Kept(m) == up
Unstarted(m) == up \ {m}
Unstart(a) ==
    /\ At(a, "unstart")
    /\ \/ up' = Unstarted(job[a].load) /\ UNCHANGED <<incomplete, left>>
       \/ Spends("faults") /\ incomplete' = TRUE /\ UNCHANGED up
    /\ To(a, "restart")
    /\ UNCHANGED <<ledger, queue, resting, busy, view, orphaned>>

Restart(a) ==
    /\ At(a, "restart")
    /\ \E v \in job[a].stopped :
         /\ Goes(a, [job[a] EXCEPT !.stopped = @ \ {v}])
         /\ \/ up' = up \cup {v} /\ UNCHANGED <<incomplete, left>>
            \/ Spends("faults") /\ incomplete' = TRUE /\ UNCHANGED up
    /\ UNCHANGED <<ledger, queue, resting, busy, view, orphaned>>

Unmarked(r, vs) == [m \in Models |-> IF m \in vs /\ r[m] = "draining" THEN "hot" ELSE r[m]]
Unmark(a) ==
    /\ At(a, "restart") /\ job[a].stopped = {}
    /\ res' = Unmarked(Synced(res, up), job[a].victims)
    /\ End(a, job[a], FALSE)
    /\ UNCHANGED <<up, busy, view, history, left>>

-----------------------------------------------------------------------------
\* The dashboard dies, with its queue, its cooldowns and the sequences of its
\* runs, or the operator's command does.  Nobody takes up where they were.
Die(runs) ==
    /\ Spends("deaths")
    /\ \E a \in runs : ~Idle(a)
    /\ job' = [a \in Runs |-> IF a \in runs THEN NoJob ELSE job[a]]
    /\ orphaned' = orphaned \cup UNION {job[a].victims : a \in {b \in runs : ~At(b, "queued")}}
    /\ IF "sweep" \in runs THEN queue' = <<>> /\ resting' = {} ELSE UNCHANGED <<queue, resting>>
    /\ UNCHANGED <<up, ledger, busy, view, incomplete>>

-----------------------------------------------------------------------------
\* Units run or not; a first sync has been done.
Init ==
    /\ up \in {S \in SUBSET Models : Used(S) <= Capacity}
    /\ res = Synced([m \in Models |-> "none"], up) /\ usage = [m \in AllowUnload |-> "none"]
    /\ pending = {}
    /\ queue = <<>> /\ job = [a \in Runs |-> NoJob] /\ resting = {} /\ busy = {}
    /\ view = {} /\ incomplete = FALSE /\ orphaned = {}
    /\ left \in Budgets

Step(a) == Drain(a) \/ Check(a) \/ Stop(a) \/ Freed(a) \/ Start(a) \/ VerifyUp(a) \/ Settle(a)
             \/ Unstart(a) \/ Restart(a) \/ Unmark(a)
Next ==
    \/ \E m \in Models :
         \/ Forward(m) \/ Park(m) \/ Lapse(m) \/ Send(m) \/ Respond(m) \/ Age(m) \/ BeginAuto(m)
         \/ Apply(m) \/ Load(m) \/ UnloadByHand(m) \/ Dismiss(m)
    \/ \E a \in Runs : Step(a)
    \/ Die(Runs \ {"operator"}) \/ Die({"operator"})
    \/ Cool \/ SyncProbe \/ SyncWrite \/ BeginSweep \/ Sweep

\* The awaits of a sequence end by themselves or at a deadline, and a promise
\* that is settled is taken up.
Spec ==
    /\ Init /\ [][Next]_vars
    /\ \A a \in Runs : WF_vars(Step(a))
    /\ \A m \in Models : WF_vars(BeginAuto(m))
    /\ WF_vars(SyncWrite) /\ WF_vars(Sweep)

-----------------------------------------------------------------------------
(* Properties.                                                             *)

\* State keeps its type, and a run in the queue its sequence.
TypeOK ==
    /\ up \subseteq Models /\ busy \subseteq Models
    /\ res \in [Models -> {"none", "hot", "draining"}]
    /\ usage \in [AllowUnload -> {"none", "fresh", "old"}]
    /\ pending \subseteq Models
    /\ \A m \in Models : (\E i \in DOMAIN queue : queue[i] = m) <=> ~Idle(m)
    /\ Len(queue) <= MaxRuns
    /\ resting \subseteq {"auto", "sweep"} \X Models
    /\ incomplete \in BOOLEAN /\ orphaned \subseteq Models

\* What runs fits the device, through failed starts, stops and rollbacks,
\* unless a rollback reported that it was incomplete ("oversubscribe the
\* device - the partial-enforcement variant", rollback).
Fits == incomplete \/ Used(up) <= Capacity

\* Every automatic run ends, so that its model may be loaded again (the tail
\* "deadlocks the run forever" when a run awaits a promise of itself).
RunsEnd == \A m \in Models : ~Idle(m) ~> Idle(m)


\* A unit that a sequence stops has no generation in flight ("a request admitted
\* into the drain's poll gap must not be cut silently").
NoCut ==
    [][\A a \in Runs : At(a, "stop") /\ job'[a] # job[a] => (up \ up') \cap busy = {}]_vars
================================================================================
