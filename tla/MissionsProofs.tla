----------------------------- MODULE MissionsProofs -----------------------------
(***************************************************************************)
(* Theorems about Missions.  Types hold for any pollers and any timing.    *)
(* That one delivery runs at a time and that a mission is closed under its *)
(* present criteria hold when cycles fit in one interval, replans wait for *)
(* them, no poller dies with a pid unrecorded, and a process saves its     *)
(* first state within the launch grace and the first backoff.              *)
(***************************************************************************)
EXTENDS Missions, SequenceTheorems, FiniteSetTheorems, TLAPS

\* The timing of the deployment, and what the operator and the daemon avoid.
Prompt == /\ MaxHold = 0 /\ MaxStart < Grace /\ MaxStart < Step
          /\ QuietReplan /\ ~CrashInSpawn

-----------------------------------------------------------------------------
(* The inductive invariant of the types.                                    *)

Stages == {Idle, "look", "link", "sync", "decide", "supervise", "claim", "spawn", "adopt", "close"}
KidStates == {"starting", "working", "saved", "gone"}
Statuses == {"none", "running"} \cup Ends
MissionRow == [status : {"active", "paused", "delivered"}, plan : Nat, run : Nat, pid : Nat,
               launches : Nat, resumes : Nat, age : Int]
KidRow == [run : Nat, claim : Nat, state : KidStates, age : Nat, plan : Nat]
RunRow == [status : Statuses, pid : Nat, upd : Nat]
SnapRow == [plan : Nat, run : Nat, pid : Nat]
SeenRow == [run : Nat, status : Statuses, pid : Nat, upd : Nat]

\* A run that has a state, and a process that exists.
HasState(r) == r \in Launches /\ runs[r].status # "none"
IsKid(k) == k = None \/ k \in Launches

RowOK ==
    /\ mission \in MissionRow
    /\ mission.plan \in 1..(MaxReplans + 1)
    /\ mission.launches <= MaxLaunches /\ mission.resumes <= mission.launches
    /\ mission.age \in {Never} \cup 0..MaxAge
    /\ mission.run # None => HasState(mission.run)
    /\ IsKid(mission.pid)

\* Processes and runs; a claim spawns once.
RunsOK ==
    /\ kids \in Seq(KidRow) /\ runs \in Seq(RunRow) /\ Len(runs) = Len(kids)
    /\ \A k \in Launches : /\ kids[k].run \in 1..k /\ kids[k].claim \in 1..mission.launches
                           /\ IsKid(runs[k].pid)
                           /\ runs[k].status # "none" <=> runs[k].pid # None
    /\ \A j, k \in Launches : kids[j].claim = kids[k].claim => j = k

ViewsOK ==
    /\ stage \in [Pollers -> Stages]
    /\ snap \in [Pollers -> SnapRow] /\ seen \in [Pollers -> SeenRow]
    /\ plan \in [Pollers -> Nat] /\ job \in [Pollers -> {"fresh", "resume"}]
    /\ ticket \in [Pollers -> Nat] /\ hold \in [Pollers -> 0..MaxHold]

\* What a cycle has read exists; a claim in hand has not spawned yet.
ViewOK(p) ==
    /\ snap[p].run # None => HasState(snap[p].run)
    /\ IsKid(snap[p].pid)
    /\ seen[p].run # None => HasState(seen[p].run)
    /\ seen[p].run = None => seen[p].status = "none"
    /\ IsKid(seen[p].pid)
    /\ stage[p] \in {Idle, "look"} => seen[p].run = None /\ job[p] = "fresh"
    /\ stage[p] \in {"link", "sync"} => seen[p].run # None
    /\ job[p] = "resume" => seen[p].run # None
    /\ stage[p] \in {"link", "sync", "decide"} => job[p] = "fresh"
    /\ stage[p] \in {"spawn", "adopt"} => ticket[p] \in 1..mission.launches
    /\ stage[p] = "spawn" => \A k \in Launches : kids[k].claim # ticket[p]
    /\ stage[p] = "adopt" => \E k \in Launches : kids[k].claim = ticket[p]
TicketsApart ==
    \A p, q \in Pollers : stage[p] = "spawn" /\ stage[q] = "spawn" /\ ticket[p] = ticket[q] => p = q

MissionTyped == RowOK /\ RunsOK /\ ViewsOK /\ (\A p \in Pollers : ViewOK(p)) /\ TicketsApart

-----------------------------------------------------------------------------
(* The inductive invariant of prompt cycles.                                *)

\* A process that is starting or working on the present criteria.
Live(k) == /\ k \in Launches /\ kids[k].plan = mission.plan
           /\ kids[k].state \in {"starting", "working"}
\* Nothing has been claimed in this interval.
Calm == mission.age # 0
\* The cycles that hold a claim.
Launching(p) == stage[p] \in {"spawn", "adopt"}
\* Process k has ended, or belongs to old criteria, and its run shows another.
Gone(k) == /\ kids[k].state \notin {"starting", "working"}
           /\ runs[kids[k].run].pid # k
\* Nothing to link: no run, and the last launch left none.
Barren == mission.run = None /\ (mission.pid # None => Gone(mission.pid))

\* Criteria: those of a run are those of its processes, and what the row and a
\* cycle refer to is of the present ones.
PlanView(p) == stage[p] # Idle =>
    /\ snap[p].plan = mission.plan
    /\ snap[p].run # None => kids[snap[p].run].plan = mission.plan
    /\ snap[p].pid # None => kids[snap[p].pid].plan = mission.plan
    /\ seen[p].run # None => kids[seen[p].run].plan = mission.plan
    /\ stage[p] \in {"claim", "spawn"} => plan[p] = mission.plan
PlansKept ==
    /\ \A k \in Launches : /\ kids[k].plan <= mission.plan
                           /\ kids[k].plan = kids[kids[k].run].plan
    /\ mission.run # None => kids[mission.run].plan = mission.plan
    /\ mission.pid # None => kids[mission.pid].plan = mission.plan
    /\ \A p \in Pollers : PlanView(p)

\* A run has a state once a process of it has registered; the process that is
\* working on the present criteria is the one its state shows.
StatesKept ==
    /\ \A r \in Launches :
         /\ runs[r].status # "none" => kids[r].state # "starting"
         /\ runs[r].pid # None => /\ kids[runs[r].pid].run = r
                                  /\ kids[runs[r].pid].state # "starting"
    /\ \A k \in Launches : kids[k].run # k => HasState(kids[k].run)
    /\ \A k \in Launches : Live(k) /\ kids[k].state = "working" =>
                              runs[kids[k].run].status = "running" /\ runs[kids[k].run].pid = k

\* One claim at a time; a living process is that of the last claim, and the row
\* has its pid unless the poller that spawned it is about to record it.
Recent(k) ==
    /\ kids[k].claim = mission.launches
    /\ mission.pid = k \/ \E p \in Pollers : stage[p] = "adopt"
    /\ kids[k].state = "starting" => kids[k].age = mission.age /\ mission.age <= MaxStart
    /\ kids[k].run # k => mission.resumes >= 1
ClaimsKept ==
    /\ mission.age = Never => mission.launches = 0
    /\ \A p \in Pollers : Launching(p) => ~Calm /\ ticket[p] = mission.launches
    /\ \A p, q \in Pollers : Launching(p) /\ Launching(q) => p = q
    /\ \A k \in Launches : Live(k) => Recent(k)

\* The run of the row is that of its pid, and the run a cycle saw is that too.
LinkView(p) == stage[p] # Idle =>
    /\ Calm \/ (\E q \in Pollers : Launching(q)) => snap[p].pid = mission.pid
    /\ snap[p].run # None => mission.run = snap[p].run
    /\ Calm /\ snap[p].run = None /\ mission.run # None => runs[mission.run].pid = mission.pid
    /\ snap[p].pid # None => /\ mission.pid # None
                             /\ \/ kids[snap[p].pid].run = kids[mission.pid].run
                                \/ Gone(snap[p].pid)
    /\ stage[p] # "link" /\ seen[p].run # None => mission.run = seen[p].run
    /\ stage[p] = "link" => /\ mission.pid # None /\ seen[p].run = kids[mission.pid].run
                            /\ Calm => runs[seen[p].run].pid = mission.pid
RowLinked == mission.run # None => mission.pid # None /\ kids[mission.pid].run = mission.run
LinksKept == RowLinked /\ \A p \in Pollers : LinkView(p)

\* Why a cycle does not launch beside a living process, and what the process is
\* whose pid a cycle is about to record.
Spared(p, k) == mission.age < Owed \/ (seen[p].status = "running" /\ seen[p].pid = k)
ChoiceView(p) ==
    /\ stage[p] = "decide" /\ seen[p].run = None /\ Calm => Barren \/ mission.age \in 0..(Grace - 1)
    /\ stage[p] \in {"link", "sync", "decide"} /\ seen[p].run # None /\ Calm =>
          \A k \in Launches : Live(k) => Spared(p, k)
    /\ stage[p] = "claim" /\ Calm => \A k \in Launches : ~Live(k)
    /\ stage[p] = "claim" /\ Calm /\ job[p] = "fresh" => Barren
    /\ Launching(p) /\ job[p] = "fresh" => Barren /\ \A q \in Pollers : stage[q] # "link"
    /\ stage[p] = "spawn" /\ job[p] = "resume" => mission.resumes >= 1
    /\ stage[p] = "adopt" => \A k \in Launches : kids[k].claim = ticket[p] =>
          /\ kids[k].plan = mission.plan
          /\ kids[k].run = IF job[p] = "fresh" THEN k ELSE seen[p].run
ChoicesKept == \A p \in Pollers : ChoiceView(p)

PromptInv == PlansKept /\ StatesKept /\ ClaimsKept /\ LinksKept /\ ChoicesKept

\* A cycle that has synced a delivered run has its attempt in the ledger.
Attempted(r) == \E a \in counted : a.run = r /\ a.outcome = "delivered"
AttemptView(p) ==
    /\ stage[p] \in {"decide", "close"} /\ seen[p].status = "delivered" => Attempted(seen[p].run)
    /\ stage[p] = "close" => seen[p].status = "delivered"
AttemptsKept == \A p \in Pollers : AttemptView(p)

-----------------------------------------------------------------------------
(* What the statements change in a row.                                     *)

LEMMA RowFields ==
    ASSUME NEW w \in MissionRow
    PROVE  /\ w.status \in {"active", "paused", "delivered"} /\ w.plan \in Nat /\ w.run \in Nat
           /\ w.pid \in Nat /\ w.launches \in Nat /\ w.resumes \in Nat /\ w.age \in Int
  BY DEF MissionRow
LEMMA RunOfRow ==
    ASSUME NEW w \in MissionRow, NEW r \in Nat
    PROVE  LET m == [w EXCEPT !.run = r] IN
           /\ m \in MissionRow /\ m.run = r
           /\ m.status = w.status /\ m.plan = w.plan /\ m.pid = w.pid
           /\ m.launches = w.launches /\ m.resumes = w.resumes /\ m.age = w.age
  BY DEF MissionRow
LEMMA PidOfRow ==
    ASSUME NEW w \in MissionRow, NEW k \in Nat
    PROVE  LET m == [w EXCEPT !.pid = k] IN
           /\ m \in MissionRow /\ m.pid = k
           /\ m.status = w.status /\ m.plan = w.plan /\ m.run = w.run
           /\ m.launches = w.launches /\ m.resumes = w.resumes /\ m.age = w.age
  BY DEF MissionRow
LEMMA StatusOfRow ==
    ASSUME NEW w \in MissionRow, NEW s \in {"active", "paused", "delivered"}
    PROVE  LET m == [w EXCEPT !.status = s] IN
           /\ m \in MissionRow /\ m.status = s
           /\ m.plan = w.plan /\ m.run = w.run /\ m.pid = w.pid
           /\ m.launches = w.launches /\ m.resumes = w.resumes /\ m.age = w.age
  BY DEF MissionRow
LEMMA AgeOfRow ==
    ASSUME NEW w \in MissionRow, NEW a \in Int
    PROVE  LET m == [w EXCEPT !.age = a] IN
           /\ m \in MissionRow /\ m.age = a
           /\ m.status = w.status /\ m.plan = w.plan /\ m.run = w.run /\ m.pid = w.pid
           /\ m.launches = w.launches /\ m.resumes = w.resumes
  BY DEF MissionRow
LEMMA PlanOfRow ==
    ASSUME NEW w \in MissionRow, NEW n \in Nat
    PROVE  LET m == [w EXCEPT !.plan = n, !.run = None, !.pid = None, !.resumes = 0] IN
           /\ m \in MissionRow /\ m.plan = n /\ m.run = None /\ m.pid = None /\ m.resumes = 0
           /\ m.status = w.status /\ m.launches = w.launches /\ m.age = w.age
  BY DEF MissionRow, None

LEMMA KidFields ==
    ASSUME NEW w \in KidRow
    PROVE  /\ w.run \in Nat /\ w.claim \in Nat /\ w.state \in KidStates /\ w.age \in Nat
           /\ w.plan \in Nat
  BY DEF KidRow
LEMMA KidChange ==
    ASSUME NEW w \in KidRow, NEW s \in KidStates
    PROVE  LET v == [w EXCEPT !.state = s, !.age = 0] IN
           /\ v \in KidRow /\ v.state = s /\ v.age = 0
           /\ v.run = w.run /\ v.claim = w.claim /\ v.plan = w.plan
  BY DEF KidRow
LEMMA RunFields ==
    ASSUME NEW w \in RunRow
    PROVE  w.status \in Statuses /\ w.pid \in Nat /\ w.upd \in Nat
  BY DEF RunRow
LEMMA UpdChange ==
    ASSUME NEW w \in RunRow, NEW u \in Nat
    PROVE  LET v == [w EXCEPT !.upd = u] IN
           v \in RunRow /\ v.upd = u /\ v.status = w.status /\ v.pid = w.pid
  BY DEF RunRow

LEMMA TypedFacts ==
    ASSUME MissionTyped
    PROVE  /\ mission \in MissionRow /\ mission.age \in Int /\ mission.launches \in Nat
           /\ mission.resumes \in Nat /\ mission.plan \in Nat /\ mission.run \in Nat
           /\ mission.pid \in Nat
           /\ kids \in Seq(KidRow) /\ runs \in Seq(RunRow)
           /\ Len(kids) \in Nat /\ Len(runs) = Len(kids) /\ Launches = 1..Len(kids)
           /\ \A k \in Launches : /\ k \in Nat \ {0} /\ kids[k] \in KidRow /\ runs[k] \in RunRow
                                  /\ kids[k].run \in Launches /\ kids[k].run \in 1..k
                                  /\ kids[k].state \in KidStates /\ kids[k].age \in Nat
                                  /\ kids[k].plan \in Nat /\ kids[k].claim \in Nat
                                  /\ runs[k].status \in Statuses /\ runs[k].pid \in Nat
                                  /\ runs[k].upd \in Nat
<1>1. mission \in MissionRow /\ kids \in Seq(KidRow) /\ runs \in Seq(RunRow) /\ Len(runs) = Len(kids)
  BY DEF MissionTyped, RowOK, RunsOK
<1>2. Len(kids) \in Nat /\ Launches = 1..Len(kids)
  BY <1>1 DEF Launches
<1>3. \A k \in Launches : k \in Nat \ {0} /\ kids[k] \in KidRow /\ runs[k] \in RunRow
  BY <1>1, <1>2
<1>4. \A k \in Launches : kids[k].run \in 1..k
  BY DEF MissionTyped, RunsOK
<1>5. \A k \in Launches : kids[k].run \in Launches
  BY <1>2, <1>4
<1>6. /\ mission.age \in Int /\ mission.launches \in Nat /\ mission.resumes \in Nat
      /\ mission.plan \in Nat /\ mission.run \in Nat /\ mission.pid \in Nat
  BY <1>1, RowFields
<1>7. \A k \in Launches :
        /\ kids[k].state \in KidStates /\ kids[k].age \in Nat
        /\ kids[k].plan \in Nat /\ kids[k].claim \in Nat
  BY <1>3, KidFields
<1>8. \A k \in Launches :
        runs[k].status \in Statuses /\ runs[k].pid \in Nat /\ runs[k].upd \in Nat
  BY <1>3, RunFields
<1> QED
  BY <1>1, <1>2, <1>3, <1>4, <1>5, <1>6, <1>7, <1>8

-----------------------------------------------------------------------------
(* The steps, by what they do to processes and runs.                        *)

\* Nothing of a process is forgotten but its state, and a run keeps having one.
WorldGrows ==
    /\ Len(kids') \in Nat /\ Launches' = 1..Len(kids') /\ Launches \subseteq Launches'
    /\ \A k \in Launches : /\ kids'[k].run = kids[k].run /\ kids'[k].claim = kids[k].claim
                           /\ kids'[k].plan = kids[k].plan
                           /\ kids[k].state = "gone" => kids'[k].state = "gone"
                           /\ runs[k].status # "none" => runs'[k].status # "none"
RunsTyped ==
    /\ kids \in Seq(KidRow) /\ runs \in Seq(RunRow) /\ Len(runs) = Len(kids)
    /\ \A k \in Launches : /\ kids[k].run \in 1..k
                           /\ IsKid(runs[k].pid)
                           /\ runs[k].status # "none" <=> runs[k].pid # None

\* A step of process k, which may write its run.
Moves(k, s) ==
    /\ Launches' = Launches
    /\ kids'[k].state = s /\ kids'[k].age = 0
    /\ \A j \in Launches : /\ kids'[j].run = kids[j].run /\ kids'[j].claim = kids[j].claim
                           /\ kids'[j].plan = kids[j].plan
                           /\ j # k => kids'[j] = kids[j]
Saves(k, s) ==
    /\ runs'[kids[k].run].status = s /\ runs'[kids[k].run].pid = k
    /\ \A r \in Launches : r # kids[k].run => runs'[r] = runs[r]
Keeps == \A r \in Launches : runs'[r].status = runs[r].status /\ runs'[r].pid = runs[r].pid

LEMMA BecomesKid ==
    ASSUME MissionTyped, NEW k \in Launches, NEW s \in KidStates, Becomes(k, s), kids[k].state # "gone"
    PROVE  /\ Moves(k, s) /\ kids' \in Seq(KidRow) /\ Len(kids') = Len(kids)
           /\ Launches' = 1..Len(kids')
<1> DEFINE v == [kids[k] EXCEPT !.state = s, !.age = 0]
<1>1. kids \in Seq(KidRow) /\ Len(kids) \in Nat /\ kids[k] \in KidRow /\ Launches = 1..Len(kids)
  BY TypedFacts
<1>2. /\ v \in KidRow /\ v.state = s /\ v.age = 0
      /\ v.run = kids[k].run /\ v.claim = kids[k].claim /\ v.plan = kids[k].plan
  BY <1>1, KidChange
<1>3. kids' = [kids EXCEPT ![k] = v]
  BY DEF Becomes
<1> HIDE DEF v
<1>4. /\ kids' \in Seq(KidRow) /\ Len(kids') = Len(kids)
      /\ kids'[k] = v /\ \A j \in Launches : j # k => kids'[j] = kids[j]
  BY <1>1, <1>2, <1>3, ExceptSeq
<1>5. Launches' = Launches /\ Launches' = 1..Len(kids')
  BY <1>1, <1>4 DEF Launches
<1> QED
  BY <1>2, <1>4, <1>5 DEF Moves

LEMMA WritesRun ==
    ASSUME MissionTyped, NEW k \in Launches, NEW s \in Statuses, Writes(k, s)
    PROVE  Saves(k, s) /\ runs' \in Seq(RunRow) /\ Len(runs') = Len(runs)
<1> DEFINE r == kids[k].run
           v == [status |-> s, pid |-> k, upd |-> runs[r].upd + 1]
<1>1. /\ runs \in Seq(RunRow) /\ Len(runs) = Len(kids) /\ Launches = 1..Len(kids)
      /\ r \in Launches /\ runs[r].upd \in Nat /\ k \in Nat
  BY TypedFacts
<1>2. v \in RunRow /\ v.status = s /\ v.pid = k
  BY <1>1 DEF RunRow
<1>3. runs' = [runs EXCEPT ![r] = v]
  BY <1>1 DEF Writes
<1> HIDE DEF v, r
<1>4. /\ runs' \in Seq(RunRow) /\ Len(runs') = Len(runs)
      /\ runs'[r] = v /\ \A j \in Launches : j # r => runs'[j] = runs[j]
  BY <1>1, <1>2, <1>3, ExceptSeq
<1> QED
  BY <1>2, <1>4 DEF Saves, r

\* The steps of a deliver process.
KidStep(k) ==
    \/ kids[k].state = "starting" /\ ~Refusable(k) /\ Moves(k, "working") /\ Saves(k, "running")
    \/ kids[k].state = "working" /\ Moves(k, "saved") /\ \E s \in Ends : Saves(k, s)
    \/ kids[k].state = "starting" /\ Moves(k, "gone") /\ Keeps
    \/ kids[k].state \in {"working", "saved"} /\ Moves(k, "gone") /\ Keeps

LEMMA KeepsRuns ==
    ASSUME MissionTyped, NEW k \in Launches, \/ runs' = runs
                                             \/ runs' = [runs EXCEPT ![kids[k].run].upd = @ + 1]
    PROVE  Keeps /\ runs' \in Seq(RunRow) /\ Len(runs') = Len(runs)
<1>0. /\ runs \in Seq(RunRow) /\ Len(runs) = Len(kids) /\ Len(kids) \in Nat
      /\ Launches = 1..Len(kids) /\ kids[k].run \in Launches
  BY TypedFacts
<1>1. CASE runs' = runs
  BY <1>0, <1>1 DEF Keeps
<1>2. CASE runs' = [runs EXCEPT ![kids[k].run].upd = @ + 1]
  <2> DEFINE r == kids[k].run
             u == runs[r].upd + 1
             v == [runs[r] EXCEPT !.upd = u]
  <2>1. r \in 1..Len(runs) /\ runs[r] \in RunRow /\ runs[r].upd \in Nat
    BY <1>0, TypedFacts
  <2>2. u \in Nat
    BY <2>1
  <2>3. runs' = [runs EXCEPT ![r] = v]
    BY <1>2, <2>1
  <2> HIDE DEF u
  <2>4. v \in RunRow /\ v.status = runs[r].status /\ v.pid = runs[r].pid
    BY <2>1, <2>2, UpdChange
  <2> HIDE DEF v, r
  <2>5. /\ runs' \in Seq(RunRow) /\ Len(runs') = Len(runs)
        /\ runs'[r] = v /\ \A j \in Launches : j # r => runs'[j] = runs[j]
    BY <1>0, <2>1, <2>3, <2>4, ExceptSeq
  <2> QED
    BY <2>4, <2>5 DEF Keeps
<1> QED
  BY <1>1, <1>2

LEMMA KidSteps ==
    ASSUME MissionTyped, NEW k \in Launches, Run(k) \/ Fail(k) \/ Kill(k)
    PROVE  /\ UNCHANGED <<mission, stage, snap, seen, plan, job, ticket, hold>>
           /\ KidStep(k) /\ RunsTyped' /\ WorldGrows
<1>0. /\ kids \in Seq(KidRow) /\ runs \in Seq(RunRow) /\ Len(runs) = Len(kids) /\ Len(kids) \in Nat
      /\ Launches = 1..Len(kids) /\ k \in Nat \ {0}
      /\ kids[k].run \in Launches
  BY TypedFacts
<1>1. UNCHANGED <<mission, stage, snap, seen, plan, job, ticket, hold>>
  BY DEF Run, Register, Refused, Deliver, Exit, Fail, Kill, others, locals
<1>2. /\ Ends \subseteq Statuses /\ "running" \in Statuses
      /\ "failed" \in Ends /\ "interrupted" \in Ends /\ "delivered" \in Ends
      /\ KidStates = {"starting", "working", "saved", "gone"}
      /\ "none" \notin Ends /\ "none" # "running"
  BY DEF Statuses, Ends, KidStates
<1>3. \E t \in KidStates : Becomes(k, t) /\ kids[k].state # "gone"
  BY <1>2, Zenon DEF Run, Register, Refused, Deliver, Exit, Fail, Kill
<1>4. PICK t \in KidStates : Becomes(k, t) /\ kids[k].state # "gone"
  BY <1>3
<1>5. Moves(k, t) /\ kids' \in Seq(KidRow) /\ Len(kids') = Len(kids) /\ Launches' = 1..Len(kids')
  BY <1>4, BecomesKid
<1>6. \/ \E s \in Ends \cup {"running"} : Writes(k, s)
      \/ runs' = runs
      \/ runs' = [runs EXCEPT ![kids[k].run].upd = @ + 1]
  BY <1>2 DEF Run, Register, Refused, Deliver, Exit, Fail, Kill
<1>7. /\ runs' \in Seq(RunRow) /\ Len(runs') = Len(runs)
      /\ \A r \in Launches : \/ runs'[r].status = runs[r].status /\ runs'[r].pid = runs[r].pid
                             \/ /\ runs'[r].status \in Ends \cup {"running"} /\ runs'[r].pid = k
  <2>1. ASSUME NEW s \in Ends \cup {"running"}, Writes(k, s)
        PROVE  /\ runs' \in Seq(RunRow) /\ Len(runs') = Len(runs)
               /\ \A r \in Launches : runs'[r] = runs[r] \/ (runs'[r].status = s /\ runs'[r].pid = k)
    <3>1. s \in Statuses
      BY <1>2, <2>1
    <3>2. Saves(k, s) /\ runs' \in Seq(RunRow) /\ Len(runs') = Len(runs)
      BY <2>1, <3>1, WritesRun
    <3>3. /\ runs'[kids[k].run].status = s /\ runs'[kids[k].run].pid = k
          /\ \A r \in Launches : r # kids[k].run => runs'[r] = runs[r]
      BY <3>2 DEF Saves
    <3>4. ASSUME NEW r \in Launches PROVE runs'[r] = runs[r] \/ (runs'[r].status = s /\ runs'[r].pid = k)
      BY <3>3
    <3> QED
      BY <3>2, <3>4
  <2>2. CASE \/ runs' = runs
             \/ runs' = [runs EXCEPT ![kids[k].run].upd = @ + 1]
    BY <2>2, KeepsRuns DEF Keeps
  <2> QED
    BY <1>6, <2>1, <2>2
<1>8. KidStep(k)
  <2>1. CASE Register(k)
    BY <1>2, <2>1, BecomesKid, WritesRun DEF Register, KidStep
  <2>2. CASE Refused(k)
    BY <1>2, <2>2, BecomesKid, KeepsRuns DEF Refused, KidStep
  <2>3. CASE Deliver(k)
    BY <1>2, <2>3, BecomesKid, WritesRun DEF Deliver, KidStep
  <2>4. CASE Fail(k)
    <3>1. PICK s \in {"failed", "interrupted"} : Writes(k, s)
      BY <2>4 DEF Fail
    <3>2. s \in Ends /\ s \in Statuses
      BY <1>2
    <3> QED
      BY <1>2, <2>4, <3>1, <3>2, BecomesKid, WritesRun DEF Fail, KidStep
  <2>5. CASE Exit(k)
    BY <1>2, <2>5, BecomesKid, KeepsRuns DEF Exit, KidStep
  <2>6. CASE Kill(k)
    BY <1>2, <2>6, BecomesKid, KeepsRuns DEF Kill, KidStep
  <2> QED
    BY <2>1, <2>2, <2>3, <2>4, <2>5, <2>6 DEF Run
<1>9. \A r \in Launches : /\ IsKid(runs[r].pid)'
                          /\ runs'[r].status # "none" <=> runs'[r].pid # None
                          /\ runs[r].status # "none" => runs'[r].status # "none"
  <2>1. \A r \in Launches : IsKid(runs[r].pid) /\ (runs[r].status # "none" <=> runs[r].pid # None)
    BY DEF MissionTyped, RunsOK
  <2>2. Launches' = Launches /\ k # None
    BY <1>0, <1>5 DEF Moves, None
  <2> QED
    BY <1>2, <1>7, <2>1, <2>2 DEF IsKid
<1>10. \A j \in Launches : kids[j].run \in 1..j
  BY DEF MissionTyped, RunsOK
<1>11. RunsTyped'
  BY <1>0, <1>5, <1>7, <1>9, <1>10 DEF RunsTyped, Moves
<1>12. WorldGrows
  BY <1>0, <1>4, <1>5, <1>9 DEF WorldGrows, Moves
<1> QED
  BY <1>1, <1>8, <1>11, <1>12

\* The clock.
LEMMA AgedKids ==
    ASSUME NEW w \in KidRow
    PROVE  LET v == [w EXCEPT !.age = @ + 1] IN
           /\ v \in KidRow /\ v.age = w.age + 1
           /\ v.run = w.run /\ v.claim = w.claim /\ v.plan = w.plan /\ v.state = w.state
  BY DEF KidRow

Ages == /\ Launches' = Launches /\ runs' = runs
        /\ \A k \in Launches : /\ kids'[k].run = kids[k].run /\ kids'[k].claim = kids[k].claim
                               /\ kids'[k].plan = kids[k].plan /\ kids'[k].state = kids[k].state
                               /\ kids[k].state # "gone" => kids'[k].age = kids[k].age + 1
RowAges == /\ mission' \in MissionRow
           /\ mission'.status = mission.status /\ mission'.plan = mission.plan
           /\ mission'.run = mission.run /\ mission'.pid = mission.pid
           /\ mission'.launches = mission.launches /\ mission'.resumes = mission.resumes
           /\ mission'.age = IF mission.age = Never THEN Never ELSE Least(mission.age + 1, MaxAge)

LEMMA Ticks ==
    ASSUME MissionTyped, Tick
    PROVE  /\ UNCHANGED <<stage, snap, seen, plan, job, ticket>>
           /\ Ages /\ RowAges /\ RunsTyped' /\ WorldGrows
<1> DEFINE ks == [k \in Launches |-> IF kids[k].state = "gone" THEN kids[k]
                                   ELSE [kids[k] EXCEPT !.age = @ + 1]]
<1>0. /\ mission \in MissionRow /\ mission.age \in Int
      /\ kids \in Seq(KidRow) /\ runs \in Seq(RunRow) /\ Len(runs) = Len(kids) /\ Len(kids) \in Nat
      /\ Launches = 1..Len(kids) /\ \A k \in Launches : kids[k] \in KidRow
  BY TypedFacts
<1>1. kids' = ks /\ runs' = runs /\ UNCHANGED <<stage, snap, seen, plan, job, ticket>>
  BY DEF Tick
<1>2. \A k \in Launches : /\ ks[k] \in KidRow /\ ks[k].run = kids[k].run /\ ks[k].claim = kids[k].claim
                          /\ ks[k].plan = kids[k].plan /\ ks[k].state = kids[k].state
                          /\ kids[k].state # "gone" => ks[k].age = kids[k].age + 1
  BY <1>0, AgedKids
<1>3. ks \in [1..Len(kids) -> KidRow]
  BY <1>0, <1>2
<1> HIDE DEF ks
<1>4. kids' \in Seq(KidRow) /\ Len(kids') = Len(kids) /\ Launches' = Launches
  BY <1>0, <1>1, <1>3 DEF Launches
<1>5. Ages
  BY <1>1, <1>2, <1>4 DEF Ages
<1>6. RowAges
  <2> DEFINE a == IF mission.age = Never THEN mission.age ELSE Least(mission.age + 1, MaxAge)
  <2>1. mission' = [mission EXCEPT !.age = a]
    BY <1>0 DEF Tick
  <2>2. a \in Int
    BY <1>0, MissionAssumption DEF Least, MaxAge
  <2>3. a = IF mission.age = Never THEN Never ELSE Least(mission.age + 1, MaxAge)
    OBVIOUS
  <2> HIDE DEF a
  <2> QED
    BY <1>0, <2>1, <2>2, <2>3, AgeOfRow DEF RowAges
<1>7. /\ \A k \in Launches : kids[k].run \in 1..k
      /\ \A r \in Launches : IsKid(runs[r].pid) /\ (runs[r].status # "none" <=> runs[r].pid # None)
  BY DEF MissionTyped, RunsOK
<1>8. RunsTyped'
  BY <1>0, <1>1, <1>2, <1>4, <1>7 DEF RunsTyped, IsKid
<1>9. WorldGrows
  BY <1>0, <1>1, <1>2, <1>4 DEF WorldGrows
<1> QED
  BY <1>1, <1>5, <1>6, <1>8, <1>9

\* A spawn.
Spawns(p) ==
    LET k == Len(kids) + 1 IN
    /\ k \notin Launches /\ Launches' = Launches \cup {k}
    /\ \A j \in Launches : kids'[j] = kids[j] /\ runs'[j] = runs[j]
    /\ runs'[k].status = "none" /\ runs'[k].pid = None
    /\ kids'[k].claim = ticket[p] /\ kids'[k].state = "starting" /\ kids'[k].age = 0
    /\ kids'[k].run = IF job[p] = "fresh" THEN k ELSE seen[p].run
    /\ kids'[k].plan = IF job[p] = "fresh" THEN plan[p] ELSE kids[seen[p].run].plan

LEMMA SpawnSteps ==
    ASSUME MissionTyped, NEW p \in Pollers, Spawn(p)
    PROVE  /\ UNCHANGED <<mission, snap, seen, plan, job, ticket, hold>>
           /\ Spawns(p) /\ RunsTyped' /\ WorldGrows
<1> DEFINE k == Len(kids) + 1
           r == IF job[p] = "fresh" THEN k ELSE seen[p].run
           pl == IF r = k THEN plan[p] ELSE kids[r].plan
           w == [run |-> r, claim |-> ticket[p], state |-> "starting", age |-> 0, plan |-> pl]
<1>0. /\ kids \in Seq(KidRow) /\ runs \in Seq(RunRow) /\ Len(runs) = Len(kids) /\ Len(kids) \in Nat
      /\ Launches = 1..Len(kids)
      /\ \A j \in Launches : kids[j].plan \in Nat /\ kids[j].run \in 1..j
      /\ \A j \in Launches : IsKid(runs[j].pid) /\ (runs[j].status # "none" <=> runs[j].pid # None)
  <2>1. \A j \in Launches : /\ kids[j].run \in 1..j
                            /\ IsKid(runs[j].pid) /\ (runs[j].status # "none" <=> runs[j].pid # None)
    BY DEF MissionTyped, RunsOK
  <2> QED
    BY <2>1, TypedFacts
<1>1. /\ kids' = Append(kids, w) /\ runs' = Append(runs, NoState)
      /\ UNCHANGED <<mission, snap, seen, plan, job, ticket, hold>> /\ stage[p] = "spawn"
  BY DEF Spawn, locals
<1>2. /\ job[p] = "fresh" => r = k
      /\ job[p] # "fresh" => r \in Launches /\ r = seen[p].run /\ r # k
  <2>1. job[p] # "fresh" => job[p] = "resume"
    BY DEF MissionTyped, ViewsOK
  <2>2. job[p] = "resume" => seen[p].run \in Launches
    BY DEF MissionTyped, ViewOK, HasState
  <2> QED
    BY <1>0, <2>1, <2>2
<1>3. k \in Nat /\ k \notin Launches /\ r \in 1..k
  BY <1>0, <1>2
<1>4. pl \in Nat /\ pl = IF job[p] = "fresh" THEN plan[p] ELSE kids[seen[p].run].plan
  <2>1. plan[p] \in Nat
    BY DEF MissionTyped, ViewsOK
  <2> QED
    BY <1>0, <1>2, <2>1
<1>5. r = IF job[p] = "fresh" THEN k ELSE seen[p].run
  OBVIOUS
<1> HIDE DEF pl, r
<1>6. /\ w \in KidRow /\ w.run = r /\ w.claim = ticket[p] /\ w.state = "starting" /\ w.age = 0
      /\ w.plan = pl
  <2>1. ticket[p] \in Nat /\ r \in Nat
    BY <1>3 DEF MissionTyped, ViewsOK
  <2> QED
    BY <1>4, <2>1 DEF KidRow, KidStates
<1>7. NoState \in RunRow /\ NoState.status = "none" /\ NoState.pid = None
  BY DEF NoState, RunRow, Statuses, None
<1> HIDE DEF w
<1>8. /\ kids' \in Seq(KidRow) /\ Len(kids') = k
      /\ kids'[k] = w /\ \A j \in 1..Len(kids) : kids'[j] = kids[j]
  BY <1>0, <1>1, <1>6, AppendProperties
<1>9. /\ runs' \in Seq(RunRow) /\ Len(runs') = k
      /\ runs'[k] = NoState /\ \A j \in 1..Len(kids) : runs'[j] = runs[j]
  BY <1>0, <1>1, <1>7, AppendProperties
<1>10. Launches' = 1..Len(kids') /\ Launches' = Launches \cup {k}
  BY <1>0, <1>8 DEF Launches
<1>11. Spawns(p)
  BY <1>0, <1>3, <1>4, <1>5, <1>6, <1>7, <1>8, <1>9, <1>10 DEF Spawns
<1>12. RunsTyped'
  BY <1>0, <1>3, <1>6, <1>7, <1>8, <1>9, <1>10 DEF RunsTyped, IsKid
<1>13. WorldGrows
  BY <1>0, <1>3, <1>8, <1>9, <1>10 DEF WorldGrows
<1> QED
  BY <1>1, <1>11, <1>12, <1>13

-----------------------------------------------------------------------------
(* Types.                                                                   *)

\* The cycle of p goes on, or ends; other pollers have what they had.
Stays(q) == /\ stage'[q] = stage[q] /\ snap'[q] = snap[q] /\ seen'[q] = seen[q] /\ plan'[q] = plan[q]
            /\ job'[q] = job[q] /\ ticket'[q] = ticket[q]
Ended(p) == /\ stage'[p] = Idle /\ snap'[p] = NoRow /\ seen'[p] = NoRun /\ job'[p] = "fresh"
OthersStay(p) == \A q \in Pollers \ {p} : Stays(q)

LEMMA EndsCycle ==
    ASSUME ViewsOK, NEW p \in Pollers, EndCycle(p)
    PROVE  ViewsOK' /\ Ended(p) /\ OthersStay(p)
<1>1. /\ NoRow \in SnapRow /\ NoRun \in SeenRow /\ Idle \in Stages /\ 0 \in 0..MaxHold
  BY MissionAssumption DEF NoRow, NoRun, SnapRow, SeenRow, Statuses, None, Stages
<1> QED
  BY <1>1 DEF ViewsOK, EndCycle, GoTo, Ended, OthersStay, Stays

\* What a poller does on its own.
PollerStep(p) == Snapshot(p) \/ Cycle(p) \/ SpawnFails(p) \/ Crash(p)

LEMMA SeesRun ==
    ASSUME MissionTyped, NEW r, HasState(r)
    PROVE  /\ Copy(r) \in SeenRow /\ Copy(r).run = r
           /\ Copy(r).status = runs[r].status /\ Copy(r).pid = runs[r].pid
           /\ IsKid(runs[r].pid) /\ r # None
<1>1. r \in Launches /\ IsKid(runs[r].pid)
  BY DEF HasState, MissionTyped, RunsOK
<1>2. r \in Nat \ {0} /\ runs[r].status \in Statuses /\ runs[r].pid \in Nat /\ runs[r].upd \in Nat
  BY <1>1, TypedFacts
<1> QED
  BY <1>1, <1>2 DEF Copy, SeenRow, None

\* The look of a cycle at its run.
Looks(p) ==
    \/ /\ snap[p].run # None /\ stage'[p] = "sync"
       /\ HasState(snap[p].run) /\ seen'[p] = Copy(snap[p].run)
    \/ /\ snap[p].run = None /\ stage'[p] = "link"
       /\ \E r \in Discovered(p) : HasState(r) /\ seen'[p] = Copy(r)
    \/ /\ snap[p].run = None /\ Discovered(p) = {} /\ stage'[p] = "decide"
       /\ seen'[p] = seen[p]

LEMMA LookSteps ==
    ASSUME MissionTyped, NEW p \in Pollers, Look(p)
    PROVE  Looks(p) /\ OthersStay(p) /\ ViewsOK'
           /\ snap' = snap /\ plan' = plan /\ job' = job /\ ticket' = ticket
<1>0. /\ stage \in [Pollers -> Stages] /\ seen \in [Pollers -> SeenRow] /\ ViewsOK
      /\ UNCHANGED <<snap, plan, job, ticket, hold>>
  BY DEF MissionTyped, ViewsOK, Look
<1>1. snap[p].run # None => HasState(snap[p].run)
  BY DEF MissionTyped, ViewOK
<1>2. \A r \in Discovered(p) : HasState(r)
  BY DEF Discovered, HasState
<1>3. {"sync", "link", "decide"} \subseteq Stages
  BY DEF Stages
<1>4. CASE /\ snap[p].run # None
           /\ seen' = [seen EXCEPT ![p] = Copy(snap[p].run)]
           /\ GoTo(p, "sync")
  <2>1. Copy(snap[p].run) \in SeenRow
    BY <1>1, <1>4, SeesRun
  <2> QED
    BY <1>0, <1>1, <1>3, <1>4, <2>1 DEF GoTo, Looks, OthersStay, Stays, ViewsOK
<1>5. CASE /\ snap[p].run = None
           /\ \E r \in Discovered(p) : seen' = [seen EXCEPT ![p] = Copy(r)]
           /\ GoTo(p, "link")
  <2>1. PICK r \in Discovered(p) : seen' = [seen EXCEPT ![p] = Copy(r)]
    BY <1>5
  <2>2. Copy(r) \in SeenRow /\ HasState(r)
    BY <1>2, <2>1, SeesRun
  <2> QED
    BY <1>0, <1>3, <1>5, <2>1, <2>2 DEF GoTo, Looks, OthersStay, Stays, ViewsOK
<1>6. CASE snap[p].run = None /\ Discovered(p) = {} /\ GoTo(p, "decide") /\ UNCHANGED seen
  BY <1>0, <1>3, <1>6 DEF GoTo, Looks, OthersStay, Stays, ViewsOK
<1> QED
  BY <1>0, <1>4, <1>5, <1>6 DEF Look

\* The decision of a cycle.
Decides(p) ==
    \/ Ended(p)
    \/ /\ mission.status = "active" /\ plan'[p] = mission.plan
       /\ snap'[p] = snap[p] /\ seen'[p] = seen[p]
       /\ \/ seen[p].run = None /\ ~InFlight(p) /\ stage'[p] = "claim" /\ job'[p] = job[p]
          \/ seen[p].run # None /\ stage'[p] = "supervise" /\ job'[p] = job[p]
          \/ /\ seen[p].run # None /\ Unfinished(p) /\ Since(p) >= Owed
             /\ stage'[p] = "claim" /\ job'[p] = "resume"
          \/ seen[p].status = "delivered" /\ stage'[p] = "close" /\ job'[p] = job[p]

LEMMA DecideSteps ==
    ASSUME MissionTyped, NEW p \in Pollers, Decide(p)
    PROVE  Decides(p) /\ OthersStay(p) /\ ViewsOK'
<1>0. ViewsOK /\ mission.plan \in Nat
  BY TypedFacts DEF MissionTyped
<1>1. {"claim", "supervise", "close"} \subseteq Stages
  BY DEF Stages
<1>2. CASE EndCycle(p)
  BY <1>0, <1>2, EndsCycle DEF Decides
<1>3. CASE /\ mission.status = "active"
           /\ \/ /\ seen[p].run = None /\ ~InFlight(p)
                 /\ GoTo(p, "claim") /\ UNCHANGED job
              \/ /\ seen[p].run # None /\ EndOf(seen[p]) = {}
                 /\ GoTo(p, "supervise") /\ UNCHANGED job
              \/ /\ seen[p].run # None /\ Unfinished(p) /\ Since(p) >= Owed
                 /\ GoTo(p, "claim") /\ job' = [job EXCEPT ![p] = "resume"]
              \/ /\ seen[p].status = "delivered"
                 /\ GoTo(p, "close") /\ UNCHANGED job
           /\ plan' = [plan EXCEPT ![p] = mission.plan]
           /\ UNCHANGED <<snap, seen, ticket, hold>>
  <2>1. OthersStay(p) /\ ViewsOK'
    BY <1>0, <1>1, <1>3 DEF GoTo, OthersStay, Stays, ViewsOK
  <2>2. Decides(p)
    BY <1>0, <1>3 DEF GoTo, Decides, ViewsOK
  <2> QED
    BY <2>1, <2>2
<1> QED
  BY <1>2, <1>3 DEF Decide

\* The other statements.
RowKeeps == /\ mission' \in MissionRow /\ mission'.plan = mission.plan
            /\ mission'.launches = mission.launches /\ mission'.resumes = mission.resumes
            /\ mission'.age = mission.age
Claims(p) ==
    /\ mission' \in MissionRow /\ Free(p) /\ mission.launches < MaxLaunches
    /\ mission'.plan = mission.plan /\ mission'.run = mission.run /\ mission'.pid = mission.pid
    /\ mission'.launches = mission.launches + 1 /\ mission'.age = hold[p]
    /\ mission'.resumes = IF job[p] = "resume" THEN mission.resumes + 1 ELSE mission.resumes
    /\ ticket'[p] = mission.launches + 1 /\ stage'[p] = "spawn"
    /\ snap'[p] = snap[p] /\ seen'[p] = seen[p] /\ plan'[p] = plan[p] /\ job'[p] = job[p]
Adopts(p) ==
    /\ Ended(p)
    /\ \/ mission' = mission /\ mission.launches # ticket[p]
       \/ /\ RowKeeps /\ mission'.run = mission.run
          /\ mission'.pid \in Launches /\ kids[mission'.pid].claim = ticket[p]

LEMMA ClaimSteps ==
    ASSUME MissionTyped, NEW p \in Pollers, ClaimLaunch(p)
    PROVE  /\ (Ended(p) /\ mission' = mission) \/ Claims(p)
           /\ OthersStay(p) /\ ViewsOK' /\ kids' = kids /\ runs' = runs
<1>0. /\ ViewsOK /\ kids' = kids /\ runs' = runs /\ mission \in MissionRow
      /\ mission.launches \in Nat /\ mission.resumes \in Nat /\ mission.age \in Int
  BY TypedFacts DEF MissionTyped, ClaimLaunch, world
<1>1. CASE EndCycle(p) /\ mission' = mission
  BY <1>0, <1>1, EndsCycle
<1>2. CASE /\ Free(p) /\ mission.launches < MaxLaunches
           /\ mission' = [mission EXCEPT !.launches = @ + 1, !.age = hold[p],
                            !.resumes = IF job[p] = "resume" THEN @ + 1 ELSE @]
           /\ ticket' = [ticket EXCEPT ![p] = mission.launches + 1]
           /\ GoTo(p, "spawn")
           /\ UNCHANGED <<snap, seen, plan, job, hold>>
  <2> DEFINE n == mission.launches + 1
             r == IF job[p] = "resume" THEN mission.resumes + 1 ELSE mission.resumes
  <2>1. n \in Nat /\ r \in Nat /\ hold[p] \in Int /\ "spawn" \in Stages
    BY <1>0 DEF ViewsOK, Stages
  <2>2. mission' = [mission EXCEPT !.launches = n, !.age = hold[p], !.resumes = r]
    BY <1>2
  <2>3. OthersStay(p) /\ ViewsOK' /\ ticket'[p] = n /\ stage'[p] = "spawn"
    BY <1>0, <1>2, <2>1 DEF GoTo, OthersStay, Stays, ViewsOK
  <2> HIDE DEF n, r
  <2>4. /\ mission' \in MissionRow /\ mission'.launches = n /\ mission'.age = hold[p]
        /\ mission'.resumes = r /\ mission'.plan = mission.plan /\ mission'.run = mission.run
        /\ mission'.pid = mission.pid
    BY <1>0, <2>1, <2>2 DEF MissionRow
  <2>5. Claims(p)
    BY <1>2, <2>3, <2>4 DEF Claims, n, r
  <2> QED
    BY <1>0, <2>3, <2>5
<1> QED
  BY <1>1, <1>2 DEF ClaimLaunch

LEMMA AdoptSteps ==
    ASSUME MissionTyped, NEW p \in Pollers, Adopt(p)
    PROVE  Adopts(p) /\ OthersStay(p) /\ ViewsOK' /\ kids' = kids /\ runs' = runs
<1>0. ViewsOK /\ kids' = kids /\ runs' = runs /\ mission \in MissionRow /\ EndCycle(p)
  BY TypedFacts DEF MissionTyped, Adopt, world
<1>1. Ended(p) /\ OthersStay(p) /\ ViewsOK'
  BY <1>0, EndsCycle
<1>2. CASE mission.launches # ticket[p]
  <2>1. mission' = mission
    BY <1>2 DEF Adopt
  <2> QED
    BY <1>0, <1>1, <1>2, <2>1 DEF Adopts
<1>3. CASE mission.launches = ticket[p]
  <2> DEFINE k == CHOOSE j \in Launches : kids[j].claim = ticket[p]
  <2>1. \E j \in Launches : kids[j].claim = ticket[p]
    BY DEF Adopt, MissionTyped, ViewOK
  <2>2. k \in Launches /\ kids[k].claim = ticket[p]
    BY <2>1
  <2>3. mission' = [mission EXCEPT !.pid = k]
    BY <1>3 DEF Adopt
  <2> HIDE DEF k
  <2>4. k \in Nat
    BY <2>2, TypedFacts
  <2>5. RowKeeps /\ mission'.run = mission.run /\ mission'.pid = k
    BY <1>0, <2>3, <2>4, PidOfRow DEF RowKeeps
  <2> QED
    BY <1>0, <1>1, <2>2, <2>5 DEF Adopts
<1> QED
  BY <1>2, <1>3

LEMMA LinkSteps ==
    ASSUME MissionTyped, NEW p \in Pollers, Link(p)
    PROVE  /\ RowKeeps /\ mission'.run = seen[p].run /\ mission'.pid = mission.pid
           /\ UNCHANGED <<snap, seen, plan, job, ticket>> /\ stage'[p] = "sync"
           /\ HasState(seen[p].run)
           /\ OthersStay(p) /\ ViewsOK' /\ kids' = kids /\ runs' = runs
<1>0. /\ ViewsOK /\ kids' = kids /\ runs' = runs /\ mission \in MissionRow
      /\ UNCHANGED locals /\ stage' = [stage EXCEPT ![p] = "sync"]
      /\ mission' = [mission EXCEPT !.run = seen[p].run]
  BY TypedFacts DEF MissionTyped, Link, world, GoTo
<1>1. HasState(seen[p].run)
  BY DEF Link, MissionTyped, ViewOK
<1>2. seen[p].run \in Nat
  BY <1>1, TypedFacts DEF HasState
<1>3. RowKeeps /\ mission'.run = seen[p].run /\ mission'.pid = mission.pid
  BY <1>0, <1>2, RunOfRow DEF RowKeeps
<1>4. "sync" \in Stages
  BY DEF Stages
<1> QED
  BY <1>0, <1>1, <1>3, <1>4 DEF locals, OthersStay, Stays, ViewsOK

\* Pauses and closes.
LEMMA StatusSteps ==
    ASSUME MissionTyped, NEW s \in {"active", "paused", "delivered"},
           mission' = [mission EXCEPT !.status = s]
    PROVE  RowKeeps /\ mission'.run = mission.run /\ mission'.pid = mission.pid
<1>1. mission \in MissionRow
  BY TypedFacts
<1> QED
  BY <1>1, StatusOfRow DEF RowKeeps

\* A replan.
Replans == /\ mission' \in MissionRow /\ mission'.plan = mission.plan + 1
           /\ mission'.run = None /\ mission'.pid = None /\ mission'.resumes = 0
           /\ mission'.launches = mission.launches /\ mission'.age = mission.age
LEMMA ReplanSteps ==
    ASSUME MissionTyped, Replan
    PROVE  Replans /\ UNCHANGED <<kids, runs, stage, locals>>
<1>1. mission \in MissionRow /\ mission.plan + 1 \in Nat
  BY TypedFacts
<1>2. mission' = [mission EXCEPT !.plan = mission.plan + 1, !.run = None, !.pid = None, !.resumes = 0]
  BY <1>1 DEF Replan, Replanned
<1>3. Replans
  BY <1>1, <1>2, PlanOfRow DEF Replans
<1> QED
  BY <1>3 DEF Replan, world

\* What a poller has stays good while others work.
LEMMA ViewStays ==
    ASSUME MissionTyped, WorldGrows, NEW q \in Pollers, Stays(q),
           mission'.launches \in Nat, mission.launches <= mission'.launches,
           stage[q] = "spawn" => \A k \in Launches' : k \in Launches \/ kids'[k].claim # ticket[q]
    PROVE  ViewOK(q)'
<1>1. ViewOK(q) /\ mission.launches \in Nat
  BY TypedFacts DEF MissionTyped
<1>2. \A r : HasState(r) => HasState(r)'
  BY DEF WorldGrows, HasState
<1>3. \A k : IsKid(k) => IsKid(k)'
  BY DEF WorldGrows, IsKid
<1>4. /\ snap'[q].run # None => HasState(snap[q].run)'
      /\ IsKid(snap[q].pid)'
      /\ seen'[q].run # None => HasState(seen[q].run)'
      /\ IsKid(seen[q].pid)'
  BY <1>1, <1>2, <1>3 DEF ViewOK, Stays
<1>5. stage'[q] \in {"spawn", "adopt"} => ticket'[q] \in 1..mission'.launches
  BY <1>1 DEF ViewOK, Stays
<1>6. stage'[q] = "spawn" => \A k \in Launches' : kids'[k].claim # ticket'[q]
  BY <1>1 DEF ViewOK, Stays, WorldGrows
<1>7. stage'[q] = "adopt" => \E k \in Launches' : kids'[k].claim = ticket'[q]
  BY <1>1 DEF ViewOK, Stays, WorldGrows
<1> QED
  BY <1>1, <1>4, <1>5, <1>6, <1>7 DEF ViewOK, Stays

LEMMA EndedViews ==
    ASSUME NEW p \in Pollers, Ended(p)
    PROVE  ViewOK(p)'
<1>1. "idle" # "link" /\ "idle" # "sync" /\ "fresh" # "resume"
  OBVIOUS
<1> QED
  BY <1>1 DEF Ended, ViewOK, NoRow, NoRun, IsKid, Idle, None

\* Processes that are not written, and the claims of those that are there.
LEMMA WorldSame ==
    ASSUME MissionTyped, kids' = kids, runs' = runs
    PROVE  WorldGrows /\ RunsTyped' /\ Launches' = Launches
<1>1. Len(kids) \in Nat /\ Launches = 1..Len(kids)
  BY TypedFacts
<1>2. RunsTyped
  BY DEF MissionTyped, RunsOK, RunsTyped
<1> QED
  BY <1>1, <1>2 DEF WorldGrows, RunsTyped, Launches, IsKid

ClaimsOK == /\ \A k \in Launches : kids[k].claim \in 1..mission.launches
            /\ \A j, k \in Launches : kids[j].claim = kids[k].claim => j = k
LEMMA SameClaims ==
    ASSUME MissionTyped, WorldGrows, Launches' = Launches,
           mission'.launches \in Nat, mission.launches <= mission'.launches
    PROVE  ClaimsOK'
<1>1. mission.launches \in Nat
  BY TypedFacts
<1>2. ClaimsOK
  BY DEF MissionTyped, RunsOK, ClaimsOK
<1>3. \A k \in Launches' : k \in Launches /\ kids'[k].claim = kids[k].claim
  BY DEF WorldGrows
<1>4. 1..mission.launches \subseteq 1..mission'.launches
  BY <1>1
<1> QED
  BY <1>2, <1>3, <1>4 DEF ClaimsOK

LEMMA SameRow ==
    ASSUME MissionTyped, WorldGrows, mission' \in MissionRow, mission'.plan = mission.plan,
           mission'.launches = mission.launches, mission'.resumes = mission.resumes,
           mission'.age = mission.age,
           mission'.run = mission.run \/ mission'.run = None \/ HasState(mission'.run),
           mission'.pid = mission.pid \/ IsKid(mission'.pid)
    PROVE  RowOK'
<1>1. RowOK
  BY DEF MissionTyped
<1>2. \A r : HasState(r) => HasState(r)'
  BY DEF WorldGrows, HasState
<1>3. \A k : IsKid(k) => IsKid(k)'
  BY DEF WorldGrows, IsKid
<1>4. mission'.run # None => HasState(mission'.run)
  BY <1>1 DEF RowOK
<1>5. mission'.run # None => HasState(mission.run)'
  BY <1>2, <1>4 DEF HasState
<1>6. IsKid(mission'.pid)
  BY <1>1 DEF RowOK
<1>7. IsKid(mission.pid)'
  BY <1>3, <1>6 DEF IsKid
<1> QED
  BY <1>1, <1>5, <1>7 DEF RowOK

\* A step of a poller, put together.
LEMMA PollerTyped ==
    ASSUME MissionTyped, WorldGrows, RunsTyped', ClaimsOK', RowOK', ViewsOK',
           mission.launches <= mission'.launches,
           NEW p \in Pollers, OthersStay(p), ViewOK(p)',
           \A q \in Pollers \ {p} : stage[q] = "spawn" =>
              \A k \in Launches' : k \in Launches \/ kids'[k].claim # ticket[q],
           stage'[p] = "spawn" => \A q \in Pollers \ {p} : stage[q] = "spawn" => ticket[q] # ticket'[p]
    PROVE  MissionTyped'
<1>1. RunsOK'
  BY DEF RunsTyped, RunsOK, ClaimsOK
<1>2. mission'.launches \in Nat
  BY RowFields DEF RowOK
<1>3. ASSUME NEW q \in Pollers PROVE ViewOK(q)'
  <2>1. CASE q = p
    BY <2>1
  <2>2. CASE q # p
    <3>1. Stays(q)
      BY <2>2 DEF OthersStay
    <3> QED
      BY <1>2, <2>2, <3>1, ViewStays
  <2> QED
    BY <2>1, <2>2
<1>4. TicketsApart'
  <2>1. TicketsApart
    BY DEF MissionTyped
  <2>2. \A q \in Pollers \ {p} : stage'[q] = stage[q] /\ ticket'[q] = ticket[q]
    BY DEF OthersStay, Stays
  <2> QED
    BY <2>1, <2>2 DEF TicketsApart
<1> QED
  BY <1>1, <1>3, <1>4 DEF MissionTyped

\* Steps that write nothing but what the poller has.
LEMMA LocalTyped ==
    ASSUME MissionTyped, kids' = kids, runs' = runs, mission' = mission, ViewsOK',
           NEW p \in Pollers, OthersStay(p), ViewOK(p)', stage'[p] # "spawn"
    PROVE  MissionTyped'
<1>1. WorldGrows /\ RunsTyped' /\ Launches' = Launches
  BY WorldSame
<1>2. mission.launches \in Nat /\ mission \in MissionRow
  BY TypedFacts
<1>3. ClaimsOK'
  BY <1>1, <1>2, SameClaims
<1>4. RowOK'
  BY <1>1, <1>2, SameRow
<1> QED
  BY <1>1, <1>2, <1>3, <1>4, PollerTyped

LEMMA EndsTyped ==
    ASSUME MissionTyped, kids' = kids, runs' = runs, mission' = mission,
           NEW p \in Pollers, EndCycle(p)
    PROVE  MissionTyped'
<1>1. ViewsOK' /\ Ended(p) /\ OthersStay(p)
  BY EndsCycle DEF MissionTyped
<1>2. ViewOK(p)' /\ stage'[p] # "spawn"
  BY <1>1, EndedViews DEF Ended, Idle
<1> QED
  BY <1>1, <1>2, LocalTyped

LEMMA SnapshotTyped ==
    ASSUME MissionTyped, NEW p \in Pollers, Snapshot(p)
    PROVE  MissionTyped'
<1>0. /\ ViewsOK /\ RowOK /\ ViewOK(p) /\ mission.plan \in Nat /\ mission.run \in Nat /\ mission.pid \in Nat
  BY TypedFacts DEF MissionTyped
<1>1. kids' = kids /\ runs' = runs /\ mission' = mission /\ stage[p] = Idle
      /\ UNCHANGED <<seen, plan, job, ticket, hold>>
  BY DEF Snapshot, world
<1>2. /\ snap' = [snap EXCEPT ![p] = [plan |-> mission.plan, run |-> mission.run, pid |-> mission.pid]]
      /\ stage' = [stage EXCEPT ![p] = "look"]
  BY DEF Snapshot, GoTo
<1>3. ViewsOK' /\ OthersStay(p) /\ stage'[p] = "look"
      /\ snap'[p] = [plan |-> mission.plan, run |-> mission.run, pid |-> mission.pid]
  BY <1>0, <1>1, <1>2 DEF ViewsOK, OthersStay, Stays, SnapRow, Stages
<1>4. HasState(snap'[p].run) <=> HasState(snap[p].run)'
  BY <1>1 DEF HasState, Launches
<1>5. HasState(seen'[p].run) <=> HasState(seen[p].run)'
  BY <1>1 DEF HasState, Launches
<1>6. ViewOK(p)'
  BY <1>0, <1>1, <1>3, <1>4, <1>5 DEF ViewOK, RowOK, IsKid, Launches
<1> QED
  BY <1>1, <1>3, <1>6, LocalTyped

LEMMA LookTyped ==
    ASSUME MissionTyped, NEW p \in Pollers, Look(p)
    PROVE  MissionTyped'
<1>0. ViewOK(p) /\ stage[p] = "look"
  BY DEF MissionTyped, Look
<1>1. kids' = kids /\ runs' = runs /\ mission' = mission
  BY DEF Look, world
<1>2. Looks(p) /\ OthersStay(p) /\ ViewsOK' /\ snap' = snap /\ plan' = plan /\ job' = job /\ ticket' = ticket
  BY LookSteps
<1>3. \A r : HasState(r) <=> HasState(r)'
  BY <1>1 DEF HasState, Launches
<1>4. \A k : IsKid(k) <=> IsKid(k)'
  BY <1>1 DEF IsKid, Launches
<1>5. \/ \E r : HasState(r) /\ seen'[p] = Copy(r) /\ stage'[p] \in {"sync", "link"}
      \/ seen'[p] = seen[p] /\ stage'[p] = "decide"
  BY <1>2 DEF Looks
<1>6. CASE \E r : HasState(r) /\ seen'[p] = Copy(r) /\ stage'[p] \in {"sync", "link"}
  <2>1. PICK r : HasState(r) /\ seen'[p] = Copy(r) /\ stage'[p] \in {"sync", "link"}
    BY <1>6
  <2>2. Copy(r).run = r /\ IsKid(Copy(r).pid) /\ r # None
    BY <2>1, SeesRun
  <2>3. HasState(seen'[p].run) /\ IsKid(seen'[p].pid) /\ seen'[p].run # None
    BY <2>1, <2>2
  <2>4. ViewOK(p)'
    BY <1>0, <1>2, <1>3, <1>4, <2>1, <2>3 DEF ViewOK, Idle
  <2> QED
    BY <1>1, <1>2, <2>1, <2>4, LocalTyped
<1>7. CASE seen'[p] = seen[p] /\ stage'[p] = "decide"
  <2>1. ViewOK(p)'
    BY <1>0, <1>2, <1>3, <1>4, <1>7 DEF ViewOK, Idle
  <2> QED
    BY <1>1, <1>2, <1>7, <2>1, LocalTyped
<1> QED
  BY <1>5, <1>6, <1>7

LEMMA SyncTyped ==
    ASSUME MissionTyped, NEW p \in Pollers, Sync(p)
    PROVE  MissionTyped'
<1>0. ViewsOK /\ ViewOK(p) /\ stage[p] = "sync"
  BY DEF MissionTyped, Sync
<1>1. /\ kids' = kids /\ runs' = runs /\ mission' = mission
      /\ UNCHANGED <<snap, seen, plan, job, ticket, hold>> /\ stage' = [stage EXCEPT ![p] = "decide"]
  BY DEF Sync, world, locals, GoTo
<1>2. ViewsOK' /\ OthersStay(p) /\ stage'[p] = "decide"
  BY <1>0, <1>1 DEF ViewsOK, OthersStay, Stays, Stages
<1>3. job[p] = "fresh"
  BY <1>0 DEF ViewOK
<1>4. ViewOK(p)'
  BY <1>0, <1>1, <1>2, <1>3 DEF ViewOK, Idle, HasState, IsKid, Launches
<1> QED
  BY <1>1, <1>2, <1>4, LocalTyped

LEMMA DecideTyped ==
    ASSUME MissionTyped, NEW p \in Pollers, Decide(p)
    PROVE  MissionTyped'
<1>0. ViewOK(p) /\ stage[p] = "decide"
  BY DEF MissionTyped, Decide
<1>1. kids' = kids /\ runs' = runs /\ mission' = mission
  BY DEF Decide, world
<1>2. Decides(p) /\ OthersStay(p) /\ ViewsOK'
  BY DecideSteps
<1>3. CASE Ended(p)
  BY <1>1, <1>2, <1>3, EndedViews, LocalTyped DEF Ended, Idle
<1>4. CASE ~Ended(p)
  <2>1. /\ snap'[p] = snap[p] /\ seen'[p] = seen[p]
        /\ stage'[p] \in {"claim", "supervise", "close"}
        /\ job'[p] = "resume" => seen[p].run # None
    BY <1>0, <1>2, <1>4 DEF Decides, ViewOK
  <2>2. ViewOK(p)'
    BY <1>0, <1>1, <2>1 DEF ViewOK, Idle, HasState, IsKid, Launches
  <2> QED
    BY <1>1, <1>2, <2>1, <2>2, LocalTyped
<1> QED
  BY <1>3, <1>4

\* The statements of a poller.
LEMMA LinkTyped ==
    ASSUME MissionTyped, NEW p \in Pollers, Link(p)
    PROVE  MissionTyped'
<1>0. ViewOK(p) /\ stage[p] = "link" /\ mission.launches \in Nat
  BY TypedFacts DEF MissionTyped, Link
<1>1. /\ RowKeeps /\ mission'.run = seen[p].run /\ mission'.pid = mission.pid
      /\ UNCHANGED <<snap, seen, plan, job, ticket>> /\ stage'[p] = "sync" /\ HasState(seen[p].run)
      /\ OthersStay(p) /\ ViewsOK' /\ kids' = kids /\ runs' = runs
  BY LinkSteps
<1>2. WorldGrows /\ RunsTyped' /\ Launches' = Launches
  BY <1>1, WorldSame
<1>3. ClaimsOK' /\ RowOK' /\ mission.launches <= mission'.launches
  BY <1>0, <1>1, <1>2, SameClaims, SameRow DEF RowKeeps
<1>4. ViewOK(p)'
  BY <1>0, <1>1 DEF ViewOK, Idle, HasState, IsKid, Launches, RowKeeps
<1> QED
  BY <1>1, <1>2, <1>3, <1>4, PollerTyped

LEMMA ClaimTyped ==
    ASSUME MissionTyped, NEW p \in Pollers, ClaimLaunch(p)
    PROVE  MissionTyped'
<1>0. /\ ViewOK(p) /\ stage[p] = "claim" /\ mission.launches \in Nat /\ mission.resumes \in Nat
      /\ RowOK /\ RunsOK /\ ViewsOK /\ mission.age \in Int
  BY TypedFacts DEF MissionTyped, ClaimLaunch
<1>1. /\ (Ended(p) /\ mission' = mission) \/ Claims(p)
      /\ OthersStay(p) /\ ViewsOK' /\ kids' = kids /\ runs' = runs
  BY ClaimSteps
<1>2. WorldGrows /\ RunsTyped' /\ Launches' = Launches
  BY <1>1, WorldSame
<1>3. CASE Ended(p) /\ mission' = mission
  BY <1>1, <1>3, EndedViews, LocalTyped DEF Ended, Idle
<1>4. CASE Claims(p)
  <2>1. /\ mission' \in MissionRow /\ mission.launches < MaxLaunches
        /\ mission'.plan = mission.plan /\ mission'.run = mission.run /\ mission'.pid = mission.pid
        /\ mission'.launches = mission.launches + 1 /\ mission'.age = hold[p]
        /\ mission'.resumes \in {mission.resumes, mission.resumes + 1}
        /\ ticket'[p] = mission.launches + 1 /\ stage'[p] = "spawn"
        /\ snap'[p] = snap[p] /\ seen'[p] = seen[p] /\ job'[p] = job[p]
    BY <1>4 DEF Claims
  <2>2. ClaimsOK'
    BY <1>0, <1>2, <2>1, SameClaims
  <2>3. hold[p] \in 0..MaxAge
    BY <1>0, MissionAssumption DEF ViewsOK, MaxAge
  <2>4. mission'.run # None => HasState(mission.run)'
    BY <1>0, <1>1, <2>1 DEF RowOK, HasState, Launches
  <2>5. RowOK'
    <3>0. MaxLaunches \in Nat /\ mission.resumes <= mission.launches
      BY <1>0, MissionAssumption DEF RowOK
    <3>1. mission'.launches <= MaxLaunches /\ mission'.resumes <= mission'.launches
      BY <1>0, <2>1, <3>0
    <3>2. IsKid(mission.pid)'
      BY <1>0, <1>1, <2>1 DEF RowOK, IsKid, Launches
    <3> QED
      BY <1>0, <2>1, <2>3, <2>4, <3>1, <3>2 DEF RowOK
  <2>6. \A k \in Launches : kids[k].claim # mission.launches + 1
    BY <1>0 DEF RunsOK
  <2>7. ViewOK(p)'
    BY <1>0, <1>1, <2>1, <2>6 DEF ViewOK, Idle, HasState, IsKid, Launches
  <2>8. \A q \in Pollers : stage[q] = "spawn" => ticket[q] # ticket'[p]
    <3>1. \A q \in Pollers : stage[q] = "spawn" => ticket[q] \in 1..mission.launches
      BY DEF MissionTyped, ViewOK
    <3> QED
      BY <1>0, <2>1, <3>1
  <2> QED
    BY <1>0, <1>1, <1>2, <2>1, <2>2, <2>5, <2>7, <2>8, PollerTyped
<1> QED
  BY <1>1, <1>3, <1>4

LEMMA SpawnTyped ==
    ASSUME MissionTyped, NEW p \in Pollers, Spawn(p)
    PROVE  MissionTyped'
<1>0. /\ ViewOK(p) /\ stage[p] = "spawn" /\ mission \in MissionRow /\ mission.launches \in Nat
      /\ ViewsOK /\ RunsOK /\ TicketsApart
  BY TypedFacts DEF MissionTyped, Spawn
<1>1. /\ UNCHANGED <<mission, snap, seen, plan, job, ticket, hold>>
      /\ Spawns(p) /\ RunsTyped' /\ WorldGrows
  BY SpawnSteps
<1>2. stage' = [stage EXCEPT ![p] = "adopt"]
  BY DEF Spawn, GoTo
<1>3. ViewsOK' /\ OthersStay(p) /\ stage'[p] = "adopt"
  BY <1>0, <1>1, <1>2 DEF ViewsOK, OthersStay, Stays, Stages
<1> DEFINE n == Len(kids) + 1
<1>4. /\ n \notin Launches /\ Launches' = Launches \cup {n} /\ kids'[n].claim = ticket[p]
      /\ \A j \in Launches : kids'[j] = kids[j]
  BY <1>1 DEF Spawns
<1> HIDE DEF n
<1>5. ticket[p] \in 1..mission.launches /\ \A k \in Launches : kids[k].claim # ticket[p]
  BY <1>0 DEF ViewOK
<1>6. ClaimsOK'
  BY <1>0, <1>1, <1>4, <1>5 DEF ClaimsOK, RunsOK
<1>7. RowOK'
  BY <1>0, <1>1, SameRow
<1>8. ViewOK(p)'
  <2>1. \A r : HasState(r) => HasState(r)'
    BY <1>1 DEF WorldGrows, HasState
  <2>2. \A k : IsKid(k) => IsKid(k)'
    BY <1>1 DEF WorldGrows, IsKid
  <2>3. \E k \in Launches' : kids'[k].claim = ticket'[p]
    BY <1>1, <1>4
  <2> QED
    BY <1>0, <1>1, <1>3, <1>5, <2>1, <2>2, <2>3 DEF ViewOK, Idle
<1>9. \A q \in Pollers \ {p} : stage[q] = "spawn" =>
         \A k \in Launches' : k \in Launches \/ kids'[k].claim # ticket[q]
  BY <1>0, <1>4 DEF TicketsApart
<1> QED
  BY <1>0, <1>1, <1>3, <1>6, <1>7, <1>8, <1>9, PollerTyped

LEMMA AdoptTyped ==
    ASSUME MissionTyped, NEW p \in Pollers, Adopt(p)
    PROVE  MissionTyped'
<1>0. mission.launches \in Nat /\ mission \in MissionRow
  BY TypedFacts
<1>1. Adopts(p) /\ OthersStay(p) /\ ViewsOK' /\ kids' = kids /\ runs' = runs
  BY AdoptSteps
<1>2. WorldGrows /\ RunsTyped' /\ Launches' = Launches
  BY <1>1, WorldSame
<1>3. ViewOK(p)' /\ stage'[p] # "spawn"
  BY <1>1, EndedViews DEF Adopts, Ended, Idle
<1>4. ClaimsOK' /\ RowOK' /\ mission.launches <= mission'.launches
  BY <1>0, <1>1, <1>2, SameClaims, SameRow DEF Adopts, RowKeeps, IsKid
<1> QED
  BY <1>1, <1>2, <1>3, <1>4, PollerTyped

LEMMA CloseTyped ==
    ASSUME MissionTyped, NEW p \in Pollers, Close(p)
    PROVE  MissionTyped'
<1>0. ViewsOK /\ mission.launches \in Nat
  BY TypedFacts DEF MissionTyped
<1>1. EndCycle(p) /\ kids' = kids /\ runs' = runs /\ mission' = [mission EXCEPT !.status = "delivered"]
  BY DEF Close, world
<1>2. WorldGrows /\ RunsTyped' /\ Launches' = Launches
  BY <1>1, WorldSame
<1>3. ViewsOK' /\ Ended(p) /\ OthersStay(p)
  BY <1>0, <1>1, EndsCycle
<1>4. ViewOK(p)' /\ stage'[p] # "spawn"
  BY <1>3, EndedViews DEF Ended, Idle
<1>5. RowKeeps /\ mission'.run = mission.run /\ mission'.pid = mission.pid
  BY <1>1, StatusSteps
<1>6. ClaimsOK' /\ RowOK' /\ mission.launches <= mission'.launches
  BY <1>0, <1>2, <1>5, SameClaims, SameRow DEF RowKeeps
<1> QED
  BY <1>2, <1>3, <1>4, <1>6, PollerTyped

\* Steps of no poller.
LEMMA WorldTyped ==
    ASSUME MissionTyped, WorldGrows, RunsTyped', RowOK', ViewsOK', Launches' = Launches,
           mission'.launches = mission.launches, \A q \in Pollers : Stays(q)
    PROVE  MissionTyped'
<1>0. mission.launches \in Nat
  BY TypedFacts
<1>1. ClaimsOK'
  BY <1>0, SameClaims
<1>2. RunsOK'
  BY <1>1 DEF RunsTyped, RunsOK, ClaimsOK
<1>3. ASSUME NEW q \in Pollers PROVE ViewOK(q)'
  BY <1>0, ViewStays
<1>4. TicketsApart'
  BY DEF TicketsApart, MissionTyped, Stays
<1> QED
  BY <1>2, <1>3, <1>4 DEF MissionTyped

LEMMA KidTyped ==
    ASSUME MissionTyped, NEW k \in Launches, Run(k) \/ Fail(k) \/ Kill(k)
    PROVE  MissionTyped'
<1>0. ViewsOK /\ mission \in MissionRow
  BY TypedFacts DEF MissionTyped
<1>1. /\ UNCHANGED <<mission, stage, snap, seen, plan, job, ticket, hold>>
      /\ KidStep(k) /\ RunsTyped' /\ WorldGrows
  BY KidSteps
<1>2. Launches' = Launches
  BY <1>1 DEF KidStep, Moves
<1>3. RowOK'
  BY <1>0, <1>1, SameRow
<1>4. ViewsOK' /\ \A q \in Pollers : Stays(q)
  BY <1>0, <1>1 DEF ViewsOK, Stays
<1> QED
  BY <1>1, <1>2, <1>3, <1>4, WorldTyped

LEMMA FlipTyped ==
    ASSUME MissionTyped, Flip
    PROVE  MissionTyped'
<1>0. ViewsOK
  BY DEF MissionTyped
<1>1. UNCHANGED <<kids, runs, stage, snap, seen, plan, job, ticket, hold>>
  BY DEF Flip, locals
<1>2. PICK s \in {"paused", "active"} : mission' = [mission EXCEPT !.status = s]
  BY DEF Flip
<1>3. RowKeeps /\ mission'.run = mission.run /\ mission'.pid = mission.pid
  BY <1>2, StatusSteps
<1>4. WorldGrows /\ RunsTyped' /\ Launches' = Launches
  BY <1>1, WorldSame
<1>5. RowOK'
  BY <1>3, <1>4, SameRow DEF RowKeeps
<1>6. ViewsOK' /\ \A q \in Pollers : Stays(q)
  BY <1>0, <1>1 DEF ViewsOK, Stays
<1> QED
  BY <1>3, <1>4, <1>5, <1>6, WorldTyped DEF RowKeeps

LEMMA ReplanTyped ==
    ASSUME MissionTyped, Replan
    PROVE  MissionTyped'
<1>0. ViewsOK /\ RowOK /\ mission.plan \in Nat /\ mission.launches \in Nat
  BY TypedFacts DEF MissionTyped
<1>1. Replans /\ UNCHANGED <<kids, runs, stage, snap, seen, plan, job, ticket, hold>>
  BY ReplanSteps DEF locals
<1>2. WorldGrows /\ RunsTyped' /\ Launches' = Launches
  BY <1>1, WorldSame
<1>3. mission.plan <= MaxReplans
  BY DEF Replan
<1>4. RowOK'
  BY <1>0, <1>1, <1>3, MissionAssumption DEF RowOK, Replans, IsKid
<1>5. ViewsOK' /\ \A q \in Pollers : Stays(q)
  BY <1>0, <1>1 DEF ViewsOK, Stays
<1> QED
  BY <1>1, <1>2, <1>4, <1>5, WorldTyped DEF Replans

LEMMA TickTyped ==
    ASSUME MissionTyped, Tick
    PROVE  MissionTyped'
<1>0. ViewsOK /\ RowOK /\ mission.age \in Int
  BY TypedFacts DEF MissionTyped
<1>1. /\ UNCHANGED <<stage, snap, seen, plan, job, ticket>>
      /\ Ages /\ RowAges /\ RunsTyped' /\ WorldGrows
  BY Ticks
<1>2. Launches' = Launches
  BY <1>1 DEF Ages
<1>3. RowOK'
  <2>1. mission'.run # None => HasState(mission.run)'
    BY <1>0, <1>1 DEF RowOK, RowAges, HasState, WorldGrows
  <2>2. mission'.age \in {Never} \cup 0..MaxAge
    BY <1>0, <1>1, MissionAssumption DEF RowOK, RowAges, Least, Never, MaxAge
  <2> QED
    BY <1>0, <1>1, <1>2, <2>1, <2>2 DEF RowOK, RowAges, IsKid
<1>4. hold' \in [Pollers -> 0..MaxHold]
  <2>1. \A p \in Pollers : (IF stage[p] = Idle THEN 0 ELSE hold[p] + 1) \in 0..MaxHold
    <3>1. ASSUME NEW p \in Pollers, stage[p] # Idle PROVE hold[p] + 1 \in 0..MaxHold
      BY <1>0, <3>1, MissionAssumption DEF Tick, ViewsOK
    <3> QED
      BY <3>1, MissionAssumption
  <2> QED
    BY <2>1 DEF Tick
<1>5. ViewsOK' /\ \A q \in Pollers : Stays(q)
  BY <1>0, <1>1, <1>4 DEF ViewsOK, Stays
<1> QED
  BY <1>1, <1>2, <1>3, <1>5, WorldTyped DEF RowAges

LEMMA TypedInit ==
    ASSUME Init
    PROVE  MissionTyped
<1>1. kids = <<>> /\ runs = <<>> /\ Len(kids) = 0 /\ Launches = {}
  BY EmptySeq DEF Init, Launches
<1>2. /\ mission.status = "active" /\ mission.plan = 1 /\ mission.run = None /\ mission.pid = None
      /\ mission.launches = 0 /\ mission.resumes = 0 /\ mission.age = Never
  BY DEF Init
<1>3. mission \in MissionRow
  BY DEF Init, MissionRow, None, Never
<1>4. RowOK
  BY <1>2, <1>3, MissionAssumption DEF RowOK, IsKid
<1>5. RunsOK
  BY <1>1, EmptySeq DEF RunsOK
<1>6. NoRow \in SnapRow /\ NoRun \in SeenRow /\ Idle \in Stages /\ 0 \in 0..MaxHold
  BY MissionAssumption DEF NoRow, NoRun, SnapRow, SeenRow, Statuses, None, Stages
<1>7. ViewsOK
  BY <1>6 DEF Init, ViewsOK
<1>8. \A p \in Pollers : ViewOK(p)
  BY DEF Init, ViewOK, IsKid, NoRow, NoRun, Idle, None
<1>9. TicketsApart
  BY DEF Init, TicketsApart, Idle
<1> QED
  BY <1>4, <1>5, <1>7, <1>8, <1>9 DEF MissionTyped

LEMMA TypedStep ==
    ASSUME MissionTyped, [Next]_vars
    PROVE  MissionTyped'
<1>1. ASSUME NEW p \in Pollers, Snapshot(p) PROVE MissionTyped'
  BY <1>1, SnapshotTyped
<1>2. ASSUME NEW p \in Pollers, Cycle(p) PROVE MissionTyped'
  <2>1. CASE Supervise(p)
    BY <2>1, EndsTyped DEF Supervise, world
  <2> QED
    BY <1>2, <2>1, LookTyped, LinkTyped, SyncTyped, DecideTyped, ClaimTyped, SpawnTyped, AdoptTyped,
       CloseTyped DEF Cycle
<1>3. ASSUME NEW p \in Pollers, SpawnFails(p) \/ Crash(p) PROVE MissionTyped'
  BY <1>3, EndsTyped DEF SpawnFails, Crash
<1>4. ASSUME NEW k \in Launches, Run(k) \/ Fail(k) \/ Kill(k) PROVE MissionTyped'
  BY <1>4, KidTyped
<1>5. CASE Flip
  BY <1>5, FlipTyped
<1>6. CASE Replan
  BY <1>6, ReplanTyped
<1>7. CASE Tick
  BY <1>7, TickTyped
<1>8. CASE UNCHANGED vars
  <2>1. UNCHANGED <<mission, runs, kids, stage, snap, seen, plan, job, ticket, hold>>
    BY <1>8 DEF vars, world, locals
  <2>2. WorldGrows /\ RunsTyped' /\ Launches' = Launches
    BY <2>1, WorldSame
  <2>3. RowOK'
    BY <2>1, <2>2, SameRow DEF MissionTyped, RowOK
  <2>4. ViewsOK' /\ \A q \in Pollers : Stays(q)
    BY <2>1 DEF MissionTyped, ViewsOK, Stays
  <2> QED
    BY <2>1, <2>2, <2>3, <2>4, WorldTyped
<1> QED
  BY <1>1, <1>2, <1>3, <1>4, <1>5, <1>6, <1>7, <1>8 DEF Next

LEMMA CountTo ==
    ASSUME NEW n \in Nat
    PROVE  IsFiniteSet(1..n) /\ Cardinality(1..n) = n
<1>1. IsFiniteSet(1..n) /\ Cardinality(1..n) = IF 1 > n THEN 0 ELSE n - 1 + 1
  BY FS_Interval
<1> QED
  BY <1>1

\* Every launch has spent a claim of its own.
LEMMA FewLaunches ==
    ASSUME MissionTyped
    PROVE  Len(kids) <= mission.launches
<1>1. Len(kids) \in Nat /\ Launches = 1..Len(kids) /\ mission.launches \in Nat
  BY TypedFacts
<1>2. /\ \A k \in Launches : kids[k].claim \in 1..mission.launches
      /\ \A j, k \in Launches : kids[j].claim = kids[k].claim => j = k
  BY DEF MissionTyped, RunsOK
<1> DEFINE f == [k \in Launches |-> kids[k].claim]
           T == 1..mission.launches
<1>3. f \in Injection(Launches, T)
  BY <1>2 DEF Injection, IsInjective
<1>4. IsFiniteSet(T) /\ Cardinality(T) = mission.launches
  BY <1>1, CountTo
<1>5. Cardinality(Launches) = Len(kids)
  BY <1>1, CountTo
<1> HIDE DEF f, T
<1>6. Cardinality(Launches) <= Cardinality(T)
  BY <1>3, <1>4, FS_Injection
<1> QED
  BY <1>4, <1>5, <1>6

\* TypeOK, for any pollers, any timing and any number of launches: the ledger
\* row refers to runs and processes that exist, and no claim launches twice.
THEOREM MissionTypeCorrect == Spec => []TypeOK
<1>1. MissionTyped => TypeOK
  <2> SUFFICES ASSUME MissionTyped PROVE TypeOK
    OBVIOUS
  <2>1. RowOK /\ RunsOK /\ ViewsOK
    BY DEF MissionTyped
  <2>2. /\ mission.status \in {"active", "paused", "delivered"} /\ mission.launches \in Nat
        /\ mission.resumes \in Nat
    BY <2>1, RowFields DEF RowOK
  <2>3. Len(kids) <= mission.launches
    BY FewLaunches
  <2>4. mission.launches \in 0..MaxLaunches /\ mission.resumes \in 0..mission.launches
    BY <2>1, <2>2, MissionAssumption DEF RowOK
  <2>5. mission.pid \in {None} \cup Launches /\ (mission.run # None => runs[mission.run].status # "none")
    BY <2>1 DEF RowOK, IsKid, HasState
  <2>6. \A k \in Launches : /\ runs[k].status \in {"none", "running"} \cup Ends
                            /\ kids[k].run \in 1..k
                            /\ kids[k].state \in {"starting", "working", "saved", "gone"}
    BY TypedFacts DEF Statuses, KidStates
  <2>7. stage \in [Pollers -> {Idle, "look", "link", "sync", "decide", "supervise",
                              "claim", "spawn", "adopt", "close"}]
    BY <2>1 DEF ViewsOK, Stages
  <2> QED
    BY <2>1, <2>2, <2>3, <2>4, <2>5, <2>6, <2>7 DEF TypeOK, RowOK, RunsOK, ViewsOK
<1> QED
  BY <1>1, TypedInit, TypedStep, PTL DEF Spec

-----------------------------------------------------------------------------
(* Prompt cycles.                                                           *)

LEMMA PromptFacts ==
    ASSUME Prompt, MissionTyped
    PROVE  /\ {Claim, Grace, Step, MaxBackoff, MaxStart} \subseteq Nat /\ MaxStart < MaxAge
           /\ mission.age \in Int /\ mission.age >= Never
           /\ Owed \in Nat /\ (mission.resumes >= 1 => MaxStart < Owed)
           /\ \A p \in Pollers : /\ hold[p] = 0 /\ (Free(p) => Calm)
                                 /\ Since(p) = IF mission.age = Never THEN 0 ELSE mission.age
                                 /\ InFlight(p) => mission.age \in 0..(Grace - 1)
                                 /\ mission.age \in 0..(Grace - 1) => InFlight(p)
<1>1. /\ Claim \in Nat \ {0} /\ Grace \in Nat /\ Step \in Nat /\ MaxBackoff \in Nat /\ MaxStart \in Nat
      /\ MaxStart < Grace /\ MaxStart < Step /\ Grace <= MaxBackoff /\ MaxHold = 0
  BY MissionAssumption DEF Prompt
<1>2. mission.age \in Int /\ mission.resumes \in Nat /\ mission.launches \in Nat
  BY TypedFacts
<1>3. mission.age = -1 \/ mission.age \in Nat
  BY <1>2 DEF MissionTyped, RowOK, Never
<1>4. \A p \in Pollers : hold[p] = 0
  BY <1>1 DEF MissionTyped, ViewsOK
<1>5. \A p \in Pollers : /\ Since(p) = IF mission.age = Never THEN 0 ELSE mission.age
                         /\ Free(p) => Calm
                         /\ InFlight(p) => mission.age \in 0..(Grace - 1)
                         /\ mission.age \in 0..(Grace - 1) => InFlight(p)
  <2> TAKE p \in Pollers
  <2>1. hold[p] = 0
    BY <1>4
  <2>2. Since(p) = IF mission.age = Never THEN 0 ELSE mission.age
    BY <1>3, <2>1 DEF Since, Never
  <2>3. Free(p) => Calm
    BY <1>1, <1>3, <2>1 DEF Free, Calm, Never
  <2> QED
    BY <1>1, <1>3, <2>2, <2>3 DEF InFlight, Never
<1>6. Owed \in Nat /\ (mission.resumes >= 1 => MaxStart < Owed)
  <2>1. CASE mission.resumes = 0
    BY <2>1 DEF Owed
  <2>2. CASE mission.resumes >= 1
    <3> DEFINE d == 2 ^ (mission.resumes - 1)
    <3>1. mission.resumes - 1 \in 0..MaxLaunches
      BY <1>2, <2>2, MissionAssumption DEF MissionTyped, RowOK
    <3>2. d \in Nat \ {0}
      BY <3>1, DoublingAssumption
    <3>3. Owed = Least(Step * d, MaxBackoff)
      BY <2>2 DEF Owed
    <3> HIDE DEF d
    <3>4. Step * d \in Nat /\ Step * d >= Step
      <4>1. PICK e \in Nat : d = e + 1
        BY <3>2
      <4>2. Step * d = Step * e + Step /\ Step * e \in Nat
        BY <1>1, <4>1
      <4> QED
        BY <1>1, <4>2
    <3> QED
      BY <1>1, <3>3, <3>4 DEF Least
  <2> QED
    BY <1>2, <2>1, <2>2
<1> QED
  BY <1>1, <1>2, <1>3, <1>4, <1>5, <1>6 DEF Never, MaxAge

\* The process that lives when nothing was claimed is that of the row.
LEMMA LiveKid ==
    ASSUME PromptInv, Calm, NEW k \in Launches, Live(k)
    PROVE  mission.pid = k /\ Recent(k)
<1>1. Recent(k)
  BY DEF PromptInv, ClaimsKept
<1>2. \A p \in Pollers : stage[p] # "adopt"
  BY DEF PromptInv, ClaimsKept, Launching
<1> QED
  BY <1>1, <1>2 DEF Recent

\* Nothing but what p has is written: the others see what they saw.
LEMMA LocalPrompt ==
    ASSUME MissionTyped, PromptInv, mission' = mission, kids' = kids, runs' = runs,
           NEW p \in Pollers, OthersStay(p), stage[p] # "adopt", ~Launching(p)',
           PlanView(p)', LinkView(p)', ChoiceView(p)',
           stage'[p] = "link" => \A q \in Pollers \ {p} : Launching(q) => job[q] # "fresh"
    PROVE  PromptInv'
<1>1. Launches' = Launches /\ Owed' = Owed /\ Calm' = Calm /\ Barren' = Barren
  BY DEF Launches, Owed, Calm, Barren, Gone
<1>2. \A k : (Live(k)' <=> Live(k)) /\ (Gone(k)' <=> Gone(k)) /\ (HasState(k)' <=> HasState(k))
  BY <1>1 DEF Live, Gone, HasState
<1>3. \A q \in Pollers \ {p} : /\ Stays(q) /\ (Launching(q)' <=> Launching(q))
  BY DEF OthersStay, Stays, Launching
<1>4. PlansKept'
  <2>1. \A q \in Pollers \ {p} : PlanView(q)'
    BY <1>3 DEF PromptInv, PlansKept, PlanView, Stays
  <2> QED
    BY <1>1, <2>1 DEF PromptInv, PlansKept
<1>5. StatesKept'
  BY <1>1, <1>2 DEF PromptInv, StatesKept
<1>6. ClaimsKept'
  <2>1. \A q, r \in Pollers : Launching(q)' /\ Launching(r)' => q = r
    BY <1>3 DEF PromptInv, ClaimsKept
  <2>2. \A q \in Pollers : Launching(q)' => ~Calm' /\ ticket'[q] = mission'.launches
    BY <1>1, <1>3 DEF PromptInv, ClaimsKept, Stays
  <2>3. ASSUME NEW k \in Launches, Recent(k) PROVE Recent(k)'
    BY <1>3, <2>3 DEF Recent, Stays
  <2> QED
    BY <1>1, <1>2, <2>1, <2>2, <2>3 DEF PromptInv, ClaimsKept
<1>7. LinksKept'
  <2>1. ASSUME NEW q \in Pollers \ {p} PROVE LinkView(q)'
    <3>1. LinkView(q)
      BY DEF PromptInv, LinksKept
    <3>2. \A r \in Pollers : Launching(r)' => Launching(r)
      BY <1>3
    <3> QED
      BY <1>1, <1>2, <1>3, <3>1, <3>2 DEF LinkView, Stays
  <2> QED
    BY <2>1 DEF PromptInv, LinksKept, RowLinked
<1>8. ChoicesKept'
  <2>1. ASSUME NEW q \in Pollers \ {p} PROVE ChoiceView(q)'
    <3>1. ChoiceView(q) /\ Stays(q)
      BY <1>3 DEF PromptInv, ChoicesKept
    <3>2. \A k : Spared(q, k) => Spared(q, k)'
      BY <1>1, <3>1 DEF Spared, Stays
    <3>3. Launching(q) /\ job[q] = "fresh" => Barren' /\ \A r \in Pollers : stage'[r] # "link"
      BY <1>1, <1>3, <3>1 DEF ChoiceView, Stays
    <3> QED
      BY <1>1, <1>2, <1>3, <3>1, <3>2, <3>3 DEF ChoiceView, Stays
  <2> QED
    BY <2>1 DEF ChoicesKept
<1> QED
  BY <1>4, <1>5, <1>6, <1>7, <1>8 DEF PromptInv

LEMMA EndsPrompt ==
    ASSUME MissionTyped, PromptInv, mission' = mission, kids' = kids, runs' = runs,
           NEW p \in Pollers, Ended(p), OthersStay(p), stage[p] # "adopt"
    PROVE  PromptInv'
<1>1. stage'[p] = "idle"
  BY DEF Ended, Idle
<1>2. ~Launching(p)' /\ PlanView(p)' /\ LinkView(p)' /\ ChoiceView(p)'
  BY <1>1 DEF Launching, PlanView, LinkView, ChoiceView, Idle
<1> QED
  BY <1>1, <1>2, LocalPrompt

LEMMA SnapshotPrompt ==
    ASSUME MissionTyped, PromptInv, NEW p \in Pollers, Snapshot(p)
    PROVE  PromptInv'
<1>0. stage[p] = Idle /\ seen[p].run = None
  BY DEF Snapshot, MissionTyped, ViewOK
<1>1. /\ kids' = kids /\ runs' = runs /\ mission' = mission
      /\ UNCHANGED <<seen, plan, job, ticket, hold>>
  BY DEF Snapshot, world
<1>2. /\ OthersStay(p) /\ stage'[p] = "look"
      /\ snap'[p] = [plan |-> mission.plan, run |-> mission.run, pid |-> mission.pid]
  BY <1>1 DEF MissionTyped, ViewsOK, Snapshot, GoTo, OthersStay, Stays
<1>3. PlanView(p)'
  BY <1>0, <1>1, <1>2 DEF PlanView, PromptInv, PlansKept
<1>4. LinkView(p)'
  BY <1>0, <1>1, <1>2 DEF LinkView
<1>5. ChoiceView(p)' /\ ~Launching(p)'
  BY <1>2 DEF ChoiceView, Launching
<1> QED
  BY <1>0, <1>1, <1>2, <1>3, <1>4, <1>5, LocalPrompt DEF Idle

\* The look at the run of the row: a living process is that run's.
LEMMA LookAtRun ==
    ASSUME Prompt, MissionTyped, PromptInv, Calm, NEW k \in Launches, Live(k),
           mission.run # None
    PROVE  /\ kids[k].run = mission.run
           /\ mission.age < Owed \/ (runs[mission.run].status = "running" /\ runs[mission.run].pid = k)
<1>1. mission.pid = k /\ Recent(k)
  BY LiveKid
<1>2. kids[k].run = mission.run
  BY <1>1 DEF PromptInv, LinksKept, RowLinked
<1>3. k \in Nat \ {0} /\ mission.resumes \in Nat
  BY TypedFacts
<1>4. CASE kids[k].state = "working"
  BY <1>2, <1>4 DEF PromptInv, StatesKept
<1>5. CASE kids[k].state = "starting"
  <2>1. HasState(mission.run)
    BY DEF MissionTyped, RowOK
  <2>2. kids[k].run # k
    BY <1>2, <1>5, <2>1 DEF PromptInv, StatesKept, HasState
  <2>3. mission.age <= MaxStart /\ mission.resumes >= 1
    BY <1>1, <1>5, <2>2 DEF Recent
  <2>4. mission.age < Owed
    <3>1. MaxStart < Owed /\ MaxStart \in Nat /\ Owed \in Nat /\ mission.age \in Int
      BY <2>3, PromptFacts
    <3> QED
      BY <2>3, <3>1
  <2> QED
    BY <1>2, <2>4
<1> QED
  BY <1>4, <1>5 DEF Live

LEMMA LookPrompt ==
    ASSUME Prompt, MissionTyped, PromptInv, NEW p \in Pollers, Look(p)
    PROVE  PromptInv'
<1>0. /\ stage[p] = "look" /\ seen[p].run = None /\ stage[p] # Idle
      /\ PlanView(p) /\ LinkView(p) /\ ChoiceView(p)
  BY DEF Look, MissionTyped, ViewOK, PromptInv, PlansKept, LinksKept, ChoicesKept, Idle
<1>1. kids' = kids /\ runs' = runs /\ mission' = mission
  BY DEF Look, world
<1>2. Looks(p) /\ OthersStay(p) /\ snap' = snap /\ plan' = plan /\ job' = job /\ ticket' = ticket
  BY LookSteps
<1>3. Launches' = Launches /\ Owed' = Owed /\ Calm' = Calm /\ Barren' = Barren
  BY <1>1 DEF Launches, Owed, Calm, Barren, Gone
<1>4. \A k : (Live(k)' <=> Live(k)) /\ (Gone(k)' <=> Gone(k))
  BY <1>1, <1>3 DEF Live, Gone
<1>5. snap[p].plan = mission.plan /\ (snap[p].run # None => mission.run = snap[p].run)
  BY <1>0 DEF PlanView, LinkView
<1>6. stage'[p] \in {"sync", "link", "decide"} /\ ~Launching(p)'
  BY <1>2 DEF Looks, Launching
<1>7. (\E q \in Pollers : Launching(q)') => \E q \in Pollers : Launching(q)
  BY <1>2, <1>6 DEF OthersStay, Stays, Launching
<1>8. CASE snap[p].run # None /\ stage'[p] = "sync" /\ HasState(snap[p].run) /\ seen'[p] = Copy(snap[p].run)
  <2>1. /\ seen'[p].run = mission.run /\ mission.run # None
        /\ seen'[p].status = runs[mission.run].status /\ seen'[p].pid = runs[mission.run].pid
    BY <1>5, <1>8, SeesRun
  <2>2. PlanView(p)'
    BY <1>0, <1>1, <1>2, <1>8, <2>1 DEF PlanView, PromptInv, PlansKept
  <2>3. LinkView(p)'
    BY <1>0, <1>1, <1>2, <1>3, <1>4, <1>7, <1>8, <2>1 DEF LinkView
  <2>4. \A k \in Launches : Live(k) /\ Calm => Spared(p, k)'
    BY <1>1, <1>3, <2>1, LookAtRun DEF Spared
  <2>5. ChoiceView(p)'
    BY <1>3, <1>4, <1>8, <2>4 DEF ChoiceView, Launching
  <2> QED
    BY <1>0, <1>1, <1>2, <1>6, <1>8, <2>2, <2>3, <2>5, LocalPrompt
<1>9. CASE snap[p].run = None /\ stage'[p] = "link" /\ \E r \in Discovered(p) : HasState(r) /\ seen'[p] = Copy(r)
  <2>1. PICK r \in Discovered(p) : HasState(r) /\ seen'[p] = Copy(r)
    BY <1>9
  <2>2. /\ r \in Launches /\ runs[r].status # "none" /\ kids[r].plan = snap[p].plan
        /\ snap[p].pid # None /\ runs[r].pid = snap[p].pid
    BY DEF Discovered
  <2>3. /\ seen'[p].run = r /\ r # None
        /\ seen'[p].status = runs[r].status /\ seen'[p].pid = runs[r].pid
    BY <2>1, SeesRun
  <2>4. kids[snap[p].pid].run = r /\ kids[snap[p].pid].state # "starting"
    BY <2>2 DEF PromptInv, StatesKept
  <2>5. mission.pid # None /\ kids[mission.pid].run = r
    BY <1>0, <2>2, <2>4 DEF LinkView, Gone
  <2>6. Calm \/ (\E q \in Pollers : Launching(q)) => snap[p].pid = mission.pid
    BY <1>0 DEF LinkView
  <2>7. PlanView(p)'
    BY <1>0, <1>1, <1>2, <1>5, <1>9, <2>2, <2>3 DEF PlanView
  <2>8. LinkView(p)'
    BY <1>0, <1>1, <1>2, <1>3, <1>4, <1>7, <1>9, <2>2, <2>3, <2>5, <2>6 DEF LinkView
  <2>9. ASSUME NEW k \in Launches, Live(k), Calm PROVE Spared(p, k)'
    <3>1. mission.pid = k /\ snap[p].pid = k
      BY <2>6, <2>9, LiveKid
    <3>2. kids[k].state = "working" /\ kids[k].run = r
      BY <2>4, <2>9, <3>1 DEF Live
    <3>3. runs[r].status = "running" /\ runs[r].pid = k
      BY <2>9, <3>2 DEF PromptInv, StatesKept
    <3> QED
      BY <2>3, <3>3 DEF Spared
  <2>10. ChoiceView(p)'
    BY <1>3, <1>4, <1>9, <2>9 DEF ChoiceView, Launching
  <2>11. ASSUME NEW q \in Pollers \ {p}, Launching(q), job[q] = "fresh" PROVE FALSE
    <3>1. Barren
      BY <2>11 DEF PromptInv, ChoicesKept, ChoiceView
    <3>2. snap[p].pid = mission.pid
      BY <2>6, <2>11
    <3> QED
      BY <2>2, <2>4, <3>1, <3>2 DEF Barren, Gone
  <2> QED
    BY <1>0, <1>1, <1>2, <1>6, <2>7, <2>8, <2>10, <2>11, LocalPrompt
<1>10. CASE snap[p].run = None /\ Discovered(p) = {} /\ stage'[p] = "decide" /\ seen'[p] = seen[p]
  <2>1. PlanView(p)'
    BY <1>0, <1>1, <1>2, <1>10 DEF PlanView
  <2>2. LinkView(p)'
    BY <1>0, <1>1, <1>2, <1>3, <1>4, <1>7, <1>10 DEF LinkView
  <2>3. ASSUME Calm PROVE Barren \/ mission.age \in 0..(Grace - 1)
    <3>1. snap[p].pid = mission.pid
      BY <1>0, <2>3 DEF LinkView
    <3>2. \A r \in Launches : ~(/\ runs[r].status # "none" /\ kids[r].plan = mission.plan
                                /\ mission.pid # None /\ runs[r].pid = mission.pid)
      BY <1>5, <1>10, <3>1 DEF Discovered
    <3>3. mission.run = None
      <4>1. SUFFICES ASSUME mission.run # None PROVE FALSE
        OBVIOUS
      <4>2. mission.run \in Launches /\ runs[mission.run].status # "none"
        BY <4>1 DEF MissionTyped, RowOK, HasState
      <4>3. kids[mission.run].plan = mission.plan /\ mission.pid # None
        BY <4>1 DEF PromptInv, PlansKept, LinksKept, RowLinked
      <4>4. runs[mission.run].pid = mission.pid
        BY <1>0, <1>10, <2>3, <4>1 DEF LinkView
      <4> QED
        BY <3>2, <4>2, <4>3, <4>4
    <3>4. CASE mission.pid # None
      <4>1. mission.pid \in Launches /\ kids[mission.pid].run \in Launches
        BY <3>4, TypedFacts DEF MissionTyped, RowOK, IsKid
      <4>2. kids[mission.pid].plan = mission.plan /\ kids[kids[mission.pid].run].plan = mission.plan
        BY <3>4, <4>1 DEF PromptInv, PlansKept
      <4>3. runs[kids[mission.pid].run].pid # mission.pid
        BY <3>2, <3>4, <4>1, <4>2 DEF MissionTyped, RunsOK
      <4>4. CASE kids[mission.pid].state \in {"starting", "working"}
        <5>1. Live(mission.pid)
          BY <4>1, <4>2, <4>4 DEF Live
        <5>2. kids[mission.pid].state = "starting"
          BY <4>3, <4>4, <4>1, <5>1 DEF PromptInv, StatesKept
        <5>3. kids[mission.pid].age = mission.age /\ mission.age <= MaxStart
          BY <2>3, <4>1, <5>1, <5>2, LiveKid DEF Recent
        <5>4. mission.age \in Nat /\ MaxStart \in Nat /\ Grace \in Nat /\ MaxStart < Grace
          BY <4>1, <5>3, TypedFacts, PromptFacts DEF Prompt
        <5> QED
          BY <5>3, <5>4
      <4> QED
        BY <3>3, <4>3, <4>4 DEF Barren, Gone
    <3> QED
      BY <3>3, <3>4 DEF Barren
  <2>4. ChoiceView(p)'
    BY <1>0, <1>1, <1>3, <1>10, <2>3 DEF ChoiceView, Launching
  <2> QED
    BY <1>0, <1>1, <1>2, <1>6, <1>10, <2>1, <2>2, <2>4, LocalPrompt
<1> QED
  BY <1>2, <1>8, <1>9, <1>10 DEF Looks

LEMMA SyncPrompt ==
    ASSUME MissionTyped, PromptInv, NEW p \in Pollers, Sync(p)
    PROVE  PromptInv'
<1>0. /\ stage[p] = "sync" /\ seen[p].run # None /\ stage[p] # Idle
      /\ PlanView(p) /\ LinkView(p) /\ ChoiceView(p)
  BY DEF Sync, MissionTyped, ViewOK, PromptInv, PlansKept, LinksKept, ChoicesKept, Idle
<1>1. /\ kids' = kids /\ runs' = runs /\ mission' = mission
      /\ UNCHANGED <<snap, seen, plan, job, ticket>>
  BY DEF Sync, world, locals
<1>2. OthersStay(p) /\ stage'[p] = "decide"
  BY <1>1 DEF MissionTyped, ViewsOK, Sync, GoTo, OthersStay, Stays
<1>3. Launches' = Launches /\ Owed' = Owed /\ Calm' = Calm
  BY <1>1 DEF Launches, Owed, Calm
<1>4. \A k : (Live(k)' <=> Live(k)) /\ (Gone(k)' <=> Gone(k)) /\ (Spared(p, k) => Spared(p, k)')
  BY <1>1, <1>3 DEF Live, Gone, Spared
<1>5. ~Launching(p)' /\ PlanView(p)'
  BY <1>0, <1>1, <1>2 DEF PlanView, Launching
<1>6. LinkView(p)'
  <2>1. (\E q \in Pollers : Launching(q)') => \E q \in Pollers : Launching(q)
    BY <1>2, <1>5 DEF OthersStay, Stays, Launching
  <2> QED
    BY <1>0, <1>1, <1>2, <1>3, <1>4, <2>1 DEF LinkView
<1>7. ChoiceView(p)'
  BY <1>0, <1>1, <1>2, <1>3, <1>4 DEF ChoiceView, Launching
<1> QED
  BY <1>0, <1>1, <1>2, <1>5, <1>6, <1>7, LocalPrompt

LEMMA DecidePrompt ==
    ASSUME Prompt, MissionTyped, PromptInv, NEW p \in Pollers, Decide(p)
    PROVE  PromptInv'
<1>0. /\ stage[p] = "decide" /\ stage[p] # Idle /\ job[p] = "fresh"
      /\ PlanView(p) /\ LinkView(p) /\ ChoiceView(p)
  BY DEF Decide, MissionTyped, ViewOK, PromptInv, PlansKept, LinksKept, ChoicesKept, Idle
<1>1. kids' = kids /\ runs' = runs /\ mission' = mission
  BY DEF Decide, world
<1>2. Decides(p) /\ OthersStay(p)
  BY DecideSteps
<1>3. Launches' = Launches /\ Owed' = Owed /\ Calm' = Calm /\ Barren' = Barren
  BY <1>1 DEF Launches, Owed, Calm, Barren, Gone
<1>4. \A k : (Live(k)' <=> Live(k)) /\ (Gone(k)' <=> Gone(k))
  BY <1>1, <1>3 DEF Live, Gone
<1>5. CASE Ended(p)
  BY <1>0, <1>1, <1>2, <1>5, EndsPrompt
<1>6. CASE ~Ended(p)
  <2>1. /\ stage'[p] \in {"claim", "supervise", "close"} /\ plan'[p] = mission.plan
        /\ snap'[p] = snap[p] /\ seen'[p] = seen[p]
    BY <1>2, <1>6 DEF Decides
  <2>2. ~Launching(p)' /\ PlanView(p)'
    BY <1>0, <1>1, <2>1 DEF PlanView, Launching
  <2>3. LinkView(p)'
    <3>1. (\E q \in Pollers : Launching(q)') => \E q \in Pollers : Launching(q)
      BY <1>2, <2>2 DEF OthersStay, Stays, Launching
    <3> QED
      BY <1>0, <1>1, <1>3, <1>4, <2>1, <3>1 DEF LinkView
  <2>4. ASSUME stage'[p] = "claim", Calm, job'[p] = "fresh" PROVE Barren
    <3>1. seen[p].run = None /\ ~InFlight(p)
      BY <1>2, <1>6, <2>4 DEF Decides
    <3>2. mission.age \notin 0..(Grace - 1)
      BY <3>1, PromptFacts
    <3> QED
      BY <1>0, <2>4, <3>1, <3>2 DEF ChoiceView
  <2>5. ASSUME stage'[p] = "claim", Calm, NEW k \in Launches, Live(k) PROVE FALSE
    <3>1. mission.pid = k /\ Recent(k) /\ k # None
      BY <2>5, LiveKid, TypedFacts DEF None
    <3>2. CASE job'[p] = "fresh"
      BY <2>4, <2>5, <3>1, <3>2 DEF Barren, Gone, Live
    <3>3. CASE job'[p] # "fresh"
      <4>1. seen[p].run # None /\ Unfinished(p) /\ Since(p) >= Owed
        BY <1>0, <1>2, <1>6, <2>5, <3>3 DEF Decides
      <4>2. Spared(p, k)
        BY <1>0, <2>5, <4>1 DEF ChoiceView
      <4>3. CASE mission.age < Owed
        <5>1. mission.age # Never
          <6>1. kids[k].claim \in 1..mission.launches
            BY DEF MissionTyped, RunsOK
          <6> QED
            BY <6>1 DEF PromptInv, ClaimsKept
        <5>2. Since(p) = mission.age /\ Owed \in Nat /\ mission.age \in Int
          BY <5>1, PromptFacts
        <5> QED
          BY <4>1, <4>3, <5>2
      <4>4. CASE seen[p].status = "running" /\ seen[p].pid = k
        <5>1. Alive(k)
          BY <2>5, <3>1 DEF Alive, Live
        <5> QED
          BY <4>1, <4>4, <5>1 DEF Unfinished, EndOf
      <4> QED
        BY <4>2, <4>3, <4>4 DEF Spared
    <3> QED
      BY <3>2, <3>3
  <2>6. ChoiceView(p)'
    BY <1>3, <1>4, <2>1, <2>4, <2>5 DEF ChoiceView, Launching
  <2> QED
    BY <1>0, <1>1, <1>2, <2>1, <2>2, <2>3, <2>6, LocalPrompt
<1> QED
  BY <1>5, <1>6

\* A link: only of the run the present launch created.
LEMMA LinkPrompt ==
    ASSUME MissionTyped, PromptInv, NEW p \in Pollers, Link(p)
    PROVE  PromptInv'
<1>0. /\ stage[p] = "link" /\ stage[p] # Idle /\ seen[p].run # None
      /\ PlanView(p) /\ LinkView(p) /\ ChoiceView(p)
  BY DEF Link, MissionTyped, ViewOK, PromptInv, PlansKept, LinksKept, ChoicesKept, Idle
<1>1. /\ RowKeeps /\ mission'.run = seen[p].run /\ mission'.pid = mission.pid
      /\ UNCHANGED <<snap, seen, plan, job, ticket>> /\ stage'[p] = "sync"
      /\ OthersStay(p) /\ kids' = kids /\ runs' = runs
  BY LinkSteps
<1>2. Launches' = Launches /\ Owed' = Owed /\ Calm' = Calm
  BY <1>1 DEF Launches, Owed, Calm, RowKeeps
<1>3. \A k : (Live(k)' <=> Live(k)) /\ (Gone(k)' <=> Gone(k)) /\ (HasState(k)' <=> HasState(k))
  BY <1>1, <1>2 DEF Live, Gone, HasState, RowKeeps
<1>4. \A q \in Pollers : (Launching(q)' <=> Launching(q)) /\ (stage'[q] = "adopt" <=> stage[q] = "adopt")
  BY <1>0, <1>1 DEF OthersStay, Stays, Launching
<1>5. /\ mission.pid # None /\ seen[p].run = kids[mission.pid].run
      /\ Calm => runs[seen[p].run].pid = mission.pid
  BY <1>0 DEF LinkView
<1>6. mission.run # None => mission.run = seen[p].run
  BY <1>5 DEF PromptInv, LinksKept, RowLinked
<1>7. Calm => ~Barren
  BY <1>5 DEF Barren, Gone
<1>8. \A q \in Pollers : Launching(q) => job[q] # "fresh"
  BY <1>0 DEF PromptInv, ChoicesKept, ChoiceView
<1>9. PlansKept'
  <2>1. kids[seen[p].run].plan = mission.plan
    BY <1>0 DEF PlanView
  <2>2. ASSUME NEW q \in Pollers PROVE PlanView(q)'
    <3>1. PlanView(q)
      BY DEF PromptInv, PlansKept
    <3>2. CASE q = p
      BY <1>0, <1>1, <3>1, <3>2 DEF PlanView, RowKeeps
    <3>3. CASE q # p
      BY <1>1, <3>1, <3>3 DEF PlanView, OthersStay, Stays, RowKeeps
    <3> QED
      BY <3>2, <3>3
  <2> QED
    BY <1>1, <1>2, <2>1, <2>2 DEF PromptInv, PlansKept, RowKeeps
<1>10. StatesKept'
  BY <1>1, <1>2, <1>3 DEF PromptInv, StatesKept
<1>11. ClaimsKept'
  <2>1. ASSUME NEW k \in Launches, Recent(k) PROVE Recent(k)'
    BY <1>1, <1>4, <2>1 DEF Recent, RowKeeps
  <2> QED
    BY <1>1, <1>2, <1>3, <1>4, <2>1 DEF PromptInv, ClaimsKept, RowKeeps
<1>12. LinksKept'
  <2>1. RowLinked'
    BY <1>1, <1>5 DEF RowLinked
  <2>2. ASSUME NEW q \in Pollers PROVE LinkView(q)'
    <3>1. LinkView(q)
      BY DEF PromptInv, LinksKept
    <3>2. CASE q = p
      BY <1>0, <1>1, <1>2, <1>3, <1>4, <1>5, <1>6, <3>1, <3>2 DEF LinkView
    <3>3. CASE q # p
      <4>1. Stays(q)
        BY <1>1, <3>3 DEF OthersStay
      <4> QED
        BY <1>1, <1>2, <1>3, <1>4, <1>5, <1>6, <3>1, <4>1 DEF LinkView, Stays
    <3> QED
      BY <3>2, <3>3
  <2> QED
    BY <2>1, <2>2 DEF LinksKept
<1>13. ChoicesKept'
  <2>1. ASSUME NEW q \in Pollers PROVE ChoiceView(q)'
    <3>1. ChoiceView(q)
      BY DEF PromptInv, ChoicesKept
    <3>2. \A k : Spared(q, k) => Spared(q, k)'
      BY <1>1, <1>2 DEF Spared, RowKeeps
    <3>3. CASE q = p
      BY <1>0, <1>1, <1>2, <1>3, <3>1, <3>2, <3>3 DEF ChoiceView, Launching
    <3>4. CASE q # p
      <4>1. Stays(q)
        BY <1>1, <3>4 DEF OthersStay
      <4> QED
        BY <1>1, <1>2, <1>3, <1>4, <1>7, <1>8, <3>1, <3>2, <4>1 DEF ChoiceView, Stays, RowKeeps
    <3> QED
      BY <3>3, <3>4
  <2> QED
    BY <2>1 DEF ChoicesKept
<1> QED
  BY <1>9, <1>10, <1>11, <1>12, <1>13 DEF PromptInv

\* A claim: the only one of its interval, with no process living.
LEMMA ClaimPrompt ==
    ASSUME Prompt, MissionTyped, PromptInv, NEW p \in Pollers, ClaimLaunch(p)
    PROVE  PromptInv'
<1>0. /\ stage[p] = "claim" /\ stage[p] # Idle /\ stage[p] # "adopt"
      /\ PlanView(p) /\ LinkView(p) /\ ChoiceView(p)
  BY DEF ClaimLaunch, PromptInv, PlansKept, LinksKept, ChoicesKept, Idle
<1>1. /\ (Ended(p) /\ mission' = mission) \/ Claims(p)
      /\ OthersStay(p) /\ kids' = kids /\ runs' = runs
  BY ClaimSteps
<1>2. CASE Ended(p) /\ mission' = mission
  BY <1>0, <1>1, <1>2, EndsPrompt
<1>3. CASE Claims(p)
  <2>1. /\ Calm /\ mission.launches \in Nat /\ mission.resumes \in Nat /\ hold[p] = 0
    BY <1>3, PromptFacts, TypedFacts DEF Claims
  <2>2. /\ mission'.plan = mission.plan /\ mission'.run = mission.run /\ mission'.pid = mission.pid
        /\ mission'.launches = mission.launches + 1 /\ mission'.age = 0
        /\ mission'.resumes = IF job[p] = "resume" THEN mission.resumes + 1 ELSE mission.resumes
        /\ ticket'[p] = mission.launches + 1 /\ stage'[p] = "spawn"
        /\ snap'[p] = snap[p] /\ seen'[p] = seen[p] /\ plan'[p] = plan[p] /\ job'[p] = job[p]
    BY <1>3, <2>1 DEF Claims
  <2>3. ~Calm' /\ Launches' = Launches /\ Barren' = Barren
    BY <1>1, <2>2 DEF Calm, Launches, Barren, Gone
  <2>4. \A k : (Live(k)' <=> Live(k)) /\ (Gone(k)' <=> Gone(k)) /\ (HasState(k)' <=> HasState(k))
    BY <1>1, <2>2, <2>3 DEF Live, Gone, HasState
  <2>5. \A q \in Pollers : ~Launching(q) /\ (Launching(q)' => q = p)
    BY <1>1, <2>1 DEF PromptInv, ClaimsKept, OthersStay, Stays, Launching
  <2>6. \A k \in Launches : ~Live(k)
    BY <1>0, <2>1 DEF ChoiceView
  <2>7. PlansKept'
    <3>1. ASSUME NEW q \in Pollers PROVE PlanView(q)'
      <4>1. PlanView(q)
        BY DEF PromptInv, PlansKept
      <4>2. CASE q = p
        BY <1>0, <1>1, <2>2, <4>1, <4>2 DEF PlanView
      <4>3. CASE q # p
        BY <1>1, <2>2, <4>1, <4>3 DEF PlanView, OthersStay, Stays
      <4> QED
        BY <4>2, <4>3
    <3> QED
      BY <1>1, <2>2, <2>3, <3>1 DEF PromptInv, PlansKept
  <2>8. StatesKept'
    BY <1>1, <2>3, <2>4 DEF PromptInv, StatesKept
  <2>9. ClaimsKept'
    BY <2>2, <2>3, <2>4, <2>5, <2>6 DEF ClaimsKept, Never
  <2>10. LinksKept'
    <3>1. RowLinked'
      BY <1>1, <2>2 DEF PromptInv, LinksKept, RowLinked
    <3>2. ASSUME NEW q \in Pollers PROVE LinkView(q)'
      <4>1. LinkView(q)
        BY DEF PromptInv, LinksKept
      <4>2. CASE q = p
        BY <1>0, <1>1, <2>1, <2>2, <2>3, <2>4, <4>1, <4>2 DEF LinkView
      <4>3. CASE q # p
        <5>1. Stays(q)
          BY <1>1, <4>3 DEF OthersStay
        <5> QED
          BY <1>1, <2>1, <2>2, <2>3, <2>4, <4>1, <5>1 DEF LinkView, Stays
      <4> QED
        BY <4>2, <4>3
    <3> QED
      BY <3>1, <3>2 DEF LinksKept
  <2>11. ChoicesKept'
    <3>1. ASSUME job[p] = "fresh" PROVE Barren /\ \A q \in Pollers : stage'[q] # "link"
      <4>1. Barren
        BY <1>0, <2>1, <3>1 DEF ChoiceView
      <4>2. ASSUME NEW q \in Pollers, stage[q] = "link" PROVE FALSE
        <5>1. mission.pid # None /\ seen[q].run = kids[mission.pid].run /\ runs[seen[q].run].pid = mission.pid
          BY <2>1, <4>2 DEF PromptInv, LinksKept, LinkView, Idle
        <5> QED
          BY <4>1, <5>1 DEF Barren, Gone
      <4> QED
        BY <1>1, <2>2, <4>1, <4>2 DEF OthersStay, Stays
    <3>2. ASSUME NEW q \in Pollers PROVE ChoiceView(q)'
      <4>1. CASE q = p
        BY <2>1, <2>2, <2>3, <3>1, <4>1 DEF ChoiceView, Launching
      <4>2. CASE q # p
        <5>1. ~Launching(q)'
          BY <2>5, <4>2
        <5> QED
          BY <2>3, <5>1 DEF ChoiceView, Launching
      <4> QED
        BY <4>1, <4>2
    <3> QED
      BY <3>2 DEF ChoicesKept
  <2> QED
    BY <2>7, <2>8, <2>9, <2>10, <2>11 DEF PromptInv
<1> QED
  BY <1>1, <1>2, <1>3

\* The launch of a claim is the one living process.
LEMMA SpawnPrompt ==
    ASSUME Prompt, MissionTyped, PromptInv, NEW p \in Pollers, Spawn(p)
    PROVE  PromptInv'
<1>0. /\ stage[p] = "spawn" /\ stage[p] # Idle /\ Launching(p)
      /\ PlanView(p) /\ LinkView(p) /\ ChoiceView(p) /\ ViewOK(p)
  BY DEF Spawn, MissionTyped, PromptInv, PlansKept, LinksKept, ChoicesKept, Idle, Launching
<1>1. UNCHANGED <<mission, snap, seen, plan, job, ticket>> /\ Spawns(p) /\ WorldGrows
  BY SpawnSteps
<1>2. PICK n :
      /\ n \notin Launches /\ Launches' = Launches \cup {n}
      /\ \A j \in Launches : kids'[j] = kids[j] /\ runs'[j] = runs[j]
      /\ runs'[n].status = "none" /\ runs'[n].pid = None
      /\ kids'[n].claim = ticket[p] /\ kids'[n].state = "starting" /\ kids'[n].age = 0
      /\ kids'[n].run = IF job[p] = "fresh" THEN n ELSE seen[p].run
      /\ kids'[n].plan = IF job[p] = "fresh" THEN plan[p] ELSE kids[seen[p].run].plan
  BY <1>1 DEF Spawns
<1>3. stage'[p] = "adopt" /\ \A q \in Pollers \ {p} : stage'[q] = stage[q]
  BY DEF Spawn, GoTo, MissionTyped, ViewsOK
<1>4. /\ \A k \in Launches : /\ kids[k].run \in Launches /\ IsKid(runs[k].pid)
                             /\ kids[k].plan \in Nat
      /\ mission.plan \in Nat
      /\ IsKid(mission.pid) /\ (mission.run # None => mission.run \in Launches)
  BY TypedFacts DEF MissionTyped, RunsOK, RowOK, HasState
<1>5. ~Calm /\ ticket[p] = mission.launches /\ \A q \in Pollers : Launching(q) => q = p
  BY <1>0 DEF PromptInv, ClaimsKept
<1>6. job[p] # "fresh" => job[p] = "resume" /\ seen[p].run # None /\ HasState(seen[p].run)
  BY <1>0 DEF ViewOK, MissionTyped, ViewsOK
<1>7. ~Calm' /\ (Barren => Barren')
  BY <1>1, <1>2, <1>4, <1>5 DEF Calm, Barren, Gone, IsKid
<1>8. \A k \in Launches : /\ ~Live(k) /\ kids[k].claim # ticket[p]
                          /\ ~Live(k)' /\ (Gone(k) => Gone(k)')
  BY <1>0, <1>1, <1>2, <1>4, <1>5 DEF PromptInv, ClaimsKept, Recent, Live, Gone, ViewOK
<1>9. kids'[n].plan = mission.plan
  BY <1>0, <1>2, <1>6 DEF PlanView
<1>10. PlansKept'
  <2>1. ASSUME NEW k \in Launches' PROVE kids'[k].plan <= mission'.plan /\ kids'[k].plan = kids'[kids'[k].run].plan
    <3>1. CASE k \in Launches
      BY <1>1, <1>2, <1>4, <3>1 DEF PromptInv, PlansKept
    <3>2. CASE k = n
      BY <1>1, <1>2, <1>4, <1>6, <1>9, <3>2 DEF HasState
    <3> QED
      BY <1>2, <3>1, <3>2
  <2>2. ASSUME NEW q \in Pollers PROVE PlanView(q)'
    <3>1. PlanView(q) /\ ViewOK(q)
      BY DEF PromptInv, PlansKept, MissionTyped
    <3>2. /\ snap[q].run # None => snap[q].run \in Launches
          /\ snap[q].pid # None => snap[q].pid \in Launches
          /\ seen[q].run # None => seen[q].run \in Launches
      BY <3>1 DEF ViewOK, HasState, IsKid
    <3> QED
      BY <1>0, <1>1, <1>2, <1>3, <3>1, <3>2 DEF PlanView
  <2> QED
    BY <1>1, <1>2, <1>4, <2>1, <2>2 DEF PromptInv, PlansKept, IsKid
<1>11. StatesKept'
  <2>1. ASSUME NEW r \in Launches'
        PROVE  /\ runs'[r].status # "none" => kids'[r].state # "starting"
               /\ runs'[r].pid # None => /\ kids'[runs'[r].pid].run = r
                                         /\ kids'[runs'[r].pid].state # "starting"
    <3>1. CASE r \in Launches
      BY <1>2, <1>4, <3>1 DEF PromptInv, StatesKept, IsKid
    <3> QED
      BY <1>2, <3>1
  <2>2. ASSUME NEW k \in Launches', kids'[k].run # k PROVE HasState(kids[k].run)'
    <3>1. \A r : HasState(r) => HasState(r)'
      BY <1>1 DEF WorldGrows, HasState
    <3>2. CASE k \in Launches
      <4>1. HasState(kids[k].run) /\ kids'[k].run = kids[k].run
        BY <1>2, <2>2, <3>2 DEF PromptInv, StatesKept
      <4> QED
        BY <1>2, <4>1 DEF HasState
    <3>3. CASE k = n
      <4>1. HasState(seen[p].run) /\ kids'[k].run = seen[p].run
        BY <1>2, <1>6, <2>2, <3>3
      <4> QED
        BY <1>2, <4>1 DEF HasState
    <3> QED
      BY <1>2, <3>2, <3>3
  <2>3. \A k \in Launches' : Live(k)' => kids'[k].state # "working"
    BY <1>2, <1>8
  <2> QED
    BY <2>1, <2>2, <2>3 DEF StatesKept
<1>12. ClaimsKept'
  <2>1. \A q \in Pollers : Launching(q)' <=> Launching(q)
    BY <1>0, <1>3 DEF Launching
  <2>2. mission.age = 0 /\ MaxStart \in Nat
    BY <1>5, PromptFacts DEF Calm
  <2>3. Recent(n)'
    BY <1>0, <1>1, <1>2, <1>3, <1>5, <1>6, <2>2 DEF Recent, ChoiceView
  <2>4. \A k \in Launches' : Live(k)' => k = n
    BY <1>2, <1>8
  <2> QED
    BY <1>1, <1>7, <2>1, <2>3, <2>4 DEF PromptInv, ClaimsKept
<1>13. LinksKept'
  <2>1. RowLinked'
    BY <1>1, <1>2, <1>4 DEF PromptInv, LinksKept, RowLinked, IsKid
  <2>2. ASSUME NEW q \in Pollers PROVE LinkView(q)'
    <3>1. LinkView(q) /\ ViewOK(q)
      BY DEF PromptInv, LinksKept, MissionTyped
    <3>2. IsKid(snap[q].pid)
      BY <3>1 DEF ViewOK
    <3> QED
      BY <1>0, <1>1, <1>2, <1>3, <1>4, <1>7, <1>8, <3>1, <3>2 DEF LinkView, IsKid
  <2> QED
    BY <2>1, <2>2 DEF LinksKept
<1>14. ChoicesKept'
  <2>1. ASSUME NEW q \in Pollers PROVE ChoiceView(q)'
    <3>1. CASE q = p
      <4>1. job[p] = "fresh" => Barren' /\ \A r \in Pollers : stage'[r] # "link"
        BY <1>0, <1>3, <1>7 DEF ChoiceView
      <4> QED
        BY <1>1, <1>2, <1>3, <1>7, <1>8, <1>9, <3>1, <4>1 DEF ChoiceView, Launching
    <3>2. CASE q # p
      <4>1. ~Launching(q) /\ ~Launching(q)'
        BY <1>3, <1>5, <3>2 DEF Launching
      <4> QED
        BY <1>7, <4>1 DEF ChoiceView, Launching
    <3> QED
      BY <3>1, <3>2
  <2> QED
    BY <2>1 DEF ChoicesKept
<1> QED
  BY <1>10, <1>11, <1>12, <1>13, <1>14 DEF PromptInv

\* The pid of the claim in hand, of the run the row has or of none.
LEMMA AdoptPrompt ==
    ASSUME Prompt, MissionTyped, PromptInv, NEW p \in Pollers, Adopt(p)
    PROVE  PromptInv'
<1>0. /\ stage[p] = "adopt" /\ stage[p] # Idle /\ Launching(p)
      /\ PlanView(p) /\ LinkView(p) /\ ChoiceView(p) /\ ViewOK(p)
  BY DEF Adopt, MissionTyped, PromptInv, PlansKept, LinksKept, ChoicesKept, Idle, Launching
<1>1. Adopts(p) /\ OthersStay(p) /\ kids' = kids /\ runs' = runs
  BY AdoptSteps
<1>2. mission.launches = ticket[p] /\ ~Calm /\ \A q \in Pollers : Launching(q) => q = p
  BY <1>0 DEF PromptInv, ClaimsKept
<1>3. /\ RowKeeps /\ mission'.run = mission.run
      /\ mission'.pid \in Launches /\ kids[mission'.pid].claim = ticket[p] /\ stage'[p] = "idle"
  BY <1>1, <1>2 DEF Adopts, Ended, Idle
<1>4. PICK k \in Launches : k = mission'.pid
  BY <1>3
<1>5. /\ kids[k].claim = ticket[p] /\ kids[k].plan = mission.plan /\ k # None
      /\ kids[k].run = IF job[p] = "fresh" THEN k ELSE seen[p].run
  BY <1>0, <1>3, <1>4, TypedFacts DEF ChoiceView, None
<1>6. Launches' = Launches /\ ~Calm' /\ \A j : Live(j)' <=> Live(j)
  BY <1>1, <1>2, <1>3 DEF Launches, Calm, Live, RowKeeps
<1>7. \A j : (Gone(j)' <=> Gone(j)) /\ (HasState(j)' <=> HasState(j))
  BY <1>1, <1>6 DEF Gone, HasState
<1>8. \A q \in Pollers : ~Launching(q)' /\ (q # p => Stays(q))
  BY <1>1, <1>2, <1>3 DEF OthersStay, Stays, Launching
<1>9. job[p] = "fresh" => Barren /\ \A q \in Pollers : stage[q] # "link"
  BY <1>0 DEF ChoiceView
<1>10. job[p] # "fresh" => /\ mission.run # None /\ kids[k].run = mission.run
                           /\ mission.pid # None /\ kids[mission.pid].run = mission.run
  <2>1. job[p] # "fresh" => job[p] = "resume" /\ seen[p].run # None
    BY <1>0 DEF ViewOK, MissionTyped, ViewsOK
  <2>2. seen[p].run # None => mission.run = seen[p].run
    BY <1>0 DEF LinkView
  <2> QED
    BY <1>5, <2>1, <2>2 DEF PromptInv, LinksKept, RowLinked
<1>11. PlansKept'
  <2>1. ASSUME NEW q \in Pollers PROVE PlanView(q)'
    <3>1. PlanView(q)
      BY DEF PromptInv, PlansKept
    <3>2. CASE q = p
      BY <1>3, <3>2 DEF PlanView, Idle
    <3>3. CASE q # p
      BY <1>1, <1>3, <1>8, <3>1, <3>3 DEF PlanView, Stays, RowKeeps
    <3> QED
      BY <3>2, <3>3
  <2> QED
    BY <1>1, <1>3, <1>4, <1>5, <1>6, <2>1 DEF PromptInv, PlansKept, RowKeeps
<1>12. StatesKept'
  BY <1>1, <1>6, <1>7 DEF PromptInv, StatesKept
<1>13. ClaimsKept'
  <2>1. ASSUME NEW j \in Launches, Live(j) PROVE Recent(j)'
    <3>1. Recent(j)
      BY <2>1 DEF PromptInv, ClaimsKept
    <3>2. j = k
      BY <1>2, <1>5, <3>1 DEF Recent, MissionTyped, RunsOK
    <3> QED
      BY <1>1, <1>3, <1>4, <3>1, <3>2 DEF Recent, RowKeeps
  <2> QED
    BY <1>3, <1>6, <1>8, <2>1 DEF PromptInv, ClaimsKept, RowKeeps
<1>14. LinksKept'
  <2>1. RowLinked'
    BY <1>1, <1>3, <1>4, <1>5, <1>9, <1>10 DEF RowLinked, Barren
  <2>2. ASSUME NEW q \in Pollers PROVE LinkView(q)'
    <3>1. LinkView(q)
      BY DEF PromptInv, LinksKept
    <3>2. CASE q = p
      BY <1>3, <3>2 DEF LinkView, Idle
    <3>3. CASE q # p /\ stage[q] # Idle
      <4>1. Stays(q)
        BY <1>8, <3>3
      <4>2. snap[q].pid = mission.pid
        BY <1>0, <3>1, <3>3 DEF LinkView
      <4>3. mission.pid # None => kids[mission.pid].run = kids[k].run \/ Gone(mission.pid)
        BY <1>9, <1>10 DEF Barren
      <4>4. stage[q] = "link" => seen[q].run = kids[k].run
        BY <1>9, <1>10, <3>1, <3>3 DEF LinkView
      <4>5. snap'[q].pid # None => /\ mission'.pid # None
                                   /\ \/ kids'[snap'[q].pid].run = kids'[mission'.pid].run
                                      \/ Gone(snap[q].pid)'
        BY <1>1, <1>4, <1>5, <1>7, <4>1, <4>2, <4>3 DEF Stays, Gone
      <4> QED
        BY <1>1, <1>3, <1>4, <1>5, <1>6, <1>8, <3>1, <3>3, <4>1, <4>4, <4>5 DEF LinkView, Stays
    <3>4. CASE q # p /\ stage[q] = Idle
      BY <1>8, <3>4 DEF LinkView, Stays
    <3> QED
      BY <3>2, <3>3, <3>4
  <2> QED
    BY <2>1, <2>2 DEF LinksKept
<1>15. ChoicesKept'
  <2>1. ASSUME NEW q \in Pollers PROVE ChoiceView(q)'
    BY <1>6, <1>8 DEF ChoiceView, Launching
  <2> QED
    BY <2>1 DEF ChoicesKept
<1> QED
  BY <1>11, <1>12, <1>13, <1>14, <1>15 DEF PromptInv

\* Pauses and closes.
LEMMA SameViews ==
    ASSUME PromptInv, RowKeeps, mission'.run = mission.run, mission'.pid = mission.pid,
           kids' = kids, runs' = runs, \A q \in Pollers : Stays(q)
    PROVE  PromptInv'
<1>1. Launches' = Launches /\ Owed' = Owed /\ Calm' = Calm /\ Barren' = Barren
  BY DEF Launches, Owed, Calm, Barren, Gone, RowKeeps
<1>2. \A k : (Live(k)' <=> Live(k)) /\ (Gone(k)' <=> Gone(k)) /\ (HasState(k)' <=> HasState(k))
  BY <1>1 DEF Live, Gone, HasState, RowKeeps
<1>3. \A q \in Pollers : Launching(q)' <=> Launching(q)
  BY DEF Stays, Launching
<1>4. PlansKept'
  <2>1. \A q \in Pollers : PlanView(q)'
    BY DEF PromptInv, PlansKept, PlanView, Stays, RowKeeps
  <2> QED
    BY <1>1, <2>1 DEF PromptInv, PlansKept, RowKeeps
<1>5. StatesKept'
  BY <1>1, <1>2 DEF PromptInv, StatesKept
<1>6. ClaimsKept'
  <2>1. ASSUME NEW k \in Launches, Recent(k) PROVE Recent(k)'
    BY <2>1 DEF Recent, Stays, RowKeeps
  <2> QED
    BY <1>1, <1>2, <1>3, <2>1 DEF PromptInv, ClaimsKept, RowKeeps, Stays
<1>7. LinksKept'
  <2>1. ASSUME NEW q \in Pollers PROVE LinkView(q)'
    BY <1>1, <1>2, <1>3 DEF PromptInv, LinksKept, LinkView, Stays
  <2> QED
    BY <2>1 DEF PromptInv, LinksKept, RowLinked
<1>8. ChoicesKept'
  <2>1. ASSUME NEW q \in Pollers PROVE ChoiceView(q)'
    <3>1. ChoiceView(q) /\ Stays(q)
      BY DEF PromptInv, ChoicesKept
    <3>2. \A k : Spared(q, k) => Spared(q, k)'
      BY <1>1, <3>1 DEF Spared, Stays, RowKeeps
    <3>3. (\A r \in Pollers : stage[r] # "link") => \A r \in Pollers : stage'[r] # "link"
      BY DEF Stays
    <3> QED
      BY <1>1, <1>2, <1>3, <3>1, <3>2, <3>3 DEF ChoiceView, Stays, RowKeeps
  <2> QED
    BY <2>1 DEF ChoicesKept
<1> QED
  BY <1>4, <1>5, <1>6, <1>7, <1>8 DEF PromptInv

LEMMA FlipPrompt ==
    ASSUME MissionTyped, PromptInv, Flip
    PROVE  PromptInv'
<1>1. UNCHANGED <<kids, runs, stage, snap, seen, plan, job, ticket, hold>>
  BY DEF Flip, locals
<1>2. PICK s \in {"paused", "active"} : mission' = [mission EXCEPT !.status = s]
  BY DEF Flip
<1>3. RowKeeps /\ mission'.run = mission.run /\ mission'.pid = mission.pid
  BY <1>2, StatusSteps
<1>4. \A q \in Pollers : Stays(q)
  BY <1>1 DEF Stays
<1> QED
  BY <1>1, <1>3, <1>4, SameViews

\* A close is a change of status by a cycle that ends.
LEMMA ClosePrompt ==
    ASSUME MissionTyped, PromptInv, NEW p \in Pollers, Close(p)
    PROVE  PromptInv'
<1>0. stage[p] = "close" /\ ~Launching(p)
  BY DEF Close, Launching
<1>1. EndCycle(p) /\ kids' = kids /\ runs' = runs /\ mission' = [mission EXCEPT !.status = "delivered"]
  BY DEF Close, world
<1>2. stage'[p] = "idle" /\ OthersStay(p)
  BY <1>1, EndsCycle DEF MissionTyped, Ended, Idle
<1>3. RowKeeps /\ mission'.run = mission.run /\ mission'.pid = mission.pid
  BY <1>1, StatusSteps
<1>4. Launches' = Launches /\ Owed' = Owed /\ Calm' = Calm /\ Barren' = Barren
  BY <1>1, <1>3 DEF Launches, Owed, Calm, Barren, Gone, RowKeeps
<1>5. \A k : (Live(k)' <=> Live(k)) /\ (Gone(k)' <=> Gone(k)) /\ (HasState(k)' <=> HasState(k))
  BY <1>1, <1>3, <1>4 DEF Live, Gone, HasState, RowKeeps
<1>6. \A q \in Pollers : /\ Launching(q)' <=> Launching(q)
                         /\ stage'[q] = "adopt" <=> stage[q] = "adopt"
                         /\ q # p => Stays(q)
                         /\ stage'[q] # "idle" => q # p
                         /\ stage'[q] = "link" => stage[q] = "link"
  BY <1>0, <1>2 DEF OthersStay, Stays, Launching
<1>7. PlansKept'
  <2>1. ASSUME NEW q \in Pollers PROVE PlanView(q)'
    BY <1>1, <1>3, <1>6 DEF PromptInv, PlansKept, PlanView, Stays, RowKeeps, Idle
  <2> QED
    BY <1>1, <1>3, <1>4, <2>1 DEF PromptInv, PlansKept, RowKeeps
<1>8. StatesKept'
  BY <1>1, <1>4, <1>5 DEF PromptInv, StatesKept
<1>9. ClaimsKept'
  <2>1. ASSUME NEW k \in Launches, Recent(k) PROVE Recent(k)'
    BY <1>1, <1>3, <1>6, <2>1 DEF Recent, RowKeeps
  <2>2. \A q \in Pollers : Launching(q) => q # p
    BY <1>0
  <2> QED
    BY <1>3, <1>4, <1>5, <1>6, <2>1, <2>2 DEF PromptInv, ClaimsKept, RowKeeps, Stays
<1>10. LinksKept'
  <2>1. ASSUME NEW q \in Pollers PROVE LinkView(q)'
    <3>1. LinkView(q)
      BY DEF PromptInv, LinksKept
    <3>2. CASE q = p
      BY <1>2, <3>2 DEF LinkView, Idle
    <3>3. CASE q # p
      <4>1. Stays(q)
        BY <1>6, <3>3
      <4> QED
        BY <1>1, <1>3, <1>4, <1>5, <1>6, <3>1, <4>1 DEF LinkView, Stays
    <3> QED
      BY <3>2, <3>3
  <2> QED
    BY <1>1, <1>3, <2>1 DEF PromptInv, LinksKept, RowLinked
<1>11. ChoicesKept'
  <2>1. ASSUME NEW q \in Pollers PROVE ChoiceView(q)'
    <3>1. CASE q = p
      BY <1>2, <3>1 DEF ChoiceView, Launching
    <3>2. CASE q # p
      <4>1. ChoiceView(q) /\ Stays(q)
        BY <1>6, <3>2 DEF PromptInv, ChoicesKept
      <4>2. \A k : Spared(q, k) => Spared(q, k)'
        BY <1>3, <1>4, <4>1 DEF Spared, Stays, RowKeeps
      <4> QED
        BY <1>1, <1>3, <1>4, <1>5, <1>6, <4>1, <4>2 DEF ChoiceView, Stays, RowKeeps
    <3> QED
      BY <3>1, <3>2
  <2> QED
    BY <2>1 DEF ChoicesKept
<1> QED
  BY <1>7, <1>8, <1>9, <1>10, <1>11 DEF PromptInv

\* What a step of a deliver process leaves: it never starts again, and it shows
\* itself only in its own run.
LEMMA KidFacts ==
    ASSUME MissionTyped, PromptInv, NEW k \in Launches, KidStep(k),
           UNCHANGED <<mission, stage, snap, seen, plan, job, ticket, hold>>
    PROVE  /\ Launches' = Launches
           /\ \A j \in Launches : /\ kids'[j].run = kids[j].run /\ kids'[j].claim = kids[j].claim
                                  /\ kids'[j].plan = kids[j].plan
                                  /\ kids'[j].state = "starting" => kids'[j] = kids[j]
                                  /\ Live(j)' => Live(j) /\ (j # k => kids'[j] = kids[j])
                                  /\ Gone(j) => Gone(j)'
           /\ \A r \in Launches :
                \/ runs'[r].status = runs[r].status /\ runs'[r].pid = runs[r].pid
                \/ /\ r = kids[k].run /\ runs'[r].pid = k /\ runs'[r].status # "none"
                   /\ kids[k].state \in {"starting", "working"} /\ kids'[k].state # "starting"
                   /\ kids'[k].state = "working" => runs'[r].status = "running"
           /\ kids[k].state = "starting" /\ kids'[k].state = "working" =>
                runs'[kids[k].run].pid = k /\ runs'[kids[k].run].status = "running"
           /\ kids'[k].state # "starting"
           /\ kids'[k].state = "working" => kids[k].state = "starting"
<1>1. \E s \in {"working", "saved", "gone"} : Moves(k, s) /\ kids'[k].state = s
  BY DEF KidStep, Moves
<1>2. /\ Launches' = Launches
      /\ \A j \in Launches : /\ kids'[j].run = kids[j].run /\ kids'[j].claim = kids[j].claim
                             /\ kids'[j].plan = kids[j].plan
                             /\ j # k => kids'[j] = kids[j]
      /\ kids'[k].state \in {"working", "saved", "gone"}
  BY <1>1 DEF Moves
<1>3. kids'[k].state = "working" => kids[k].state = "starting" /\ Saves(k, "running")
  BY DEF KidStep, Moves
<1>4. \/ Keeps
      \/ /\ kids[k].state \in {"starting", "working"}
         /\ \E s \in Ends \cup {"running"} : Saves(k, s) /\ (kids'[k].state = "working" => s = "running")
  BY <1>3 DEF KidStep, Moves
<1>5. "none" \notin Ends \cup {"running"}
  BY DEF Ends
<1>6. \A r \in Launches :
        \/ runs'[r].status = runs[r].status /\ runs'[r].pid = runs[r].pid
        \/ /\ r = kids[k].run /\ runs'[r].pid = k /\ runs'[r].status # "none"
           /\ kids[k].state \in {"starting", "working"} /\ kids'[k].state # "starting"
           /\ kids'[k].state = "working" => runs'[r].status = "running"
  <2>1. CASE Keeps
    BY <2>1 DEF Keeps
  <2>2. CASE /\ kids[k].state \in {"starting", "working"}
             /\ \E s \in Ends \cup {"running"} : Saves(k, s) /\ (kids'[k].state = "working" => s = "running")
    <3>1. PICK s \in Ends \cup {"running"} : Saves(k, s) /\ (kids'[k].state = "working" => s = "running")
      BY <2>2
    <3>2. kids'[k].state # "starting"
      BY <1>2
    <3> QED
      BY <1>5, <2>2, <3>1, <3>2 DEF Saves
  <2> QED
    BY <1>4, <2>1, <2>2
<1>7. ASSUME NEW j \in Launches PROVE Live(j)' => Live(j) /\ (j # k => kids'[j] = kids[j])
  <2>1. kids'[k].state \in {"starting", "working"} => kids[k].state = "starting"
    BY <1>2, <1>3
  <2> QED
    BY <1>2, <2>1 DEF Live
<1>8. ASSUME NEW j \in Launches, Gone(j) PROVE Gone(j)'
  <2>1. kids[j].run \in Launches
    BY TypedFacts
  <2>2. CASE j = k
    <3>1. Keeps /\ kids'[k].state \in {"saved", "gone"}
      BY <1>2, <1>3, <1>4, <1>8, <2>2 DEF Gone
    <3> QED
      BY <1>2, <1>8, <2>1, <2>2, <3>1 DEF Gone, Keeps
  <2>3. CASE j # k
    BY <1>2, <1>6, <1>8, <2>1, <2>3 DEF Gone
  <2> QED
    BY <2>2, <2>3
<1> QED
  BY <1>2, <1>3, <1>6, <1>7, <1>8 DEF Saves

LEMMA KidPrompt ==
    ASSUME MissionTyped, PromptInv, NEW k \in Launches, Run(k) \/ Fail(k) \/ Kill(k)
    PROVE  PromptInv'
<1>0. UNCHANGED <<mission, stage, snap, seen, plan, job, ticket, hold>> /\ KidStep(k)
      /\ WorldGrows
  BY KidSteps
<1>1. /\ Launches' = Launches
      /\ \A j \in Launches : /\ kids'[j].run = kids[j].run /\ kids'[j].claim = kids[j].claim
                             /\ kids'[j].plan = kids[j].plan
                             /\ kids'[j].state = "starting" => kids'[j] = kids[j]
                             /\ Live(j)' => Live(j) /\ (j # k => kids'[j] = kids[j])
                             /\ Gone(j) => Gone(j)'
      /\ \A r \in Launches :
           \/ runs'[r].status = runs[r].status /\ runs'[r].pid = runs[r].pid
           \/ /\ r = kids[k].run /\ runs'[r].pid = k /\ runs'[r].status # "none"
              /\ kids[k].state \in {"starting", "working"} /\ kids'[k].state # "starting"
              /\ kids'[k].state = "working" => runs'[r].status = "running"
      /\ kids[k].state = "starting" /\ kids'[k].state = "working" =>
           runs'[kids[k].run].pid = k /\ runs'[kids[k].run].status = "running"
      /\ kids'[k].state # "starting"
      /\ kids'[k].state = "working" => kids[k].state = "starting"
  BY <1>0, KidFacts
<1>2. /\ \A j \in Launches : /\ kids[j].run \in Launches /\ kids[j].run \in 1..j /\ IsKid(runs[j].pid)
                             /\ kids[j].plan = kids[kids[j].run].plan
      /\ IsKid(mission.pid) /\ (mission.run # None => HasState(mission.run))
      /\ mission.run # None => mission.run \in Launches
      /\ k # None
  BY TypedFacts DEF MissionTyped, RunsOK, RowOK, HasState, PromptInv, PlansKept, None
<1>3. Calm' = Calm /\ Owed' = Owed /\ (Barren => Barren')
  BY <1>0, <1>1, <1>2 DEF Calm, Owed, Barren, IsKid, Gone
<1>4. PlansKept'
  <2>1. ASSUME NEW q \in Pollers PROVE PlanView(q)'
    <3>1. PlanView(q) /\ ViewOK(q)
      BY DEF PromptInv, PlansKept, MissionTyped
    <3>2. /\ snap[q].run # None => snap[q].run \in Launches
          /\ snap[q].pid # None => snap[q].pid \in Launches
          /\ seen[q].run # None => seen[q].run \in Launches
      BY <3>1 DEF ViewOK, HasState, IsKid
    <3> QED
      BY <1>0, <1>1, <3>1, <3>2 DEF PlanView
  <2> QED
    BY <1>0, <1>1, <1>2, <2>1 DEF PromptInv, PlansKept, IsKid
\* A process whose run shows a write of k in the present criteria is k.
<1>5. ASSUME NEW j \in Launches, kids[j].run = kids[k].run, Live(j),
             kids[k].state \in {"starting", "working"}
      PROVE  j = k
  <2>1. Live(k)
    BY <1>2, <1>5 DEF Live
  <2>2. Recent(j) /\ Recent(k)
    BY <1>5, <2>1 DEF PromptInv, ClaimsKept
  <2> QED
    BY <2>2 DEF Recent, MissionTyped, RunsOK
<1>6. StatesKept'
  <2>1. ASSUME NEW r \in Launches
        PROVE  /\ runs'[r].status # "none" => kids'[r].state # "starting"
               /\ runs'[r].pid # None => /\ kids'[runs'[r].pid].run = r
                                         /\ kids'[runs'[r].pid].state # "starting"
    <3>1. CASE runs'[r].status = runs[r].status /\ runs'[r].pid = runs[r].pid
      <4>1. runs'[r].status # "none" => kids'[r].state # "starting"
        BY <1>1, <3>1 DEF PromptInv, StatesKept
      <4>2. runs[r].pid # None => runs[r].pid \in Launches
        BY <1>2 DEF IsKid
      <4> QED
        BY <1>1, <3>1, <4>1, <4>2 DEF PromptInv, StatesKept
    <3>2. CASE /\ r = kids[k].run /\ runs'[r].pid = k /\ runs'[r].status # "none"
               /\ kids'[k].state # "starting"
      <4>1. r # k => kids[r].state # "starting"
        BY <3>2 DEF PromptInv, StatesKept, HasState
      <4> QED
        BY <1>1, <3>2, <4>1
    <3> QED
      BY <1>1, <3>1, <3>2
  <2>2. ASSUME NEW j \in Launches, kids[j].run # j PROVE HasState(kids[j].run)'
    <3>1. HasState(kids[j].run)
      BY <2>2 DEF PromptInv, StatesKept
    <3> QED
      BY <1>0, <1>1, <3>1 DEF HasState, WorldGrows
  <2>3. ASSUME NEW j \in Launches, Live(j)', kids'[j].state = "working"
        PROVE  runs'[kids[j].run].status = "running" /\ runs'[kids[j].run].pid = j
    <3>1. Live(j)
      BY <1>1, <2>3
    <3>2. CASE j = k
      BY <1>1, <2>3, <3>2
    <3>3. CASE j # k
      <4>1. kids[j].state = "working"
        BY <1>1, <2>3, <3>3
      <4>2. runs[kids[j].run].status = "running" /\ runs[kids[j].run].pid = j
        BY <3>1, <4>1 DEF PromptInv, StatesKept
      <4> QED
        BY <1>1, <1>2, <1>5, <3>1, <3>3, <4>2
    <3> QED
      BY <3>2, <3>3
  <2> QED
    BY <1>1, <2>1, <2>2, <2>3 DEF StatesKept
<1>7. ClaimsKept'
  <2>1. ASSUME NEW j \in Launches, Live(j)' PROVE Recent(j)'
    <3>1. Recent(j)
      BY <1>1, <2>1 DEF PromptInv, ClaimsKept
    <3> QED
      BY <1>0, <1>1, <3>1 DEF Recent
  <2> QED
    BY <1>0, <1>1, <1>3, <2>1 DEF PromptInv, ClaimsKept, Launching
\* Nothing claimed: a write in a run of the present criteria is of the row's pid.
<1>8. ASSUME Calm, NEW r \in Launches, kids[r].plan = mission.plan, runs[r].pid = mission.pid
      PROVE  runs'[r].pid = mission.pid
  <2>1. CASE r = kids[k].run /\ runs'[r].pid = k /\ kids[k].state \in {"starting", "working"}
    <3>1. Live(k)
      BY <1>2, <1>8, <2>1 DEF Live
    <3> QED
      BY <1>8, <2>1, <3>1, LiveKid
  <2> QED
    BY <1>1, <1>8, <2>1
<1>9. LinksKept'
  <2>1. RowLinked'
    BY <1>0, <1>1, <1>2 DEF PromptInv, LinksKept, RowLinked, IsKid
  <2>2. ASSUME NEW q \in Pollers PROVE LinkView(q)'
    <3>1. LinkView(q) /\ ViewOK(q) /\ PlanView(q)
      BY DEF PromptInv, LinksKept, PlansKept, MissionTyped
    <3>2. /\ snap[q].pid # None => snap[q].pid \in Launches
          /\ seen[q].run # None => seen[q].run \in Launches
          /\ stage[q] = "link" => seen[q].run # None
      BY <3>1 DEF ViewOK, HasState, IsKid
    <3>3. stage[q] # Idle /\ Calm /\ snap[q].run = None /\ mission.run # None =>
             runs'[mission.run].pid = mission.pid
      BY <1>2, <1>8, <3>1 DEF LinkView, PromptInv, PlansKept
    <3>4. stage[q] = "link" /\ stage[q] # Idle /\ Calm => runs'[seen[q].run].pid = mission.pid
      BY <1>8, <3>1, <3>2 DEF LinkView, PlanView
    <3>5. mission.pid # None => mission.pid \in Launches
      BY <1>2 DEF IsKid
    <3>6. snap[q].pid # None => (Gone(snap[q].pid) => Gone(snap[q].pid)')
      <4>1. \A x \in Launches : Gone(x) => Gone(x)'
        BY <1>1
      <4>2. snap' = snap
        BY <1>0
      <4> QED
        BY <3>2, <4>1, <4>2 DEF Gone
    <3> QED
      BY <1>0, <1>1, <1>3, <3>1, <3>2, <3>3, <3>4, <3>5, <3>6 DEF LinkView, Launching
  <2> QED
    BY <2>1, <2>2 DEF LinksKept
<1>10. ChoicesKept'
  <2>1. ASSUME NEW q \in Pollers PROVE ChoiceView(q)'
    <3>1. ChoiceView(q)
      BY DEF PromptInv, ChoicesKept
    <3>2. \A j : Spared(q, j) => Spared(q, j)'
      BY <1>0, <1>3 DEF Spared
    <3> QED
      BY <1>0, <1>1, <1>3, <3>1, <3>2 DEF ChoiceView, Launching
  <2> QED
    BY <2>1 DEF ChoicesKept
<1> QED
  BY <1>4, <1>6, <1>7, <1>9, <1>10 DEF PromptInv

\* An interval passes: every cycle is over.
LEMMA TickPrompt ==
    ASSUME Prompt, MissionTyped, PromptInv, Tick
    PROVE  PromptInv'
<1>0. /\ UNCHANGED <<stage, snap, seen, plan, job, ticket>> /\ Ages /\ RowAges
      /\ \A p \in Pollers : stage[p] = "idle"
  <2>1. \A p \in Pollers : ~(hold[p] < MaxHold)
    BY PromptFacts DEF Prompt
  <2> QED
    BY <2>1, Ticks DEF Tick, Idle
<1>1. /\ Launches' = Launches /\ runs' = runs
      /\ \A k \in Launches : /\ kids'[k].run = kids[k].run /\ kids'[k].claim = kids[k].claim
                             /\ kids'[k].plan = kids[k].plan /\ kids'[k].state = kids[k].state
                             /\ kids[k].state # "gone" => kids'[k].age = kids[k].age + 1
      /\ mission'.plan = mission.plan /\ mission'.run = mission.run /\ mission'.pid = mission.pid
      /\ mission'.launches = mission.launches /\ mission'.resumes = mission.resumes
      /\ mission'.age = IF mission.age = Never THEN Never ELSE Least(mission.age + 1, MaxAge)
  BY <1>0 DEF Ages, RowAges
<1>2. /\ \A k \in Launches : kids[k].run \in Launches /\ IsKid(runs[k].pid) /\ kids[k].age \in Nat
      /\ IsKid(mission.pid) /\ (mission.run # None => mission.run \in Launches)
  BY TypedFacts DEF MissionTyped, RunsOK, RowOK, HasState
<1>3. \A k \in Launches : (Live(k)' <=> Live(k)) /\ (HasState(k)' <=> HasState(k))
  BY <1>1 DEF Live, HasState
<1>4. \A p \in Pollers : stage'[p] = "idle"
  BY <1>0
<1>5. PlansKept'
  BY <1>1, <1>2, <1>4 DEF PromptInv, PlansKept, PlanView, Idle, IsKid
<1>6. StatesKept'
  <2>1. ASSUME NEW r \in Launches
        PROVE  /\ runs'[r].status # "none" => kids'[r].state # "starting"
               /\ runs'[r].pid # None => /\ kids'[runs'[r].pid].run = r
                                         /\ kids'[runs'[r].pid].state # "starting"
    BY <1>1, <1>2 DEF PromptInv, StatesKept, IsKid
  <2>2. ASSUME NEW k \in Launches, kids[k].run # k PROVE HasState(kids[k].run)'
    <3>1. HasState(kids[k].run)
      BY <2>2 DEF PromptInv, StatesKept
    <3> QED
      BY <1>1, <3>1 DEF HasState
  <2>3. ASSUME NEW k \in Launches, Live(k), kids[k].state = "working"
        PROVE  runs[kids[k].run].status = "running" /\ runs[kids[k].run].pid = k
    BY <2>3 DEF PromptInv, StatesKept
  <2> QED
    BY <1>1, <1>3, <2>1, <2>2, <2>3 DEF StatesKept
<1>7. ClaimsKept'
  <2>1. mission'.age = Never => mission.age = Never
    <3>1. MaxAge \in Nat /\ mission.age \in Int /\ mission.age >= -1
      BY PromptFacts, MissionAssumption DEF MaxAge, Never
    <3> QED
      BY <1>1, <3>1 DEF Never, Least
  <2>2. ASSUME NEW k \in Launches, Live(k) PROVE Recent(k)'
    <3>1. Recent(k)
      BY <2>2 DEF PromptInv, ClaimsKept
    <3>2. mission'.pid = k
      BY <1>0, <1>1, <3>1 DEF Recent
    <3>3. CASE kids[k].state = "starting"
      <4>1. kids[k].age = mission.age /\ kids[k].age < MaxStart /\ kids[k].age \in Nat
        BY <1>2, <3>1, <3>3 DEF Recent, Tick
      <4>2. MaxStart \in Nat /\ MaxStart < MaxAge /\ MaxAge \in Int
        BY PromptFacts, MissionAssumption DEF MaxAge
      <4>3. mission'.age = mission.age + 1 /\ mission.age + 1 <= MaxStart
        BY <1>1, <4>1, <4>2 DEF Least, Never
      <4>4. kids'[k].age = kids[k].age + 1
        BY <1>1, <3>3
      <4> QED
        BY <1>1, <3>1, <3>2, <4>1, <4>3, <4>4 DEF Recent
    <3>4. CASE kids[k].state # "starting"
      BY <1>1, <3>1, <3>2, <3>4 DEF Recent
    <3> QED
      BY <3>3, <3>4
  <2>3. \A p \in Pollers : ~Launching(p)'
    BY <1>4 DEF Launching
  <2> QED
    BY <1>1, <1>3, <2>1, <2>2, <2>3 DEF PromptInv, ClaimsKept
<1>8. LinksKept'
  BY <1>1, <1>2, <1>4 DEF PromptInv, LinksKept, RowLinked, LinkView, Idle, IsKid
<1>9. ChoicesKept'
  BY <1>4 DEF ChoicesKept, ChoiceView, Launching
<1> QED
  BY <1>5, <1>6, <1>7, <1>8, <1>9 DEF PromptInv

\* New criteria, between cycles: no process works on them yet.
LEMMA ReplanPrompt ==
    ASSUME Prompt, MissionTyped, PromptInv, Replan
    PROVE  PromptInv'
<1>0. /\ Replans /\ UNCHANGED <<kids, runs, stage, snap, seen, plan, job, ticket>>
      /\ \A p \in Pollers : stage[p] = "idle"
  BY ReplanSteps DEF Prompt, Replan, locals, Idle
<1>1. /\ mission'.plan = mission.plan + 1 /\ mission'.run = None /\ mission'.pid = None
      /\ mission'.age = mission.age /\ mission'.launches = mission.launches
      /\ Launches' = Launches
  BY <1>0 DEF Replans, Launches
<1>2. mission.plan \in Nat /\ \A k \in Launches : kids[k].plan \in Nat /\ kids[k].plan <= mission.plan
  BY TypedFacts DEF PromptInv, PlansKept
<1>3. \A k \in Launches : ~Live(k)' /\ kids[k].plan <= mission'.plan
  BY <1>0, <1>1, <1>2 DEF Live
<1>4. \A p \in Pollers : stage'[p] = "idle" /\ ~Launching(p)'
  BY <1>0 DEF Launching
<1>5. PlansKept'
  BY <1>0, <1>1, <1>3, <1>4 DEF PromptInv, PlansKept, PlanView, Idle
<1>6. StatesKept'
  <2>1. \A r : HasState(r)' <=> HasState(r)
    BY <1>0, <1>1 DEF HasState
  <2> QED
    BY <1>0, <1>1, <1>3, <2>1 DEF PromptInv, StatesKept
<1>7. ClaimsKept'
  BY <1>1, <1>3, <1>4 DEF PromptInv, ClaimsKept
<1>8. LinksKept'
  BY <1>1, <1>4 DEF LinksKept, RowLinked, LinkView, Idle
<1>9. ChoicesKept'
  BY <1>4 DEF ChoicesKept, ChoiceView, Launching
<1> QED
  BY <1>5, <1>6, <1>7, <1>8, <1>9 DEF PromptInv

LEMMA PromptInit ==
    ASSUME Init
    PROVE  PromptInv
<1>1. Launches = {} /\ \A p \in Pollers : stage[p] = "idle"
  BY EmptySeq DEF Init, Launches, Idle
<1>2. mission.run = None /\ mission.pid = None /\ mission.launches = 0
  BY DEF Init
<1>3. \A p \in Pollers : PlanView(p) /\ LinkView(p) /\ ChoiceView(p) /\ ~Launching(p)
  BY <1>1 DEF PlanView, LinkView, ChoiceView, Launching, Idle
<1> QED
  BY <1>1, <1>2, <1>3 DEF PromptInv, PlansKept, StatesKept, ClaimsKept, LinksKept, RowLinked, ChoicesKept

LEMMA PromptStep ==
    ASSUME Prompt, MissionTyped, PromptInv, [Next]_vars
    PROVE  PromptInv'
<1>1. ASSUME NEW p \in Pollers, Snapshot(p) PROVE PromptInv'
  BY <1>1, SnapshotPrompt
<1>2. ASSUME NEW p \in Pollers, Cycle(p) PROVE PromptInv'
  <2>1. CASE Supervise(p)
    <3>1. Ended(p) /\ OthersStay(p) /\ stage[p] # "adopt" /\ UNCHANGED <<mission, kids, runs>>
      BY <2>1, EndsCycle DEF Supervise, world, MissionTyped
    <3> QED
      BY <3>1, EndsPrompt
  <2> QED
    BY <1>2, <2>1, LookPrompt, LinkPrompt, SyncPrompt, DecidePrompt, ClaimPrompt, SpawnPrompt,
       AdoptPrompt, ClosePrompt DEF Cycle
<1>3. ASSUME NEW p \in Pollers, SpawnFails(p) \/ Crash(p) PROVE PromptInv'
  <2>1. EndCycle(p) /\ stage[p] # "adopt" /\ UNCHANGED <<mission, kids, runs>>
    BY <1>3 DEF SpawnFails, Crash, Prompt
  <2>2. Ended(p) /\ OthersStay(p)
    BY <2>1, EndsCycle DEF MissionTyped
  <2> QED
    BY <2>1, <2>2, EndsPrompt
<1>4. ASSUME NEW k \in Launches, Run(k) \/ Fail(k) \/ Kill(k) PROVE PromptInv'
  BY <1>4, KidPrompt
<1>5. CASE Flip
  BY <1>5, FlipPrompt
<1>6. CASE Replan
  BY <1>6, ReplanPrompt
<1>7. CASE Tick
  BY <1>7, TickPrompt
<1>8. CASE UNCHANGED vars
  <2>1. UNCHANGED <<mission, kids, runs, stage, snap, seen, plan, job, ticket>>
    BY <1>8 DEF vars, world, locals
  <2>2. RowKeeps /\ \A q \in Pollers : Stays(q)
    BY <2>1, TypedFacts DEF RowKeeps, Stays
  <2> QED
    BY <2>1, <2>2, SameViews
<1> QED
  BY <1>1, <1>2, <1>3, <1>4, <1>5, <1>6, <1>7, <1>8 DEF Next

\* OneSpawn: prompt cycles never have two processes starting or working on the
\* present criteria; what lives is of the last claim, and a claim spawns once.
THEOREM OneSpawnHolds ==
    ASSUME Prompt
    PROVE  Spec => []OneSpawn
<1>1. MissionTyped /\ PromptInv => OneSpawn
  <2> SUFFICES ASSUME MissionTyped, PromptInv PROVE OneSpawn
    OBVIOUS
  <2> DEFINE L == {k \in Launches : /\ kids[k].plan = mission.plan
                                    /\ kids[k].state \in {"starting", "working"}}
  <2>1. \A j, k \in L : j = k
    <3>1. \A k \in L : kids[k].claim = mission.launches
      BY DEF PromptInv, ClaimsKept, Recent, Live
    <3> QED
      BY <3>1 DEF MissionTyped, RunsOK
  <2>2. CASE L = {}
    BY <2>2, FS_EmptySet DEF OneSpawn
  <2>3. CASE L # {}
    <3>1. PICK k \in L : TRUE
      BY <2>3
    <3>2. L = {k}
      BY <2>1, <3>1
    <3>3. Cardinality(L) = 1
      BY <3>2, FS_Singleton
    <3> QED
      BY <3>3 DEF OneSpawn
  <2> QED
    BY <2>2, <2>3
<1> QED
  BY <1>1, TypedInit, TypedStep, PromptInit, PromptStep, PTL DEF Spec

-----------------------------------------------------------------------------
(* Closing.                                                                 *)

LEMMA AttemptStays ==
    ASSUME NEW q \in Pollers, AttemptView(q), counted \subseteq counted', seen'[q] = seen[q],
           stage'[q] = stage[q] \/ stage'[q] \notin {"decide", "close"}
    PROVE  AttemptView(q)'
  BY DEF AttemptView, Attempted

\* A cycle comes to its decision by syncing what it has seen, and to a close by a
\* decision about a delivered run.
LEMMA AttemptStep ==
    ASSUME MissionTyped, AttemptsKept, [Next]_vars
    PROVE  AttemptsKept'
<1> USE DEF AttemptsKept
<1>0. /\ stage \in [Pollers -> Stages] /\ seen \in [Pollers -> SeenRow]
      /\ \A p \in Pollers : ViewOK(p)
  BY DEF MissionTyped, ViewsOK
\* The cycles of the other pollers.
<1>1. ASSUME NEW p \in Pollers, NEW s, stage' = [stage EXCEPT ![p] = s], counted \subseteq counted',
             \A q \in Pollers \ {p} : seen'[q] = seen[q], AttemptView(p)'
      PROVE  AttemptsKept'
  BY <1>0, <1>1, AttemptStays
<1>2. ASSUME NEW p \in Pollers, EndCycle(p), UNCHANGED counted PROVE AttemptsKept'
  <2>1. AttemptView(p)' /\ \A q \in Pollers \ {p} : seen'[q] = seen[q]
    BY <1>0, <1>2 DEF EndCycle, GoTo, AttemptView, Idle
  <2> QED
    BY <1>1, <1>2, <2>1 DEF EndCycle, GoTo
<1>3. ASSUME NEW p \in Pollers, NEW s, GoTo(p, s), UNCHANGED <<counted, seen>>, s \notin {"decide", "close"}
      PROVE  AttemptsKept'
  BY <1>0, <1>3, AttemptStays DEF GoTo
<1>4. ASSUME NEW p \in Pollers, Cycle(p) PROVE AttemptsKept'
  <2>1. CASE Look(p)
    <3>1. counted' = counted /\ \A q \in Pollers \ {p} : seen'[q] = seen[q]
      BY <1>0, <2>1 DEF Look
    <3>2. \/ GoTo(p, "sync") \/ GoTo(p, "link")
          \/ GoTo(p, "decide") /\ seen' = seen
      BY <2>1 DEF Look
    <3>3. stage[p] = "look"
      BY <2>1 DEF Look
    <3>4. seen[p].status # "delivered"
      BY <1>0, <3>3 DEF ViewOK
    <3>5. AttemptView(p)'
      BY <1>0, <3>2, <3>4 DEF GoTo, AttemptView
    <3> QED
      BY <1>1, <3>1, <3>2, <3>5 DEF GoTo
  <2>2. CASE Sync(p)
    <3>1. GoTo(p, "decide") /\ seen' = seen /\ counted \subseteq counted'
      BY <2>2 DEF Sync, locals
    <3>2. seen[p].status = "delivered" => Attempted(seen[p].run)'
      <4>1. ASSUME seen[p].status = "delivered" PROVE Attempted(seen[p].run)'
        <5>1. "delivered" \in EndOf(seen[p])
          BY <4>1 DEF EndOf
        <5> DEFINE Row(e) == [run |-> seen[p].run, outcome |-> e, upd |-> seen[p].upd]
        <5>2. counted' = counted \cup {Row(e) : e \in EndOf(seen[p])}
          BY <2>2 DEF Sync
        <5>3. Row("delivered").run = seen[p].run /\ Row("delivered").outcome = "delivered"
          OBVIOUS
        <5> HIDE DEF Row
        <5>4. Row("delivered") \in counted'
          BY <5>1, <5>2
        <5> QED
          BY <3>1, <5>3, <5>4 DEF Attempted
      <4> QED
        BY <4>1
    <3>3. AttemptView(p)'
      BY <1>0, <3>1, <3>2 DEF GoTo, AttemptView, Attempted
    <3> QED
      BY <1>1, <3>1, <3>3 DEF GoTo
  <2>3. CASE Decide(p)
    <3>1. CASE EndCycle(p)
      BY <1>2, <2>3, <3>1 DEF Decide
    <3>2. CASE ~EndCycle(p)
      <4>0. /\ stage[p] = "decide" /\ UNCHANGED <<counted, seen>>
        BY <2>3, <3>2 DEF Decide
      <4>1. \/ GoTo(p, "claim") \/ GoTo(p, "supervise")
            \/ GoTo(p, "close") /\ seen[p].status = "delivered"
        BY <2>3, <3>2 DEF Decide
      <4>2. CASE GoTo(p, "close") /\ seen[p].status = "delivered"
        <5>1. AttemptView(p)'
          BY <1>0, <4>0, <4>2 DEF GoTo, AttemptView, Attempted
        <5> QED
          BY <1>1, <4>0, <4>2, <5>1 DEF GoTo
      <4> QED
        BY <1>3, <4>0, <4>1, <4>2
    <3> QED
      BY <3>1, <3>2
  <2>4. CASE Link(p) \/ Spawn(p)
    <3>1. \E s \in {"sync", "adopt"} : GoTo(p, s)
      BY <2>4 DEF Link, Spawn
    <3> QED
      BY <1>3, <2>4, <3>1 DEF Link, Spawn, locals
  <2>5. CASE ClaimLaunch(p)
    <3>1. EndCycle(p) \/ (GoTo(p, "spawn") /\ seen' = seen)
      BY <2>5 DEF ClaimLaunch
    <3> QED
      BY <1>2, <1>3, <2>5, <3>1 DEF ClaimLaunch
  <2>6. CASE Supervise(p) \/ Adopt(p) \/ Close(p)
    BY <1>2, <2>6 DEF Supervise, Adopt, Close
  <2> QED
    BY <1>4, <2>1, <2>2, <2>3, <2>4, <2>5, <2>6 DEF Cycle
<1>5. ASSUME NEW p \in Pollers, Snapshot(p) \/ SpawnFails(p) \/ Crash(p) PROVE AttemptsKept'
  <2>1. EndCycle(p) \/ (GoTo(p, "look") /\ seen' = seen)
    BY <1>5 DEF Snapshot, SpawnFails, Crash
  <2> QED
    BY <1>2, <1>3, <1>5, <2>1 DEF Snapshot, SpawnFails, Crash
<1>6. ASSUME UNCHANGED <<counted, seen, stage>> PROVE AttemptsKept'
  BY <1>6, AttemptStays
<1>7. ASSUME NEW k \in Launches, Run(k) \/ Fail(k) \/ Kill(k) PROVE AttemptsKept'
  BY <1>6, <1>7 DEF Run, Register, Refused, Deliver, Exit, Fail, Kill, others, locals
<1>8. CASE Flip \/ Replan \/ Tick \/ UNCHANGED vars
  BY <1>6, <1>8 DEF Flip, Replan, Tick, vars, locals
<1> QED
  BY <1>4, <1>5, <1>7, <1>8 DEF Next

\* ClosedUnderCurrentCriteria: the run a cycle closes the mission for is of the
\* criteria the row has at that moment, and the ledger has its delivery.
THEOREM ClosedUnderCurrentCriteriaHolds ==
    ASSUME Prompt
    PROVE  Spec => ClosedUnderCurrentCriteria
<1>1. MissionTyped /\ PromptInv /\ AttemptsKept /\ [Next]_vars =>
        [\A p \in Pollers : (stage[p] = "close" /\ mission'.status = "delivered"
                              /\ mission.status # "delivered")
           => /\ kids[seen[p].run].plan = mission.plan
              /\ \E a \in counted : a.run = seen[p].run /\ a.outcome = "delivered"]_vars
  <2> SUFFICES ASSUME MissionTyped, PromptInv, AttemptsKept,
                      NEW p \in Pollers, stage[p] = "close"
               PROVE  kids[seen[p].run].plan = mission.plan /\ Attempted(seen[p].run)
    BY DEF Attempted
  <2>1. stage[p] # Idle
    BY DEF Idle
  <2>2. seen[p].status = "delivered" /\ Attempted(seen[p].run)
    BY DEF AttemptsKept, AttemptView
  <2>3. seen[p].run # None
    BY <2>2 DEF MissionTyped, ViewOK
  <2> QED
    BY <2>1, <2>2, <2>3 DEF PromptInv, PlansKept, PlanView
<1>2. Init => AttemptsKept
  BY DEF Init, AttemptsKept, AttemptView, NoRun, Idle
<1> QED
  BY <1>1, <1>2, TypedInit, TypedStep, PromptInit, PromptStep, AttemptStep, PTL
     DEF Spec, ClosedUnderCurrentCriteria
===============================================================================
