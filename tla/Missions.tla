------------------------------- MODULE Missions -------------------------------
(***************************************************************************)
(* The mission poll cycle of mission/poll-executor.ts over the ledger of   *)
(* mission/ledger.ts: pollers (the daemon, `uap mission poll`, and         *)
(* `uap mission create --launch`) look at an active mission and at the     *)
(* durable run attached to it, and launch, resume, supervise or close.     *)
(* The other side is the deliver process, which owns the state file of its *)
(* run, and the operator, who pauses and replans.  One mission; the time a *)
(* cycle spends on the missions before it is the age of its clock, hold.   *)
(*                                                                         *)
(* A poller's action is one SQL statement or one look at the run's file or *)
(* process; pollers, deliver processes and the operator interleave between *)
(* them.  Times are kept as ages: age is the time since last_launch_at,    *)
(* hold the time since the cycle took its nowMs.  One tick is one poll     *)
(* interval.  Salvage proposals and board notes are written by the cycle   *)
(* and read by no decision: they are left out.                             *)
(***************************************************************************)
EXTENDS Integers, Sequences, FiniteSets

CONSTANTS Pollers,      \* processes running poll cycles
          Claim,        \* LAUNCH_CLAIM_MS, in ticks
          Grace,        \* LAUNCH_GRACE_MS
          Step,         \* first backoff; doubles per relaunch
          MaxBackoff,   \* its cap
          MaxHold,      \* longest a cycle may last, in ticks
          MaxStart,     \* longest a deliver process takes to save its first state
          MaxWork,      \* longest it then works: the run budget
          MaxLaunches,  \* bound: claims in a behaviour
          MaxFaults,    \* bound: failed or killed runs, dead pollers, failed spawns, unlucky exits
          MaxReplans,   \* bound: replans
          MaxFlips,     \* bound: pauses and resumptions by the operator
          QuietReplan,  \* whether the operator replans only between cycles
          CrashInSpawn  \* whether a poller may die between a spawn and its record

ASSUME MissionAssumption ==
    /\ {Claim, Grace, Step, MaxBackoff, MaxStart, MaxWork, MaxLaunches} \subseteq Nat \ {0}
    /\ Claim <= Grace /\ Grace <= MaxBackoff
    /\ {MaxHold, MaxFaults, MaxReplans, MaxFlips} \subseteq Nat
    /\ {QuietReplan, CrashInSpawn} \subseteq BOOLEAN
\* Arithmetic of the backoff, for the proofs.
ASSUME DoublingAssumption == \A n \in 0..MaxLaunches : 2 ^ n \in Nat \ {0}

VARIABLES mission,   \* the row of table missions
          counted,   \* mission_attempts about the end of a run: [run, outcome, upd]
          runs,      \* state.json of each run, by the number of the launch it is from
          kids,      \* deliver processes in the order they were spawned
          stage,     \* where each poller is
          snap,      \* the row as listMissions returned it
          seen,      \* the run as loaded, or NoRun
          plan,      \* the acceptance criteria the cycle read last
          job,       \* whether it claimed a fresh launch or a resume
          ticket,    \* launch_count after its claim, standing for its stamp
          hold,      \* age of its clock
          polled,    \* pollers that ran a cycle in this interval
          faults, flips

locals == <<snap, seen, plan, job, ticket, hold>>
world == <<runs, kids, faults, flips>>
vars == <<mission, counted, world, stage, locals, polled>>

None == 0
Never == -1
Least(a, b) == IF a < b THEN a ELSE b
\* Ages above this are all alike.
MaxAge == MaxBackoff + MaxHold
Launches == 1..Len(kids)
Idle == "idle"
Ends == {"delivered", "failed", "interrupted"}
NoState == [status |-> "none", pid |-> None, upd |-> 0]
NoRun == [run |-> None, status |-> "none", pid |-> None, upd |-> 0]
NoRow == [plan |-> 0, run |-> None, pid |-> None]

TypeOK ==
    /\ mission.status \in {"active", "paused", "delivered"}
    /\ mission.plan \in 1..(MaxReplans + 1)
    /\ mission.launches \in 0..MaxLaunches /\ mission.resumes \in 0..mission.launches
    /\ mission.age \in {Never} \cup 0..MaxAge
    /\ mission.run # None => runs[mission.run].status # "none"
    /\ mission.pid \in {None} \cup Launches
    /\ Len(runs) = Len(kids) /\ Len(kids) <= mission.launches
    /\ \A k \in Launches : /\ runs[k].status \in {"none", "running"} \cup Ends
                           /\ kids[k].run \in 1..k
                           /\ kids[k].state \in {"starting", "working", "saved", "gone"}
    /\ stage \in [Pollers -> {Idle, "look", "link", "sync", "decide", "supervise",
                              "claim", "spawn", "adopt", "close"}]
    /\ hold \in [Pollers -> 0..MaxHold]

\* createMission; no cycle has run.
Init ==
    /\ mission = [status |-> "active", plan |-> 1, run |-> None, pid |-> None,
                  launches |-> 0, resumes |-> 0, age |-> Never]
    /\ counted = {} /\ runs = <<>> /\ kids = <<>>
    /\ stage = [p \in Pollers |-> Idle]
    /\ snap = [p \in Pollers |-> NoRow]
    /\ seen = [p \in Pollers |-> NoRun]
    /\ plan = [p \in Pollers |-> 0]
    /\ job = [p \in Pollers |-> "fresh"]
    /\ ticket = [p \in Pollers |-> 0]
    /\ hold = [p \in Pollers |-> 0]
    /\ polled = {} /\ faults = 0 /\ flips = 0

GoTo(p, s) == stage' = [stage EXCEPT ![p] = s]
EndCycle(p) ==
    /\ GoTo(p, Idle)
    /\ snap' = [snap EXCEPT ![p] = NoRow]
    /\ seen' = [seen EXCEPT ![p] = NoRun]
    /\ plan' = [plan EXCEPT ![p] = 0]
    /\ job' = [job EXCEPT ![p] = "fresh"]
    /\ ticket' = [ticket EXCEPT ![p] = 0]
    /\ hold' = [hold EXCEPT ![p] = 0]

-----------------------------------------------------------------------------
(* One poll cycle.                                                          *)

\* listMissions and the clock; a mission that is not active is not visited.
Snapshot(p) ==
    /\ stage[p] = Idle /\ p \notin polled /\ mission.status = "active"
    /\ snap' = [snap EXCEPT ![p] = [plan |-> mission.plan, run |-> mission.run,
                                    pid |-> mission.pid]]
    /\ polled' = polled \cup {p}
    /\ GoTo(p, "look")
    /\ UNCHANGED <<mission, counted, world, seen, plan, job, ticket, hold>>

Copy(r) == [run |-> r, status |-> runs[r].status, pid |-> runs[r].pid, upd |-> runs[r].upd]

\* Mutant: only runs in progress are discovered.
Discovered_Running(p) ==
    {r \in Launches : /\ runs[r].status = "running"
                      /\ kids[r].plan = snap[p].plan
                      /\ snap[p].pid # None /\ runs[r].pid = snap[p].pid}

\* discoverRunForMission: the marker (the acceptance hash) and the pid match.
\* A run with the pid of the launch is never older than the launch.
Discovered(p) ==
    {r \in Launches : /\ runs[r].status # "none"
                      /\ kids[r].plan = snap[p].plan
                      /\ snap[p].pid # None /\ runs[r].pid = snap[p].pid}

\* The run: the one linked, or the one the last launch created.
Look(p) ==
    /\ stage[p] = "look"
    /\ \/ /\ snap[p].run # None
          /\ seen' = [seen EXCEPT ![p] = Copy(snap[p].run)]
          /\ GoTo(p, "sync")
       \/ /\ snap[p].run = None
          /\ \E r \in Discovered(p) : seen' = [seen EXCEPT ![p] = Copy(r)]
          /\ GoTo(p, "link")
       \/ /\ snap[p].run = None /\ Discovered(p) = {}
          /\ GoTo(p, "decide")
          /\ UNCHANGED seen
    /\ UNCHANGED <<mission, counted, world, snap, plan, job, ticket, hold, polled>>

\* linkRun, whatever has become of the row since it was listed.
Link(p) ==
    /\ stage[p] = "link"
    /\ mission' = [mission EXCEPT !.run = seen[p].run]
    /\ GoTo(p, "sync")
    /\ UNCHANGED <<counted, world, locals, polled>>

Alive(k) == k # None /\ kids[k].state # "gone"

\* How the loaded run ended; a running state whose process is gone is a crash.
EndOf(run) == IF run.status # "running" THEN {run.status}
              ELSE IF Alive(run.pid) THEN {} ELSE {"interrupted"}

\* syncAttempt: the end of the run, once per state it was seen in.
Sync(p) ==
    /\ stage[p] = "sync"
    /\ counted' = counted \cup
         {[run |-> seen[p].run, outcome |-> e, upd |-> seen[p].upd] : e \in EndOf(seen[p])}
    /\ GoTo(p, "decide")
    /\ UNCHANGED <<mission, world, locals, polled>>

\* The time since the last launch on the clock of the cycle.
Since(p) == IF mission.age > hold[p] THEN mission.age - hold[p] ELSE 0
InFlight(p) == mission.age # Never /\ Since(p) < Grace
\* relaunchBackoffMinutes: the first relaunch is free, then the wait doubles.
Owed == IF mission.resumes = 0 THEN 0
        ELSE Least(Step * 2 ^ (mission.resumes - 1), MaxBackoff)

Unfinished(p) == EndOf(seen[p]) \cap {"failed", "interrupted"} # {}

\* getMission and decideMissionActions: the row as it is now, the run as loaded.
Decide(p) ==
    /\ stage[p] = "decide"
    /\ \/ /\ \/ mission.status # "active"
             \/ seen[p].run = None /\ InFlight(p)
             \/ seen[p].run # None /\ Unfinished(p) /\ Since(p) < Owed
          /\ EndCycle(p)
       \/ /\ mission.status = "active"
          /\ \/ /\ seen[p].run = None /\ ~InFlight(p)
                /\ GoTo(p, "claim") /\ UNCHANGED job
             \/ /\ seen[p].run # None /\ EndOf(seen[p]) = {}
                /\ GoTo(p, "supervise") /\ UNCHANGED job
             \/ /\ seen[p].run # None /\ Unfinished(p) /\ Since(p) >= Owed
                /\ GoTo(p, "claim") /\ job' = [job EXCEPT ![p] = "resume"]
             \/ /\ seen[p].status = "delivered"
                /\ GoTo(p, "close") /\ UNCHANGED job
          /\ plan' = [plan EXCEPT ![p] = mission.plan]
          /\ UNCHANGED <<snap, seen, ticket, hold>>
    /\ UNCHANGED <<mission, counted, world, polled>>

\* One supervisor cycle; whatever it asks of the run, the run's process does.
Supervise(p) ==
    /\ stage[p] = "supervise"
    /\ EndCycle(p)
    /\ UNCHANGED <<mission, counted, world, polled>>

\* Mutant: the claim does not look at the last launch.
Free_Always(p) == TRUE
\* claimLaunch: last_launch_at IS NULL OR last_launch_at <= nowMs - 60 s.
Free(p) == mission.age = Never \/ mission.age >= hold[p] + Claim

\* claimLaunch stamps the row with the clock of the cycle.
ClaimLaunch(p) ==
    /\ stage[p] = "claim"
    /\ \/ /\ Free(p) /\ mission.launches < MaxLaunches
          /\ mission' = [mission EXCEPT !.launches = @ + 1, !.age = hold[p],
                           !.resumes = IF job[p] = "resume" THEN @ + 1 ELSE @]
          /\ ticket' = [ticket EXCEPT ![p] = mission.launches + 1]
          /\ GoTo(p, "spawn")
          /\ UNCHANGED <<snap, seen, plan, job, hold>>
       \/ ~Free(p) /\ EndCycle(p) /\ UNCHANGED mission
    /\ UNCHANGED <<counted, world, polled>>

\* launchDeliver with the criteria read last, or resumeDeliver of the run seen.
Spawn(p) ==
    /\ stage[p] = "spawn"
    /\ LET k == Len(kids) + 1
           r == IF job[p] = "fresh" THEN k ELSE seen[p].run
       IN kids' = Append(kids, [run |-> r, claim |-> ticket[p], state |-> "starting", age |-> 0,
                                plan |-> IF r = k THEN plan[p] ELSE kids[r].plan])
    /\ runs' = Append(runs, NoState)
    /\ GoTo(p, "adopt")
    /\ UNCHANGED <<mission, counted, faults, flips, locals, polled>>

\* The CLI entry point cannot be resolved: the claim is spent on nothing.
SpawnFails(p) ==
    /\ stage[p] = "spawn" /\ faults < MaxFaults
    /\ faults' = faults + 1
    /\ EndCycle(p)
    /\ UNCHANGED <<mission, counted, runs, kids, flips, polled>>

\* setLaunchPid, guarded by the stamp of the claim: stamps only grow, so the
\* number of the claim stands for it.
Adopt(p) ==
    /\ stage[p] = "adopt"
    /\ mission' = IF mission.launches # ticket[p] THEN mission
                  ELSE [mission EXCEPT !.pid =
                          CHOOSE k \in Launches : kids[k].claim = ticket[p]]
    /\ EndCycle(p)
    /\ UNCHANGED <<counted, world, polled>>

\* setMissionStatus(delivered), whatever the status is by now.
Close(p) ==
    /\ stage[p] = "close"
    /\ mission' = [mission EXCEPT !.status = "delivered"]
    /\ EndCycle(p)
    /\ UNCHANGED <<counted, world, polled>>

\* A poller dies; systemd starts the daemon again.
Crash(p) ==
    /\ stage[p] # Idle /\ faults < MaxFaults
    /\ stage[p] = "adopt" => CrashInSpawn
    /\ faults' = faults + 1
    /\ EndCycle(p)
    /\ UNCHANGED <<mission, counted, runs, kids, flips, polled>>

-----------------------------------------------------------------------------
(* The deliver process of launch k (cli/deliver.ts).                        *)

Fresh(k) == kids[k].run = k
\* acquireDeliverLock: a fresh run yields to one that has the project; a resume
\* does not ask.
Refusable(k) == Fresh(k) /\ \E j \in 1..(k - 1) : Fresh(j) /\ kids[j].state # "gone"
Becomes(k, s) == kids' = [kids EXCEPT ![k].state = s, ![k].age = 0]
\* saveRunState: the whole state, with the pid of the process that writes it.
Writes(k, s) ==
    runs' = [runs EXCEPT ![kids[k].run] = [status |-> s, pid |-> k, upd |-> @.upd + 1]]
others == <<mission, counted, stage, locals, polled, flips>>

Register(k) ==
    /\ kids[k].state = "starting" /\ ~Refusable(k)
    /\ Becomes(k, "working") /\ Writes(k, "running")
    /\ UNCHANGED <<others, faults>>

Refused(k) ==
    /\ kids[k].state = "starting" /\ Refusable(k)
    /\ Becomes(k, "gone")
    /\ UNCHANGED <<others, runs, faults>>

\* finalRunStatus: success is delivered, a stop interrupted, the rest failed.
Deliver(k) ==
    /\ kids[k].state = "working"
    /\ Becomes(k, "saved") /\ Writes(k, "delivered")
    /\ UNCHANGED <<others, faults>>

Fail(k) ==
    /\ kids[k].state = "working" /\ faults < MaxFaults
    /\ faults' = faults + 1
    /\ Becomes(k, "saved")
    /\ \E s \in {"failed", "interrupted"} : Writes(k, s)
    /\ UNCHANGED others

\* The process ends; recordExit writes the state as it finds it once more.  That
\* it ends between the looks of one cycle is a coincidence, counted as a fault.
Watched == \E p \in Pollers : stage[p] \in {"link", "sync", "decide"}
Exit(k) ==
    /\ kids[k].state = "saved"
    /\ \/ ~Watched /\ UNCHANGED faults
       \/ Watched /\ faults < MaxFaults /\ faults' = faults + 1
    /\ Becomes(k, "gone")
    /\ runs' = [runs EXCEPT ![kids[k].run].upd = @ + 1]
    /\ UNCHANGED others

Kill(k) ==
    /\ kids[k].state \in {"starting", "working"}
    /\ faults < MaxFaults /\ faults' = faults + 1
    /\ Becomes(k, "gone")
    /\ UNCHANGED <<others, runs>>

-----------------------------------------------------------------------------
(* The operator and the clock.                                              *)

\* uap mission pause, uap mission resume.
Flip ==
    /\ flips < MaxFlips /\ flips' = flips + 1
    /\ \E s \in {"paused", "active"} \ {mission.status} :
         mission' = [mission EXCEPT !.status = s]
    /\ UNCHANGED <<counted, runs, kids, faults, stage, locals, polled>>

\* Mutant: the link to the run of the old criteria stays.
Replanned_KeepsRun == [mission EXCEPT !.plan = @ + 1, !.pid = None, !.resumes = 0]
\* replanAcceptance: new criteria; run link, pid and backoff reset.
Replanned == [mission EXCEPT !.plan = @ + 1, !.run = None, !.pid = None, !.resumes = 0]
Replan ==
    /\ mission.plan <= MaxReplans
    /\ QuietReplan => \A p \in Pollers : stage[p] = Idle
    /\ mission' = Replanned
    /\ UNCHANGED <<counted, world, stage, locals, polled>>

\* A poll interval passes: a cycle waits only for a supervisor, of this mission
\* or of one before it; no process overstays its bound, and one that has saved
\* its last state exits within the interval.
Tick ==
    /\ \A p \in Pollers : \/ stage[p] = Idle
                          \/ stage[p] \in {"look", "supervise"} /\ hold[p] < MaxHold
    /\ \A k \in Launches : /\ kids[k].state = "starting" => kids[k].age < MaxStart
                           /\ kids[k].state = "working" => kids[k].age < MaxWork
                           /\ kids[k].state # "saved"
    /\ mission' = [mission EXCEPT !.age = IF @ = Never THEN @ ELSE Least(@ + 1, MaxAge)]
    /\ kids' = [k \in Launches |-> IF kids[k].state = "gone" THEN kids[k]
                                   ELSE [kids[k] EXCEPT !.age = @ + 1]]
    /\ hold' = [p \in Pollers |-> IF stage[p] = Idle THEN 0 ELSE hold[p] + 1]
    /\ polled' = {p \in Pollers : stage[p] # Idle}
    /\ UNCHANGED <<counted, runs, faults, flips, stage, snap, seen, plan, job, ticket>>

Cycle(p) ==
    \/ Look(p) \/ Link(p) \/ Sync(p) \/ Decide(p) \/ Supervise(p)
    \/ ClaimLaunch(p) \/ Spawn(p) \/ Adopt(p) \/ Close(p)
Run(k) == Register(k) \/ Refused(k) \/ Deliver(k) \/ Exit(k)

Next ==
    \/ \E p \in Pollers : Snapshot(p) \/ Cycle(p) \/ SpawnFails(p) \/ Crash(p)
    \/ \E k \in Launches : Run(k) \/ Fail(k) \/ Kill(k)
    \/ Flip \/ Replan \/ Tick

Spec == Init /\ [][Next]_vars

\* The daemon polls every interval and finishes its cycles, a run that is not
\* disturbed ends within its budget, and time passes.  Faults are bounded.
Fairness ==
    /\ \A p \in Pollers : WF_vars(Snapshot(p)) /\ WF_vars(Cycle(p))
    /\ \A k \in 1..MaxLaunches : WF_vars(k \in Launches /\ Run(k))
    /\ WF_vars(Tick)
FairSpec == Spec /\ Fairness

-----------------------------------------------------------------------------
(* Properties.                                                              *)

\* The poll closes a mission only when a run that embeds its present acceptance
\* criteria was delivered (replanAcceptance, missionMarker: never a run of the
\* old criteria), and the attempts say so (syncAttempt).
ClosedUnderCurrentCriteria ==
    [][\A p \in Pollers : (stage[p] = "close" /\ mission'.status = "delivered"
                            /\ mission.status # "delivered")
         => /\ kids[seen[p].run].plan = mission.plan
            /\ \E a \in counted : a.run = seen[p].run /\ a.outcome = "delivered"]_vars

\* At most one deliver process is starting or working on the present criteria:
\* claims and the launch grace keep cycles from spawning twice (claimLaunch).
OneSpawn ==
    Cardinality({k \in Launches : /\ kids[k].plan = mission.plan
                                  /\ kids[k].state \in {"starting", "working"}}) <= 1

\* A run that was delivered is closed, never resumed as one that crashed
\* (decideMissionActions: 'running' with a dead pid never got to mark itself).
DeliveredNotResumed ==
    [][\A p \in Pollers : (stage[p] = "spawn" /\ stage'[p] = "adopt" /\ job[p] = "resume")
         => runs[seen[p].run].status # "delivered"]_vars

\* The struggle metric sees every resume: a run resumed n times has n failed or
\* interrupted rows (recordAttempt: a crash-looping run must accumulate them).
StruggleCounts ==
    \A r \in Launches :
        Cardinality({k \in Launches : kids[k].run = r /\ k # r})
          <= Cardinality({a \in counted : a.run = r /\ a.outcome # "delivered"})

\* An active mission is delivered in the end, through failed runs, dead pollers
\* and replans, unless the operator pauses it (runPollCycle).
MissionSettles == mission.status = "active" ~> mission.status # "active"
=============================================================================
