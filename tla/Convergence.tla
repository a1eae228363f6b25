------------------------------ MODULE Convergence ------------------------------
(***************************************************************************)
(* One convergence loop (ConvergenceLoop.deliver in                        *)
(* delivery/convergence-loop.ts) with the acceptance judge around its      *)
(* gates (mission-acceptance.ts, acceptance-judge.ts) and the checkpoint   *)
(* it resumes from: executor, gates, judge, counters, breakers, turn after *)
(* turn, until a turn passes, a breaker trips or the budget is used up.    *)
(*                                                                         *)
(* A turn is two steps, the executor's work and its verification, so that  *)
(* the process can be lost between them.  The gates and the judge may      *)
(* answer anything; a score is 0 or 1 and -1 stands for none.  A mode      *)
(* without `epic` is the single loop, which checks the tree first and can  *)
(* be resumed.  The loop of an epic does neither, but a failed one is      *)
(* followed by another attempt in the same process, which keeps the churn  *)
(* breaker of the epic (spec-registry.ts).                                 *)
(***************************************************************************)
EXTENDS Integers, Sequences, FiniteSets

CONSTANTS Budget,            \* maxTurns
          Ceiling,           \* maxTurnsCeiling
          IdleLimit,         \* NO_APPLY_ABORT_LIMIT
          DeadLimit,         \* UNREACHABLE_ABORT_LIMIT
          StagnationLimit,   \* STAGNATION_LIMIT
          FlatLimit,         \* abortOnFlatTurns
          FlipLimit,         \* UAP_DELIVER_ACCEPTANCE_FLIP_LIMIT
          Attempts,          \* maxAttemptsPerEpic
          Modes,             \* the configurations to look at
          MaxLaunches        \* bound: processes of the mission

ASSUME ConvergenceAssumption ==
    /\ {Budget, IdleLimit, DeadLimit, StagnationLimit, FlatLimit, FlipLimit, Attempts, MaxLaunches} \subseteq Nat \ {0}
    /\ Ceiling \in Nat /\ Ceiling >= Budget
    /\ \A m \in Modes : (m.flat \/ m.prior) => m.epic
    /\ Modes \subseteq [epic : BOOLEAN, until : BOOLEAN, primary : BOOLEAN, max : BOOLEAN, agentic : BOOLEAN, prior : BOOLEAN, flat : BOOLEAN, steer : BOOLEAN, script : BOOLEAN]

VARIABLES mode,      \* the configuration of the loop
          at,        \* "down", "baseline", "poll", "work", "verify" or "ended"
          hist,      \* history
          tally,     \* the counters that a checkpoint keeps
          streak,    \* the counters of this process only
          limit,     \* maxTurns as it stands
          turn,      \* what the executor did in the turn under way
          prior,     \* UAP_EPIC_PRIOR_CHANGES: earlier epics or attempts changed the tree
          tries,     \* attempts of this process at the epic
          changed,   \* the tree changed since this loop started
          dirty,     \* the tree changed since the last checkpoint
          gate,      \* the self-authored gate script: "sound" or "rigged"
          disk,      \* the checkpoint in the run state
          resumed,   \* resumeFrom is set
          result,    \* how the loop ended
          heard,     \* history: what this process heard of the judge over green gates
          launches

vars == <<mode, at, hist, tally, streak, limit, turn, prior, tries, changed, dirty, gate, disk, resumed, result,
          heard, launches>>

Larger(a, b) == IF a > b THEN a ELSE b
Smaller(a, b) == IF a < b THEN a ELSE b

NoTally == [best |-> -1, bestMet |-> -1, stagnant |-> 0, idle |-> 0, repairDone |-> FALSE, repairing |-> FALSE]
NoStreak == [dead |-> 0, flat |-> 0, metSeen |-> -1, flips |-> 0, writes |-> FALSE]
NoTurn == [kind |-> "none", wrote |-> FALSE]
NoCheckpoint == [hist |-> <<>>, tally |-> NoTally]
Running == at \notin {"down", "ended"}

-----------------------------------------------------------------------------
(* The judge.                                                               *)

\* What the acceptance gate can come back with.  "broken" is a gate in front
\* of the judge saying no, "unavailable" a judge whose call or answer failed,
\* which runAcceptanceGate reports as passed; "threw" an error past it.
Answers == {"met", "unmet", "broken", "unavailable", "threw"}

\* Whether acceptance is withheld without asking.
Unchanged(baseline) == baseline \/ ~changed
Withheld_AtBaseline(baseline) == baseline /\ ~resumed /\ ~prior
Withheld(baseline) == Unchanged(baseline) /\ ~resumed /\ ~prior

\* resolveAcceptanceVerdict, and what judgeAcceptance makes of a throw.
Says(ans, baseline) ==
    CASE ans = "met" -> [passed |-> TRUE, met |-> 1]
      [] ans = "unmet" -> [passed |-> FALSE, met |-> 0]
      [] ans = "broken" -> [passed |-> FALSE, met |-> -1]
      [] ans = "unavailable" -> IF mode.primary THEN [passed |-> FALSE, met |-> -1] ELSE [passed |-> TRUE, met |-> 1]
      [] ans = "threw" -> IF prior /\ ~resumed /\ Unchanged(baseline)
                          THEN [passed |-> FALSE, met |-> 0] ELSE [passed |-> TRUE, met |-> -1]

\* The churn breaker: it hears the judge on green turns of a project with
\* gates of its own.
Heard(green, ans) == ~mode.primary /\ green /\ ans \in {"met", "unmet", "unavailable"}
Flips(green, ans) ==
    IF ~Heard(green, ans) THEN streak.flips ELSE IF ans = "unmet" THEN streak.flips + 1 ELSE 0
Overridden(green, ans) ==
    /\ Heard(green, ans) /\ ans = "unmet"
    /\ streak.writes /\ Flips(green, ans) >= FlipLimit

\* judgeAcceptance: the verdict on a ladder that is "red" or "green", given
\* the answer the gate would give.
Unjudged(green) ==
    [has |-> TRUE, green |-> green, score |-> IF green THEN 1 ELSE 0,
     passed |-> green, met |-> -1, flips |-> streak.flips, said |-> "none"]
Judged(green, ans, baseline) ==
    IF ~green /\ ~mode.max THEN Unjudged(green)
    ELSE IF Withheld(baseline) THEN [Unjudged(green) EXCEPT !.passed = FALSE, !.met = 0]
    ELSE [Unjudged(green) EXCEPT
             !.passed = green /\ (Says(ans, baseline).passed \/ Overridden(green, ans)),
             !.met = Says(ans, baseline).met,
             !.flips = Flips(green, ans),
             !.said = IF green /\ ans \in {"met", "unmet", "unavailable"} THEN ans ELSE "none"]

\* History: the breaker stands behind every answer on a green tree, in projects
\* with gates of their own.
Hears(v) == IF mode.primary \/ v.said = "none" THEN heard ELSE Append(heard, v.said)

-----------------------------------------------------------------------------
(* Starting, and the end of a process.                                      *)

Init ==
    /\ mode \in Modes
    /\ at = "down" /\ hist = <<>> /\ tally = NoTally /\ streak = NoStreak
    /\ limit = 0 /\ turn = NoTurn /\ changed = FALSE /\ dirty = FALSE /\ gate = "sound"
    /\ prior = FALSE /\ tries = 0 /\ heard = <<>>
    /\ disk = NoCheckpoint /\ resumed = FALSE /\ result = "none" /\ launches = 0

\* A process takes the mission up; the single loop resumes from a checkpoint.
\* The gate script is authored anew.
Budgeted_Open(done) == done + Budget
Budgeted(done) == IF mode.until THEN Smaller(done + Budget, Ceiling) ELSE done + Budget
Restored_NoStall(c) == [c EXCEPT !.idle = 0]
Restored(c) == c
ResumeFrom == IF mode.epic THEN NoCheckpoint ELSE disk
Launch ==
    /\ ~Running /\ result \notin {"delivered", "already"}
    /\ launches < MaxLaunches /\ launches' = launches + 1
    /\ resumed' = (ResumeFrom # NoCheckpoint)
    /\ hist' = ResumeFrom.hist /\ tally' = Restored(ResumeFrom.tally) /\ streak' = NoStreak /\ heard' = <<>>
    /\ limit' = IF ResumeFrom = NoCheckpoint THEN Budget ELSE Budgeted(Len(ResumeFrom.hist))
    /\ prior' = mode.prior /\ tries' = 1
    /\ changed' = FALSE /\ gate' = "sound" /\ result' = "none" /\ turn' = NoTurn
    /\ at' = IF mode.epic THEN "poll" ELSE "baseline"
    /\ UNCHANGED <<mode, dirty, disk>>

\* The next attempt at an epic that failed, or was delivered and then refused:
\* a new loop, for which setShared clears the evidence of writes but the churn
\* breaker goes on counting.  A stop or an unreachable endpoint ends the attempts.
Inherited_Evidence == [NoStreak EXCEPT !.flips = streak.flips, !.writes = streak.writes]
Inherited == [NoStreak EXCEPT !.flips = streak.flips]
Retry ==
    /\ mode.epic /\ at = "ended" /\ result # "stopped" /\ tries < Attempts
    /\ result = "delivered" \/ \A i \in 1..Len(hist) : ~hist[i].dead
    /\ tries' = tries + 1 /\ prior' = (prior \/ changed)
    /\ hist' = <<>> /\ tally' = NoTally /\ streak' = Inherited /\ limit' = Budget
    /\ changed' = FALSE /\ result' = "none" /\ turn' = NoTurn /\ at' = "poll"
    /\ UNCHANGED <<mode, dirty, gate, disk, resumed, heard, launches>>

Crash ==
    /\ Running /\ at' = "down"
    /\ hist' = <<>> /\ tally' = NoTally /\ streak' = NoStreak /\ limit' = 0 /\ turn' = NoTurn /\ changed' = FALSE
    /\ heard' = <<>>
    /\ UNCHANGED <<mode, dirty, gate, disk, resumed, result, prior, tries, launches>>

End(how) == at' = "ended" /\ result' = how

-----------------------------------------------------------------------------
(* The loop.                                                                *)

\* A tree that already passes has nothing to deliver.
Baseline ==
    /\ at = "baseline"
    /\ \E green \in BOOLEAN, ans \in Answers : \E v \in {Judged(green, ans, TRUE)} :
         /\ streak' = [streak EXCEPT !.flips = v.flips] /\ heard' = Hears(v)
         /\ IF v.passed THEN End("already") ELSE at' = "poll" /\ UNCHANGED result
    /\ UNCHANGED <<mode, hist, tally, limit, turn, prior, tries, changed, dirty, gate, disk, resumed, launches>>

\* The head of the loop, where a stop is honoured before any work.
Poll ==
    /\ at = "poll"
    /\ \/ Len(hist) < limit /\ at' = "work" /\ UNCHANGED result
       \/ Len(hist) < limit /\ End("stopped")
       \/ Len(hist) >= limit /\ End("exhausted")
    /\ UNCHANGED <<mode, hist, tally, streak, limit, turn, prior, tries, changed, dirty, gate, disk, resumed, heard, launches>>

\* The executor runs and what it wrote is in the tree; in a repair turn it
\* may rewrite the gate script.  It may fail after writing.
Work ==
    /\ at = "work"
    /\ \E kind \in {"done", "error", "dead"}, wrote \in BOOLEAN :
         /\ at' = "verify"
         /\ (kind # "done" /\ wrote) => mode.agentic
         /\ turn' = [kind |-> kind, wrote |-> wrote]
         /\ changed' = (changed \/ wrote) /\ dirty' = (dirty \/ wrote)
         /\ \/ UNCHANGED gate
            \/ tally.repairing /\ wrote /\ gate' = "rigged"
    /\ UNCHANGED <<mode, hist, tally, streak, limit, prior, tries, disk, resumed, result, heard, launches>>

\* The gates run after a turn that did something they can see.
HasVerdict == turn.kind = "done" /\ (turn.wrote \/ mode.agentic)
NoVerdict == [Unjudged(FALSE) EXCEPT !.has = FALSE]

\* After a repair turn no pass counts unless the gate script is still a gate.
Sound_ThatTurn(v) ==
    IF tally.repairing /\ v.passed /\ gate = "rigged" THEN [v EXCEPT !.passed = FALSE, !.score = 0] ELSE v
Sound(v) ==
    IF tally.repairDone /\ v.passed /\ gate = "rigged" THEN [v EXCEPT !.passed = FALSE, !.score = 0] ELSE v
Reached(green, ans) == IF HasVerdict THEN Sound(Judged(green, ans, FALSE)) ELSE NoVerdict
Verdicts == {Reached(green, ans) : green \in BOOLEAN, ans \in Answers}

\* What onIteration may ask for: a critic or new seeds, another model, more turns, a stop.
Directives == IF mode.steer THEN {"none", "critic", "switch", "raise", "stop"} ELSE {"none"}
Escalates(dir) == dir \in {"critic", "switch"}

\* The record of the turn, and what a property needs to know of it.
Record(v, dir) ==
    [verdict |-> v.has, score |-> v.score, dead |-> turn.kind = "dead",
     moved |-> v.has /\ dirty, wrote |-> v.has /\ turn.wrote, steered |-> v.has /\ Escalates(dir),
     repair |-> tally.repairing, said |-> v.said]

\* Every turn leaves a record, with a verdict or without.
Kept(v, dir) == Append(hist, Record(v, dir))

\* The counters, after a turn that did not pass.
Better(v) == v.score > tally.best
Idled_Any(v, dir) ==
    IF Better(v) \/ turn.wrote \/ Escalates(dir) THEN 0 ELSE tally.idle + 1
Idled(v, dir) ==
    IF ~v.has \/ Better(v) \/ turn.wrote \/ Escalates(dir) THEN 0 ELSE tally.idle + 1
Counted(v, dir, miss) ==
    [best |-> Larger(tally.best, v.score),
     bestMet |-> Larger(tally.bestMet, v.met),
     stagnant |-> IF Better(v) \/ v.met > tally.bestMet THEN 0 ELSE tally.stagnant + 1,
     idle |-> Idled(v, dir),
     repairDone |-> tally.repairDone \/ miss,
     repairing |-> miss]
\* abortOnFlatTurns is set while a further attempt remains.
Yields == mode.flat /\ tries < Attempts
Streaked(v, dir) ==
    [dead |-> IF turn.kind = "dead" THEN streak.dead + 1 ELSE 0,
     flat |-> IF ~Yields \/ ~v.has \/ Better(v) \/ v.met > streak.metSeen \/ dir = "switch" THEN 0
              ELSE streak.flat + 1,
     metSeen |-> Larger(streak.metSeen, v.met),
     flips |-> v.flips,
     writes |-> streak.writes \/ turn.wrote]
Stalled(v, dir) ==
    \/ Streaked(v, dir).dead >= DeadLimit
    \/ Idled(v, dir) >= IdleLimit
    \/ Yields /\ Streaked(v, dir).flat >= FlatLimit

\* The budget: raised up to the ceiling, extended at its edge while a run
\* until delivered still gets better.
Raised(dir) == IF dir = "raise" THEN Larger(limit, Ceiling) ELSE limit
Extended(v, dir) ==
    IF /\ mode.until
       /\ Len(hist) + 1 = Raised(dir) /\ Raised(dir) < Ceiling
       /\ Counted(v, dir, FALSE).stagnant < StagnationLimit
    THEN Raised(dir) + 1 ELSE Raised(dir)

Pass(v) ==
    /\ v.passed /\ End("delivered")
    /\ hist' = Kept(v, "none")
    /\ UNCHANGED <<tally, limit, dirty, disk>>

StopAsked(v) ==
    /\ ~v.passed /\ "stop" \in Directives /\ End("failed")
    /\ hist' = Kept(v, "stop")
    /\ UNCHANGED <<tally, limit, dirty, disk>>

Stall(v, dir) ==
    /\ ~v.passed /\ dir # "stop" /\ Stalled(v, dir) /\ End("stalled")
    /\ hist' = Kept(v, dir)
    /\ UNCHANGED <<tally, limit, dirty, disk>>

\* The gate failed only because it could not read the output: the next turn
\* is its repair, once.
MayMiss(v) == mode.script /\ v.has /\ ~v.green /\ ~tally.repairDone
GoOn(v, dir, miss) ==
    /\ ~v.passed /\ dir # "stop" /\ ~Stalled(v, dir) /\ (miss => MayMiss(v))
    /\ at' = "poll" /\ UNCHANGED result
    /\ hist' = Kept(v, dir)
    /\ tally' = Counted(v, dir, miss)
    /\ limit' = Extended(v, dir)
    /\ disk' = [hist |-> hist', tally |-> tally'] /\ dirty' = FALSE

Verify ==
    /\ at = "verify"
    /\ \E v \in Verdicts :
         /\ heard' = Hears(v)
         /\ \/ Pass(v) /\ streak' = Streaked(v, "none")
            \/ StopAsked(v) /\ streak' = Streaked(v, "stop")
            \/ \E dir \in Directives : Stall(v, dir) /\ streak' = Streaked(v, dir)
            \/ \E dir \in Directives, miss \in BOOLEAN : GoOn(v, dir, miss) /\ streak' = Streaked(v, dir)
    /\ turn' = [turn EXCEPT !.wrote = FALSE]
    /\ UNCHANGED <<mode, prior, tries, changed, gate, resumed, launches>>

Next == Launch \/ Retry \/ Crash \/ Baseline \/ Poll \/ Work \/ Verify

Spec == Init /\ [][Next]_vars

-----------------------------------------------------------------------------
(* Properties.                                                              *)

Scores == -1..1
Tallies == [best : Scores, bestMet : Scores, stagnant : Nat, idle : 0..(IdleLimit - 1), repairDone : BOOLEAN, repairing : BOOLEAN]
Sayings == {"none", "met", "unmet", "unavailable"}
Records == [verdict : BOOLEAN, score : {0, 1}, moved : BOOLEAN, wrote : BOOLEAN, dead : BOOLEAN,
            repair : BOOLEAN, steered : BOOLEAN, said : Sayings]

\* The state is of the shapes the variables say.
TypeOK ==
    /\ mode \in Modes /\ at \in {"down", "baseline", "poll", "work", "verify", "ended"}
    /\ hist \in Seq(Records) /\ tally \in Tallies
    /\ streak \in [dead : Nat, flat : Nat, metSeen : Scores, flips : Nat, writes : BOOLEAN]
    /\ limit \in Nat /\ launches \in Nat
    /\ turn \in [kind : {"none", "done", "error", "dead"}, wrote : BOOLEAN]
    /\ heard \in Seq(Sayings) /\ tries \in Nat
    /\ {prior, changed, dirty, resumed} \subseteq BOOLEAN /\ gate \in {"sound", "rigged"}
    /\ disk \in [hist : Seq(Records), tally : Tallies]
    /\ result \in {"none", "already", "delivered", "failed", "stalled", "stopped", "exhausted"}

\* However often a run until delivered is interrupted and taken up again, and
\* whatever the escalation asks for, it takes no turn past the ceiling.
BudgetHolds == mode.until => Len(hist) <= Ceiling

\* The i-th turn of h brought nothing: gates ran over a tree in which nothing
\* had moved since the turn before, no better than any turn before, and no
\* escalation was asked for that could still make the difference.
Before(h, i) == {h[j].score : j \in 1..(i - 1)}
Spinning(h, i) ==
    /\ h[i].verdict /\ ~h[i].moved /\ ~h[i].steered
    /\ \E s \in Before(h, i) : s >= h[i].score
LastAre(h, n, P(_, _)) == Len(h) >= n /\ \A i \in (Len(h) - n + 1)..Len(h) : P(h, i)

\* A mission that has been spinning for IdleLimit turns gets no further turn,
\* be it from the process that saw them all or from one that resumed between.
StallStops == [][at' = "work" => ~LastAre(hist, IdleLimit, Spinning)]_vars

\* A run given up as stuck really was: its last turns all had a verdict,
\* wrote nothing and were no better than before, or none of them reached
\* the model, or, where the loop may yield, none of them was any better.
Idle(h, i) == h[i].verdict /\ ~h[i].wrote /\ ~h[i].steered /\ \E s \in Before(h, i) : s >= h[i].score
Dead(h, i) == h[i].dead
Flat(h, i) == h[i].verdict /\ \E s \in Before(h, i) : s >= h[i].score
StallJustified ==
    result = "stalled" =>
        \/ LastAre(hist, IdleLimit, Idle)
        \/ LastAre(hist, DeadLimit, Dead)
        \/ Yields /\ LastAre(hist, FlatLimit, Flat)

\* The turns on record hold one repair of the gate script at most, resumed
\* or not.
OneRepair == \A i, j \in 1..Len(hist) : hist[i].repair /\ hist[j].repair => i = j

\* Interruptions buy a run neither turns past its ceiling nor a second repair.
ResumeBuysNothing == BudgetHolds /\ OneRepair

\* No run is delivered over a gate script its repair turned into no gate.
NoRiggedDelivery == result = "delivered" => gate = "sound"

\* A loop with no earlier work of epics or attempts behind it is not delivered
\* unless it changed the tree.
NoOpRefused == result \in {"delivered", "already"} /\ ~resumed /\ ~prior => changed

\* When the gates overrule the judge, the last FlipLimit times this process
\* heard it on a green tree, in this loop or in earlier attempts, it refused, and
\* this loop has written something.
Refused(h, i) == h[i] = "unmet"
OverrideEarned ==
    result = "delivered" /\ hist[Len(hist)].said = "unmet" => LastAre(heard, FlipLimit, Refused) /\ changed

\* A loop that changed nothing is delivered only on the word of the judge.
NoOpNeedsVerdict == result = "delivered" /\ ~changed => hist[Len(hist)].said = "met"
================================================================================
