--------------------------- MODULE ConvergenceProofs ---------------------------
(***************************************************************************)
(* The safety properties of one convergence loop, for every budget, every  *)
(* breaker limit, every set of configurations and every number of          *)
(* processes that take the mission up and of attempts in each.             *)
(***************************************************************************)
EXTENDS Convergence, TLAPS

Verdict == [has : BOOLEAN, green : BOOLEAN, score : {0, 1}, passed : BOOLEAN, met : Scores,
            flips : Nat, said : Sayings]

-----------------------------------------------------------------------------
(* The inductive invariants.                                                *)

\* A result is what ended the last process, and none of a later one.
OpenUntilEnd == at # "ended" => result = "none"

\* What a turn wrote changed the tree, and since the last checkpoint.
WritesSeen == (turn.wrote => dirty /\ changed) /\ (streak.writes => changed)

\* A run until delivered keeps its limit below the ceiling, and its turns below
\* the limit.
WithinLimit ==
    mode.until =>
        /\ Len(hist) <= Ceiling /\ Len(disk.hist) <= Ceiling
        /\ Running => limit <= Ceiling
        /\ at \in {"work", "verify"} => Len(hist) < limit

\* A history h with the counters t knows of its one repair.
RepairKnown(h, t) ==
    /\ t.repairing => t.repairDone
    /\ \A i \in 1..Len(h) : h[i].repair => t.repairDone /\ ~t.repairing
    /\ \A i, j \in 1..Len(h) : h[i].repair /\ h[j].repair => i = j
Repairs ==
    /\ RepairKnown(disk.hist, disk.tally)
    /\ at # "ended" => RepairKnown(hist, tally)
    /\ OneRepair

\* The loops of epics judge on the gates of the project, not on a script of their own.
ScriptsAlone == \A m \in Modes : m.epic => ~m.script

\* Only a repair can have turned the gate script into no gate.
Unscripted == mode.epic => gate = "sound" /\ ~tally.repairing
RiggedInRepair == (Running /\ gate = "rigged" => tally.repairDone) /\ NoRiggedDelivery

\* The counters t tell what the end of the history h looks like.
BestKnown(h, t) ==
    /\ \A i \in 1..Len(h) : h[i].score <= t.best
    /\ t.best # -1 => \E i \in 1..Len(h) : h[i].score = t.best
IdleKnown(h, t) == LastAre(h, t.idle, Idle)
SpinKnown(h, t) == \A n \in Nat : LastAre(h, n, Spinning) => n <= t.idle
EndKnown(h, t) == BestKnown(h, t) /\ IdleKnown(h, t) /\ SpinKnown(h, t)
CountersTrue ==
    /\ EndKnown(disk.hist, disk.tally)
    /\ at # "ended" => EndKnown(hist, tally)
    /\ Running => LastAre(hist, streak.dead, Dead) /\ LastAre(hist, streak.flat, Flat)

\* The refusals the breaker has counted are the last answers the process heard,
\* across the attempts it has made.
FlipsHeard == at # "down" => LastAre(heard, streak.flips, Refused)

\* What a verdict does to the breaker's count, and when it overrules the judge.
CountsWell(v) ==
    \/ v.flips = 0
    \/ v.flips = streak.flips /\ Hears(v) = heard
    \/ v.flips = streak.flips + 1 /\ v.said = "unmet" /\ ~mode.primary
OverrulesWell(v) == v.passed /\ v.said = "unmet" => streak.writes /\ v.flips >= FlipLimit

-----------------------------------------------------------------------------
(* The judge.                                                               *)

\* What the acceptance judge makes of any answer, on a ladder of any colour
\* (judgeAcceptance, resolveAcceptanceVerdict, the churn breaker).
LEMMA JudgedFacts ==
    ASSUME TypeOK, NEW green \in BOOLEAN, NEW ans \in Answers, NEW baseline \in BOOLEAN,
           NEW v, v = Judged(green, ans, baseline)
    PROVE  /\ v \in Verdict /\ v.has
           /\ v.passed => v.green
           /\ v.passed => resumed \/ prior \/ (changed /\ ~baseline)
           /\ CountsWell(v) /\ OverrulesWell(v)
<1>0. /\ {mode.primary, mode.max, prior, resumed, changed, streak.writes} \subseteq BOOLEAN
      /\ streak.flips \in Nat
  BY ConvergenceAssumption DEF TypeOK
<1> DEFINE u == Unjudged(green)
<1>1. /\ u \in Verdict
      /\ u.has = TRUE /\ u.green = green /\ u.passed = green /\ u.flips = streak.flips /\ u.said = "none"
  BY <1>0 DEF Unjudged, Verdict, Scores, Sayings
<1> HIDE DEF u
<1>5. {-1, 0, 1} \subseteq Scores
  BY DEF Scores
<1>2. CASE ~green /\ ~mode.max
  <2>1. v = u
    BY <1>2 DEF Judged, u
  <2> QED
    BY <1>0, <1>1, <1>2, <2>1 DEF CountsWell, OverrulesWell, Hears
<1>3. CASE ~(~green /\ ~mode.max) /\ Withheld(baseline)
  <2>1. v = [u EXCEPT !.passed = FALSE, !.met = 0]
    BY <1>3 DEF Judged, u
  <2>2. v \in Verdict /\ v.has = TRUE /\ v.passed = FALSE /\ v.flips = streak.flips /\ v.said = "none"
    BY <1>1, <2>1, <1>5 DEF Verdict
  <2> QED
    BY <1>0, <2>2 DEF CountsWell, OverrulesWell, Hears
<1>4. CASE ~(~green /\ ~mode.max) /\ ~Withheld(baseline)
  <2>1. /\ Says(ans, baseline).passed \in BOOLEAN /\ Says(ans, baseline).met \in Scores
        /\ ans = "unmet" => ~Says(ans, baseline).passed
    <3>2. CASE ans = "met"
      BY <1>0, <1>5, <3>2 DEF Says
    <3>3. CASE ans = "unmet"
      BY <1>0, <1>5, <3>3 DEF Says
    <3>4. CASE ans = "broken"
      BY <1>0, <1>5, <3>4 DEF Says
    <3>5. CASE ans = "unavailable"
      BY <1>0, <1>5, <3>5 DEF Says
    <3>6. CASE ans = "threw"
      BY <1>0, <1>5, <3>6 DEF Says
    <3> QED
      BY <3>2, <3>3, <3>4, <3>5, <3>6 DEF Answers
  <2>2. /\ Flips(green, ans) \in Nat
        /\ \/ Flips(green, ans) = 0
           \/ Flips(green, ans) = streak.flips /\ ~Heard(green, ans)
           \/ Flips(green, ans) = streak.flips + 1 /\ ans = "unmet" /\ green /\ ~mode.primary
    BY <1>0 DEF Flips, Heard
  <2>3. /\ Overridden(green, ans) \in BOOLEAN
        /\ Overridden(green, ans) => streak.writes /\ Flips(green, ans) >= FlipLimit
    BY <1>0 DEF Overridden, Heard
  <2> DEFINE passed == green /\ (Says(ans, baseline).passed \/ Overridden(green, ans))
             met == Says(ans, baseline).met
             flips == Flips(green, ans)
             said == IF green /\ ans \in {"met", "unmet", "unavailable"} THEN ans ELSE "none"
  <2>4. /\ passed \in BOOLEAN /\ met \in Scores /\ flips \in Nat /\ said \in Sayings
        /\ said = "unmet" => ans = "unmet" /\ green
        /\ ~Heard(green, ans) => mode.primary \/ said = "none"
        /\ ans = "unmet" /\ green => said = "unmet"
    BY <2>1, <2>2, <2>3 DEF Sayings, Heard
  <2>5. v = [u EXCEPT !.passed = passed, !.met = met, !.flips = flips, !.said = said]
    BY <1>4 DEF Judged, u
  <2>8. passed /\ ans = "unmet" => Overridden(green, ans)
    BY <2>1
  <2> HIDE DEF passed, met, flips, said
  <2>6. v \in Verdict /\ v.has = TRUE /\ v.green = green /\ v.passed = passed /\ v.flips = flips /\ v.said = said
    BY <1>1, <2>4, <2>5 DEF Verdict
  <2>7. resumed \/ prior \/ (changed /\ ~baseline)
    BY <1>0, <1>4 DEF Withheld, Unchanged
  <2>9. CountsWell(v)
    BY <2>2, <2>4, <2>6 DEF CountsWell, Hears, flips
  <2>10. OverrulesWell(v)
    BY <2>3, <2>4, <2>6, <2>8 DEF OverrulesWell, flips
  <2> QED
    BY <1>4, <2>6, <2>7, <2>9, <2>10 DEF passed
<1> QED
  BY <1>2, <1>3, <1>4

\* The verdicts a turn can end with: the guard over the repaired gate script
\* only ever takes a pass away.
LEMMA VerdictFacts ==
    ASSUME TypeOK, NEW v \in Verdicts
    PROVE  /\ v \in Verdict
           /\ v.has <=> HasVerdict
           /\ v.passed => v.has /\ v.green
           /\ v.passed => resumed \/ prior \/ changed
           /\ v.passed /\ tally.repairDone => gate = "sound"
           /\ CountsWell(v) /\ OverrulesWell(v)
<1>1. CASE HasVerdict
  <2>1. PICK green \in BOOLEAN, ans \in Answers : v = Sound(Judged(green, ans, FALSE))
    <3>1. PICK green \in BOOLEAN, ans \in Answers : v = Reached(green, ans)
      BY DEF Verdicts
    <3> QED
      BY <1>1, <3>1 DEF Reached
  <2> DEFINE j == Judged(green, ans, FALSE)
  <2>2. /\ j \in Verdict /\ j.has
        /\ j.passed => j.green
        /\ j.passed => resumed \/ prior \/ changed
        /\ CountsWell(j) /\ OverrulesWell(j)
    BY JudgedFacts
  <2> HIDE DEF j
  <2>3. v = Sound(j)
    BY <2>1 DEF j
  <2>4. CASE tally.repairDone /\ j.passed /\ gate = "rigged"
    <3>1. v = [j EXCEPT !.passed = FALSE, !.score = 0]
      BY <2>3, <2>4 DEF Sound
    <3>2. v \in Verdict
      BY <2>2, <3>1 DEF Verdict
    <3>3. /\ v.passed = FALSE /\ v.has = j.has /\ v.green = j.green /\ v.flips = j.flips
          /\ v.said = j.said
      BY <2>2, <3>1 DEF Verdict
    <3>4. CountsWell(v) /\ OverrulesWell(v)
      BY <2>2, <3>3 DEF CountsWell, OverrulesWell, Hears
    <3> QED
      BY <1>1, <2>2, <3>2, <3>3, <3>4
  <2>5. CASE ~(tally.repairDone /\ j.passed /\ gate = "rigged")
    <3>1. v = j
      BY <2>3, <2>5 DEF Sound
    <3>2. gate \in {"sound", "rigged"}
      BY DEF TypeOK
    <3> QED
      BY <1>1, <2>2, <2>5, <3>1, <3>2
  <2> QED
    BY <2>4, <2>5
<1>2. CASE ~HasVerdict
  <2>1. streak.flips \in Nat
    BY DEF TypeOK
  <2>2. v = [Unjudged(FALSE) EXCEPT !.has = FALSE]
    <3>1. PICK green \in BOOLEAN, ans \in Answers : v = Reached(green, ans)
      BY DEF Verdicts
    <3> QED
      BY <1>2, <3>1 DEF Reached, NoVerdict
  <2>3. v = [has |-> FALSE, green |-> FALSE, score |-> 0, passed |-> FALSE, met |-> -1,
             flips |-> streak.flips, said |-> "none"]
    BY <2>2 DEF Unjudged
  <2>4. -1 \in Scores /\ "none" \in Sayings
    BY DEF Scores, Sayings
  <2>5. /\ v \in Verdict /\ v.has = FALSE /\ v.passed = FALSE /\ v.flips = streak.flips
        /\ v.said = "none"
    BY <2>1, <2>3, <2>4 DEF Verdict
  <2>6. CountsWell(v) /\ OverrulesWell(v)
    BY <2>1, <2>5 DEF CountsWell, OverrulesWell, Hears
  <2> QED
    BY <1>2, <2>1, <2>5, <2>6
<1> QED
  BY <1>1, <1>2

-----------------------------------------------------------------------------
(* Types.                                                                   *)

\* The record of a turn, and the counters after one that did not pass.
LEMMA TurnShapes ==
    ASSUME TypeOK, NEW v \in Verdict, NEW dir
    PROVE  /\ Record(v, dir) \in Records /\ Kept(v, dir) \in Seq(Records)
           /\ Streaked(v, dir) \in [dead : Nat, flat : Nat, metSeen : Scores, flips : Nat, writes : BOOLEAN]
           /\ Hears(v) \in Seq(Sayings)
           /\ Idled(v, dir) \in {0, tally.idle + 1}
           /\ \A miss \in BOOLEAN : ~Stalled(v, dir) => Counted(v, dir, miss) \in Tallies
<1> USE ConvergenceAssumption
<1>0. /\ tally.best \in Scores /\ tally.bestMet \in Scores /\ tally.stagnant \in Nat
      /\ tally.idle \in 0..(IdleLimit - 1) /\ tally.repairDone \in BOOLEAN /\ tally.repairing \in BOOLEAN
      /\ streak.dead \in Nat /\ streak.flat \in Nat /\ streak.metSeen \in Scores
      /\ streak.writes \in BOOLEAN /\ turn.wrote \in BOOLEAN /\ dirty \in BOOLEAN /\ hist \in Seq(Records)
  BY DEF TypeOK, Tallies
<1>1. /\ v.has \in BOOLEAN /\ v.green \in BOOLEAN /\ v.score \in {0, 1} /\ v.passed \in BOOLEAN
      /\ v.met \in Scores /\ v.flips \in Nat /\ v.said \in Sayings
  BY DEF Verdict
<1>2. \A a, b \in Scores : Larger(a, b) \in Scores
  BY DEF Larger, Scores
<1>3. v.score \in Scores
  BY <1>1 DEF Scores
<1>4. Escalates(dir) \in BOOLEAN
  BY DEF Escalates
<1>5. Record(v, dir) \in Records
  BY <1>0, <1>1, <1>4 DEF Record, Records
<1>6. Kept(v, dir) \in Seq(Records)
  BY <1>0, <1>5 DEF Kept
<1>7. Streaked(v, dir) \in [dead : Nat, flat : Nat, metSeen : Scores, flips : Nat, writes : BOOLEAN]
  <2>1. Larger(streak.metSeen, v.met) \in Scores
    BY <1>0, <1>1, <1>2
  <2>2. \A m \in Nat : m + 1 \in Nat
    OBVIOUS
  <2>3. /\ streak.dead \in Nat /\ streak.flat \in Nat
        /\ streak.dead + 1 \in Nat /\ streak.flat + 1 \in Nat
    BY <1>0, <2>2, Zenon
  <2> QED
    BY <1>0, <1>1, <2>1, <2>3 DEF Streaked
<1>8. Idled(v, dir) \in {0, tally.idle + 1}
  BY DEF Idled
<1>9. ASSUME NEW miss \in BOOLEAN, ~Stalled(v, dir) PROVE Counted(v, dir, miss) \in Tallies
  <2>1. Idled(v, dir) \in 0..(IdleLimit - 1)
    BY <1>0, <1>8, <1>9 DEF Stalled
  <2>2. Larger(tally.best, v.score) \in Scores /\ Larger(tally.bestMet, v.met) \in Scores
    BY <1>0, <1>1, <1>2, <1>3
  <2> QED
    BY <1>0, <2>1, <2>2 DEF Counted, Tallies
<1>10. Hears(v) \in Seq(Sayings)
  BY <1>1 DEF TypeOK, Hears
<1> QED
  BY <1>5, <1>6, <1>7, <1>8, <1>9, <1>10

LEMMA ConvergenceTypeInit == Init => TypeOK
<1> SUFFICES ASSUME Init PROVE TypeOK
  OBVIOUS
<1>1. NoTally \in Tallies
  BY ConvergenceAssumption DEF NoTally, Tallies, Scores
<1>2. NoStreak \in [dead : Nat, flat : Nat, metSeen : Scores, flips : Nat, writes : BOOLEAN]
  BY DEF NoStreak, Scores
<1>3. NoTurn \in [kind : {"none", "done", "error", "dead"}, wrote : BOOLEAN]
  BY DEF NoTurn
<1>4. <<>> \in Seq(Records) /\ <<>> \in Seq(Sayings) /\ NoCheckpoint \in [hist : Seq(Records), tally : Tallies]
  BY <1>1 DEF NoCheckpoint
<1> QED
  BY <1>1, <1>2, <1>3, <1>4 DEF Init, TypeOK

LEMMA ConvergenceTypeStep == TypeOK /\ [Next]_vars => TypeOK'
<1> SUFFICES ASSUME TypeOK, [Next]_vars PROVE TypeOK'
  OBVIOUS
<1>a. NoTally \in Tallies
  BY ConvergenceAssumption DEF NoTally, Tallies, Scores
<1>b. NoStreak \in [dead : Nat, flat : Nat, metSeen : Scores, flips : Nat, writes : BOOLEAN]
  BY DEF NoStreak, Scores
<1>c. /\ NoTurn \in [kind : {"none", "done", "error", "dead"}, wrote : BOOLEAN]
      /\ <<>> \in Seq(Records) /\ <<>> \in Seq(Sayings)
  BY DEF NoTurn
<1>1. CASE Launch
  <2>1. /\ ResumeFrom.hist \in Seq(Records) /\ Len(ResumeFrom.hist) \in Nat /\ ResumeFrom.tally \in Tallies
        /\ launches \in Nat /\ mode.prior \in BOOLEAN
    BY <1>a, <1>c, ConvergenceAssumption DEF TypeOK, ResumeFrom, NoCheckpoint
  <2>2. Budgeted(Len(ResumeFrom.hist)) \in Nat /\ Budget \in Nat
    BY <2>1, ConvergenceAssumption DEF Budgeted, Smaller
  <2>3. limit' \in Nat /\ launches' \in Nat
    BY <1>1, <2>1, <2>2 DEF Launch
  <2>4. /\ at' \in {"poll", "baseline"} /\ hist' = ResumeFrom.hist /\ tally' = ResumeFrom.tally
        /\ streak' = NoStreak /\ turn' = NoTurn /\ changed' = FALSE /\ gate' = "sound"
        /\ prior' = mode.prior /\ tries' = 1 /\ heard' = <<>> /\ result' = "none" /\ resumed' \in BOOLEAN /\ UNCHANGED <<mode, dirty, disk>>
    BY <1>1 DEF Launch, Restored
  <2> QED
    BY <1>b, <1>c, <2>1, <2>3, <2>4 DEF TypeOK
<1>8. CASE Retry
  <2>1. /\ at' = "poll" /\ hist' = <<>> /\ tally' = NoTally /\ streak' = Inherited /\ limit' = Budget
        /\ turn' = NoTurn /\ changed' = FALSE /\ result' = "none" /\ tries' = tries + 1
        /\ prior' = (prior \/ changed)
        /\ UNCHANGED <<mode, dirty, gate, disk, resumed, heard, launches>>
    BY <1>8 DEF Retry
  <2>2. Inherited \in [dead : Nat, flat : Nat, metSeen : Scores, flips : Nat, writes : BOOLEAN]
    BY <1>b DEF Inherited, TypeOK
  <2>3. Budget \in Nat /\ tries' \in Nat /\ prior' \in BOOLEAN
    BY <2>1, ConvergenceAssumption DEF TypeOK
  <2> QED
    BY <1>a, <1>c, <2>1, <2>2, <2>3 DEF TypeOK
<1>2. CASE Crash
  <2>1. /\ at' = "down" /\ hist' = <<>> /\ tally' = NoTally /\ streak' = NoStreak /\ limit' = 0
        /\ turn' = NoTurn /\ changed' = FALSE /\ heard' = <<>>
        /\ UNCHANGED <<mode, dirty, gate, disk, resumed, result, prior, tries, launches>>
    BY <1>2 DEF Crash
  <2> QED
    BY <1>a, <1>b, <1>c, <2>1 DEF TypeOK
<1>3. CASE Baseline
  <2>1. PICK green \in BOOLEAN, ans \in Answers :
          /\ streak' = [streak EXCEPT !.flips = Judged(green, ans, TRUE).flips]
          /\ heard' = Hears(Judged(green, ans, TRUE))
          /\ IF Judged(green, ans, TRUE).passed THEN End("already") ELSE at' = "poll" /\ UNCHANGED result
    BY <1>3, Zenon DEF Baseline
  <2>2. Judged(green, ans, TRUE) \in Verdict
    BY JudgedFacts
  <2>3. Hears(Judged(green, ans, TRUE)) \in Seq(Sayings)
    BY <2>2, TurnShapes
  <2>4. Judged(green, ans, TRUE).flips \in Nat /\ heard' \in Seq(Sayings)
    BY <2>1, <2>2, <2>3 DEF Verdict
  <2>5. streak' \in [dead : Nat, flat : Nat, metSeen : Scores, flips : Nat, writes : BOOLEAN]
    BY <2>1, <2>4 DEF TypeOK
  <2>6. at' \in {"poll", "ended"} /\ result' \in {"already", result}
    BY <2>1 DEF End
  <2> QED
    BY <1>3, <2>4, <2>5, <2>6 DEF Baseline, TypeOK
<1> USE DEF TypeOK
<1>4. CASE Poll
  BY <1>4 DEF Poll, End
<1>5. CASE Work
  BY <1>5 DEF Work
<1>6. CASE Verify
  <2>1. PICK v \in Verdicts :
          /\ heard' = Hears(v)
          /\ \/ Pass(v) /\ streak' = Streaked(v, "none")
             \/ StopAsked(v) /\ streak' = Streaked(v, "stop")
             \/ \E dir \in Directives : Stall(v, dir) /\ streak' = Streaked(v, dir)
             \/ \E dir \in Directives, miss \in BOOLEAN : GoOn(v, dir, miss) /\ streak' = Streaked(v, dir)
    BY <1>6 DEF Verify
  <2>2. v \in Verdict /\ heard' \in Seq(Sayings)
    BY <2>1, VerdictFacts, TurnShapes
  <2>3. ASSUME NEW dir, hist' = Kept(v, dir), streak' = Streaked(v, dir), UNCHANGED <<tally, limit, dirty, disk>>,
               \E how \in {"delivered", "failed", "stalled"} : End(how)
        PROVE  TypeOK'
    BY <1>6, <2>2, <2>3, TurnShapes DEF Verify, End
  <2>4. ASSUME NEW dir, NEW miss \in BOOLEAN, GoOn(v, dir, miss), streak' = Streaked(v, dir) PROVE TypeOK'
    <3>1. tally' \in Tallies /\ hist' \in Seq(Records)
      BY <2>2, <2>4, TurnShapes DEF GoOn
    <3>2. Raised(dir) \in Nat
      BY ConvergenceAssumption DEF Raised, Larger
    <3>3. limit' \in {Raised(dir), Raised(dir) + 1}
      BY <2>4 DEF GoOn, Extended
    <3>4. /\ at' = "poll" /\ UNCHANGED result /\ disk' = [hist |-> hist', tally |-> tally'] /\ dirty' = FALSE
          /\ turn' = [turn EXCEPT !.wrote = FALSE] /\ UNCHANGED <<mode, prior, tries, changed, gate, resumed, launches>>
          /\ streak' \in [dead : Nat, flat : Nat, metSeen : Scores, flips : Nat, writes : BOOLEAN]
      BY <1>6, <2>2, <2>4, TurnShapes DEF GoOn, Verify
    <3>5. limit' \in Nat /\ disk' \in [hist : Seq(Records), tally : Tallies]
      BY <3>1, <3>2, <3>3, <3>4
    <3>6. turn' \in [kind : {"none", "done", "error", "dead"}, wrote : BOOLEAN]
      BY <3>4
    <3>7. /\ mode \in Modes /\ launches \in Nat /\ tries \in Nat /\ {prior, changed, resumed} \subseteq BOOLEAN
          /\ gate \in {"sound", "rigged"}
          /\ result \in {"none", "already", "delivered", "failed", "stalled", "stopped", "exhausted"}
      OBVIOUS
    <3> HIDE DEF TypeOK
    <3> QED
      BY <2>2, <3>1, <3>4, <3>5, <3>6, <3>7 DEF TypeOK
  <2> HIDE DEF TypeOK
  <2> QED
    BY <2>1, <2>3, <2>4 DEF Pass, StopAsked, Stall
<1>7. CASE UNCHANGED vars
  BY <1>7 DEF vars
<1> HIDE DEF TypeOK
<1> QED
  BY <1>1, <1>2, <1>3, <1>4, <1>5, <1>6, <1>7, <1>8 DEF Next

\* The state keeps its shape through launches, turns, breakers and deaths.
THEOREM ConvergenceTypeCorrect == Spec => []TypeOK
  BY ConvergenceTypeInit, ConvergenceTypeStep, PTL DEF Spec

-----------------------------------------------------------------------------
(* The end of a turn.                                                       *)

\* A turn with verdict v that ends the loop, and one that goes on.
Closes(v, dir) ==
    /\ at' = "ended" /\ UNCHANGED <<tally, limit, dirty, disk>>
    /\ \/ v.passed /\ result' = "delivered"
       \/ ~v.passed /\ result' = "failed"
       \/ ~v.passed /\ Stalled(v, dir) /\ result' = "stalled"
Continues(v, dir, miss) ==
    /\ ~v.passed /\ ~Stalled(v, dir) /\ (miss => MayMiss(v))
    /\ at' = "poll" /\ UNCHANGED result
    /\ tally' = Counted(v, dir, miss) /\ limit' = Extended(v, dir)
    /\ disk' = [hist |-> hist', tally |-> tally'] /\ dirty' = FALSE

LEMMA VerifyCases ==
    ASSUME Verify
    PROVE  \E v \in Verdicts, dir \in {"none", "critic", "switch", "raise", "stop"} :
              /\ hist' = Kept(v, dir) /\ streak' = Streaked(v, dir) /\ heard' = Hears(v)
              /\ Closes(v, dir) \/ \E miss \in BOOLEAN : Continues(v, dir, miss)
<1>1. PICK v \in Verdicts :
          /\ heard' = Hears(v)
          /\ \/ Pass(v) /\ streak' = Streaked(v, "none")
             \/ StopAsked(v) /\ streak' = Streaked(v, "stop")
             \/ \E dir \in Directives : Stall(v, dir) /\ streak' = Streaked(v, dir)
             \/ \E dir \in Directives, miss \in BOOLEAN : GoOn(v, dir, miss) /\ streak' = Streaked(v, dir)
  BY DEF Verify
<1>2. ASSUME Pass(v) PROVE hist' = Kept(v, "none") /\ Closes(v, "none")
  BY <1>2 DEF Pass, End, Closes
<1>3. ASSUME StopAsked(v) PROVE hist' = Kept(v, "stop") /\ Closes(v, "stop")
  BY <1>3 DEF StopAsked, End, Closes
<1>4. ASSUME NEW dir \in Directives, Stall(v, dir), streak' = Streaked(v, dir)
      PROVE  hist' = Kept(v, dir) /\ Closes(v, dir)
  BY <1>4 DEF Stall, End, Closes
<1>5. ASSUME NEW dir \in Directives, NEW miss \in BOOLEAN, GoOn(v, dir, miss)
      PROVE  hist' = Kept(v, dir) /\ Continues(v, dir, miss)
  BY <1>5 DEF GoOn, Continues
<1>6. Directives \subseteq {"none", "critic", "switch", "raise", "stop"}
  BY DEF Directives
<1> QED
  BY <1>1, <1>2, <1>3, <1>4, <1>5, <1>6

\* Every turn is added at the end of the history.
LEMMA KeptFacts ==
    ASSUME TypeOK, NEW v \in Verdicts, NEW dir, hist' = Kept(v, dir)
    PROVE  /\ Len(hist) \in Nat /\ Len(hist') = Len(hist) + 1
           /\ \A i \in 1..Len(hist) : hist'[i] = hist[i]
           /\ hist'[Len(hist) + 1] = Record(v, dir)
           /\ Record(v, dir) \in Records /\ hist' \in Seq(Records)
<1>1. hist \in Seq(Records)
  BY DEF TypeOK
<1>2. Record(v, dir) \in Records
  BY VerdictFacts, TurnShapes
<1> QED
  BY <1>1, <1>2 DEF Kept

-----------------------------------------------------------------------------
(* The invariants that need no history.                                     *)

LEMMA OpenStep == TypeOK /\ OpenUntilEnd /\ [Next]_vars => OpenUntilEnd'
<1> SUFFICES ASSUME TypeOK, OpenUntilEnd, [Next]_vars PROVE OpenUntilEnd'
  OBVIOUS
<1> USE DEF OpenUntilEnd
<1>1. CASE Launch \/ Retry \/ Crash \/ Work
  BY <1>1 DEF Launch, Retry, Crash, Work, Running
<1>2. CASE Baseline \/ Poll
  BY <1>2 DEF Baseline, Poll, End
<1>3. CASE Verify
  BY <1>3, VerifyCases DEF Closes, Continues, Verify
<1>4. CASE UNCHANGED vars
  BY <1>4 DEF vars
<1> QED
  BY <1>1, <1>2, <1>3, <1>4 DEF Next

LEMMA WritesStep == TypeOK /\ WritesSeen /\ [Next]_vars => WritesSeen'
<1> SUFFICES ASSUME TypeOK, WritesSeen, [Next]_vars PROVE WritesSeen'
  OBVIOUS
<1> USE DEF WritesSeen
<1>1. CASE Launch \/ Retry \/ Crash
  BY <1>1 DEF Launch, Retry, Crash, NoTurn, NoStreak, Inherited
<1>2. CASE Baseline
  <2>1. streak'.writes = streak.writes /\ UNCHANGED <<turn, changed, dirty>>
    BY <1>2 DEF Baseline, TypeOK
  <2> QED
    BY <2>1
<1>3. CASE Poll \/ UNCHANGED vars
  BY <1>3 DEF Poll, vars
<1>4. CASE Work
  BY <1>4 DEF Work, TypeOK
<1>5. CASE Verify
  <2>1. turn'.wrote = FALSE /\ UNCHANGED changed
    BY <1>5 DEF Verify, TypeOK
  <2>2. streak'.writes = (streak.writes \/ turn.wrote)
    BY <1>5, VerifyCases DEF Streaked
  <2> QED
    BY <2>1, <2>2
<1> QED
  BY <1>1, <1>2, <1>3, <1>4, <1>5 DEF Next

LEMMA LimitStep == TypeOK /\ WithinLimit /\ [Next]_vars => WithinLimit'
<1> SUFFICES ASSUME TypeOK, WithinLimit, [Next]_vars, mode'.until PROVE WithinLimit'
  BY DEF WithinLimit
<1>0. mode' = mode
  BY DEF Next, Launch, Retry, Crash, Baseline, Poll, Work, Verify, vars
<1>1. /\ Len(hist) \in Nat /\ Len(disk.hist) \in Nat /\ limit \in Nat
      /\ {Budget, Ceiling} \subseteq Nat /\ Budget <= Ceiling
  BY ConvergenceAssumption DEF TypeOK
<1> USE <1>0, <1>1 DEF WithinLimit, Running
<1>2. CASE Launch
  <2>1. /\ hist' = ResumeFrom.hist /\ disk' = disk /\ at' \in {"poll", "baseline"}
        /\ limit' = Budget \/ limit' = Budgeted(Len(ResumeFrom.hist))
    BY <1>2 DEF Launch
  <2>2. Len(ResumeFrom.hist) \in Nat /\ Len(ResumeFrom.hist) <= Ceiling
    BY DEF ResumeFrom, NoCheckpoint
  <2>3. Budgeted(Len(ResumeFrom.hist)) <= Ceiling
    BY <2>2 DEF Budgeted, Smaller
  <2> QED
    BY <2>1, <2>2, <2>3
<1>3. CASE Retry \/ Crash
  BY <1>3 DEF Retry, Crash
<1>4. CASE Baseline \/ Poll \/ Work
  BY <1>4 DEF Baseline, Poll, Work, End
<1>5. CASE Verify
  <2>1. PICK v \in Verdicts, dir \in {"none", "critic", "switch", "raise", "stop"} :
              /\ hist' = Kept(v, dir) /\ streak' = Streaked(v, dir)
              /\ Closes(v, dir) \/ \E miss \in BOOLEAN : Continues(v, dir, miss)
    BY <1>5, VerifyCases
  <2>2. Len(hist') = Len(hist) + 1 /\ Len(hist) < limit /\ limit <= Ceiling
    BY <1>5, <2>1, KeptFacts DEF Verify
  <2>3. Raised(dir) \in {limit, Ceiling}
    BY DEF Raised, Larger
  <2>4. Extended(v, dir) <= Ceiling
    <3>1. \/ Extended(v, dir) = Raised(dir)
          \/ Raised(dir) < Ceiling /\ Extended(v, dir) = Raised(dir) + 1
      BY DEF Extended
    <3>2. Raised(dir) \in Nat /\ Raised(dir) <= Ceiling
      BY <2>2, <2>3
    <3> QED
      BY <3>1, <3>2
  <2> QED
    BY <1>5, <2>1, <2>2, <2>4 DEF Closes, Continues
<1>6. CASE UNCHANGED vars
  BY <1>6 DEF vars
<1> QED
  BY <1>2, <1>3, <1>4, <1>5, <1>6 DEF Next

LEMMA UnscriptedStep ==
    ASSUME ScriptsAlone
    PROVE  TypeOK /\ Unscripted /\ [Next]_vars => Unscripted'
<1> SUFFICES ASSUME TypeOK, Unscripted, [Next]_vars, mode'.epic PROVE gate' = "sound" /\ ~tally'.repairing
  BY DEF Unscripted
<1>0. mode' = mode
  BY DEF Next, Launch, Retry, Crash, Baseline, Poll, Work, Verify, vars
<1>1. gate = "sound" /\ ~tally.repairing /\ mode.epic /\ ~mode.script
  BY <1>0 DEF Unscripted, ScriptsAlone, TypeOK
<1>2. CASE Launch \/ Retry \/ Crash
  <2>1. tally' = NoTally /\ gate' \in {"sound", gate}
    BY <1>1, <1>2 DEF Launch, Retry, Crash, ResumeFrom, NoCheckpoint, Restored
  <2> QED
    BY <1>1, <2>1 DEF NoTally
<1>3. CASE Baseline \/ Poll \/ Work \/ UNCHANGED vars
  BY <1>1, <1>3 DEF Baseline, Poll, Work, vars
<1>4. CASE Verify
  <2>1. gate' = gate
    BY <1>4 DEF Verify
  <2>2. PICK v \in Verdicts, dir \in {"none", "critic", "switch", "raise", "stop"} :
              Closes(v, dir) \/ \E miss \in BOOLEAN : Continues(v, dir, miss)
    BY <1>4, VerifyCases
  <2>3. ASSUME NEW miss \in BOOLEAN, Continues(v, dir, miss) PROVE tally'.repairing = FALSE
    BY <1>1, <2>3 DEF Continues, Counted, MayMiss
  <2> QED
    BY <1>1, <2>1, <2>2, <2>3 DEF Closes
<1> QED
  BY <1>2, <1>3, <1>4 DEF Next

LEMMA RiggedStep ==
    TypeOK /\ OpenUntilEnd /\ Repairs /\ Unscripted /\ RiggedInRepair /\ [Next]_vars => RiggedInRepair'
<1> SUFFICES ASSUME TypeOK, OpenUntilEnd, Repairs, Unscripted, RiggedInRepair, [Next]_vars PROVE RiggedInRepair'
  OBVIOUS
<1> USE DEF RiggedInRepair, NoRiggedDelivery, Running
<1>1. CASE Launch \/ Retry \/ Crash
  BY <1>1 DEF Launch, Retry, Crash, OpenUntilEnd, Unscripted
<1>2. CASE Baseline \/ Poll
  BY <1>2 DEF Baseline, Poll, End
<1>3. CASE Work
  BY <1>3 DEF Work, OpenUntilEnd, Repairs, RepairKnown
<1>4. CASE Verify
  <2>1. PICK v \in Verdicts, dir \in {"none", "critic", "switch", "raise", "stop"} :
              Closes(v, dir) \/ \E miss \in BOOLEAN : Continues(v, dir, miss)
    BY <1>4, VerifyCases
  <2>2. gate' = gate /\ at = "verify"
    BY <1>4 DEF Verify
  <2>3. v.passed => gate = "sound"
    BY <2>2, VerdictFacts DEF TypeOK
  <2>4. ASSUME NEW miss \in BOOLEAN, Continues(v, dir, miss)
        PROVE  tally.repairDone => tally'.repairDone
    BY <2>4 DEF Continues, Counted
  <2> QED
    BY <2>1, <2>2, <2>3, <2>4, <1>4 DEF Closes, Continues, OpenUntilEnd
<1>5. CASE UNCHANGED vars
  BY <1>5 DEF vars
<1> QED
  BY <1>1, <1>2, <1>3, <1>4, <1>5 DEF Next

\* A pass needs a turn that wrote, a resumed run or earlier work.
LEMMA NoOpStep == TypeOK /\ OpenUntilEnd /\ NoOpRefused /\ [Next]_vars => NoOpRefused'
<1> SUFFICES ASSUME TypeOK, OpenUntilEnd, NoOpRefused, [Next]_vars PROVE NoOpRefused'
  OBVIOUS
<1> USE DEF NoOpRefused
<1>1. CASE Launch \/ Retry \/ Crash \/ Work
  BY <1>1 DEF Launch, Retry, Crash, Work, OpenUntilEnd, Running
<1>2. CASE Baseline
  <2>1. UNCHANGED <<resumed, prior, changed>> /\ result = "none"
    BY <1>2 DEF Baseline, OpenUntilEnd
  <2>2. PICK green \in BOOLEAN, ans \in Answers :
          IF Judged(green, ans, TRUE).passed THEN End("already") ELSE at' = "poll" /\ UNCHANGED result
    BY <1>2, Zenon DEF Baseline
  <2>3. Judged(green, ans, TRUE).passed => resumed \/ prior
    BY JudgedFacts
  <2> QED
    BY <2>1, <2>2, <2>3
<1>3. CASE Poll
  BY <1>3 DEF Poll, End, OpenUntilEnd
<1>4. CASE Verify
  <2>1. PICK v \in Verdicts, dir \in {"none", "critic", "switch", "raise", "stop"} :
              Closes(v, dir) \/ \E miss \in BOOLEAN : Continues(v, dir, miss)
    BY <1>4, VerifyCases
  <2>2. UNCHANGED <<resumed, prior, changed>> /\ result = "none"
    BY <1>4 DEF Verify, OpenUntilEnd
  <2>3. v.passed => resumed \/ prior \/ changed
    BY VerdictFacts
  <2> QED
    BY <2>1, <2>2, <2>3 DEF Closes, Continues
<1>5. CASE UNCHANGED vars
  BY <1>5 DEF vars
<1> QED
  BY <1>1, <1>2, <1>3, <1>4, <1>5 DEF Next

-----------------------------------------------------------------------------
(* The one repair of the gate script.                                       *)

\* A history with one repair, by whatever turn it is followed.
LEMMA RepairedOnce ==
    ASSUME TypeOK, RepairKnown(hist, tally), NEW v \in Verdicts, NEW dir, hist' = Kept(v, dir)
    PROVE  /\ \A i, j \in 1..Len(hist') : hist'[i].repair /\ hist'[j].repair => i = j
           /\ \A i \in 1..Len(hist') : hist'[i].repair => tally.repairDone
<1> DEFINE n == Len(hist) + 1
<1>1. /\ Len(hist) \in Nat /\ Len(hist') = n /\ hist'[n].repair = tally.repairing
      /\ \A i \in 1..Len(hist) : hist'[i] = hist[i]
  <2>1. Record(v, dir).repair = tally.repairing
    BY DEF Record
  <2> QED
    BY <2>1, KeptFacts
<1>2. \A i \in 1..Len(hist') : i = n \/ i \in 1..Len(hist)
  BY <1>1
<1> HIDE DEF n
<1> QED
  BY <1>1, <1>2 DEF RepairKnown

LEMMA RepairsStep == TypeOK /\ Repairs /\ [Next]_vars => Repairs'
<1> SUFFICES ASSUME TypeOK, Repairs, [Next]_vars PROVE Repairs'
  OBVIOUS
<1> USE DEF Repairs, OneRepair
<1>1. CASE Launch
  <2>1. hist' = ResumeFrom.hist /\ tally' = ResumeFrom.tally /\ disk' = disk
    BY <1>1 DEF Launch, Restored
  <2>2. RepairKnown(disk.hist, disk.tally) /\ RepairKnown(ResumeFrom.hist, ResumeFrom.tally)
    BY DEF ResumeFrom, NoCheckpoint, NoTally, RepairKnown
  <2>3. RepairKnown(disk.hist, disk.tally)' /\ RepairKnown(hist, tally)'
    BY <2>1, <2>2 DEF RepairKnown
  <2> QED
    BY <2>3 DEF RepairKnown
<1>2. CASE Retry \/ Crash
  <2>1. hist' = <<>> /\ tally' = NoTally /\ disk' = disk
    BY <1>2 DEF Retry, Crash
  <2> QED
    BY <2>1 DEF RepairKnown, NoTally
<1>3. CASE Baseline \/ Poll \/ Work \/ UNCHANGED vars
  <2>1. UNCHANGED <<hist, tally, disk>> /\ (at' # "ended" => at # "ended")
    BY <1>3 DEF Baseline, Poll, Work, End, vars
  <2> QED
    BY <2>1
<1>4. CASE Verify
  <2>1. PICK v \in Verdicts, dir \in {"none", "critic", "switch", "raise", "stop"} :
              /\ hist' = Kept(v, dir)
              /\ Closes(v, dir) \/ \E miss \in BOOLEAN : Continues(v, dir, miss)
    BY <1>4, VerifyCases
  <2>2. RepairKnown(hist, tally)
    BY <1>4 DEF Verify
  <2>3. /\ \A i, j \in 1..Len(hist') : hist'[i].repair /\ hist'[j].repair => i = j
        /\ \A i \in 1..Len(hist') : hist'[i].repair => tally.repairDone
    BY <2>1, <2>2, RepairedOnce
  <2>4. CASE Closes(v, dir)
    BY <2>3, <2>4 DEF Closes
  <2>5. ASSUME NEW miss \in BOOLEAN, Continues(v, dir, miss) PROVE Repairs'
    <3>1. /\ tally'.repairDone = (tally.repairDone \/ miss) /\ tally'.repairing = miss
          /\ miss => ~tally.repairDone
          /\ disk'.hist = hist' /\ disk'.tally = tally'
      BY <2>5 DEF Continues, Counted, MayMiss
    <3>2. RepairKnown(hist, tally)'
      BY <2>3, <3>1 DEF RepairKnown
    <3> QED
      BY <2>3, <3>1, <3>2 DEF RepairKnown
  <2> QED
    BY <2>1, <2>4, <2>5
<1> QED
  BY <1>1, <1>2, <1>3, <1>4 DEF Next

-----------------------------------------------------------------------------
(* What the counters know of the history.                                   *)

\* A further turn leaves what is said of the earlier ones.
LEMMA SamePast ==
    ASSUME TypeOK, NEW v \in Verdicts, NEW dir, hist' = Kept(v, dir), NEW i \in 1..Len(hist)
    PROVE  /\ Idle(hist', i) <=> Idle(hist, i)
           /\ Dead(hist', i) <=> Dead(hist, i)
           /\ Flat(hist', i) <=> Flat(hist, i)
           /\ Spinning(hist', i) <=> Spinning(hist, i)
<1>1. /\ Len(hist) \in Nat
      /\ \A j \in 1..Len(hist) : hist'[j] = hist[j]
  BY KeptFacts
<1>2. \A j \in 1..(i - 1) : j \in 1..Len(hist)
  BY <1>1
<1>3. Before(hist', i) = Before(hist, i)
  BY <1>1, <1>2 DEF Before
<1> QED
  BY <1>1, <1>3 DEF Idle, Dead, Flat, Spinning

\* What the counters make of the turn is what the history will say of it.
LEMMA NewTurn ==
    ASSUME TypeOK, WritesSeen, BestKnown(hist, tally), NEW v \in Verdicts, NEW dir,
           hist' = Kept(v, dir), NEW n, n = Len(hist) + 1
    PROVE  /\ Idled(v, dir) # 0 => Idle(hist', n)
           /\ Streaked(v, dir).dead # 0 => Dead(hist', n)
           /\ Streaked(v, dir).flat # 0 => Flat(hist', n)
           /\ Spinning(hist', n) => Idled(v, dir) = tally.idle + 1
           /\ BestKnown(hist', [tally EXCEPT !.best = Larger(tally.best, v.score)])
<1>0. /\ v.has \in BOOLEAN /\ v.score \in {0, 1} /\ tally.best \in {-1, 0, 1}
      /\ turn.wrote \in BOOLEAN /\ dirty \in BOOLEAN /\ tally \in Tallies
  BY VerdictFacts DEF Verdict, TypeOK, Tallies, Scores
<1>1. /\ Len(hist) \in Nat /\ Len(hist') = n /\ hist'[n] = Record(v, dir)
      /\ \A i \in 1..Len(hist) : hist'[i] = hist[i] /\ hist[i].score \in {0, 1}
  <2>1. \A i \in 1..Len(hist) : hist[i] \in Records
    BY DEF TypeOK
  <2>2. \A r \in Records : r.score \in {0, 1}
    BY DEF Records
  <2> QED
    BY KeptFacts, <2>1, <2>2
<1>2. Before(hist', n) = {hist[j].score : j \in 1..Len(hist)}
  BY <1>1 DEF Before
<1>3. /\ Record(v, dir).verdict = v.has /\ Record(v, dir).score = v.score
      /\ Record(v, dir).dead = (turn.kind = "dead")
      /\ Record(v, dir).moved = (v.has /\ dirty)
      /\ Record(v, dir).wrote = (v.has /\ turn.wrote)
      /\ Record(v, dir).steered = (v.has /\ Escalates(dir))
  BY DEF Record
<1>4. ~Better(v) <=> \E s \in Before(hist', n) : s >= v.score
  <2>1. ASSUME ~Better(v) PROVE \E s \in Before(hist', n) : s >= v.score
    <3>1. v.score <= tally.best /\ tally.best # -1
      BY <1>0, <2>1 DEF Better
    <3>2. PICK j \in 1..Len(hist) : hist[j].score = tally.best
      BY <3>1 DEF BestKnown
    <3> QED
      BY <1>0, <1>2, <3>1, <3>2
  <2>2. ASSUME NEW s \in Before(hist', n), s >= v.score PROVE ~Better(v)
    <3>1. PICK j \in 1..Len(hist) : hist[j].score = s
      BY <1>2
    <3> QED
      BY <1>0, <1>1, <2>2, <3>1 DEF Better, BestKnown
  <2> QED
    BY <2>1, <2>2
<1>5. Idled(v, dir) # 0 => Idle(hist', n)
  BY <1>0, <1>1, <1>3, <1>4 DEF Idled, Idle
<1>6. Streaked(v, dir).dead # 0 => Dead(hist', n)
  BY <1>1, <1>3 DEF Streaked, Dead
<1>7. Streaked(v, dir).flat # 0 => Flat(hist', n)
  BY <1>0, <1>1, <1>3, <1>4 DEF Streaked, Flat
<1>8. Spinning(hist', n) => Idled(v, dir) = tally.idle + 1
  BY <1>0, <1>1, <1>3, <1>4 DEF Idled, Spinning, WritesSeen
<1>9. BestKnown(hist', [tally EXCEPT !.best = Larger(tally.best, v.score)])
  <2>1. [tally EXCEPT !.best = Larger(tally.best, v.score)].best = Larger(tally.best, v.score)
    BY <1>0 DEF Tallies
  <2>2. \A i \in 1..Len(hist') : i = n \/ i \in 1..Len(hist)
    BY <1>1
  <2>3. n \in 1..Len(hist') /\ 1..Len(hist) \subseteq 1..Len(hist')
    BY <1>1
  <2>4. \A i \in 1..Len(hist') : hist'[i].score <= Larger(tally.best, v.score)
    BY <1>0, <1>1, <1>3, <2>2 DEF BestKnown, Larger
  <2>5. \E i \in 1..Len(hist') : hist'[i].score = Larger(tally.best, v.score)
    <3>1. CASE Better(v)
      <4>1. Larger(tally.best, v.score) = v.score
        BY <1>0, <3>1 DEF Better, Larger
      <4>2. hist'[n].score = v.score
        BY <1>1, <1>3
      <4> QED
        BY <2>3, <4>1, <4>2
    <3>2. CASE ~Better(v)
      <4>1. tally.best # -1 /\ Larger(tally.best, v.score) = tally.best
        BY <1>0, <3>2 DEF Better, Larger
      <4>2. PICK j \in 1..Len(hist) : hist[j].score = tally.best
        BY <4>1 DEF BestKnown
      <4> QED
        BY <1>1, <2>3, <4>1, <4>2
    <3> QED
      BY <3>1, <3>2
  <2> QED
    BY <2>1, <2>4, <2>5 DEF BestKnown
<1> QED
  BY <1>5, <1>6, <1>7, <1>8, <1>9

\* The counters of a loop that goes on, and those a breaker trips on, are true
\* of the history with the new turn.
LEMMA CountersAfter ==
    ASSUME TypeOK, WritesSeen, EndKnown(hist, tally), LastAre(hist, streak.dead, Dead),
           LastAre(hist, streak.flat, Flat), NEW v \in Verdicts, NEW dir, hist' = Kept(v, dir)
    PROVE  /\ LastAre(hist', Idled(v, dir), Idle)
           /\ LastAre(hist', Streaked(v, dir).dead, Dead)
           /\ LastAre(hist', Streaked(v, dir).flat, Flat)
           /\ \A k \in Nat : LastAre(hist', k, Spinning) => k <= Idled(v, dir)
<1> DEFINE n == Len(hist) + 1
<1>1. /\ Len(hist) \in Nat /\ Len(hist') = n
      /\ tally.idle \in Nat /\ streak.dead \in Nat /\ streak.flat \in Nat
      /\ Idled(v, dir) \in {0, tally.idle + 1}
  BY KeptFacts, VerdictFacts, TurnShapes DEF TypeOK, Tallies
<1>2. /\ Streaked(v, dir).dead \in {0, streak.dead + 1}
      /\ Streaked(v, dir).flat \in {0, streak.flat + 1}
  BY DEF Streaked
<1>3. /\ Idled(v, dir) # 0 => Idle(hist', n)
      /\ Streaked(v, dir).dead # 0 => Dead(hist', n)
      /\ Streaked(v, dir).flat # 0 => Flat(hist', n)
      /\ Spinning(hist', n) => Idled(v, dir) = tally.idle + 1
  BY NewTurn DEF EndKnown
<1>4. \A i \in 1..n : i = n \/ i \in 1..Len(hist)
  BY <1>1
<1>5. LastAre(hist', Idled(v, dir), Idle)
  <2>1. CASE Idled(v, dir) = 0
    BY <1>1, <2>1 DEF LastAre
  <2>2. CASE Idled(v, dir) = tally.idle + 1
    BY <1>1, <1>3, <1>4, <2>2, SamePast DEF LastAre, EndKnown, IdleKnown
  <2> QED
    BY <1>1, <2>1, <2>2
<1>6. LastAre(hist', Streaked(v, dir).dead, Dead)
  <2>1. CASE Streaked(v, dir).dead = 0
    BY <1>1, <2>1 DEF LastAre
  <2>2. CASE Streaked(v, dir).dead = streak.dead + 1
    BY <1>1, <1>3, <1>4, <2>2, SamePast DEF LastAre
  <2> QED
    BY <1>2, <2>1, <2>2
<1>7. LastAre(hist', Streaked(v, dir).flat, Flat)
  <2>1. CASE Streaked(v, dir).flat = 0
    BY <1>1, <2>1 DEF LastAre
  <2>2. CASE Streaked(v, dir).flat = streak.flat + 1
    BY <1>1, <1>3, <1>4, <2>2, SamePast DEF LastAre
  <2> QED
    BY <1>2, <2>1, <2>2
<1>8. ASSUME NEW k \in Nat, LastAre(hist', k, Spinning) PROVE k <= Idled(v, dir)
  <2>1. CASE k = 0
    BY <1>1, <2>1
  <2>2. CASE k # 0
    <3>1. Spinning(hist', n)
      BY <1>1, <1>8, <2>2 DEF LastAre
    <3>2. k - 1 \in Nat /\ LastAre(hist, k - 1, Spinning)
      BY <1>1, <1>8, <2>2, SamePast DEF LastAre
    <3>3. k - 1 <= tally.idle
      BY <3>2 DEF EndKnown, SpinKnown
    <3> QED
      BY <1>1, <1>3, <3>1, <3>3
  <2> QED
    BY <2>1, <2>2
<1> QED
  BY <1>5, <1>6, <1>7, <1>8

LEMMA CountersStep == TypeOK /\ WritesSeen /\ CountersTrue /\ [Next]_vars => CountersTrue'
<1> SUFFICES ASSUME TypeOK, WritesSeen, CountersTrue, [Next]_vars PROVE CountersTrue'
  OBVIOUS
<1>0. \A h : /\ Len(h) \in Nat => LastAre(h, 0, Dead) /\ LastAre(h, 0, Flat)
             /\ h = <<>> => EndKnown(h, NoTally)
  BY DEF LastAre, EndKnown, BestKnown, IdleKnown, SpinKnown, NoTally
<1> USE DEF CountersTrue, Running
<1>1. CASE Launch
  <2>1. /\ hist' = ResumeFrom.hist /\ tally' = ResumeFrom.tally /\ disk' = disk
        /\ streak'.dead = 0 /\ streak'.flat = 0 /\ Len(ResumeFrom.hist) \in Nat
    BY <1>1 DEF Launch, Restored, NoStreak, TypeOK, ResumeFrom, NoCheckpoint
  <2>3. EndKnown(ResumeFrom.hist, ResumeFrom.tally)
    BY <1>0 DEF ResumeFrom, NoCheckpoint
  <2>2. EndKnown(hist', tally') /\ EndKnown(disk'.hist, disk'.tally)
    BY <2>1, <2>3
  <2> QED
    BY <1>0, <2>1, <2>2
<1>6. CASE Retry
  <2>1. hist' = <<>> /\ tally' = NoTally /\ disk' = disk /\ streak'.dead = 0 /\ streak'.flat = 0
    BY <1>6 DEF Retry, Inherited, NoStreak
  <2>2. EndKnown(disk'.hist, disk'.tally)
    BY <2>1
  <2> QED
    BY <1>0, <2>1, <2>2
<1>2. CASE Crash
  <2>1. hist' = <<>> /\ tally' = NoTally /\ disk' = disk /\ at' = "down"
    BY <1>2 DEF Crash
  <2>2. EndKnown(disk'.hist, disk'.tally)
    BY <2>1
  <2> QED
    BY <1>0, <2>1, <2>2
<1>3. CASE Baseline
  <2>1. /\ streak'.dead = streak.dead /\ streak'.flat = streak.flat /\ at # "ended" /\ at # "down"
        /\ UNCHANGED <<hist, tally, disk>>
    BY <1>3 DEF Baseline, TypeOK
  <2> QED
    BY <2>1
<1>4. CASE Poll \/ Work \/ UNCHANGED vars
  <2>1. /\ UNCHANGED <<hist, tally, disk, streak>>
        /\ at' \notin {"ended", "down"} => at \notin {"ended", "down"}
        /\ at' # "ended" => at # "ended"
    BY <1>4 DEF Poll, Work, End, vars
  <2> QED
    BY <2>1
<1>5. CASE Verify
  <2>1. PICK v \in Verdicts, dir \in {"none", "critic", "switch", "raise", "stop"} :
              /\ hist' = Kept(v, dir) /\ streak' = Streaked(v, dir)
              /\ Closes(v, dir) \/ \E miss \in BOOLEAN : Continues(v, dir, miss)
    BY <1>5, VerifyCases
  <2>2. EndKnown(hist, tally) /\ LastAre(hist, streak.dead, Dead) /\ LastAre(hist, streak.flat, Flat)
    BY <1>5 DEF Verify
  <2>3. CASE Closes(v, dir)
    BY <2>3 DEF Closes
  <2>4. ASSUME NEW miss \in BOOLEAN, Continues(v, dir, miss) PROVE CountersTrue'
    <3>1. /\ LastAre(hist', Idled(v, dir), Idle)
          /\ LastAre(hist', Streaked(v, dir).dead, Dead)
          /\ LastAre(hist', Streaked(v, dir).flat, Flat)
          /\ \A k \in Nat : LastAre(hist', k, Spinning) => k <= Idled(v, dir)
      BY <2>1, <2>2, CountersAfter
    <3>2. BestKnown(hist', [tally EXCEPT !.best = Larger(tally.best, v.score)])
      BY <2>1, <2>2, NewTurn DEF EndKnown
    <3>3. /\ tally'.best = Larger(tally.best, v.score) /\ tally'.idle = Idled(v, dir)
          /\ disk'.hist = hist' /\ disk'.tally = tally'
      BY <2>4 DEF Continues, Counted
    <3>4. [tally EXCEPT !.best = Larger(tally.best, v.score)].best = Larger(tally.best, v.score)
      BY DEF TypeOK, Tallies
    <3>5. EndKnown(hist', tally')
      BY <3>1, <3>2, <3>3, <3>4 DEF EndKnown, BestKnown, IdleKnown, SpinKnown
    <3> QED
      BY <2>1, <3>1, <3>3, <3>5
  <2> QED
    BY <2>1, <2>3, <2>4
<1> QED
  BY <1>1, <1>2, <1>3, <1>4, <1>5, <1>6 DEF Next

LEMMA StallStep ==
    TypeOK /\ OpenUntilEnd /\ WritesSeen /\ CountersTrue /\ StallJustified /\ [Next]_vars => StallJustified'
<1> SUFFICES ASSUME TypeOK, OpenUntilEnd, WritesSeen, CountersTrue, StallJustified, [Next]_vars,
                    result' = "stalled"
             PROVE  StallJustified'
  BY DEF StallJustified
<1>1. CASE UNCHANGED vars
  BY <1>1 DEF vars, StallJustified, Yields
<1>2. CASE Launch \/ Retry \/ Crash \/ Baseline \/ Poll \/ Work
  BY <1>2 DEF Launch, Retry, Crash, Baseline, Poll, Work, End, OpenUntilEnd, Running
<1>3. CASE Verify
  <2>1. PICK v \in Verdicts, dir \in {"none", "critic", "switch", "raise", "stop"} :
              /\ hist' = Kept(v, dir) /\ streak' = Streaked(v, dir)
              /\ Closes(v, dir) \/ \E miss \in BOOLEAN : Continues(v, dir, miss)
    BY <1>3, VerifyCases
  <2>2. Stalled(v, dir)
    BY <1>3, <2>1 DEF Closes, Continues, Verify, OpenUntilEnd
  <2>3. EndKnown(hist, tally) /\ LastAre(hist, streak.dead, Dead) /\ LastAre(hist, streak.flat, Flat)
    BY <1>3 DEF Verify, CountersTrue, Running
  <2>4. /\ LastAre(hist', Idled(v, dir), Idle)
        /\ LastAre(hist', Streaked(v, dir).dead, Dead)
        /\ LastAre(hist', Streaked(v, dir).flat, Flat)
    BY <2>1, <2>3, CountersAfter
  <2>5. /\ {IdleLimit, DeadLimit, FlatLimit} \subseteq Nat /\ Len(hist') \in Nat /\ Yields' = Yields
        /\ Idled(v, dir) \in Nat /\ Streaked(v, dir).dead \in Nat /\ Streaked(v, dir).flat \in Nat
    <3>1. v \in Verdict /\ tally.idle \in Nat /\ Yields' = Yields
      BY <1>3, VerdictFacts, ConvergenceAssumption DEF Verify, TypeOK, Tallies, Yields
    <3>2. Idled(v, dir) \in Nat
      BY <3>1, TurnShapes
    <3>3. Streaked(v, dir).dead \in Nat /\ Streaked(v, dir).flat \in Nat
      BY <3>1, TurnShapes
    <3> QED
      BY <2>1, <3>1, <3>2, <3>3, KeptFacts, ConvergenceAssumption
  <2>6. CASE Streaked(v, dir).dead >= DeadLimit
    BY <2>4, <2>5, <2>6 DEF LastAre, StallJustified
  <2>7. CASE Idled(v, dir) >= IdleLimit
    BY <2>4, <2>5, <2>7 DEF LastAre, StallJustified
  <2>8. CASE Yields /\ Streaked(v, dir).flat >= FlatLimit
    BY <2>4, <2>5, <2>8 DEF LastAre, StallJustified
  <2> QED
    BY <2>2, <2>6, <2>7, <2>8 DEF Stalled
<1> QED
  BY <1>1, <1>2, <1>3 DEF Next

LEMMA StopStep == TypeOK /\ CountersTrue /\ [Next]_vars => (at' = "work" => ~LastAre(hist, IdleLimit, Spinning))
<1> SUFFICES ASSUME TypeOK, CountersTrue, [Next]_vars, at' = "work" PROVE ~LastAre(hist, IdleLimit, Spinning)
  OBVIOUS
<1>1. at # "ended"
  BY VerifyCases DEF Next, Launch, Retry, Crash, Baseline, Poll, Work, Verify, End, vars, Closes, Continues
<1>2. SpinKnown(hist, tally)
  BY <1>1 DEF CountersTrue, EndKnown
<1>3. tally.idle \in 0..(IdleLimit - 1) /\ IdleLimit \in Nat
  BY ConvergenceAssumption DEF TypeOK, Tallies
<1> QED
  BY <1>2, <1>3 DEF SpinKnown

-----------------------------------------------------------------------------
(* The churn breaker.                                                       *)

\* The count stays that of the last refusals heard.
LEMMA HeardGrows ==
    ASSUME TypeOK, LastAre(heard, streak.flips, Refused), NEW v \in Verdict, CountsWell(v),
           heard' = Hears(v)
    PROVE  LastAre(heard', v.flips, Refused)
<1>1. heard \in Seq(Sayings) /\ streak.flips \in Nat /\ v.said \in Sayings
  BY DEF TypeOK, Verdict
<1>2. heard' \in Seq(Sayings) /\ Len(heard') \in Nat
  BY <1>1 DEF Hears
<1>3. CASE v.flips = 0
  BY <1>2, <1>3 DEF LastAre
<1>4. CASE v.flips = streak.flips /\ Hears(v) = heard
  BY <1>4
<1>5. CASE v.flips = streak.flips + 1 /\ v.said = "unmet" /\ ~mode.primary
  <2>1. heard' = Append(heard, "unmet")
    BY <1>5 DEF Hears
  <2>2. /\ Len(heard) \in Nat /\ Len(heard') = Len(heard) + 1 /\ heard'[Len(heard) + 1] = "unmet"
        /\ \A i \in 1..Len(heard) : heard'[i] = heard[i]
    BY <1>1, <2>1
  <2>3. /\ Len(heard) >= streak.flips
        /\ \A i \in (Len(heard) - streak.flips + 1)..Len(heard) : heard[i] = "unmet"
    BY DEF LastAre, Refused
  <2>4. /\ Len(heard') >= v.flips
        /\ \A i \in (Len(heard') - v.flips + 1)..Len(heard') : heard'[i] = "unmet"
    BY <1>1, <1>5, <2>2, <2>3
  <2> QED
    BY <2>4 DEF LastAre, Refused
<1> QED
  BY <1>3, <1>4, <1>5 DEF CountsWell

LEMMA FlipsStep == TypeOK /\ FlipsHeard /\ [Next]_vars => FlipsHeard'
<1> SUFFICES ASSUME TypeOK, FlipsHeard, [Next]_vars, at' # "down" PROVE LastAre(heard', streak'.flips, Refused)
  BY DEF FlipsHeard
<1>1. CASE Launch
  BY <1>1 DEF Launch, NoStreak, LastAre
<1>2. CASE Retry
  <2>1. heard' = heard /\ streak'.flips = streak.flips /\ at # "down"
    BY <1>2 DEF Retry, Inherited, NoStreak
  <2> QED
    BY <2>1 DEF FlipsHeard
<1>3. CASE Crash
  BY <1>3 DEF Crash
<1>4. CASE Baseline
  <2>1. PICK green \in BOOLEAN, ans \in Answers :
          /\ streak' = [streak EXCEPT !.flips = Judged(green, ans, TRUE).flips]
          /\ heard' = Hears(Judged(green, ans, TRUE))
    BY <1>4, Zenon DEF Baseline
  <2>2. /\ Judged(green, ans, TRUE) \in Verdict /\ CountsWell(Judged(green, ans, TRUE))
        /\ LastAre(heard, streak.flips, Refused)
    BY <1>4, JudgedFacts DEF Baseline, FlipsHeard
  <2>3. streak'.flips = Judged(green, ans, TRUE).flips
    BY <2>1 DEF TypeOK
  <2> QED
    BY <2>1, <2>2, <2>3, HeardGrows
<1>5. CASE Poll \/ Work \/ UNCHANGED vars
  BY <1>5 DEF Poll, Work, vars, FlipsHeard
<1>6. CASE Verify
  <2>1. PICK v \in Verdicts, dir \in {"none", "critic", "switch", "raise", "stop"} :
              streak' = Streaked(v, dir) /\ heard' = Hears(v)
    BY <1>6, VerifyCases
  <2>2. streak'.flips = v.flips /\ LastAre(heard, streak.flips, Refused)
    BY <1>6, <2>1 DEF Streaked, Verify, FlipsHeard
  <2> QED
    BY <2>1, <2>2, VerdictFacts, HeardGrows
<1> QED
  BY <1>1, <1>2, <1>3, <1>4, <1>5, <1>6 DEF Next

LEMMA OverrideStep ==
    TypeOK /\ OpenUntilEnd /\ WritesSeen /\ FlipsHeard /\ OverrideEarned /\ [Next]_vars => OverrideEarned'
<1> SUFFICES ASSUME TypeOK, OpenUntilEnd, WritesSeen, FlipsHeard, OverrideEarned, [Next]_vars,
                    result' = "delivered", hist'[Len(hist')].said = "unmet"
             PROVE  LastAre(heard', FlipLimit, Refused) /\ changed'
  BY DEF OverrideEarned
<1>1. CASE UNCHANGED vars
  BY <1>1 DEF vars, OverrideEarned
<1>2. CASE Launch \/ Retry \/ Crash \/ Baseline \/ Poll \/ Work
  BY <1>2 DEF Launch, Retry, Crash, Baseline, Poll, Work, End, OpenUntilEnd, Running
<1>3. CASE Verify
  <2>1. PICK v \in Verdicts, dir \in {"none", "critic", "switch", "raise", "stop"} :
              /\ hist' = Kept(v, dir) /\ streak' = Streaked(v, dir) /\ heard' = Hears(v)
              /\ Closes(v, dir) \/ \E miss \in BOOLEAN : Continues(v, dir, miss)
    BY <1>3, VerifyCases
  <2>2. v.passed /\ UNCHANGED changed
    BY <1>3, <2>1 DEF Closes, Continues, Verify, OpenUntilEnd
  <2>3. v.said = "unmet"
    <3>1. Record(v, dir).said = v.said
      BY DEF Record
    <3> QED
      BY <2>1, <3>1, KeptFacts
  <2>4. streak.writes /\ v.flips >= FlipLimit /\ v.flips \in Nat
    BY <2>2, <2>3, VerdictFacts DEF OverrulesWell, Verdict
  <2>5. LastAre(heard', v.flips, Refused)
    BY <1>3, <2>1, VerdictFacts, HeardGrows DEF Verify, FlipsHeard
  <2>6. LastAre(heard', FlipLimit, Refused)
    <3>1. Len(heard') \in Nat /\ FlipLimit \in Nat
      BY ConvergenceTypeStep, ConvergenceAssumption DEF TypeOK
    <3> QED
      BY <2>4, <2>5, <3>1 DEF LastAre
  <2> QED
    BY <2>2, <2>4, <2>6 DEF WritesSeen
<1> QED
  BY <1>1, <1>2, <1>3 DEF Next

-----------------------------------------------------------------------------
(* The properties.                                                          *)

LEMMA OpenHolds == Spec => [](OpenUntilEnd /\ WritesSeen)
<1>1. Init => OpenUntilEnd /\ WritesSeen
  BY DEF Init, OpenUntilEnd, WritesSeen, NoTurn, NoStreak
<1> QED
  BY <1>1, OpenStep, WritesStep, ConvergenceTypeCorrect, PTL DEF Spec

\* The loop delivers, or finds nothing to do, without having changed the tree only
\* when it was resumed or has the work of earlier epics or attempts behind it: an unchanged tree makes
\* judgeAcceptance withhold acceptance.
THEOREM NoOpRefusedHolds == Spec => []NoOpRefused
<1>1. Init => NoOpRefused
  BY DEF Init, NoOpRefused
<1> QED
  BY <1>1, NoOpStep, OpenHolds, ConvergenceTypeCorrect, PTL DEF Spec

LEMMA RepairsHold == Spec => []Repairs
<1>1. Init => Repairs
  BY DEF Init, Repairs, RepairKnown, OneRepair, NoTally, NoCheckpoint
<1> QED
  BY <1>1, RepairsStep, ConvergenceTypeCorrect, PTL DEF Spec

\* Crashes and launches in any number take a run until delivered to no turn past
\* the ceiling and to no second repair of the gate script: the restored history
\* counts, and so does the repair the checkpoint remembers.
THEOREM ResumeBuysNothingHolds == Spec => []ResumeBuysNothing
<1>1. Init => WithinLimit
  BY ConvergenceAssumption DEF Init, WithinLimit, NoCheckpoint, Running
<1>2. WithinLimit /\ Repairs => ResumeBuysNothing
  BY DEF WithinLimit, Repairs, BudgetHolds, ResumeBuysNothing
<1> QED
  BY <1>1, <1>2, LimitStep, RepairsHold, ConvergenceTypeCorrect, PTL DEF Spec

\* Over a gate script that its repair turned into no gate nothing is delivered, on
\* the turn of the repair or on any later one: the guard asks for it as long as
\* the repair is known of.
THEOREM NoRiggedDeliveryHolds == ASSUME ScriptsAlone PROVE Spec => []NoRiggedDelivery
<1>1. Init => RiggedInRepair /\ Unscripted
  BY DEF Init, RiggedInRepair, NoRiggedDelivery, Running, Unscripted, NoTally
<1>2. RiggedInRepair => NoRiggedDelivery
  BY DEF RiggedInRepair
<1>3. TypeOK /\ Unscripted /\ [Next]_vars => Unscripted'
  BY UnscriptedStep
<1> QED
  BY <1>1, <1>2, <1>3, RiggedStep, RepairsHold, OpenHolds, ConvergenceTypeCorrect, PTL DEF Spec

LEMMA CountersHold == Spec => []CountersTrue
<1>1. Init => CountersTrue
  BY DEF Init, CountersTrue, EndKnown, BestKnown, IdleKnown, SpinKnown, LastAre, NoTally, NoCheckpoint, Running
<1> QED
  BY <1>1, CountersStep, OpenHolds, ConvergenceTypeCorrect, PTL DEF Spec

\* A run the breakers give up as stuck has the turns on record that justify it,
\* those of earlier processes included.
THEOREM StallJustifiedHolds == Spec => []StallJustified
<1>1. Init => StallJustified
  BY DEF Init, StallJustified
<1> QED
  BY <1>1, StallStep, CountersHold, OpenHolds, ConvergenceTypeCorrect, PTL DEF Spec

\* After IdleLimit turns that brought nothing there is no further one, whatever
\* interruption lies between them.
THEOREM StallStopsHolds == Spec => StallStops
  BY StopStep, CountersHold, ConvergenceTypeCorrect, PTL DEF Spec, StallStops

\* The gates overrule the judge only when it refused a green tree the last FlipLimit
\* times this process heard it, in this attempt or earlier ones, and after a write
\* of this attempt.
THEOREM OverrideEarnedHolds == Spec => []OverrideEarned
<1>1. Init => FlipsHeard /\ OverrideEarned
  BY DEF Init, FlipsHeard, OverrideEarned
<1>2. Spec => []FlipsHeard
  BY <1>1, FlipsStep, ConvergenceTypeCorrect, PTL DEF Spec
<1> QED
  BY <1>1, <1>2, OverrideStep, OpenHolds, ConvergenceTypeCorrect, PTL DEF Spec
================================================================================
