--------------------------------- MODULE Epics ---------------------------------
(***************************************************************************)
(* An epic mission (delivery/epic-controller.ts, epic-mission.ts) and the  *)
(* run around it (cli/deliver.ts, delivery/run-state.ts): epics run one    *)
(* after the other in dependency order, each as up to MaxAttempts fresh    *)
(* convergence loops; one that cannot land is split and its pieces are run *)
(* by the same controller one level deeper; accepted epics are persisted   *)
(* for a later process.  Operators ask the run to stop through two files,  *)
(* and a wall-clock budget does so through the same latch.                 *)
(*                                                                         *)
(* The recursion of runEpics is the stack `frames`, its innermost call     *)
(* last.  An epic is named by its path: <<e>>, its pieces <<e, 1>>, ...    *)
(* `at` is the await the process is in.  A convergence loop is taken as    *)
(* turns that end with some verdict; Convergence models what is inside.    *)
(***************************************************************************)
EXTENDS PhaseGraph

CONSTANTS Plans,        \* the plans planEpics may answer with: [id, deps] in planner order
          MaxAttempts,  \* maxAttemptsPerEpic
          SplitDepth,   \* levels of splitting
          MaxPieces,    \* bound: pieces of a split
          MaxTurns,     \* bound: turns of a loop
          MaxLaunches,  \* bound: processes of the mission
          MaxAsks,      \* bound: stops asked for
          Budget        \* whether the wall-clock budget may expire

\* What a plan is made of.
Names == UNION {IdsOf(q) : q \in Plans}
Items == [id : Names, deps : SUBSET Names]

ASSUME EpicsAssumption ==
    /\ {MaxAttempts, MaxTurns, MaxLaunches} \subseteq Nat \ {0}
    /\ {SplitDepth, MaxAsks} \subseteq Nat /\ MaxPieces \in Nat \ {0, 1}
    /\ Budget \in BOOLEAN
    /\ Plans \subseteq Seq(Items)

VARIABLES disk,     \* the run's state file: plan, completed epics, status
          stop,     \* the stop files: of the project ("none", "old", "live") and of the run
          at,       \* "down", "ended", or the await the process is in
          latched,  \* the stop latch
          expired,  \* the budget is used up
          done,     \* epics this process counts as accepted
          frames,   \* the calls of runEpics
          loop,     \* the running convergence loop: turns taken, tree changed
          flags,    \* UAP_EPIC_PRIOR_CHANGES and not UAP_EPIC_NONFINAL
          success,  \* what runEpics returned
          landed,   \* epics whose own loop was accepted in this process; <<>> stands for pieces
          launches, asks

process == <<at, latched, done, frames, loop, flags, success, landed>>
vars == <<disk, stop, process, expired, launches, asks>>

NoPlan == <<>>
NoLoop == [turns |-> 0, wrote |-> FALSE]
Alive == at \notin {"down", "ended"}
Top == frames[Len(frames)]
Item(f) == IF f.path = <<>> THEN <<disk.plan[f.i].id>> ELSE Append(f.path, f.i)
Frame(path, n, prior, nonfinal) ==
    [path |-> path, n |-> n, i |-> 1, tries |-> 0, changed |-> FALSE, prior |-> prior,
     nonfinal |-> nonfinal, accepted |-> FALSE, last |-> FALSE, failed |-> FALSE]

-----------------------------------------------------------------------------
(* Stops.                                                                   *)

\* shouldStop, through the latch: the budget, the run's file, and the
\* project's file, which the first look removes.
Seen_Unlatched == expired \/ stop.run \/ stop.project # "none"
Seen == latched \/ expired \/ stop.run \/ stop.project # "none"
Poll ==
    /\ latched' = Seen
    /\ stop' = IF latched \/ expired \/ stop.run THEN stop
               ELSE [stop EXCEPT !.project = "none"]

\* touch .uap/deliver-runs/STOP.
AskProject ==
    /\ asks < MaxAsks /\ asks' = asks + 1
    /\ stop' = [stop EXCEPT !.project = "live"]
    /\ UNCHANGED <<disk, process, expired, launches>>

\* Cancel in the dashboard; a run whose process is gone is marked interrupted.
AskRun ==
    /\ asks < MaxAsks /\ asks' = asks + 1 /\ disk.status = "running"
    /\ stop' = [stop EXCEPT !.run = TRUE]
    /\ disk' = IF at = "down" THEN [disk EXCEPT !.status = "interrupted"] ELSE disk
    /\ UNCHANGED <<process, expired, launches>>

Expire ==
    /\ Budget /\ Alive /\ at # "planning" /\ ~expired /\ expired' = TRUE
    /\ UNCHANGED <<disk, stop, process, launches, asks>>

-----------------------------------------------------------------------------
(* The process.                                                             *)

\* A process for the mission; what is in the project's file now predates it.
Launch ==
    /\ ~Alive /\ disk.status # "delivered" /\ launches < MaxLaunches
    /\ launches' = launches + 1 /\ at' = "planning"
    /\ stop' = IF stop.project = "live" THEN [stop EXCEPT !.project = "old"] ELSE stop
    /\ latched' = FALSE /\ expired' = FALSE /\ landed' = {}
    /\ UNCHANGED <<disk, done, frames, loop, flags, success, asks>>

\* clearStop and clearProjectStop, which keeps a file younger than the process.
Cleared_All(s) == [project |-> "none", run |-> FALSE]
Cleared(s) == [project |-> IF s.project = "old" THEN "none" ELSE s.project, run |-> FALSE]
Register ==
    /\ at = "planning" /\ at' = "plan"
    /\ stop' = Cleared(stop)
    /\ disk' = [disk EXCEPT !.status = "running"]
    /\ UNCHANGED <<latched, expired, done, frames, loop, flags, success, landed, launches, asks>>

\* A persisted plan and its accepted epics win over planning again.
Resumed_Afresh(plan, completed) == {}
Resumed(plan, completed) == completed
Plan ==
    /\ at = "plan" /\ at' = "boundary"
    /\ IF disk.plan = NoPlan
       THEN \E p \in Plans : disk' = [disk EXCEPT !.plan = TopoOrder(p)]
       ELSE UNCHANGED disk
    /\ done' = Resumed(disk.plan, disk.completed)
    /\ frames' = <<Frame(<<>>, Len(disk'.plan), FALSE, FALSE)>>
    /\ UNCHANGED <<stop, latched, expired, loop, flags, success, landed, launches, asks>>

\* The end of the run: finalRunStatus with a last look at the stop files.
FinalStatus_Reread(late) ==
    IF success THEN "delivered" ELSE IF late THEN "interrupted" ELSE "failed"
FinalStatus(late) ==
    IF success THEN "delivered" ELSE IF latched \/ late THEN "interrupted" ELSE "failed"
Finish ==
    /\ at = "finish" /\ at' = "ended"
    /\ disk' = [disk EXCEPT !.status = FinalStatus(stop.run \/ stop.project # "none")]
    /\ stop' = [project |-> IF stop.run THEN stop.project ELSE "none", run |-> FALSE]
    /\ UNCHANGED <<latched, expired, done, frames, loop, flags, success, landed, launches, asks>>

Crash ==
    /\ Alive /\ at' = "down"
    /\ frames' = <<>> /\ done' = {} /\ loop' = NoLoop /\ success' = FALSE
    /\ UNCHANGED <<disk, stop, latched, expired, flags, landed, launches, asks>>

-----------------------------------------------------------------------------
(* The controller.                                                          *)

\* The item of the last frame of fs ends; at the top an accepted one is
\* persisted.  `below` tells whether a piece of it was accepted.
Settle(fs, ok, below) ==
    LET f == fs[Len(fs)]
    IN  /\ frames' = [fs EXCEPT ![Len(fs)] =
                        [f EXCEPT !.i = @ + 1, !.tries = 0, !.changed = FALSE,
                                  !.accepted = @ \/ ok \/ below, !.last = ok, !.failed = @ \/ ~ok]]
        /\ at' = "boundary" /\ UNCHANGED success
        /\ IF ok /\ f.path = <<>>
           THEN /\ done' = done \cup {Item(f)}
                /\ disk' = [disk EXCEPT !.completed = done']
           ELSE UNCHANGED <<done, disk>>

\* runEpics returns.  A split epic counts as accepted if all its pieces are, or
\* the last outcome is.
Won(stopped) == ~Top.failed /\ ~stopped
Return(stopped) ==
    IF Len(frames) = 1
    THEN /\ at' = "finish" /\ success' = Won(stopped) /\ frames' = <<>>
         /\ UNCHANGED <<done, disk>>
    ELSE Settle(SubSeq(frames, 1, Len(frames) - 1), Won(stopped) \/ Top.last, Top.accepted)

FrameOver ==
    /\ at = "boundary" /\ Top.i > Top.n
    /\ Return(FALSE)
    /\ UNCHANGED <<stop, latched, expired, loop, flags, landed, launches, asks>>

\* The flags an attempt of f's item runs under.
Rail(f) == f.prior \/ f.accepted \/ f.changed
Final(f) == ~f.nonfinal /\ f.i = f.n

\* An epic boundary: a stop ends the controller; an accepted epic is skipped;
\* one whose dependency is not done fails; the others are attempted.
Boundary ==
    /\ at = "boundary" /\ Top.i <= Top.n
    /\ Poll
    /\ \/ /\ Seen /\ Return(TRUE) /\ UNCHANGED <<loop, flags>>
       \/ /\ ~Seen /\ Item(Top) \in done
          /\ frames' = [frames EXCEPT ![Len(frames)] =
                            [Top EXCEPT !.i = @ + 1, !.accepted = TRUE, !.last = TRUE]]
          /\ UNCHANGED <<at, loop, flags, success, done, disk>>
       \/ /\ ~Seen /\ Item(Top) \notin done
          /\ Top.path = <<>> /\ \E d \in disk.plan[Top.i].deps : <<d>> \notin done
          /\ Settle(frames, FALSE, FALSE) /\ UNCHANGED <<loop, flags>>
       \/ /\ ~Seen /\ Item(Top) \notin done
          /\ Top.path = <<>> => \A d \in disk.plan[Top.i].deps : <<d>> \in done
          /\ frames' = [frames EXCEPT ![Len(frames)].tries = 1]
          /\ flags' = [rail |-> Rail(Top), final |-> Final(Top)]
          /\ loop' = NoLoop /\ at' = "loop"
          /\ UNCHANGED <<success, done, disk>>
    /\ UNCHANGED <<expired, landed, launches, asks>>

\* An attempt that did not land: another one, else a split, else failure.
MaySplit == Len(frames) <= SplitDepth
Tried_Written(f, wrote) == f.tries + (IF wrote THEN 1 ELSE 0)
Tried(f, wrote) == f.tries + 1
Missed(wrote, reached) ==
    LET f == [Top EXCEPT !.changed = @ \/ wrote]
    IN  IF reached /\ f.tries < MaxAttempts
        THEN /\ frames' = [frames EXCEPT ![Len(frames)] = [f EXCEPT !.tries = Tried(f, wrote)]]
             /\ flags' = [flags EXCEPT !.rail = Rail(f)]
             /\ at' = "loop" /\ loop' = NoLoop
             /\ UNCHANGED <<success, done, disk>>
        ELSE IF MaySplit
        THEN /\ frames' = [frames EXCEPT ![Len(frames)] = f]
             /\ at' = "split" /\ loop' = NoLoop
             /\ UNCHANGED <<flags, success, done, disk>>
        ELSE Settle(frames, FALSE, FALSE) /\ loop' = NoLoop /\ UNCHANGED flags

\* The loop asks before each turn.
BeginTurn ==
    /\ at = "loop"
    /\ Poll
    /\ IF Seen THEN Missed(loop.wrote, TRUE)
       ELSE /\ at' = "turn" /\ loop' = [loop EXCEPT !.turns = @ + 1]
            /\ UNCHANGED <<frames, flags, success, done, disk>>
    /\ UNCHANGED <<expired, landed, launches, asks>>

\* A turn ends, and with it perhaps the loop: accepted (gates, judge and
\* contract lint), out of turns, or with the endpoint unreachable.
EndTurn ==
    /\ at = "turn"
    /\ \E wrote \in {loop.wrote, TRUE} :
          \/ /\ loop.turns < MaxTurns
             /\ at' = "loop" /\ loop' = [loop EXCEPT !.wrote = wrote]
             /\ UNCHANGED <<frames, flags, success, done, disk, landed>>
          \/ /\ landed' = landed \cup {IF Top.path = <<>> THEN Item(Top) ELSE <<>>}
             /\ Settle(frames, TRUE, FALSE) /\ loop' = NoLoop /\ UNCHANGED flags
          \/ /\ \E reached \in BOOLEAN : Missed(wrote, reached)
             /\ UNCHANGED landed
    /\ UNCHANGED <<stop, latched, expired, launches, asks>>

\* splitEpic declines, or its pieces run one level deeper, without
\* dependencies, inheriting what the rail and the final gates need to know.
Pieces_Forgetful(f, n) == Frame(Item(f), n, FALSE, ~Final(f))
Pieces(f, n) == Frame(Item(f), n, Rail(f), ~Final(f))
Split ==
    /\ at = "split"
    /\ \/ Settle(frames, FALSE, FALSE)
       \/ \E n \in 2..MaxPieces :
            /\ frames' = Append(frames, Pieces(Top, n))
            /\ at' = "boundary"
            /\ UNCHANGED <<success, done, disk>>
    /\ UNCHANGED <<stop, latched, expired, loop, flags, landed, launches, asks>>

Init ==
    /\ disk = [plan |-> NoPlan, completed |-> {}, status |-> "new"]
    /\ stop = [project |-> "none", run |-> FALSE]
    /\ at = "down" /\ latched = FALSE /\ expired = FALSE /\ done = {}
    /\ frames = <<>> /\ loop = NoLoop /\ flags = [rail |-> FALSE, final |-> FALSE]
    /\ success = FALSE /\ landed = {} /\ launches = 0 /\ asks = 0

Run == Register \/ Plan \/ FrameOver \/ Boundary \/ BeginTurn \/ EndTurn \/ Split \/ Finish
Next == Launch \/ Run \/ Crash \/ AskProject \/ AskRun \/ Expire

\* A live process goes on; turns and planner calls have timeouts of their own.
\* Nobody is obliged to launch, to stop or to crash.
Spec == Init /\ [][Next]_vars /\ WF_vars(Run)

-----------------------------------------------------------------------------
(* Properties.                                                              *)

Running == at \in {"loop", "turn"}

Paths == Seq(Names \cup Nat)
Calls == [path : Paths, n : Nat, i : Nat \ {0}, tries : Nat, changed : BOOLEAN, prior : BOOLEAN,
          nonfinal : BOOLEAN, accepted : BOOLEAN, last : BOOLEAN, failed : BOOLEAN]
Statuses == {"new", "running", "delivered", "failed", "interrupted"}
Accepted(plan) == {<<e>> : e \in IdsOf(plan)}

\* There is a stack of calls exactly while the controller is at work, no deeper
\* than splitting goes, none of them past its items or its attempts.
CallsOK ==
    /\ frames \in Seq(Calls) /\ Len(frames) <= SplitDepth + 1
    /\ \A k \in 1..Len(frames) : frames[k].i <= frames[k].n + 1 /\ frames[k].tries <= MaxAttempts
    /\ frames # <<>> <=> at \in {"boundary", "loop", "turn", "split"}
    /\ at \in {"loop", "turn", "split"} => Top.i <= Top.n
    /\ at = "split" => MaySplit

\* State keeps its type, and the recursion its depth.
TypeOK ==
    /\ CallsOK
    /\ disk \in [plan : Seq(Items), completed : SUBSET {<<e>> : e \in Names}, status : Statuses]
    /\ disk.completed \subseteq Accepted(disk.plan) /\ done \subseteq Accepted(disk.plan)
    /\ stop \in [project : {"none", "old", "live"}, run : BOOLEAN]
    /\ at \in {"down", "ended", "planning", "plan", "boundary", "loop", "turn", "split", "finish"}
    /\ loop \in [turns : Nat, wrote : BOOLEAN] /\ flags \in [rail : BOOLEAN, final : BOOLEAN]
    /\ {latched, expired, success} \subseteq BOOLEAN

\* No turn of a model starts once a process has seen a stop, in whatever
\* loop, attempt, piece or epic it is when it does.
StopSticks == [][latched /\ Alive => (at' = "turn" => at = "turn")]_vars

\* A project stop touched while a process lives is not thrown away unseen: the
\* run it was meant for sees it, or has ended.
StopsReachTheirRun ==
    [][Alive /\ stop.project = "live" /\ stop'.project = "none" => latched' \/ at' = "ended"]_vars

\* A run that stopped because it was asked to is left resumable: it never ends
\* as failed.
StoppedIsResumable == at = "ended" /\ latched => disk.status # "failed"

\* An epic accepted by an earlier process or by this one is not run again.
AcceptedNotRerun == Running => Item(frames[1]) \notin disk.completed

\* Whole-mission gates apply to exactly the loops of the very last piece.
FinalGatesAtEnd ==
    Running => (flags.final <=> \A k \in DOMAIN frames : frames[k].i = frames[k].n)

\* The anti-no-op rail stands down in a loop whose own epic, or an ancestor of
\* it, was attempted before and changed the tree, and in one that follows an
\* accepted loop of this process: their work is in its baseline.
RailStandsDown ==
    Running /\ (landed # {} \/ \E k \in DOMAIN frames : frames[k].changed) => flags.rail

\* Both flags say the right thing at every level of the recursion.
FlagsRight == FinalGatesAtEnd /\ RailStandsDown

\* A mission reported as delivered has every epic of its plan accepted.
DeliveredIsComplete ==
    disk.status = "delivered" => disk.completed = Accepted(disk.plan)

\* What was accepted is neither redone nor forgotten, across processes.
AcceptedKept == AcceptedNotRerun /\ DeliveredIsComplete

\* An epic is accepted for a loop of its own, or after a split of which every
\* piece has been tried.
AcceptedIsWhole ==
    [][\A e \in disk'.completed \ disk.completed :
          e \in landed' \/ (Len(frames) > 1 /\ Top.i > Top.n)]_vars

\* A process that does not die ends.
Ends == [](Alive => <>~Alive)
=============================================================================
