------------------------------ MODULE EpicsProofs ------------------------------
(***************************************************************************)
(* The safety properties of an epic mission, for every set of plans, every *)
(* number of attempts, depth of splitting, number of pieces, and any       *)
(* number of stops and processes.                                          *)
(***************************************************************************)
EXTENDS Epics, SequenceTheorems, TLAPS

-----------------------------------------------------------------------------
(* The inductive invariants.                                                *)

\* The stack fs starts with the call for the plan itself; the others run pieces,
\* each while the item of the call below it is under way.
Rooted(fs) ==
    /\ fs # <<>> => fs[1].path = <<>> /\ fs[1].n = Len(disk.plan)
    /\ \A k \in 2..Len(fs) : fs[k].path # <<>>
    /\ \A k \in 1..(Len(fs) - 1) : fs[k].i <= fs[k].n

\* A call is not the last of the mission when one below it is not at its last
\* item, and knows of earlier work when one below it does.
Inherits(fs) ==
    \A k \in 1..Len(fs) :
        /\ fs[k].nonfinal <=> \E j \in 1..(k - 1) : fs[j].i # fs[j].n
        /\ \A j \in 1..(k - 1) : Rail(fs[j]) => fs[k].prior
StackOK == Rooted(frames) /\ Inherits(frames)

\* The flags of the attempt under way are those of the innermost call.
FlagsOfTop == Running => flags.final = Final(Top) /\ flags.rail = Rail(Top)

\* Whatever landed in this process has left a mark in the calls under way.
LandedMarked ==
    /\ at \in {"planning", "plan"} => landed = {}
    /\ frames # <<>> /\ landed # {} => \E k \in 1..Len(frames) : frames[k].accepted

\* The controller and the state file agree on what is accepted, which what is
\* under way is not.
Base == <<disk.plan[frames[1].i].id>>
DoneOnDisk ==
    /\ frames # <<>> \/ at = "finish" => done = disk.completed
    /\ at \in {"loop", "turn", "split"} \/ Len(frames) > 1 => Base \notin done

\* Without a failure everything up to where the controller is has been accepted.
SoFar ==
    /\ frames # <<>> /\ ~frames[1].failed =>
          \A i \in 1..(frames[1].i - 1) : <<disk.plan[i].id>> \in done
    /\ at = "finish" /\ success => disk.completed = Accepted(disk.plan)
    /\ disk.status = "delivered" => at = "ended" /\ disk.completed = Accepted(disk.plan)

-----------------------------------------------------------------------------
(* Lists and stacks.                                                        *)

\* topoOrder reorders what it is given and drops dependencies: the plan it
\* returns has the items of the planner's answer.
LEMMA TopoShape ==
    ASSUME NEW ps \in Seq(Items)
    PROVE  TopoOrder(ps) \in Seq(Items)
<1>1. CASE Orders(ps) = {}
  BY <1>1 DEF TopoOrder
<1>2. CASE Orders(ps) # {}
  <2> DEFINE s == CHOOSE o \in Orders(ps) : TRUE
             t == [n \in DOMAIN ps |-> [ps[s[n]] EXCEPT !.deps = Inner(ps, s[n])]]
  <2>1. s \in Orders(ps)
    BY <1>2
  <2>2. s \in [DOMAIN ps -> DOMAIN ps]
    BY <2>1 DEF Orders
  <2>3. TopoOrder(ps) = t
    BY <1>2 DEF TopoOrder
  <2> HIDE DEF s
  <2>4. ASSUME NEW n \in DOMAIN ps PROVE t[n] \in Items
    <3>1. s[n] \in DOMAIN ps /\ ps[s[n]] \in Items
      BY <2>2
    <3>2. Inner(ps, s[n]) \subseteq Names
      BY <3>1 DEF Inner, Items
    <3> QED
      BY <3>1, <3>2 DEF Items
  <2>5. DOMAIN ps = 1..Len(ps) /\ Len(ps) \in Nat
    OBVIOUS
  <2>6. t \in [1..Len(ps) -> Items]
    BY <2>4, <2>5
  <2> HIDE DEF t
  <2>7. t \in Seq(Items)
    BY <2>5, <2>6
  <2> QED
    BY <2>3, <2>7
<1> QED
  BY <1>1, <1>2

\* A stack with another top, and what is below the top.
Topped(fs, g) == [fs EXCEPT ![Len(fs)] = g]
Below(fs) == SubSeq(fs, 1, Len(fs) - 1)

LEMMA SwapTop ==
    ASSUME NEW fs \in Seq(Calls), fs # <<>>, NEW g \in Calls
    PROVE  \A gs : gs = Topped(fs, g) =>
              /\ gs \in Seq(Calls) /\ gs # <<>> /\ Len(gs) = Len(fs) /\ Len(fs) \in Nat \ {0}
              /\ gs[Len(fs)] = g /\ \A k \in 1..(Len(fs) - 1) : gs[k] = fs[k]
<1> SUFFICES ASSUME NEW gs, gs = Topped(fs, g)
             PROVE  /\ gs \in Seq(Calls) /\ gs # <<>> /\ Len(gs) = Len(fs) /\ Len(fs) \in Nat \ {0}
                    /\ gs[Len(fs)] = g /\ \A k \in 1..(Len(fs) - 1) : gs[k] = fs[k]
  OBVIOUS
<1>1. Len(fs) \in Nat \ {0}
  BY EmptySeq
<1>2. Len(fs) \in 1..Len(fs)
  BY <1>1
<1>3. /\ gs \in Seq(Calls) /\ Len(gs) = Len(fs)
      /\ \A j \in 1..Len(fs) : gs[j] = IF j = Len(fs) THEN g ELSE fs[j]
  BY <1>2, ExceptSeq DEF Topped
<1>4. gs # <<>>
  BY <1>1, <1>3, EmptySeq
<1> QED
  BY <1>1, <1>3, <1>4

LEMMA PopTop ==
    ASSUME NEW fs \in Seq(Calls), Len(fs) > 1, NEW gs, gs = Below(fs)
    PROVE  /\ gs \in Seq(Calls) /\ gs # <<>> /\ Len(gs) = Len(fs) - 1 /\ Len(fs) \in Nat
           /\ \A k \in 1..(Len(fs) - 1) : gs[k] = fs[k]
<1>1. Len(fs) \in Nat /\ Len(fs) > 1 /\ \A i \in 1..(Len(fs) - 1) : fs[i] \in Calls
  BY LenProperties, ElementOfSeq
<1>2. /\ gs \in Seq(Calls) /\ Len(gs) = Len(fs) - 1
      /\ \A i \in 1..(Len(fs) - 1) : gs[i] = fs[i]
  BY <1>1, SubSeqProperties DEF Below
<1> QED
  BY <1>1, <1>2

LEMMA PushTop ==
    ASSUME NEW fs \in Seq(Calls), NEW g \in Calls, NEW gs, gs = Append(fs, g)
    PROVE  /\ gs \in Seq(Calls) /\ gs # <<>> /\ Len(gs) = Len(fs) + 1 /\ Len(fs) \in Nat
           /\ gs[Len(fs) + 1] = g /\ \A k \in 1..Len(fs) : gs[k] = fs[k]
  OBVIOUS

\* What a call keeps while its items come and go.
Alike(g, f) == g.path = f.path /\ g.n = f.n /\ g.prior = f.prior /\ g.nonfinal = f.nonfinal

LEMMA StackSwap ==
    ASSUME NEW fs \in Seq(Calls), fs # <<>>, Rooted(fs), Inherits(fs),
           NEW g \in Calls, Alike(g, fs[Len(fs)]), NEW gs, gs = Topped(fs, g)
    PROVE  Rooted(gs) /\ Inherits(gs)
<1>1. /\ gs \in Seq(Calls) /\ gs # <<>> /\ Len(gs) = Len(fs) /\ Len(fs) \in Nat \ {0}
      /\ gs[Len(fs)] = g /\ \A k \in 1..(Len(fs) - 1) : gs[k] = fs[k]
  <2>1. \A hs : hs = Topped(fs, g) =>
              /\ hs \in Seq(Calls) /\ hs # <<>> /\ Len(hs) = Len(fs) /\ Len(fs) \in Nat \ {0}
              /\ hs[Len(fs)] = g /\ \A k \in 1..(Len(fs) - 1) : hs[k] = fs[k]
    BY SwapTop, Zenon
  <2> QED
    BY <2>1, Zenon
<1>2. \A k \in 1..Len(fs) : Alike(gs[k], fs[k])
  BY <1>1 DEF Alike
<1> HIDE DEF Alike
<1>5. \A k \in 1..Len(fs) : /\ gs[k].path = fs[k].path /\ gs[k].n = fs[k].n
                           /\ gs[k].prior = fs[k].prior /\ gs[k].nonfinal = fs[k].nonfinal
  BY <1>2 DEF Alike
<1>3. Rooted(gs)
  <2>1. gs[1].path = <<>> /\ gs[1].n = Len(disk.plan)
    BY <1>1, <1>5 DEF Rooted
  <2>2. \A k \in 2..Len(fs) : gs[k].path # <<>>
    BY <1>1, <1>5 DEF Rooted
  <2>3. \A k \in 1..(Len(fs) - 1) : gs[k].i <= gs[k].n
    BY <1>1 DEF Rooted
  <2> QED
    BY <1>1, <2>1, <2>2, <2>3 DEF Rooted
<1>4. Inherits(gs)
  <2> SUFFICES ASSUME NEW k \in 1..Len(fs)
               PROVE  /\ gs[k].nonfinal <=> \E j \in 1..(k - 1) : gs[j].i # gs[j].n
                      /\ \A j \in 1..(k - 1) : Rail(gs[j]) => gs[k].prior
    BY <1>1 DEF Inherits
  <2>1. \A j \in 1..(k - 1) : j \in 1..(Len(fs) - 1) /\ gs[j] = fs[j]
    BY <1>1
  <2>2. /\ fs[k].nonfinal <=> \E j \in 1..(k - 1) : fs[j].i # fs[j].n
        /\ \A j \in 1..(k - 1) : Rail(fs[j]) => fs[k].prior
    BY DEF Inherits
  <2> QED
    BY <1>5, <2>1, <2>2
<1> QED
  BY <1>3, <1>4

LEMMA StackPop ==
    ASSUME NEW fs \in Seq(Calls), Len(fs) > 1, Rooted(fs), Inherits(fs),
           NEW gs, gs = Below(fs)
    PROVE  Rooted(gs) /\ Inherits(gs) /\ gs[Len(gs)].i <= gs[Len(gs)].n
<1>1. /\ gs \in Seq(Calls) /\ gs # <<>> /\ Len(gs) = Len(fs) - 1 /\ Len(fs) \in Nat
      /\ \A k \in 1..(Len(fs) - 1) : gs[k] = fs[k]
  BY PopTop
<1>2. Rooted(gs) /\ gs[Len(gs)].i <= gs[Len(gs)].n
  BY <1>1 DEF Rooted
<1>3. Inherits(gs)
  <2> SUFFICES ASSUME NEW k \in 1..(Len(fs) - 1)
               PROVE  /\ gs[k].nonfinal <=> \E j \in 1..(k - 1) : gs[j].i # gs[j].n
                      /\ \A j \in 1..(k - 1) : Rail(gs[j]) => gs[k].prior
    BY <1>1 DEF Inherits
  <2>1. \A j \in 1..(k - 1) : j \in 1..(Len(fs) - 1) /\ gs[j] = fs[j]
    BY <1>1
  <2>2. /\ fs[k].nonfinal <=> \E j \in 1..(k - 1) : fs[j].i # fs[j].n
        /\ \A j \in 1..(k - 1) : Rail(fs[j]) => fs[k].prior
    BY <1>1 DEF Inherits
  <2>3. gs[k] = fs[k]
    BY <1>1
  <2> QED
    BY <2>1, <2>2, <2>3
<1> QED
  BY <1>2, <1>3

\* splitEpic gives its pieces what the rail and the final gates need to know.
LEMMA StackPush ==
    ASSUME NEW fs \in Seq(Calls), fs # <<>>, Rooted(fs), Inherits(fs), fs[Len(fs)].i <= fs[Len(fs)].n,
           NEW g \in Calls, g.path # <<>>, g.prior = Rail(fs[Len(fs)]), g.nonfinal = ~Final(fs[Len(fs)]),
           NEW gs, gs = Append(fs, g)
    PROVE  Rooted(gs) /\ Inherits(gs)
<1>1. /\ gs \in Seq(Calls) /\ gs # <<>> /\ Len(gs) = Len(fs) + 1 /\ Len(fs) \in Nat \ {0}
      /\ gs[Len(fs) + 1] = g /\ \A k \in 1..Len(fs) : gs[k] = fs[k]
  BY PushTop
<1>2. Rooted(gs)
  BY <1>1 DEF Rooted
<1>3. Inherits(gs)
  <2>1. ASSUME NEW k \in 1..Len(fs)
        PROVE  /\ gs[k].nonfinal <=> \E j \in 1..(k - 1) : gs[j].i # gs[j].n
               /\ \A j \in 1..(k - 1) : Rail(gs[j]) => gs[k].prior
    BY <1>1, <2>1 DEF Inherits
  <2> DEFINE m == Len(fs)
  <2>2. g.nonfinal <=> \E j \in 1..m : fs[j].i # fs[j].n
    <3>1. m \in 1..Len(fs) /\ m \in Nat \ {0}
      BY <1>1
    <3>2. fs[m].nonfinal <=> \E j \in 1..(m - 1) : fs[j].i # fs[j].n
      BY <3>1 DEF Inherits
    <3>6. fs[m] \in Calls
      BY <3>1, ElementOfSeq
    <3>3. fs[m].nonfinal \in BOOLEAN
      BY <3>6 DEF Calls
    <3>4. g.nonfinal <=> fs[m].nonfinal \/ fs[m].i # fs[m].n
      BY <3>3 DEF Final
    <3> HIDE DEF m
    <3>5. 1..m = (1..(m - 1)) \cup {m}
      BY <3>1
    <3> QED
      BY <3>2, <3>4, <3>5
  <2>3. \A j \in 1..m : Rail(fs[j]) => g.prior
    <3>1. m \in 1..Len(fs) /\ m \in Nat \ {0}
      BY <1>1
    <3>2. \A j \in 1..(m - 1) : Rail(fs[j]) => fs[m].prior
      BY <3>1 DEF Inherits
    <3>3. fs[m].prior => g.prior
      BY DEF Rail
    <3>4. Rail(fs[m]) => g.prior
      OBVIOUS
    <3> HIDE DEF m
    <3>5. 1..m = (1..(m - 1)) \cup {m}
      BY <3>1
    <3> QED
      BY <3>2, <3>3, <3>4, <3>5
  <2> QED
    BY <1>1, <2>1, <2>2, <2>3 DEF Inherits
<1> QED
  BY <1>2, <1>3
-----------------------------------------------------------------------------
(* What a step does to the stack.                                           *)

\* A call after the end of one of its items.
Ended(f, ok, below) ==
    [f EXCEPT !.i = @ + 1, !.tries = 0, !.changed = FALSE,
              !.accepted = @ \/ ok \/ below, !.last = ok, !.failed = @ \/ ~ok]
Kept == disk'.plan = disk.plan /\ disk'.completed = disk.completed /\ done' = done
Busy == at \in {"loop", "turn", "split"}
Called == at \in {"boundary", "loop", "turn", "split"}

\* Nothing happens to the stack or to what is accepted.
Rests ==
    /\ Kept /\ frames' = frames /\ flags' = flags
    /\ Running' => Running
    /\ Busy' => Busy
    /\ Called' <=> Called
    /\ at' = "split" => at = "split"
    /\ at' = "finish" => at = "finish" /\ success' = success
    /\ at' \in {"planning", "plan"} => at \in {"planning", "plan"} \/ landed' = {}
    /\ landed' \in {landed, {}}

\* The outermost call returns.
Overs ==
    /\ frames' = <<>> /\ at' = "finish" /\ Kept /\ Len(frames) = 1
    /\ success' => Top.i > Top.n /\ ~Top.failed

\* An item ends, that of the innermost call or, with this call, that below.
Settles(fs, ok, below) ==
    /\ Settle(fs, ok, below) /\ fs \in Seq(Calls) /\ fs # <<>> /\ fs[Len(fs)].i <= fs[Len(fs)].n
    /\ \/ fs = frames
       \/ Len(frames) > 1 /\ fs = Below(frames) /\ (Top.accepted => below)
    /\ landed' = landed \/ ok

Skips ==
    /\ at = "boundary" /\ at' = "boundary" /\ Kept /\ landed' = landed /\ success' = success
    /\ frames' = Topped(frames, [Top EXCEPT !.i = @ + 1, !.accepted = TRUE, !.last = TRUE])
    /\ Item(Top) \in done /\ Top.i <= Top.n
Begins ==
    /\ at = "boundary" /\ at' = "loop" /\ Kept /\ landed' = landed
    /\ frames' = Topped(frames, [Top EXCEPT !.tries = 1])
    /\ flags' = [rail |-> Rail(Top), final |-> Final(Top)]
    /\ Item(Top) \notin done /\ Top.i <= Top.n
Written(wrote) == [Top EXCEPT !.changed = @ \/ wrote]
Retries(wrote) ==
    /\ Running /\ at' = "loop" /\ Kept /\ landed' = landed
    /\ Top.tries < MaxAttempts
    /\ frames' = Topped(frames, [Written(wrote) EXCEPT !.tries = @ + 1])
    /\ flags' = [flags EXCEPT !.rail = Rail(Written(wrote))]
Falters(wrote) ==
    /\ Running /\ at' = "split" /\ Kept /\ landed' = landed /\ MaySplit
    /\ frames' = Topped(frames, Written(wrote))
Pushes(n) ==
    /\ at = "split" /\ at' = "boundary" /\ Kept /\ landed' = landed
    /\ frames' = Append(frames, Pieces(Top, n))

\* Nothing else ever happens to them.
Moved ==
    \/ Rests \/ Plan \/ Overs \/ Skips \/ Begins \/ Crash
    \/ \E fs \in {frames, Below(frames)}, ok, below \in BOOLEAN : Settles(fs, ok, below)
    \/ \E wrote \in BOOLEAN : Retries(wrote) \/ Falters(wrote)
    \/ \E n \in 2..MaxPieces : Pushes(n)

LEMMA MissedMoves ==
    ASSUME TypeOK, Running, NEW wrote \in BOOLEAN, NEW reached \in BOOLEAN, Missed(wrote, reached), landed' = landed
    PROVE  Settles(frames, FALSE, FALSE) \/ Retries(wrote) \/ Falters(wrote)
<1> DEFINE f == Written(wrote)
<1>1. frames \in Seq(Calls) /\ frames # <<>> /\ Top.i <= Top.n
  BY DEF TypeOK, CallsOK, Running
<1>2. Top \in Calls
  <2>1. Len(frames) \in Nat \ {0}
    BY <1>1, EmptySeq
  <2>2. Len(frames) \in 1..Len(frames)
    BY <2>1
  <2> QED
    BY <1>1, <2>2, ElementOfSeq DEF Top
<1>3. f \in Calls /\ f.tries = Top.tries
  BY <1>2 DEF Written, Calls
<1>4. CASE reached /\ f.tries < MaxAttempts
  <2>1. /\ frames' = [frames EXCEPT ![Len(frames)] = [f EXCEPT !.tries = Tried(f, wrote)]]
        /\ flags' = [flags EXCEPT !.rail = Rail(f)]
        /\ at' = "loop" /\ UNCHANGED <<success, done, disk>>
    BY <1>4 DEF Missed, Written
  <2>2. [f EXCEPT !.tries = Tried(f, wrote)] = [f EXCEPT !.tries = @ + 1]
    BY DEF Tried
  <2> HIDE DEF f
  <2>3. Retries(wrote)
    BY <1>3, <1>4, <2>1, <2>2 DEF Retries, Topped, Kept, f
  <2> QED
    BY <2>3
<1>5. CASE ~(reached /\ f.tries < MaxAttempts) /\ MaySplit
  <2>1. frames' = [frames EXCEPT ![Len(frames)] = f] /\ at' = "split" /\ UNCHANGED <<success, done, disk>>
    BY <1>5 DEF Missed, Written
  <2> QED
    BY <1>5, <2>1 DEF Falters, Topped, Kept
<1>6. CASE ~(reached /\ f.tries < MaxAttempts) /\ ~MaySplit
  <2>1. Settle(frames, FALSE, FALSE)
    BY <1>6 DEF Missed, Written
  <2> QED
    BY <1>1, <2>1 DEF Settles, Top
<1> QED
  BY <1>4, <1>5, <1>6

\* The innermost call, and the one below it.
LEMMA TopFacts ==
    ASSUME TypeOK, frames # <<>>
    PROVE  Len(frames) \in Nat \ {0} /\ Len(frames) \in 1..Len(frames) /\ Top \in Calls
<1>1. frames \in Seq(Calls)
  BY DEF TypeOK, CallsOK
<1>2. Len(frames) \in Nat \ {0}
  BY <1>1, EmptySeq
<1>3. Len(frames) \in 1..Len(frames)
  BY <1>2
<1> QED
  BY <1>1, <1>2, <1>3, ElementOfSeq DEF Top

LEMMA ReturnMoves ==
    ASSUME TypeOK, StackOK, at = "boundary", NEW stopped \in BOOLEAN, Return(stopped),
           landed' = landed, ~stopped => Top.i > Top.n
    PROVE  Overs \/ \E fs \in {frames, Below(frames)}, ok, below \in BOOLEAN : Settles(fs, ok, below)
<1>1. frames \in Seq(Calls) /\ frames # <<>> /\ Top \in Calls /\ Len(frames) \in Nat \ {0}
  BY TopFacts DEF TypeOK, CallsOK
<1>2. CASE Len(frames) = 1
  <2>1. /\ at' = "finish" /\ success' = Won(stopped) /\ frames' = <<>> /\ UNCHANGED <<done, disk>>
    BY <1>2 DEF Return
  <2>2. success' => Top.i > Top.n /\ ~Top.failed
    BY <2>1, ~stopped => Top.i > Top.n DEF Won
  <2>3. Kept
    BY <2>1 DEF Kept
  <2> QED
    BY <1>2, <2>1, <2>2, <2>3 DEF Overs
<1>3. CASE Len(frames) # 1
  <2>0. \A n \in Nat \ {0} : n # 1 => n > 1
    OBVIOUS
  <2>1. Len(frames) > 1
    BY <1>1, <1>3, <2>0, Zenon
  <2> DEFINE fs == Below(frames)
             ok == Won(stopped) \/ Top.last
             below == Top.accepted
  <2>2. fs \in Seq(Calls) /\ fs # <<>>
    BY <1>1, <2>1, PopTop, Zenon
  <2>3. fs[Len(fs)].i <= fs[Len(fs)].n
    BY <1>1, <2>1, StackPop, Zenon DEF StackOK
  <2>4. ok \in BOOLEAN /\ below \in BOOLEAN
    BY <1>1 DEF Won, Calls
  <2>5. Settle(fs, ok, below)
    BY <1>3 DEF Return, Below
  <2> HIDE DEF fs, ok
  <2>6. Settles(fs, ok, below)
    BY <2>1, <2>2, <2>3, <2>5, landed' = landed DEF Settles, fs
  <2> QED
    BY <2>4, <2>6 DEF fs
<1> QED
  BY <1>2, <1>3

LEMMA Moves ==
    ASSUME TypeOK, StackOK, Next
    PROVE  Moved
<1>0. loop.wrote \in BOOLEAN /\ frames \in Seq(Calls) /\ disk = [plan |-> disk.plan, completed |-> disk.completed, status |-> disk.status]
  BY DEF TypeOK, CallsOK
<1>1. CASE Launch \/ Register \/ Finish \/ AskProject \/ AskRun \/ Expire
  <2>1. disk'.plan = disk.plan /\ disk'.completed = disk.completed /\ done' = done
    BY <1>0, <1>1 DEF Launch, Register, Finish, AskProject, AskRun, Expire, process
  <2>2. /\ frames' = frames /\ flags' = flags /\ success' = success
        /\ landed' = landed \/ (at' = "planning" /\ landed' = {})
        /\ \/ at' = at \/ (at' = "ended" /\ at = "finish") \/ (at' = "plan" /\ at = "planning")
           \/ at' = "planning" /\ landed' = {} /\ at \in {"down", "ended"}
    BY <1>1 DEF Launch, Register, Finish, AskProject, AskRun, Expire, process, Alive
  <2>4. /\ Running' => Running
        /\ Busy' => Busy
        /\ Called' <=> Called
        /\ at' = "split" => at = "split"
        /\ at' = "finish" => at = "finish"
    BY <2>2 DEF Running, Busy, Called
  <2>6. at' \in {"planning", "plan"} => at' = at \/ at = "planning" \/ landed' = {}
    BY <2>2
  <2>5. /\ at' \in {"planning", "plan"} => at \in {"planning", "plan"} \/ landed' = {}
        /\ landed' \in {landed, {}}
    BY <2>2, <2>6, Zenon
  <2>3. Rests
    BY <2>1, <2>2, <2>4, <2>5, Zenon DEF Rests, Kept
  <2> QED
    BY <2>3 DEF Moved
<1>2. CASE Plan \/ Crash
  BY <1>2 DEF Moved
<1>3. CASE FrameOver
  BY <1>3, ReturnMoves DEF FrameOver, Moved
<1>4. CASE Boundary
  <2>0. frames # <<>> /\ landed' = landed /\ at = "boundary" /\ Top.i <= Top.n
    BY <1>4 DEF TypeOK, CallsOK, Boundary
  <2>1. CASE Seen /\ Return(TRUE)
    BY <2>0, <2>1, ReturnMoves DEF Moved
  <2>2. CASE /\ ~Seen /\ Item(Top) \in done
             /\ frames' = [frames EXCEPT ![Len(frames)] =
                            [Top EXCEPT !.i = @ + 1, !.accepted = TRUE, !.last = TRUE]]
             /\ UNCHANGED <<at, loop, flags, success, done, disk>>
    <3>1. frames' = Topped(frames, [Top EXCEPT !.i = @ + 1, !.accepted = TRUE, !.last = TRUE])
      BY <2>2 DEF Topped
    <3>2. Kept /\ success' = success /\ at' = "boundary"
      BY <2>0, <2>2 DEF Kept
    <3> QED
      BY <2>0, <2>2, <3>1, <3>2 DEF Skips, Moved
  <2>3. CASE Settle(frames, FALSE, FALSE)
    <3>1. Settles(frames, FALSE, FALSE)
      BY <1>0, <2>0, <2>3 DEF Settles, Top
    <3> QED
      BY <3>1 DEF Moved
  <2>4. CASE /\ ~Seen /\ Item(Top) \notin done
             /\ frames' = [frames EXCEPT ![Len(frames)].tries = 1]
             /\ flags' = [rail |-> Rail(Top), final |-> Final(Top)]
             /\ loop' = NoLoop /\ at' = "loop"
             /\ UNCHANGED <<success, done, disk>>
    <3>1. frames' = Topped(frames, [Top EXCEPT !.tries = 1])
      BY <2>4 DEF Topped, Top
    <3> QED
      BY <2>0, <2>4, <3>1 DEF Begins, Kept, Moved
  <2> QED
    BY <1>4, <2>1, <2>2, <2>3, <2>4 DEF Boundary
<1>5. CASE BeginTurn
  <2>1. CASE Seen
    BY <1>0, <1>5, <2>1, MissedMoves DEF BeginTurn, Running, Moved
  <2>2. CASE ~Seen
    <3>1. Rests
      BY <1>5, <2>2 DEF BeginTurn, Rests, Kept, Running, Busy, Called
    <3> QED
      BY <3>1 DEF Moved
  <2> QED
    BY <2>1, <2>2
<1>6. CASE EndTurn
  <2>0. at = "turn" /\ frames # <<>> /\ Top.i <= Top.n
    BY <1>6 DEF EndTurn, TypeOK, CallsOK
  <2>1. PICK wrote \in {loop.wrote, TRUE} :
          \/ /\ at' = "loop" /\ UNCHANGED <<frames, flags, success, done, disk, landed>>
          \/ Settle(frames, TRUE, FALSE)
          \/ /\ \E reached \in BOOLEAN : Missed(wrote, reached)
             /\ UNCHANGED landed
    BY <1>6 DEF EndTurn
  <2>2. wrote \in BOOLEAN
    BY <1>0
  <2>3. CASE at' = "loop" /\ UNCHANGED <<frames, flags, success, done, disk, landed>>
    <3>1. Rests
      BY <2>0, <2>3 DEF Rests, Kept, Running, Busy, Called
    <3> QED
      BY <3>1 DEF Moved
  <2>4. CASE Settle(frames, TRUE, FALSE)
    <3>1. Settles(frames, TRUE, FALSE)
      BY <1>0, <2>0, <2>4 DEF Settles, Top
    <3> QED
      BY <3>1 DEF Moved
  <2>5. CASE (\E reached \in BOOLEAN : Missed(wrote, reached)) /\ UNCHANGED landed
    BY <2>0, <2>2, <2>5, MissedMoves DEF Running, Moved
  <2> QED
    BY <2>1, <2>3, <2>4, <2>5
<1>7. CASE Split
  <2>0. at = "split" /\ frames # <<>> /\ Top.i <= Top.n /\ landed' = landed
    BY <1>7 DEF Split, TypeOK, CallsOK
  <2>1. CASE Settle(frames, FALSE, FALSE)
    <3>1. Settles(frames, FALSE, FALSE)
      BY <1>0, <2>0, <2>1 DEF Settles, Top
    <3> QED
      BY <3>1 DEF Moved
  <2>2. CASE \E n \in 2..MaxPieces :
                /\ frames' = Append(frames, Pieces(Top, n))
                /\ at' = "boundary" /\ UNCHANGED <<success, done, disk>>
    BY <2>0, <2>2 DEF Pushes, Kept, Moved
  <2> QED
    BY <1>7, <2>1, <2>2 DEF Split
<1> QED
  <2>1. Launch \/ Register \/ Finish \/ AskProject \/ AskRun \/ Expire \/ Plan \/ Crash
        \/ FrameOver \/ Boundary \/ BeginTurn \/ EndTurn \/ Split
    BY Zenon DEF Next, Run
  <2> QED
    BY <1>1, <1>2, <1>3, <1>4, <1>5, <1>6, <1>7, <2>1, Zenon

-----------------------------------------------------------------------------
(* Types, and the shape of the stack.                                       *)

LEMMA EndedFacts ==
    ASSUME NEW f \in Calls, NEW ok \in BOOLEAN, NEW below \in BOOLEAN, NEW g, g = Ended(f, ok, below)
    PROVE  /\ g \in Calls /\ Alike(g, f) /\ g.i = f.i + 1 /\ g.tries = 0 /\ g.changed = FALSE
           /\ (g.accepted <=> f.accepted \/ ok \/ below) /\ (g.failed <=> f.failed \/ ~ok)
<1> DEFINE acc == f.accepted \/ ok \/ below
           bad == f.failed \/ ~ok
           nxt == f.i + 1
<1>1. acc \in BOOLEAN /\ bad \in BOOLEAN /\ nxt \in Nat \ {0}
  BY DEF Calls
<1>2. g = [f EXCEPT !.i = nxt, !.tries = 0, !.changed = FALSE, !.accepted = acc, !.last = ok, !.failed = bad]
  BY DEF Ended
<1> HIDE DEF acc, bad, nxt
<1>6. g = [path |-> f.path, n |-> f.n, i |-> nxt, tries |-> 0, changed |-> FALSE, prior |-> f.prior,
            nonfinal |-> f.nonfinal, accepted |-> acc, last |-> ok, failed |-> bad]
  BY <1>2 DEF Calls
<1>7. f.path \in Paths /\ f.n \in Nat /\ f.prior \in BOOLEAN /\ f.nonfinal \in BOOLEAN
  BY DEF Calls
<1>3. g \in Calls
  BY <1>1, <1>6, <1>7 DEF Calls
<1>4. /\ g.path = f.path /\ g.n = f.n /\ g.prior = f.prior /\ g.nonfinal = f.nonfinal
      /\ g.i = nxt /\ g.tries = 0 /\ g.changed = FALSE /\ g.accepted = acc /\ g.failed = bad
  BY <1>2 DEF Calls
<1> USE DEF acc, bad, nxt
<1>5. g.i = f.i + 1 /\ (g.accepted <=> f.accepted \/ ok \/ below) /\ (g.failed <=> f.failed \/ ~ok)
  BY <1>4
<1> HIDE DEF acc, bad, nxt
<1> QED
  BY <1>3, <1>4, <1>5 DEF Alike

\* The stacks whose top a step changes, and what they are afterwards.
Current(fs) == fs = frames \/ (Len(frames) > 1 /\ fs = Below(frames))
Retopped(gs, fs, g) ==
    /\ gs \in Seq(Calls) /\ gs # <<>> /\ gs[Len(gs)] = g
    /\ Len(gs) = Len(fs) /\ Len(gs) \in Nat \ {0} /\ Len(gs) <= SplitDepth + 1
    /\ \A k \in 1..(Len(gs) - 1) : gs[k] = frames[k]
    /\ \A k \in 1..Len(gs) : gs[k].i <= gs[k].n + 1 /\ gs[k].tries <= MaxAttempts
    /\ Rooted(gs) /\ Inherits(gs)

LEMMA Retop ==
    ASSUME TypeOK, StackOK, frames # <<>>, NEW fs, Current(fs),
           NEW g \in Calls, Alike(g, fs[Len(fs)]), g.i <= g.n + 1, g.tries <= MaxAttempts,
           NEW gs, gs = Topped(fs, g)
    PROVE  Retopped(gs, fs, g)
<1>1. frames \in Seq(Calls) /\ Len(frames) \in Nat \ {0} /\ SplitDepth \in Nat
  BY TopFacts, EpicsAssumption DEF TypeOK, CallsOK
<1>2. /\ fs \in Seq(Calls) /\ fs # <<>> /\ Rooted(fs) /\ Inherits(fs)
      /\ Len(fs) \in Nat \ {0} /\ Len(fs) <= Len(frames)
      /\ \A k \in 1..(Len(fs) - 1) : k \in 1..Len(frames) /\ fs[k] = frames[k]
  <2>1. CASE fs = frames
    BY <1>1, <2>1 DEF StackOK
  <2>2. CASE Len(frames) > 1 /\ fs = Below(frames)
    <3>1. /\ fs \in Seq(Calls) /\ fs # <<>> /\ Len(fs) = Len(frames) - 1
          /\ \A k \in 1..(Len(frames) - 1) : fs[k] = frames[k]
      BY <1>1, <2>2, PopTop, Zenon
    <3>2. Rooted(fs) /\ Inherits(fs)
      BY <1>1, <2>2, StackPop, Zenon DEF StackOK
    <3> QED
      BY <1>1, <2>2, <3>1, <3>2
  <2> QED
    BY <2>1, <2>2 DEF Current
<1>3. /\ gs \in Seq(Calls) /\ gs # <<>> /\ Len(gs) = Len(fs)
      /\ gs[Len(fs)] = g /\ \A k \in 1..(Len(fs) - 1) : gs[k] = fs[k]
  <2>1. \A hs : hs = Topped(fs, g) =>
              /\ hs \in Seq(Calls) /\ hs # <<>> /\ Len(hs) = Len(fs) /\ Len(fs) \in Nat \ {0}
              /\ hs[Len(fs)] = g /\ \A k \in 1..(Len(fs) - 1) : hs[k] = fs[k]
    BY <1>2, SwapTop, Zenon
  <2> QED
    BY <2>1, Zenon
<1>4. Rooted(gs) /\ Inherits(gs)
  BY <1>2, StackSwap, Zenon
<1>5. \A k \in 1..(Len(gs) - 1) : gs[k] = frames[k]
  BY <1>2, <1>3
<1>6. \A k \in 1..Len(gs) : gs[k].i <= gs[k].n + 1 /\ gs[k].tries <= MaxAttempts
  <2>1. \A k \in 1..(Len(gs) - 1) : gs[k].i <= gs[k].n + 1 /\ gs[k].tries <= MaxAttempts
    BY <1>2, <1>3, <1>5 DEF TypeOK, CallsOK
  <2> QED
    BY <1>2, <1>3, <2>1
<1>7. Len(gs) <= SplitDepth + 1
  BY <1>1, <1>2, <1>3 DEF TypeOK, CallsOK
<1> QED
  BY <1>2, <1>3, <1>4, <1>5, <1>6, <1>7 DEF Retopped

\* The plan is what topoOrder made of an answer, or that of an earlier process.
LEMMA PlanShape ==
    ASSUME TypeOK, Plan
    PROVE  /\ disk'.plan \in Seq(Items) /\ disk'.completed = disk.completed /\ disk'.status = disk.status
           /\ disk' \in [plan : Seq(Items), completed : SUBSET {<<e>> : e \in Names}, status : Statuses]
           /\ disk'.plan = disk.plan \/ disk.plan = <<>>
<1>0. disk \in [plan : Seq(Items), completed : SUBSET {<<e>> : e \in Names}, status : Statuses]
  BY DEF TypeOK
<1>1. CASE disk.plan = NoPlan
  <2>1. PICK p \in Plans : disk' = [disk EXCEPT !.plan = TopoOrder(p)]
    BY <1>1 DEF Plan
  <2>2. p \in Seq(Items)
    BY EpicsAssumption
  <2>3. TopoOrder(p) \in Seq(Items)
    BY <2>2, TopoShape
  <2> QED
    BY <1>0, <1>1, <2>1, <2>3 DEF NoPlan
<1>2. CASE disk.plan # NoPlan
  BY <1>0, <1>2 DEF Plan
<1> QED
  BY <1>1, <1>2

\* What a step that keeps the depth of the stack makes of its top.
Swapped ==
    /\ frames # <<>> /\ Top \in Calls /\ Top.i <= Top.n /\ Kept
    /\ Retopped(frames', frames, Top') /\ Top' \in Calls /\ Alike(Top', Top)
    /\ Top'.failed = Top.failed /\ (Top.accepted => Top'.accepted)

LEMMA SettlesTop ==
    ASSUME TypeOK, StackOK, NEW fs \in {frames, Below(frames)}, NEW ok \in BOOLEAN, NEW below \in BOOLEAN,
           Settles(fs, ok, below)
    PROVE  /\ fs \in Seq(Calls) /\ fs # <<>> /\ Current(fs) /\ frames # <<>>
           /\ fs[Len(fs)] \in Calls /\ fs[Len(fs)].i <= fs[Len(fs)].n
           /\ at' = "boundary" /\ disk'.plan = disk.plan
           /\ Retopped(frames', fs, Top') /\ Top' \in Calls /\ Alike(Top', fs[Len(fs)])
           /\ Top'.i = fs[Len(fs)].i + 1 /\ Top'.i <= Top'.n + 1
           /\ Top'.accepted <=> (fs[Len(fs)].accepted \/ ok \/ below)
           /\ Top'.failed <=> (fs[Len(fs)].failed \/ ~ok)
<1> DEFINE f == fs[Len(fs)]
           g == Ended(f, ok, below)
<1>2. fs \in Seq(Calls) /\ fs # <<>> /\ f.i <= f.n /\ Current(fs)
  BY DEF Settles, Current
<1>3. f \in Calls /\ frames # <<>>
  <2>1. Len(fs) \in Nat \ {0}
    BY <1>2, EmptySeq
  <2>2. Len(fs) \in 1..Len(fs)
    BY <2>1
  <2>3. f \in Calls
    BY <1>2, <2>2, ElementOfSeq
  <2>4. CASE fs = frames
    BY <1>2, <2>3, <2>4
  <2>5. CASE Len(frames) > 1
    <3>1. Len(<<>>) = 0
      OBVIOUS
    <3> QED
      BY <2>3, <2>5, <3>1
  <2> QED
    BY <1>2, <2>4, <2>5 DEF Current
<1>4. frames' = Topped(fs, g) /\ at' = "boundary" /\ disk'.plan = disk.plan
  BY DEF Settles, Settle, Topped, Ended, TypeOK
<1> HIDE DEF f
<1>e. g = Ended(f, ok, below)
  OBVIOUS
<1> HIDE DEF g
<1>5. /\ g \in Calls /\ Alike(g, f) /\ g.i = f.i + 1 /\ g.tries = 0
      /\ (g.accepted <=> f.accepted \/ ok \/ below) /\ (g.failed <=> f.failed \/ ~ok)
  BY <1>3, <1>e, EndedFacts
<1>6. g.i <= g.n + 1 /\ g.tries <= MaxAttempts
  BY <1>2, <1>3, <1>5, EpicsAssumption DEF Alike, Calls
<1> USE DEF f
<1>7. Retopped(frames', fs, g)
  BY <1>2, <1>3, <1>4, <1>5, <1>6, Retop, Zenon
<1>8. Top' = g
  BY <1>7 DEF Retopped, Top
<1> QED
  BY <1>2, <1>3, <1>4, <1>5, <1>6, <1>7, <1>8

LEMMA Swap ==
    ASSUME TypeOK, StackOK, frames # <<>>, Top.i <= Top.n, Kept,
           NEW g \in Calls, Alike(g, Top), g.i \in {Top.i, Top.i + 1}, g.tries <= MaxAttempts,
           g.failed = Top.failed, Top.accepted => g.accepted, frames' = Topped(frames, g)
    PROVE  Swapped /\ Top' = g
<1>1. Top \in Calls /\ Top = frames[Len(frames)] /\ Current(frames)
  BY TopFacts, Zenon DEF Top, Current
<1>2. g.i <= g.n + 1
  BY <1>1 DEF Alike, Calls
<1>3. Retopped(frames', frames, g)
  BY <1>1, <1>2, Retop, Zenon
<1>4. Top' = g
  BY <1>3 DEF Retopped, Top
<1> QED
  BY <1>1, <1>3, <1>4 DEF Swapped

LEMMA SkipsTop ==
    ASSUME TypeOK, StackOK, Skips
    PROVE  Swapped /\ Top'.i = Top.i + 1 /\ Top'.accepted /\ at' = "boundary"
<1> DEFINE g == [Top EXCEPT !.i = @ + 1, !.accepted = TRUE, !.last = TRUE]
<1>1. frames # <<>> /\ Top.i <= Top.n /\ Kept /\ frames' = Topped(frames, g) /\ at' = "boundary"
  BY DEF Skips, TypeOK, CallsOK
<1>2. Top \in Calls
  BY <1>1, TopFacts
<1>3. Top.i + 1 \in Nat \ {0}
  BY <1>2 DEF Calls
<1>4. /\ g \in Calls /\ Alike(g, Top) /\ g.i = Top.i + 1 /\ g.tries = Top.tries
      /\ g.failed = Top.failed /\ g.accepted
  BY <1>2, <1>3 DEF Calls, Alike
<1>5. g.tries <= MaxAttempts
  BY <1>1, <1>4, TopFacts DEF TypeOK, CallsOK, Top
<1> HIDE DEF g
<1>6. g.i \in {Top.i, Top.i + 1} /\ (Top.accepted => g.accepted)
  BY <1>4
<1>7. Swapped /\ Top' = g
  BY <1>1, <1>4, <1>5, <1>6, Swap, Zenon
<1> QED
  BY <1>1, <1>4, <1>7

LEMMA BeginsTop ==
    ASSUME TypeOK, StackOK, Begins
    PROVE  /\ Swapped /\ Top'.i = Top.i /\ at' = "loop"
           /\ Rail(Top') = Rail(Top) /\ Final(Top') = Final(Top)
<1> DEFINE g == [Top EXCEPT !.tries = 1]
<1>1. frames # <<>> /\ Top.i <= Top.n /\ Kept /\ frames' = Topped(frames, g) /\ at' = "loop"
  BY DEF Begins, TypeOK, CallsOK
<1>2. Top \in Calls
  BY <1>1, TopFacts
<1>4. /\ g \in Calls /\ Alike(g, Top) /\ g.i = Top.i /\ g.tries = 1
      /\ g.failed = Top.failed /\ g.accepted = Top.accepted /\ g.changed = Top.changed
  BY <1>2 DEF Calls, Alike
<1>5. g.tries <= MaxAttempts
  BY <1>4, EpicsAssumption
<1> HIDE DEF g
<1>6. g.i \in {Top.i, Top.i + 1} /\ (Top.accepted => g.accepted)
  BY <1>4
<1>7. Swapped /\ Top' = g
  BY <1>1, <1>4, <1>5, <1>6, Swap, Zenon
<1> QED
  BY <1>1, <1>4, <1>7 DEF Alike, Rail, Final

LEMMA WrittenFacts ==
    ASSUME Top \in Calls, NEW wrote \in BOOLEAN
    PROVE  /\ Written(wrote) \in Calls /\ Alike(Written(wrote), Top)
           /\ Written(wrote).i = Top.i /\ Written(wrote).tries = Top.tries
           /\ Written(wrote).failed = Top.failed /\ Written(wrote).accepted = Top.accepted
  BY DEF Written, Calls, Alike

LEMMA RetriesTop ==
    ASSUME TypeOK, StackOK, NEW wrote \in BOOLEAN, Retries(wrote)
    PROVE  /\ Swapped /\ Top'.i = Top.i /\ at' = "loop"
           /\ Rail(Top') = Rail(Written(wrote)) /\ Final(Top') = Final(Top)
<1> DEFINE w == Written(wrote)
           g == [w EXCEPT !.tries = @ + 1]
<1>1. /\ frames # <<>> /\ Top.i <= Top.n /\ Kept /\ frames' = Topped(frames, g) /\ at' = "loop"
      /\ Top.tries < MaxAttempts
  BY DEF Retries, Running, TypeOK, CallsOK
<1>2. Top \in Calls
  BY <1>1, TopFacts
<1>3. /\ w \in Calls /\ Alike(w, Top) /\ w.i = Top.i /\ w.tries = Top.tries
      /\ w.failed = Top.failed /\ w.accepted = Top.accepted
  BY <1>2, WrittenFacts
<1> HIDE DEF w
<1>4. /\ g \in Calls /\ Alike(g, Top) /\ g.i = Top.i /\ g.tries = Top.tries + 1
      /\ g.failed = Top.failed /\ g.accepted = Top.accepted
  BY <1>3 DEF Calls, Alike
<1>8. Rail(g) = Rail(w) /\ Final(g) = Final(Top)
  BY <1>3, <1>4 DEF Rail, Final, Calls, Alike
<1>5. g.tries <= MaxAttempts
  BY <1>1, <1>2, <1>4, EpicsAssumption DEF Calls
<1> HIDE DEF g
<1>6. g.i \in {Top.i, Top.i + 1} /\ (Top.accepted => g.accepted)
  BY <1>4
<1>7. Swapped /\ Top' = g
  BY <1>1, <1>4, <1>5, <1>6, Swap, Zenon
<1> QED
  BY <1>1, <1>4, <1>7, <1>8 DEF w

LEMMA FaltersTop ==
    ASSUME TypeOK, StackOK, NEW wrote \in BOOLEAN, Falters(wrote)
    PROVE  Swapped /\ Top'.i = Top.i /\ at' = "split" /\ MaySplit
<1> DEFINE g == Written(wrote)
<1>1. frames # <<>> /\ Top.i <= Top.n /\ Kept /\ frames' = Topped(frames, g) /\ at' = "split" /\ MaySplit
  BY DEF Falters, Running, TypeOK, CallsOK
<1>2. Top \in Calls /\ Top.tries <= MaxAttempts
  BY <1>1, TopFacts DEF TypeOK, CallsOK, Top
<1>3. /\ g \in Calls /\ Alike(g, Top) /\ g.i = Top.i /\ g.tries = Top.tries
      /\ g.failed = Top.failed /\ g.accepted = Top.accepted
  BY <1>2, WrittenFacts
<1> HIDE DEF g
<1>6. g.i \in {Top.i, Top.i + 1} /\ (Top.accepted => g.accepted) /\ g.tries <= MaxAttempts
  BY <1>2, <1>3
<1>7. Swapped /\ Top' = g
  BY <1>1, <1>3, <1>6, Swap, Zenon
<1> QED
  BY <1>1, <1>3, <1>7

LEMMA StackStep ==
    ASSUME TypeOK, StackOK, [Next]_vars
    PROVE  StackOK' /\ CallsOK'
<1>1. CASE UNCHANGED vars
  BY <1>1 DEF vars, process, StackOK, Rooted, Inherits, Rail, TypeOK, CallsOK, Top, MaySplit
<1> SUFFICES ASSUME Next PROVE StackOK' /\ CallsOK'
  BY <1>1
<1>a. /\ frames \in Seq(Calls) /\ Len(frames) <= SplitDepth + 1 /\ SplitDepth \in Nat /\ MaxAttempts \in Nat \ {0}
      /\ frames # <<>> <=> at \in {"boundary", "loop", "turn", "split"}
      /\ \A k \in 1..Len(frames) : frames[k].i <= frames[k].n + 1 /\ frames[k].tries <= MaxAttempts
  BY EpicsAssumption DEF TypeOK, CallsOK
<1>b. ASSUME NEW fs, Retopped(frames', fs, Top'), disk'.plan = disk.plan,
             at' \in {"boundary", "loop", "split"}, at' # "boundary" => Top'.i <= Top'.n,
             at' = "split" => MaySplit /\ fs = frames
      PROVE  StackOK' /\ CallsOK'
  <2>2. StackOK'
    <3>1. Rooted(frames') /\ Inherits(frames')
      BY <1>b DEF Retopped
    <3> QED
      BY <1>b, <3>1 DEF StackOK, Rooted, Inherits, Rail
  <2>3. CallsOK'
    <3>1. at' \in {"boundary", "loop", "turn", "split"}
      BY <1>b
    <3>2. /\ at' \in {"loop", "turn", "split"} => Top'.i <= Top'.n
          /\ at' = "split" => Len(frames') <= SplitDepth
      BY <1>b DEF Retopped, MaySplit
    <3> QED
      BY <1>b, <3>1, <3>2 DEF CallsOK, Top, MaySplit, Retopped
  <2> QED
    BY <2>2, <2>3
<1>c. ASSUME frames' = <<>>, at' \notin {"boundary", "loop", "turn", "split"} PROVE StackOK' /\ CallsOK'
  <2>1. frames' \in Seq(Calls) /\ Len(frames') = 0
    BY <1>c
  <2> QED
    BY <1>a, <1>c, <2>1 DEF StackOK, Rooted, Inherits, CallsOK
<1>2. CASE Rests
  <2>1. frames' = frames /\ disk'.plan = disk.plan
    BY <1>2 DEF Rests, Kept
  <2>2. StackOK'
    BY <2>1 DEF StackOK, Rooted, Inherits, Rail
  <2>3. at' \in {"boundary", "loop", "turn", "split"} <=> at \in {"boundary", "loop", "turn", "split"}
    BY <1>2, Zenon DEF Rests, Called
  <2>4. /\ at' \in {"loop", "turn", "split"} => at \in {"loop", "turn", "split"}
        /\ at' = "split" => at = "split"
    BY <1>2, Zenon DEF Rests, Busy, Running
  <2>5. Top' = Top /\ MaySplit' = MaySplit
    BY <2>1 DEF Top, MaySplit
  <2>6. CallsOK
    BY DEF TypeOK
  <2> QED
    BY <2>1, <2>2, <2>3, <2>4, <2>5, <2>6 DEF CallsOK
<1>3. CASE Plan
  <2> DEFINE f == Frame(<<>>, Len(disk'.plan), FALSE, FALSE)
  <2>1. frames' = <<f>> /\ at' = "boundary"
    BY <1>3 DEF Plan
  <2>2. Len(disk'.plan) \in Nat
    <3>1. disk'.plan \in Seq(Items)
      BY <1>3, PlanShape
    <3> QED
      BY <3>1, LenProperties
  <2>3. /\ f \in Calls /\ f.path = <<>> /\ f.n = Len(disk'.plan) /\ f.i = 1 /\ f.tries = 0
        /\ f.nonfinal = FALSE
    BY <2>2 DEF Frame, Calls, Paths
  <2> HIDE DEF f
  <2>4. frames' \in Seq(Calls) /\ Len(frames') = 1 /\ frames'[1] = f /\ frames' # <<>>
    BY <2>1, <2>3
  <2>5. StackOK'
    BY <2>3, <2>4 DEF StackOK, Rooted, Inherits
  <2>6. CallsOK'
    BY <1>a, <2>1, <2>2, <2>3, <2>4 DEF CallsOK
  <2> QED
    BY <2>5, <2>6
<1>4. CASE Overs \/ Crash
  BY <1>4, <1>c DEF Overs, Crash
<1>5. CASE \E fs \in {frames, Below(frames)}, ok, below \in BOOLEAN : Settles(fs, ok, below)
  <2>1. PICK fs \in {frames, Below(frames)}, ok \in BOOLEAN, below \in BOOLEAN : Settles(fs, ok, below)
    BY <1>5
  <2>2. Retopped(frames', fs, Top') /\ at' = "boundary" /\ disk'.plan = disk.plan
    BY <2>1, SettlesTop
  <2> QED
    BY <1>b, <2>2
<1>d. ASSUME Swapped, at' \in {"boundary", "loop", "split"}, at' # "boundary" => Top'.i = Top.i,
             at' = "split" => MaySplit
      PROVE  StackOK' /\ CallsOK'
  BY <1>b, <1>d DEF Swapped, Kept, Alike
<1>6. CASE Skips
  BY <1>6, <1>d, SkipsTop
<1>7. CASE Begins
  BY <1>7, <1>d, BeginsTop
<1>8. ASSUME NEW wrote \in BOOLEAN, Retries(wrote) \/ Falters(wrote) PROVE StackOK' /\ CallsOK'
  BY <1>8, <1>d, RetriesTop, FaltersTop
<1>9. ASSUME NEW n \in 2..MaxPieces, Pushes(n) PROVE StackOK' /\ CallsOK'
  <2> DEFINE g == Pieces(Top, n)
  <2>1. /\ frames # <<>> /\ at' = "boundary" /\ frames' = Append(frames, g) /\ disk'.plan = disk.plan
        /\ MaySplit /\ Top.i <= Top.n
    BY <1>9 DEF Pushes, Kept, TypeOK, CallsOK
  <2>t. Top = frames[Len(frames)] /\ Top \in Calls
    BY <2>1, TopFacts DEF Top
  <2>2. n \in Nat /\ n >= 2
    BY <1>9, EpicsAssumption
  <2>3. Item(Top) \in Paths /\ Item(Top) # <<>>
    <3>1. CASE Top.path = <<>>
      <4>1. Top = frames[1] /\ frames[1].n = Len(disk.plan)
        BY <1>a, <2>t, <2>1, <3>1, TopFacts DEF StackOK, Rooted
      <4>2. Top.i \in 1..Len(disk.plan)
        BY <2>t, <2>1, <4>1 DEF Calls
      <4>4. disk.plan \in Seq(Items)
        BY DEF TypeOK
      <4>5. disk.plan[Top.i] \in Items
        BY <4>2, <4>4, ElementOfSeq
      <4>3. disk.plan[Top.i].id \in Names
        BY <4>5 DEF Items
      <4> QED
        BY <3>1, <4>3 DEF Item, Paths
    <3>2. CASE Top.path # <<>>
      <4>1. Top.path \in Seq(Names \cup Nat) /\ Top.i \in Names \cup Nat
        BY <2>1, <2>t DEF Calls, Paths
      <4>2. Item(Top) = Append(Top.path, Top.i)
        BY <3>2 DEF Item
      <4> QED
        BY <4>1, <4>2, AppendProperties DEF Paths
    <3> QED
      BY <3>1, <3>2
  <2>4. Rail(Top) \in BOOLEAN /\ (~Final(Top)) \in BOOLEAN
    BY <2>1, <2>t DEF Rail, Final, Calls
  <2>5. /\ g \in Calls /\ g.path # <<>> /\ g.prior = Rail(Top) /\ g.nonfinal = ~Final(Top)
        /\ g.i = 1 /\ g.n = n /\ g.tries = 0
    BY <2>2, <2>3, <2>4 DEF Pieces, Frame, Calls
  <2> HIDE DEF g
  <2>6. /\ frames' \in Seq(Calls) /\ frames' # <<>> /\ Len(frames') = Len(frames) + 1 /\ Len(frames) \in Nat
        /\ frames'[Len(frames) + 1] = g /\ \A k \in 1..Len(frames) : frames'[k] = frames[k]
    BY <1>a, <2>1, <2>5, PushTop
  <2>7. Rooted(frames') /\ Inherits(frames')
    BY <1>a, <2>t, <2>1, <2>5, StackPush DEF StackOK
  <2>8. StackOK'
    BY <2>1, <2>7 DEF StackOK, Rooted, Inherits, Rail
  <2>9. CallsOK'
    BY <1>a, <2>1, <2>2, <2>5, <2>6 DEF CallsOK, MaySplit, Top
  <2> QED
    BY <2>8, <2>9
<1> QED
  BY <1>2, <1>3, <1>4, <1>5, <1>6, <1>7, <1>8, <1>9, Moves DEF Moved

\* What ends at the top is an epic of the plan.
LEMMA BaseItem ==
    ASSUME TypeOK, StackOK, NEW fs, Current(fs), fs \in Seq(Calls), fs # <<>>,
           fs[Len(fs)].path = <<>>, fs[Len(fs)].i <= fs[Len(fs)].n
    PROVE  /\ Len(fs) = 1 /\ fs[1] = frames[1] /\ frames # <<>>
           /\ frames[1].i \in 1..Len(disk.plan) /\ Item(fs[Len(fs)]) = Base
           /\ Base \in Accepted(disk.plan)
<1>1. Len(fs) \in Nat \ {0}
  BY EmptySeq
<1>2. Len(fs) = 1 /\ fs[1] = frames[1] /\ frames # <<>> /\ frames[1].n = Len(disk.plan)
  <2>1. CASE fs = frames
    <3>1. \A k \in 2..Len(frames) : frames[k].path # <<>>
      BY DEF StackOK, Rooted
    <3>2. ~(Len(frames) >= 2)
      <4>1. Len(frames) >= 2 => Len(frames) \in 2..Len(frames)
        BY <1>1, <2>1
      <4> QED
        BY <2>1, <3>1, <4>1
    <3>5. \A m \in Nat \ {0} : ~(m >= 2) => m = 1
      OBVIOUS
    <3>6. Len(frames) \in Nat \ {0}
      BY <1>1, <2>1, Zenon
    <3>3. Len(frames) = 1
      BY <3>2, <3>5, <3>6, Zenon
    <3>4. frames # <<>> /\ frames[1].n = Len(disk.plan)
      BY <2>1 DEF StackOK, Rooted
    <3> QED
      BY <2>1, <3>3, <3>4
  <2>2. CASE Len(frames) > 1 /\ fs = Below(frames)
    <3>1. frames \in Seq(Calls) /\ frames # <<>>
      BY <2>2 DEF TypeOK, CallsOK
    <3>2. /\ Len(fs) = Len(frames) - 1 /\ Len(frames) \in Nat
          /\ \A k \in 1..(Len(frames) - 1) : fs[k] = frames[k]
      BY <3>1, <2>2, PopTop, Zenon
    <3>3. \A k \in 2..Len(frames) : frames[k].path # <<>>
      BY DEF StackOK, Rooted
    <3> QED
      BY <1>1, <3>1, <3>2, <3>3 DEF StackOK, Rooted
  <2> QED
    BY <2>1, <2>2 DEF Current
<1>3. frames[1] \in Calls
  <2>1. 1 \in 1..Len(fs)
    BY <1>2
  <2> QED
    BY <1>2, <2>1, ElementOfSeq
<1>4. frames[1].i \in 1..Len(disk.plan)
  BY <1>2, <1>3 DEF Calls
<1>5. Base \in Accepted(disk.plan)
  <2>1. disk.plan \in Seq(Items)
    BY DEF TypeOK
  <2>2. DOMAIN disk.plan = 1..Len(disk.plan)
    BY <2>1, LenProperties
  <2> QED
    BY <1>4, <2>2 DEF Base, Accepted, IdsOf
<1> QED
  BY <1>2, <1>4, <1>5 DEF Item, Base

\* What the controller may do to the state file, and what any step may.
LEMMA RunDisk ==
    ASSUME FrameOver \/ Boundary \/ BeginTurn \/ EndTurn \/ Split
    PROVE  disk' = disk \/ disk' = [disk EXCEPT !.completed = done']
<1>1. ASSUME NEW fs, NEW ok, NEW below, Settle(fs, ok, below)
      PROVE  disk' = disk \/ disk' = [disk EXCEPT !.completed = done']
  BY <1>1 DEF Settle
<1>2. ASSUME NEW stopped, Return(stopped) PROVE disk' = disk \/ disk' = [disk EXCEPT !.completed = done']
  BY <1>1, <1>2 DEF Return
<1>3. ASSUME NEW wrote, NEW reached, Missed(wrote, reached)
      PROVE  disk' = disk \/ disk' = [disk EXCEPT !.completed = done']
  BY <1>1, <1>3 DEF Missed
<1> QED
  BY <1>1, <1>2, <1>3 DEF FrameOver, Boundary, BeginTurn, EndTurn, Split

LEMMA DiskForms ==
    ASSUME Next
    PROVE  \/ \E s \in Statuses : disk' = [disk EXCEPT !.status = s]
           \/ disk' = disk
           \/ disk' = [disk EXCEPT !.completed = done']
           \/ Plan
<1>1. CASE Launch \/ Crash \/ AskProject \/ Expire
  BY <1>1 DEF Launch, Crash, AskProject, Expire
<1>2. CASE Register \/ AskRun \/ Finish
  <2>1. {"running", "interrupted", "failed", "delivered"} \subseteq Statuses
    BY DEF Statuses
  <2> QED
    BY <1>2, <2>1 DEF Register, AskRun, Finish, FinalStatus
<1> QED
  BY <1>1, <1>2, RunDisk DEF Next, Run

LEMMA DiskStep ==
    ASSUME TypeOK, StackOK, Next
    PROVE  /\ disk' \in [plan : Seq(Items), completed : SUBSET {<<e>> : e \in Names}, status : Statuses]
           /\ disk'.completed \subseteq Accepted(disk'.plan) /\ done' \subseteq Accepted(disk'.plan)
<1>0. /\ disk \in [plan : Seq(Items), completed : SUBSET {<<e>> : e \in Names}, status : Statuses]
      /\ disk.completed \subseteq Accepted(disk.plan) /\ done \subseteq Accepted(disk.plan)
  BY DEF TypeOK
<1>1. Accepted(disk.plan) \subseteq {<<e>> : e \in Names}
  <2>1. disk.plan \in Seq(Items) /\ DOMAIN disk.plan = 1..Len(disk.plan)
    BY <1>0, LenProperties
  <2>2. \A i \in DOMAIN disk.plan : disk.plan[i] \in Items
    BY <2>1, ElementOfSeq
  <2> QED
    BY <2>2 DEF Accepted, IdsOf, Items
<1>2. CASE Plan
  <2>1. /\ disk'.completed = disk.completed /\ done' = disk.completed
        /\ disk'.plan = disk.plan \/ disk.plan = <<>>
    BY <1>2, PlanShape DEF Plan, Resumed
  <2>2. disk.plan = <<>> => Accepted(disk.plan) = {}
    BY DEF Accepted, IdsOf
  <2> QED
    BY <1>0, <1>2, <2>1, <2>2, PlanShape
<1>3. CASE ~Plan
  <2>1. disk'.plan = disk.plan /\ done' \subseteq Accepted(disk.plan)
    <3>1. CASE \E fs \in {frames, Below(frames)}, ok, below \in BOOLEAN : Settles(fs, ok, below)
      <4>1. PICK fs \in {frames, Below(frames)}, ok \in BOOLEAN, below \in BOOLEAN : Settles(fs, ok, below)
        BY <3>1
      <4> DEFINE f == fs[Len(fs)]
      <4>2. /\ fs \in Seq(Calls) /\ fs # <<>> /\ f.i <= f.n /\ Current(fs)
        BY <4>1 DEF Settles, Current
      <4>3. f.path = <<>> => Item(f) \in Accepted(disk.plan)
        BY <4>2, BaseItem
      <4>4. disk'.plan = disk.plan /\ (done' = done \/ (f.path = <<>> /\ done' = done \cup {Item(f)}))
        BY <1>0, <4>1 DEF Settles, Settle
      <4> QED
        BY <1>0, <4>3, <4>4
    <3>2. CASE Crash
      BY <3>2 DEF Crash
    <3>3. CASE Kept
      BY <1>0, <3>3 DEF Kept
    <3> QED
      BY <1>3, <3>1, <3>2, <3>3, Moves DEF Moved, Rests, Overs, Skips, Begins, Retries, Falters, Pushes
  <2>2. done' \subseteq {<<e>> : e \in Names}
    BY <1>1, <2>1
  <2>3. CASE disk' = disk \/ \E s \in Statuses : disk' = [disk EXCEPT !.status = s]
    BY <1>0, <2>1, <2>3
  <2>4. CASE disk' = [disk EXCEPT !.completed = done']
    BY <1>0, <2>1, <2>2, <2>4
  <2> QED
    BY <1>3, <2>3, <2>4, DiskForms
<1> QED
  BY <1>2, <1>3

LEMMA EpicsTypeStep == TypeOK /\ StackOK /\ [Next]_vars => TypeOK' /\ StackOK'
<1> SUFFICES ASSUME TypeOK, StackOK, [Next]_vars PROVE TypeOK' /\ StackOK'
  OBVIOUS
<1>1. CASE UNCHANGED vars
  BY <1>1, StackStep DEF vars, process, TypeOK
<1> SUFFICES ASSUME Next PROVE TypeOK' /\ StackOK'
  BY <1>1
<1>a. /\ stop \in [project : {"none", "old", "live"}, run : BOOLEAN]
      /\ at \in {"down", "ended", "planning", "plan", "boundary", "loop", "turn", "split", "finish"}
      /\ loop \in [turns : Nat, wrote : BOOLEAN] /\ flags \in [rail : BOOLEAN, final : BOOLEAN]
      /\ latched \in BOOLEAN /\ expired \in BOOLEAN /\ success \in BOOLEAN
  BY DEF TypeOK
<1>b. NoLoop \in [turns : Nat, wrote : BOOLEAN]
  BY DEF NoLoop
<1>c. frames # <<>> => Top \in Calls
  BY TopFacts
<1>d. Seen \in BOOLEAN
  BY DEF Seen
<1>e. \A f \in Calls : Rail(f) \in BOOLEAN /\ Final(f) \in BOOLEAN
  BY DEF Calls, Rail, Final
<1>2. stop' \in [project : {"none", "old", "live"}, run : BOOLEAN]
  <2>1. CASE Poll
    BY <1>a, <2>1 DEF Poll
  <2>2. CASE stop' = stop
    BY <1>a, <2>2
  <2>3. CASE AskProject \/ AskRun \/ Launch \/ Register
    <3>1. \/ stop' = stop \/ stop' = [stop EXCEPT !.project = "live"] \/ stop' = [stop EXCEPT !.project = "old"]
          \/ stop' = [stop EXCEPT !.run = TRUE] \/ stop' = Cleared(stop)
      BY <2>3 DEF AskProject, AskRun, Launch, Register
    <3>2. Cleared(stop) \in [project : {"none", "old", "live"}, run : BOOLEAN]
      BY <1>a DEF Cleared
    <3> QED
      BY <1>a, <3>1, <3>2
  <2>4. CASE Finish
    BY <1>a, <2>4 DEF Finish
  <2> QED
    BY <2>1, <2>2, <2>3, <2>4
       DEF Next, Run, Plan, FrameOver, Boundary, BeginTurn, EndTurn, Split, Crash, Expire
<1>3. latched' \in BOOLEAN /\ expired' \in BOOLEAN
  BY <1>a, <1>d DEF Next, Run, Poll, Plan, FrameOver, Boundary, BeginTurn, EndTurn, Split, Crash, Expire,
     AskProject, AskRun, Launch, Register, Finish, process
<1>4. /\ at' \in {"down", "ended", "planning", "plan", "boundary", "loop", "turn", "split", "finish"}
      /\ success' \in BOOLEAN /\ loop' \in [turns : Nat, wrote : BOOLEAN]
      /\ flags' \in [rail : BOOLEAN, final : BOOLEAN]
  <2> DEFINE AtOK == at' \in {"down", "ended", "planning", "plan", "boundary", "loop", "turn", "split", "finish"}
  <2>1. CASE Launch \/ Register \/ Plan \/ Finish \/ Crash \/ AskProject \/ AskRun \/ Expire
    <3>1. /\ at' = at \/ at' \in {"planning", "plan", "boundary", "ended", "down"}
          /\ success' = success \/ success' = FALSE
          /\ loop' = loop \/ loop' = NoLoop
          /\ flags' = flags
      BY <2>1 DEF Launch, Register, Plan, Finish, Crash, AskProject, AskRun, Expire, process
    <3> QED
      BY <1>a, <1>b, <3>1
  <2>2. ASSUME NEW fs, NEW ok, NEW below, Settle(fs, ok, below) PROVE AtOK /\ success' \in BOOLEAN
    BY <1>a, <2>2 DEF Settle
  <2>3. ASSUME frames # <<>>, NEW stopped \in BOOLEAN, Return(stopped) PROVE AtOK /\ success' \in BOOLEAN
    BY <1>c, <2>2, <2>3 DEF Return, Won, Calls
  <2>4. ASSUME frames # <<>>, NEW wrote \in BOOLEAN, NEW reached \in BOOLEAN, Missed(wrote, reached)
        PROVE  AtOK /\ success' \in BOOLEAN /\ loop' \in [turns : Nat, wrote : BOOLEAN]
               /\ flags' \in [rail : BOOLEAN, final : BOOLEAN]
    <3>1. Written(wrote) \in Calls
      BY <1>c, <2>4 DEF Written, Calls
    <3>2. Rail(Written(wrote)) \in BOOLEAN
      BY <1>e, <3>1
    <3>3. /\ flags' = [flags EXCEPT !.rail = Rail(Written(wrote))] \/ flags' = flags
          /\ loop' = NoLoop
          /\ \/ at' \in {"loop", "split"} /\ success' = success
             \/ Settle(frames, FALSE, FALSE)
      BY <2>4 DEF Missed, Written
    <3> QED
      BY <1>a, <1>b, <2>2, <3>2, <3>3
  <2>5. CASE FrameOver
    BY <1>a, <2>3, <2>5 DEF FrameOver, TypeOK, CallsOK
  <2>6. CASE Boundary
    <3>1. frames # <<>>
      BY <2>6 DEF Boundary, TypeOK, CallsOK
    <3>2. \/ (Return(TRUE) \/ Settle(frames, FALSE, FALSE)) /\ loop' = loop /\ flags' = flags
          \/ UNCHANGED <<at, loop, flags, success>>
          \/ at' = "loop" /\ loop' = NoLoop /\ success' = success /\ flags' = [rail |-> Rail(Top), final |-> Final(Top)]
      BY <2>6 DEF Boundary
    <3>3. CASE (Return(TRUE) \/ Settle(frames, FALSE, FALSE)) /\ loop' = loop /\ flags' = flags
      BY <1>a, <2>2, <2>3, <3>1, <3>3
    <3>4. CASE UNCHANGED <<at, loop, flags, success>>
      BY <1>a, <3>4
    <3>5. CASE /\ at' = "loop" /\ loop' = NoLoop /\ success' = success
               /\ flags' = [rail |-> Rail(Top), final |-> Final(Top)]
      <4>1. Rail(Top) \in BOOLEAN /\ Final(Top) \in BOOLEAN
        BY <1>c, <1>e, <3>1
      <4> QED
        BY <1>a, <1>b, <3>5, <4>1
    <3> QED
      BY <3>2, <3>3, <3>4, <3>5
  <2>7. CASE BeginTurn
    <3>1. frames # <<>> /\ loop.wrote \in BOOLEAN
      BY <1>a, <2>7 DEF BeginTurn, TypeOK, CallsOK
    <3>2. \/ Missed(loop.wrote, TRUE)
          \/ at' = "turn" /\ loop' = [loop EXCEPT !.turns = @ + 1] /\ UNCHANGED <<flags, success>>
      BY <2>7 DEF BeginTurn
    <3>3. CASE Missed(loop.wrote, TRUE)
      BY <2>4, <3>1, <3>3
    <3>4. CASE at' = "turn" /\ loop' = [loop EXCEPT !.turns = @ + 1] /\ UNCHANGED <<flags, success>>
      <4>1. loop' = [turns |-> loop.turns + 1, wrote |-> loop.wrote]
        BY <1>a, <3>4
      <4>2. loop.turns + 1 \in Nat
        BY <1>a
      <4> QED
        BY <1>a, <3>1, <3>4, <4>1, <4>2
    <3> QED
      BY <3>2, <3>3, <3>4
  <2>8. CASE EndTurn
    <3>1. frames # <<>> /\ {loop.wrote, TRUE} \subseteq BOOLEAN
      BY <1>a, <2>8 DEF EndTurn, TypeOK, CallsOK
    <3>2. PICK wrote \in {loop.wrote, TRUE} :
             \/ at' = "loop" /\ loop' = [loop EXCEPT !.wrote = wrote] /\ UNCHANGED <<flags, success>>
             \/ Settle(frames, TRUE, FALSE) /\ loop' = NoLoop /\ flags' = flags
             \/ \E reached \in BOOLEAN : Missed(wrote, reached)
      BY <2>8 DEF EndTurn
    <3>3. CASE at' = "loop" /\ loop' = [loop EXCEPT !.wrote = wrote] /\ UNCHANGED <<flags, success>>
      BY <1>a, <3>1, <3>3
    <3>4. CASE Settle(frames, TRUE, FALSE) /\ loop' = NoLoop /\ flags' = flags
      BY <1>a, <1>b, <2>2, <3>4
    <3>5. CASE \E reached \in BOOLEAN : Missed(wrote, reached)
      BY <2>4, <3>1, <3>5
    <3> QED
      BY <3>2, <3>3, <3>4, <3>5
  <2>9. CASE Split
    BY <1>a, <2>2, <2>9 DEF Split
  <2> QED
    BY <2>1, <2>5, <2>6, <2>7, <2>8, <2>9 DEF Next, Run
<1> QED
  BY <1>2, <1>3, <1>4, StackStep, DiskStep DEF TypeOK

\* State, stack and recursion keep their shape: the depth of splitting holds, and
\* what is persisted as accepted are epics of the persisted plan.
THEOREM EpicsTypeCorrect == Spec => [](TypeOK /\ StackOK)
<1>1. ASSUME Init PROVE TypeOK /\ StackOK
  <2>1. frames = <<>> /\ frames \in Seq(Calls) /\ Len(frames) = 0
    BY <1>1 DEF Init
  <2>2. CallsOK /\ StackOK
    BY <1>1, <2>1, EpicsAssumption DEF Init, CallsOK, StackOK, Rooted, Inherits
  <2>3. disk \in [plan : Seq(Items), completed : SUBSET {<<e>> : e \in Names}, status : Statuses]
    <3>1. NoPlan \in Seq(Items) /\ "new" \in Statuses
      BY DEF NoPlan, Statuses
    <3> QED
      BY <1>1, <3>1 DEF Init
  <2>4. /\ disk.completed = {} /\ done = {}
        /\ stop \in [project : {"none", "old", "live"}, run : BOOLEAN] /\ at = "down"
        /\ loop \in [turns : Nat, wrote : BOOLEAN] /\ flags \in [rail : BOOLEAN, final : BOOLEAN]
        /\ {latched, expired, success} \subseteq BOOLEAN
    BY <1>1 DEF Init, NoLoop
  <2> QED
    BY <2>2, <2>3, <2>4 DEF TypeOK
<1> QED
  BY <1>1, EpicsTypeStep, PTL DEF Spec

-----------------------------------------------------------------------------
(* The flags.                                                               *)

LEMMA FlagsStep == TypeOK /\ StackOK /\ FlagsOfTop /\ [Next]_vars => FlagsOfTop'
<1> SUFFICES ASSUME TypeOK, StackOK, FlagsOfTop, [Next]_vars PROVE FlagsOfTop'
  OBVIOUS
<1>a. CASE UNCHANGED vars
  BY <1>a DEF vars, process, FlagsOfTop, Running, Top, Rail, Final
<1> SUFFICES ASSUME Next, Running' PROVE flags'.final = Final(Top') /\ flags'.rail = Rail(Top')
  BY <1>a DEF FlagsOfTop, Rail, Final
<1>b. flags \in [rail : BOOLEAN, final : BOOLEAN]
  BY DEF TypeOK
<1>1. CASE Rests
  BY <1>1 DEF Rests, FlagsOfTop, Top, Rail, Final
<1>2. CASE Begins
  BY <1>2, BeginsTop DEF Begins
<1>3. ASSUME NEW wrote \in BOOLEAN, Retries(wrote)
      PROVE  flags'.final = Final(Top') /\ flags'.rail = Rail(Top')
  <2>1. flags.final = Final(Top)
    BY <1>3 DEF Retries, FlagsOfTop
  <2>2. flags' = [flags EXCEPT !.rail = Rail(Written(wrote))]
    BY <1>3 DEF Retries
  <2>3. flags'.final = flags.final /\ flags'.rail = Rail(Written(wrote))
    BY <1>b, <2>2
  <2>4. Rail(Top') = Rail(Written(wrote)) /\ Final(Top') = Final(Top)
    BY <1>3, RetriesTop
  <2> QED
    BY <2>1, <2>3, <2>4, Zenon
<1>4. ASSUME NEW fs \in {frames, Below(frames)}, NEW ok \in BOOLEAN, NEW below \in BOOLEAN, Settles(fs, ok, below)
      PROVE  FALSE
  <2>1. at' = "boundary"
    BY <1>4 DEF Settles, Settle
  <2> QED
    BY <2>1 DEF Running
<1>5. CASE Plan \/ Overs \/ Crash \/ Skips \/ (\E wrote \in BOOLEAN : Falters(wrote))
           \/ \E n \in 2..MaxPieces : Pushes(n)
  BY <1>5 DEF Plan, Overs, Crash, Skips, Falters, Pushes, Running
<1> QED
  BY <1>1, <1>2, <1>3, <1>4, <1>5, Moves DEF Moved

LEMMA LandedStep == TypeOK /\ StackOK /\ LandedMarked /\ [Next]_vars => LandedMarked'
<1> SUFFICES ASSUME TypeOK, StackOK, LandedMarked, [Next]_vars PROVE LandedMarked'
  OBVIOUS
<1>a. CASE UNCHANGED vars
  BY <1>a DEF vars, process, LandedMarked
<1> SUFFICES ASSUME Next PROVE LandedMarked'
  BY <1>a
<1> DEFINE Mark == \E k \in 1..Len(frames') : frames'[k].accepted
<1>b. ASSUME Swapped, landed # {} PROVE Mark
  <2>1. PICK k \in 1..Len(frames) : frames[k].accepted
    BY <1>b DEF Swapped, LandedMarked
  <2>2. /\ Len(frames') = Len(frames) /\ Len(frames) \in Nat \ {0} /\ frames'[Len(frames)] = Top'
        /\ \A j \in 1..(Len(frames) - 1) : frames'[j] = frames[j]
    BY <1>b DEF Swapped, Retopped
  <2>3. CASE k = Len(frames)
    <3>1. Top'.accepted
      BY <1>b, <2>1, <2>3 DEF Swapped, Top
    <3> QED
      BY <2>1, <2>2, <2>3, <3>1
  <2>4. CASE k # Len(frames)
    BY <2>1, <2>2, <2>4
  <2> QED
    BY <2>3, <2>4
<1>1. CASE Rests
  BY <1>1 DEF Rests, LandedMarked
<1>2. CASE Plan
  <2>1. landed' = {} /\ at' = "boundary"
    BY <1>2 DEF Plan, LandedMarked
  <2> QED
    BY <2>1 DEF LandedMarked
<1>3. CASE Overs \/ Crash
  <2>1. frames' = <<>> /\ at' \in {"finish", "down"}
    BY <1>3 DEF Overs, Crash
  <2> QED
    BY <2>1 DEF LandedMarked
<1>4. ASSUME NEW fs \in {frames, Below(frames)}, NEW ok \in BOOLEAN, NEW below \in BOOLEAN, Settles(fs, ok, below)
      PROVE  LandedMarked'
  <2>1. /\ at' = "boundary" /\ frames # <<>> /\ Retopped(frames', fs, Top') /\ Current(fs)
        /\ (Top'.accepted <=> fs[Len(fs)].accepted \/ ok \/ below)
    BY <1>4, SettlesTop
  <2>2. /\ Len(frames') = Len(fs) /\ Len(fs) \in Nat \ {0} /\ frames'[Len(fs)] = Top'
        /\ \A j \in 1..(Len(fs) - 1) : frames'[j] = frames[j]
    BY <2>1 DEF Retopped
  <2>3. Len(fs) \in 1..Len(frames')
    BY <2>2
  <2>4. CASE ok
    BY <2>1, <2>2, <2>3, <2>4 DEF LandedMarked
  <2>5. CASE ~ok
    <3>1. landed' = landed
      BY <1>4, <2>5 DEF Settles
    <3> SUFFICES ASSUME landed # {} PROVE Mark
      BY <2>1, <3>1 DEF LandedMarked
    <3>2. PICK k \in 1..Len(frames) : frames[k].accepted
      BY <2>1 DEF LandedMarked
    <3>3. CASE k < Len(fs)
      BY <2>2, <3>2, <3>3
    <3>4. CASE k = Len(fs)
      <4>1. fs[Len(fs)] = frames[k]
        <5>1. CASE fs = frames
          BY <3>4, <5>1
        <5>2. CASE Len(frames) > 1 /\ fs = Below(frames)
          <6>1. frames \in Seq(Calls)
            BY DEF TypeOK, CallsOK
          <6>2. /\ Len(fs) = Len(frames) - 1 /\ Len(frames) \in Nat
                /\ \A j \in 1..(Len(frames) - 1) : fs[j] = frames[j]
            BY <5>2, <6>1, PopTop, Zenon
          <6> QED
            BY <3>2, <3>4, <6>2
        <5> QED
          BY <2>1, <5>1, <5>2 DEF Current
      <4>2. Top'.accepted
        BY <2>1, <3>2, <4>1
      <4> QED
        BY <2>2, <2>3, <4>2
    <3>5. CASE k > Len(fs)
      <4>0. frames \in Seq(Calls) /\ Len(frames) \in Nat
        BY LenProperties DEF TypeOK, CallsOK
      <4>1. Len(frames) > 1 /\ fs = Below(frames) /\ (Top.accepted => below)
        BY <1>4, <3>2, <3>5, <4>0 DEF Settles
      <4>2. Len(fs) = Len(frames) - 1
        BY <4>0, <4>1, PopTop, Zenon
      <4>3. k = Len(frames)
        BY <3>2, <3>5, <4>0, <4>2
      <4>4. Top'.accepted
        BY <2>1, <3>2, <4>1, <4>3 DEF Top
      <4> QED
        BY <2>2, <2>3, <4>4
    <3> QED
      BY <2>2, <3>2, <3>3, <3>4, <3>5
  <2> QED
    BY <2>4, <2>5
<1>c. ASSUME Swapped, landed' = landed, at' \notin {"planning", "plan"} PROVE LandedMarked'
  BY <1>b, <1>c DEF LandedMarked
<1>5. CASE Skips
  BY <1>5, <1>c, SkipsTop DEF Skips
<1>6. CASE Begins
  BY <1>6, <1>c, BeginsTop DEF Begins
<1>7. ASSUME NEW wrote \in BOOLEAN, Retries(wrote) PROVE LandedMarked'
  BY <1>7, <1>c, RetriesTop DEF Retries
<1>8. ASSUME NEW wrote \in BOOLEAN, Falters(wrote) PROVE LandedMarked'
  BY <1>8, <1>c, FaltersTop DEF Falters
<1>9. ASSUME NEW n \in 2..MaxPieces, Pushes(n) PROVE LandedMarked'
  <2>1. at = "split" /\ at' = "boundary" /\ landed' = landed /\ frames' = Append(frames, Pieces(Top, n))
    BY <1>9 DEF Pushes
  <2>2. frames \in Seq(Calls) /\ frames # <<>>
    BY <2>1 DEF TypeOK, CallsOK
  <2>3. Len(frames) \in Nat /\ Len(frames') = Len(frames) + 1 /\ \A k \in 1..Len(frames) : frames'[k] = frames[k]
    BY <2>1, <2>2
  <2> QED
    BY <2>1, <2>2, <2>3 DEF LandedMarked
<1> QED
  BY <1>1, <1>2, <1>3, <1>4, <1>5, <1>6, <1>7, <1>8, <1>9, Moves DEF Moved

-----------------------------------------------------------------------------
(* What is accepted.                                                        *)

\* A step that keeps the depth of the stack and the item of its top keeps that
\* of the outermost call.
LEMMA BaseKept ==
    ASSUME TypeOK, StackOK, Swapped
    PROVE  /\ Len(frames') = Len(frames) /\ Len(frames) \in Nat \ {0} /\ frames' # <<>>
           /\ Len(frames) > 1 => frames'[1] = frames[1]
           /\ Len(frames) = 1 => frames'[1] = Top' /\ frames[1] = Top /\ Top.path = <<>>
           /\ frames'[1].failed = frames[1].failed
           /\ Top'.i = Top.i => frames'[1].i = frames[1].i
<1>1. /\ Len(frames') = Len(frames) /\ Len(frames) \in Nat \ {0} /\ frames' # <<>>
      /\ frames'[Len(frames)] = Top' /\ \A k \in 1..(Len(frames) - 1) : frames'[k] = frames[k]
  BY DEF Swapped, Retopped
<1>2. CASE Len(frames) > 1
  <2>1. frames'[1] = frames[1]
    BY <1>1, <1>2
  <2> QED
    BY <1>1, <1>2, <2>1
<1>3. CASE Len(frames) = 1
  <2>1. frames'[1] = Top' /\ frames[1] = Top /\ Top.path = <<>> /\ Top'.failed = Top.failed
    BY <1>1, <1>3 DEF Top, StackOK, Rooted, Swapped
  <2> QED
    BY <1>1, <1>3, <2>1
<1> QED
  BY <1>1, <1>2, <1>3

\* What the end of an item does to what is accepted.
LEMMA SettlesDone ==
    ASSUME TypeOK, StackOK, NEW fs \in {frames, Below(frames)}, NEW ok \in BOOLEAN, NEW below \in BOOLEAN,
           Settles(fs, ok, below)
    PROVE  /\ at' = "boundary" /\ frames # <<>> /\ disk'.plan = disk.plan
           /\ Len(frames') \in Nat \ {0} /\ Len(frames') = Len(fs)
           /\ done = disk.completed => done' = disk'.completed
           /\ Len(frames') > 1 => Len(frames) > 1 /\ frames'[1] = frames[1] /\ done' = done
           /\ Len(frames') = 1 => /\ frames'[1].i = frames[1].i + 1
                                  /\ frames'[1].failed <=> (frames[1].failed \/ ~ok)
                                  /\ done' = IF ok THEN done \cup {Base} ELSE done
<1> DEFINE f == fs[Len(fs)]
<1>1. /\ at' = "boundary" /\ frames # <<>> /\ Retopped(frames', fs, Top') /\ Current(fs)
      /\ fs \in Seq(Calls) /\ fs # <<>> /\ f.i <= f.n /\ disk'.plan = disk.plan
      /\ Alike(Top', f) /\ Top'.i = f.i + 1 /\ (Top'.failed <=> f.failed \/ ~ok)
  BY SettlesTop
<1>2. /\ Len(frames') = Len(fs) /\ Len(fs) \in Nat \ {0} /\ frames'[Len(fs)] = Top'
      /\ \A j \in 1..(Len(fs) - 1) : frames'[j] = frames[j]
      /\ Rooted(frames')
  BY <1>1 DEF Retopped
<1>3. /\ f.path = Top'.path
      /\ IF ok /\ f.path = <<>>
         THEN /\ done' = done \cup {Item(f)}
              /\ disk' = [disk EXCEPT !.completed = done']
         ELSE UNCHANGED <<done, disk>>
  BY <1>1 DEF Alike, Settles, Settle
<1>0. disk \in [plan : Seq(Items), completed : SUBSET {<<e>> : e \in Names}, status : Statuses]
  BY DEF TypeOK
<1>4. done = disk.completed => done' = disk'.completed
  <2>1. CASE ok /\ f.path = <<>>
    <3>1. disk' = [disk EXCEPT !.completed = done']
      BY <1>3, <2>1
    <3> QED
      BY <1>0, <3>1
  <2>2. CASE ~(ok /\ f.path = <<>>)
    BY <1>3, <2>2
  <2> QED
    BY <2>1, <2>2
<1>5. ASSUME Len(frames') > 1 PROVE Len(frames) > 1 /\ frames'[1] = frames[1] /\ done' = done
  <2>1. Top'.path # <<>>
    BY <1>2, <1>5 DEF Rooted
  <2>2. done' = done
    BY <1>3, <2>1
  <2>3. Len(frames) > 1
    BY <1>1, <1>2, <1>5 DEF Current
  <2> QED
    BY <1>2, <1>5, <2>2, <2>3
<1>6. ASSUME Len(frames') = 1
      PROVE  /\ frames'[1].i = frames[1].i + 1
             /\ frames'[1].failed <=> (frames[1].failed \/ ~ok)
             /\ done' = IF ok THEN done \cup {Base} ELSE done
  <2>1. f.path = <<>> /\ frames'[1] = Top'
    <3>1. frames'[1] = Top' /\ frames' # <<>>
      BY <1>1, <1>2, <1>6 DEF Retopped
    <3> QED
      BY <1>2, <1>3, <3>1 DEF Rooted
  <2>2. Item(f) = Base /\ fs[1] = frames[1] /\ Len(fs) = 1
    BY <1>1, <2>1, BaseItem
  <2>3. f = frames[1]
    BY <2>2
  <2>4. done' = IF ok THEN done \cup {Base} ELSE done
    BY <1>3, <2>1, <2>2
  <2> HIDE DEF f
  <2> QED
    BY <1>1, <2>1, <2>3, <2>4
<1> QED
  BY <1>1, <1>2, <1>4, <1>5, <1>6

LEMMA DoneStep == TypeOK /\ StackOK /\ DoneOnDisk /\ [Next]_vars => DoneOnDisk'
<1> SUFFICES ASSUME TypeOK, StackOK, DoneOnDisk, [Next]_vars PROVE DoneOnDisk'
  OBVIOUS
<1>a. CASE UNCHANGED vars
  BY <1>a DEF vars, process, DoneOnDisk, Base
<1> SUFFICES ASSUME Next PROVE DoneOnDisk'
  BY <1>a
<1>b. Called <=> frames # <<>>
  BY DEF TypeOK, CallsOK, Called
<1>1. CASE Rests
  <2>1. /\ frames' = frames /\ done' = done /\ disk'.completed = disk.completed /\ disk'.plan = disk.plan
        /\ at' = "finish" => at = "finish"
        /\ at' \in {"loop", "turn", "split"} => at \in {"loop", "turn", "split"}
    BY <1>1 DEF Rests, Kept, Busy
  <2> QED
    BY <2>1 DEF DoneOnDisk, Base
<1>2. CASE Plan
  <2>1. done' = disk.completed /\ disk'.completed = disk.completed /\ at' = "boundary"
    BY <1>2, PlanShape DEF Plan, Resumed
  <2>2. Len(frames') = 1
    BY <1>2 DEF Plan
  <2> QED
    BY <2>1, <2>2 DEF DoneOnDisk
<1>3. CASE Overs
  <2>1. frames' = <<>> /\ at' = "finish" /\ done' = done /\ disk'.completed = disk.completed
    BY <1>3 DEF Overs, Kept
  <2>2. frames # <<>> /\ Len(frames') = 0
    BY <1>3, <2>1 DEF Overs
  <2> QED
    BY <2>1, <2>2 DEF DoneOnDisk
<1>4. CASE Crash
  <2>1. frames' = <<>> /\ at' = "down" /\ Len(frames') = 0
    BY <1>4 DEF Crash
  <2> QED
    BY <2>1 DEF DoneOnDisk
<1>5. ASSUME NEW fs \in {frames, Below(frames)}, NEW ok \in BOOLEAN, NEW below \in BOOLEAN, Settles(fs, ok, below)
      PROVE  DoneOnDisk'
  <2>1. /\ at' = "boundary" /\ frames # <<>> /\ disk'.plan = disk.plan
        /\ done = disk.completed => done' = disk'.completed
        /\ Len(frames') > 1 => Len(frames) > 1 /\ frames'[1] = frames[1] /\ done' = done
    BY <1>5, SettlesDone
  <2> QED
    BY <2>1 DEF DoneOnDisk, Base
<1>c. ASSUME Swapped, frames # <<>> PROVE
        /\ frames' # <<>> /\ done' = done /\ disk'.completed = disk.completed /\ disk'.plan = disk.plan
        /\ Len(frames') = Len(frames) /\ Len(frames) \in Nat \ {0}
        /\ Len(frames) > 1 => frames'[1] = frames[1]
        /\ Len(frames) = 1 => frames'[1] = Top' /\ frames[1] = Top /\ Top.path = <<>>
        /\ Top'.i = Top.i => frames'[1].i = frames[1].i
  BY <1>c, BaseKept DEF Swapped, Kept
<1>6. CASE Skips
  <2>1. Swapped /\ at' = "boundary" /\ frames # <<>>
    BY <1>6, SkipsTop DEF Swapped
  <2> QED
    BY <1>c, <2>1 DEF DoneOnDisk, Base
<1>7. CASE Begins
  <2>1. Swapped /\ at' = "loop" /\ frames # <<>> /\ Top'.i = Top.i /\ Item(Top) \notin done
    BY <1>7, BeginsTop DEF Swapped, Begins
  <2>2. Base \notin done
    <3>1. CASE Len(frames) = 1
      <4>1. Item(Top) = Base
        BY <1>c, <2>1, <3>1 DEF Item, Base
      <4> QED
        BY <2>1, <4>1
    <3>2. CASE Len(frames) > 1
      BY <3>2 DEF DoneOnDisk
    <3>3. Len(frames) = 1 \/ Len(frames) > 1
      <4>1. Len(frames) \in Nat \ {0}
        BY <1>c, <2>1
      <4>2. \A m \in Nat \ {0} : m = 1 \/ m > 1
        OBVIOUS
      <4> QED
        BY <4>1, <4>2, Zenon
    <3> QED
      BY <3>1, <3>2, <3>3
  <2>3. Base' = Base
    BY <1>c, <2>1 DEF Base
  <2> QED
    BY <1>c, <2>1, <2>2, <2>3 DEF DoneOnDisk
<1>8. ASSUME NEW wrote \in BOOLEAN, Retries(wrote) \/ Falters(wrote) PROVE DoneOnDisk'
  <2>1. Swapped /\ at' \in {"loop", "split"} /\ frames # <<>> /\ Top'.i = Top.i
    BY <1>8, RetriesTop, FaltersTop DEF Swapped
  <2>2. Running
    BY <1>8 DEF Retries, Falters
  <2>3. Base \notin done
    BY <2>2 DEF Running, DoneOnDisk
  <2>4. Base' = Base
    BY <1>c, <2>1 DEF Base
  <2> QED
    BY <1>c, <2>1, <2>3, <2>4 DEF DoneOnDisk
<1>9. ASSUME NEW n \in 2..MaxPieces, Pushes(n) PROVE DoneOnDisk'
  <2>1. at = "split" /\ at' = "boundary" /\ Kept /\ frames' = Append(frames, Pieces(Top, n))
    BY <1>9 DEF Pushes
  <2>2. frames \in Seq(Calls) /\ frames # <<>>
    BY <2>1 DEF TypeOK, CallsOK
  <2>3. Len(frames) \in Nat \ {0} /\ \A k \in 1..Len(frames) : frames'[k] = frames[k]
    BY <2>1, <2>2, EmptySeq
  <2>4. frames'[1] = frames[1]
    BY <2>3
  <2> QED
    BY <2>1, <2>2, <2>4 DEF DoneOnDisk, Base, Kept
<1> QED
  BY <1>1, <1>2, <1>3, <1>4, <1>5, <1>6, <1>7, <1>8, <1>9, Moves DEF Moved

LEMMA SoFarStep == TypeOK /\ StackOK /\ DoneOnDisk /\ SoFar /\ [Next]_vars => SoFar'
<1> SUFFICES ASSUME TypeOK, StackOK, DoneOnDisk, SoFar, [Next]_vars PROVE SoFar'
  OBVIOUS
<1>a. CASE UNCHANGED vars
  BY <1>a DEF vars, process, SoFar
<1> SUFFICES ASSUME Next PROVE SoFar'
  BY <1>a
<1> DEFINE Ran == \A i \in 1..(frames[1].i - 1) : <<disk.plan[i].id>> \in done
           Ran1 == \A i \in 1..(frames'[1].i - 1) : <<disk'.plan[i].id>> \in done'
           Whole == disk'.completed = Accepted(disk'.plan)
\* The outermost call has accepted what it has passed.
<1>1. frames' # <<>> /\ ~frames'[1].failed => Ran1
  <2>1. CASE Rests
    <3>1. frames' = frames /\ done' = done /\ disk'.plan = disk.plan
      BY <2>1 DEF Rests, Kept
    <3> QED
      BY <3>1 DEF SoFar
  <2>2. CASE Plan
    <3>1. frames'[1].i = 1
      BY <2>2 DEF Plan, Frame
    <3> QED
      BY <3>1
  <2>3. CASE Overs \/ Crash
    BY <2>3 DEF Overs, Crash
  <2>4. ASSUME NEW fs \in {frames, Below(frames)}, NEW ok \in BOOLEAN, NEW below \in BOOLEAN,
               Settles(fs, ok, below), ~frames'[1].failed
        PROVE  Ran1
    <3>1. /\ frames # <<>> /\ disk'.plan = disk.plan /\ Len(frames') \in Nat \ {0}
          /\ Len(frames') > 1 => Len(frames) > 1 /\ frames'[1] = frames[1] /\ done' = done
          /\ Len(frames') = 1 => /\ frames'[1].i = frames[1].i + 1
                                 /\ frames'[1].failed <=> (frames[1].failed \/ ~ok)
                                 /\ done' = IF ok THEN done \cup {Base} ELSE done
      BY <2>4, SettlesDone
    <3>2. CASE Len(frames') > 1
      BY <2>4, <3>1, <3>2 DEF SoFar
    <3>3. CASE Len(frames') = 1
      <4>1. Ran /\ done' = done \cup {Base} /\ frames'[1].i = frames[1].i + 1
        BY <2>4, <3>1, <3>3 DEF SoFar
      <4>2. frames[1] \in Calls
        <5>1. frames \in Seq(Calls) /\ Len(frames) \in Nat \ {0}
          BY <3>1, TopFacts DEF TypeOK, CallsOK
        <5>2. 1 \in 1..Len(frames)
          BY <5>1
        <5> QED
          BY <5>1, <5>2, ElementOfSeq
      <4>3. frames[1].i \in Nat
        BY <4>2 DEF Calls
      <4> QED
        BY <3>1, <4>1, <4>3 DEF Base
    <3>4. \A m \in Nat \ {0} : m = 1 \/ m > 1
      OBVIOUS
    <3> QED
      BY <3>1, <3>2, <3>3, <3>4, Zenon
  <2>a. ASSUME Swapped, Top'.i = Top.i, ~frames'[1].failed PROVE Ran1
    <3>1. /\ frames'[1].failed = frames[1].failed /\ frames'[1].i = frames[1].i
          /\ frames # <<>> /\ done' = done /\ disk'.plan = disk.plan
      BY <2>a, BaseKept DEF Swapped, Kept
    <3> QED
      BY <2>a, <3>1 DEF SoFar
  <2>5. ASSUME Skips, ~frames'[1].failed PROVE Ran1
    <3>1. /\ Swapped /\ Top'.i = Top.i + 1 /\ Item(Top) \in done
      BY <2>5, SkipsTop DEF Skips
    <3>2. /\ Len(frames) \in Nat \ {0} /\ frames # <<>> /\ done' = done /\ disk'.plan = disk.plan
          /\ Len(frames) > 1 => frames'[1] = frames[1]
          /\ Len(frames) = 1 => frames'[1] = Top' /\ frames[1] = Top /\ Top.path = <<>>
          /\ frames'[1].failed = frames[1].failed /\ Top \in Calls
      BY <3>1, BaseKept DEF Swapped, Kept
    <3>3. Ran
      BY <2>5, <3>2 DEF SoFar
    <3>4. CASE Len(frames) > 1
      BY <3>2, <3>3, <3>4
    <3>5. CASE Len(frames) = 1
      <4>1. Item(Top) = <<disk.plan[Top.i].id>>
        BY <3>2, <3>5 DEF Item
      <4>2. Top.i \in Nat
        BY <3>2 DEF Calls
      <4> QED
        BY <3>1, <3>2, <3>3, <3>5, <4>1, <4>2
    <3>6. \A m \in Nat \ {0} : m = 1 \/ m > 1
      OBVIOUS
    <3> QED
      BY <3>2, <3>4, <3>5, <3>6, Zenon
  <2>6. ASSUME Begins, ~frames'[1].failed PROVE Ran1
    BY <2>6, <2>a, BeginsTop
  <2>7. ASSUME NEW wrote \in BOOLEAN, Retries(wrote) \/ Falters(wrote), ~frames'[1].failed PROVE Ran1
    BY <2>7, <2>a, RetriesTop, FaltersTop
  <2>8. ASSUME NEW n \in 2..MaxPieces, Pushes(n), ~frames'[1].failed PROVE Ran1
    <3>1. at = "split" /\ Kept /\ frames' = Append(frames, Pieces(Top, n))
      BY <2>8 DEF Pushes
    <3>2. frames \in Seq(Calls) /\ frames # <<>>
      BY <3>1 DEF TypeOK, CallsOK
    <3>3. Len(frames) \in Nat \ {0} /\ \A k \in 1..Len(frames) : frames'[k] = frames[k]
      BY <3>1, <3>2, EmptySeq
    <3>4. frames'[1] = frames[1]
      BY <3>3
    <3> QED
      BY <2>8, <3>1, <3>2, <3>4 DEF SoFar, Kept
  <2> HIDE DEF Ran1
  <2> QED
    BY <2>1, <2>2, <2>3, <2>4, <2>5, <2>6, <2>7, <2>8, Moves DEF Moved
\* The controller returns success when no item failed.
<1>2. at' = "finish" /\ success' => Whole
  <2>1. CASE Rests
    BY <2>1 DEF Rests, Kept, SoFar
  <2>2. CASE Overs
    <3> SUFFICES ASSUME success' PROVE Whole
      OBVIOUS
    <3>1. Len(frames) = 1 /\ Top.i > Top.n /\ ~Top.failed /\ Kept
      BY <2>2 DEF Overs
    <3>2. Top = frames[1] /\ frames # <<>> /\ Top \in Calls
      BY <3>1, TopFacts DEF Top
    <3>3. Top.n = Len(disk.plan)
      BY <3>2 DEF StackOK, Rooted
    <3>4. Ran /\ done = disk.completed
      BY <3>1, <3>2 DEF SoFar, DoneOnDisk
    <3>5. disk.plan \in Seq(Items) /\ DOMAIN disk.plan = 1..Len(disk.plan) /\ Len(disk.plan) \in Nat
      BY LenProperties DEF TypeOK
    <3>6. \A i \in DOMAIN disk.plan : <<disk.plan[i].id>> \in done
      BY <3>1, <3>2, <3>3, <3>4, <3>5 DEF Calls
    <3>7. Accepted(disk.plan) \subseteq done
      BY <3>6 DEF Accepted, IdsOf
    <3>8. done \subseteq Accepted(disk.plan)
      BY DEF TypeOK
    <3>9. done = Accepted(disk.plan)
      BY <3>7, <3>8, Zenon
    <3>10. disk'.plan = disk.plan /\ disk'.completed = done
      BY <3>1, <3>4 DEF Kept
    <3> QED
      BY <3>9, <3>10, Zenon
  <2>3. ASSUME NEW fs, NEW ok, NEW below, Settles(fs, ok, below) PROVE at' = "boundary"
    BY <2>3 DEF Settles, Settle
  <2>4. CASE ~Rests /\ ~Overs
    <3>1. CASE Plan \/ Skips \/ Begins \/ Crash \/ (\E wrote \in BOOLEAN : Retries(wrote) \/ Falters(wrote))
               \/ \E n \in 2..MaxPieces : Pushes(n)
      BY <3>1 DEF Plan, Skips, Begins, Crash, Retries, Falters, Pushes
    <3>2. CASE \E fs \in {frames, Below(frames)}, ok, below \in BOOLEAN : Settles(fs, ok, below)
      BY <2>3, <3>2
    <3> QED
      BY <2>4, <3>1, <3>2, Moves DEF Moved
  <2> QED
    BY <2>1, <2>2, <2>4
\* Only the end of a run reports its mission as delivered.
<1>3. disk'.status = "delivered" => at' = "ended" /\ Whole
  <2>0. disk \in [plan : Seq(Items), completed : SUBSET {<<e>> : e \in Names}, status : Statuses]
    BY DEF TypeOK
  <2>1. CASE Finish
    <3>1. at = "finish" /\ at' = "ended" /\ disk'.completed = disk.completed /\ disk'.plan = disk.plan
          /\ (disk'.status = "delivered" => success)
      BY <2>0, <2>1 DEF Finish, FinalStatus
    <3> QED
      BY <3>1 DEF SoFar
  <2>2. CASE ~Finish
    <3>1. CASE disk' = disk /\ (at' = at \/ at # "ended")
      BY <3>1 DEF SoFar
    <3>2. CASE disk'.status # "delivered"
      BY <3>2
    <3>3. CASE Launch \/ Crash \/ AskProject \/ Expire
      BY <3>1, <3>3 DEF Launch, Crash, AskProject, Expire, process, Alive, SoFar
    <3>4. CASE Register \/ AskRun
      <4>1. disk'.status \in {"running", "interrupted"} \/ (disk' = disk /\ disk.status = "running")
        BY <2>0, <3>4 DEF Register, AskRun
      <4> QED
        BY <3>2, <4>1
    <3>5. CASE Plan \/ FrameOver \/ Boundary \/ BeginTurn \/ EndTurn \/ Split
      <4>1. disk.status # "delivered"
        BY <3>5 DEF Plan, FrameOver, Boundary, BeginTurn, EndTurn, Split, SoFar
      <4>2. CASE Plan
        BY <4>1, <4>2, PlanShape
      <4>3. CASE ~Plan
        <5>1. disk' = disk \/ disk' = [disk EXCEPT !.completed = done']
          BY <3>5, <4>3, RunDisk
        <5> QED
          BY <2>0, <4>1, <5>1
      <4> QED
        BY <4>2, <4>3
    <3> QED
      BY <2>2, <3>3, <3>4, <3>5 DEF Next, Run
  <2> QED
    BY <2>1, <2>2
<1> QED
  BY <1>1, <1>2, <1>3 DEF SoFar

-----------------------------------------------------------------------------
(* The theorems.                                                            *)

EpicsInv == TypeOK /\ StackOK /\ FlagsOfTop /\ LandedMarked /\ DoneOnDisk /\ SoFar

LEMMA EpicsInvHolds == Spec => []EpicsInv
<1>1. ASSUME Init PROVE FlagsOfTop /\ LandedMarked /\ DoneOnDisk /\ SoFar
  <2>1. /\ at = "down" /\ frames = <<>> /\ Len(frames) = 0 /\ landed = {}
        /\ disk.status = "new"
    BY <1>1 DEF Init
  <2> QED
    BY <2>1 DEF FlagsOfTop, LandedMarked, DoneOnDisk, SoFar, Running
<1>2. EpicsInv /\ [Next]_vars => EpicsInv'
  BY EpicsTypeStep, FlagsStep, LandedStep, DoneStep, SoFarStep, Zenon DEF EpicsInv
<1>3. TypeOK /\ StackOK /\ FlagsOfTop /\ LandedMarked /\ DoneOnDisk /\ SoFar => EpicsInv
  BY DEF EpicsInv
<1> QED
  BY <1>1, <1>2, <1>3, EpicsTypeCorrect, PTL DEF Spec

\* Whatever the depth of splitting, the whole-mission gates apply to exactly the
\* loops of the last piece of the last epic, and the anti-no-op rail stands down
\* wherever work of an earlier loop is in the baseline.
THEOREM FlagsRightHolds == Spec => []FlagsRight
<1>1. ASSUME EpicsInv, Running PROVE FlagsRight
  <2>1. /\ frames \in Seq(Calls) /\ frames # <<>> /\ Top \in Calls /\ Top = frames[Len(frames)]
        /\ Len(frames) \in Nat \ {0} /\ DOMAIN frames = 1..Len(frames)
    BY <1>1, TopFacts, LenProperties DEF EpicsInv, TypeOK, CallsOK, Running, Top
  <2> DEFINE m == Len(frames)
  <2>2. m \in 1..m /\ 1..m = (1..(m - 1)) \cup {m}
    BY <2>1
  <2>3. flags.final = Final(Top) /\ flags.rail = Rail(Top)
    BY <1>1 DEF EpicsInv, FlagsOfTop
  <2>4. /\ Top.nonfinal <=> \E j \in 1..(m - 1) : frames[j].i # frames[j].n
        /\ \A j \in 1..(m - 1) : Rail(frames[j]) => Top.prior
    <3>1. Inherits(frames)
      BY <1>1 DEF EpicsInv, StackOK
    <3> QED
      BY <2>1, <2>2, <3>1 DEF Inherits
  <2> HIDE DEF m
  <2>5. FinalGatesAtEnd
    BY <2>1, <2>2, <2>3, <2>4 DEF FinalGatesAtEnd, Final, m
  <2>6. RailStandsDown
    <3> SUFFICES ASSUME landed # {} \/ \E k \in DOMAIN frames : frames[k].changed PROVE Rail(Top)
      BY <2>3 DEF RailStandsDown
    <3>1. PICK k \in 1..m : frames[k].accepted \/ frames[k].changed
      BY <1>1, <2>1 DEF EpicsInv, LandedMarked, m
    <3>2. Rail(frames[k])
      BY <3>1 DEF Rail
    <3>3. CASE k = m
      BY <2>1, <3>2, <3>3 DEF m
    <3>4. CASE k \in 1..(m - 1)
      BY <2>4, <3>2, <3>4 DEF Rail
    <3> QED
      BY <2>2, <3>3, <3>4
  <2> QED
    BY <2>5, <2>6 DEF FlagsRight
<1>2. EpicsInv => FlagsRight
  BY <1>1 DEF FlagsRight, FinalGatesAtEnd, RailStandsDown
<1> QED
  BY <1>2, EpicsInvHolds, PTL

\* However often the mission is resumed, an epic that was accepted is not run
\* again, and a mission reported as delivered has all of its epics accepted.
THEOREM AcceptedKeptHolds == Spec => []AcceptedKept
<1>1. EpicsInv => AcceptedKept
  <2> SUFFICES ASSUME EpicsInv PROVE AcceptedNotRerun /\ DeliveredIsComplete
    BY DEF AcceptedKept
  <2>1. ASSUME Running PROVE Item(frames[1]) \notin disk.completed
    <3>1. frames # <<>>
      BY <2>1 DEF EpicsInv, TypeOK, CallsOK, Running
    <3>2. frames[1].path = <<>>
      BY <3>1 DEF EpicsInv, StackOK, Rooted
    <3>3. Item(frames[1]) = Base
      BY <3>2 DEF Item, Base
    <3> QED
      BY <2>1, <3>1, <3>3 DEF EpicsInv, DoneOnDisk, Running
  <2>2. DeliveredIsComplete
    BY DEF EpicsInv, SoFar, DeliveredIsComplete
  <2> QED
    BY <2>1, <2>2 DEF AcceptedNotRerun
<1> QED
  BY <1>1, EpicsInvHolds, PTL

\* A run whose latch closed ends delivered or interrupted, never failed, and
\* nothing changes that afterwards.
THEOREM StoppedIsResumableHolds == Spec => []StoppedIsResumable
<1>1. Init => StoppedIsResumable
  BY DEF Init, StoppedIsResumable
<1>2. ASSUME TypeOK, StackOK, StoppedIsResumable, [Next]_vars PROVE StoppedIsResumable'
  <2>0. disk \in [plan : Seq(Items), completed : SUBSET {<<e>> : e \in Names}, status : Statuses]
    BY <1>2 DEF TypeOK
  <2>1. CASE Finish
    <3>1. disk'.status = FinalStatus(stop.run \/ stop.project # "none") /\ latched' = latched
      BY <2>0, <2>1 DEF Finish
    <3> QED
      BY <3>1 DEF StoppedIsResumable, FinalStatus
  <2>2. CASE AskProject \/ Expire \/ UNCHANGED vars
    BY <1>2, <2>2 DEF AskProject, Expire, vars, process, StoppedIsResumable
  <2>3. CASE AskRun
    <3>1. disk'.status \in {disk.status, "interrupted"} /\ at' = at /\ latched' = latched
      BY <2>0, <2>3 DEF AskRun, process
    <3> QED
      BY <1>2, <3>1 DEF StoppedIsResumable
  <2>4. CASE Launch \/ Register \/ Plan \/ Crash
    BY <2>4 DEF Launch, Register, Plan, Crash, StoppedIsResumable
  <2>5. CASE FrameOver \/ Boundary \/ BeginTurn \/ EndTurn \/ Split
    <3>1. at' # "ended"
      BY <2>5 DEF FrameOver, Boundary, BeginTurn, EndTurn, Split, Return, Settle, Missed
    <3> QED
      BY <3>1 DEF StoppedIsResumable
  <2> QED
    BY <1>2, <2>1, <2>2, <2>3, <2>4, <2>5 DEF Next, Run
<1> QED
  BY <1>1, <1>2, EpicsTypeCorrect, PTL DEF Spec

\* No turn of a model begins behind the latch of a stop or of the budget, at
\* whatever depth of the recursion the controller is.
THEOREM StopSticksHolds == Spec => StopSticks
<1>1. ASSUME [Next]_vars, latched, at' = "turn" PROVE at = "turn"
  <2>1. CASE BeginTurn
    <3>1. Missed(loop.wrote, TRUE)
      BY <1>1, <2>1 DEF BeginTurn, Seen
    <3> QED
      BY <1>1, <3>1 DEF Missed, Settle
  <2>2. CASE AskProject \/ AskRun \/ Expire \/ UNCHANGED vars
    BY <1>1, <2>2 DEF AskProject, AskRun, Expire, vars, process
  <2>3. CASE Launch \/ Register \/ Plan \/ Finish \/ Crash
    BY <1>1, <2>3 DEF Launch, Register, Plan, Finish, Crash
  <2>4. CASE FrameOver \/ Boundary \/ EndTurn \/ Split
    BY <1>1, <2>4 DEF FrameOver, Boundary, EndTurn, Split, Return, Settle, Missed
  <2> QED
    BY <1>1, <2>1, <2>2, <2>3, <2>4 DEF Next, Run
<1>2. [Next]_vars => [latched /\ Alive => (at' = "turn" => at = "turn")]_vars
  BY <1>1
<1> QED
  BY <1>2, PTL DEF Spec, StopSticks

\* A project stop that appears while a process lives is removed by a poll that
\* latches it, or by the end of the run: the clearing at the start of a run
\* keeps it, however the two interleave.
THEOREM StopsReachTheirRunHolds == Spec => StopsReachTheirRun
<1>1. ASSUME TypeOK, [Next]_vars, Alive, stop.project = "live", stop'.project = "none"
      PROVE  latched' \/ at' = "ended"
  <2>0. stop \in [project : {"none", "old", "live"}, run : BOOLEAN]
    BY <1>1 DEF TypeOK
  <2>1. CASE Poll
    BY <1>1, <2>1 DEF Poll, Seen
  <2>2. CASE Finish
    BY <2>2 DEF Finish
  <2>3. CASE stop' = stop
    BY <1>1, <2>3
  <2>4. CASE AskProject \/ AskRun
    BY <1>1, <2>0, <2>4 DEF AskProject, AskRun
  <2>5. CASE Register
    BY <1>1, <2>5 DEF Register, Cleared
  <2>6. CASE Launch
    BY <1>1, <2>6 DEF Launch
  <2> QED
    BY <1>1, <2>1, <2>2, <2>3, <2>4, <2>5, <2>6
       DEF Next, Run, Plan, FrameOver, Boundary, BeginTurn, EndTurn, Split, Crash, Expire, vars
<1>2. TypeOK /\ [Next]_vars =>
        [Alive /\ stop.project = "live" /\ stop'.project = "none" => latched' \/ at' = "ended"]_vars
  BY <1>1
<1> QED
  BY <1>2, EpicsTypeCorrect, PTL DEF Spec, StopsReachTheirRun

=============================================================================
