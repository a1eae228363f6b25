--------------------------- MODULE DeliverLockProofs ---------------------------
(***************************************************************************)
(* The safety properties of DeliverLock for every set of processes and of  *)
(* roots, and every relation of overlap.                                   *)
(***************************************************************************)
EXTENDS DeliverLock, TLAPS

-----------------------------------------------------------------------------
(* The inductive invariants.                                                *)

Published == {p \in Procs : pc[p] \in {"list", "scan", "sweep", "yield"}}
Created(p) == lock[root[p]] # None /\ lock[root[p]].by = p
Entered(p) == entry[root[p]] # None /\ entry[root[p]].pid = p /\ entry[root[p]].stamp = stamp[p]

\* A clean process is alone while it acquires, and nobody touches what it makes.
Alone(p) ==
    /\ p \in Inside \union Working
    /\ pc[p] \in Acquiring => Inside = {p}
    /\ pc[p] = "write" => Created(p)
    /\ p \in Stamped => Created(p) /\ LockIsOwn(p)
    /\ p \in Published => Entered(p)
    /\ pc[p] = "sweep" => aim[p] # root[p]
CleanAlone == \A p \in clean : Alone(p)

\* Those who come to the root of a clean owner read its lock, or have nothing to
\* release; nobody is about to sweep its entry.
Untouched(p, q) ==
    /\ q \in Inside /\ root[q] = root[p] => pc[q] \in {"read", "look_entry"}
    /\ pc[q] = "sweep" => aim[q] # root[p]
Visible(p) ==
    /\ Created(p) /\ LockIsOwn(p)
    /\ EntryIsOwn(p) /\ entry[root[p]].stamp < clock
    /\ hb[root[p]] = "fresh" /\ p \in beating
    /\ \A q \in Procs \ {p} : Untouched(p, q)
CleanOwner == \A p \in Owners \intersect clean : Visible(p)

\* Whom a process met on arrival still owns its tree, was stamped before, and is
\* still to be scanned.
Meets(p, q) ==
    /\ q \in Owners \intersect clean
    /\ pc[p] \in Acquiring => <<root[p], root[q]>> \in Overlap
    /\ p \in Stamped => entry[root[q]].stamp < stamp[p]
    /\ pc[p] \in {"scan", "sweep"} => root[q] \in todo[p]
    /\ pc[p] # "own"
LateMet == \A p \in Procs : \A q \in late[p] : Meets(p, q)

\* As long as no launch has come further than acquire: files are those of
\* processes inside, and the oldest of the stamped does not yield.
NoneYet == \A p \in Procs : pc[p] \in Acquiring \union {"new", "refused"}
Before(p, q) == stamp[p] < stamp[q] \/ (stamp[p] = stamp[q] /\ p < q)
Oldest(p) == p \in Stamped /\ \A q \in Stamped \ {p} : Before(p, q)
OfOneInside(r) ==
    /\ lock[r] # None => /\ pc[lock[r].by] = "write" \/ lock[r].by \in Stamped
                         /\ root[lock[r].by] = r
    /\ entry[r] # None => /\ entry[r].pid \in Published /\ root[entry[r].pid] = r
                          /\ entry[r].stamp = stamp[entry[r].pid]
FilesOfThoseInside == \A r \in Roots : OfOneInside(r)
SomeoneStays ==
    /\ Stamped # {} => \E p \in Stamped : Oldest(p) /\ pc[p] # "yield"
    /\ (\E p \in Procs : pc[p] = "refused") => \E p \in Procs : pc[p] = "write" \/ p \in Stamped
NotYetDecided == NoneYet => FilesOfThoseInside /\ SomeoneStays

-----------------------------------------------------------------------------
(* Types.                                                                   *)

\* A pause ages the file and touches neither its creator nor its text.
LEMMA Aging ==
    ASSUME NEW k \in Locks
    PROVE  LET aged == [k EXCEPT !.old = TRUE]
           IN  aged \in Locks /\ aged.by = k.by /\ aged.text = k.text
  BY DEF Locks

\* The descriptor writes the text of the file it created.
LEMMA Writing ==
    ASSUME NEW k \in Locks, NEW p \in Procs
    PROVE  LET written == [k EXCEPT !.text = p]
           IN  written \in Locks /\ written # None /\ written.by = k.by /\ written.text = p
<1> DEFINE written == [k EXCEPT !.text = p]
<1>1. written \in Locks /\ written.by = k.by /\ written.text = p
  BY DEF Locks
<1>2. written # None
  BY <1>1, NoneAssumption
<1> QED
  BY <1>1, <1>2

\* A process that is over keeps nothing.
LEMMA EndsTyped ==
    ASSUME TypeOK, NEW p \in Procs, NEW label \in {"refused", "gone", "dead"},
           Ends(p, label), UNCHANGED <<clock, recycled>>,
           aim' \in {aim, [aim EXCEPT ![p] = None]}
    PROVE  MemoryOK' /\ HistoryOK'
<1> USE DEF TypeOK, Acquiring, Releasing, Inside, Working, Stamped
<1>1. /\ pc' = [pc EXCEPT ![p] = label]
      /\ root' = [root EXCEPT ![p] = None]
      /\ stamp' = [stamp EXCEPT ![p] = 0]
      /\ todo' = [todo EXCEPT ![p] = {}]
  BY DEF Ends, Goto
<1>2. MemoryOK'
  BY <1>1 DEF MemoryOK
<1>3. HistoryOK'
  BY <1>1 DEF HistoryOK, MemoryOK, Ends
<1> QED
  BY <1>2, <1>3

LEMMA LockTypeStep == TypeOK /\ [Next]_vars => TypeOK'
<1> USE ProcsAssumption, RootsAssumption, NoneAssumption
    DEF TypeOK, MemoryOK, FilesOK, HistoryOK, Acquiring, Releasing, Inside, Working, Stamped, Locks
<1>1. TypeOK /\ [Next]_vars => TypeOK'
  <2> SUFFICES ASSUME TypeOK, [Next]_vars PROVE TypeOK'
    OBVIOUS
  <2> USE DEF Goto, memory, files, Ends
  <2>1. ASSUME NEW p \in Procs, NEW r \in Roots, Begin(p, r) PROVE TypeOK'
    BY <2>1 DEF Begin, Enters
  <2>2. ASSUME NEW p \in Procs, ReadLock(p) PROVE TypeOK'
    <3>1. CASE Ends(p, "refused")
      <4>1. MemoryOK' /\ HistoryOK'
        BY <2>2, <3>1, EndsTyped DEF ReadLock
      <4> QED
        BY <2>2, <4>1 DEF ReadLock
    <3>2. ASSUME NEW label \in {"unlocked", "unlink"}, Goto(p, label), UNCHANGED <<root, stamp, todo>>
          PROVE MemoryOK'
      <4>1. pc' = [pc EXCEPT ![p] = label] /\ UNCHANGED <<root, stamp, todo, aim, clock>>
        BY <2>2, <3>2 DEF ReadLock
      <4>2. root[p] \in Roots
        BY <2>2 DEF ReadLock
      <4> QED
        BY <4>1, <4>2
    <3>3. CASE /\ Goto(p, "unlocked") /\ beating' = beating \union {p}
               /\ UNCHANGED <<root, stamp, todo, clean, late>>
      <4>1. MemoryOK'
        BY <3>2, <3>3
      <4>2. FilesOK' /\ HistoryOK'
        BY <2>2, <3>3 DEF ReadLock
      <4> QED
        BY <4>1, <4>2
    <3>4. CASE Goto(p, "unlink") /\ UNCHANGED memory
      BY <2>2, <3>2, <3>4 DEF ReadLock
    <3> QED
      BY <2>2, <3>1, <3>3, <3>4 DEF ReadLock
  <2>3. ASSUME NEW p \in Procs, Unlink(p) PROVE TypeOK'
    BY <2>3 DEF Unlink
  <2>4. ASSUME NEW p \in Procs, Open(p) PROVE TypeOK'
    <3>1. CASE Ends(p, "refused") /\ UNCHANGED lock
      <4>1. MemoryOK' /\ HistoryOK'
        BY <2>4, <3>1, EndsTyped DEF Open
      <4> QED
        BY <2>4, <3>1, <4>1 DEF Open
    <3>2. CASE /\ lock' = [lock EXCEPT ![root[p]] = [by |-> p, text |-> None, old |-> FALSE]]
               /\ Goto(p, "write") /\ UNCHANGED memory
      <4>1. MemoryOK'
        BY <2>4, <3>2 DEF Open
      <4>2. [by |-> p, text |-> None, old |-> FALSE] \in Locks
        OBVIOUS
      <4>3. FilesOK'
        <5> HIDE DEF Locks
        <5> QED
          BY <2>4, <3>2, <4>2 DEF Open
      <4>4. HistoryOK'
        BY <2>4, <3>2 DEF Open
      <4> QED
        BY <4>1, <4>3, <4>4
    <3> QED
      BY <2>4, <3>1, <3>2 DEF Open
  <2>5. ASSUME NEW p \in Procs, Write(p) PROVE TypeOK'
    <3>1. PICK now \in {clock, clock + 1} : stamp' = [stamp EXCEPT ![p] = now] /\ clock' = now
      BY <2>5 DEF Write
    <3>2. now \in Nat /\ now # 0 /\ 0..clock \subseteq 0..now /\ 1..clock \subseteq 1..now
      BY <3>1
    <3>3. MemoryOK'
      BY <2>5, <3>1, <3>2 DEF Write
    <3>4. FilesOK'
      BY <2>5, <3>1, <3>2 DEF Write
    <3>5. HistoryOK'
      BY <2>5 DEF Write
    <3> QED
      BY <3>3, <3>4, <3>5
  <2>6. ASSUME NEW p \in Procs, Publish(p) PROVE TypeOK'
    <3>1. MemoryOK'
      BY <2>6 DEF Publish
    <3>2. FilesOK'
      BY <2>6 DEF Publish
    <3>3. HistoryOK'
      BY <2>6 DEF Publish
    <3> QED
      BY <3>1, <3>2, <3>3
  <2>7. ASSUME NEW p \in Procs, List(p) PROVE TypeOK'
    BY <2>7 DEF List
  <2>8. ASSUME NEW p \in Procs, NEW r \in Roots, Scan(p, r) PROVE TypeOK'
    BY <2>8 DEF Scan
  <2>9. ASSUME NEW p \in Procs, Sweep(p) PROVE TypeOK'
    BY <2>9 DEF Sweep
  <2>10. ASSUME NEW p \in Procs, Yield(p) PROVE TypeOK'
    BY <2>10 DEF Yield
  <2>11. ASSUME NEW p \in Procs, FirstBeat(p) PROVE TypeOK'
    BY <2>11 DEF FirstBeat
  <2>12. ASSUME NEW p \in Procs, Beat(p) PROVE TypeOK'
    BY <2>12 DEF Beat
  <2>13. ASSUME NEW p \in Procs, Leave(p) PROVE TypeOK'
    BY <2>13 DEF Leave, Enters, NoLongerMet
  <2>14. ASSUME NEW p \in Procs, DropLock(p) PROVE TypeOK'
    <3>1. MemoryOK'
      BY <2>14 DEF DropLock
    <3>2. FilesOK'
      BY <2>14 DEF DropLock
    <3>3. HistoryOK'
      BY <2>14 DEF DropLock
    <3> QED
      BY <3>1, <3>2, <3>3
  <2>15. ASSUME NEW p \in Procs, LookEntry(p) PROVE TypeOK'
    <3>1. CASE Ends(p, "gone")
      <4>1. MemoryOK' /\ HistoryOK'
        BY <2>15, <3>1, EndsTyped DEF LookEntry
      <4> QED
        BY <2>15, <4>1 DEF LookEntry
    <3>2. CASE Goto(p, "drop_entry") /\ UNCHANGED memory
      BY <2>15, <3>2 DEF LookEntry
    <3> QED
      BY <2>15, <3>1, <3>2 DEF LookEntry
  <2>16. ASSUME NEW p \in Procs, DropEntry(p) PROVE TypeOK'
    <3>1. MemoryOK'
      BY <2>16 DEF DropEntry
    <3>2. FilesOK'
      BY <2>16 DEF DropEntry
    <3>3. HistoryOK'
      BY <2>16 DEF DropEntry
    <3> QED
      BY <3>1, <3>2, <3>3
  <2>17. ASSUME NEW p \in Procs, LeaveUnlocked(p) PROVE TypeOK'
    BY <2>17 DEF LeaveUnlocked
  <2>18. ASSUME NEW p \in Procs, Crash(p) PROVE TypeOK'
    <3>1. MemoryOK'
      BY <2>18 DEF Crash
    <3>2. FilesOK'
      BY <2>18 DEF Crash
    <3>3. HistoryOK'
      BY <2>18 DEF Crash
    <3> QED
      BY <3>1, <3>2, <3>3
  <2>19. ASSUME NEW p \in Procs, Recycle(p) PROVE TypeOK'
    BY <2>19 DEF Recycle
  <2>20. ASSUME NEW hung \in SUBSET beating, Pause(hung) PROVE TypeOK'
    <3>1. MemoryOK' /\ HistoryOK'
      BY <2>20 DEF Pause, NoLongerMet
    <3>2. \A r \in Roots : lock[r] # None => [lock[r] EXCEPT !.old = TRUE] \in Locks
      <4> HIDE DEF Locks
      <4> QED
        BY Aging
    <3>3. FilesOK'
      <4> HIDE DEF Locks
      <4> QED
        BY <2>20, <3>2 DEF Pause
    <3> QED
      BY <3>1, <3>3
  <2>21. CASE UNCHANGED vars
    BY <2>21 DEF vars
  <2> HIDE DEF TypeOK
  <2> QED
    BY <2>1, <2>2, <2>3, <2>4, <2>5, <2>6, <2>7, <2>8, <2>9, <2>10, <2>11, <2>12, <2>13,
       <2>14, <2>15, <2>16, <2>17, <2>18, <2>19, <2>20, <2>21 DEF Next
<1> QED
  BY <1>1

\* Files and memory keep their shape through every interleaving of the file
\* operations, crash and pause.
THEOREM LockTypeCorrect == Spec => []TypeOK
<1>1. Init => TypeOK
  BY DEF Init, TypeOK, MemoryOK, FilesOK, HistoryOK, Inside, Working, Acquiring, Releasing,
     Stamped
<1> QED
  BY <1>1, LockTypeStep, PTL DEF Spec

-----------------------------------------------------------------------------
(* Clean processes.                                                         *)

LEMMA AloneStep ==
    ASSUME TypeOK, CleanAlone, [Next]_vars, NEW p \in Procs, p \in clean'
    PROVE  Alone(p)'
<1> USE ProcsAssumption, NoneAssumption
    DEF TypeOK, MemoryOK, FilesOK, HistoryOK, Acquiring, Releasing, Inside, Working, Stamped,
        Published, Goto, memory, files
\* While p acquires nobody else is inside, so nobody else moves in there.
<1>1. ASSUME NEW q \in Procs \ {p}, q \in Inside, p \in clean, pc'[p] = pc[p]
      PROVE Alone(p)'
  <2>1. pc'[p] \notin Acquiring /\ (p \in Inside \union Working)'
    BY <1>1 DEF Alone, CleanAlone
  <2> QED
    BY <2>1 DEF Alone
<1> USE DEF Alone, CleanAlone, Created, Entered, LockIsOwn
<1>2. ASSUME NEW q \in Procs, NEW r \in Roots, Begin(q, r) PROVE Alone(p)'
  BY <1>2 DEF Begin, Enters
<1>3. ASSUME NEW q \in Procs, ReadLock(q) PROVE Alone(p)'
  <2>1. CASE q = p
    <3>1. p \in clean /\ pc'[p] \in {"unlocked", "unlink"} /\ \A x \in Procs \ {p} : pc'[x] = pc[x]
      BY <1>3, <2>1 DEF ReadLock, Ends
    <3>2. (p \in Inside \union Working)' /\ (pc'[p] \in Acquiring => Inside' = {p})
      <4>1. \A x \in Procs \ {p} : x \notin Inside
        BY <1>3, <2>1, <3>1 DEF ReadLock
      <4>2. CASE pc'[p] = "unlocked"
        BY <4>2
      <4>3. CASE pc'[p] = "unlink"
        <5>1. p \in Inside' /\ \A x \in Procs \ {p} : x \notin Inside'
          BY <3>1, <4>1, <4>3
        <5>2. Inside' = {p}
          BY <5>1
        <5> QED
          BY <5>1, <5>2
      <4> QED
        BY <3>1, <4>2, <4>3
    <3> QED
      BY <3>1, <3>2
  <2>2. CASE q # p
    <3>1. q \in Inside /\ p \in clean /\ pc'[p] = pc[p]
      BY <1>3, <2>2 DEF ReadLock, Ends
    <3> QED
      BY <1>1, <2>2, <3>1
  <2> QED
    BY <2>1, <2>2
<1>4. ASSUME NEW q \in Procs, Unlink(q) PROVE Alone(p)'
  BY <1>4 DEF Unlink
<1>5. ASSUME NEW q \in Procs, Open(q) PROVE Alone(p)'
  <2>1. CASE q = p
    <3>1. /\ p \in clean /\ pc' = [pc EXCEPT ![p] = "write"] /\ UNCHANGED root
          /\ lock' = [lock EXCEPT ![root[p]] = [by |-> p, text |-> None, old |-> FALSE]]
      BY <1>5, <2>1 DEF Open, Ends
    <3>2. (p \in Inside \union Working)' /\ Inside' = {p}
      BY <1>5, <2>1, <3>1 DEF Open
    <3>3. Created(p)'
      <4>1. [by |-> p, text |-> None, old |-> FALSE] \in Locks
        BY DEF Locks
      <4>2. [by |-> p, text |-> None, old |-> FALSE] # None
        BY <4>1
      <4>3. root[p] \in Roots
        BY <1>5, <2>1 DEF Open
      <4> QED
        BY <3>1, <4>2, <4>3
    <3> QED
      BY <3>1, <3>2, <3>3
  <2>2. CASE q # p
    <3>1. q \in Inside /\ p \in clean /\ pc'[p] = pc[p]
      BY <1>5, <2>2 DEF Open, Ends
    <3> QED
      BY <1>1, <2>2, <3>1
  <2> QED
    BY <2>1, <2>2
<1>6. ASSUME NEW q \in Procs, Write(q) PROVE Alone(p)'
  <2>1. CASE q = p
    <3>1. /\ p \in clean /\ pc[p] = "write" /\ pc' = [pc EXCEPT ![p] = "publish"] /\ UNCHANGED root
          /\ root[p] \in Roots
          /\ lock'[root[p]] = [lock[root[p]] EXCEPT !.text = p]
      BY <1>6, <2>1 DEF Write
    <3>2. (p \in Inside \union Working)' /\ Inside' = {p}
      BY <1>6, <2>1, <3>1
    <3>3. lock[root[p]] \in Locks /\ lock[root[p]].by = p
      BY <3>1
    <3>4. Created(p)' /\ LockIsOwn(p)'
      BY <3>1, <3>3, Writing
    <3> QED
      BY <3>1, <3>2, <3>4
  <2>2. CASE q # p
    <3>1. q \in Inside /\ p \in clean /\ pc'[p] = pc[p]
      BY <1>6, <2>2 DEF Write
    <3> QED
      BY <1>1, <2>2, <3>1
  <2> QED
    BY <2>1, <2>2
<1>7. ASSUME NEW q \in Procs, Publish(q) PROVE Alone(p)'
  <2>1. CASE q = p
    <3>1. /\ p \in clean /\ pc[p] = "publish" /\ pc' = [pc EXCEPT ![p] = "list"]
          /\ root[p] \in Roots /\ UNCHANGED <<root, lock, stamp>>
          /\ entry' = [entry EXCEPT ![root[p]] = [pid |-> p, stamp |-> stamp[p]]]
      BY <1>7, <2>1 DEF Publish
    <3>2. (p \in Inside \union Working)' /\ Inside' = {p}
      BY <1>7, <2>1, <3>1
    <3>3. Entered(p)'
      <4>1. [pid |-> p, stamp |-> stamp[p]] \in Entries
        BY DEF Entries
      <4> QED
        BY <3>1, <4>1
    <3>4. Created(p)' /\ LockIsOwn(p)'
      BY <3>1
    <3> QED
      BY <3>1, <3>2, <3>3, <3>4
  <2>2. CASE q # p
    <3>1. q \in Inside /\ p \in clean /\ pc'[p] = pc[p]
      BY <1>7, <2>2 DEF Publish
    <3> QED
      BY <1>1, <2>2, <3>1
  <2> QED
    BY <2>1, <2>2
<1>8. ASSUME NEW q \in Procs, List(q) PROVE Alone(p)'
  BY <1>8 DEF List
<1>9. ASSUME NEW q \in Procs, NEW r \in Roots, Scan(q, r) PROVE Alone(p)'
  <2>1. CASE q = p
    BY <1>9, <2>1 DEF Scan
  <2>2. CASE q # p
    <3>1. q \in Inside /\ p \in clean /\ pc'[p] = pc[p]
      BY <1>9, <2>2 DEF Scan
    <3> QED
      BY <1>1, <2>2, <3>1
  <2> QED
    BY <2>1, <2>2
<1>10. ASSUME NEW q \in Procs, Sweep(q) PROVE Alone(p)'
  BY <1>10 DEF Sweep
<1>11. ASSUME NEW q \in Procs, Yield(q) PROVE Alone(p)'
  BY <1>11 DEF Yield, Ends
<1>12. ASSUME NEW q \in Procs, FirstBeat(q) PROVE Alone(p)'
  BY <1>12 DEF FirstBeat
<1>13. ASSUME NEW q \in Procs, Beat(q) PROVE Alone(p)'
  BY <1>13 DEF Beat
<1>14. ASSUME NEW q \in Procs, Leave(q) PROVE Alone(p)'
  BY <1>14 DEF Leave, Enters
<1>15. ASSUME NEW q \in Procs, DropLock(q) \/ LookEntry(q) \/ DropEntry(q) PROVE Alone(p)'
  BY <1>15 DEF DropLock, LookEntry, DropEntry, Ends
<1>16. ASSUME NEW q \in Procs, LeaveUnlocked(q) PROVE Alone(p)'
  BY <1>16 DEF LeaveUnlocked, Ends
<1>20. ASSUME NEW q \in Procs, Crash(q) PROVE Alone(p)'
  BY <1>20 DEF Crash, Ends
<1>17. ASSUME NEW q \in Procs, Recycle(q) PROVE Alone(p)'
  BY <1>17 DEF Recycle
<1>18. ASSUME NEW hung \in SUBSET beating, Pause(hung) PROVE Alone(p)'
  BY <1>18 DEF Pause
<1>19. CASE UNCHANGED vars
  BY <1>19 DEF vars
<1> HIDE DEF TypeOK, Inside, Working, Stamped, Published, Goto, memory, files, Alone, CleanAlone
<1> QED
  BY <1>2, <1>3, <1>4, <1>5, <1>6, <1>7, <1>8, <1>9, <1>10, <1>11, <1>12, <1>13, <1>14,
     <1>15, <1>16, <1>17, <1>18, <1>19, <1>20 DEF Next

LEMMA VisibleStep ==
    ASSUME TypeOK, CleanAlone, CleanOwner, [Next]_vars, NEW p \in Procs, p \in Owners', p \in clean'
    PROVE  Visible(p)'
<1> USE ProcsAssumption, NoneAssumption
    DEF TypeOK, MemoryOK, FilesOK, HistoryOK, Acquiring, Releasing, Inside, Working, Owners,
        Stamped, Published, Goto, memory, files
\* The end of an acquire alone: the files are its own, and nobody else is inside.
<1>1. ASSUME FirstBeat(p) PROVE Visible(p)'
  <2>1. Alone(p) /\ Inside = {p}
    BY <1>1 DEF FirstBeat, CleanAlone, Alone
  <2>2. \A q \in Procs \ {p} : q \notin Inside'
    BY <1>1, <2>1 DEF FirstBeat
  <2>3. Created(p)' /\ LockIsOwn(p)' /\ EntryIsOwn(p)'
    BY <1>1, <2>1 DEF FirstBeat, Alone, Created, LockIsOwn, Entered, EntryIsOwn
  <2>4. (entry[root[p]].stamp < clock)'
    BY <1>1, <2>1 DEF FirstBeat, Alone, Entered
  <2>5. (hb[root[p]] = "fresh" /\ p \in beating)'
    BY <1>1 DEF FirstBeat
  <2> QED
    BY <2>2, <2>3, <2>4, <2>5 DEF Visible, Untouched
<1>2. ASSUME p \in Owners, p \in clean, UNCHANGED <<root, lock, entry, clock, pc, aim>>,
             hb'[root[p]] = "fresh", p \in beating'
      PROVE Visible(p)'
  BY <1>2 DEF CleanOwner, Visible, Created, LockIsOwn, EntryIsOwn, Untouched
\* What the others may do next to an owner.
<1>3. ASSUME p \in Owners, p \in clean, NEW q \in Procs \ {p},
             lock'[root[p]] = lock[root[p]], entry'[root[p]] = entry[root[p]],
             hb'[root[p]] = "fresh", p \in beating', clock' \in {clock, clock + 1},
             \A x \in Procs \ {q} : pc'[x] = pc[x] /\ aim'[x] = aim[x] /\ root'[x] = root[x],
             Untouched(p, q)'
      PROVE Visible(p)'
  BY <1>3 DEF CleanOwner, Visible, Created, LockIsOwn, EntryIsOwn, Untouched
<1> USE DEF CleanOwner, Visible, Created, LockIsOwn, EntryIsOwn, Untouched
<1>4. ASSUME NEW q \in Procs, NEW r \in Roots, Begin(q, r) PROVE Visible(p)'
  <2>1. p # q /\ p \in Owners /\ p \in clean
    BY <1>4 DEF Begin, Enters
  <2>2. Untouched(p, q)'
    BY <1>4, <2>1 DEF Begin
  <2> QED
    BY <1>3, <1>4, <2>1, <2>2 DEF Begin
<1>5. ASSUME NEW q \in Procs, ReadLock(q) PROVE Visible(p)'
  <2>1. p # q /\ p \in Owners /\ p \in clean
    BY <1>5 DEF ReadLock, Ends
  <2>2. root[q] = root[p] => Defers(q, root[q])
    BY <1>5, <2>1 DEF ReadLock, Defers, PidAlive, Wedged, Abandoned
  <2>3. Untouched(p, q)'
    BY <1>5, <2>1, <2>2 DEF ReadLock, Ends
  <2> QED
    BY <1>3, <1>5, <2>1, <2>3 DEF ReadLock, Ends
<1>6. ASSUME NEW q \in Procs, Unlink(q) \/ Publish(q) PROVE Visible(p)'
  <2>1. p # q /\ p \in Owners /\ p \in clean
    BY <1>6 DEF Unlink, Publish
  <2>2. root[q] # root[p] /\ root[p] \in Roots
    BY <1>6, <2>1 DEF Unlink, Publish
  <2> QED
    BY <1>3, <1>6, <2>1, <2>2 DEF Unlink, Publish
<1>7. ASSUME NEW q \in Procs, Open(q) PROVE Visible(p)'
  <2>1. p # q /\ p \in Owners /\ p \in clean
    BY <1>7 DEF Open, Ends
  <2>2. root[q] # root[p] /\ root[p] \in Roots
    BY <1>7, <2>1 DEF Open
  <2> QED
    BY <1>3, <1>7, <2>1, <2>2 DEF Open, Ends
<1>8. ASSUME NEW q \in Procs, Write(q) PROVE Visible(p)'
  <2>1. p # q /\ p \in Owners /\ p \in clean
    BY <1>8 DEF Write
  <2>2. root[q] # root[p] /\ root[p] \in Roots
    BY <1>8, <2>1 DEF Write
  <2>3. lock'[root[p]] = lock[root[p]]
    BY <1>8, <2>1, <2>2 DEF Write
  <2> QED
    BY <1>3, <1>8, <2>1, <2>2, <2>3 DEF Write
<1>9. ASSUME NEW q \in Procs, List(q) PROVE Visible(p)'
  BY <1>3, <1>9 DEF List
<1>10. ASSUME NEW q \in Procs, NEW r \in Roots, Scan(q, r) PROVE Visible(p)'
  <2>1. p # q /\ p \in Owners /\ p \in clean
    BY <1>10 DEF Scan
  <2>2. root[q] # root[p] /\ root[p] \in Roots
    BY <1>10, <2>1 DEF Scan
  <2>3. r = root[p] => ~DeadEntry(q, r)
    BY <1>10, <2>1 DEF DeadEntry, PidAlive, Wedged, Abandoned
  <2>4. Untouched(p, q)'
    BY <1>10, <2>1, <2>2, <2>3 DEF Scan
  <2> QED
    BY <1>3, <1>10, <2>1, <2>4 DEF Scan
<1>11. ASSUME NEW q \in Procs, Sweep(q) PROVE Visible(p)'
  <2>1. p # q /\ p \in Owners /\ p \in clean
    BY <1>11 DEF Sweep
  <2>2. root[q] # root[p] /\ root[p] \in Roots /\ aim[q] # root[p]
    BY <1>11, <2>1 DEF Sweep
  <2> QED
    BY <1>3, <1>11, <2>1, <2>2 DEF Sweep
<1>12. ASSUME NEW q \in Procs, Yield(q) PROVE Visible(p)'
  <2>1. p # q /\ p \in Owners /\ p \in clean
    BY <1>12 DEF Yield, Ends
  <2>2. root[q] # root[p] /\ root[p] \in Roots
    BY <1>12, <2>1 DEF Yield
  <2> QED
    BY <1>3, <1>12, <2>1, <2>2 DEF Yield, Ends
<1>13. ASSUME NEW q \in Procs \ {p}, FirstBeat(q) PROVE Visible(p)'
  BY <1>3, <1>13 DEF FirstBeat
<1>14. ASSUME NEW q \in Procs, Beat(q) PROVE Visible(p)'
  BY <1>2, <1>14 DEF Beat
<1>15. ASSUME NEW q \in Procs, Leave(q) PROVE Visible(p)'
  <2>1. p # q /\ p \in Owners /\ p \in clean
    BY <1>15 DEF Leave, Enters
  <2>2. Untouched(p, q)'
    BY <1>15, <2>1 DEF Leave
  <2> QED
    BY <1>3, <1>15, <2>1, <2>2 DEF Leave
<1>16. ASSUME NEW q \in Procs, DropLock(q) \/ DropEntry(q) PROVE Visible(p)'
  <2>1. p # q /\ p \in Owners /\ p \in clean
    BY <1>16 DEF DropLock, DropEntry, Ends
  <2>2. root[q] # root[p] /\ root[p] \in Roots
    BY <1>16, <2>1 DEF DropLock, DropEntry
  <2> QED
    BY <1>3, <1>16, <2>1, <2>2 DEF DropLock, DropEntry, Ends
<1>17. ASSUME NEW q \in Procs, LookEntry(q) PROVE Visible(p)'
  <2>1. p # q /\ p \in Owners /\ p \in clean
    BY <1>17 DEF LookEntry, Ends
  <2>2. Untouched(p, q)'
    BY <1>17, <2>1 DEF LookEntry, Ends
  <2> QED
    BY <1>3, <1>17, <2>1, <2>2 DEF LookEntry, Ends
<1>18. ASSUME NEW q \in Procs, LeaveUnlocked(q) \/ Crash(q) PROVE Visible(p)'
  <2>1. p # q /\ p \in Owners /\ p \in clean
    BY <1>18 DEF LeaveUnlocked, Crash, Ends
  <2> QED
    BY <1>3, <1>18, <2>1 DEF LeaveUnlocked, Crash, Ends
<1>19. ASSUME NEW hung \in SUBSET beating, Pause(hung) PROVE Visible(p)'
  <2>1. p \in Owners /\ p \in clean /\ p \in beating \ hung /\ root[p] \in Roots
    BY <1>19 DEF Pause
  <2>2. lock[root[p]] \in Locks /\ lock'[root[p]] = [lock[root[p]] EXCEPT !.old = TRUE]
    BY <1>19, <2>1 DEF Pause
  <2>3. Created(p)' /\ LockIsOwn(p)'
    BY <1>19, <2>1, <2>2, Aging DEF Pause
  <2>4. hb'[root[p]] = "fresh" /\ p \in beating' /\ UNCHANGED <<pc, root, entry, aim, clock>>
    BY <1>19, <2>1 DEF Pause
  <2> QED
    BY <2>1, <2>3, <2>4
<1>20. CASE UNCHANGED vars \/ \E q \in Procs : Recycle(q)
  BY <1>2, <1>20 DEF Recycle, vars
<1> HIDE DEF TypeOK, Inside, Working, Owners, Stamped, Published, Goto, memory, files,
             CleanOwner, Visible
<1> QED
  BY <1>1, <1>4, <1>5, <1>6, <1>7, <1>8, <1>9, <1>10, <1>11, <1>12, <1>13, <1>14,
     <1>15, <1>16, <1>17, <1>18, <1>19, <1>20 DEF Next

LEMMA CleanHolds == Spec => [](CleanAlone /\ CleanOwner)
<1>1. Init => CleanAlone /\ CleanOwner
  BY DEF Init, CleanAlone, CleanOwner
<1>2. CleanAlone /\ TypeOK /\ [Next]_vars => CleanAlone'
  BY AloneStep, LockTypeStep DEF CleanAlone, TypeOK, HistoryOK
<1>3. CleanOwner /\ CleanAlone /\ TypeOK /\ [Next]_vars => CleanOwner'
  BY VisibleStep, LockTypeStep DEF CleanOwner, TypeOK, HistoryOK
<1> QED
  BY <1>1, <1>2, <1>3, LockTypeCorrect, PTL DEF Spec

\* The lock and the entry of a clean owner name it and its heartbeat is fresh: the
\* launches around it find a live holder at every look, and what they remove is
\* not its own.
THEOREM OwnerVisibleHolds == Spec => []OwnerVisible
<1>1. CleanOwner => OwnerVisible
  BY DEF CleanOwner, Visible, OwnerVisible
<1> QED
  BY <1>1, CleanHolds, PTL

-----------------------------------------------------------------------------
(* Latecomers.                                                              *)

\* The entry of a clean owner stays as it was published.
LEMMA EntryStays ==
    ASSUME TypeOK, CleanOwner, [Next]_vars, NEW q \in Owners \intersect clean
    PROVE  entry'[root[q]] = entry[root[q]]
<1> USE DEF TypeOK, MemoryOK, FilesOK, Acquiring, Releasing, Inside, Owners, files, memory
<1>1. ASSUME NEW x \in Procs, Publish(x) \/ Sweep(x) \/ Yield(x) \/ DropEntry(x)
      PROVE entry'[root[q]] = entry[root[q]]
  <2>1. x # q /\ Untouched(q, x) /\ root[q] \in Roots
    BY <1>1 DEF Publish, Sweep, Yield, DropEntry, CleanOwner, Visible, Working
  <2>2. IF Sweep(x) THEN aim[x] # root[q] ELSE root[x] # root[q]
    BY <1>1, <2>1 DEF Publish, Sweep, Yield, DropEntry, Untouched
  <2>3. CASE Sweep(x)
    BY <2>1, <2>2, <2>3 DEF Sweep
  <2>4. CASE Publish(x)
    BY <2>1, <2>2, <2>4 DEF Publish, Sweep
  <2>5. CASE Yield(x) \/ DropEntry(x)
    BY <2>1, <2>2, <2>5 DEF Yield, DropEntry, Sweep
  <2> QED
    BY <1>1, <2>3, <2>4, <2>5
<1>2. ASSUME NEW x \in Procs, NEW r \in Roots,
             \/ Begin(x, r) \/ Scan(x, r) \/ ReadLock(x) \/ Unlink(x) \/ Open(x) \/ Write(x)
             \/ List(x) \/ FirstBeat(x)
      PROVE UNCHANGED entry
  BY <1>2 DEF Begin, Scan, ReadLock, Unlink, Open, Write, List, FirstBeat
<1>3. ASSUME NEW x \in Procs,
             \/ Beat(x) \/ Leave(x) \/ LeaveUnlocked(x) \/ DropLock(x)
             \/ LookEntry(x) \/ Crash(x) \/ Recycle(x)
      PROVE UNCHANGED entry
  BY <1>3 DEF Beat, Leave, LeaveUnlocked, DropLock, LookEntry, Crash, Recycle
<1>4. (\E hung \in SUBSET beating : Pause(hung)) \/ UNCHANGED vars => UNCHANGED entry
  BY DEF Pause, vars
<1>5. root[q] \in Roots
  BY DEF Working
<1> HIDE DEF TypeOK, MemoryOK, FilesOK, Acquiring, Releasing, Inside, Owners, files, memory
<1> QED
  BY <1>1, <1>2, <1>3, <1>4, <1>5 DEF Next

LEMMA MeetsStep ==
    ASSUME TypeOK, CleanOwner, LateMet, [Next]_vars, NEW p \in Procs, NEW q \in late'[p]
    PROVE  Meets(p, q)'
<1> USE DEF TypeOK, MemoryOK, FilesOK, HistoryOK, Acquiring, Releasing, Inside, Working, Owners,
        Stamped, Goto, memory, files
<1>1. ASSUME NEW r \in Roots, Begin(p, r) PROVE Meets(p, q)'
  <2>1. q \in Owners /\ q \in clean /\ q # p /\ <<r, root[q]>> \in Overlap
    BY <1>1 DEF Begin
  <2>2. q \in clean' /\ pc'[q] = "own" /\ root'[q] = root[q]
    BY <1>1, <2>1 DEF Begin, Enters
  <2> QED
    BY <1>1, <2>1, <2>2 DEF Begin, Meets
\* Both stay where they are, or p goes on acquiring.
<1>2. ASSUME q \in late[p], q \in clean', pc'[q] = pc[q], root'[q] = root[q], root'[p] = root[p],
             pc'[p] \in {pc[p], "unlink", "open", "write", "list", "unlocked", "yield"},
             pc[p] \notin Acquiring => pc'[p] = pc[p],
             p \in Stamped' => p \in Stamped,
             stamp'[p] = stamp[p],
             todo'[p] = todo[p]
      PROVE Meets(p, q)'
  BY <1>2, EntryStays DEF LateMet, Meets
<1> USE DEF LateMet, Meets
<1>3. ASSUME NEW x \in Procs \ {p}, NEW r \in Roots, Begin(x, r) PROVE Meets(p, q)'
  BY <1>2, <1>3 DEF Begin, Enters
<1>4. ASSUME NEW x \in Procs, ReadLock(x) PROVE Meets(p, q)'
  BY <1>2, <1>4 DEF ReadLock, Ends
<1>5. ASSUME NEW x \in Procs, Unlink(x) \/ Publish(x) PROVE Meets(p, q)'
  BY <1>2, <1>5 DEF Unlink, Publish
<1>6. ASSUME NEW x \in Procs, Open(x) \/ Yield(x) PROVE Meets(p, q)'
  BY <1>2, <1>6 DEF Open, Yield, Ends
<1>7. ASSUME NEW x \in Procs, Write(x) PROVE Meets(p, q)'
  <2>1. CASE x # p
    BY <1>2, <1>7, <2>1 DEF Write
  <2>2. CASE x = p
    <3>1. q \in late[p] /\ q \in Owners \intersect clean /\ q # p
      BY <1>7, <2>2 DEF Write
    <3>2. entry'[root[q]].stamp < clock
      BY <3>1, EntryStays DEF CleanOwner, Visible
    <3>3. root[q] \in Roots /\ entry[root[q]].stamp \in Nat
      BY <3>1 DEF CleanOwner, Visible, EntryIsOwn
    <3>4. stamp'[p] \in {clock, clock + 1} /\ UNCHANGED <<entry, root, clean>> /\ pc'[q] = pc[q]
          /\ pc[p] = "write" /\ pc'[p] = "publish"
      BY <1>7, <2>2, <3>1 DEF Write
    <3>5. (entry[root[q]].stamp < stamp[p])'
      BY <3>2, <3>3, <3>4
    <3>6. <<root[p], root[q]>> \in Overlap
      BY <3>1, <3>4
    <3> QED
      BY <3>1, <3>4, <3>5, <3>6
  <2> QED
    BY <2>1, <2>2
<1>8. ASSUME NEW x \in Procs, List(x) PROVE Meets(p, q)'
  <2>1. CASE x # p
    BY <1>2, <1>8, <2>1 DEF List
  <2>2. CASE x = p
    <3>1. q \in late[p] /\ q \in Owners \intersect clean /\ q # p /\ root[q] \in Roots
      BY <1>8, <2>2 DEF List
    <3>2. entry[root[q]] # None
      BY <3>1 DEF CleanOwner, Visible, EntryIsOwn
    <3> QED
      BY <1>8, <2>2, <3>1, <3>2 DEF List
  <2> QED
    BY <2>1, <2>2
<1>9. ASSUME NEW x \in Procs, NEW r \in Roots, Scan(x, r) PROVE Meets(p, q)'
  <2>1. CASE x # p
    BY <1>2, <1>9, <2>1 DEF Scan
  <2>2. CASE x = p
    <3>1. q \in late[p] /\ q \in Owners \intersect clean /\ q # p /\ root[q] \in Roots
      BY <1>9, <2>2 DEF Scan
    <3>2. /\ entry[root[q]] # None /\ entry[root[q]].pid = q
          /\ ~DeadEntry(p, root[q]) /\ YieldsTo(p, root[q])
      BY <1>9, <2>2, <3>1 DEF Scan, CleanOwner, Visible, EntryIsOwn, LockIsOwn, DeadEntry,
         PidAlive, Abandoned, Wedged, YieldsTo, Older
    <3>3. CASE r = root[q]
      BY <1>9, <2>2, <3>1, <3>2, <3>3 DEF Scan
    <3>4. CASE r # root[q]
      BY <1>9, <2>2, <3>1, <3>4 DEF Scan
    <3> QED
      BY <3>3, <3>4
  <2> QED
    BY <2>1, <2>2
<1>10. ASSUME NEW x \in Procs, Sweep(x) PROVE Meets(p, q)'
  <2>1. CASE x # p
    BY <1>2, <1>10, <2>1 DEF Sweep
  <2>2. CASE x = p
    <3>1. q \in late[p] /\ q \in Owners \intersect clean /\ q # p
      BY <1>10, <2>2 DEF Sweep
    <3> QED
      BY <1>10, <2>2, <3>1, EntryStays DEF Sweep
  <2> QED
    BY <2>1, <2>2
<1>11. ASSUME NEW x \in Procs, FirstBeat(x) \/ Beat(x) PROVE Meets(p, q)'
  BY <1>2, <1>11 DEF FirstBeat, Beat
<1>12. ASSUME NEW x \in Procs, Leave(x) PROVE Meets(p, q)'
  BY <1>2, <1>12 DEF Leave, Enters, NoLongerMet
<1>13. ASSUME NEW x \in Procs, DropLock(x) \/ LookEntry(x) \/ DropEntry(x) PROVE Meets(p, q)'
  BY <1>2, <1>13 DEF DropLock, LookEntry, DropEntry, Ends
<1>14. ASSUME NEW x \in Procs, LeaveUnlocked(x) \/ Crash(x) \/ Recycle(x) PROVE Meets(p, q)'
  BY <1>2, <1>14 DEF LeaveUnlocked, Crash, Ends, Recycle
<1>15. ASSUME NEW hung \in SUBSET beating, Pause(hung) PROVE Meets(p, q)'
  BY <1>2, <1>15 DEF Pause, NoLongerMet
<1>16. CASE UNCHANGED vars
  BY <1>2, <1>16 DEF vars
<1> HIDE DEF TypeOK, MemoryOK, FilesOK, HistoryOK, Acquiring, Releasing, Inside, Working, Owners,
        Stamped, Goto, memory, files, LateMet, Meets
<1> QED
  BY <1>1, <1>3, <1>4, <1>5, <1>6, <1>7, <1>8, <1>9, <1>10, <1>11, <1>12, <1>13, <1>14,
     <1>15, <1>16 DEF Next

\* A delivery launched on an overlapping root while a healthy run owns its tree
\* does not come to own it: on the same root it finds the lock, on another one the
\* older entry.
THEOREM NoLatecomerHolds == Spec => []NoLatecomer
<1>1. Init => LateMet
  BY DEF Init, LateMet
<1>2. LateMet /\ CleanOwner /\ TypeOK /\ [Next]_vars => LateMet'
  BY MeetsStep DEF LateMet
<1>3. LateMet /\ TypeOK => NoLatecomer
  BY DEF LateMet, Meets, NoLatecomer, Owners, TypeOK, HistoryOK
<1> QED
  BY <1>1, <1>2, <1>3, LockTypeCorrect, CleanHolds, PTL DEF Spec

-----------------------------------------------------------------------------
(* Collisions.                                                              *)

\* While nobody has come further than acquire, these are the steps there are.
Acquires(p) ==
    \/ \E r \in Roots : Begin(p, r) \/ Scan(p, r)
    \/ ReadLock(p) /\ pc'[p] # "unlocked"
    \/ Unlink(p) \/ Open(p) \/ Write(p) \/ Publish(p) \/ List(p) \/ Sweep(p) \/ Yield(p)

LEMMA OnlyAcquires ==
    ASSUME TypeOK, [Next]_vars, NoneYet'
    PROVE  /\ NoneYet
           /\ \/ \E p \in Procs : Acquires(p)
              \/ \E hung \in SUBSET beating : Pause(hung)
              \/ UNCHANGED vars
<1> USE DEF TypeOK, MemoryOK, NoneYet, Acquiring, Releasing, Goto, Ends, Working, Inside
<1>1. ASSUME NEW p \in Procs, NEW r \in Roots, Begin(p, r) \/ Scan(p, r) PROVE NoneYet
  BY <1>1 DEF Begin, Scan
<1>2. ASSUME NEW p \in Procs, ReadLock(p) PROVE NoneYet /\ pc'[p] # "unlocked"
  BY <1>2 DEF ReadLock
<1>3. ASSUME NEW p \in Procs, Unlink(p) \/ Open(p) \/ Write(p) \/ Publish(p) PROVE NoneYet
  BY <1>3 DEF Unlink, Open, Write, Publish
<1>4. ASSUME NEW p \in Procs, List(p) \/ Sweep(p) \/ Yield(p) PROVE NoneYet
  BY <1>4 DEF List, Sweep, Yield
<1>5. ASSUME NEW p \in Procs, FirstBeat(p) \/ Beat(p) \/ Leave(p) \/ LeaveUnlocked(p) PROVE FALSE
  BY <1>5 DEF FirstBeat, Beat, Leave, LeaveUnlocked
<1>6. ASSUME NEW p \in Procs, DropLock(p) \/ LookEntry(p) \/ DropEntry(p) PROVE FALSE
  BY <1>6 DEF DropLock, LookEntry, DropEntry
<1>7. ASSUME NEW p \in Procs, Crash(p) \/ Recycle(p) PROVE FALSE
  BY <1>7 DEF Crash, Recycle
<1>8. (\E hung \in SUBSET beating : Pause(hung)) \/ UNCHANGED vars => NoneYet
  BY DEF Pause, vars
<1> HIDE DEF TypeOK, MemoryOK, NoneYet, Acquiring, Releasing, Goto, Ends, Working, Inside
<1> QED
  BY <1>1, <1>2, <1>3, <1>4, <1>5, <1>6, <1>7, <1>8 DEF Next, Acquires

LEMMA FilesStep ==
    ASSUME TypeOK, FilesOfThoseInside, NEW p \in Procs, Acquires(p), NoneYet', NEW r \in Roots
    PROVE  OfOneInside(r)'
<1> USE NoneAssumption DEF TypeOK, MemoryOK, FilesOK, Acquiring, Inside, Goto, memory, files,
        Stamped, Published, FilesOfThoseInside, OfOneInside
\* p has made no file, or keeps what its files say.
<1>0. ASSUME UNCHANGED <<lock, entry>>,
             \A q \in Procs \ {p} : pc'[q] = pc[q] /\ root'[q] = root[q] /\ stamp'[q] = stamp[q],
             \/ p \notin Stamped /\ pc[p] # "write"
             \/ p \in Published' /\ root'[p] = root[p] /\ stamp'[p] = stamp[p]
      PROVE OfOneInside(r)'
  <2>1. lock[r] # None => lock[r].by \in Procs
    BY DEF Locks
  <2>2. entry[r] # None => entry[r].pid \in Procs
    OBVIOUS
  <2>3. CASE p \notin Stamped /\ pc[p] # "write"
    BY <1>0, <2>1, <2>2, <2>3
  <2>4. CASE p \in Published' /\ root'[p] = root[p] /\ stamp'[p] = stamp[p]
    BY <1>0, <2>1, <2>2, <2>4
  <2> QED
    BY <1>0, <2>3, <2>4
<1>1. ASSUME NEW s \in Roots, Begin(p, s) PROVE OfOneInside(r)'
  BY <1>1 DEF Begin
<1>2. ASSUME NEW s \in Roots, Scan(p, s) PROVE OfOneInside(r)'
  BY <1>0, <1>2 DEF Scan
<1>3. CASE ReadLock(p) /\ pc'[p] # "unlocked"
  <2>1. UNCHANGED <<lock, entry>> /\ p \notin Stamped /\ pc[p] # "write"
    BY <1>3 DEF ReadLock
  <2>2. \A q \in Procs \ {p} : pc'[q] = pc[q] /\ root'[q] = root[q] /\ stamp'[q] = stamp[q]
    BY <1>3 DEF ReadLock, Ends
  <2> QED
    BY <1>0, <2>1, <2>2
<1>4. CASE Unlink(p)
  BY <1>4 DEF Unlink
<1>5. CASE Open(p)
  <2>1. CASE Ends(p, "refused") /\ UNCHANGED lock
    <3>1. \A q \in Procs \ {p} : pc'[q] = pc[q] /\ root'[q] = root[q] /\ stamp'[q] = stamp[q]
      BY <2>1 DEF Ends
    <3>2. UNCHANGED <<lock, entry>> /\ p \notin Stamped /\ pc[p] # "write"
      BY <1>5, <2>1 DEF Open
    <3> QED
      BY <1>0, <3>1, <3>2
  <2>2. ASSUME lock' = [lock EXCEPT ![root[p]] = [by |-> p, text |-> None, old |-> FALSE]],
               Goto(p, "write"), UNCHANGED memory
        PROVE OfOneInside(r)'
    <3>1. /\ pc[p] = "open" /\ root[p] \in Roots /\ pc' = [pc EXCEPT ![p] = "write"]
          /\ UNCHANGED <<root, stamp, entry>>
      BY <1>5, <2>2 DEF Open
    <3>2. lock[r] # None => lock[r].by \in Procs
      BY DEF Locks
    <3>3. CASE r = root[p]
      BY <2>2, <3>1, <3>3
    <3>4. CASE r # root[p]
      BY <2>2, <3>1, <3>2, <3>4
    <3> QED
      BY <3>3, <3>4
  <2> QED
    BY <1>5, <2>1, <2>2 DEF Open
<1>6. CASE Write(p)
  BY <1>6 DEF Write
<1>7. CASE Publish(p)
  BY <1>7 DEF Publish
<1>8. CASE List(p)
  BY <1>8 DEF List
<1>9. CASE Sweep(p)
  BY <1>9 DEF Sweep
<1>10. CASE Yield(p)
  BY <1>10 DEF Yield, Ends
<1> QED
  BY <1>1, <1>2, <1>3, <1>4, <1>5, <1>6, <1>7, <1>8, <1>9, <1>10 DEF Acquires

LEMMA StampsOrdered ==
    \A x, y, a, b \in Int : x # y =>
        ((a < b \/ (a = b /\ x < y)) <=> ~(b < a \/ (b = a /\ y < x)))
  OBVIOUS

LEMMA StaysStep ==
    ASSUME TypeOK, FilesOfThoseInside, SomeoneStays, NEW p \in Procs, Acquires(p), NoneYet'
    PROVE  SomeoneStays'
<1> USE ProcsAssumption, NoneAssumption
    DEF TypeOK, MemoryOK, FilesOK, Acquiring, Inside, Goto, memory, files, Stamped, SomeoneStays,
        Oldest, Before
\* p is not stamped, and if it is refused it met the file of somebody inside.
<1>1. ASSUME p \notin Stamped, pc[p] # "write", p \notin Stamped',
             \A q \in Procs \ {p} : pc'[q] = pc[q] /\ stamp'[q] = stamp[q],
             pc'[p] = "refused" => \E q \in Procs : pc[q] = "write" \/ q \in Stamped
      PROVE SomeoneStays'
  BY <1>1
\* p is stamped and goes on.
<1>2. ASSUME p \in Stamped, p \in Stamped', UNCHANGED stamp,
             \A q \in Procs \ {p} : pc'[q] = pc[q],
             pc'[p] = "yield" => ~Oldest(p)
      PROVE SomeoneStays'
  <2>1. PICK m \in Stamped : Oldest(m) /\ pc[m] # "yield"
    BY <1>2
  <2>2. Stamped' = Stamped
    BY <1>2
  <2>3. Oldest(m)' /\ pc'[m] # "yield"
    BY <1>2, <2>1, <2>2
  <2> QED
    BY <2>1, <2>2, <2>3
<1>3. ASSUME lock[root[p]] # None, root[p] \in Roots
      PROVE \E q \in Procs : pc[q] = "write" \/ q \in Stamped
  <2>1. lock[root[p]].by \in Procs
    BY <1>3 DEF Locks
  <2> QED
    BY <1>3, <2>1 DEF FilesOfThoseInside, OfOneInside
<1>4. ASSUME NEW r \in Roots, Begin(p, r) PROVE SomeoneStays'
  BY <1>1, <1>4 DEF Begin
<1>5. CASE ReadLock(p) /\ pc'[p] # "unlocked"
  <2>1. /\ pc[p] = "read" /\ pc'[p] \in {"refused", "unlink"}
        /\ lock[root[p]] # None /\ root[p] \in Roots
        /\ \A q \in Procs \ {p} : pc'[q] = pc[q] /\ stamp'[q] = stamp[q]
    BY <1>5 DEF ReadLock, Ends
  <2> QED
    BY <1>1, <1>3, <2>1
<1>6. CASE Unlink(p)
  BY <1>1, <1>6 DEF Unlink
<1>7. CASE Open(p)
  <2>1. /\ pc[p] = "open" /\ pc'[p] \in {"refused", "write"}
        /\ pc'[p] = "refused" => lock[root[p]] # None /\ root[p] \in Roots
        /\ \A q \in Procs \ {p} : pc'[q] = pc[q] /\ stamp'[q] = stamp[q]
    BY <1>7 DEF Open, Ends
  <2> QED
    BY <1>1, <1>3, <2>1
<1>8. CASE Write(p)
  <2>1. /\ pc[p] = "write" /\ pc' = [pc EXCEPT ![p] = "publish"]
        /\ \A q \in Procs \ {p} : stamp'[q] = stamp[q]
    BY <1>8 DEF Write
  <2>2. Stamped' = Stamped \cup {p} /\ stamp'[p] \in Nat /\ p \in Stamped'
    BY <1>8, <2>1 DEF Write
  <2>3. \E m \in Stamped' : Oldest(m)' /\ pc'[m] # "yield"
    <3>1. CASE Stamped = {}
      BY <2>1, <2>2, <3>1
    <3>2. CASE Stamped # {}
      <4>1. PICK m \in Stamped : Oldest(m) /\ pc[m] # "yield"
        BY <3>2
      <4>2. m # p /\ m \in Int /\ p \in Int /\ stamp[m] \in Nat
        BY <2>1, <4>1
      <4>3. CASE Before(m, p)'
        BY <2>1, <2>2, <4>1, <4>2, <4>3
      <4>4. CASE ~Before(m, p)'
        <5>1. Before(p, m)'
          <6>1. m \in Int /\ p \in Int /\ stamp'[m] \in Int /\ stamp'[p] \in Int /\ m # p
            BY <2>1, <2>2, <4>1, <4>2
          <6> HIDE DEF TypeOK, SomeoneStays, Stamped
          <6> QED
            BY <4>4, <6>1, StampsOrdered
        <5>2. \A q \in Stamped' \ {p} : Before(p, q)'
          BY <2>1, <2>2, <4>1, <4>2, <5>1
        <5> QED
          BY <2>1, <2>2, <5>2
      <4> QED
        BY <4>3, <4>4
    <3> QED
      BY <3>1, <3>2
  <2> QED
    BY <2>2, <2>3
<1>9. CASE Publish(p) \/ List(p)
  BY <1>2, <1>9 DEF Publish, List
<1>10. ASSUME NEW r \in Roots, Scan(p, r) PROVE SomeoneStays'
  <2>1. ASSUME pc'[p] = "yield" PROVE ~Oldest(p)
    <3>1. entry[r] # None /\ entry[r].pid # p /\ Older(entry[r], p)
      BY <1>10, <2>1 DEF Scan, YieldsTo
    <3>2. /\ entry[r].pid \in Published /\ entry[r].pid \in Procs
          /\ entry[r].stamp = stamp[entry[r].pid]
      BY <3>1 DEF FilesOfThoseInside, OfOneInside, Published
    <3>3. Before(entry[r].pid, p)
      BY <3>1, <3>2 DEF Older
    <3>4. entry[r].pid \in Stamped \ {p}
      BY <3>1, <3>2 DEF Published
    <3>5. ASSUME NEW q \in Procs, q # p, Before(q, p) PROVE ~Before(p, q)
      <4>1. q \in Int /\ p \in Int /\ stamp[q] \in Int /\ stamp[p] \in Int
        OBVIOUS
      <4> HIDE DEF TypeOK, SomeoneStays, Stamped
      <4> QED
        BY <3>5, <4>1, StampsOrdered
    <3> HIDE DEF Before, TypeOK, Stamped
    <3> QED
      BY <3>1, <3>2, <3>3, <3>4, <3>5
  <2> QED
    BY <1>2, <1>10, <2>1 DEF Scan
<1>11. CASE Sweep(p)
  BY <1>2, <1>11 DEF Sweep
<1>12. CASE Yield(p)
  <2>1. PICK m \in Stamped : Oldest(m) /\ pc[m] # "yield"
    BY <1>12 DEF Yield
  <2>2. /\ m # p /\ pc' = [pc EXCEPT ![p] = "refused"]
        /\ \A q \in Procs \ {p} : stamp'[q] = stamp[q]
    BY <1>12, <2>1 DEF Yield, Ends
  <2> QED
    BY <2>1, <2>2
<1> HIDE DEF TypeOK, Stamped, SomeoneStays
<1> QED
  BY <1>4, <1>5, <1>6, <1>7, <1>8, <1>9, <1>10, <1>11, <1>12 DEF Acquires

\* Of launches that collide one owns its tree or did: nobody steps aside but for
\* somebody inside, and the oldest of the stamped finds no older entry.
THEOREM NotAllYieldHolds == Spec => []NotAllYield
<1>1. Init => NotYetDecided
  BY DEF Init, NotYetDecided, FilesOfThoseInside, OfOneInside, SomeoneStays, Stamped
<1>2. TypeOK /\ NotYetDecided /\ [Next]_vars => NotYetDecided'
  <2> SUFFICES ASSUME TypeOK, NotYetDecided, [Next]_vars, NoneYet'
               PROVE  FilesOfThoseInside' /\ SomeoneStays'
    BY DEF NotYetDecided
  <2>1. FilesOfThoseInside /\ SomeoneStays
    BY OnlyAcquires DEF NotYetDecided
  <2>2. ASSUME NEW p \in Procs, Acquires(p) PROVE FilesOfThoseInside' /\ SomeoneStays'
    BY <2>1, <2>2, FilesStep, StaysStep DEF FilesOfThoseInside
  <2>3. ASSUME NEW hung \in SUBSET beating, Pause(hung) PROVE FilesOfThoseInside' /\ SomeoneStays'
    <3>1. /\ UNCHANGED <<pc, root, stamp, entry>>
          /\ \A r \in Roots : lock'[r] # None => lock[r] \in Locks /\ lock[r] # None /\ lock'[r].by = lock[r].by
      BY <2>3, Aging DEF Pause, TypeOK, FilesOK
    <3> QED
      BY <2>1, <3>1 DEF FilesOfThoseInside, OfOneInside, SomeoneStays, Oldest, Before, Stamped,
         Published
  <2>4. CASE UNCHANGED vars
    BY <2>1, <2>4 DEF vars, files, FilesOfThoseInside, OfOneInside, SomeoneStays, Oldest, Before,
       Stamped, Published
  <2> QED
    BY <2>2, <2>3, <2>4, OnlyAcquires
<1>3. TypeOK /\ NotYetDecided => NotAllYield
  <2> SUFFICES ASSUME TypeOK, NotYetDecided, Inside = {},
                      NEW p \in Procs, pc[p] = "refused"
               PROVE  \E q \in Procs : pc[q] \in {"own", "unlocked", "gone", "dead"}
    BY DEF NotAllYield
  <2>1. \A q \in Procs : pc[q] \notin Acquiring \union Releasing
    BY DEF Inside
  <2>2. ~SomeoneStays
    BY <2>1 DEF SomeoneStays, Stamped, Acquiring
  <2>3. ~NoneYet
    BY <2>2 DEF NotYetDecided
  <2> QED
    BY <2>1, <2>3 DEF NoneYet, TypeOK, MemoryOK
<1> QED
  BY <1>1, <1>2, <1>3, LockTypeCorrect, PTL DEF Spec
================================================================================
