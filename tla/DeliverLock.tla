---- MODULE DeliverLock ----
(***************************************************************************)
(* The lock that keeps one live delivery per source tree                   *)
(* (src/src/cli/deliver.ts, acquireDeliverLock, and                        *)
(* src/src/delivery/heartbeat.ts).  Processes on one machine share, per    *)
(* project root, the file .uap/deliver.lock (pid and start stamp) and the  *)
(* file .uap/deliver.heartbeat, and, for the whole machine, a directory    *)
(* with one entry per root.  No file is read and written in one step, so   *)
(* every file operation is an action and the processes interleave between  *)
(* them.  Two roots overlap when they are equal or one contains the other. *)
(***************************************************************************)
EXTENDS Integers, FiniteSets

CONSTANTS Procs,    \* pids, numbers: the last tie is broken by the smaller one
          Roots,    \* project roots
          Overlap,  \* the pairs of roots that share a subtree
          RootsOf,  \* the roots each process may be launched on
          None

Locks == [by : Procs, text : Procs \union {None}, old : BOOLEAN]
Entries == [pid : Procs, stamp : Nat]

ASSUME ProcsAssumption == Procs \subseteq Int
ASSUME NoneAssumption == None \notin Procs \union Roots \union Locks \union Entries
ASSUME RootsAssumption ==
    /\ Overlap \subseteq Roots \X Roots
    /\ \A r \in Roots : <<r, r>> \in Overlap
    /\ \A r, s \in Roots : <<r, s>> \in Overlap => <<s, r>> \in Overlap
    /\ RootsOf \in [Procs -> SUBSET Roots]

VARIABLES
    pc,        \* where each process stands in acquireDeliverLock or in release
    root,      \* the root it was launched on
    stamp,     \* startedIso: the stamp it publishes, 0 before it has one
    todo,      \* entries of the registry it has listed and not yet judged
    aim,       \* the entry it has decided to sweep
    lock,      \* per root, the lock file: who created it, the pid in it, its age
    entry,     \* per root, the entry in the registry of active runs
    hb,        \* per root, the heartbeat: none, fresh, or older than the timeout
    clock,     \* milliseconds, as far as two stamps tell them apart
    beating,   \* owners that get on with their work and stamp heartbeats
    recycled,  \* dead processes whose pid names an unrelated process by now
    clean,     \* history: alone inside acquire or release, and never hung since
    late       \* history: the clean and healthy owners a process found on arrival

files == <<lock, entry, hb>>
vars == <<pc, root, stamp, todo, aim, lock, entry, hb, clock, beating, recycled, clean, late>>

Acquiring == {"read", "unlink", "open", "write", "publish", "list", "scan", "sweep", "yield"}
Releasing == {"drop_lock", "look_entry", "drop_entry"}
Inside == {p \in Procs : pc[p] \in Acquiring \union Releasing}
Owners == {p \in Procs : pc[p] = "own"}
Working == {p \in Procs : pc[p] \in {"own", "unlocked"}}

(* process.kill(pid, 0): a recycled pid answers like the process it once was. *)
PidAlive(p) == p \in Inside \union Working \union recycled

(* isDeliverHolderWedged: a missing heartbeat is not a wedged holder. *)
Wedged(r) == hb[r] = "old"

(* isDeliverLockAbandoned: no heartbeat at all and a lock older than the timeout. *)
Abandoned(r) == hb[r] = "none" /\ lock[r] # None /\ lock[r].old

(* The holder named in the lock is one to defer to. *)
Defers(p, r) ==
    /\ lock[r].text \notin {None, p}
    /\ PidAlive(lock[r].text)
    /\ ~Wedged(r)
    /\ ~Abandoned(r)

(* Mutant: compares with the time of the scan, which the others cannot read. *)
Older_Now(e, p) == e.stamp < clock + 1

(* The order both sides of a collision can compute from what is published. *)
Older(e, p) == e.stamp < stamp[p] \/ (e.stamp = stamp[p] /\ e.pid < p)

Init ==
    /\ pc = [p \in Procs |-> "new"]
    /\ root = [p \in Procs |-> None]
    /\ stamp = [p \in Procs |-> 0]
    /\ todo = [p \in Procs |-> {}]
    /\ aim = [p \in Procs |-> None]
    /\ lock = [r \in Roots |-> None]
    /\ entry = [r \in Roots |-> None]
    /\ hb = [r \in Roots |-> "none"]
    /\ clock = 1
    /\ beating = {}
    /\ recycled = {}
    /\ clean = {}
    /\ late = [p \in Procs |-> {}]

Goto(p, label) == pc' = [pc EXCEPT ![p] = label]

(* Those in gone are no longer the healthy owners a latecomer has met. *)
NoLongerMet(gone) == late' = [p \in Procs |-> late[p] \ gone]

(* The process is over: what it kept in memory is forgotten. *)
Ends(p, label) ==
    /\ Goto(p, label)
    /\ root' = [root EXCEPT ![p] = None]
    /\ stamp' = [stamp EXCEPT ![p] = 0]
    /\ todo' = [todo EXCEPT ![p] = {}]
    /\ beating' = beating \ {p}
    /\ clean' = clean \ {p}
    /\ late' = [q \in Procs |-> IF q = p THEN {} ELSE late[q] \ {p}]
memory == <<root, stamp, todo, beating, clean, late>>

(* History: p enters acquire or release while nobody, or somebody, is inside. *)
Enters(p) == clean' = (clean \ (Inside \ {p})) \union (IF Inside \subseteq {p} THEN {p} ELSE {})

(***************************************************************************)
(* acquireDeliverLock                                                      *)
(***************************************************************************)
Begin(p, r) ==
    /\ pc[p] = "new"
    /\ r \in RootsOf[p]
    /\ root' = [root EXCEPT ![p] = r]
    /\ Goto(p, IF lock[r] # None THEN "read" ELSE "open")
    /\ Enters(p)
    /\ late' = [late EXCEPT ![p] = {q \in Owners \intersect clean :
                                       <<r, root[q]>> \in Overlap}]
    /\ UNCHANGED <<stamp, todo, aim, files, clock, beating, recycled>>

(* The lock was there a moment ago: a file that cannot be read any more ends *)
(* in the outer catch, which lets the run go ahead without any lock.         *)
ReadLock(p) ==
    /\ pc[p] = "read"
    /\ \/ /\ lock[root[p]] = None
          /\ Goto(p, "unlocked")
          /\ beating' = beating \union {p}
          /\ UNCHANGED <<root, stamp, todo, clean, late>>
       \/ /\ lock[root[p]] # None /\ Defers(p, root[p])
          /\ Ends(p, "refused")
       \/ /\ lock[root[p]] # None /\ ~Defers(p, root[p])
          /\ Goto(p, "unlink")
          /\ UNCHANGED memory
    /\ UNCHANGED <<aim, files, clock, recycled>>

(* rmSync(lockPath): whatever file has that name by now. *)
Unlink(p) ==
    /\ pc[p] = "unlink"
    /\ lock' = [lock EXCEPT ![root[p]] = None]
    /\ Goto(p, "open")
    /\ UNCHANGED <<memory, aim, entry, hb, clock, recycled>>

(* openSync(lockPath, 'wx'): the file is empty until it is written. *)
Open(p) ==
    /\ pc[p] = "open"
    /\ \/ /\ lock[root[p]] # None
          /\ Ends(p, "refused")
          /\ UNCHANGED lock
       \/ /\ lock[root[p]] = None
          /\ lock' = [lock EXCEPT ![root[p]] = [by |-> p, text |-> None, old |-> FALSE]]
          /\ Goto(p, "write")
          /\ UNCHANGED memory
    /\ UNCHANGED <<aim, entry, hb, clock, recycled>>

(* The stamp is taken here; the descriptor writes the file that was created, *)
(* which another process may have unlinked in the meantime.  Two stamps of   *)
(* one millisecond are equal.                                                *)
Write(p) ==
    /\ pc[p] = "write"
    /\ \E now \in {clock, clock + 1} :
          stamp' = [stamp EXCEPT ![p] = now] /\ clock' = now
    /\ lock' = [r \in Roots |-> IF lock[r] # None /\ lock[r].by = p
                                THEN [lock[r] EXCEPT !.text = p] ELSE lock[r]]
    /\ Goto(p, "publish")
    /\ UNCHANGED <<root, todo, aim, entry, hb, beating, recycled, clean, late>>

Publish(p) ==
    /\ pc[p] = "publish"
    /\ entry' = [entry EXCEPT ![root[p]] = [pid |-> p, stamp |-> stamp[p]]]
    /\ Goto(p, "list")
    /\ UNCHANGED <<memory, aim, lock, hb, clock, recycled>>

(* findOverlappingDeliverRun: readdirSync, then one entry after the other. *)
List(p) ==
    /\ pc[p] = "list"
    /\ todo' = [todo EXCEPT ![p] = {r \in Roots : entry[r] # None}]
    /\ Goto(p, "scan")
    /\ UNCHANGED <<root, stamp, aim, files, clock, beating, recycled, clean, late>>

(* An entry is dead when its pid is, or when its root shows no live holder. *)
DeadEntry(p, r) ==
    \/ ~PidAlive(entry[r].pid)
    \/ <<root[p], r>> \in Overlap /\ (Abandoned(r) \/ Wedged(r))

(* Mutant: takes the lock path, not the subtree, for what is shared. *)
YieldsTo_SameRoot(p, r) == root[p] = r /\ Older(entry[r], p)

YieldsTo(p, r) == <<root[p], r>> \in Overlap /\ Older(entry[r], p)

Scan(p, r) ==
    /\ pc[p] = "scan"
    /\ r \in todo[p]
    /\ todo' = [todo EXCEPT ![p] = @ \ {r}]
    /\ \/ /\ entry[r] # None => entry[r].pid = p
          /\ UNCHANGED <<pc, aim>>
       \/ /\ entry[r] # None /\ entry[r].pid # p /\ DeadEntry(p, r)
          /\ Goto(p, "sweep")
          /\ aim' = [aim EXCEPT ![p] = r]
       \/ /\ entry[r] # None /\ entry[r].pid # p /\ ~DeadEntry(p, r)
          /\ pc' = IF YieldsTo(p, r) THEN [pc EXCEPT ![p] = "yield"] ELSE pc
          /\ UNCHANGED aim
    /\ UNCHANGED <<root, stamp, files, clock, beating, recycled, clean, late>>

Sweep(p) ==
    /\ pc[p] = "sweep"
    /\ entry' = [entry EXCEPT ![aim[p]] = None]
    /\ aim' = [aim EXCEPT ![p] = None]
    /\ Goto(p, "scan")
    /\ UNCHANGED <<memory, lock, hb, clock, recycled>>

(* Someone older owns the subtree: give back the entry and the lock of this *)
(* root, whoever wrote them last.                                           *)
Yield(p) ==
    /\ pc[p] = "yield"
    /\ entry' = [entry EXCEPT ![root[p]] = None]
    /\ lock' = [lock EXCEPT ![root[p]] = None]
    /\ Ends(p, "refused")
    /\ UNCHANGED <<aim, hb, clock, recycled>>

(* The first heartbeat; only now does the run own the tree.  A whole acquire *)
(* takes longer than a millisecond.                                          *)
FirstBeat(p) ==
    /\ pc[p] = "scan"
    /\ todo[p] = {}
    /\ hb' = [hb EXCEPT ![root[p]] = "fresh"]
    /\ beating' = beating \union {p}
    /\ clock' = IF clock = stamp[p] THEN clock + 1 ELSE clock
    /\ stamp' = [stamp EXCEPT ![p] = 0]
    /\ Goto(p, "own")
    /\ UNCHANGED <<root, todo, aim, lock, entry, recycled, clean, late>>

(***************************************************************************)
(* The owner at work, its release, and what happens around it              *)
(***************************************************************************)
(* updateDeliverHeartbeat, from the iterations and tool calls of the run. *)
Beat(p) ==
    /\ p \in Working
    /\ hb' = [hb EXCEPT ![root[p]] = "fresh"]
    /\ beating' = beating \union {p}
    /\ UNCHANGED <<pc, root, stamp, todo, aim, lock, entry, clock, recycled, clean, late>>

(* release reads each file and removes it when it names this process. *)
LockIsOwn(p) == lock[root[p]] # None /\ lock[root[p]].text = p
EntryIsOwn(p) == entry[root[p]] # None /\ entry[root[p]].pid = p

(* Mutant: removes the lock of its root without looking whose it is by now. *)
Leave_Unread(p) ==
    /\ pc[p] = "own"
    /\ Goto(p, "drop_lock")
    /\ beating' = beating \ {p}
    /\ Enters(p)
    /\ NoLongerMet({p})
    /\ UNCHANGED <<root, stamp, todo, aim, files, clock, recycled>>

Leave(p) ==
    /\ pc[p] = "own"
    /\ Goto(p, IF LockIsOwn(p) THEN "drop_lock" ELSE "look_entry")
    /\ beating' = beating \ {p}
    /\ Enters(p)
    /\ NoLongerMet({p})
    /\ UNCHANGED <<root, stamp, todo, aim, files, clock, recycled>>

DropLock(p) ==
    /\ pc[p] = "drop_lock"
    /\ lock' = [lock EXCEPT ![root[p]] = None]
    /\ Goto(p, "look_entry")
    /\ UNCHANGED <<memory, aim, entry, hb, clock, recycled>>

LookEntry(p) ==
    /\ pc[p] = "look_entry"
    /\ IF EntryIsOwn(p) THEN Goto(p, "drop_entry") /\ UNCHANGED memory ELSE Ends(p, "gone")
    /\ UNCHANGED <<aim, files, clock, recycled>>

DropEntry(p) ==
    /\ pc[p] = "drop_entry"
    /\ entry' = [entry EXCEPT ![root[p]] = None]
    /\ Ends(p, "gone")
    /\ UNCHANGED <<aim, lock, hb, clock, recycled>>

(* The run that went ahead without a lock has nothing to release. *)
LeaveUnlocked(p) ==
    /\ pc[p] = "unlocked"
    /\ Ends(p, "gone")
    /\ UNCHANGED <<aim, files, clock, recycled>>

(* SIGKILL: no exit handler runs, and every file stays as it is. *)
Crash(p) ==
    /\ p \in Inside \union Working
    /\ Ends(p, "dead")
    /\ aim' = [aim EXCEPT ![p] = None]
    /\ UNCHANGED <<files, clock, recycled>>

(* The pid of a killed run that some file still names is given to an *)
(* unrelated process.                                                *)
Recycle(p) ==
    /\ pc[p] = "dead"
    /\ \E r \in Roots : \/ lock[r] # None /\ lock[r].text = p
                        \/ entry[r] # None /\ entry[r].pid = p
    /\ recycled' = recycled \union {p}
    /\ UNCHANGED <<pc, memory, aim, files, clock>>

(* The wedge timeout (half an hour) passes.  Nobody is inside acquire or    *)
(* release for that long; some owners hang and the others keep beating.     *)
Pause(hung) ==
    /\ Inside = {}
    /\ hung \subseteq beating
    /\ beating' = beating \ hung
    /\ hb' = [r \in Roots |-> IF \E p \in beating \ hung : root[p] = r THEN "fresh"
                              ELSE IF hb[r] = "none" THEN "none" ELSE "old"]
    /\ lock' = [r \in Roots |-> IF lock[r] = None THEN None ELSE [lock[r] EXCEPT !.old = TRUE]]
    /\ clean' = clean \ hung
    /\ NoLongerMet(hung)
    /\ UNCHANGED <<pc, root, stamp, todo, aim, entry, clock, recycled>>

Next ==
    \/ \E p \in Procs :
          \/ \E r \in Roots : Begin(p, r) \/ Scan(p, r)
          \/ ReadLock(p) \/ Unlink(p) \/ Open(p) \/ Write(p) \/ Publish(p) \/ List(p)
          \/ Sweep(p) \/ Yield(p) \/ FirstBeat(p)
          \/ Beat(p) \/ Leave(p) \/ LeaveUnlocked(p) \/ DropLock(p) \/ LookEntry(p) \/ DropEntry(p)
          \/ Crash(p) \/ Recycle(p)
    \/ \E hung \in SUBSET beating : Pause(hung)

Spec == Init /\ [][Next]_vars

(***************************************************************************)
(* Properties                                                              *)
(***************************************************************************)
(* Every file names a process that was launched, a process that is not over  *)
(* has a root, and what was published was stamped before.                    *)
Stamped == {p \in Procs : pc[p] \in {"publish", "list", "scan", "sweep", "yield"}}
MemoryOK ==
    /\ pc \in [Procs -> Acquiring \union Releasing \union {"new", "own", "unlocked", "refused", "gone", "dead"}]
    /\ root \in [Procs -> Roots \union {None}]
    /\ \A p \in Inside \union Working : root[p] \in Roots
    /\ clock \in Nat \ {0} /\ stamp \in [Procs -> 0..clock]
    /\ \A p \in Stamped : stamp[p] # 0
    /\ todo \in [Procs -> SUBSET Roots]
    /\ aim \in [Procs -> Roots \union {None}]
    /\ \A p \in Procs : pc[p] = "sweep" => aim[p] \in Roots
FilesOK ==
    /\ lock \in [Roots -> Locks \union {None}]
    /\ entry \in [Roots -> [pid : Procs, stamp : 1..clock] \union {None}]
    /\ hb \in [Roots -> {"none", "fresh", "old"}]
HistoryOK ==
    /\ beating \subseteq Working
    /\ recycled \subseteq Procs /\ clean \subseteq Procs
    /\ late \in [Procs -> SUBSET Procs]
TypeOK == MemoryOK /\ FilesOK /\ HistoryOK

(* "If BOTH sides yield nothing delivers": of the launches that have come to *)
(* an end one owns its tree, or did until it left or was killed; they never  *)
(* all give way to each other.                                               *)
NotAllYield ==
    Inside = {} /\ (\E p \in Procs : pc[p] = "refused")
        => \E p \in Procs : pc[p] \in {"own", "unlocked", "gone", "dead"}

(* The fan-out guard: a delivery launched on an overlapping root while a     *)
(* healthy run owns the tree does not get it, whatever other launches,       *)
(* releases, crashes and reclaims go on in between.  (It may still run, not  *)
(* owning anything, when its lock file vanishes between two system calls.)   *)
NoLatecomer == \A p \in Owners : late[p] = {}

(* An owner that nobody disturbed while it acquired, and that never hung,    *)
(* stays visible to those who look: lock and entry name it, the heartbeat is *)
(* fresh, so nobody reclaims, sweeps or releases them in its place.          *)
OwnerVisible ==
    \A p \in Owners \intersect clean :
        LockIsOwn(p) /\ EntryIsOwn(p) /\ hb[root[p]] = "fresh"

(* "Publish to the cross-project registry BEFORE checking it, so a run that  *)
(* starts while we are scanning still sees us and one of the two yields":    *)
(* two working runs never own overlapping trees.                             *)
OneOwner ==
    \A p, q \in Owners \intersect beating :
        p # q => <<root[p], root[q]>> \notin Overlap
====
