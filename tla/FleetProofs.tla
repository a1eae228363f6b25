------------------------------ MODULE FleetProofs ------------------------------
(***************************************************************************)
(* The safety properties of Fleet for every set of agents and tasks, every *)
(* initial graph and every number of commands.                             *)
(***************************************************************************)
EXTENDS Fleet, FiniteSetTheorems, TLAPS

-----------------------------------------------------------------------------
(* Types, table by table.                                                   *)

\* The statements on the task table keep edges between rows that exist.
LEMMA StoreStep ==
    ASSUME TypeOK, [Next]_vars
    PROVE  StoreTypeOK'
<1> USE FleetAssumption DEF TypeOK, StoreTypeOK, Exists, Settled, Statuses, store,
        Busy, Work, Commands, Idle
<1>1. CASE UNCHANGED store
  BY <1>1
<1>2. ASSUME NEW a \in Agents, TryClaim(a) PROVE StoreTypeOK'
  BY <1>2 DEF TryClaim, Claimable, TakeTask
<1>3. ASSUME NEW t \in Tasks, MarkDone(t) PROVE StoreTypeOK'
  BY <1>3 DEF MarkDone
<1>4. ASSUME NEW a \in Agents, Notify(a) PROVE StoreTypeOK'
  <2>1. Unblocked(Work(a)) = {}
    BY DEF Unblocked, Ready
  <2>2. UNCHANGED store
    BY <1>4, <2>1 DEF Notify, Reopen
  <2> QED
    BY <1>1, <2>2
<1>5. ASSUME NEW t \in Tasks, NEW s \in Statuses, SetStatus(t, s) PROVE StoreTypeOK'
  BY <1>5 DEF SetStatus
<1>6. ASSUME NEW t \in Tasks, EditTask(t) PROVE StoreTypeOK'
  <2>1. ASSUME NEW a \in Agents \cup {Nobody}, SetAssignee(t, a) PROVE StoreTypeOK'
    BY <2>1 DEF SetAssignee
  <2>2. ASSUME NEW b \in Tasks, RemoveEdge(t, b) PROVE StoreTypeOK'
    BY <2>2 DEF RemoveEdge
  <2> QED
    BY <1>3, <1>5, <1>6, <2>1, <2>2 DEF EditTask
<1>7. ASSUME NEW a \in Agents, Link(a) PROVE StoreTypeOK'
  BY <1>7 DEF Link, AddEdge
<1>8. ASSUME NEW t \in Tasks, DropEdges(t) PROVE StoreTypeOK'
  BY <1>8 DEF DropEdges
<1>9. ASSUME NEW a \in Agents, Delete(a) PROVE StoreTypeOK'
  BY <1>9 DEF Delete, DropRow
<1>10. ASSUME NEW a \in Agents, NEW t \in Tasks, ReapOne(a, t) PROVE StoreTypeOK'
  BY <1>1, <1>5, <1>10 DEF ReapOne
<1>11. ASSUME NEW a \in Agents, NEW t \in Tasks, CloseTask(a, t) \/ BeginDelete(a, t)
       PROVE StoreTypeOK'
  BY <1>3, <1>8, <1>11 DEF CloseTask, BeginDelete
<1>12. ASSUME NEW a \in Agents,
              \/ \E t \in Tasks : BeginClaim(a, t)
              \/ \E t, b \in Tasks : BeginLink(a, t, b)
              \/ \E ts \in SUBSET Tasks : BeginReap(a, ts)
       PROVE UNCHANGED store
  BY <1>12 DEF BeginClaim, BeginLink, BeginReap
<1>13. ASSUME NEW a \in Agents,
              \/ Announce(a) \/ Tell(a) \/ Report(a) \/ BeginDeregister(a) \/ Deregister(a)
              \/ Claim(a) \/ Silence(a) \/ BeginCleanup(a) \/ StripAnnouncements(a)
              \/ Fail(a) \/ Crash(a) \/ \E b \in Agents : StripClaims(a, b)
       PROVE UNCHANGED store
  BY <1>13 DEF Announce, Tell, Report, BeginDeregister, Deregister, Claim, Silence,
     BeginCleanup, StripAnnouncements, Fail, Crash, StripClaims
<1>14. EndClaim \/ UNCHANGED vars => UNCHANGED store
  BY DEF EndClaim, vars
<1> HIDE DEF TypeOK, StoreTypeOK, Exists, Settled, Statuses, store, Busy, Work, Commands, Idle
<1> QED
  BY <1>1, <1>2, <1>4, <1>6, <1>7, <1>9, <1>10, <1>11, <1>12, <1>13, <1>14 DEF Next

\* The statements on agents, announcements and claims keep who is behind a
\* cutoff among the silent, and the reaped failed.
LEMMA RegistryStep ==
    ASSUME TypeOK, [Next]_vars
    PROVE  RegistryTypeOK'
<1> USE FleetAssumption DEF TypeOK, RegistryTypeOK, Live, RowStatuses, Kinds, fleet, Beats,
        Busy, Work, Commands, Idle
<1>1. CASE UNCHANGED fleet
  BY <1>1
<1>2. ASSUME NEW a \in Agents, Announce(a) PROVE RegistryTypeOK'
  BY <1>2 DEF Announce, AnnounceWork, Ensure
<1>3. ASSUME NEW a \in Agents, Notify(a) PROVE RegistryTypeOK'
  BY <1>3 DEF Notify, CompleteWork
<1>4. ASSUME NEW a \in Agents, Report(a) PROVE RegistryTypeOK'
  <2>1. CASE Register(a)
    BY <2>1 DEF Register
  <2>2. CASE Heartbeat(a)
    BY <2>2 DEF Heartbeat
  <2>3. ASSUME NEW s \in RowStatuses, UpdateStatus(a, s) PROVE RegistryTypeOK'
    BY <2>3 DEF UpdateStatus
  <2> QED
    BY <1>4, <2>1, <2>2, <2>3 DEF Report
<1>5. ASSUME NEW a \in Agents, ReleaseAllClaims(a) PROVE RegistryTypeOK'
  BY <1>5 DEF ReleaseAllClaims
<1>6. ASSUME NEW a \in Agents, Deregister(a) PROVE RegistryTypeOK'
  BY <1>6 DEF Deregister, MarkCompleted
<1>7. ASSUME NEW a \in Agents, Claim(a) PROVE RegistryTypeOK'
  BY <1>7 DEF Claim, ClaimResource, Ensure
<1>8. CASE EndClaim
  BY <1>5, <1>8 DEF EndClaim, Expire
<1>9. ASSUME NEW a \in Agents, Silence(a) PROVE RegistryTypeOK'
  BY <1>9 DEF Silence, FallSilent
<1>10. ASSUME NEW a \in Agents, BeginCleanup(a) PROVE RegistryTypeOK'
  BY <1>10 DEF BeginCleanup, FixCutoff
<1>11. ASSUME NEW a \in Agents, StripAnnouncements(a) PROVE RegistryTypeOK'
  BY <1>11 DEF StripAnnouncements, CompleteAnnouncements
<1>12. ASSUME NEW a \in Agents, Fail(a) PROVE RegistryTypeOK'
  BY <1>12 DEF Fail, MarkFailed, Failing
<1>13. ASSUME NEW a \in Agents, Crash(a) PROVE RegistryTypeOK'
  BY <1>13 DEF Crash
<1>14. ASSUME NEW a \in Agents, BeginDeregister(a) \/ \E b \in Agents : StripClaims(a, b)
       PROVE RegistryTypeOK'
  BY <1>5, <1>14 DEF BeginDeregister, StripClaims
<1>15. ASSUME NEW a \in Agents,
              \/ \E t \in Tasks : \/ BeginClaim(a, t) \/ CloseTask(a, t)
                                 \/ BeginDelete(a, t) \/ ReapOne(a, t)
              \/ \E t, b \in Tasks : BeginLink(a, t, b)
              \/ \E ts \in SUBSET Tasks : BeginReap(a, ts)
              \/ TryClaim(a) \/ Tell(a) \/ Link(a) \/ Delete(a)
       PROVE UNCHANGED fleet
  BY <1>15 DEF BeginClaim, CloseTask, BeginDelete, ReapOne, BeginLink, BeginReap, TryClaim,
     Tell, Link, Delete
<1>16. (\E t \in Tasks : EditTask(t)) \/ UNCHANGED vars => UNCHANGED fleet
  BY DEF EditTask, vars
<1> HIDE DEF TypeOK, RegistryTypeOK, Live, RowStatuses, Kinds, fleet, Beats, Busy, Work,
             Commands, Idle
<1> QED
  BY <1>1, <1>2, <1>3, <1>4, <1>6, <1>7, <1>8, <1>9, <1>10, <1>11, <1>12, <1>13, <1>14,
     <1>15, <1>16 DEF Next

\* A command stays one of those the methods are made of.
LEMMA CommandStep ==
    ASSUME TypeOK, [Next]_vars
    PROVE  at' \in [Agents -> Commands]
<1> USE DEF TypeOK, Commands, Becomes, Busy, Work, Free, Idle
<1>0. CASE UNCHANGED at
  BY <1>0
<1>1. ASSUME NEW a \in Agents,
             \/ \E t \in Tasks : BeginClaim(a, t) \/ CloseTask(a, t) \/ BeginDelete(a, t)
             \/ \E t, b \in Tasks : BeginLink(a, t, b)
             \/ \E ts \in SUBSET Tasks : BeginReap(a, ts)
      PROVE at' \in [Agents -> Commands]
  <2>1. ASSUME NEW t \in Tasks, BeginClaim(a, t) \/ CloseTask(a, t) \/ BeginDelete(a, t)
        PROVE at' \in [Agents -> Commands]
    BY <2>1 DEF BeginClaim, CloseTask, BeginDelete
  <2>2. ASSUME NEW t \in Tasks, NEW b \in Tasks, BeginLink(a, t, b)
        PROVE at' \in [Agents -> Commands]
    BY <2>2 DEF BeginLink
  <2>3. ASSUME NEW ts \in SUBSET Tasks, BeginReap(a, ts)
        PROVE at' \in [Agents -> Commands]
    BY <2>3 DEF BeginReap
  <2> QED
    BY <1>1, <2>1, <2>2, <2>3
<1>2. ASSUME NEW a \in Agents,
             \/ TryClaim(a) \/ Announce(a) \/ Notify(a) \/ Tell(a) \/ Link(a) \/ Delete(a)
             \/ BeginDeregister(a) \/ Deregister(a) \/ Fail(a) \/ Crash(a)
      PROVE at' \in [Agents -> Commands]
  BY <1>2 DEF TryClaim, Announce, Notify, Tell, Link, Delete, BeginDeregister, Deregister,
     Fail, Crash
<1>3. ASSUME NEW a \in Agents, BeginCleanup(a) PROVE at' \in [Agents -> Commands]
  BY <1>3 DEF BeginCleanup, Stale
<1>4. ASSUME NEW a \in Agents,
             StripAnnouncements(a) \/ \E b \in Agents : StripClaims(a, b)
      PROVE at' \in [Agents -> Commands]
  BY <1>4 DEF StripAnnouncements, StripClaims
<1>5. ASSUME NEW a \in Agents, NEW t \in Tasks, ReapOne(a, t)
      PROVE at' \in [Agents -> Commands]
  BY <1>5 DEF ReapOne
<1>6. ASSUME NEW a \in Agents, Report(a) \/ Claim(a) \/ Silence(a) PROVE UNCHANGED at
  BY <1>6 DEF Report, Claim, Silence
<1>7. (\E t \in Tasks : EditTask(t)) \/ EndClaim \/ UNCHANGED vars => UNCHANGED at
  BY DEF EditTask, EndClaim, vars
<1> HIDE DEF TypeOK, Commands, Becomes, Busy, Work, Free, Idle
<1> QED
  BY <1>0, <1>1, <1>2, <1>3, <1>4, <1>5, <1>6, <1>7 DEF Next

\* What is owed is ready, and who won a task is an agent.
LEMMA HistoryStep ==
    ASSUME TypeOK, [Next]_vars
    PROVE  /\ owed' \subseteq Agents \X {t \in Tasks : Ready(t)'}
           /\ won' \in [Tasks -> SUBSET Agents]
<1> DEFINE Typed == /\ owed' \subseteq Agents \X {t \in Tasks : Ready(t)'}
                    /\ won' \in [Tasks -> SUBSET Agents]
<1> USE DEF TypeOK, Owe
<1>1. CASE UNCHANGED <<store, owed, won>>
  BY <1>1 DEF store, Ready, Blockers
<1>2. ASSUME NEW a \in Agents, TryClaim(a) PROVE Typed
  BY <1>2 DEF TryClaim
<1>3. ASSUME NEW t \in Tasks, EditTask(t) PROVE Typed
  BY <1>3 DEF EditTask
<1>4. ASSUME NEW a \in Agents, Delete(a) PROVE Typed
  BY <1>4 DEF Delete
<1>5. ASSUME NEW a \in Agents, Tell(a) \/ Crash(a) PROVE Typed
  <2>1. UNCHANGED store /\ UNCHANGED won /\ owed' \subseteq owed
    BY <1>5 DEF Tell, Crash
  <2> QED
    BY <2>1 DEF store, Ready, Blockers
<1>6. ASSUME NEW a \in Agents,
             \/ \E t \in Tasks : CloseTask(a, t) \/ BeginDelete(a, t) \/ ReapOne(a, t)
             \/ Notify(a) \/ Link(a)
      PROVE Typed
  BY <1>6 DEF CloseTask, BeginDelete, ReapOne, Notify, Link
<1>7. ASSUME NEW a \in Agents,
             \/ \E t \in Tasks : BeginClaim(a, t)
             \/ \E t, b \in Tasks : BeginLink(a, t, b)
             \/ \E ts \in SUBSET Tasks : BeginReap(a, ts)
             \/ Announce(a) \/ Report(a) \/ BeginDeregister(a) \/ Deregister(a)
             \/ Claim(a) \/ Silence(a) \/ BeginCleanup(a) \/ StripAnnouncements(a)
             \/ Fail(a) \/ \E b \in Agents : StripClaims(a, b)
      PROVE UNCHANGED <<store, owed, won>>
  BY <1>7 DEF BeginClaim, BeginLink, BeginReap, Announce, Report, BeginDeregister,
     Deregister, Claim, Silence, BeginCleanup, StripAnnouncements, Fail, StripClaims, history
<1>8. EndClaim \/ UNCHANGED vars => UNCHANGED <<store, owed, won>>
  BY DEF EndClaim, vars, history
<1> HIDE DEF TypeOK, Owe
<1> QED
  BY <1>1, <1>2, <1>3, <1>4, <1>5, <1>6, <1>7, <1>8 DEF Next

\* Tables, commands and histories keep their shape: whatever the other processes
\* do between two statements, edges join rows that exist, a cutoff is behind the
\* silent, and a reaped agent is failed until it is back.
THEOREM FleetTypeCorrect == Spec => []TypeOK
<1>1. Init => TypeOK
  <2> SUFFICES ASSUME Init PROVE TypeOK
    OBVIOUS
  <2>1. StoreTypeOK
    BY FleetAssumption DEF FleetAssumption, Init, StoreTypeOK, Exists, Statuses, Settled
  <2>2. RegistryTypeOK
    <3>1. row \in [Agents -> RowStatuses \cup {Unknown}]
      BY DEF Init
    <3>2. older \in [Agents -> SUBSET silent]
      BY DEF Init
    <3> QED
      BY <3>1, <3>2 DEF Init, RegistryTypeOK
  <2>3. at \in [Agents -> Commands]
    BY DEF Init, Commands
  <2> QED
    BY <2>1, <2>2, <2>3 DEF Init, TypeOK
<1>2. TypeOK /\ [Next]_vars => TypeOK'
  BY StoreStep, RegistryStep, CommandStep, HistoryStep DEF TypeOK
<1> QED
  BY <1>1, <1>2, PTL DEF Spec

-----------------------------------------------------------------------------
(* Winners.                                                                 *)

\* Who won a task is who the task is assigned to.
WinnerAssigned == \A t \in Tasks : won[t] \subseteq {assignee[t]}

LEMMA WinnerStep ==
    ASSUME TypeOK, WinnerAssigned, [Next]_vars
    PROVE  WinnerAssigned'
<1> USE DEF TypeOK, StoreTypeOK, WinnerAssigned
<1>1. CASE UNCHANGED <<assignee, won>>
  BY <1>1
<1>2. ASSUME NEW a \in Agents, TryClaim(a) PROVE WinnerAssigned'
  BY <1>2, FleetAssumption DEF FleetAssumption, TryClaim, Claimable, TakeTask, store
<1>3. ASSUME NEW t \in Tasks, EditTask(t) PROVE WinnerAssigned'
  <2>1. ASSUME NEW a \in Agents \cup {Nobody}, SetAssignee(t, a),
               won' = [won EXCEPT ![t] = {a} \cap Agents]
        PROVE WinnerAssigned'
    BY <2>1 DEF SetAssignee
  <2> QED
    BY <1>1, <1>3, <2>1 DEF EditTask, SetStatus, MarkDone, RemoveEdge
<1>4. ASSUME NEW a \in Agents, Delete(a) PROVE WinnerAssigned'
  <2>1. CASE UNCHANGED assignee
    BY <1>4, <2>1 DEF Delete
  <2>2. CASE ~UNCHANGED assignee
    <3>1. Work(a) \in Tasks
      BY <1>4 DEF Delete, Commands, Busy, Work, Idle
    <3>2. /\ assignee' = [assignee EXCEPT ![Work(a)] = Nobody]
          /\ won' = [won EXCEPT ![Work(a)] = {}]
      BY <1>4, <2>2, <3>1 DEF Delete, DropRow
    <3> QED
      BY <3>1, <3>2
  <2> QED
    BY <2>1, <2>2
<1>5. ASSUME NEW a \in Agents,
             \/ \E t \in Tasks : \/ BeginClaim(a, t) \/ CloseTask(a, t)
                                \/ BeginDelete(a, t) \/ ReapOne(a, t)
             \/ \E t, b \in Tasks : BeginLink(a, t, b)
             \/ \E ts \in SUBSET Tasks : BeginReap(a, ts)
             \/ Announce(a) \/ Notify(a) \/ Tell(a) \/ Link(a)
      PROVE UNCHANGED <<assignee, won>>
  BY <1>5 DEF BeginClaim, CloseTask, BeginDelete, ReapOne, BeginLink, BeginReap, Announce,
     Notify, Tell, Link, MarkDone, DropEdges, SetStatus, Reopen, AddEdge, store, history
<1>6. ASSUME NEW a \in Agents,
             \/ Report(a) \/ BeginDeregister(a) \/ Deregister(a)
             \/ Claim(a) \/ Silence(a) \/ BeginCleanup(a) \/ StripAnnouncements(a)
             \/ Fail(a) \/ Crash(a) \/ \E b \in Agents : StripClaims(a, b)
      PROVE UNCHANGED <<assignee, won>>
  BY <1>6 DEF Report, BeginDeregister, Deregister, Claim, Silence, BeginCleanup,
     StripAnnouncements, Fail, Crash, StripClaims, store, history
<1>7. EndClaim \/ UNCHANGED vars => UNCHANGED <<assignee, won>>
  BY DEF EndClaim, vars, store, history
<1> HIDE DEF TypeOK, StoreTypeOK, WinnerAssigned
<1> QED
  BY <1>1, <1>2, <1>3, <1>4, <1>5, <1>6, <1>7 DEF Next

\* tryClaim tells at most one agent that a task is its own, however many read
\* the task as unassigned: the conditional UPDATE admits only the assignee of
\* record, and only an edit or a delete takes that away.
THEOREM OneWinnerHolds == Spec => []OneWinner
<1>1. Init => WinnerAssigned
  BY DEF Init, WinnerAssigned
<1>2. TypeOK /\ WinnerAssigned => OneWinner
  <2> SUFFICES ASSUME TypeOK, WinnerAssigned, NEW t \in Tasks PROVE Cardinality(won[t]) <= 1
    BY DEF OneWinner
  <2>1. won[t] = {} \/ won[t] = {assignee[t]}
    BY DEF WinnerAssigned
  <2>2. Cardinality(won[t]) = 0 \/ Cardinality(won[t]) = 1
    BY <2>1, FS_EmptySet, FS_Singleton
  <2> QED
    BY <2>2
<1> QED
  BY <1>1, <1>2, WinnerStep, FleetTypeCorrect, PTL DEF Spec

-----------------------------------------------------------------------------
(* Broadcasts.                                                              *)

\* The release that will broadcast d is one of another task than d: a release
\* passes over its own task when it looks for what is ready now.
Tells(a, d) == (Busy(a, "notify") \/ Busy(a, "tell")) /\ Work(a) # d
OwedToARelease == \A o \in owed : Tells(o[1], o[2])

LEMMA OwedStep ==
    ASSUME TypeOK, OwedToARelease, [Next]_vars
    PROVE  OwedToARelease'
<1> USE DEF TypeOK, OwedToARelease, Tells, Busy, Work, Becomes, Free, Idle
\* A step of a command that is no release, or goes on with one.
<1>1. ASSUME owed' \subseteq owed,
             \A a \in Agents, d \in Tasks : Tells(a, d) => Tells(a, d)'
      PROVE OwedToARelease'
  BY <1>1
<1>2. ASSUME NEW a \in Agents, NEW t \in Tasks, CloseTask(a, t) PROVE OwedToARelease'
  <2>1. ~Ready(t)'
    BY <1>2 DEF CloseTask, MarkDone, Ready, StoreTypeOK, Exists
  <2>2. \A o \in owed' : o[2] # t /\ (o \in owed \/ o[1] = a)
    BY <1>2, <2>1 DEF CloseTask, Owe
  <2>3. at'[a] = <<"notify", t>>
    BY <1>2 DEF CloseTask
  <2>4. at'[a][1] = "notify" /\ at'[a][2] = t
    BY <2>3
  <2>5. \A b \in Agents, d \in Tasks : Tells(b, d) => Tells(b, d)' \/ b = a
    BY <1>2 DEF CloseTask
  <2>6. \A o \in owed' : o[1] # a => Tells(o[1], o[2])'
    BY <2>2, <2>5
  <2> QED
    BY <2>2, <2>4, <2>6
<1>3. ASSUME NEW a \in Agents, Notify(a) PROVE OwedToARelease'
  <2>1. owed' \subseteq owed
    BY <1>3 DEF Notify, Owe
  <2>2. \A b \in Agents, d \in Tasks : Tells(b, d) => Tells(b, d)'
    BY <1>3 DEF Notify
  <2> QED
    BY <1>1, <2>1, <2>2
<1>4. ASSUME NEW a \in Agents, Tell(a) PROVE OwedToARelease'
  <2> SUFFICES ASSUME NEW o \in owed' PROVE Tells(o[1], o[2])'
    OBVIOUS
  <2>1. o \in owed /\ o[2] \notin NowReady(Work(a))
    BY <1>4 DEF Tell
  <2>2. o[2] = Work(a) /\ Tells(o[1], o[2])
    BY <2>1 DEF NowReady
  <2>3. at'[o[1]] = at[o[1]]
    BY <1>4, <2>2 DEF Tell
  <2> QED
    BY <2>2, <2>3
<1>5. ASSUME NEW a \in Agents, Crash(a) PROVE OwedToARelease'
  <2>1. \A o \in owed' : o \in owed /\ o[1] # a
    BY <1>5 DEF Crash
  <2>2. \A b \in Agents : b # a => at'[b] = at[b]
    BY <1>5 DEF Crash
  <2> QED
    BY <2>1, <2>2
\* The other commands change at most what an idle agent or one of their own does.
<1>6. ASSUME NEW a \in Agents,
             \/ \E t \in Tasks : BeginClaim(a, t) \/ BeginDelete(a, t) \/ ReapOne(a, t)
             \/ \E t, b \in Tasks : BeginLink(a, t, b)
             \/ \E ts \in SUBSET Tasks : BeginReap(a, ts)
             \/ TryClaim(a) \/ Announce(a) \/ Link(a) \/ Delete(a)
      PROVE OwedToARelease'
  <2>1. owed' \subseteq owed
    BY <1>6 DEF BeginClaim, BeginDelete, ReapOne, BeginLink, BeginReap, TryClaim, Announce,
       Link, Delete, Owe, history
  <2>2. ~Busy(a, "notify") /\ ~Busy(a, "tell")
    BY <1>6 DEF BeginClaim, BeginDelete, ReapOne, BeginLink, BeginReap, TryClaim, Announce,
       Link, Delete
  <2>3. \A b \in Agents : b # a => at'[b] = at[b]
    BY <1>6 DEF BeginClaim, BeginDelete, ReapOne, BeginLink, BeginReap, TryClaim, Announce,
       Link, Delete
  <2> QED
    BY <1>1, <2>1, <2>2, <2>3
<1>7. ASSUME NEW a \in Agents,
             \/ Report(a) \/ BeginDeregister(a) \/ Deregister(a)
             \/ Claim(a) \/ Silence(a) \/ BeginCleanup(a) \/ StripAnnouncements(a)
             \/ Fail(a) \/ \E b \in Agents : StripClaims(a, b)
      PROVE OwedToARelease'
  <2>1. owed' = owed
    BY <1>7 DEF Report, BeginDeregister, Deregister, Claim, Silence, BeginCleanup,
       StripAnnouncements, Fail, StripClaims, history
  <2>2. \A b \in Agents : at'[b] = at[b] \/ (~Busy(b, "notify") /\ ~Busy(b, "tell"))
    BY <1>7 DEF Report, BeginDeregister, Deregister, Claim, Silence, BeginCleanup,
       StripAnnouncements, Fail, StripClaims
  <2> QED
    BY <1>1, <2>1, <2>2
<1>8. CASE (\E t \in Tasks : EditTask(t)) \/ EndClaim \/ UNCHANGED vars
  <2>1. owed' \subseteq owed /\ UNCHANGED at
    BY <1>8 DEF EditTask, EndClaim, vars, Owe, history
  <2> QED
    BY <1>1, <2>1
<1> HIDE DEF TypeOK, OwedToARelease, Tells, Busy, Work, Becomes, Free, Idle
<1> QED
  BY <1>2, <1>3, <1>4, <1>5, <1>6, <1>7, <1>8 DEF Next

\* What a release made ready is broadcast before that release is over: the
\* broadcast looks at every ready task but its own, and a task made ready is
\* never that of the release that made it so.
THEOREM UnblockToldHolds == Spec => []UnblockTold
<1>1. Init => OwedToARelease
  BY DEF Init, OwedToARelease
<1>2. TypeOK /\ OwedToARelease => UnblockTold
  BY DEF OwedToARelease, UnblockTold, Tells
<1> QED
  BY <1>1, <1>2, OwedStep, FleetTypeCorrect, PTL DEF Spec

-----------------------------------------------------------------------------
(* Claims.                                                                  *)

\* A claim is granted by one transaction that sees every unexpired row.
ExclusiveOnly == \A c, d \in claims : c.kind = "exclusive" => c = d

LEMMA ExclusiveStep ==
    ASSUME TypeOK, ExclusiveOnly, [Next]_vars
    PROVE  ExclusiveOnly'
<1> USE DEF TypeOK, RegistryTypeOK, ExclusiveOnly
<1>1. CASE claims' \subseteq claims
  BY <1>1
<1>2. ASSUME NEW a \in Agents, NEW kind \in Kinds, ClaimResource(a, kind)
      PROVE ExclusiveOnly'
  BY <1>2 DEF ClaimResource, Granted, Kinds
<1>3. ASSUME NEW a \in Agents,
             \/ \E t \in Tasks : \/ BeginClaim(a, t) \/ CloseTask(a, t)
                                \/ BeginDelete(a, t) \/ ReapOne(a, t)
             \/ \E t, b \in Tasks : BeginLink(a, t, b)
             \/ \E ts \in SUBSET Tasks : BeginReap(a, ts)
             \/ TryClaim(a) \/ Announce(a) \/ Notify(a) \/ Tell(a) \/ Link(a) \/ Delete(a)
      PROVE UNCHANGED claims
  BY <1>3 DEF BeginClaim, CloseTask, BeginDelete, ReapOne, BeginLink, BeginReap, TryClaim,
     Announce, AnnounceWork, Notify, CompleteWork, Tell, Link, Delete, fleet
<1>4. ASSUME NEW a \in Agents,
             \/ Report(a) \/ BeginDeregister(a) \/ Deregister(a) \/ Silence(a)
             \/ BeginCleanup(a) \/ StripAnnouncements(a) \/ Fail(a) \/ Crash(a)
             \/ \E b \in Agents : StripClaims(a, b)
      PROVE claims' \subseteq claims
  BY <1>4 DEF Report, Register, Heartbeat, UpdateStatus, BeginDeregister, ReleaseAllClaims,
     Deregister, MarkCompleted, Silence, FallSilent, BeginCleanup, FixCutoff,
     StripAnnouncements, CompleteAnnouncements, Fail, MarkFailed, Crash, StripClaims
<1>5. EndClaim \/ (\E t \in Tasks : EditTask(t)) \/ UNCHANGED vars => claims' \subseteq claims
  BY DEF EndClaim, ReleaseAllClaims, Expire, EditTask, vars, fleet
<1>6. ASSUME NEW a \in Agents, Claim(a) PROVE ExclusiveOnly'
  BY <1>2, <1>6 DEF Claim
<1> HIDE DEF TypeOK, RegistryTypeOK, ExclusiveOnly
<1> QED
  BY <1>1, <1>3, <1>4, <1>5, <1>6 DEF Next

LEMMA ExclusiveIsSingle == ExclusiveOnly => ExclusiveIsAlone
<1> SUFFICES ASSUME ExclusiveOnly, NEW c \in claims, c.kind = "exclusive"
             PROVE  Cardinality(claims) = 1
  BY DEF ExclusiveIsAlone
<1>1. claims = {c}
  BY DEF ExclusiveOnly
<1> QED
  BY <1>1, FS_Singleton

-----------------------------------------------------------------------------
(* Cleanups.                                                                *)

HoldsClaim(b) == \E c \in claims : c.by = b
HasAnnounced(b) == \E n \in announced : n[1] = b

\* An agent that the cleanup of c has stripped, and that is still behind its
\* cutoff, holds nothing; between the two statements of a strip, no claims.
StrippedBy(c, b) ==
    row[b] \in Live /\ b \notin Work(c) =>
      /\ Busy(c, "cleanup") => ~HoldsClaim(b) /\ ~HasAnnounced(b)
      /\ Busy(c, "strip") => ~HoldsClaim(b) /\ (b # at[c][3] => ~HasAnnounced(b))
Stripped == \A c \in Agents : \A b \in older[c] : StrippedBy(c, b)

ReapedHoldsNothing == \A b \in reaped : ~HoldsClaim(b) /\ ~HasAnnounced(b)

\* What a step may do to an agent that a cleanup watches: nothing that gives it
\* a claim, an announcement or a live row without beating.
Calm(b) ==
    \/ /\ HoldsClaim(b)' => HoldsClaim(b)
       /\ HasAnnounced(b)' => HasAnnounced(b)
       /\ row'[b] \in Live => row[b] \in Live
    \/ b \notin reaped' /\ \A c \in Agents : b \notin older'[c]

LEMMA CalmStep ==
    ASSUME TypeOK, [Next]_vars, NEW b \in Agents
    PROVE  Calm(b)
<1> USE DEF TypeOK, RegistryTypeOK, Calm, HoldsClaim, HasAnnounced, Beats, Ensure
<1>1. CASE UNCHANGED <<row, announced, claims>>
  BY <1>1
<1>2. ASSUME NEW a \in Agents, Announce(a) PROVE Calm(b)
  <2>1. CASE a = b
    BY <1>2, <2>1 DEF Announce, AnnounceWork
  <2>2. CASE a # b
    BY <1>2, <2>2 DEF Announce, AnnounceWork
  <2> QED
    BY <2>1, <2>2
<1>3. ASSUME NEW a \in Agents, Claim(a) PROVE Calm(b)
  <2>1. CASE a = b
    BY <1>3, <2>1 DEF Claim, ClaimResource
  <2>2. CASE a # b
    BY <1>3, <2>2 DEF Claim, ClaimResource
  <2> QED
    BY <2>1, <2>2
<1>4. ASSUME NEW a \in Agents, Report(a) PROVE Calm(b)
  <2>1. UNCHANGED <<announced, claims>>
    BY <1>4 DEF Report, Register, Heartbeat, UpdateStatus
  <2>2. CASE Heartbeat(a)
    BY <1>1, <2>1, <2>2 DEF Heartbeat
  <2>3. CASE Register(a)
    BY <2>1, <2>3 DEF Register
  <2>4. ASSUME NEW s \in RowStatuses, UpdateStatus(a, s) PROVE Calm(b)
    BY <2>1, <2>4 DEF UpdateStatus
  <2> QED
    BY <1>4, <2>2, <2>3, <2>4 DEF Report
<1>5. ASSUME NEW a \in Agents,
             \/ Notify(a) \/ BeginDeregister(a) \/ StripAnnouncements(a)
             \/ \E x \in Agents : StripClaims(a, x)
      PROVE Calm(b)
  BY <1>5 DEF Notify, CompleteWork, BeginDeregister, ReleaseAllClaims, StripAnnouncements,
     CompleteAnnouncements, StripClaims
<1>6. ASSUME NEW a \in Agents, Deregister(a) \/ Fail(a) PROVE Calm(b)
  <2>1. UNCHANGED <<announced, claims>>
    BY <1>6 DEF Deregister, MarkCompleted, Fail, MarkFailed
  <2>2. row'[b] \in Live => row[b] \in Live
    BY <1>6 DEF Deregister, MarkCompleted, Fail, MarkFailed, Live
  <2> QED
    BY <2>1, <2>2
<1>7. CASE EndClaim
  BY <1>7 DEF EndClaim, ReleaseAllClaims, Expire
<1>8. ASSUME NEW a \in Agents,
             \/ \E t \in Tasks : \/ BeginClaim(a, t) \/ CloseTask(a, t)
                                \/ BeginDelete(a, t) \/ ReapOne(a, t)
             \/ \E t, x \in Tasks : BeginLink(a, t, x)
             \/ \E ts \in SUBSET Tasks : BeginReap(a, ts)
             \/ TryClaim(a) \/ Tell(a) \/ Link(a) \/ Delete(a)
             \/ Silence(a) \/ BeginCleanup(a) \/ Crash(a)
      PROVE UNCHANGED <<row, announced, claims>>
  BY <1>8 DEF BeginClaim, CloseTask, BeginDelete, ReapOne, BeginLink, BeginReap, TryClaim,
     Tell, Link, Delete, Silence, FallSilent, BeginCleanup, FixCutoff, Crash, fleet
<1>9. (\E t \in Tasks : EditTask(t)) \/ UNCHANGED vars => UNCHANGED <<row, announced, claims>>
  BY DEF EditTask, vars, fleet
<1> HIDE DEF TypeOK, RegistryTypeOK, Calm, HoldsClaim, HasAnnounced, Beats, Ensure
<1> QED
  BY <1>1, <1>2, <1>3, <1>4, <1>5, <1>6, <1>7, <1>8, <1>9 DEF Next

LEMMA StrippedStep ==
    ASSUME TypeOK, Stripped, [Next]_vars
    PROVE  Stripped'
<1> USE DEF TypeOK, RegistryTypeOK, Busy, Work, Becomes, Free, Idle
<1>1. SUFFICES ASSUME NEW c \in Agents, NEW b \in Agents, b \in older'[c] PROVE StrippedBy(c, b)'
  BY RegistryStep DEF Stripped
<1>2. Calm(b)
  BY CalmStep
\* The cleanup of c, if there is one, does not move.
<1>3. ASSUME b \in older[c],
             at'[c] = at[c] \/ at'[c][1] \notin {"cleanup", "strip"}
      PROVE StrippedBy(c, b)'
  BY <1>1, <1>2, <1>3 DEF Calm, Stripped, StrippedBy
<1>4. ASSUME NEW a \in Agents, BeginCleanup(a) PROVE StrippedBy(c, b)'
  <2>1. CASE a = c
    <3>1. /\ at'[c] = <<"cleanup", Stale>>
          /\ older'[c] = silent /\ row' = row
      BY <1>4, <2>1 DEF BeginCleanup, FixCutoff
    <3>2. b \in silent
      BY <1>1, <3>1
    <3>3. row[b] \in Live => b \in Work(c)'
      BY <3>1, <3>2 DEF Stale
    <3> QED
      BY <3>1, <3>3 DEF StrippedBy
  <2>2. CASE a # c
    <3>1. at'[c] = at[c] /\ older'[c] = older[c]
      BY <1>4, <2>2 DEF BeginCleanup, FixCutoff
    <3> QED
      BY <1>1, <1>3, <3>1
  <2> QED
    BY <2>1, <2>2
<1>5. ASSUME NEW a \in Agents, NEW x \in Agents, StripClaims(a, x) PROVE StrippedBy(c, b)'
  <2>1. UNCHANGED <<row, older, announced>> /\ claims' = {k \in claims : k.by # x}
    BY <1>5 DEF StripClaims, ReleaseAllClaims
  <2>2. CASE a = c
    <3>1. /\ at[c][1] = "cleanup" /\ x \in at[c][2]
          /\ at'[c] = <<"strip", at[c][2] \ {x}, x>>
      BY <1>5, <2>2 DEF StripClaims
    <3>2. b # x /\ b \notin Work(c)' => b \notin Work(c)
      BY <3>1
    <3>3. at'[c][1] = "strip" /\ at'[c][3] = x
      BY <3>1
    <3> QED
      BY <1>1, <2>1, <3>1, <3>2, <3>3 DEF Stripped, StrippedBy, HoldsClaim, HasAnnounced
  <2>3. CASE a # c
    BY <1>1, <1>3, <1>5, <2>1, <2>3 DEF StripClaims
  <2> QED
    BY <2>2, <2>3
<1>6. ASSUME NEW a \in Agents, StripAnnouncements(a) PROVE StrippedBy(c, b)'
  <2>1. UNCHANGED <<row, older, claims>> /\ announced' = {n \in announced : n[1] # at[a][3]}
    BY <1>6 DEF StripAnnouncements, CompleteAnnouncements
  <2>2. CASE a = c
    <3>1. at[c][1] = "strip" /\ at'[c] = <<"cleanup", at[c][2]>>
      BY <1>6, <2>2 DEF StripAnnouncements
    <3> QED
      BY <1>1, <2>1, <2>2, <3>1 DEF Stripped, StrippedBy, HoldsClaim, HasAnnounced
  <2>3. CASE a # c
    BY <1>1, <1>3, <1>6, <2>1, <2>3 DEF StripAnnouncements
  <2> QED
    BY <2>2, <2>3
<1>7. ASSUME older' = older,
             \A x \in Agents : at'[x] = at[x] \/ at'[x][1] \notin {"cleanup", "strip"}
      PROVE StrippedBy(c, b)'
  BY <1>1, <1>3, <1>7
<1>8. ASSUME NEW a \in Agents,
             \/ \E t \in Tasks : \/ BeginClaim(a, t) \/ CloseTask(a, t)
                                \/ BeginDelete(a, t) \/ ReapOne(a, t)
             \/ \E t, x \in Tasks : BeginLink(a, t, x)
             \/ \E ts \in SUBSET Tasks : BeginReap(a, ts)
             \/ TryClaim(a) \/ Notify(a) \/ Tell(a) \/ Link(a) \/ Delete(a)
      PROVE StrippedBy(c, b)'
  <2>1. older' = older
    BY <1>8 DEF BeginClaim, CloseTask, BeginDelete, ReapOne, BeginLink, BeginReap, TryClaim,
       Notify, CompleteWork, Tell, Link, Delete, fleet
  <2> DEFINE Elsewhere ==
        \A x \in Agents : at'[x] = at[x] \/ at'[x][1] \notin {"cleanup", "strip"}
  <2>2. ASSUME NEW t \in Tasks,
               BeginClaim(a, t) \/ CloseTask(a, t) \/ BeginDelete(a, t)
        PROVE Elsewhere
    BY <2>2 DEF BeginClaim, CloseTask, BeginDelete
  <2>3. ASSUME NEW t \in Tasks, ReapOne(a, t) PROVE Elsewhere
    BY <2>3 DEF ReapOne
  <2>4. ASSUME \/ \E t, x \in Tasks : BeginLink(a, t, x)
               \/ \E ts \in SUBSET Tasks : BeginReap(a, ts)
        PROVE Elsewhere
    BY <2>4 DEF BeginLink, BeginReap
  <2>5. ASSUME TryClaim(a) \/ Notify(a) \/ Tell(a) \/ Link(a) \/ Delete(a) PROVE Elsewhere
    BY <2>5 DEF TryClaim, Notify, Tell, Link, Delete
  <2> QED
    BY <1>7, <1>8, <2>1, <2>2, <2>3, <2>4, <2>5
<1>9. ASSUME NEW a \in Agents,
             \/ Announce(a) \/ Report(a) \/ BeginDeregister(a) \/ Deregister(a)
             \/ Claim(a) \/ Silence(a) \/ Fail(a) \/ Crash(a)
      PROVE StrippedBy(c, b)'
  <2>1. b \in older[c]
    BY <1>1, <1>9 DEF Announce, AnnounceWork, Ensure, Beats, Report, Register, Heartbeat,
       UpdateStatus, BeginDeregister, ReleaseAllClaims, Deregister, MarkCompleted, Claim,
       ClaimResource, Silence, FallSilent, Fail, MarkFailed, Crash
  <2>2. at'[c] = at[c] \/ at'[c][1] \notin {"cleanup", "strip"}
    BY <1>9 DEF Announce, Report, BeginDeregister, Deregister, Claim, Silence, Fail, Crash
  <2> QED
    BY <1>3, <2>1, <2>2
<1>10. CASE EndClaim \/ (\E t \in Tasks : EditTask(t)) \/ UNCHANGED vars
  <2>1. UNCHANGED <<at, older>>
    BY <1>10 DEF EndClaim, ReleaseAllClaims, Expire, EditTask, vars, fleet
  <2> QED
    BY <1>7, <2>1
<1> HIDE DEF TypeOK, RegistryTypeOK, Busy, Work, Becomes, Free, Idle
<1> QED
  BY <1>4, <1>5, <1>6, <1>8, <1>9, <1>10 DEF Next

LEMMA ReapedStep ==
    ASSUME TypeOK, Stripped, ReapedHoldsNothing, [Next]_vars
    PROVE  ReapedHoldsNothing'
<1> SUFFICES ASSUME NEW b \in reaped' PROVE ~HoldsClaim(b)' /\ ~HasAnnounced(b)'
  BY DEF ReapedHoldsNothing
<1>0. b \in Agents
  BY RegistryStep DEF RegistryTypeOK
<1>1. Calm(b)
  BY <1>0, CalmStep
<1>2. CASE b \in reaped
  BY <1>1, <1>2 DEF Calm, ReapedHoldsNothing
\* The final UPDATE marks only who is still behind the cutoff, and the list of
\* the agents to strip is empty by then.
<1>3. ASSUME NEW a \in Agents, Fail(a) PROVE ~HoldsClaim(b)' /\ ~HasAnnounced(b)'
  <2>1. UNCHANGED <<announced, claims>> /\ reaped' = reaped \cup Failing(a)
    BY <1>3 DEF Fail, MarkFailed
  <2>2. CASE b \in Failing(a)
    <3>1. b \in older[a] /\ row[b] \in Live /\ Busy(a, "cleanup") /\ Work(a) = {}
      BY <1>3, <2>2 DEF Fail, Failing
    <3>2. ~HoldsClaim(b) /\ ~HasAnnounced(b)
      BY <3>1 DEF Stripped, StrippedBy
    <3> QED
      BY <2>1, <3>2 DEF HoldsClaim, HasAnnounced
  <2> QED
    BY <1>2, <2>1, <2>2
<1>4. ASSUME NEW a \in Agents,
             \/ \E t \in Tasks : \/ BeginClaim(a, t) \/ CloseTask(a, t)
                                \/ BeginDelete(a, t) \/ ReapOne(a, t)
             \/ \E t, x \in Tasks : BeginLink(a, t, x)
             \/ \E ts \in SUBSET Tasks : BeginReap(a, ts)
             \/ TryClaim(a) \/ Announce(a) \/ Notify(a) \/ Tell(a) \/ Link(a) \/ Delete(a)
      PROVE reaped' \subseteq reaped
  BY <1>4 DEF BeginClaim, CloseTask, BeginDelete, ReapOne, BeginLink, BeginReap, TryClaim,
     Announce, AnnounceWork, Ensure, Notify, CompleteWork, Tell, Link, Delete, fleet
<1>5. ASSUME NEW a \in Agents,
             \/ Report(a) \/ BeginDeregister(a) \/ Deregister(a) \/ Claim(a) \/ Silence(a)
             \/ BeginCleanup(a) \/ StripAnnouncements(a) \/ Crash(a)
             \/ \E x \in Agents : StripClaims(a, x)
      PROVE reaped' \subseteq reaped
  BY <1>5 DEF Report, Register, Heartbeat, UpdateStatus, BeginDeregister, ReleaseAllClaims,
     Deregister, MarkCompleted, Claim, ClaimResource, Ensure, Silence, FallSilent,
     BeginCleanup, FixCutoff, StripAnnouncements, CompleteAnnouncements, Crash, StripClaims
<1>6. EndClaim \/ (\E t \in Tasks : EditTask(t)) \/ UNCHANGED vars => reaped' \subseteq reaped
  BY DEF EndClaim, ReleaseAllClaims, Expire, EditTask, vars, fleet
<1> QED
  BY <1>2, <1>3, <1>4, <1>5, <1>6 DEF Next

\* No exclusive claim stands next to another, and an agent that a cleanup marked
\* failed holds neither claims nor announcements until it is back, though the
\* cleanup strips first and marks later and other processes run in between.
THEOREM ClaimsSoundHolds == Spec => []ClaimsSound
<1>1. Init => ExclusiveOnly /\ Stripped /\ ReapedHoldsNothing
  BY DEF Init, ExclusiveOnly, Stripped, ReapedHoldsNothing
<1>2. ReapedHoldsNothing => FailedHoldsNothing
  BY DEF ReapedHoldsNothing, HoldsClaim, HasAnnounced, FailedHoldsNothing
<1> QED
  BY <1>1, <1>2, FleetTypeCorrect, ExclusiveStep, ExclusiveIsSingle, StrippedStep, ReapedStep,
     PTL DEF Spec, ClaimsSound
=============================================================================
