-------------------------- MODULE ModelSlotsProofs --------------------------
(***************************************************************************)
(* The safety properties of ModelSlots for every set of processes, every   *)
(* budget and every timing.  Those that speak of a holder's row need the   *)
(* renewals on time; the bound on the table holds however late they are.   *)
(***************************************************************************)
EXTENDS ModelSlots, FiniteSetTheorems, TLAPS

\* Both tables and all locals keep their shape: the limit stays between 1 and
\* the largest ceiling through every shrink, growth and change of ceiling.
THEOREM TypeCorrect == Spec => []TypeOK
<1>1. Init => TypeOK
  BY CeilingAssumption, TimeAssumption, LeaseAssumption
  DEF Init, TypeOK, Stages, Purposes, Sights, Blank
<1>2. TypeOK /\ [Next]_vars => TypeOK'
  <2> SUFFICES ASSUME TypeOK, [Next]_vars PROVE TypeOK'
    OBVIOUS
  <2> USE CeilingAssumption, TimeAssumption
      DEF TypeOK, Stages, Purposes, Sights, Blank, tables, Lesser, Greater
  <2>1. ASSUME NEW p \in Procs, Call(p) PROVE TypeOK'
    BY <2>1 DEF Call
  <2>2. ASSUME NEW p \in Procs, Select(p) PROVE TypeOK'
    <3>1. \A c \in Ceilings : Sight(c) \in Sights
      BY DEF Sight
    <3> QED
      BY <2>2, <3>1 DEF Select
  <2>3. ASSUME NEW p \in Procs, InsertRow(p) PROVE TypeOK'
    BY <2>3 DEF InsertRow
  <2>4. ASSUME NEW p \in Procs, SyncCeiling(p) PROVE TypeOK'
    BY <2>4 DEF SyncCeiling
  <2>5. ASSUME NEW p \in Procs, Grant(p) PROVE TypeOK'
    BY <2>5 DEF Grant, Live, Fresh
  <2>6. ASSUME NEW p \in Procs, Full(p) PROVE TypeOK'
    BY <2>6 DEF Full, Live
  <2>7. ASSUME NEW p \in Procs, GiveUp(p) PROVE TypeOK'
    BY <2>7 DEF GiveUp, Live
  <2>8. ASSUME NEW p \in Procs, Poll(p) PROVE TypeOK'
    BY <2>8 DEF Poll
  <2>9. ASSUME NEW p \in Procs, Renew(p) PROVE TypeOK'
    BY <2>9 DEF Renew, Busy
  <2>9a. ASSUME NEW p \in Procs, RenewFails(p) PROVE TypeOK'
    BY <2>9a DEF RenewFails, Busy
  <2>10. ASSUME NEW p \in Procs, Finish(p) PROVE TypeOK'
    BY <2>10 DEF Finish
  <2>11. ASSUME NEW p \in Procs, Shrink(p) PROVE TypeOK'
    BY <2>11 DEF Shrink, AfterReport
  <2>12. ASSUME NEW p \in Procs, Grow(p) PROVE TypeOK'
    BY <2>12 DEF Grow, MayGrow
  <2>13. ASSUME NEW p \in Procs, Release(p) PROVE TypeOK'
    BY <2>13 DEF Release
  <2>14. ASSUME NEW p \in Procs, StoreFails(p) PROVE TypeOK'
    BY <2>14 DEF StoreFails, AfterReport
  <2>15. ASSUME NEW p \in Procs, Crash(p) PROVE TypeOK'
    BY <2>15 DEF Crash
  <2>16. CASE Tick
    BY <2>16 DEF Tick, Busy
  <2>17. CASE UNCHANGED vars
    BY <2>17 DEF vars
  <2> QED
    BY <2>1, <2>2, <2>3, <2>4, <2>5, <2>6, <2>7, <2>8, <2>9, <2>9a, <2>10, <2>11, <2>12, <2>13, <2>14, <2>15, <2>16,
       <2>17 DEF Next
<1> QED
  BY <1>1, <1>2, PTL DEF Spec

-----------------------------------------------------------------------------
(* The table is bounded.                                                    *)

RowsBounded == IsFiniteSet(rows) /\ Cardinality(rows) <= MaxCeiling

LEMMA BudgetBounded ==
    ASSUME TypeOK, NEW p \in Procs
    PROVE  Budget(p) \in 1..MaxCeiling
  BY CeilingAssumption DEF TypeOK, Sights, Budget, Greater, Lesser

\* Reaping only removes rows.
LEMMA LiveBounded ==
    ASSUME RowsBounded
    PROVE  /\ IsFiniteSet(Live)
           /\ Cardinality(Live) \in Nat
           /\ Cardinality(Live) <= MaxCeiling
<1>1. Live \in SUBSET rows
  BY DEF Live
<1>2. IsFiniteSet(Live) /\ Cardinality(Live) <= Cardinality(rows)
  BY <1>1, FS_Subset DEF RowsBounded
<1>3. Cardinality(Live) \in Nat /\ Cardinality(rows) \in Nat
  BY <1>2, FS_CardinalityType DEF RowsBounded
<1> QED
  BY <1>2, <1>3, CeilingAssumption DEF RowsBounded

\* model_leases never holds more rows than the largest budget: the acquire
\* transaction counts what it has just reaped, and only then inserts one.
THEOREM RowsWithinBudgetHolds == Spec => []RowsWithinBudget
<1>1. Init => RowsBounded
  BY FS_EmptySet, CeilingAssumption DEF Init, RowsBounded
<1>2. TypeOK /\ RowsBounded /\ [Next]_vars => RowsBounded'
  <2> SUFFICES ASSUME TypeOK, RowsBounded, [Next]_vars PROVE RowsBounded'
    OBVIOUS
  <2>1. CASE UNCHANGED rows
    BY <2>1 DEF RowsBounded
  <2>2. CASE rows' = Live
    BY <2>2, LiveBounded DEF RowsBounded
  <2>3. ASSUME NEW p \in Procs, Grant(p) PROVE RowsBounded'
    <3>1. PICK id \in Fresh : rows' = Live \cup {id}
      BY <2>3 DEF Grant
    <3>2. id \notin Live
      BY <3>1 DEF Fresh, Live
    <3>3. IsFiniteSet(rows') /\ Cardinality(rows') = Cardinality(Live) + 1
      BY <3>1, <3>2, LiveBounded, FS_AddElement
    <3>4. Cardinality(Live) < Budget(p)
      BY <2>3 DEF Grant
    <3> QED
      BY <3>3, <3>4, BudgetBounded, LiveBounded, CeilingAssumption DEF RowsBounded
  <2>4. ASSUME NEW p \in Procs, Release(p) PROVE RowsBounded'
    <3>1. rows' \in SUBSET rows
      BY <2>4 DEF Release
    <3>2. IsFiniteSet(rows') /\ Cardinality(rows') <= Cardinality(rows)
      BY <3>1, FS_Subset DEF RowsBounded
    <3>3. Cardinality(rows) \in Nat /\ Cardinality(rows') \in Nat
      BY <3>2, FS_CardinalityType DEF RowsBounded
    <3> QED
      BY <3>2, <3>3, CeilingAssumption DEF RowsBounded
  <2>5. ASSUME NEW p \in Procs,
               \/ Call(p) \/ Select(p) \/ InsertRow(p) \/ SyncCeiling(p) \/ Poll(p)
               \/ Renew(p) \/ RenewFails(p) \/ Finish(p) \/ Shrink(p) \/ Grow(p)
               \/ StoreFails(p) \/ Crash(p)
        PROVE  UNCHANGED rows
    BY <2>5 DEF Call, Select, InsertRow, SyncCeiling, Poll, Renew, RenewFails, Finish, Shrink,
                Grow, StoreFails, Crash, tables
  <2>6. ASSUME NEW p \in Procs, Full(p) \/ GiveUp(p) PROVE rows' = Live
    BY <2>6 DEF Full, GiveUp
  <2>7. Tick \/ UNCHANGED vars => UNCHANGED rows
    BY DEF Tick, vars
  <2> QED
    BY <2>1, <2>2, <2>3, <2>4, <2>5, <2>6, <2>7 DEF Next
<1>3. RowsBounded => RowsWithinBudget
  BY DEF RowsBounded, RowsWithinBudget
<1> QED
  BY <1>1, <1>2, <1>3, TypeCorrect, PTL DEF Spec

-----------------------------------------------------------------------------
(* A lease id names one holder.                                             *)

LeasesDistinct ==
    \A p, q \in Procs : lease[p] = lease[q] /\ lease[p] # NoLease => p = q

\* The key is AUTOINCREMENT (Fresh): none that a process names is handed out again.
LEMMA LeasesDistinctHolds == Spec => []LeasesDistinct
<1>1. Init => LeasesDistinct
  BY DEF Init, LeasesDistinct
<1>2. TypeOK /\ LeasesDistinct /\ [Next]_vars => LeasesDistinct'
  <2> SUFFICES ASSUME TypeOK, LeasesDistinct, [Next]_vars PROVE LeasesDistinct'
    OBVIOUS
  <2>1. CASE UNCHANGED lease
    BY <2>1 DEF LeasesDistinct
  <2>2. ASSUME NEW p \in Procs, Grant(p) PROVE LeasesDistinct'
    BY <2>2 DEF Grant, Fresh, LeasesDistinct, TypeOK
  <2>3. ASSUME NEW p \in Procs, Release(p) \/ StoreFails(p) \/ Crash(p)
        PROVE  LeasesDistinct'
    <3>1. \A q \in Procs : lease'[q] \in {lease[q], NoLease}
      BY <2>3 DEF Release, StoreFails, Crash, TypeOK
    <3> QED
      BY <3>1 DEF LeasesDistinct
  <2>4. ASSUME NEW p \in Procs,
               \/ Call(p) \/ Select(p) \/ InsertRow(p) \/ SyncCeiling(p) \/ Full(p)
               \/ GiveUp(p) \/ Poll(p) \/ Renew(p) \/ RenewFails(p) \/ Finish(p)
               \/ Shrink(p) \/ Grow(p)
        PROVE  UNCHANGED lease
    BY <2>4 DEF Call, Select, InsertRow, SyncCeiling, Full, GiveUp, Poll, Renew, RenewFails,
                Finish, Shrink, Grow
  <2>5. Tick \/ UNCHANGED vars => UNCHANGED lease
    BY DEF Tick, vars
  <2> QED
    BY <2>1, <2>2, <2>3, <2>4, <2>5 DEF Next
<1> QED
  BY <1>1, <1>2, TypeCorrect, PTL DEF Spec

\* A row that has not expired leaves the table by the release of its only holder:
\* neither reaping nor a late release by id takes a live lease from another.
THEOREM OnlyHolderRemovesHolds == Spec => OnlyHolderRemoves
<1> DEFINE Rightly(id) ==
              \/ rem[id] < 0
              \/ \E p \in Procs : pc[p] = "release" /\ {q \in Procs : lease[q] = id} = {p}
<1>1. ASSUME TypeOK, LeasesDistinct, [Next]_vars, NEW id \in rows \ rows' PROVE Rightly(id)
  <2>0. id \in Ids /\ rem[id] \in Int
    BY <1>1, TimeAssumption DEF TypeOK
  <2>1. ASSUME NEW p \in Procs, Grant(p) \/ Full(p) \/ GiveUp(p) PROVE Rightly(id)
    <3>1. Live \subseteq rows'
      BY <2>1 DEF Grant, Full, GiveUp
    <3> QED
      BY <1>1, <2>0, <3>1 DEF Live
  <2>2. ASSUME NEW p \in Procs, Release(p) PROVE Rightly(id)
    <3>1. lease[p] = id /\ pc[p] = "release"
      BY <1>1, <2>2 DEF Release
    <3>2. lease[p] # NoLease
      BY <2>0, <3>1, LeaseAssumption
    <3>3. {q \in Procs : lease[q] = id} = {p}
      BY <1>1, <3>1, <3>2 DEF LeasesDistinct
    <3> QED
      BY <3>1, <3>3
  <2>3. ASSUME NEW p \in Procs,
               \/ Call(p) \/ Select(p) \/ InsertRow(p) \/ SyncCeiling(p) \/ Poll(p) \/ Renew(p)
               \/ RenewFails(p) \/ Finish(p) \/ Shrink(p) \/ Grow(p) \/ StoreFails(p) \/ Crash(p)
        PROVE  rows' = rows
    BY <2>3 DEF Call, Select, InsertRow, SyncCeiling, Poll, Renew, RenewFails, Finish,
                Shrink, Grow, StoreFails, Crash, tables
  <2>4. Tick \/ UNCHANGED vars => rows' = rows
    BY DEF Tick, vars
  <2> QED
    BY <1>1, <2>1, <2>2, <2>3, <2>4 DEF Next
<1>2. TypeOK /\ LeasesDistinct /\ [Next]_vars =>
        [\A id \in rows \ rows' :
            \/ rem[id] < 0
            \/ \E p \in Procs : /\ pc[p] = "release"
                              /\ {q \in Procs : lease[q] = id} = {p}]_vars
  BY <1>1
<1> QED
  BY <1>2, TypeCorrect, LeasesDistinctHolds, PTL DEF Spec, OnlyHolderRemoves

-----------------------------------------------------------------------------
(* A caller keeps its row as long as renewals are on time.                  *)

\* From one renewal to the next, the timer as late as it can be.
Round == RenewEvery + MaxLate

\* The renewal after MaxMissed failed ones still comes within the ttl.
Prompt == MaxMissed * Round + Round <= Ttl

\* Failed renewals, in time lost.
Lost(p) == missed[p] * Round

\* The row of a caller is at least as fresh as its renewal timer says.
Timely ==
    \A p \in Procs :
        Busy(p) => /\ lease[p] \in rows
                   /\ rem[lease[p]] >= Ttl - Lost(p) - RenewEvery + due[p]

LEMMA LostBounded ==
    ASSUME TypeOK, NEW p \in Procs
    PROVE  Lost(p) \in 0..(MaxMissed * Round)
<1> DEFINE n == missed[p]
<1>1. n \in 0..MaxMissed /\ MaxMissed \in Nat /\ Round \in Nat
  BY TimeAssumption DEF TypeOK, Round
<1> HIDE DEF n
<1>2. n * Round \in Nat /\ MaxMissed * Round \in Nat /\ (MaxMissed - n) * Round \in Nat
  BY <1>1
<1>3. MaxMissed * Round = n * Round + (MaxMissed - n) * Round
  BY <1>1
<1> QED
  BY <1>2, <1>3 DEF Lost, n

LEMMA TimelyKeepsRow ==
    ASSUME Prompt, TypeOK, Timely
    PROVE  CallersKeepRow
<1> SUFFICES ASSUME NEW p \in Procs, Busy(p) PROVE lease[p] \in Live
  BY DEF CallersKeepRow
<1>1. lease[p] \in rows /\ rem[lease[p]] >= Ttl - Lost(p) - RenewEvery + due[p]
  BY DEF Timely
<1>2. due[p] \in -MaxLate..RenewEvery /\ rem[lease[p]] \in -1..Ttl
  BY <1>1 DEF TypeOK
<1>3. Lost(p) \in 0..(MaxMissed * Round)
  BY LostBounded
<1>4. MaxMissed * Round + Round <= Ttl /\ MaxMissed * Round \in Int
  BY TimeAssumption DEF Prompt, Round
<1>5. rem[lease[p]] >= 0
  <2> DEFINE all == MaxMissed * Round
  <2>1. all \in Int /\ Lost(p) \in 0..all /\ all + (RenewEvery + MaxLate) <= Ttl
    BY <1>3, <1>4 DEF Round
  <2> HIDE DEF all
  <2> QED
    BY <1>1, <1>2, <2>1, TimeAssumption
<1> QED
  BY <1>1, <1>5 DEF Live

LEMMA TimelyStep ==
    ASSUME Prompt, TypeOK, LeasesDistinct, Timely, [Next]_vars
    PROVE  Timely'
<1> USE TimeAssumption DEF TypeOK
<1> SUFFICES ASSUME NEW q \in Procs, Busy(q)'
             PROVE  lease'[q] \in rows' /\ rem'[lease'[q]] >= Ttl - Lost(q)' - RenewEvery + due'[q]
  BY DEF Timely
<1>0. Busy(q) => lease[q] \in Live
  BY TimelyKeepsRow DEF CallersKeepRow
<1>a. Round \in Nat /\ Lost(q) \in Nat
  BY DEF Lost, Round
<1>b. missed'[q] = missed[q] => Lost(q)' = Lost(q)
  BY DEF Lost, Round
<1>c. missed'[q] = 0 => Lost(q)' = 0
  BY DEF Lost, Round
<1>d. missed'[q] = missed[q] + 1 => Lost(q)' = Lost(q) + Round
  <2> DEFINE n == missed[q]
  <2>1. n \in Nat
    OBVIOUS
  <2>2. (n + 1) * Round = n * Round + Round
    <3> HIDE DEF n
    <3> QED
      BY <2>1, <1>a
  <2> QED
    BY <2>2 DEF Lost, Round
<1>1. ASSUME NEW p \in Procs,
             \/ Call(p) \/ Select(p) \/ InsertRow(p) \/ SyncCeiling(p) \/ Poll(p)
             \/ Finish(p) \/ Shrink(p) \/ Grow(p)
      PROVE  UNCHANGED <<rows, rem, lease, due, missed>> /\ (Busy(q)' => Busy(q))
  <2> USE DEF Busy, tables
  <2>1. CASE Call(p)
    BY <2>1 DEF Call
  <2>2. CASE Select(p)
    BY <2>2 DEF Select
  <2>3. CASE InsertRow(p) \/ SyncCeiling(p)
    BY <2>3 DEF InsertRow, SyncCeiling
  <2>4. CASE Poll(p) \/ Finish(p)
    BY <2>4 DEF Poll, Finish
  <2>5. CASE Shrink(p) \/ Grow(p)
    BY <2>5 DEF Shrink, Grow
  <2> QED
    BY <1>1, <2>1, <2>2, <2>3, <2>4, <2>5
<1>2. ASSUME NEW p \in Procs, Full(p) \/ GiveUp(p)
      PROVE  lease'[q] \in rows' /\ rem'[lease'[q]] >= Ttl - Lost(q)' - RenewEvery + due'[q]
  <2>1. rows' = Live /\ UNCHANGED <<rem, lease, due, missed>> /\ Busy(q)
    BY <1>2 DEF Full, GiveUp, Busy
  <2> QED
    BY <2>1, <1>0, <1>b DEF Timely
<1>3. ASSUME NEW p \in Procs, Grant(p)
      PROVE  lease'[q] \in rows' /\ rem'[lease'[q]] >= Ttl - Lost(q)' - RenewEvery + due'[q]
  <2>1. PICK id \in Fresh : /\ rows' = Live \cup {id}
                            /\ rem' = [rem EXCEPT ![id] = Ttl]
                            /\ lease' = [lease EXCEPT ![p] = id]
    BY <1>3 DEF Grant
  <2>2. /\ due' = [due EXCEPT ![p] = RenewEvery] /\ missed' = [missed EXCEPT ![p] = 0]
        /\ id \in Ids /\ lease[q] # id
    BY <1>3, <2>1 DEF Grant, Fresh
  <2>3. CASE q = p
    BY <2>1, <2>2, <2>3, <1>c
  <2>4. CASE q # p
    <3>1. Busy(q)
      BY <1>3, <2>1, <2>4 DEF Grant, Busy
    <3> QED
      BY <2>1, <2>2, <2>4, <3>1, <1>0, <1>b DEF Timely
  <2> QED
    BY <2>3, <2>4
<1>4. ASSUME NEW p \in Procs, Renew(p)
      PROVE  lease'[q] \in rows' /\ rem'[lease'[q]] >= Ttl - Lost(q)' - RenewEvery + due'[q]
  <2>1. Busy(q) /\ Busy(p) /\ UNCHANGED <<rows, lease>>
    BY <1>4 DEF Renew, Busy
  <2>2. lease[p] \in rows /\ lease[q] \in rows
    BY <2>1 DEF Timely
  <2>3. /\ rem' = [rem EXCEPT ![lease[p]] = Ttl] /\ due' = [due EXCEPT ![p] = RenewEvery]
        /\ missed' = [missed EXCEPT ![p] = 0]
    BY <1>4, <2>2 DEF Renew
  <2>4. CASE q = p
    BY <2>1, <2>2, <2>3, <2>4, <1>c
  <2>5. CASE q # p
    BY <2>1, <2>2, <2>3, <2>5, <1>b DEF Timely, LeasesDistinct, Busy
  <2> QED
    BY <2>4, <2>5
<1>4a. ASSUME NEW p \in Procs, RenewFails(p)
      PROVE  lease'[q] \in rows' /\ rem'[lease'[q]] >= Ttl - Lost(q)' - RenewEvery + due'[q]
  <2>1. Busy(q) /\ Busy(p) /\ UNCHANGED <<rows, rem, lease>>
    BY <1>4a DEF RenewFails, Busy, tables
  <2>2. lease[q] \in rows /\ rem[lease[q]] >= Ttl - Lost(q) - RenewEvery + due[q]
    BY <2>1 DEF Timely
  <2>3. CASE q = p
    <3>1. missed'[q] = missed[q] + 1 /\ due'[q] = RenewEvery
      BY <1>4a, <2>3 DEF RenewFails
    <3>2. Lost(q)' = Lost(q) + (RenewEvery + MaxLate)
      BY <3>1, <1>d DEF Round
    <3>3. due[q] >= -MaxLate /\ due[q] \in Int /\ rem[lease[q]] \in Int
      BY <2>2
    <3> QED
      BY <2>1, <2>2, <3>1, <3>2, <3>3, <1>a
  <2>4. CASE q # p
    <3>1. missed'[q] = missed[q] /\ due'[q] = due[q]
      BY <1>4a, <2>4 DEF RenewFails
    <3> QED
      BY <2>1, <2>2, <3>1, <1>b
  <2> QED
    BY <2>3, <2>4
<1>5. ASSUME NEW p \in Procs, Release(p)
      PROVE  lease'[q] \in rows' /\ rem'[lease'[q]] >= Ttl - Lost(q)' - RenewEvery + due'[q]
  <2>1. q # p /\ Busy(q)
    BY <1>5 DEF Release, Busy
  <2>2. /\ lease'[q] = lease[q] /\ due'[q] = due[q] /\ missed'[q] = missed[q]
        /\ lease[q] # lease[p]
    BY <1>5, <2>1 DEF Release, LeasesDistinct, Busy
  <2>3. lease[q] \in rows' /\ rem'[lease[q]] = rem[lease[q]]
    BY <1>5, <2>1, <2>2 DEF Release, Timely
  <2> QED
    BY <2>1, <2>2, <2>3, <1>b DEF Timely
<1>6. ASSUME NEW p \in Procs, StoreFails(p) \/ Crash(p)
      PROVE  lease'[q] \in rows' /\ rem'[lease'[q]] >= Ttl - Lost(q)' - RenewEvery + due'[q]
  <2>1. CASE StoreFails(p)
    <3>1. /\ UNCHANGED <<rows, rem>> /\ Busy(q) /\ lease'[q] = lease[q] /\ due'[q] = due[q]
          /\ missed'[q] = missed[q]
      BY <2>1 DEF StoreFails, Busy, tables
    <3> QED
      BY <3>1, <1>b DEF Timely
  <2>2. CASE Crash(p)
    <3>1. /\ UNCHANGED <<rows, rem>> /\ Busy(q) /\ lease'[q] = lease[q] /\ due'[q] = due[q]
          /\ missed'[q] = missed[q]
      BY <2>2 DEF Crash, Busy, tables
    <3> QED
      BY <3>1, <1>b DEF Timely
  <2> QED
    BY <1>6, <2>1, <2>2
<1>7. CASE Tick
  <2>1. Busy(q) /\ UNCHANGED <<rows, lease>>
    BY <1>7 DEF Tick, Busy
  <2>2. lease[q] \in rows /\ rem[lease[q]] >= Ttl - Lost(q) - RenewEvery + due[q] /\ lease[q] \in Ids
    BY <2>1 DEF Timely
  <2>3. due'[q] = due[q] - 1 /\ rem'[lease[q]] = Greater(-1, rem[lease[q]] - 1)
    BY <1>7, <2>1, <2>2 DEF Tick
  <2>4. due[q] \in Int /\ rem[lease[q]] \in Int /\ missed' = missed
    BY <1>7, <2>2 DEF Tick
  <2> QED
    BY <2>1, <2>2, <2>3, <2>4, <1>a, <1>b DEF Greater
<1>8. CASE UNCHANGED vars
  BY <1>8, <1>b DEF vars, Timely, Busy
<1> QED
  BY <1>1, <1>2, <1>3, <1>4, <1>4a, <1>5, <1>6, <1>7, <1>8, <1>b DEF Next, Timely

LEMMA TimelyHolds == ASSUME Prompt PROVE Spec => []Timely
<1>1. Init => Timely
  BY DEF Init, Timely, Busy
<1>2. TypeOK /\ LeasesDistinct /\ Timely /\ [Next]_vars => Timely'
  BY TimelyStep
<1> QED
  BY <1>1, <1>2, TypeCorrect, LeasesDistinctHolds, PTL DEF Spec

\* With renewals on time, a process in a model call still has its row and the
\* row has not expired, whatever the other processes reap.
THEOREM CallersKeepRowHolds == ASSUME Prompt PROVE Spec => []CallersKeepRow
<1>1. TypeOK /\ Timely => CallersKeepRow
  BY TimelyKeepsRow
<1> QED
  BY <1>1, TypeCorrect, TimelyHolds, PTL

-----------------------------------------------------------------------------
(* The number of leased calls, and the semaphore.                           *)

Callers == {p \in Procs : Busy(p)}

\* lease maps the callers one to one into the rows that have not expired.
LEMMA CallersHaveRows ==
    ASSUME RowsBounded, LeasesDistinct, CallersKeepRow
    PROVE  /\ IsFiniteSet(Callers)
           /\ Cardinality(Callers) \in Nat
           /\ Cardinality(Callers) <= Cardinality(Live)
<1> DEFINE f == [p \in Callers |-> lease[p]]
<1>1. f \in Injection(Callers, Live)
  BY DEF Injection, IsInjective, Callers, CallersKeepRow, LeasesDistinct, Busy
<1>2. IsFiniteSet(Callers) /\ Cardinality(Callers) <= Cardinality(Live)
  BY <1>1, LiveBounded, FS_Injection
<1> QED
  BY <1>2, FS_CardinalityType

LEMMA RowsBoundedHolds == Spec => []RowsBounded
<1>1. Init => IsFiniteSet(rows)
  BY FS_EmptySet DEF Init
<1>2. IsFiniteSet(rows) /\ [Next]_vars => IsFiniteSet(rows)'
  <2> SUFFICES ASSUME IsFiniteSet(rows), [Next]_vars PROVE IsFiniteSet(rows')
    OBVIOUS
  <2>1. IsFiniteSet(Live) /\ \A id : IsFiniteSet(Live \cup {id})
    <3>1. Live \in SUBSET rows
      BY DEF Live
    <3> QED
      BY <3>1, FS_Subset, FS_AddElement
  <2>2. \A p \in Procs : IsFiniteSet(rows \ {lease[p]})
    BY FS_RemoveElement
  <2>3. \/ rows' = rows
        \/ rows' = Live
        \/ \E id : rows' = Live \cup {id}
        \/ \E p \in Procs : rows' = rows \ {lease[p]}
    BY DEF Next, Call, Select, InsertRow, SyncCeiling, Grant, Full, GiveUp, Poll, Renew,
           RenewFails, Finish, Shrink, Grow, Release, StoreFails, Crash, Tick, tables, vars
  <2> QED
    BY <2>1, <2>2, <2>3
<1>3. IsFiniteSet(rows) /\ RowsWithinBudget => RowsBounded
  BY DEF RowsBounded, RowsWithinBudget
<1> QED
  BY <1>1, <1>2, <1>3, RowsWithinBudgetHolds, PTL DEF Spec

\* With renewals on time, at most MaxCeiling leased model calls run at once.
THEOREM LeasedCallsBoundedHolds == ASSUME Prompt PROVE Spec => []LeasedCallsBounded
<1>1. RowsBounded /\ LeasesDistinct /\ CallersKeepRow => LeasedCallsBounded
  <2> SUFFICES ASSUME RowsBounded, LeasesDistinct, CallersKeepRow
               PROVE  Cardinality(Callers) <= MaxCeiling
    BY DEF LeasedCallsBounded, Callers
  <2> QED
    BY CallersHaveRows, LiveBounded, CeilingAssumption
<1> QED
  BY <1>1, RowsBoundedHolds, LeasesDistinctHolds, CallersKeepRowHolds, PTL

\* A step of the lease table moves at most one process into or out of fn with
\* a lease, and moves it in only while there is room: a semaphore's step.
LEMMA SemaphoreStep ==
    ASSUME TypeOK, RowsBounded, LeasesDistinct, CallersKeepRow, [Next]_vars
    PROVE  \/ Callers' = Callers
           \/ \E p \in Procs : /\ p \notin Callers
                               /\ Cardinality(Callers) < MaxCeiling
                               /\ Callers' = Callers \cup {p}
           \/ \E p \in Procs : p \in Callers /\ Callers' = Callers \ {p}
<1> USE DEF TypeOK, Callers, Busy, tables
<1>1. ASSUME NEW p \in Procs,
             \/ Call(p) \/ Select(p) \/ InsertRow(p) \/ SyncCeiling(p)
             \/ Full(p) \/ GiveUp(p) \/ Poll(p) \/ Renew(p) \/ RenewFails(p)
      PROVE  Callers' = Callers
  BY <1>1 DEF Call, Select, InsertRow, SyncCeiling, Full, GiveUp, Poll, Renew, RenewFails
<1>2. ASSUME NEW p \in Procs, Grant(p)
      PROVE  \/ Callers' = Callers
             \/ /\ p \notin Callers
                /\ Cardinality(Callers) < MaxCeiling
                /\ Callers' = Callers \cup {p}
  <2>1. Callers' = Callers \cup {p}
    BY <1>2, LeaseAssumption DEF Grant, Fresh
  <2>2. Cardinality(Callers) < MaxCeiling
    <3>1. Cardinality(Live) < Budget(p)
      BY <1>2 DEF Grant
    <3> HIDE DEF TypeOK, Callers, Busy
    <3> QED
      BY <3>1, CallersHaveRows, LiveBounded, BudgetBounded, CeilingAssumption
  <2> QED
    BY <2>1, <2>2
<1>3. ASSUME NEW p \in Procs,
             Finish(p) \/ Shrink(p) \/ Grow(p) \/ Release(p) \/ StoreFails(p) \/ Crash(p)
      PROVE  Callers' = Callers \/ (p \in Callers /\ Callers' = Callers \ {p})
  <2>1. \A q \in Procs : q # p => (Busy(q)' <=> Busy(q))
    BY <1>3 DEF Finish, Shrink, Grow, Release, StoreFails, Crash
  <2>2. Busy(p)' => Busy(p)
    BY <1>3 DEF Finish, Shrink, Grow, Release, StoreFails, Crash
  <2>3. CASE Busy(p)'
    BY <2>1, <2>2, <2>3
  <2>4. CASE ~Busy(p)'
    BY <2>1, <2>4
  <2> QED
    BY <2>3, <2>4
<1>4. CASE Tick \/ UNCHANGED vars
  BY <1>4 DEF Tick, vars
<1> QED
  BY <1>1, <1>2, <1>3, <1>4 DEF Next

\* The semaphore counts with the same Cardinality.
LEMMA SameCardinality == \A S : Semaphore!Cardinality(S) = Cardinality(S)
  BY DEF Cardinality, Semaphore!Cardinality

\* With renewals on time the lease table implements the counting semaphore.
THEOREM ImplementsHolds == ASSUME Prompt PROVE Spec => Implements
<1>1. Init => Semaphore!Init
  BY DEF Init, Semaphore!Init, Busy
<1>2. TypeOK /\ RowsBounded /\ LeasesDistinct /\ CallersKeepRow /\ [Next]_vars
        => [Semaphore!Next]_{p \in Procs : Busy(p)}
  BY SemaphoreStep, SameCardinality DEF Callers, Semaphore!Next, Semaphore!Enter, Semaphore!Leave
<1> QED
  BY <1>1, <1>2, TypeCorrect, RowsBoundedHolds, LeasesDistinctHolds, CallersKeepRowHolds,
     PTL DEF Spec, Implements, Semaphore!Spec
=============================================================================
