-------------------------- MODULE OrchestratorProofs --------------------------
(***************************************************************************)
(* Proofs about Orchestrator.  What it promises follows from one inductive *)
(* invariant, OrchestratorInv: whose attempts run in which state of the    *)
(* scheduler (Flights), that no id is in two places (Separate), who waits  *)
(* for the merge lock and who edits the main tree (Queue, Bare, Alone),    *)
(* what is in the tree for an accepted id (Merged), and where the phases   *)
(* of the state file are (Covered).  What attempts build on needs a second *)
(* one, BuildInv, and lists of tasks that are whole.  The helpers over     *)
(* lists of phases come first, then one lemma per action.                  *)
(***************************************************************************)
EXTENDS Orchestrator, FiniteSetTheorems, FunctionTheorems, SequenceTheorems, TLAPS

-----------------------------------------------------------------------------
(* Lists of phases.                                                         *)

Before(I, i) == {j \in I : j < i}

\* A filter takes each of the chosen places once.
LEMMA NthShape ==
    ASSUME NEW n \in Nat, NEW I \in SUBSET (1..n)
    PROVE  /\ IsFiniteSet(I) /\ Cardinality(I) \in Nat
           /\ \A k \in 1..Cardinality(I) : Nth(I, k) \in I
           /\ \A i \in I : \E k \in 1..Cardinality(I) : Nth(I, k) = i
           /\ \A k, m \in 1..Cardinality(I) : Nth(I, k) = Nth(I, m) => k = m
           /\ \A k, m \in 1..Cardinality(I) : Nth(I, k) < Nth(I, m) => k < m
<1> DEFINE N == Cardinality(I)
<1>1. IsFiniteSet(1..n)
  BY FS_Interval
<1>2. IsFiniteSet(I) /\ N \in Nat
  BY <1>1, FS_Subset, FS_CardinalityType
<1>3. ASSUME NEW i \in I
      PROVE  /\ IsFiniteSet(Before(I, i)) /\ Cardinality(Before(I, i)) \in Nat
             /\ Cardinality(Before(I, i)) + 1 \in 1..N
  <2>1. Before(I, i) \in SUBSET I /\ Before(I, i) # I
    BY DEF Before
  <2>2. /\ IsFiniteSet(Before(I, i)) /\ Cardinality(Before(I, i)) <= N
        /\ Cardinality(Before(I, i)) # N
    BY <2>1, <1>2, FS_Subset
  <2>3. Cardinality(Before(I, i)) \in Nat
    BY <2>2, FS_CardinalityType
  <2> HIDE DEF N
  <2> QED
    BY <2>2, <2>3, <1>2, \A a, b \in Nat : a <= b /\ a # b => a + 1 \in 1..b
<1>4. ASSUME NEW i \in I, NEW j \in I, i < j
      PROVE  Cardinality(Before(I, i)) < Cardinality(Before(I, j))
  <2>0. ~(i < i) /\ \A k \in I : k < i => k < j
    BY <1>4, \A a, b, c \in 1..n : ~(a < a) /\ (a < b /\ b < c => a < c)
  <2>1. Before(I, i) \in SUBSET Before(I, j) /\ i \in Before(I, j) /\ i \notin Before(I, i)
    BY <2>0, <1>4 DEF Before
  <2>2. IsFiniteSet(Before(I, j))
    BY <1>3
  <2>3. /\ Cardinality(Before(I, i)) <= Cardinality(Before(I, j))
        /\ Cardinality(Before(I, i)) # Cardinality(Before(I, j))
    BY <2>1, <2>2, FS_Subset
  <2>4. Cardinality(Before(I, i)) \in Nat /\ Cardinality(Before(I, j)) \in Nat
    BY <1>3
  <2> QED
    BY <2>3, <2>4
<1>5. ASSUME NEW i \in I, NEW j \in I, Cardinality(Before(I, i)) = Cardinality(Before(I, j))
      PROVE  i = j
  <2>1. i \in Int /\ j \in Int
    OBVIOUS
  <2>2. CASE i < j
    BY <2>2, <1>3, <1>4, <1>5
  <2>3. CASE j < i
    BY <2>3, <1>3, <1>4, <1>5
  <2> QED
    BY <2>1, <2>2, <2>3
<1> DEFINE f == [i \in I |-> Cardinality(Before(I, i)) + 1]
<1>6. f \in [I -> 1..N]
  BY <1>3
<1>7. ASSUME NEW i \in I, NEW j \in I, f[i] = f[j] PROVE i = j
  BY <1>3, <1>5, <1>7
<1>8. f \in Injection(I, 1..N)
  <2> HIDE DEF f, N
  <2> QED
    BY <1>6, <1>7 DEF Injection, IsInjective
<1>9. IsFiniteSet(1..N) /\ Cardinality(1..N) = N
  <2> HIDE DEF N
  <2> QED
    BY <1>2, FS_Interval
<1>10. f \in Surjection(I, 1..N)
  <2> HIDE DEF f
  <2> QED
    BY <1>8, <1>9, FS_Injection
<1>11. ASSUME NEW k \in 1..N PROVE Nth(I, k) \in I /\ f[Nth(I, k)] = k
  <2>1. PICK i \in I : f[i] = k
    <3> HIDE DEF f, N
    <3> QED
      BY <1>10 DEF Surjection
  <2>2. Cardinality({j \in I : j < i}) = k - 1
    BY <2>1, <1>3 DEF Before
  <2>3. Nth(I, k) \in I /\ Cardinality({j \in I : j < Nth(I, k)}) = k - 1
    BY <2>2 DEF Nth
  <2> QED
    BY <2>3, <1>3 DEF Before
<1>12. ASSUME NEW i \in I PROVE \E k \in 1..N : Nth(I, k) = i
  <2>1. f[i] \in 1..N
    BY <1>6
  <2>2. Nth(I, f[i]) \in I /\ f[Nth(I, f[i])] = f[i]
    BY <2>1, <1>11
  <2>3. Nth(I, f[i]) = i
    <3> HIDE DEF f
    <3> QED
      BY <2>2, <1>7
  <2> QED
    BY <2>1, <2>3
<1>13. ASSUME NEW k \in 1..N, NEW m \in 1..N, Nth(I, k) = Nth(I, m) PROVE k = m
  BY <1>13, <1>11
<1>14. ASSUME NEW k \in 1..N, NEW m \in 1..N, Nth(I, k) < Nth(I, m) PROVE k < m
  <2>1. /\ Cardinality(Before(I, Nth(I, k))) \in Nat /\ Cardinality(Before(I, Nth(I, m))) \in Nat
        /\ Cardinality(Before(I, Nth(I, k))) < Cardinality(Before(I, Nth(I, m)))
    BY <1>3, <1>4, <1>11, <1>14
  <2>2. k = Cardinality(Before(I, Nth(I, k))) + 1 /\ m = Cardinality(Before(I, Nth(I, m))) + 1
    BY <1>11
  <2> QED
    BY <2>1, <2>2
<1> HIDE DEF f
<1> QED
  BY <1>2, <1>11, <1>12, <1>13, <1>14

LEMMA PickedShape ==
    ASSUME NEW S, NEW ps \in Seq(S), NEW I \in SUBSET DOMAIN ps
    PROVE  /\ Picked(ps, I) \in Seq(S)
           /\ \A n \in DOMAIN Picked(ps, I) : \E i \in I : Picked(ps, I)[n] = ps[i]
           /\ \A i \in I : \E n \in DOMAIN Picked(ps, I) : Picked(ps, I)[n] = ps[i]
           /\ \A m, n \in DOMAIN Picked(ps, I) :
                \E i, j \in I : /\ Picked(ps, I)[m] = ps[i] /\ Picked(ps, I)[n] = ps[j]
                                /\ i = j => m = n
<1> DEFINE q == Picked(ps, I)
           N == Cardinality(I)
<1>1. Len(ps) \in Nat /\ DOMAIN ps = 1..Len(ps)
  BY LenProperties
<1>2. /\ N \in Nat
      /\ \A k \in 1..N : Nth(I, k) \in I
      /\ \A i \in I : \E k \in 1..N : Nth(I, k) = i
      /\ \A k, m \in 1..N : Nth(I, k) = Nth(I, m) => k = m
  <2>1. \A n \in Nat : I \in SUBSET (1..n) =>
          /\ N \in Nat
          /\ \A k \in 1..N : Nth(I, k) \in I
          /\ \A i \in I : \E k \in 1..N : Nth(I, k) = i
          /\ \A k, m \in 1..N : Nth(I, k) = Nth(I, m) => k = m
    BY NthShape
  <2>2. Len(ps) \in Nat /\ I \in SUBSET (1..Len(ps))
    BY <1>1
  <2> QED
    BY <2>1, <2>2
<1>3. q = [n \in 1..N |-> ps[Nth(I, n)]]
  BY DEF Picked
<1> HIDE DEF N
<1>4. \A i \in I : ps[i] \in S
  BY <1>1, ElementOfSeq
<1>5. q \in [1..N -> S]
  BY <1>2, <1>3, <1>4
<1>6. q \in Seq(S)
  BY <1>2, <1>5
<1>7. DOMAIN q = 1..N /\ \A n \in 1..N : q[n] = ps[Nth(I, n)]
  BY <1>3
<1> HIDE DEF q
<1>8. /\ \A n \in DOMAIN q : \E i \in I : q[n] = ps[i]
      /\ \A i \in I : \E n \in DOMAIN q : q[n] = ps[i]
  BY <1>2, <1>7
<1>9. ASSUME NEW m \in DOMAIN q, NEW n \in DOMAIN q
      PROVE  \E i, j \in I : q[m] = ps[i] /\ q[n] = ps[j] /\ (i = j => m = n)
  <2>1. /\ Nth(I, m) \in I /\ q[m] = ps[Nth(I, m)] /\ Nth(I, n) \in I /\ q[n] = ps[Nth(I, n)]
        /\ Nth(I, m) = Nth(I, n) => m = n
    BY <1>2, <1>7
  <2> QED
    BY <2>1
<1> QED
  BY <1>6, <1>8, <1>9 DEF q

Distinct(ps) == \A i, j \in DOMAIN ps : ps[i].id = ps[j].id => i = j

\* A filter keeps the entries, and so the ids, that it does not take away.
LEMMA WithoutShape ==
    ASSUME NEW ps \in Seq(Phases), NEW ids
    PROVE  /\ Without(ps, ids) \in Seq(Phases)
           /\ IdsOf(Without(ps, ids)) = IdsOf(ps) \ ids
           /\ Distinct(ps) => Distinct(Without(ps, ids))
           /\ \A n \in DOMAIN Without(ps, ids) : \E i \in DOMAIN ps : Without(ps, ids)[n] = ps[i]
<1> DEFINE q == Without(ps, ids)
           I == {i \in DOMAIN ps : ps[i].id \notin ids}
<1>1. q = Picked(ps, I) /\ I \in SUBSET DOMAIN ps
  BY DEF Without
<1>2. /\ q \in Seq(Phases)
      /\ \A n \in DOMAIN q : \E i \in I : q[n] = ps[i]
      /\ \A i \in I : \E n \in DOMAIN q : q[n] = ps[i]
      /\ \A m, n \in DOMAIN q : \E i, j \in I : q[m] = ps[i] /\ q[n] = ps[j] /\ (i = j => m = n)
  <2> HIDE DEF q, I
  <2> QED
    BY <1>1, PickedShape
<1> HIDE DEF q
<1>5. /\ \A n \in DOMAIN q : \E i \in DOMAIN ps : q[n] = ps[i] /\ ps[i].id \notin ids
      /\ \A i \in DOMAIN ps : ps[i].id \notin ids => \E n \in DOMAIN q : q[n] = ps[i]
  BY <1>2
<1>3. IdsOf(q) = IdsOf(ps) \ ids
  <2>1. ASSUME NEW x \in IdsOf(q) PROVE x \in IdsOf(ps) \ ids
    <3>1. PICK n \in DOMAIN q : x = q[n].id
      BY <2>1 DEF IdsOf
    <3>2. PICK i \in DOMAIN ps : q[n] = ps[i] /\ ps[i].id \notin ids
      BY <1>5
    <3> QED
      BY <3>1, <3>2 DEF IdsOf
  <2>2. ASSUME NEW x \in IdsOf(ps) \ ids PROVE x \in IdsOf(q)
    <3>1. PICK i \in DOMAIN ps : x = ps[i].id /\ ps[i].id \notin ids
      BY <2>2 DEF IdsOf
    <3>2. PICK n \in DOMAIN q : q[n] = ps[i]
      BY <1>5, <3>1
    <3> QED
      BY <3>1, <3>2 DEF IdsOf
  <2> QED
    BY <2>1, <2>2
<1>4. ASSUME Distinct(ps), NEW m \in DOMAIN q, NEW n \in DOMAIN q, q[m].id = q[n].id PROVE m = n
  <2>1. PICK i, j \in I : q[m] = ps[i] /\ q[n] = ps[j] /\ (i = j => m = n)
    BY <1>2
  <2>2. i = j
    BY <1>4, <2>1 DEF Distinct
  <2> QED
    BY <2>1, <2>2
<1> QED
  BY <1>2, <1>3, <1>4, <1>5 DEF q, Distinct

\* An order of topoOrder visits each place once.
LEMMA OrderShape ==
    ASSUME NEW ps \in Seq(Phases), NEW s \in Orders(ps)
    PROVE  /\ s \in [DOMAIN ps -> DOMAIN ps]
           /\ \A m, n \in DOMAIN ps : s[m] = s[n] => m = n
           /\ \A i \in DOMAIN ps : \E n \in DOMAIN ps : s[n] = i
<1>1. Len(ps) \in Nat /\ DOMAIN ps = 1..Len(ps)
  BY LenProperties
<1>2. s \in [DOMAIN ps -> DOMAIN ps]
  BY DEF Orders
<1>3. \A n \in DOMAIN ps : s[n] \notin {s[m] : m \in 1..(n - 1)}
  BY DEF Orders
<1>4. ASSUME NEW m \in DOMAIN ps, NEW n \in DOMAIN ps, s[m] = s[n] PROVE m = n
  <2>1. \A a, b \in DOMAIN ps : a < b => a \in 1..(b - 1)
    BY <1>1
  <2>2. ~(m < n) /\ ~(n < m)
    BY <2>1, <1>3, <1>4
  <2> QED
    BY <1>1, <2>2
<1>5. IsFiniteSet(DOMAIN ps)
  BY <1>1, FS_Interval
<1>6. s \in Injection(DOMAIN ps, DOMAIN ps)
  BY <1>2, <1>4 DEF Injection, IsInjective
<1>7. s \in Surjection(DOMAIN ps, DOMAIN ps)
  BY <1>5, <1>6, FS_Injection
<1> QED
  BY <1>2, <1>4, <1>7 DEF Surjection

\* An order keeps the ids of a list.
LEMMA Reordered ==
    ASSUME NEW ps \in Seq(Phases), NEW s \in [DOMAIN ps -> DOMAIN ps],
           \A m, n \in DOMAIN ps : s[m] = s[n] => m = n,
           \A i \in DOMAIN ps : \E n \in DOMAIN ps : s[n] = i,
           NEW q \in [DOMAIN ps -> Phases],
           \A n \in DOMAIN ps : q[n].id = ps[s[n]].id
    PROVE  /\ q \in Seq(Phases) /\ Len(q) = Len(ps) /\ IdsOf(q) = IdsOf(ps)
           /\ Distinct(ps) => Distinct(q)
<1>1. Len(ps) \in Nat /\ DOMAIN ps = 1..Len(ps)
  BY LenProperties
<1>2. q \in Seq(Phases) /\ Len(q) = Len(ps)
  BY <1>1
<1>3. DOMAIN q = DOMAIN ps
  OBVIOUS
<1>4. IdsOf(q) = IdsOf(ps)
  <2>1. ASSUME NEW x \in IdsOf(q) PROVE x \in IdsOf(ps)
    <3>1. PICK n \in DOMAIN q : x = q[n].id
      BY <2>1 DEF IdsOf
    <3>2. s[n] \in DOMAIN ps /\ x = ps[s[n]].id
      BY <1>3, <3>1
    <3> QED
      BY <3>1, <3>2 DEF IdsOf
  <2>2. ASSUME NEW x \in IdsOf(ps) PROVE x \in IdsOf(q)
    <3>1. PICK i \in DOMAIN ps : x = ps[i].id
      BY <2>2 DEF IdsOf
    <3>2. PICK n \in DOMAIN ps : s[n] = i
      OBVIOUS
    <3>3. n \in DOMAIN q /\ q[n].id = x
      BY <1>3, <3>1, <3>2
    <3> QED
      BY <3>3 DEF IdsOf
  <2> QED
    BY <2>1, <2>2
<1>5. Distinct(ps) => Distinct(q)
  <2>1. \A n \in DOMAIN ps : s[n] \in DOMAIN ps
    OBVIOUS
  <2> QED
    BY <1>3, <2>1 DEF Distinct
<1> QED
  BY <1>2, <1>4, <1>5

\* topoOrder returns the entries it was given, each with the dependencies it has
\* inside the array, or with more.
LEMMA TopoShape ==
    ASSUME NEW ps \in Seq(Phases)
    PROVE  /\ TopoOrder(ps) \in Seq(Phases) /\ Len(TopoOrder(ps)) = Len(ps)
           /\ IdsOf(TopoOrder(ps)) = IdsOf(ps)
           /\ Distinct(ps) => Distinct(TopoOrder(ps))
           /\ \A n \in DOMAIN TopoOrder(ps) : \E i \in DOMAIN ps :
                /\ TopoOrder(ps)[n].id = ps[i].id
                /\ (ps[i].deps \cap IdsOf(ps)) \ {ps[i].id} \subseteq TopoOrder(ps)[n].deps
<1>1. CASE Orders(ps) = {}
  <2>1. TopoOrder(ps) = ps
    BY <1>1 DEF TopoOrder
  <2> QED
    BY <2>1
<1>2. CASE Orders(ps) # {}
  <2> DEFINE s == CHOOSE o \in Orders(ps) : TRUE
             q == [n \in DOMAIN ps |-> [ps[s[n]] EXCEPT !.deps = Inner(ps, s[n])]]
  <2>1. s \in Orders(ps)
    BY <1>2
  <2>2. TopoOrder(ps) = q
    BY <1>2 DEF TopoOrder
  <2> HIDE DEF s
  <2>3. /\ s \in [DOMAIN ps -> DOMAIN ps]
        /\ \A m, n \in DOMAIN ps : s[m] = s[n] => m = n
        /\ \A i \in DOMAIN ps : \E n \in DOMAIN ps : s[n] = i
    BY <2>1, OrderShape
  <2>4. ASSUME NEW n \in DOMAIN ps
        PROVE  /\ q[n] \in Phases /\ q[n].id = ps[s[n]].id /\ s[n] \in DOMAIN ps
               /\ q[n].deps = (ps[s[n]].deps \cap IdsOf(ps)) \ {ps[s[n]].id}
    <3>1. s[n] \in DOMAIN ps /\ ps[s[n]] \in Phases
      BY <2>3, ElementOfSeq, LenProperties
    <3> QED
      BY <3>1 DEF Inner, Phases
  <2>5. q \in [DOMAIN ps -> Phases] /\ DOMAIN q = DOMAIN ps
    BY <2>4
  <2> HIDE DEF q
  <2>6. /\ q \in Seq(Phases) /\ Len(q) = Len(ps) /\ IdsOf(q) = IdsOf(ps)
        /\ Distinct(ps) => Distinct(q)
    BY <2>3, <2>4, <2>5, Reordered
  <2>7. \A n \in DOMAIN q : \E i \in DOMAIN ps :
          /\ q[n].id = ps[i].id
          /\ (ps[i].deps \cap IdsOf(ps)) \ {ps[i].id} \subseteq q[n].deps
    BY <2>4, <2>5
  <2> QED
    BY <2>2, <2>6, <2>7
<1> QED
  BY <1>1, <1>2

\* So does the fold of discovered tasks, with the dependencies that are known.
LEMMA ResortShape ==
    ASSUME NEW ps \in Seq(Phases), NEW ids
    PROVE  /\ Resorted(ps, ids) \in Seq(Phases) /\ IdsOf(Resorted(ps, ids)) = IdsOf(ps)
           /\ Distinct(ps) => Distinct(Resorted(ps, ids))
           /\ \A n \in DOMAIN Resorted(ps, ids) : \E i \in DOMAIN ps :
                /\ Resorted(ps, ids)[n].id = ps[i].id
                /\ Resorted(ps, ids)[n].deps = (ps[i].deps \cap ids) \ {ps[i].id}
<1> DEFINE same == [n \in DOMAIN ps |-> n]
           s == CHOOSE o \in Orders(ps) \cup {same} : Orders(ps) # {} => o \in Orders(ps)
           q == [n \in DOMAIN ps |-> [ps[s[n]] EXCEPT !.deps = (@ \cap ids) \ {ps[s[n]].id}]]
<1>1. Resorted(ps, ids) = q
  BY DEF Resorted
<1>2. s = same \/ s \in Orders(ps)
  OBVIOUS
<1>3. /\ same \in [DOMAIN ps -> DOMAIN ps]
      /\ \A m, n \in DOMAIN ps : same[m] = same[n] => m = n
      /\ \A i \in DOMAIN ps : \E n \in DOMAIN ps : same[n] = i
  OBVIOUS
<1> HIDE DEF s
<1>4. /\ s \in [DOMAIN ps -> DOMAIN ps]
      /\ \A m, n \in DOMAIN ps : s[m] = s[n] => m = n
      /\ \A i \in DOMAIN ps : \E n \in DOMAIN ps : s[n] = i
  <2>1. CASE s = same
    <3> HIDE DEF same
    <3> QED
      BY <1>3, <2>1
  <2>2. CASE s \in Orders(ps)
    BY <2>2, OrderShape
  <2> QED
    BY <1>2, <2>1, <2>2
<1>5. ASSUME NEW n \in DOMAIN ps
      PROVE  /\ q[n] \in Phases /\ q[n].id = ps[s[n]].id /\ s[n] \in DOMAIN ps
             /\ q[n].deps = (ps[s[n]].deps \cap ids) \ {ps[s[n]].id}
  <2>1. s[n] \in DOMAIN ps /\ ps[s[n]] \in Phases
    BY <1>4, ElementOfSeq, LenProperties
  <2> QED
    BY <2>1 DEF Phases
<1>6. q \in [DOMAIN ps -> Phases] /\ DOMAIN q = DOMAIN ps
  BY <1>5
<1> HIDE DEF q
<1>7. /\ q \in Seq(Phases) /\ Len(q) = Len(ps) /\ IdsOf(q) = IdsOf(ps)
      /\ Distinct(ps) => Distinct(q)
  <2>1. \A n \in DOMAIN ps : q[n].id = ps[s[n]].id
    BY <1>5
  <2>2. q \in [DOMAIN ps -> Phases]
    BY <1>6
  <2>3. /\ \A m, n \in DOMAIN ps : s[m] = s[n] => m = n
        /\ \A i \in DOMAIN ps : \E n \in DOMAIN ps : s[n] = i
    BY <1>4
  <2>4. s \in [DOMAIN ps -> DOMAIN ps]
    BY <1>4
  <2> QED
    BY <2>1, <2>2, <2>3, <2>4, Reordered
<1>8. \A n \in DOMAIN q : \E i \in DOMAIN ps :
        /\ q[n].id = ps[i].id /\ q[n].deps = (ps[i].deps \cap ids) \ {ps[i].id}
  BY <1>5, <1>6
<1> QED
  BY <1>1, <1>7, <1>8

-----------------------------------------------------------------------------
(* The inductive invariant.                                                 *)

Judging == at \in {"retry", "replan", "chain", "publish"}

\* The attempts are those of the tasks in flight and of the one being settled,
\* and it is being settled until it is done or has failed.
Flights ==
    /\ IsFiniteSet(known) /\ IsFiniteSet(disk.accepted)
    /\ at = "dead" => /\ IdsOf(pending) = {} /\ known = {} /\ DOMAIN attempts = {}
                      /\ mergeChain = <<>>
    /\ at = "ended" => IdsOf(pending) = {} /\ inFlight = {}
    /\ ~Judging => settling = Nobody
    /\ Judging => settling.id \in Tasks \cap known /\ settling.id \notin inFlight
    /\ at \notin {"retry", "chain"} => DOMAIN attempts = inFlight
    /\ at = "retry" => DOMAIN attempts = inFlight \cup {settling.id}
    /\ at = "chain" => \E link \in DOMAIN attempts :
                           /\ link \in Links /\ link[1] = settling.id[1]
                           /\ DOMAIN attempts = inFlight \cup {link}
    /\ at = "chain" => /\ settling.kind = "link" /\ settling.links > 0
                       /\ scheduled + settling.links <= MaxTasks + 1
    /\ at = "publish" /\ settling.kind = "link" => scheduled + settling.links <= MaxTasks
    /\ at \in {"retry", "replan"} => settling.kind = "task"
    /\ Judging => (settling.id \in done <=> (at = "publish" /\ settling.kind = "task"))

\* No task is in two places, and a process knows the plan on disk.
Separate ==
    /\ at # "dead" => /\ done = disk.accepted /\ IdsOf(disk.phases) \subseteq known
                      /\ Len(disk.phases) <= scheduled
    /\ Len(disk.phases) <= MaxTasks
    /\ Distinct(pending) /\ Distinct(disk.phases)
    /\ IdsOf(pending) \cap (done \cup inFlight) = {}
    /\ Judging => settling.id \notin IdsOf(pending)
    /\ done \cap DOMAIN attempts = {}

\* An attempt waits for the lock at most once, and whoever edits the main tree
\* while there are worktrees has it.
Queue ==
    /\ \A i, j \in DOMAIN mergeChain : mergeChain[i].id = mergeChain[j].id => i = j
    /\ \A i \in DOMAIN mergeChain :
         /\ mergeChain[i].id \in DOMAIN attempts
         /\ attempts[mergeChain[i].id].at \in {"queued", "tree"}
         /\ mergeChain[i].op = "clean" /\ attempts[mergeChain[i].id].ok => mergeChain[i].id \in tree
    /\ isolated => \A id \in DOMAIN attempts :
                      attempts[id].at = "tree" =>
                          mergeChain # <<>> /\ Head(mergeChain) = [id |-> id, op |-> "tree"]

\* Without worktrees every attempt edits the main tree, one at a time.
Bare ==
    ~isolated => /\ mergeChain = <<>>
                 /\ \A id \in DOMAIN attempts : attempts[id].at \in {"tree", "over"}
Alone ==
    ~isolated => /\ \A i, j \in inFlight : i = j
                 /\ at # "race" => inFlight = {}

\* What counts as accepted is in the tree, by itself or by a link of its repair.
Landed == \A id \in DOMAIN attempts : attempts[id].at = "over" /\ attempts[id].ok => id \in tree
Merged ==
    /\ Landed
    /\ \A a \in disk.accepted : \E w \in tree : w[1] = a[1]
    /\ at = "publish" /\ settling.kind = "link" => \E w \in tree : w[1] = settling.id[1]

\* Every task of the plan on disk is somewhere.
Covered ==
    at # "dead" =>
        \A id \in IdsOf(disk.phases) :
            id \in done \cup failed \cup IdsOf(pending) \cup inFlight \/ (Judging /\ id = settling.id)

OrchestratorInv == TypeOK /\ Flights /\ Separate /\ Queue /\ Bare /\ Alone /\ Merged /\ Covered

-----------------------------------------------------------------------------
(* The queue for the merge lock.                                            *)

LEMMA Popped ==
    ASSUME NEW S, NEW c \in Seq(S), c # <<>>
    PROVE  /\ Tail(c) \in Seq(S) /\ 1 \in DOMAIN c /\ Head(c) = c[1] /\ c[1] \in S
           /\ \A i \in DOMAIN Tail(c) : i \in Nat \ {0} /\ i + 1 \in DOMAIN c /\ Tail(c)[i] = c[i + 1]
<1>1. /\ Len(c) \in Nat /\ DOMAIN c = 1..Len(c) /\ Len(c) # 0
  BY EmptySeq, LenProperties
<1>2. Tail(c) \in Seq(S) /\ Len(Tail(c)) = Len(c) - 1
  BY HeadTailProperties
<1>3. DOMAIN Tail(c) = 1..(Len(c) - 1)
  BY <1>2, LenProperties
<1>4. 1 \in DOMAIN c /\ Head(c) = c[1] /\ c[1] \in S
  BY <1>1, ElementOfSeq
<1>5. \A i \in DOMAIN Tail(c) : Tail(c)[i] = c[i + 1]
  BY <1>2, <1>3, HeadTailProperties
<1> QED
  BY <1>1, <1>2, <1>3, <1>4, <1>5

LEMMA Appended ==
    ASSUME NEW S, NEW c \in Seq(S), NEW e \in S
    PROVE  /\ Append(c, e) \in Seq(S)
           /\ \A i \in DOMAIN Append(c, e) :
                \/ i \in DOMAIN c /\ Append(c, e)[i] = c[i]
                \/ i = Len(c) + 1 /\ Append(c, e)[i] = e
           /\ Append(c, e) # <<>> /\ (c # <<>> => Head(Append(c, e)) = Head(c))
<1>1. Len(c) \in Nat /\ DOMAIN c = 1..Len(c)
  BY LenProperties
<1>2. Append(c, e) \in Seq(S) /\ Len(Append(c, e)) = Len(c) + 1
  BY AppendProperties
<1>3. DOMAIN Append(c, e) = 1..(Len(c) + 1)
  BY <1>2, LenProperties
<1>4. /\ \A i \in 1..Len(c) : Append(c, e)[i] = c[i]
      /\ Append(c, e)[Len(c) + 1] = e
  BY AppendProperties
<1>5. \A i \in DOMAIN Append(c, e) : i \in DOMAIN c \/ i = Len(c) + 1
  BY <1>1, <1>3
<1>6. Append(c, e) # <<>>
  BY <1>1, <1>2, EmptySeq
<1>7. c # <<>> => Head(Append(c, e)) = Head(c)
  <2> SUFFICES ASSUME c # <<>> PROVE Head(Append(c, e)) = Head(c)
    OBVIOUS
  <2>1. 1 \in 1..Len(c) /\ Head(c) = c[1]
    BY <1>1, Popped
  <2>2. Head(Append(c, e)) = Append(c, e)[1]
    BY <1>2, <1>6, Popped
  <2> QED
    BY <2>1, <2>2, <1>4
<1> QED
  BY <1>1, <1>2, <1>4, <1>5, <1>6, <1>7

\* A begun attempt was not in the queue, and in a worktree's case joins its end.
LEMMA BeginKeeps ==
    ASSUME TypeOK, Queue, Landed, Bare, NEW ids \in Seq(known'),
           \A i, j \in DOMAIN ids : ids[i] = ids[j] => i = j,
           \A i \in DOMAIN mergeChain : mergeChain[i].id \notin ToSet(ids),
           Begin(ids), known \subseteq known', UNCHANGED <<tree, isolated>>
    PROVE  /\ DOMAIN attempts' = DOMAIN attempts \cup ToSet(ids)
           /\ attempts' \in [DOMAIN attempts' -> Tries'] /\ mergeChain' \in Seq(Waits')
           /\ Queue' /\ Landed' /\ Bare'
<1> DEFINE new == [i \in DOMAIN ids |-> [id |-> ids[i], op |-> "acquire"]]
<1>1. Len(ids) \in Nat /\ DOMAIN ids = 1..Len(ids)
  BY LenProperties
<1>2. \A i \in DOMAIN ids : ids[i] \in known' /\ ids[i] \in ToSet(ids)
  BY <1>1, ElementOfSeq DEF ToSet
<1>3. mergeChain \in Seq(Waits) /\ mergeChain \in Seq(Waits')
  <2>1. Waits \subseteq Waits'
    BY DEF Waits
  <2> QED
    BY <2>1, SeqMonotonic DEF TypeOK
<1>4. /\ DOMAIN attempts' = DOMAIN attempts \cup ToSet(ids)
      /\ \A i \in DOMAIN attempts' :
           IF i \notin ToSet(ids) THEN i \in DOMAIN attempts /\ attempts'[i] = attempts[i]
           ELSE attempts'[i] = IF isolated THEN Attempt("queued")
                               ELSE [Attempt("tree") EXCEPT !.base = tree]
  BY DEF Begin
<1>5. /\ Attempt("queued") \in Tries /\ Attempt("queued").at = "queued" /\ ~Attempt("queued").ok
      /\ [Attempt("tree") EXCEPT !.base = tree] \in Tries
      /\ [Attempt("tree") EXCEPT !.base = tree].at = "tree"
  BY DEF Attempt, Tries
<1>6. attempts' \in [DOMAIN attempts' -> Tries']
  <2>1. \A i \in DOMAIN attempts' : attempts'[i] \in Tries
    BY <1>4, <1>5 DEF TypeOK
  <2>2. Tries' = Tries
    BY DEF Tries
  <2>3. attempts' = [i \in DOMAIN attempts' |-> attempts'[i]]
    BY DEF Begin
  <2> QED
    BY <2>1, <2>2, <2>3
<1>7. Landed'
  BY <1>4, <1>5 DEF Landed
<1>8. CASE ~isolated
  <2>1. mergeChain' = mergeChain
    BY <1>8 DEF Begin
  <2>2. Queue'
    BY <2>1, <1>8, <1>4 DEF Queue, ToSet
  <2>3. Bare'
    BY <2>1, <1>8, <1>4, <1>5 DEF Bare
  <2> QED
    BY <2>1, <2>2, <2>3, <1>3, <1>4, <1>6, <1>7
<1>9. CASE isolated
  <2>1. mergeChain' = mergeChain \o new
    BY <1>9 DEF Begin
  <2>2. new \in Seq(Waits') /\ Len(new) = Len(ids)
    <3>1. \A i \in 1..Len(ids) : new[i] \in Waits'
      BY <1>1, <1>2 DEF Waits
    <3>2. new \in [1..Len(ids) -> Waits']
      BY <1>1, <3>1
    <3> QED
      BY <1>1, <3>2
  <2>3. /\ Len(mergeChain) \in Nat /\ DOMAIN mergeChain = 1..Len(mergeChain)
        /\ \A i \in DOMAIN new : new[i] = [id |-> ids[i], op |-> "acquire"]
        /\ DOMAIN new = 1..Len(ids)
    BY <1>1, <1>3, LenProperties
  <2> HIDE DEF new
  <2>4. /\ mergeChain' \in Seq(Waits') /\ Len(mergeChain') = Len(mergeChain) + Len(ids)
        /\ \A i \in 1..(Len(mergeChain) + Len(ids)) :
             mergeChain'[i] = IF i <= Len(mergeChain) THEN mergeChain[i] ELSE new[i - Len(mergeChain)]
    <3>1. /\ (mergeChain \o new) \in Seq(Waits')
          /\ Len(mergeChain \o new) = Len(mergeChain) + Len(new)
          /\ \A i \in 1..(Len(mergeChain) + Len(new)) :
               (mergeChain \o new)[i] = IF i <= Len(mergeChain) THEN mergeChain[i]
                                       ELSE new[i - Len(mergeChain)]
      BY <2>2, <1>3, ConcatProperties
    <3> QED
      BY <3>1, <2>1, <2>2, Zenon
  <2>5. DOMAIN mergeChain' = 1..(Len(mergeChain) + Len(ids))
    BY <2>4, LenProperties
  <2>6. \A i \in DOMAIN mergeChain' :
          \/ i \in DOMAIN mergeChain /\ mergeChain'[i] = mergeChain[i]
          \/ /\ i - Len(mergeChain) \in DOMAIN ids
             /\ mergeChain'[i] = [id |-> ids[i - Len(mergeChain)], op |-> "acquire"]
    BY <2>3, <2>4, <2>5, <1>1
  <2>7. ASSUME NEW i \in DOMAIN mergeChain', NEW j \in DOMAIN mergeChain',
               mergeChain'[i].id = mergeChain'[j].id
        PROVE  i = j
    <3>1. i \in Int /\ j \in Int
      BY <2>5
    <3>2. CASE i \in DOMAIN mergeChain /\ mergeChain'[i] = mergeChain[i]
      <4>1. j \in DOMAIN mergeChain /\ mergeChain'[j] = mergeChain[j]
        BY <3>2, <2>6, <2>7, <1>2
      <4> QED
        BY <4>1, <3>2, <2>7 DEF Queue
    <3>3. CASE /\ i - Len(mergeChain) \in DOMAIN ids
               /\ mergeChain'[i] = [id |-> ids[i - Len(mergeChain)], op |-> "acquire"]
      <4>1. /\ j - Len(mergeChain) \in DOMAIN ids
            /\ mergeChain'[j] = [id |-> ids[j - Len(mergeChain)], op |-> "acquire"]
        BY <3>3, <2>6, <2>7, <1>2
      <4>2. i - Len(mergeChain) = j - Len(mergeChain)
        BY <4>1, <3>3, <2>7
      <4> QED
        BY <4>2, <3>1, <2>3
    <3> QED
      BY <2>6, <3>2, <3>3
  <2>8. ASSUME NEW i \in DOMAIN mergeChain'
        PROVE  /\ mergeChain'[i].id \in DOMAIN attempts'
               /\ attempts'[mergeChain'[i].id].at \in {"queued", "tree"}
               /\ mergeChain'[i].op = "clean" /\ attempts'[mergeChain'[i].id].ok
                    => mergeChain'[i].id \in tree'
    <3>1. CASE i \in DOMAIN mergeChain /\ mergeChain'[i] = mergeChain[i]
      <4>1. attempts'[mergeChain[i].id] = attempts[mergeChain[i].id] /\ mergeChain[i].id \in DOMAIN attempts
        BY <3>1, <1>4 DEF Queue
      <4> QED
        BY <4>1, <3>1, <1>4 DEF Queue
    <3>2. CASE /\ i - Len(mergeChain) \in DOMAIN ids
               /\ mergeChain'[i] = [id |-> ids[i - Len(mergeChain)], op |-> "acquire"]
      <4>1. mergeChain'[i].id \in ToSet(ids) /\ mergeChain'[i].op = "acquire"
        BY <3>2, <1>2
      <4> QED
        BY <4>1, <1>4, <1>5, <1>9
    <3> QED
      BY <2>6, <3>1, <3>2
  <2>9. ASSUME NEW id \in DOMAIN attempts', attempts'[id].at = "tree"
        PROVE  mergeChain' # <<>> /\ Head(mergeChain') = [id |-> id, op |-> "tree"]
    <3>1. id \in DOMAIN attempts /\ attempts[id].at = "tree"
      BY <2>9, <1>4, <1>5, <1>9
    <3>2. mergeChain # <<>> /\ Head(mergeChain) = [id |-> id, op |-> "tree"]
      BY <3>1, <1>9 DEF Queue
    <3>3. 1 \in DOMAIN mergeChain /\ Head(mergeChain) = mergeChain[1]
      BY <3>2, <1>3, Popped
    <3>4. 1 \in DOMAIN mergeChain' /\ mergeChain'[1] = mergeChain[1]
      BY <3>3, <2>3, <2>4, <2>5, <1>1
    <3>5. mergeChain' # <<>>
      BY <3>4, <2>4, <2>5, EmptySeq
    <3>6. Head(mergeChain') = mergeChain'[1]
      BY <3>5, <2>4, Popped
    <3> QED
      BY <3>2, <3>3, <3>4, <3>5, <3>6
  <2>10. Queue'
    BY <2>7, <2>8, <2>9 DEF Queue
  <2>11. Bare'
    BY <1>9 DEF Bare
  <2> QED
    BY <2>4, <2>10, <2>11, <1>4, <1>6, <1>7
<1> QED
  BY <1>8, <1>9

\* An attempt that is over is in no queue.
LEMMA DropKeeps ==
    ASSUME TypeOK, Queue, Landed, Bare, NEW id \in DOMAIN attempts, attempts[id].at = "over",
           attempts' = Dropped(id), known' = known, UNCHANGED <<tree, isolated, mergeChain>>
    PROVE  /\ DOMAIN attempts' = DOMAIN attempts \ {id}
           /\ attempts' \in [DOMAIN attempts' -> Tries'] /\ mergeChain' \in Seq(Waits')
           /\ Queue' /\ Landed' /\ Bare'
<1>1. /\ DOMAIN attempts' = DOMAIN attempts \ {id}
      /\ \A i \in DOMAIN attempts' : attempts'[i] = attempts[i]
  BY DEF Dropped
<1>2. attempts' \in [DOMAIN attempts' -> Tries']
  <2>1. Tries' = Tries
    BY DEF Tries
  <2>2. attempts' = [i \in DOMAIN attempts' |-> attempts'[i]]
    BY DEF Dropped
  <2> QED
    BY <2>1, <2>2, <1>1 DEF TypeOK
<1>3. mergeChain' \in Seq(Waits')
  BY DEF TypeOK, Waits
<1>4. \A i \in DOMAIN mergeChain : mergeChain[i].id # id
  BY DEF Queue
<1>5. Queue'
  BY <1>1, <1>4 DEF Queue
<1>6. Landed'
  BY <1>1 DEF Landed
<1>7. Bare'
  BY <1>1 DEF Bare
<1> QED
  BY <1>1, <1>2, <1>3, <1>5, <1>6, <1>7

-----------------------------------------------------------------------------
(* Steps of the attempts and of the lock.                                   *)

\* They leave the scheduler and the disk alone.
LEMMA SchedulerUntouched ==
    ASSUME OrchestratorInv, UNCHANGED <<disk, isolated, crashes, scheduler>>,
           DOMAIN attempts' = DOMAIN attempts, DOMAIN attempts # {}
    PROVE  Flights' /\ Separate' /\ Alone' /\ Covered'
<1>1. at # "dead"
  BY DEF OrchestratorInv, Flights
<1>2. Flights'
  BY <1>1 DEF OrchestratorInv, Flights, Judging, scheduler
<1>3. Separate'
  BY DEF OrchestratorInv, Separate, Distinct, IdsOf, Judging, scheduler
<1>4. Alone'
  BY DEF OrchestratorInv, Alone, scheduler
<1>5. Covered'
  BY DEF OrchestratorInv, Covered, IdsOf, Judging, scheduler
<1> QED
  BY <1>2, <1>3, <1>4, <1>5

\* What such a step has to show.
LEMMA LockStep ==
    ASSUME OrchestratorInv, UNCHANGED <<disk, isolated, crashes, scheduler>>,
           DOMAIN attempts' = DOMAIN attempts, DOMAIN attempts # {},
           tree \subseteq tree', tree' \subseteq tree \cup DOMAIN attempts,
           attempts' \in [DOMAIN attempts -> Tries'], mergeChain' \in Seq(Waits),
           Queue', Landed', Bare'
    PROVE  OrchestratorInv'
<1>1. Flights' /\ Separate' /\ Alone' /\ Covered'
  BY SchedulerUntouched
<1>2. TypeOK'
  <2>1. Waits' = Waits
    BY DEF Waits, scheduler
  <2>2. tree' \subseteq Ids /\ IdsOf(pending)' = IdsOf(pending)
    BY DEF OrchestratorInv, TypeOK, scheduler, IdsOf
  <2> QED
    BY <2>1, <2>2 DEF OrchestratorInv, TypeOK, scheduler
<1>3. Merged'
  <2>1. \A a \in disk.accepted : \E w \in tree : w[1] = a[1]
    BY DEF OrchestratorInv, Merged
  <2>2. at = "publish" /\ settling.kind = "link" => \E w \in tree : w[1] = settling.id[1]
    BY DEF OrchestratorInv, Merged
  <2> QED
    BY <2>1, <2>2 DEF Merged, scheduler
<1> QED
  BY <1>1, <1>2, <1>3 DEF OrchestratorInv

\* The head of the queue: an attempt, that no other entry is of.
LEMMA HeadShape ==
    ASSUME OrchestratorInv, mergeChain # <<>>
    PROVE  /\ mergeChain \in Seq(Waits) /\ First = mergeChain[1] /\ First \in Waits
           /\ 1 \in DOMAIN mergeChain
           /\ First.id \in DOMAIN attempts /\ attempts[First.id].at \in {"queued", "tree"}
           /\ First.op = "clean" /\ attempts[First.id].ok => First.id \in tree
           /\ isolated /\ attempts \in [DOMAIN attempts -> Tries]
           /\ Tail(mergeChain) \in Seq(Waits)
           /\ \A i \in DOMAIN Tail(mergeChain) :
                /\ i \in Nat \ {0} /\ i + 1 \in DOMAIN mergeChain
                /\ Tail(mergeChain)[i] = mergeChain[i + 1]
                /\ Tail(mergeChain)[i].id # First.id
           /\ \A id \in DOMAIN attempts : attempts[id].at = "tree" => First = [id |-> id, op |-> "tree"]
<1>1. mergeChain \in Seq(Waits) /\ attempts \in [DOMAIN attempts -> Tries]
  BY DEF OrchestratorInv, TypeOK
<1>2. /\ Tail(mergeChain) \in Seq(Waits) /\ 1 \in DOMAIN mergeChain
      /\ First = mergeChain[1] /\ First \in Waits
      /\ \A i \in DOMAIN Tail(mergeChain) : /\ i \in Nat \ {0} /\ i + 1 \in DOMAIN mergeChain
                                            /\ Tail(mergeChain)[i] = mergeChain[i + 1]
  BY <1>1, Popped DEF First
<1>3. isolated
  BY DEF OrchestratorInv, Bare, TypeOK
<1>4. \A i \in DOMAIN mergeChain :
        /\ mergeChain[i].id \in DOMAIN attempts
        /\ attempts[mergeChain[i].id].at \in {"queued", "tree"}
        /\ mergeChain[i].op = "clean" /\ attempts[mergeChain[i].id].ok => mergeChain[i].id \in tree
  BY DEF OrchestratorInv, Queue
<1>5. \A id \in DOMAIN attempts : attempts[id].at = "tree" => First = [id |-> id, op |-> "tree"]
  BY <1>3 DEF OrchestratorInv, Queue, First
<1>6. ASSUME NEW i \in DOMAIN Tail(mergeChain) PROVE Tail(mergeChain)[i].id # First.id
  <2>1. i + 1 # 1
    BY <1>2
  <2>2. \A k, m \in DOMAIN mergeChain : mergeChain[k].id = mergeChain[m].id => k = m
    BY DEF OrchestratorInv, Queue
  <2> QED
    BY <2>1, <2>2, <1>2
<1>7. /\ First.id \in DOMAIN attempts /\ attempts[First.id].at \in {"queued", "tree"}
      /\ First.op = "clean" /\ attempts[First.id].ok => First.id \in tree
  BY <1>2, <1>4
<1> QED
  BY <1>1, <1>2, <1>3, <1>5, <1>6, <1>7

\* The queue behind its head, when a step concerns the attempt of the head only.
LEMMA QueueBehind ==
    ASSUME OrchestratorInv, mergeChain # <<>>, tree \subseteq tree',
           \A id \in DOMAIN attempts \ {First.id} : attempts'[id] = attempts[id],
           attempts'[First.id].at # "tree"
    PROVE  /\ Tail(mergeChain) \in Seq(Waits) /\ First \in Waits /\ isolated
           /\ First.id \in DOMAIN attempts
           /\ \A i, j \in DOMAIN Tail(mergeChain) :
                Tail(mergeChain)[i].id = Tail(mergeChain)[j].id => i = j
           /\ \A i \in DOMAIN Tail(mergeChain) :
                /\ Tail(mergeChain)[i].id \in DOMAIN attempts /\ Tail(mergeChain)[i].id # First.id
                /\ attempts'[Tail(mergeChain)[i].id].at \in {"queued", "tree"}
                /\ Tail(mergeChain)[i].op = "clean" /\ attempts'[Tail(mergeChain)[i].id].ok
                     => Tail(mergeChain)[i].id \in tree'
           /\ \A id \in DOMAIN attempts : attempts'[id].at # "tree"
<1> DEFINE tl == Tail(mergeChain)
<1>1. /\ tl \in Seq(Waits) /\ isolated /\ First.id \in DOMAIN attempts /\ First \in Waits
      /\ \A i \in DOMAIN tl : /\ i \in Nat \ {0} /\ i + 1 \in DOMAIN mergeChain
                              /\ tl[i] = mergeChain[i + 1] /\ tl[i].id # First.id
      /\ \A id \in DOMAIN attempts : attempts[id].at = "tree" => First = [id |-> id, op |-> "tree"]
  BY HeadShape
<1> HIDE DEF tl
<1>3. /\ \A k, m \in DOMAIN mergeChain : mergeChain[k].id = mergeChain[m].id => k = m
      /\ \A i \in DOMAIN mergeChain :
           /\ mergeChain[i].id \in DOMAIN attempts
           /\ attempts[mergeChain[i].id].at \in {"queued", "tree"}
           /\ mergeChain[i].op = "clean" /\ attempts[mergeChain[i].id].ok => mergeChain[i].id \in tree
  BY DEF OrchestratorInv, Queue
<1>4. ASSUME NEW i \in DOMAIN tl, NEW j \in DOMAIN tl, tl[i].id = tl[j].id PROVE i = j
  <2>1. i + 1 = j + 1
    BY <1>1, <1>3, <1>4
  <2> QED
    BY <2>1, <1>1
<1>5. ASSUME NEW i \in DOMAIN tl
      PROVE  /\ tl[i].id \in DOMAIN attempts /\ attempts'[tl[i].id].at \in {"queued", "tree"}
             /\ tl[i].op = "clean" /\ attempts'[tl[i].id].ok => tl[i].id \in tree'
  <2>1. /\ tl[i].id \in DOMAIN attempts \ {First.id}
        /\ attempts[tl[i].id].at \in {"queued", "tree"}
        /\ tl[i].op = "clean" /\ attempts[tl[i].id].ok => tl[i].id \in tree
    BY <1>1, <1>3
  <2>2. attempts'[tl[i].id] = attempts[tl[i].id]
    BY <2>1
  <2> QED
    BY <2>1, <2>2
<1>6. \A id \in DOMAIN attempts : attempts'[id].at # "tree"
  <2>1. ASSUME NEW id \in DOMAIN attempts, attempts'[id].at = "tree" PROVE FALSE
    <3>1. id # First.id /\ attempts[id].at = "tree"
      BY <2>1
    <3>2. First = [id |-> id, op |-> "tree"]
      BY <3>1, <1>1
    <3> QED
      BY <3>1, <3>2
  <2> QED
    BY <2>1
<1> QED
  BY <1>1, <1>4, <1>5, <1>6 DEF tl

\* The queue when an attempt that was not in it joins its end.
LEMMA QueueJoins ==
    ASSUME NEW c \in Seq(Waits), NEW e \in Waits, mergeChain' = Append(c, e), isolated',
           \A i, j \in DOMAIN c : c[i].id = c[j].id => i = j,
           \A i \in DOMAIN c :
                /\ c[i].id \in DOMAIN attempts' /\ c[i].id # e.id
                /\ attempts'[c[i].id].at \in {"queued", "tree"}
                /\ c[i].op = "clean" /\ attempts'[c[i].id].ok => c[i].id \in tree',
           e.id \in DOMAIN attempts', attempts'[e.id].at \in {"queued", "tree"},
           e.op = "clean" /\ attempts'[e.id].ok => e.id \in tree',
           \A id \in DOMAIN attempts' :
                attempts'[id].at = "tree" => c # <<>> /\ Head(c) = [id |-> id, op |-> "tree"]
    PROVE  mergeChain' \in Seq(Waits) /\ Queue' /\ Bare'
<1> DEFINE q == Append(c, e)
<1>1. /\ q \in Seq(Waits)
      /\ \A i \in DOMAIN q : \/ i \in DOMAIN c /\ q[i] = c[i]
                             \/ i = Len(c) + 1 /\ q[i] = e
      /\ q # <<>> /\ (c # <<>> => Head(q) = Head(c))
  BY Appended
<1>2. mergeChain' = q
  OBVIOUS
<1> HIDE DEF q
<1>3. ASSUME NEW i \in DOMAIN q, NEW j \in DOMAIN q, q[i].id = q[j].id PROVE i = j
  <2>1. CASE i \in DOMAIN c /\ q[i] = c[i]
    <3>1. j \in DOMAIN c /\ q[j] = c[j]
      BY <1>1, <1>3, <2>1
    <3> QED
      BY <1>3, <2>1, <3>1
  <2>2. CASE i = Len(c) + 1 /\ q[i] = e
    BY <1>1, <1>3, <2>2
  <2> QED
    BY <1>1, <2>1, <2>2
<1>4. ASSUME NEW i \in DOMAIN q
      PROVE  /\ q[i].id \in DOMAIN attempts' /\ attempts'[q[i].id].at \in {"queued", "tree"}
             /\ q[i].op = "clean" /\ attempts'[q[i].id].ok => q[i].id \in tree'
  BY <1>1
<1>5. \A id \in DOMAIN attempts' :
        attempts'[id].at = "tree" => q # <<>> /\ Head(q) = [id |-> id, op |-> "tree"]
  BY <1>1
<1>6. Queue'
  BY <1>2, <1>3, <1>4, <1>5 DEF Queue
<1> QED
  BY <1>1, <1>2, <1>6 DEF Bare

LEMMA AcquireStep == ASSUME OrchestratorInv, Acquire PROVE OrchestratorInv'
<1>0. /\ mergeChain # <<>> /\ First.op = "acquire"
      /\ UNCHANGED <<disk, tree, isolated, crashes, scheduler>>
  BY DEF Acquire, Serves
<1>1. /\ First \in Waits /\ First.id \in DOMAIN attempts /\ isolated
      /\ attempts[First.id].at \in {"queued", "tree"} /\ attempts \in [DOMAIN attempts -> Tries]
      /\ \A id \in DOMAIN attempts : attempts[id].at = "tree" => First = [id |-> id, op |-> "tree"]
  BY <1>0, HeadShape
<1>2. attempts[First.id].at = "queued" /\ attempts[First.id] \in Tries
  BY <1>0, <1>1
<1>3. Tries' = Tries
  BY <1>0 DEF Tries
<1>4. Landed
  BY DEF OrchestratorInv, Merged
<1>5. CASE /\ attempts' = [attempts EXCEPT ![First.id] = [@ EXCEPT !.at = "run", !.base = tree]]
           /\ mergeChain' = Tail(mergeChain)
  <2> DEFINE a == [attempts[First.id] EXCEPT !.at = "run", !.base = tree]
  <2>1. a \in Tries /\ a.at = "run"
    BY <1>2 DEF Tries
  <2>2. /\ DOMAIN attempts' = DOMAIN attempts /\ attempts'[First.id] = a
        /\ \A id \in DOMAIN attempts \ {First.id} : attempts'[id] = attempts[id]
        /\ attempts' = [attempts EXCEPT ![First.id] = a]
    BY <1>1, <1>5
  <2> HIDE DEF a
  <2>3. attempts' \in [DOMAIN attempts -> Tries']
    BY <2>1, <2>2, <1>1, <1>3
  <2>4. /\ Tail(mergeChain) \in Seq(Waits)
        /\ \A i, j \in DOMAIN Tail(mergeChain) :
             Tail(mergeChain)[i].id = Tail(mergeChain)[j].id => i = j
        /\ \A i \in DOMAIN Tail(mergeChain) :
             /\ Tail(mergeChain)[i].id \in DOMAIN attempts
             /\ attempts'[Tail(mergeChain)[i].id].at \in {"queued", "tree"}
             /\ Tail(mergeChain)[i].op = "clean" /\ attempts'[Tail(mergeChain)[i].id].ok
                  => Tail(mergeChain)[i].id \in tree'
        /\ \A id \in DOMAIN attempts : attempts'[id].at # "tree"
    BY <2>1, <2>2, <1>0, QueueBehind
  <2>5. Queue'
    BY <2>2, <2>4, <1>5 DEF Queue
  <2>6. Bare'
    BY <1>0, <1>1 DEF Bare
  <2>7. Landed'
    BY <2>1, <2>2, <1>0, <1>4 DEF Landed
  <2> QED
    BY <2>2, <2>3, <2>4, <2>5, <2>6, <2>7, <1>0, <1>1, <1>5, LockStep
<1>6. CASE /\ attempts' = attempts
           /\ mergeChain' = Append(Tail(mergeChain), [id |-> First.id, op |-> "tree"])
  <2> DEFINE e == [id |-> First.id, op |-> "tree"]
             c == Tail(mergeChain)
  <2>1. e \in Waits /\ e.id = First.id /\ e.op = "tree"
    BY <1>1 DEF Waits
  <2>2. mergeChain' = Append(c, e)
    BY <1>6
  <2>3. /\ c \in Seq(Waits)
        /\ \A i, j \in DOMAIN c : c[i].id = c[j].id => i = j
        /\ \A i \in DOMAIN c :
             /\ c[i].id \in DOMAIN attempts /\ c[i].id # First.id
             /\ attempts'[c[i].id].at \in {"queued", "tree"}
             /\ c[i].op = "clean" /\ attempts'[c[i].id].ok => c[i].id \in tree'
        /\ \A id \in DOMAIN attempts : attempts'[id].at # "tree"
    BY <1>0, <1>2, <1>6, QueueBehind
  <2> HIDE DEF e, c
  <2>4. mergeChain' \in Seq(Waits) /\ Queue' /\ Bare'
    <3>1. DOMAIN attempts' = DOMAIN attempts /\ isolated' /\ e.id \in DOMAIN attempts'
      BY <2>1, <1>0, <1>1, <1>6
    <3>2. attempts'[e.id].at \in {"queued", "tree"} /\ e.op # "clean"
      BY <2>1, <1>1, <1>6
    <3> QED
      BY <2>1, <2>2, <2>3, <3>1, <3>2, QueueJoins
  <2>5. Landed'
    BY <1>0, <1>4, <1>6 DEF Landed
  <2> QED
    BY <2>4, <2>5, <1>0, <1>1, <1>3, <1>6, LockStep
<1> QED
  BY <1>1, <1>5, <1>6 DEF Acquire

LEMMA EnterTreeStep == ASSUME OrchestratorInv, EnterTree PROVE OrchestratorInv'
<1> DEFINE a == [attempts[First.id] EXCEPT !.at = "tree", !.base = tree]
<1>0. /\ mergeChain # <<>> /\ First.op = "tree" /\ First.id \in DOMAIN attempts
      /\ attempts' = [attempts EXCEPT ![First.id] = a]
      /\ UNCHANGED <<disk, tree, isolated, crashes, scheduler, mergeChain>>
  BY DEF EnterTree, Serves, Busy
<1>1. /\ First \in Waits /\ isolated /\ attempts \in [DOMAIN attempts -> Tries]
      /\ First = mergeChain[1] /\ 1 \in DOMAIN mergeChain /\ mergeChain \in Seq(Waits)
      /\ \A id \in DOMAIN attempts : attempts[id].at = "tree" => First = [id |-> id, op |-> "tree"]
  BY <1>0, HeadShape
<1>2. Tries' = Tries
  BY <1>0 DEF Tries
<1>3. Landed
  BY DEF OrchestratorInv, Merged
<1>a. attempts[First.id] \in Tries
  BY <1>0, <1>1
<1>4. a \in Tries /\ a.at = "tree" /\ a.ok = attempts[First.id].ok
  BY <1>a DEF Tries
<1>5. /\ DOMAIN attempts' = DOMAIN attempts /\ attempts'[First.id] = a
      /\ \A id \in DOMAIN attempts \ {First.id} : attempts'[id] = attempts[id]
  BY <1>0, <1>1
<1>6. attempts' \in [DOMAIN attempts -> Tries']
  BY <1>0, <1>1, <1>2, <1>4
<1> HIDE DEF a
<1>7. First = [id |-> First.id, op |-> "tree"]
  BY <1>0, <1>1 DEF Waits
<1>8. Queue'
  <2>1. \A i \in DOMAIN mergeChain :
          /\ mergeChain[i].id \in DOMAIN attempts
          /\ attempts[mergeChain[i].id].at \in {"queued", "tree"}
          /\ mergeChain[i].op = "clean" /\ attempts[mergeChain[i].id].ok => mergeChain[i].id \in tree
    BY DEF OrchestratorInv, Queue
  <2>2. \A i \in DOMAIN mergeChain :
          /\ mergeChain[i].id \in DOMAIN attempts'
          /\ attempts'[mergeChain[i].id].at \in {"queued", "tree"}
          /\ mergeChain[i].op = "clean" /\ attempts'[mergeChain[i].id].ok => mergeChain[i].id \in tree
    BY <2>1, <1>4, <1>5
  <2>3. \A id \in DOMAIN attempts' : attempts'[id].at = "tree" => First = [id |-> id, op |-> "tree"]
    BY <1>1, <1>5, <1>7
  <2>4. \A i, j \in DOMAIN mergeChain : mergeChain[i].id = mergeChain[j].id => i = j
    BY DEF OrchestratorInv, Queue
  <2> QED
    BY <2>2, <2>3, <2>4, <1>0 DEF Queue, First
<1>9. Bare'
  BY <1>0, <1>1 DEF Bare
<1>10. Landed'
  BY <1>0, <1>3, <1>4, <1>5 DEF Landed
<1> QED
  BY <1>0, <1>1, <1>5, <1>6, <1>8, <1>9, <1>10, LockStep

LEMMA LeaveTreeStep ==
    ASSUME OrchestratorInv, NEW id \in DOMAIN attempts, LeaveTree(id) PROVE OrchestratorInv'
<1>1. PICK ok \in BOOLEAN, finds \in BOOLEAN :
        /\ attempts' = [attempts EXCEPT ![id] = [@ EXCEPT !.at = "over", !.ok = ok, !.finds = finds]]
        /\ tree' = IF ok THEN tree \cup {id} ELSE tree
  BY DEF LeaveTree
<1> DEFINE a == [attempts[id] EXCEPT !.at = "over", !.ok = ok, !.finds = finds]
<1>2. /\ attempts[id].at = "tree" /\ UNCHANGED <<disk, isolated, crashes, scheduler>>
      /\ mergeChain' = IF mergeChain # <<>> /\ First.id = id THEN Tail(mergeChain) ELSE mergeChain
  BY DEF LeaveTree, Released
<1>3. attempts \in [DOMAIN attempts -> Tries] /\ mergeChain \in Seq(Waits)
  BY DEF OrchestratorInv, TypeOK
<1>4. Tries \subseteq Tries' /\ tree \subseteq tree'
  BY <1>1 DEF Tries
<1>5. a \in Tries /\ a.at = "over" /\ a.ok = ok
  BY <1>3 DEF Tries
<1>6. /\ DOMAIN attempts' = DOMAIN attempts /\ attempts'[id] = a
      /\ \A i \in DOMAIN attempts \ {id} : attempts'[i] = attempts[i]
      /\ attempts' = [attempts EXCEPT ![id] = a]
  BY <1>1, <1>3
<1> HIDE DEF a
<1>7. attempts' \in [DOMAIN attempts -> Tries']
  BY <1>3, <1>4, <1>5, <1>6
<1>8. Landed'
  <2>1. \A i \in DOMAIN attempts : attempts[i].at = "over" /\ attempts[i].ok => i \in tree
    BY DEF OrchestratorInv, Merged, Landed
  <2> QED
    BY <2>1, <1>1, <1>4, <1>5, <1>6 DEF Landed
<1>9. mergeChain' \in Seq(Waits) /\ Queue' /\ Bare'
  <2>1. CASE isolated
    <3>1. mergeChain # <<>> /\ First = [id |-> id, op |-> "tree"]
      BY <2>1, <1>2 DEF OrchestratorInv, Queue, First
    <3>2. First.id = id /\ mergeChain' = Tail(mergeChain)
      BY <3>1, <1>2
    <3>3. /\ Tail(mergeChain) \in Seq(Waits)
          /\ \A i, j \in DOMAIN Tail(mergeChain) :
               Tail(mergeChain)[i].id = Tail(mergeChain)[j].id => i = j
          /\ \A i \in DOMAIN Tail(mergeChain) :
               /\ Tail(mergeChain)[i].id \in DOMAIN attempts
               /\ attempts'[Tail(mergeChain)[i].id].at \in {"queued", "tree"}
               /\ Tail(mergeChain)[i].op = "clean" /\ attempts'[Tail(mergeChain)[i].id].ok
                    => Tail(mergeChain)[i].id \in tree'
          /\ \A i \in DOMAIN attempts : attempts'[i].at # "tree"
      BY <3>1, <3>2, <1>4, <1>5, <1>6, QueueBehind
    <3>4. Queue'
      BY <3>2, <3>3, <1>6 DEF Queue
    <3>5. Bare'
      BY <2>1, <1>2 DEF Bare
    <3> QED
      BY <3>2, <3>3, <3>4, <3>5
  <2>2. CASE ~isolated
    <3>1. mergeChain = <<>> /\ \A i \in DOMAIN attempts : attempts[i].at \in {"tree", "over"}
      BY <2>2 DEF OrchestratorInv, Bare
    <3>2. mergeChain' = <<>> /\ DOMAIN mergeChain' = {}
      BY <3>1, <1>2
    <3>3. Queue'
      BY <2>2, <3>2, <1>2 DEF Queue
    <3>4. Bare'
      BY <3>1, <3>2, <1>5, <1>6 DEF Bare
    <3> QED
      BY <3>1, <3>2, <3>3, <3>4, <1>3
  <2> QED
    BY <2>1, <2>2
<1> QED
  BY <1>1, <1>2, <1>4, <1>6, <1>7, <1>8, <1>9, LockStep

LEMMA FinishRunStep ==
    ASSUME OrchestratorInv, NEW id \in DOMAIN attempts, FinishRun(id) PROVE OrchestratorInv'
<1>1. PICK ok \in BOOLEAN, finds \in BOOLEAN :
        /\ attempts' = [attempts EXCEPT ![id] = [@ EXCEPT !.at = "queued", !.ok = ok, !.finds = finds]]
        /\ mergeChain' = Append(mergeChain, [id |-> id, op |-> IF ok THEN "merge" ELSE "clean"])
  BY DEF FinishRun
<1> DEFINE a == [attempts[id] EXCEPT !.at = "queued", !.ok = ok, !.finds = finds]
           e == [id |-> id, op |-> IF ok THEN "merge" ELSE "clean"]
<1>2. attempts[id].at = "run" /\ UNCHANGED <<disk, tree, isolated, crashes, scheduler>>
  BY DEF FinishRun
<1>3. attempts \in [DOMAIN attempts -> Tries] /\ mergeChain \in Seq(Waits) /\ id \in known
  BY DEF OrchestratorInv, TypeOK
<1>4. Tries' = Tries
  BY <1>2 DEF Tries
<1>5. a \in Tries /\ a.at = "queued" /\ a.ok = ok
  BY <1>3 DEF Tries
<1>6. /\ DOMAIN attempts' = DOMAIN attempts /\ attempts'[id] = a
      /\ \A i \in DOMAIN attempts \ {id} : attempts'[i] = attempts[i]
      /\ attempts' = [attempts EXCEPT ![id] = a]
  BY <1>1, <1>3
<1>7. e \in Waits /\ e.id = id /\ (e.op = "clean" => ~ok)
  BY <1>3 DEF Waits
<1> HIDE DEF a, e
<1>8. attempts' \in [DOMAIN attempts -> Tries']
  BY <1>3, <1>4, <1>5, <1>6
<1>9. Landed'
  <2>1. \A i \in DOMAIN attempts : attempts[i].at = "over" /\ attempts[i].ok => i \in tree
    BY DEF OrchestratorInv, Merged, Landed
  <2> QED
    BY <2>1, <1>2, <1>5, <1>6 DEF Landed
<1>10. isolated
  BY <1>2 DEF OrchestratorInv, Bare, TypeOK
<1>11. /\ \A i, j \in DOMAIN mergeChain : mergeChain[i].id = mergeChain[j].id => i = j
       /\ \A i \in DOMAIN mergeChain :
            /\ mergeChain[i].id \in DOMAIN attempts
            /\ attempts[mergeChain[i].id].at \in {"queued", "tree"}
            /\ mergeChain[i].op = "clean" /\ attempts[mergeChain[i].id].ok => mergeChain[i].id \in tree
       /\ \A i \in DOMAIN attempts :
            attempts[i].at = "tree" => mergeChain # <<>> /\ Head(mergeChain) = [id |-> i, op |-> "tree"]
  BY <1>10 DEF OrchestratorInv, Queue
<1>12. \A i \in DOMAIN mergeChain :
         /\ mergeChain[i].id \in DOMAIN attempts' /\ mergeChain[i].id # e.id
         /\ attempts'[mergeChain[i].id].at \in {"queued", "tree"}
         /\ mergeChain[i].op = "clean" /\ attempts'[mergeChain[i].id].ok => mergeChain[i].id \in tree'
  BY <1>2, <1>6, <1>7, <1>11
<1>13. /\ e.id \in DOMAIN attempts' /\ attempts'[e.id].at \in {"queued", "tree"}
       /\ e.op = "clean" /\ attempts'[e.id].ok => e.id \in tree'
  BY <1>5, <1>6, <1>7
<1>14. \A i \in DOMAIN attempts' :
         attempts'[i].at = "tree" => mergeChain # <<>> /\ Head(mergeChain) = [id |-> i, op |-> "tree"]
  BY <1>5, <1>6, <1>11
<1>15. mergeChain' = Append(mergeChain, e) /\ isolated'
  BY <1>1, <1>2, <1>10 DEF e
<1>16. mergeChain' \in Seq(Waits) /\ Queue' /\ Bare'
  BY <1>3, <1>7, <1>11, <1>12, <1>13, <1>14, <1>15, QueueJoins
<1> QED
  BY <1>2, <1>6, <1>8, <1>9, <1>16, LockStep

LEMMA MergeBackStep == ASSUME OrchestratorInv, MergeBack PROVE OrchestratorInv'
<1> DEFINE e == [id |-> First.id, op |-> "clean"]
           c == Tail(mergeChain)
<1>0. /\ mergeChain # <<>> /\ First.op = "merge" /\ mergeChain' = Append(c, e)
      /\ UNCHANGED <<disk, isolated, crashes, scheduler>>
  BY DEF MergeBack, Serves
<1>1. /\ First \in Waits /\ First.id \in DOMAIN attempts /\ isolated
      /\ attempts[First.id].at \in {"queued", "tree"} /\ attempts \in [DOMAIN attempts -> Tries]
      /\ \A id \in DOMAIN attempts : attempts[id].at = "tree" => First = [id |-> id, op |-> "tree"]
  BY <1>0, HeadShape
<1>2. attempts[First.id].at = "queued" /\ attempts[First.id] \in Tries
  BY <1>0, <1>1
<1>3. e \in Waits /\ e.id = First.id /\ e.op = "clean"
  BY <1>1 DEF Waits
<1>4. \A i \in DOMAIN attempts : attempts[i].at = "over" /\ attempts[i].ok => i \in tree
  BY DEF OrchestratorInv, Merged, Landed
<1>5. /\ DOMAIN attempts' = DOMAIN attempts /\ tree \subseteq tree'
      /\ tree' \subseteq tree \cup DOMAIN attempts
      /\ attempts' \in [DOMAIN attempts -> Tries']
      /\ attempts'[First.id].at = "queued" /\ (attempts'[First.id].ok => First.id \in tree')
      /\ \A id \in DOMAIN attempts \ {First.id} : attempts'[id] = attempts[id]
  <2>1. CASE tree' = tree \cup {First.id} /\ attempts' = [attempts EXCEPT ![First.id] = @]
    <3>1. attempts' = attempts
      BY <2>1, <1>1
    <3>2. Tries \subseteq Tries'
      BY <2>1 DEF Tries
    <3> QED
      BY <2>1, <3>1, <3>2, <1>1, <1>2
  <2>2. CASE /\ tree' = tree
             /\ attempts' = [attempts EXCEPT ![First.id] = [@ EXCEPT !.ok = FALSE, !.finds = FALSE]]
    <3> DEFINE a == [attempts[First.id] EXCEPT !.ok = FALSE, !.finds = FALSE]
    <3>1. a \in Tries /\ a.at = "queued" /\ ~a.ok
      BY <1>2 DEF Tries
    <3>2. attempts' = [attempts EXCEPT ![First.id] = a]
      BY <2>2
    <3>3. Tries' = Tries
      BY <2>2 DEF Tries
    <3> HIDE DEF a
    <3> QED
      BY <2>2, <3>1, <3>2, <3>3, <1>1
  <2> QED
    BY <2>1, <2>2 DEF MergeBack
<1> HIDE DEF e
<1>6. /\ c \in Seq(Waits)
      /\ \A i, j \in DOMAIN c : c[i].id = c[j].id => i = j
      /\ \A i \in DOMAIN c :
           /\ c[i].id \in DOMAIN attempts /\ c[i].id # First.id
           /\ attempts'[c[i].id].at \in {"queued", "tree"}
           /\ c[i].op = "clean" /\ attempts'[c[i].id].ok => c[i].id \in tree'
      /\ \A id \in DOMAIN attempts : attempts'[id].at # "tree"
  BY <1>0, <1>5, QueueBehind
<1> HIDE DEF c
<1>7. mergeChain' \in Seq(Waits) /\ Queue' /\ Bare'
  <2>1. /\ e.id \in DOMAIN attempts' /\ attempts'[e.id].at \in {"queued", "tree"}
        /\ e.op = "clean" /\ attempts'[e.id].ok => e.id \in tree'
    BY <1>1, <1>3, <1>5
  <2>2. isolated' /\ mergeChain' = Append(c, e) /\ e.id = First.id /\ DOMAIN attempts' = DOMAIN attempts
    BY <1>0, <1>1, <1>3, <1>5
  <2> QED
    BY <2>1, <2>2, <1>3, <1>6, QueueJoins
<1>8. Landed'
  BY <1>4, <1>5 DEF Landed
<1> QED
  BY <1>0, <1>1, <1>5, <1>7, <1>8, LockStep

LEMMA CleanupStep == ASSUME OrchestratorInv, Cleanup PROVE OrchestratorInv'
<1> DEFINE a == [attempts[First.id] EXCEPT !.at = "over"]
<1>0. /\ mergeChain # <<>> /\ First.op = "clean" /\ mergeChain' = Tail(mergeChain)
      /\ attempts' = [attempts EXCEPT ![First.id] = a]
      /\ UNCHANGED <<disk, tree, isolated, crashes, scheduler>>
  BY DEF Cleanup, Serves
<1>1. /\ First \in Waits /\ First.id \in DOMAIN attempts /\ isolated
      /\ attempts \in [DOMAIN attempts -> Tries] /\ (attempts[First.id].ok => First.id \in tree)
  BY <1>0, HeadShape
<1>2. a \in Tries /\ a.at = "over" /\ a.ok = attempts[First.id].ok
  BY <1>1 DEF Tries
<1>3. Tries' = Tries
  BY <1>0 DEF Tries
<1>4. /\ DOMAIN attempts' = DOMAIN attempts /\ attempts'[First.id] = a
      /\ \A id \in DOMAIN attempts \ {First.id} : attempts'[id] = attempts[id]
  BY <1>0, <1>1
<1> HIDE DEF a
<1>5. attempts' \in [DOMAIN attempts -> Tries']
  BY <1>0, <1>1, <1>2, <1>3
<1>6. /\ Tail(mergeChain) \in Seq(Waits)
      /\ \A i, j \in DOMAIN Tail(mergeChain) :
           Tail(mergeChain)[i].id = Tail(mergeChain)[j].id => i = j
      /\ \A i \in DOMAIN Tail(mergeChain) :
           /\ Tail(mergeChain)[i].id \in DOMAIN attempts
           /\ attempts'[Tail(mergeChain)[i].id].at \in {"queued", "tree"}
           /\ Tail(mergeChain)[i].op = "clean" /\ attempts'[Tail(mergeChain)[i].id].ok
                => Tail(mergeChain)[i].id \in tree'
      /\ \A id \in DOMAIN attempts : attempts'[id].at # "tree"
  BY <1>0, <1>2, <1>4, QueueBehind
<1>7. Queue'
  BY <1>0, <1>4, <1>6 DEF Queue
<1>8. Bare'
  BY <1>0, <1>1 DEF Bare
<1>9. Landed'
  <2>1. \A i \in DOMAIN attempts : attempts[i].at = "over" /\ attempts[i].ok => i \in tree
    BY DEF OrchestratorInv, Merged, Landed
  <2> QED
    BY <2>1, <1>0, <1>1, <1>2, <1>4 DEF Landed
<1> QED
  BY <1>0, <1>1, <1>4, <1>5, <1>6, <1>7, <1>8, <1>9, LockStep

-----------------------------------------------------------------------------
(* What the scheduler computes.                                             *)

\* The ids of a list are finitely many.
LEMMA IdsAreTasks == ASSUME NEW ps \in Seq(Phases) PROVE IdsOf(ps) \subseteq Tasks
<1>1. \A i \in DOMAIN ps : ps[i] \in Phases
  BY LenProperties, ElementOfSeq
<1>2. \A x \in Phases : x.id \in Tasks
  BY DEF Phases
<1> QED
  BY <1>1, <1>2 DEF IdsOf

LEMMA IdsFinite == ASSUME NEW ps \in Seq(Phases) PROVE IsFiniteSet(IdsOf(ps))
<1> DEFINE f == [i \in DOMAIN ps |-> ps[i].id]
<1>1. IsFiniteSet(DOMAIN ps)
  BY LenProperties, FS_Interval
<1>2. f \in [DOMAIN ps -> IdsOf(ps)] /\ \A x \in IdsOf(ps) : \E i \in DOMAIN ps : f[i] = x
  BY DEF IdsOf
<1> HIDE DEF f
<1>3. f \in Surjection(DOMAIN ps, IdsOf(ps))
  BY <1>2 DEF Surjection
<1> QED
  BY <1>1, <1>3, FS_Surjection

LEMMA ConcatShape ==
    ASSUME NEW ps \in Seq(Phases), NEW qs \in Seq(Phases), IdsOf(ps) \cap IdsOf(qs) = {},
           Distinct(ps), Distinct(qs)
    PROVE  /\ ps \o qs \in Seq(Phases) /\ Len(ps \o qs) = Len(ps) + Len(qs)
           /\ Distinct(ps \o qs) /\ IdsOf(ps \o qs) = IdsOf(ps) \cup IdsOf(qs)
           /\ \A i \in DOMAIN (ps \o qs) : \/ i \in DOMAIN ps /\ (ps \o qs)[i] = ps[i]
                                           \/ /\ i - Len(ps) \in DOMAIN qs
                                              /\ (ps \o qs)[i] = qs[i - Len(ps)]
<1> DEFINE c == ps \o qs
<1>1. /\ Len(ps) \in Nat /\ DOMAIN ps = 1..Len(ps) /\ Len(qs) \in Nat /\ DOMAIN qs = 1..Len(qs)
  BY LenProperties
<1>2. /\ c \in Seq(Phases) /\ Len(c) = Len(ps) + Len(qs)
      /\ \A i \in 1..(Len(ps) + Len(qs)) : c[i] = IF i <= Len(ps) THEN ps[i] ELSE qs[i - Len(ps)]
  BY ConcatProperties
<1> HIDE DEF c
<1>3. DOMAIN c = 1..(Len(ps) + Len(qs))
  BY <1>2, LenProperties
<1>4. \A i \in DOMAIN c : \/ i \in DOMAIN ps /\ c[i] = ps[i]
                          \/ i - Len(ps) \in DOMAIN qs /\ c[i] = qs[i - Len(ps)]
  BY <1>1, <1>2, <1>3
<1>5. /\ \A i \in DOMAIN ps : i \in DOMAIN c /\ c[i] = ps[i]
      /\ \A i \in DOMAIN qs : i + Len(ps) \in DOMAIN c /\ c[i + Len(ps)] = qs[i]
  BY <1>1, <1>2, <1>3
<1>6. IdsOf(c) = IdsOf(ps) \cup IdsOf(qs)
  <2>1. ASSUME NEW x \in IdsOf(c) PROVE x \in IdsOf(ps) \cup IdsOf(qs)
    <3>1. PICK i \in DOMAIN c : x = c[i].id
      BY <2>1 DEF IdsOf
    <3> QED
      BY <3>1, <1>4 DEF IdsOf
  <2>2. ASSUME NEW x \in IdsOf(ps) PROVE x \in IdsOf(c)
    BY <1>5 DEF IdsOf
  <2>3. ASSUME NEW x \in IdsOf(qs) PROVE x \in IdsOf(c)
    <3>1. PICK i \in DOMAIN qs : x = qs[i].id
      BY <2>3 DEF IdsOf
    <3>2. i + Len(ps) \in DOMAIN c /\ c[i + Len(ps)].id = x
      BY <3>1, <1>5
    <3> QED
      BY <3>2 DEF IdsOf
  <2> QED
    BY <2>1, <2>2, <2>3
<1>7. ASSUME NEW i \in DOMAIN c, NEW j \in DOMAIN c, c[i].id = c[j].id PROVE i = j
  <2>0. i \in Int /\ j \in Int
    BY <1>3
  <2>1. \A a \in DOMAIN ps, b \in DOMAIN qs : ps[a].id # qs[b].id
    BY DEF IdsOf
  <2>2. CASE i \in DOMAIN ps /\ c[i] = ps[i]
    <3>1. j \in DOMAIN ps /\ c[j] = ps[j]
      BY <2>1, <2>2, <1>4, <1>7
    <3> QED
      BY <3>1, <2>2, <1>7 DEF Distinct
  <2>3. CASE i - Len(ps) \in DOMAIN qs /\ c[i] = qs[i - Len(ps)]
    <3>1. j - Len(ps) \in DOMAIN qs /\ c[j] = qs[j - Len(ps)]
      BY <2>1, <2>3, <1>4, <1>7
    <3>2. i - Len(ps) = j - Len(ps)
      BY <3>1, <2>3, <1>7 DEF Distinct
    <3> QED
      BY <3>2, <2>0, <1>1
  <2> QED
    BY <1>4, <2>2, <2>3
<1> QED
  BY <1>2, <1>4, <1>6, <1>7 DEF c, Distinct

LEMMA PrefixShape ==
    ASSUME NEW ps \in Seq(Phases), NEW k \in Nat, k <= Len(ps), Distinct(ps)
    PROVE  /\ SubSeq(ps, 1, k) \in Seq(Phases) /\ Len(SubSeq(ps, 1, k)) = k
           /\ Distinct(SubSeq(ps, 1, k)) /\ IdsOf(SubSeq(ps, 1, k)) \subseteq IdsOf(ps)
           /\ \A i \in 1..k : i \in DOMAIN ps /\ SubSeq(ps, 1, k)[i] = ps[i]
<1> DEFINE q == SubSeq(ps, 1, k)
<1>1. Len(ps) \in Nat /\ DOMAIN ps = 1..Len(ps)
  BY LenProperties
<1>2. \A i \in 1..k : i \in DOMAIN ps /\ ps[i] \in Phases
  BY <1>1, ElementOfSeq
<1>3. /\ q \in Seq(Phases) /\ Len(q) = IF 1 <= k THEN k - 1 + 1 ELSE 0
      /\ \A i \in 1..(k - 1 + 1) : q[i] = ps[1 + i - 1]
  BY <1>2, SubSeqProperties
<1> HIDE DEF q
<1>4. Len(q) = k /\ \A i \in 1..k : q[i] = ps[i]
  BY <1>3
<1>5. DOMAIN q = 1..k
  BY <1>3, <1>4, LenProperties
<1>6. Distinct(q)
  BY <1>2, <1>4, <1>5 DEF Distinct
<1>7. IdsOf(q) \subseteq IdsOf(ps)
  BY <1>2, <1>4, <1>5 DEF IdsOf
<1> QED
  BY <1>2, <1>3, <1>4, <1>6, <1>7 DEF q

\* A planned or discovered list has tasks with different names.
LEMMA DeclaredShape ==
    ASSUME NEW l \in Listed
    PROVE  /\ [i \in DOMAIN l |-> Declared(l[i])] \in Seq(Phases)
           /\ Distinct([i \in DOMAIN l |-> Declared(l[i])])
           /\ Len([i \in DOMAIN l |-> Declared(l[i])]) = Len(l)
<1> DEFINE q == [i \in DOMAIN l |-> Declared(l[i])]
<1>1. l \in Seq(DOMAIN Deps) /\ \A i, j \in DOMAIN l : l[i] = l[j] => i = j
  BY DEF Listed
<1>2. Len(l) \in Nat /\ DOMAIN l = 1..Len(l) /\ \A i \in DOMAIN l : l[i] \in DOMAIN Deps
  BY <1>1, LenProperties, ElementOfSeq
<1>3. \A t \in DOMAIN Deps : Deps[t] \subseteq DOMAIN Deps
  BY OrchestratorAssumption
<1>4. \A t \in DOMAIN Deps : Declared(t) \in Phases /\ Declared(t).id = <<t, 0>>
  BY <1>3 DEF Declared, Phases, Tasks, Task
<1>5. q \in [1..Len(l) -> Phases] /\ DOMAIN q = DOMAIN l
  BY <1>2, <1>4
<1>6. q \in Seq(Phases) /\ Len(q) = Len(l)
  BY <1>2, <1>5
<1>7. \A i \in DOMAIN q : q[i].id = <<l[i], 0>>
  BY <1>2, <1>4
<1> HIDE DEF q
<1>8. Distinct(q)
  BY <1>1, <1>5, <1>7 DEF Distinct
<1> QED
  BY <1>6, <1>8 DEF q

LEMMA NewTasksShape ==
    ASSUME NEW t \in DOMAIN Deps
    PROVE  NewTasks(t) \in Seq(Phases) /\ Distinct(NewTasks(t))
<1>1. Finds[t] \in Listed
  BY OrchestratorAssumption
<1> DEFINE q == [i \in DOMAIN Finds[t] |-> Declared(Finds[t][i])]
<1>2. q \in Seq(Phases) /\ Distinct(q)
  BY <1>1, DeclaredShape
<1>3. NewTasks(t) = TopoOrder(q)
  BY DEF NewTasks
<1> HIDE DEF q
<1> QED
  BY <1>2, <1>3, TopoShape

\* The name of a link is new: known ids are finitely many.
LEMMA NewLinkShape ==
    ASSUME NEW t \in DOMAIN Deps, IsFiniteSet(known)
    PROVE  NewLink(t) \in Links /\ NewLink(t)[1] = t /\ NewLink(t) \notin known
<1> DEFINE N == Cardinality(known) + 1
<1>1. Cardinality(known) \in Nat
  BY FS_CardinalityType
<1>2. IsFiniteSet(1..N) /\ Cardinality(1..N) = N
  <2>1. N \in Nat \ {0}
    BY <1>1
  <2> HIDE DEF N
  <2> QED
    BY <2>1, FS_Interval
<1>3. \E n \in 1..N : <<t, n>> \notin known
  <2> SUFFICES ASSUME \A n \in 1..N : <<t, n>> \in known PROVE FALSE
    OBVIOUS
  <2> DEFINE f == [n \in 1..N |-> <<t, n>>]
  <2>1. f \in [1..N -> known]
    OBVIOUS
  <2>2. Cardinality(known) < Cardinality(1..N)
    BY <1>1, <1>2
  <2>3. \E x, y \in 1..N : x # y /\ f[x] = f[y]
    <3> HIDE DEF f, N
    <3> QED
      BY <2>1, <2>2, <1>2, FS_PigeonHole
  <2> QED
    BY <2>3
<1> DEFINE n == CHOOSE m \in 1..N : <<t, m>> \notin known
<1>4. n \in 1..N /\ <<t, n>> \notin known
  BY <1>3
<1>5. NewLink(t) = <<t, n>>
  BY DEF NewLink
<1> HIDE DEF n
<1>6. n \in Nat \ {0}
  BY <1>1, <1>4
<1> QED
  BY <1>4, <1>5, <1>6 DEF Links

LEMMA TasksAreNoLinks == Tasks \cap Links = {} /\ \A id \in Tasks : id[1] \in DOMAIN Deps
  BY DEF Tasks, Links, Task

\* The chosen tasks are different pending ones that no failure has doomed and
\* whose dependencies are done, one of them where there are no worktrees.
LEMMA ChosenShape ==
    ASSUME OrchestratorInv, NEW skipped, NEW ready, ready = Picked(pending, Ready(skipped))
    PROVE  /\ Chosen(ready) \in Seq(IdsOf(pending))
           /\ \A i, j \in DOMAIN Chosen(ready) : Chosen(ready)[i] = Chosen(ready)[j] => i = j
           /\ ~isolated /\ inFlight = {} => \A i, j \in DOMAIN Chosen(ready) : i = j
           /\ \A n \in DOMAIN Chosen(ready) : \E i \in DOMAIN pending :
                pending[i].id = Chosen(ready)[n] /\ pending[i].deps \subseteq done
<1> DEFINE I == Ready(skipped)
           slots == Concurrency - Cardinality(inFlight)
           k == IF slots < Len(ready) THEN slots ELSE Len(ready)
           q == Chosen(ready)
<1>1. pending \in Seq(Phases) /\ Distinct(pending) /\ I \in SUBSET DOMAIN pending
  BY DEF OrchestratorInv, TypeOK, Separate, Ready
<1>2. /\ ready \in Seq(Phases)
      /\ \A n \in DOMAIN ready : \E i \in I : ready[n] = pending[i]
      /\ \A m, n \in DOMAIN ready :
           \E i, j \in I : ready[m] = pending[i] /\ ready[n] = pending[j] /\ (i = j => m = n)
  <2>1. ready = Picked(pending, I)
    OBVIOUS
  <2> HIDE DEF I
  <2> QED
    BY <2>1, <1>1, PickedShape
<1>3. \A i \in I : i \in DOMAIN pending /\ pending[i].deps \subseteq done
  BY DEF Ready
<1>4. Len(ready) \in Nat /\ DOMAIN ready = 1..Len(ready)
  BY <1>2, LenProperties
<1>5. Cardinality(inFlight) \in Nat
  <2>1. inFlight \in SUBSET known /\ IsFiniteSet(known)
    BY DEF OrchestratorInv, TypeOK, Flights
  <2> QED
    BY <2>1, FS_Subset, FS_CardinalityType
<1>6. Concurrency \in Nat
  BY OrchestratorAssumption DEF Concurrency
<1>7. slots \in Int /\ k \in Int /\ k <= Len(ready) /\ k <= slots
  BY <1>4, <1>5, <1>6
<1>8. q = [i \in 1..k |-> ready[i].id]
  BY DEF Chosen
<1>9. ~isolated /\ inFlight = {} => slots = 1
  BY <1>5, FS_EmptySet DEF Concurrency
<1> HIDE DEF slots, k, I
<1>10. DOMAIN q = 1..k /\ \A n \in 1..k : n \in DOMAIN ready /\ q[n] = ready[n].id
  BY <1>4, <1>7, <1>8
<1>11. \A n \in 1..k : \E i \in DOMAIN pending : pending[i].id = q[n] /\ pending[i].deps \subseteq done
  BY <1>2, <1>3, <1>10
<1>12. q \in Seq(IdsOf(pending))
  <2>1. \A n \in 1..k : q[n] \in IdsOf(pending)
    BY <1>11 DEF IdsOf
  <2>2. CASE k \in Nat
    <3>1. q \in [1..k -> IdsOf(pending)]
      BY <2>1, <1>8
    <3> QED
      BY <2>2, <3>1
  <2>3. CASE k < 0
    <3>1. 1..k = {} /\ 1..0 = {}
      BY <2>3, <1>7
    <3>2. q \in [1..0 -> IdsOf(pending)]
      BY <3>1, <1>8
    <3> QED
      BY <3>2
  <2> QED
    BY <2>2, <2>3, <1>7
<1>13. ASSUME NEW m \in DOMAIN q, NEW n \in DOMAIN q, q[m] = q[n] PROVE m = n
  <2>1. m \in DOMAIN ready /\ n \in DOMAIN ready /\ ready[m].id = ready[n].id
    BY <1>10, <1>13
  <2>2. PICK i, j \in I : ready[m] = pending[i] /\ ready[n] = pending[j] /\ (i = j => m = n)
    BY <2>1, <1>2
  <2>3. i = j
    BY <2>1, <2>2, <1>1, <1>3 DEF Distinct
  <2> QED
    BY <2>2, <2>3
<1>14. ASSUME ~isolated, inFlight = {}, NEW m \in DOMAIN q, NEW n \in DOMAIN q PROVE m = n
  BY <1>7, <1>9, <1>10, <1>14
<1> HIDE DEF q
<1> QED
  BY <1>10, <1>11, <1>12, <1>13, <1>14 DEF q

-----------------------------------------------------------------------------
(* Steps of the scheduler.                                                  *)

LEMMA OrchestratorInitial == Init => OrchestratorInv
<1> SUFFICES ASSUME Init PROVE OrchestratorInv
  OBVIOUS
<1>1. PICK plan \in Plans :
        disk = [phases |-> [i \in DOMAIN plan |-> Declared(plan[i])], accepted |-> {}]
  BY DEF Init
<1>2. plan \in Listed /\ Len(plan) <= MaxTasks /\ Len(plan) <= MaxPersisted
  BY OrchestratorAssumption
<1>3. /\ disk.phases \in Seq(Phases) /\ Distinct(disk.phases) /\ Len(disk.phases) = Len(plan)
      /\ disk.accepted = {} /\ disk = [phases |-> disk.phases, accepted |-> {}]
  BY <1>1, <1>2, DeclaredShape
<1>4. /\ tree = {} /\ isolated \in BOOLEAN /\ at = "dead" /\ crashes = 0
      /\ pending = <<>> /\ known = {} /\ done = {} /\ failed = {} /\ scheduled = 0
      /\ inFlight = {} /\ settling = Nobody /\ attempts = NoAttempts /\ mergeChain = <<>>
  BY DEF Init
<1>5. pending \in Seq(Phases) /\ mergeChain \in Seq(Waits) /\ IdsOf(pending) = {}
      /\ DOMAIN attempts = {} /\ DOMAIN pending = {} /\ DOMAIN mergeChain = {}
  BY <1>4, EmptySeq DEF IdsOf, NoAttempts
<1>6. settling \in [id : known \cup {NoOne}, kind : {"task", "link"}, tries : Nat, links : Nat,
                    finds : BOOLEAN]
  BY <1>4 DEF Nobody
<1>7. {MaxCrashes, MaxTasks} \subseteq Nat
  BY OrchestratorAssumption
<1>8. TypeOK
  <2>1. attempts \in [DOMAIN attempts -> Tries]
    BY <1>4 DEF NoAttempts
  <2>2. disk \in [phases : Seq(Phases), accepted : SUBSET Ids]
    BY <1>3
  <2> QED
    BY <2>1, <2>2, <1>2, <1>3, <1>4, <1>5, <1>6, <1>7 DEF TypeOK
<1>9. Flights
  BY <1>3, <1>4, <1>5, FS_EmptySet DEF Flights, Judging
<1>10. Separate
  BY <1>2, <1>3, <1>4, <1>5 DEF Separate, Distinct, Judging
<1>11. Queue /\ Bare /\ Alone
  BY <1>4, <1>5 DEF Queue, Bare, Alone
<1>12. Merged /\ Covered
  BY <1>3, <1>4, <1>5 DEF Merged, Landed, Covered
<1> QED
  BY <1>8, <1>9, <1>10, <1>11, <1>12 DEF OrchestratorInv

LEMMA StartStep == ASSUME OrchestratorInv, Start PROVE OrchestratorInv'
<1>0. /\ at = "dead" /\ at' = "top" /\ done' = disk.accepted /\ scheduled' = Len(disk.phases)
      /\ pending' = Without(TopoOrder(disk.phases), disk.accepted)
      /\ known' = IdsOf(disk.phases) \cup disk.accepted
      /\ UNCHANGED <<disk, tree, isolated, failed, inFlight, settling, attempts, mergeChain, crashes>>
  BY DEF Start, Pending, Known
<1>1. /\ disk.phases \in Seq(Phases) /\ disk.accepted \subseteq Ids /\ Distinct(disk.phases)
      /\ IsFiniteSet(disk.accepted) /\ Len(disk.phases) <= MaxTasks /\ TypeOK
  BY DEF OrchestratorInv, TypeOK, Separate, Flights
<1>2. /\ TopoOrder(disk.phases) \in Seq(Phases) /\ IdsOf(TopoOrder(disk.phases)) = IdsOf(disk.phases)
      /\ Distinct(TopoOrder(disk.phases))
  BY <1>1, TopoShape
<1>3. /\ pending' \in Seq(Phases) /\ IdsOf(pending') = IdsOf(disk.phases) \ disk.accepted
      /\ Distinct(pending')
  BY <1>0, <1>2, WithoutShape
<1>4. /\ known = {} /\ DOMAIN attempts = {} /\ mergeChain = <<>> /\ settling = Nobody /\ inFlight = {}
      /\ failed = {}
  BY <1>0 DEF OrchestratorInv, Flights, TypeOK, Judging
<1>5. IsFiniteSet(known') /\ known' \subseteq Ids
  <2>1. IdsOf(disk.phases) \subseteq Ids
    <3>1. \A i \in DOMAIN disk.phases : disk.phases[i] \in Phases
      BY <1>1, LenProperties, ElementOfSeq
    <3> QED
      BY <3>1 DEF IdsOf, Phases, Ids
  <2> QED
    BY <2>1, <1>0, <1>1, IdsFinite, FS_Union
<1>6. Len(disk.phases) \in 0..MaxTasks
  BY <1>1, OrchestratorAssumption, LenProperties
<1>7. DOMAIN mergeChain = {}
  BY <1>4
<1>8. TypeOK'
  <2>1. settling' \in [id : known' \cup {NoOne}, kind : {"task", "link"}, tries : Nat, links : Nat,
                       finds : BOOLEAN]
    BY <1>0, <1>4 DEF Nobody
  <2>2. attempts' \in [DOMAIN attempts' -> Tries'] /\ DOMAIN attempts' = {}
    BY <1>0, <1>1, <1>4 DEF TypeOK, Tries
  <2>3. mergeChain' \in Seq(Waits')
    BY <1>0, <1>4, EmptySeq
  <2>4. IdsOf(pending)' \subseteq known' /\ IdsOf(disk.phases)' = IdsOf(disk.phases)
    BY <1>0, <1>3 DEF IdsOf
  <2> QED
    BY <2>1, <2>2, <2>3, <2>4, <1>0, <1>1, <1>3, <1>4, <1>5, <1>6 DEF TypeOK
<1>9. Flights'
  BY <1>0, <1>1, <1>4, <1>5 DEF Flights, Judging
<1>10. Separate'
  <2>1. IdsOf(pending)' = IdsOf(disk.phases) \ disk.accepted /\ Distinct(pending)'
    BY <1>3 DEF IdsOf, Distinct
  <2>2. /\ IdsOf(disk.phases)' = IdsOf(disk.phases) /\ Distinct(disk.phases)'
        /\ Len(disk.phases) <= Len(disk.phases)
    BY <1>0, <1>1, <1>6 DEF IdsOf, Distinct
  <2> QED
    BY <2>1, <2>2, <1>0, <1>1, <1>4 DEF Separate, Judging
<1>11. Queue' /\ Bare' /\ Alone'
  BY <1>0, <1>4, <1>7 DEF Queue, Bare, Alone
<1>12. Merged'
  BY <1>0, <1>4 DEF OrchestratorInv, Merged, Landed
<1>13. Covered'
  <2>1. IdsOf(pending)' = IdsOf(disk.phases) \ disk.accepted /\ IdsOf(disk.phases)' = IdsOf(disk.phases)
    BY <1>0, <1>3 DEF IdsOf
  <2> QED
    BY <2>1, <1>0 DEF Covered
<1> QED
  BY <1>8, <1>9, <1>10, <1>11, <1>12, <1>13 DEF OrchestratorInv

LEMMA CrashStep == ASSUME OrchestratorInv, Crash PROVE OrchestratorInv'
<1>0. /\ crashes < MaxCrashes /\ crashes' = crashes + 1 /\ at' = "dead"
      /\ pending' = <<>> /\ known' = {} /\ done' = {} /\ failed' = {} /\ scheduled' = 0
      /\ inFlight' = {} /\ settling' = Nobody /\ attempts' = NoAttempts /\ mergeChain' = <<>>
      /\ UNCHANGED <<disk, tree, isolated>>
  BY DEF Crash, Forget
<1>1. /\ DOMAIN attempts' = {} /\ DOMAIN pending' = {} /\ DOMAIN mergeChain' = {}
      /\ IdsOf(pending)' = {} /\ pending' \in Seq(Phases) /\ mergeChain' \in Seq(Waits')
  BY <1>0, EmptySeq DEF IdsOf, NoAttempts
<1>2. TypeOK'
  <2>1. settling' \in [id : known' \cup {NoOne}, kind : {"task", "link"}, tries : Nat, links : Nat,
                       finds : BOOLEAN]
    BY <1>0 DEF Nobody
  <2>2. attempts' \in [DOMAIN attempts' -> Tries']
    BY <1>0 DEF NoAttempts
  <2>3. crashes' \in 0..MaxCrashes /\ 0 \in 0..MaxTasks
    <3>1. {MaxTasks, MaxCrashes} \subseteq Nat /\ crashes \in 0..MaxCrashes
      BY OrchestratorAssumption DEF OrchestratorInv, TypeOK
    <3> QED
      BY <3>1, <1>0
  <2> QED
    BY <2>1, <2>2, <2>3, <1>0, <1>1 DEF OrchestratorInv, TypeOK
<1>3. Flights'
  BY <1>0, <1>1, FS_EmptySet DEF OrchestratorInv, Flights, Judging
<1>4. Separate'
  BY <1>0, <1>1 DEF OrchestratorInv, Separate, Distinct, Judging
<1>5. Queue' /\ Bare' /\ Alone'
  BY <1>0, <1>1 DEF Queue, Bare, Alone
<1>6. Merged' /\ Covered'
  BY <1>0, <1>1 DEF OrchestratorInv, Merged, Landed, Covered
<1> QED
  BY <1>2, <1>3, <1>4, <1>5, <1>6 DEF OrchestratorInv

LEMMA ScheduleStep == ASSUME OrchestratorInv, Schedule PROVE OrchestratorInv'
<1> DEFINE skipped == Doomed(pending, failed)
           ready == Picked(pending, Ready(skipped))
           ids == Chosen(ready)
<1>0. at = "top" /\ UNCHANGED <<disk, tree, isolated, known, done, scheduled, settling, crashes>>
  BY DEF Schedule
<1>a. TypeOK /\ Flights /\ Separate /\ Queue /\ Bare /\ Alone /\ Merged /\ Covered
  BY DEF OrchestratorInv
<1>b. settling = Nobody /\ DOMAIN attempts = inFlight
  BY <1>0, <1>a DEF Flights, Judging
<1>1. CASE /\ inFlight = {} /\ failed' = failed \cup IdsOf(pending)
           /\ pending' = <<>> /\ at' = "ended" /\ UNCHANGED <<inFlight, attempts, mergeChain>>
  <2>1. pending' \in Seq(Phases) /\ IdsOf(pending)' = {} /\ DOMAIN pending' = {}
    BY <1>1, EmptySeq DEF IdsOf
  <2>2. TypeOK'
    BY <2>1, <1>0, <1>1, <1>a DEF TypeOK, Tries, Waits
  <2>3. Flights'
    BY <2>1, <1>0, <1>1, <1>a, <1>b DEF Flights, Judging
  <2>4. Separate'
    BY <2>1, <1>0, <1>1, <1>a DEF Separate, Distinct, IdsOf, Judging
  <2>5. Queue' /\ Bare' /\ Alone'
    BY <1>0, <1>1, <1>a DEF Queue, Bare, Alone
  <2>6. Merged'
    BY <1>0, <1>1, <1>a DEF Merged, Landed
  <2>7. Covered'
    <3>1. IdsOf(disk.phases)' = IdsOf(disk.phases)
      BY <1>0 DEF IdsOf
    <3> QED
      BY <3>1, <2>1, <1>0, <1>1, <1>a DEF Covered, Judging
  <2> QED
    BY <2>2, <2>3, <2>4, <2>5, <2>6, <2>7 DEF OrchestratorInv
<1>2. CASE /\ failed' = failed \cup skipped /\ pending' = Without(pending, skipped \cup ToSet(ids))
           /\ inFlight' = inFlight \cup ToSet(ids) /\ Begin(ids) /\ at' = "race"
  <2>1. /\ ids \in Seq(IdsOf(pending))
        /\ \A i, j \in DOMAIN ids : ids[i] = ids[j] => i = j
        /\ ~isolated /\ inFlight = {} => \A i, j \in DOMAIN ids : i = j
    BY ChosenShape
  <2>2. skipped \subseteq IdsOf(pending) /\ IdsOf(pending) \subseteq known /\ IdsOf(pending) \subseteq Tasks
    <3>1. pending \in Seq(Phases) /\ IdsOf(pending) \subseteq known
      BY <1>a DEF TypeOK
    <3> QED
      BY <3>1, IdsAreTasks DEF Doomed
  <2> HIDE DEF skipped, ready, ids
  <2>3. ToSet(ids) \subseteq IdsOf(pending) /\ ids \in Seq(known')
    <3>1. \A i \in DOMAIN ids : ids[i] \in IdsOf(pending)
      BY <2>1, LenProperties, ElementOfSeq
    <3>2. ids \in Seq(known)
      BY <2>1, <2>2, SeqMonotonic
    <3> QED
      BY <3>1, <3>2, <1>0 DEF ToSet
  <2>4. IdsOf(pending) \cap inFlight = {} /\ IdsOf(pending) \cap done = {} /\ Distinct(pending)
    BY <1>a DEF Separate
  <2>5. \A i \in DOMAIN mergeChain : mergeChain[i].id \notin ToSet(ids)
    BY <2>3, <2>4, <1>a, <1>b DEF Queue
  <2>6. /\ DOMAIN attempts' = DOMAIN attempts \cup ToSet(ids)
        /\ attempts' \in [DOMAIN attempts' -> Tries'] /\ mergeChain' \in Seq(Waits')
        /\ Queue' /\ Landed' /\ Bare'
    <3>1. Landed /\ known \subseteq known' /\ UNCHANGED <<tree, isolated>>
      BY <1>0, <1>a DEF Merged
    <3> QED
      BY <3>1, <2>1, <2>3, <2>5, <1>2, <1>a, BeginKeeps
  <2>7. /\ pending' \in Seq(Phases) /\ Distinct(pending')
        /\ IdsOf(pending') = IdsOf(pending) \ (skipped \cup ToSet(ids))
    BY <2>4, <1>2, <1>a, WithoutShape DEF TypeOK
  <2>8. IdsOf(pending)' = IdsOf(pending) \ (skipped \cup ToSet(ids)) /\ Distinct(pending)'
    BY <2>7 DEF IdsOf, Distinct
  <2>9. IdsOf(disk.phases)' = IdsOf(disk.phases) /\ Distinct(disk.phases)' = Distinct(disk.phases)
    BY <1>0 DEF IdsOf, Distinct
  <2>10. TypeOK'
    BY <2>2, <2>3, <2>6, <2>7, <2>8, <1>0, <1>2, <1>a DEF TypeOK
  <2>11. Flights'
    BY <2>6, <1>0, <1>2, <1>a, <1>b DEF Flights, Judging
  <2>12. Separate'
    BY <2>3, <2>4, <2>6, <2>8, <2>9, <1>0, <1>2, <1>a, <1>b DEF Separate, Judging
  <2>13. Alone'
    <3> SUFFICES ASSUME ~isolated PROVE \A i, j \in inFlight' : i = j
      BY <1>0, <1>2 DEF Alone
    <3>1. inFlight = {}
      BY <1>0, <1>a DEF Alone
    <3>2. \A i, j \in DOMAIN ids : i = j
      BY <3>1, <2>1
    <3> QED
      BY <3>1, <3>2, <1>2 DEF ToSet
  <2>14. Merged'
    BY <2>6, <1>0, <1>2, <1>a DEF Merged
  <2>15. Covered'
    BY <2>8, <2>9, <1>0, <1>2, <1>a DEF Covered, Judging
  <2> QED
    BY <2>6, <2>10, <2>11, <2>12, <2>13, <2>14, <2>15 DEF OrchestratorInv
<1> QED
  BY <1>1, <1>2 DEF Schedule
-----------------------------------------------------------------------------
(* Steps that settle a task.                                                *)

Settling == [id : known \cup {NoOne}, kind : {"task", "link"}, tries : Nat, links : Nat, finds : BOOLEAN]

\* A task or a link is recorded as accepted while the task of id s is settled.
LEMMA Recorded ==
    ASSUME OrchestratorInv, at # "dead", NEW id \in known, Record(id), NEW s \in Tasks \cap known,
           settling' \in Settling, settling'.id = s,
           inFlight' \subseteq inFlight, s \notin inFlight', id \notin inFlight',
           DOMAIN attempts' = inFlight', attempts' \in [DOMAIN attempts' -> Tries'],
           mergeChain' \in Seq(Waits'), Queue', Landed', Bare',
           ~isolated => inFlight' = {},
           id \notin IdsOf(pending), s \notin IdsOf(pending),
           s \in done \cup {id} <=> settling'.kind = "task",
           settling'.kind = "link" => /\ scheduled + settling'.links <= MaxTasks
                                      /\ \E w \in tree : w[1] = s[1],
           \E w \in tree : w[1] = id[1],
           \A x \in IdsOf(disk.phases) :
               x \in done \cup failed \cup IdsOf(pending) \cup inFlight' \cup {id, s},
           UNCHANGED <<tree, isolated, pending, known, failed, scheduled, crashes>>
    PROVE  OrchestratorInv'
<1>0. /\ done' = done \cup {id} /\ disk' = [disk EXCEPT !.accepted = done'] /\ at' = "publish"
  BY DEF Record
<1>a. TypeOK /\ Flights /\ Separate /\ Merged
  BY DEF OrchestratorInv
<1>1. /\ disk \in [phases : Seq(Phases), accepted : SUBSET Ids] /\ done \subseteq known
      /\ known \subseteq Ids /\ done = disk.accepted
  BY <1>a DEF TypeOK, Separate
<1>2. /\ disk' \in [phases : Seq(Phases), accepted : SUBSET Ids]
      /\ disk'.phases = disk.phases /\ disk'.accepted = done \cup {id}
  BY <1>0, <1>1
<1>3. IdsOf(disk.phases)' = IdsOf(disk.phases) /\ Distinct(disk.phases)' = Distinct(disk.phases)
  BY <1>2 DEF IdsOf, Distinct
<1>4. IdsOf(pending)' = IdsOf(pending) /\ Distinct(pending)' = Distinct(pending)
  BY DEF IdsOf, Distinct
<1>5. TypeOK'
  BY <1>0, <1>1, <1>2, <1>4, <1>a DEF TypeOK, Settling
<1>6. Flights'
  <2>1. IsFiniteSet(disk'.accepted) /\ IsFiniteSet(known)
    <3>1. IsFiniteSet(done) /\ IsFiniteSet(known)
      BY <1>1, <1>a DEF Flights
    <3>2. IsFiniteSet(done \cup {id})
      BY <3>1, FS_AddElement
    <3> QED
      BY <3>1, <3>2, <1>2
  <2>2. settling'.id \in done' <=> settling'.kind = "task"
    BY <1>0
  <2>3. settling'.kind = "link" => scheduled' + settling'.links <= MaxTasks
    OBVIOUS
  <2> QED
    BY <2>1, <2>2, <2>3, <1>0 DEF Flights, Judging
<1>7. Separate'
  <2>1. /\ IdsOf(pending) \cap (done \cup inFlight) = {} /\ done \cap DOMAIN attempts = {}
        /\ inFlight \subseteq DOMAIN attempts
    BY <1>a DEF Separate, TypeOK
  <2>2. IdsOf(pending) \cap (done' \cup inFlight') = {} /\ done' \cap DOMAIN attempts' = {}
    BY <2>1, <1>0
  <2> QED
    BY <2>2, <1>0, <1>1, <1>2, <1>3, <1>4, <1>a DEF Separate, Judging
<1>8. Alone'
  BY <1>0 DEF Alone
<1>9. Merged'
  BY <1>0, <1>1, <1>2, <1>a DEF Merged
<1>10. Covered'
  BY <1>0, <1>2, <1>3, <1>4 DEF Covered, Judging
<1> QED
  BY <1>5, <1>6, <1>7, <1>8, <1>9, <1>10 DEF OrchestratorInv

\* The settled task has failed for good.
LEMMA GaveUp ==
    ASSUME OrchestratorInv, Judging, NEW also, also \subseteq known, GiveUp(also),
           settling.id \notin done,
           DOMAIN attempts' = inFlight, attempts' \in [DOMAIN attempts' -> Tries'],
           mergeChain' \in Seq(Waits'), Queue', Landed', Bare',
           UNCHANGED <<disk, tree, isolated, pending, known, done, scheduled, inFlight, crashes>>
    PROVE  OrchestratorInv'
<1>0. at' = "top" /\ settling' = Nobody /\ failed' = failed \cup {settling.id} \cup also
  BY DEF GiveUp
<1>a. TypeOK /\ Flights /\ Separate /\ Merged /\ Covered /\ Alone
  BY DEF OrchestratorInv
<1>1. at # "dead" /\ at # "ended" /\ at # "race" /\ settling.id \in known
  BY <1>a DEF Flights, Judging
<1>2. IdsOf(disk.phases)' = IdsOf(disk.phases) /\ Distinct(disk.phases)' = Distinct(disk.phases)
  BY DEF IdsOf, Distinct
<1>3. IdsOf(pending)' = IdsOf(pending) /\ Distinct(pending)' = Distinct(pending)
  BY DEF IdsOf, Distinct
<1>4. TypeOK'
  <2>1. settling' \in [id : known' \cup {NoOne}, kind : {"task", "link"}, tries : Nat, links : Nat,
                       finds : BOOLEAN]
    BY <1>0 DEF Nobody
  <2> QED
    BY <2>1, <1>0, <1>1, <1>3, <1>a DEF TypeOK
<1>5. Flights'
  BY <1>0, <1>3, <1>a DEF Flights, Judging
<1>6. Separate'
  <2>1. done \cap inFlight = {}
    BY <1>a DEF Separate, TypeOK
  <2> QED
    BY <2>1, <1>0, <1>1, <1>2, <1>3, <1>a DEF Separate, Judging
<1>7. Alone'
  BY <1>0, <1>1, <1>a DEF Alone
<1>8. Merged'
  BY <1>0, <1>a DEF Merged
<1>9. Covered'
  BY <1>0, <1>1, <1>2, <1>3, <1>a DEF Covered, Judging
<1> QED
  BY <1>4, <1>5, <1>6, <1>7, <1>8, <1>9 DEF OrchestratorInv

\* A link of the repair is scheduled and begun.
LEMMA LinkStarted ==
    ASSUME OrchestratorInv, at \in {"replan", "publish"}, StartLink, settling.id \notin done,
           settling' \in Settling, settling'.id = settling.id, settling'.kind = "link",
           settling'.links > 0, scheduled + settling'.links <= MaxTasks,
           UNCHANGED <<disk, tree, isolated, pending, done, failed, inFlight, crashes>>
    PROVE  OrchestratorInv'
<1> DEFINE link == NewLink(settling.id[1])
<1>0. /\ known' = known \cup {link} /\ scheduled' = scheduled + 1 /\ Begin(<<link>>)
      /\ at' = "chain"
  BY DEF StartLink
<1>a. TypeOK /\ Flights /\ Separate /\ Queue /\ Bare /\ Alone /\ Merged /\ Covered
  BY DEF OrchestratorInv
<1>b. /\ at # "dead" /\ at # "race" /\ Judging /\ settling.id \in Tasks \cap known
      /\ settling.id \notin inFlight /\ DOMAIN attempts = inFlight /\ IsFiniteSet(known)
  BY <1>a DEF Flights, Judging
<1>1. link \in Links /\ link[1] = settling.id[1] /\ link \notin known
  BY <1>b, NewLinkShape, TasksAreNoLinks
<1> HIDE DEF link
<1>2. ToSet(<<link>>) = {link} /\ <<link>> \in Seq(known')
  BY <1>0 DEF ToSet
<1>3. \A i, j \in DOMAIN <<link>> : <<link>>[i] = <<link>>[j] => i = j
  OBVIOUS
<1>4. \A i \in DOMAIN mergeChain : mergeChain[i].id \notin {link}
  BY <1>1, <1>a DEF Queue, TypeOK
<1>5. /\ DOMAIN attempts' = inFlight \cup {link}
      /\ attempts' \in [DOMAIN attempts' -> Tries'] /\ mergeChain' \in Seq(Waits')
      /\ Queue' /\ Landed' /\ Bare'
  <2>1. Landed /\ known \subseteq known' /\ UNCHANGED <<tree, isolated>>
    BY <1>0, <1>a DEF Merged
  <2>2. \A i \in DOMAIN mergeChain : mergeChain[i].id \notin ToSet(<<link>>)
    BY <1>2, <1>4
  <2> QED
    BY <2>1, <2>2, <1>0, <1>2, <1>3, <1>a, <1>b, BeginKeeps
<1>6. IdsOf(disk.phases)' = IdsOf(disk.phases) /\ Distinct(disk.phases)' = Distinct(disk.phases)
  BY DEF IdsOf, Distinct
<1>7. IdsOf(pending)' = IdsOf(pending) /\ Distinct(pending)' = Distinct(pending)
  BY DEF IdsOf, Distinct
<1>8. scheduled \in 0..MaxTasks /\ MaxTasks \in Nat /\ settling'.links \in Nat
  BY <1>a, OrchestratorAssumption DEF TypeOK, Settling
<1>9. scheduled' \in 0..MaxTasks /\ scheduled' + settling'.links <= MaxTasks + 1
  BY <1>0, <1>8
<1>10. TypeOK'
  <2>1. known' \subseteq Ids /\ done \subseteq known' /\ failed \subseteq known'
        /\ inFlight \subseteq known' \cap Tasks /\ DOMAIN attempts' \subseteq known'
    BY <1>0, <1>1, <1>5, <1>a DEF TypeOK, Ids
  <2> QED
    BY <2>1, <1>0, <1>5, <1>7, <1>9, <1>a DEF TypeOK, Settling
<1>11. Flights'
  <2>1. IsFiniteSet(known')
    BY <1>0, <1>b, FS_AddElement
  <2> QED
    BY <2>1, <1>0, <1>1, <1>5, <1>7, <1>9, <1>a, <1>b DEF Flights, Judging
<1>12. Separate'
  <2>1. done \cap (inFlight \cup {link}) = {}
    BY <1>1, <1>a, <1>b DEF Separate, TypeOK
  <2>2. Len(disk.phases) <= scheduled'
    <3>1. Len(disk.phases) \in Nat /\ Len(disk.phases) <= scheduled
      BY <1>a, <1>b, LenProperties DEF Separate, TypeOK
    <3> QED
      BY <3>1, <1>0, <1>8
  <2> QED
    BY <2>1, <2>2, <1>0, <1>5, <1>6, <1>7, <1>a, <1>b DEF Separate, Judging
<1>13. Alone'
  BY <1>0, <1>b, <1>a DEF Alone
<1>14. Merged'
  BY <1>0, <1>5, <1>a DEF Merged
<1>15. Covered'
  BY <1>0, <1>b, <1>6, <1>7, <1>a DEF Covered, Judging
<1> QED
  BY <1>5, <1>10, <1>11, <1>12, <1>13, <1>14, <1>15 DEF OrchestratorInv
\* A failed attempt leaves its task to be tried again or to be repaired.
JudgedAlone(id) == \/ at' = "retry" /\ DOMAIN attempts' = inFlight' \cup {id}
                   \/ at' = "replan" /\ DOMAIN attempts' = inFlight'
LEMMA Judged ==
    ASSUME OrchestratorInv, at # "dead", NEW id \in Tasks \cap known, JudgedAlone(id),
           settling' \in Settling, settling'.id = id, settling'.kind = "task",
           id \notin done, id \notin IdsOf(pending),
           inFlight' = inFlight \ {id}, ~isolated => inFlight' = {},
           attempts' \in [DOMAIN attempts' -> Tries'],
           mergeChain' \in Seq(Waits'), Queue', Landed', Bare',
           \A x \in IdsOf(disk.phases) :
               x \in done \cup failed \cup IdsOf(pending) \cup inFlight \cup {id},
           UNCHANGED <<disk, done, tree, isolated, pending, known, failed, scheduled, crashes>>
    PROVE  OrchestratorInv'
<1>a. TypeOK /\ Flights /\ Separate /\ Merged
  BY DEF OrchestratorInv
<1>1. /\ at' \in {"retry", "replan"} /\ inFlight' \subseteq DOMAIN attempts'
      /\ DOMAIN attempts' \subseteq inFlight \cup {id}
  BY DEF JudgedAlone
<1>2. inFlight \subseteq DOMAIN attempts /\ inFlight \subseteq known \cap Tasks
  BY <1>a DEF TypeOK
<1>3. IdsOf(disk.phases)' = IdsOf(disk.phases) /\ Distinct(disk.phases)' = Distinct(disk.phases)
  BY DEF IdsOf, Distinct
<1>4. IdsOf(pending)' = IdsOf(pending) /\ Distinct(pending)' = Distinct(pending)
  BY DEF IdsOf, Distinct
<1>5. TypeOK'
  <2>1. DOMAIN attempts' \subseteq known /\ inFlight' \subseteq known \cap Tasks
    BY <1>1, <1>2
  <2> QED
    BY <2>1, <1>1, <1>4, <1>a DEF TypeOK, Settling
<1>6. Flights'
  <2>1. IsFiniteSet(known) /\ IsFiniteSet(disk.accepted)
    BY <1>a DEF Flights
  <2> QED
    BY <2>1, <1>1 DEF Flights, Judging, JudgedAlone
<1>7. Separate'
  <2>1. /\ done \cap DOMAIN attempts' = {} /\ IdsOf(pending) \cap (done \cup inFlight') = {}
    BY <1>1, <1>2, <1>a DEF Separate
  <2> QED
    BY <2>1, <1>1, <1>3, <1>4, <1>a DEF Separate, Judging
<1>8. Alone'
  BY DEF Alone
<1>9. Merged'
  BY <1>1, <1>a DEF Merged
<1>10. Covered'
  BY <1>1, <1>3, <1>4 DEF Covered, Judging
<1> QED
  BY <1>5, <1>6, <1>7, <1>8, <1>9, <1>10 DEF OrchestratorInv

LEMMA JudgeStep ==
    ASSUME OrchestratorInv, at \in {"race", "retry"},
           NEW id \in Tasks \cap known, NEW tries \in Nat, Judge(id, tries),
           id \in DOMAIN attempts, attempts[id].at = "over",
           id \notin done, id \notin IdsOf(pending), DOMAIN attempts = inFlight \cup {id},
           inFlight' = inFlight \ {id}, ~isolated => inFlight' = {},
           \A x \in IdsOf(disk.phases) :
               x \in done \cup failed \cup IdsOf(pending) \cup inFlight \cup {id},
           UNCHANGED <<tree, isolated, pending, known, failed, scheduled, crashes>>
    PROVE  OrchestratorInv'
<1>a. TypeOK /\ Flights /\ Separate /\ Queue /\ Bare /\ Merged /\ Landed
  BY DEF OrchestratorInv, Merged
<1>1. attempts[id] \in Tries
  BY <1>a DEF TypeOK
<1>2. settling' = [id |-> id, kind |-> "task", tries |-> tries, links |-> 0, finds |-> attempts[id].finds]
  BY DEF Judge, Nobody
<1>3. settling' \in Settling
  BY <1>1, <1>2 DEF Settling, Tries
<1>4. /\ settling'.id = id /\ settling'.kind = "task"
  BY <1>2
<1>5. DOMAIN attempts \ {id} = inFlight'
  OBVIOUS
<1>6. CASE /\ attempts[id].ok /\ Record(id) /\ attempts' = Dropped(id) /\ UNCHANGED mergeChain
  <2>1. /\ DOMAIN attempts' = inFlight'
        /\ attempts' \in [DOMAIN attempts' -> Tries'] /\ mergeChain' \in Seq(Waits')
        /\ Queue' /\ Landed' /\ Bare'
    BY <1>5, <1>6, <1>a, DropKeeps
  <2>2. \E w \in tree : w[1] = id[1]
    BY <1>6, <1>a DEF Landed
  <2>3. \A x \in IdsOf(disk.phases) :
           x \in done \cup failed \cup IdsOf(pending) \cup inFlight' \cup {id, id}
    OBVIOUS
  <2> QED
    BY <2>1, <2>2, <2>3, <1>3, <1>4, <1>6, Recorded
<1>7. CASE ~attempts[id].ok /\ at' = "retry" /\ Begin(<<id>>) /\ UNCHANGED <<disk, done>>
  <2>1. ToSet(<<id>>) = {id} /\ <<id>> \in Seq(known')
    BY DEF ToSet
  <2>2. \A i \in DOMAIN mergeChain : mergeChain[i].id \notin ToSet(<<id>>)
    BY <2>1, <1>a DEF Queue
  <2>3. \A i, j \in DOMAIN <<id>> : <<id>>[i] = <<id>>[j] => i = j
    OBVIOUS
  <2>4. /\ DOMAIN attempts' = inFlight' \cup {id}
        /\ attempts' \in [DOMAIN attempts' -> Tries'] /\ mergeChain' \in Seq(Waits')
        /\ Queue' /\ Landed' /\ Bare'
    BY <2>1, <2>2, <2>3, <1>7, <1>a, BeginKeeps
  <2>5. JudgedAlone(id)
    BY <2>4, <1>4, <1>7 DEF JudgedAlone
  <2> QED
    BY <2>4, <2>5, <1>3, <1>4, <1>7, Judged
<1>8. CASE ~attempts[id].ok /\ at' = "replan" /\ attempts' = Dropped(id) /\ UNCHANGED <<disk, done, mergeChain>>
  <2>1. /\ DOMAIN attempts' = inFlight'
        /\ attempts' \in [DOMAIN attempts' -> Tries'] /\ mergeChain' \in Seq(Waits')
        /\ Queue' /\ Landed' /\ Bare'
    BY <1>5, <1>8, <1>a, DropKeeps
  <2>5. JudgedAlone(id)
    BY <2>1, <1>4, <1>8 DEF JudgedAlone
  <2> QED
    BY <2>1, <2>5, <1>3, <1>4, <1>8, Judged
<1> QED
  BY <1>6, <1>7, <1>8 DEF Judge

LEMMA SettleStep == ASSUME OrchestratorInv, Settle PROVE OrchestratorInv'
<1>0. at = "race" /\ UNCHANGED <<tree, isolated, pending, known, failed, scheduled, crashes>>
  BY DEF Settle
<1>a. TypeOK /\ Flights /\ Separate /\ Alone /\ Covered
  BY DEF OrchestratorInv
<1>1. PICK id \in inFlight : attempts[id].at = "over" /\ inFlight' = inFlight \ {id} /\ Judge(id, 1)
  BY DEF Settle
<1>2. DOMAIN attempts = inFlight /\ id \in Tasks \cap known
  BY <1>0, <1>a DEF Flights, TypeOK
<1>3. id \notin done /\ id \notin IdsOf(pending)
  BY <1>2, <1>a DEF Separate
<1>4. ~isolated => inFlight' = {}
  BY <1>1, <1>a DEF Alone
<1>5. \A x \in IdsOf(disk.phases) :
         x \in done \cup failed \cup IdsOf(pending) \cup inFlight \cup {id}
  BY <1>0, <1>a DEF Covered, Judging
<1> QED
  BY <1>0, <1>1, <1>2, <1>3, <1>4, <1>5, JudgeStep

LEMMA RetriedStep == ASSUME OrchestratorInv, Retried PROVE OrchestratorInv'
<1> DEFINE id == settling.id
<1>0. /\ at = "retry" /\ attempts[id].at = "over" /\ Judge(id, settling.tries + 1)
      /\ UNCHANGED <<tree, isolated, pending, known, failed, scheduled, inFlight, crashes>>
  BY DEF Retried
<1>a. TypeOK /\ Flights /\ Separate /\ Alone /\ Covered
  BY DEF OrchestratorInv
<1>1. /\ DOMAIN attempts = inFlight \cup {id} /\ id \in Tasks \cap known /\ id \notin inFlight
  BY <1>0, <1>a DEF Flights, Judging
<1>2. settling.tries + 1 \in Nat
  BY <1>a DEF TypeOK
<1>3. id \notin done /\ id \notin IdsOf(pending)
  BY <1>0, <1>1, <1>a DEF Separate, Judging
<1>4. inFlight' = inFlight \ {id} /\ (~isolated => inFlight' = {})
  BY <1>0, <1>1, <1>a DEF Alone
<1>5. \A x \in IdsOf(disk.phases) :
         x \in done \cup failed \cup IdsOf(pending) \cup inFlight \cup {id}
  BY <1>0, <1>a DEF Covered
<1> HIDE DEF id
<1> QED
  BY <1>0, <1>1, <1>2, <1>3, <1>4, <1>5, JudgeStep
LEMMA ReplanStep == ASSUME OrchestratorInv, Replan PROVE OrchestratorInv'
<1>0. at = "replan" /\ UNCHANGED <<disk, tree, isolated, pending, done, inFlight, crashes>>
  BY DEF Replan
<1>a. TypeOK /\ Flights /\ Queue /\ Bare /\ Landed
  BY DEF OrchestratorInv, Merged
<1>b. Judging /\ settling.id \notin done /\ DOMAIN attempts = inFlight
  BY <1>0, <1>a DEF Flights, Judging
<1>1. CASE GiveUp({}) /\ UNCHANGED <<known, scheduled, attempts, mergeChain>>
  <2>1. /\ DOMAIN attempts' = inFlight /\ attempts' \in [DOMAIN attempts' -> Tries']
        /\ mergeChain' \in Seq(Waits') /\ Queue' /\ Landed' /\ Bare'
    BY <1>0, <1>1, <1>a, <1>b DEF TypeOK, Tries, Waits, Queue, Landed, Bare
  <2> QED
    BY <2>1, <1>0, <1>1, <1>b, GaveUp
<1>2. ASSUME NEW n \in 0..MaxChain, ~(n = 0 \/ scheduled + n > MaxTasks),
             settling' = [settling EXCEPT !.links = n, !.kind = "link"], StartLink, UNCHANGED failed
      PROVE OrchestratorInv'
  <2>1. n \in Nat /\ n > 0 /\ scheduled + n <= MaxTasks
    <3>1. scheduled \in 0..MaxTasks /\ MaxTasks \in Nat /\ MaxChain \in Nat
      BY <1>a, OrchestratorAssumption DEF TypeOK
    <3> QED
      BY <3>1, <1>2
  <2>2. settling \in Settling
    BY <1>a DEF TypeOK, Settling
  <2>3. /\ settling' \in Settling /\ settling'.id = settling.id /\ settling'.kind = "link"
        /\ settling'.links = n
    BY <2>1, <2>2, <1>2 DEF Settling
  <2>4. settling'.links > 0 /\ scheduled + settling'.links <= MaxTasks
    BY <2>1, <2>3
  <2> QED
    BY <2>3, <2>4, <1>0, <1>2, <1>b, LinkStarted
<1> QED
  BY <1>1, <1>2 DEF Replan

LEMMA LinkedStep == ASSUME OrchestratorInv, Linked PROVE OrchestratorInv'
<1>0. /\ at = "chain"
      /\ UNCHANGED <<tree, isolated, pending, known, scheduled, inFlight, mergeChain, crashes>>
  BY DEF Linked
<1>a. TypeOK /\ Flights /\ Separate /\ Queue /\ Bare /\ Alone /\ Merged /\ Landed /\ Covered
  BY DEF OrchestratorInv, Merged
<1>1. PICK link \in DOMAIN attempts \ inFlight :
         /\ attempts[link].at = "over"
         /\ attempts' = Dropped(link)
         /\ IF attempts[link].ok
            THEN /\ settling' = [settling EXCEPT !.links = @ - 1]
                 /\ Record(link) /\ UNCHANGED failed
            ELSE UNCHANGED <<done, disk>> /\ GiveUp({link})
  BY DEF Linked
<1>2. /\ link \in Links \cap known /\ link[1] = settling.id[1] /\ DOMAIN attempts = inFlight \cup {link}
  <2>1. PICK l \in DOMAIN attempts : /\ l \in Links /\ l[1] = settling.id[1]
                                    /\ DOMAIN attempts = inFlight \cup {l}
    BY <1>0, <1>a DEF Flights
  <2>2. l = link /\ DOMAIN attempts \subseteq known
    BY <2>1, <1>1, <1>a DEF TypeOK
  <2> QED
    BY <2>1, <2>2, <1>1
<1>3. /\ Judging /\ settling.id \in Tasks \cap known /\ settling.id \notin inFlight
      /\ settling.id \notin done /\ settling.id \notin IdsOf(pending)
  BY <1>0, <1>a DEF Flights, Separate, Judging
<1>4. settling.kind = "link" /\ settling.links > 0 /\ scheduled + settling.links <= MaxTasks + 1
  BY <1>0, <1>a DEF Flights
<1>5. IdsOf(pending) \subseteq Tasks /\ Tasks \cap Links = {}
  BY <1>a, IdsAreTasks, TasksAreNoLinks DEF TypeOK
<1>6. /\ DOMAIN attempts' = inFlight
      /\ attempts' \in [DOMAIN attempts' -> Tries'] /\ mergeChain' \in Seq(Waits')
      /\ Queue' /\ Landed' /\ Bare'
  <2>1. DOMAIN attempts \ {link} = inFlight
    BY <1>2
  <2> QED
    BY <2>1, <1>0, <1>1, <1>a, DropKeeps
<1>7. CASE /\ attempts[link].ok /\ settling' = [settling EXCEPT !.links = @ - 1]
           /\ Record(link) /\ UNCHANGED failed
  <2>1. /\ settling \in Settling /\ settling.links \in Nat /\ scheduled \in 0..MaxTasks
        /\ MaxTasks \in Nat
    BY <1>a, OrchestratorAssumption DEF TypeOK, Settling
  <2>2. settling.links - 1 \in Nat /\ scheduled + (settling.links - 1) <= MaxTasks
    BY <2>1, <1>4
  <2>3. /\ settling' \in Settling /\ settling'.id = settling.id /\ settling'.kind = "link"
        /\ settling'.links = settling.links - 1
    BY <2>1, <2>2, <1>4, <1>7 DEF Settling
  <2>4. \E w \in tree : w[1] = link[1]
    BY <1>1, <1>7, <1>a DEF Landed
  <2>5. settling.id \notin done \cup {link} /\ link \notin IdsOf(pending)
    BY <1>2, <1>3, <1>5
  <2>6. \A x \in IdsOf(disk.phases) :
           x \in done \cup failed \cup IdsOf(pending) \cup inFlight' \cup {link, settling.id}
    BY <1>0, <1>a DEF Covered
  <2>7. ~isolated => inFlight' = {}
    BY <1>0, <1>a DEF Alone
  <2>8. at # "dead" /\ settling.id \notin inFlight' /\ link \notin inFlight' /\ inFlight' \subseteq inFlight
    BY <1>0, <1>1, <1>3
  <2>9. settling.id \in done \cup {link} <=> settling'.kind = "task"
    BY <2>3, <2>5
  <2>10. settling'.kind = "link" => /\ scheduled + settling'.links <= MaxTasks
                                   /\ \E w \in tree : w[1] = settling.id[1]
    BY <2>2, <2>3, <2>4, <1>2
  <2>11. DOMAIN attempts' = inFlight'
    BY <1>0, <1>6
  <2> QED
    BY <2>3, <2>4, <2>5, <2>6, <2>7, <2>8, <2>9, <2>10, <2>11, <1>0, <1>2, <1>3, <1>6, <1>7, Recorded
<1>8. CASE UNCHANGED <<done, disk>> /\ GiveUp({link})
  <2>1. {link} \subseteq known
    BY <1>2
  <2> QED
    BY <2>1, <1>0, <1>3, <1>6, <1>8, GaveUp
<1> QED
  BY <1>1, <1>7, <1>8

\* What the accepted task has discovered is new to this process.
LEMMA FreshShape ==
    ASSUME OrchestratorInv, at = "publish"
    PROVE  /\ Fresh \in Seq(Phases) /\ Distinct(Fresh) /\ IdsOf(Fresh) \cap known = {}
<1>1. settling.id \in Tasks
  BY DEF OrchestratorInv, Flights, Judging
<1>2. settling.id[1] \in DOMAIN Deps
  BY <1>1, TasksAreNoLinks
<1>3. CASE settling.finds
  <2>1. NewTasks(settling.id[1]) \in Seq(Phases) /\ Distinct(NewTasks(settling.id[1]))
    BY <1>2, NewTasksShape
  <2>2. Fresh = Without(NewTasks(settling.id[1]), known)
    BY <1>3 DEF Fresh
  <2> QED
    BY <2>1, <2>2, WithoutShape
<1>4. CASE ~settling.finds
  <2>1. Fresh = <<>>
    BY <1>4 DEF Fresh
  <2>2. DOMAIN Fresh = {}
    BY <2>1
  <2> QED
    BY <2>1, <2>2, EmptySeq DEF Distinct, IdsOf
<1> QED
  BY <1>3, <1>4
\* The settlement ends with the plan grown by the tasks of the ids F, or by none.
LEMMA Folded ==
    ASSUME OrchestratorInv, at = "publish", settling.kind = "task", at' = "top", settling' = Nobody,
           UNCHANGED <<tree, isolated, done, failed, inFlight, attempts, mergeChain, crashes>>,
           NEW F \in SUBSET Tasks, IsFiniteSet(F), F \cap known = {}, known' = known \cup F,
           pending' \in Seq(Phases), Distinct(pending'), IdsOf(pending') = IdsOf(pending) \cup F,
           scheduled' \in 0..MaxTasks,
           disk' \in [phases : Seq(Phases), accepted : SUBSET Ids],
           disk'.accepted = disk.accepted, Distinct(disk'.phases),
           IdsOf(disk'.phases) \subseteq IdsOf(disk.phases) \cup F,
           Len(disk'.phases) <= scheduled', Len(disk'.phases) <= MaxTasks,
           Len(disk'.phases) <= MaxPersisted
    PROVE  OrchestratorInv'
<1>a. TypeOK /\ Flights /\ Separate /\ Queue /\ Bare /\ Alone /\ Merged /\ Covered
  BY DEF OrchestratorInv
<1>b. Judging /\ settling.id \in done /\ DOMAIN attempts = inFlight
  BY <1>a DEF Flights, Judging
<1>1. IdsOf(disk.phases)' = IdsOf(disk'.phases) /\ Distinct(disk.phases)' = Distinct(disk'.phases)
  BY DEF IdsOf, Distinct
<1>2. IdsOf(pending)' = IdsOf(pending) \cup F /\ Distinct(pending)'
  BY DEF IdsOf, Distinct
<1>3. /\ done \subseteq known /\ failed \subseteq known /\ inFlight \subseteq known \cap Tasks
      /\ inFlight \subseteq DOMAIN attempts /\ DOMAIN attempts \subseteq known /\ known \subseteq Ids
      /\ IdsOf(pending) \subseteq known
  BY <1>a DEF TypeOK
<1>4. mergeChain \in Seq(Waits')
  <2>1. Waits \subseteq Waits'
    BY DEF Waits
  <2> QED
    BY <2>1, <1>a, SeqMonotonic DEF TypeOK
<1>5. TypeOK'
  <2>1. settling' \in [id : known' \cup {NoOne}, kind : {"task", "link"}, tries : Nat, links : Nat,
                       finds : BOOLEAN]
    BY DEF Nobody
  <2>2. /\ known' \subseteq Ids /\ done \subseteq known' /\ failed \subseteq known'
        /\ inFlight \subseteq known' \cap Tasks /\ DOMAIN attempts \subseteq known'
        /\ IdsOf(pending)' \subseteq known'
    BY <1>2, <1>3 DEF Ids
  <2>3. attempts' \in [DOMAIN attempts' -> Tries']
    BY <1>a DEF TypeOK, Tries
  <2> QED
    BY <2>1, <2>2, <2>3, <1>3, <1>4, <1>a DEF TypeOK
<1>6. Flights'
  <2>1. IsFiniteSet(known') /\ IsFiniteSet(disk'.accepted)
    <3>1. IsFiniteSet(known) /\ IsFiniteSet(disk.accepted)
      BY <1>a DEF Flights
    <3>2. IsFiniteSet(known \cup F)
      BY <3>1, FS_Union
    <3> QED
      BY <3>1, <3>2
  <2> QED
    BY <2>1, <1>b DEF Flights, Judging
<1>7. Separate'
  <2>1. /\ done = disk.accepted /\ IdsOf(disk.phases) \subseteq known
        /\ IdsOf(pending) \cap (done \cup inFlight) = {} /\ done \cap DOMAIN attempts = {}
    BY <1>a DEF Separate
  <2>2. F \cap (done \cup inFlight) = {}
    BY <1>3
  <2>3. /\ (IdsOf(pending) \cup F) \cap (done \cup inFlight) = {}
        /\ IdsOf(disk'.phases) \subseteq known'
    BY <2>1, <2>2
  <2> QED
    BY <2>1, <2>3, <1>1, <1>2 DEF Separate, Judging
<1>8. Queue' /\ Bare' /\ Alone'
  BY <1>a DEF Queue, Bare, Alone
<1>9. Merged'
  BY <1>a DEF Merged, Landed
<1>10. Covered'
  <2>1. \A x \in IdsOf(disk.phases) : x \in done \cup failed \cup IdsOf(pending) \cup inFlight
    BY <1>a, <1>b DEF Covered
  <2>2. \A x \in IdsOf(disk'.phases) :
           x \in done \cup failed \cup (IdsOf(pending) \cup F) \cup inFlight
    BY <2>1
  <2> QED
    BY <2>2, <1>1, <1>2 DEF Covered
<1> QED
  BY <1>5, <1>6, <1>7, <1>8, <1>9, <1>10 DEF OrchestratorInv

LEMMA PublishedStep == ASSUME OrchestratorInv, Published PROVE OrchestratorInv'
<1>0. at = "publish" /\ UNCHANGED <<tree, isolated, failed, inFlight, crashes>>
  BY DEF Published
<1>a. TypeOK /\ Flights /\ Separate /\ Queue /\ Bare /\ Alone /\ Merged /\ Covered
  BY DEF OrchestratorInv
<1>b. /\ Judging /\ settling.id \in Tasks \cap known /\ settling.id \notin inFlight
      /\ settling.id \notin IdsOf(pending) /\ DOMAIN attempts = inFlight
  BY <1>0, <1>a DEF Flights, Separate, Judging
<1>c. /\ settling \in Settling /\ settling.links \in Nat /\ scheduled \in 0..MaxTasks
      /\ MaxTasks \in Nat /\ MaxPersisted \in Nat
  BY <1>a, OrchestratorAssumption DEF TypeOK, Settling
<1>1. CASE /\ settling.kind = "link" /\ settling.links > 0 /\ StartLink
           /\ UNCHANGED <<disk, pending, done, settling>>
  <2>1. settling.id \notin done /\ scheduled + settling.links <= MaxTasks
    BY <1>0, <1>1, <1>a, <1>b DEF Flights
  <2>2. /\ settling' \in Settling' /\ settling'.id = settling.id /\ settling'.kind = "link"
        /\ settling'.links > 0 /\ scheduled + settling'.links <= MaxTasks
    BY <2>1, <1>1, <1>c DEF Settling, StartLink
  <2>3. settling' \in Settling
    BY <1>1, <1>c
  <2> QED
    BY <2>1, <2>2, <2>3, <1>0, <1>1, LinkStarted
<1>2. CASE /\ settling.kind = "link" /\ settling.links = 0
           /\ settling' = [settling EXCEPT !.kind = "task"] /\ Record(settling.id)
           /\ UNCHANGED <<pending, known, scheduled, attempts, mergeChain>>
  <2>1. settling' \in Settling /\ settling'.id = settling.id /\ settling'.kind = "task"
    BY <1>2, <1>c DEF Settling
  <2>2. \E w \in tree : w[1] = settling.id[1]
    BY <1>0, <1>2, <1>a DEF Merged
  <2>3. \A x \in IdsOf(disk.phases) :
           x \in done \cup failed \cup IdsOf(pending) \cup inFlight' \cup {settling.id, settling.id}
    BY <1>0, <1>a DEF Covered
  <2>4. ~isolated => inFlight' = {}
    BY <1>0, <1>a DEF Alone
  <2>5. /\ DOMAIN attempts' = inFlight' /\ attempts' \in [DOMAIN attempts' -> Tries']
        /\ mergeChain' \in Seq(Waits') /\ Queue' /\ Landed' /\ Bare'
    BY <1>0, <1>2, <1>a, <1>b DEF TypeOK, Tries, Waits, Queue, Merged, Landed, Bare
  <2>6. at # "dead" /\ inFlight' \subseteq inFlight /\ settling.id \notin inFlight'
    BY <1>0, <1>b
  <2> QED
    BY <2>1, <2>2, <2>3, <2>4, <2>5, <2>6, <1>0, <1>2, <1>b, Recorded
<1>3. CASE /\ settling.kind = "task" /\ at' = "top" /\ settling' = Nobody
           /\ UNCHANGED <<done, attempts, mergeChain>>
           /\ UNCHANGED <<known, scheduled, pending, disk>>
  <2>1. /\ disk \in [phases : Seq(Phases), accepted : SUBSET Ids] /\ pending \in Seq(Phases)
        /\ Distinct(pending) /\ Distinct(disk.phases) /\ Len(disk.phases) <= MaxPersisted
        /\ Len(disk.phases) <= scheduled /\ Len(disk.phases) <= MaxTasks
    BY <1>0, <1>a DEF TypeOK, Separate
  <2>2. IsFiniteSet({})
    BY FS_EmptySet
  <2>3. {} \in SUBSET Tasks /\ {} \cap known = {} /\ known' = known \cup {}
        /\ IdsOf(pending') = IdsOf(pending) \cup {}
        /\ IdsOf(disk'.phases) \subseteq IdsOf(disk.phases) \cup {}
    BY <1>3
  <2> QED
    BY <2>1, <2>2, <2>3, <1>0, <1>3, <1>c, Folded
<1>4. CASE /\ settling.kind = "task" /\ at' = "top" /\ settling' = Nobody
           /\ UNCHANGED <<done, attempts, mergeChain>>
           /\ scheduled + Len(Fresh) <= MaxTasks
           /\ known' = known \cup IdsOf(Fresh)
           /\ scheduled' = scheduled + Len(Fresh)
           /\ pending' = Resorted(pending \o Fresh, known')
           /\ disk' = [disk EXCEPT !.phases =
                         LET all == @ \o Fresh
                         IN  SubSeq(all, 1, IF Len(all) < MaxPersisted THEN Len(all) ELSE MaxPersisted)]
  <2>1. Fresh \in Seq(Phases) /\ Distinct(Fresh) /\ IdsOf(Fresh) \cap known = {}
    BY <1>0, FreshShape
  <2>2. IdsOf(Fresh) \in SUBSET Tasks /\ IsFiniteSet(IdsOf(Fresh)) /\ Len(Fresh) \in Nat
    BY <2>1, IdsAreTasks, IdsFinite, LenProperties
  <2>3. /\ disk \in [phases : Seq(Phases), accepted : SUBSET Ids] /\ pending \in Seq(Phases)
        /\ Distinct(pending) /\ Distinct(disk.phases) /\ disk.phases \in Seq(Phases)
        /\ Len(disk.phases) <= scheduled
        /\ IdsOf(pending) \subseteq known /\ IdsOf(disk.phases) \subseteq known
    BY <1>0, <1>a DEF TypeOK, Separate
  <2>4. IdsOf(pending) \cap IdsOf(Fresh) = {} /\ IdsOf(disk.phases) \cap IdsOf(Fresh) = {}
    BY <2>1, <2>3
  <2>5. /\ pending \o Fresh \in Seq(Phases) /\ Distinct(pending \o Fresh)
        /\ IdsOf(pending \o Fresh) = IdsOf(pending) \cup IdsOf(Fresh)
    BY <2>1, <2>3, <2>4, ConcatShape
  <2>6. /\ pending' \in Seq(Phases) /\ Distinct(pending')
        /\ IdsOf(pending') = IdsOf(pending) \cup IdsOf(Fresh)
    BY <2>5, <1>4, ResortShape
  <2> DEFINE all == disk.phases \o Fresh
             k == IF Len(all) < MaxPersisted THEN Len(all) ELSE MaxPersisted
  <2>7. /\ all \in Seq(Phases) /\ Distinct(all) /\ Len(all) = Len(disk.phases) + Len(Fresh)
        /\ IdsOf(all) = IdsOf(disk.phases) \cup IdsOf(Fresh)
    BY <2>1, <2>3, <2>4, ConcatShape
  <2>8. disk' = [disk EXCEPT !.phases = SubSeq(all, 1, k)]
    BY <1>4
  <2> HIDE DEF all
  <2>9. Len(disk.phases) \in Nat /\ Len(all) \in Nat
    BY <2>3, <2>7, LenProperties
  <2>10. k \in Nat /\ k <= Len(all) /\ k <= MaxPersisted
    BY <2>9, <1>c
  <2> HIDE DEF k
  <2>11. /\ SubSeq(all, 1, k) \in Seq(Phases) /\ Len(SubSeq(all, 1, k)) = k
         /\ Distinct(SubSeq(all, 1, k)) /\ IdsOf(SubSeq(all, 1, k)) \subseteq IdsOf(all)
    BY <2>7, <2>10, PrefixShape
  <2>12. /\ disk' \in [phases : Seq(Phases), accepted : SUBSET Ids]
         /\ disk'.phases = SubSeq(all, 1, k) /\ disk'.accepted = disk.accepted
    BY <2>3, <2>8, <2>11
  <2>13. scheduled' \in 0..MaxTasks /\ k <= scheduled' /\ k <= MaxTasks
    BY <2>2, <2>3, <2>7, <2>9, <2>10, <1>4, <1>c
  <2>14. /\ Len(disk'.phases) <= scheduled' /\ Len(disk'.phases) <= MaxTasks
         /\ Len(disk'.phases) <= MaxPersisted /\ Distinct(disk'.phases)
         /\ IdsOf(disk'.phases) \subseteq IdsOf(disk.phases) \cup IdsOf(Fresh)
    BY <2>7, <2>10, <2>11, <2>12, <2>13
  <2> QED
    BY <2>1, <2>2, <2>6, <2>12, <2>13, <2>14, <1>0, <1>4, Folded
<1> QED
  BY <1>0, <1>1, <1>2, <1>3, <1>4 DEF Published
-----------------------------------------------------------------------------
(* The theorems.                                                            *)

LEMMA OrchestratorStep == ASSUME OrchestratorInv, [Next]_vars PROVE OrchestratorInv'
<1>1. CASE Start
  BY <1>1, StartStep
<1>2. CASE Schedule
  BY <1>2, ScheduleStep
<1>3. CASE Settle
  BY <1>3, SettleStep
<1>4. CASE Retried
  BY <1>4, RetriedStep
<1>5. CASE Replan
  BY <1>5, ReplanStep
<1>6. CASE Linked
  BY <1>6, LinkedStep
<1>7. CASE Published
  BY <1>7, PublishedStep
<1>8. CASE Acquire
  BY <1>8, AcquireStep
<1>9. CASE EnterTree
  BY <1>9, EnterTreeStep
<1>10. CASE MergeBack
  BY <1>10, MergeBackStep
<1>11. CASE Cleanup
  BY <1>11, CleanupStep
<1>12. CASE Crash
  BY <1>12, CrashStep
<1>13. CASE \E id \in DOMAIN attempts : LeaveTree(id)
  BY <1>13, LeaveTreeStep
<1>14. CASE \E id \in DOMAIN attempts : FinishRun(id)
  BY <1>14, FinishRunStep
<1>15. CASE UNCHANGED vars
  <2>1. UNCHANGED <<disk, tree, isolated, at, pending, known, done, failed, scheduled, inFlight,
                    settling, attempts, mergeChain, crashes>>
    BY <1>15 DEF vars, memory
  <2>2. TypeOK' /\ Queue' /\ Bare' /\ Alone' /\ Merged'
    BY <2>1 DEF OrchestratorInv, TypeOK, Tries, Waits, IdsOf, Queue, Bare, Alone, Merged, Landed
  <2>3. Flights'
    BY <2>1 DEF OrchestratorInv, Flights, IdsOf, Judging
  <2>4. Separate' /\ Covered'
    BY <2>1 DEF OrchestratorInv, Separate, Distinct, Covered, IdsOf, Judging
  <2> QED
    BY <2>2, <2>3, <2>4 DEF OrchestratorInv
<1> QED
  BY <1>1, <1>2, <1>3, <1>4, <1>5, <1>6, <1>7, <1>8, <1>9, <1>10, <1>11, <1>12, <1>13, <1>14, <1>15
     DEF Next, Loop, Locked, Work

\* The scheduler, its attempts, the queue for the merge lock and the state file
\* stay consistent, whatever plan they start from, however attempts end and
\* whenever a process dies.
THEOREM OrchestratorInvariant == Spec => []OrchestratorInv
<1>1. Init => OrchestratorInv
  BY OrchestratorInitial
<1>2. OrchestratorInv /\ [Next]_vars => OrchestratorInv'
  BY OrchestratorStep
<1> QED
  BY <1>1, <1>2, PTL DEF Spec

\* State keeps its type, the ids scheduled by a process and the phases
\* persisted stay within their caps, and no attempt starts from work that is not
\* in the main tree.
THEOREM OrchestratorTypeCorrect == Spec => []TypeOK
<1>1. OrchestratorInv => TypeOK
  BY DEF OrchestratorInv
<1> QED
  BY <1>1, OrchestratorInvariant, PTL

\* recordSuccess and the resumed orchestrate: no id recorded as accepted is
\* attempted again, and a mission that ends without a failure has accepted
\* every phase of the file, with the work of each in the main tree.
THEOREM AcceptedKeptHolds == Spec => []AcceptedKept
<1>1. OrchestratorInv => AcceptedKept
  <2> SUFFICES ASSUME OrchestratorInv PROVE AcceptedKept
    OBVIOUS
  <2>1. AcceptedNotRedone
    <3>1. CASE at = "dead"
      BY <3>1 DEF OrchestratorInv, Flights, AcceptedNotRedone
    <3>2. CASE at # "dead"
      BY <3>2 DEF OrchestratorInv, Separate, AcceptedNotRedone
    <3> QED
      BY <3>1, <3>2
  <2>2. SuccessIsComplete
    <3> SUFFICES ASSUME at = "ended", failed = {}, NEW id \in IdsOf(disk.phases)
                 PROVE  id \in disk.accepted /\ \E w \in tree : w[1] = id[1]
      BY DEF SuccessIsComplete
    <3>1. id \in done /\ done = disk.accepted
      BY DEF OrchestratorInv, Covered, Flights, Separate, Judging
    <3> QED
      BY <3>1 DEF OrchestratorInv, Merged
  <2> QED
    BY <2>1, <2>2 DEF AcceptedKept
<1> QED
  BY <1>1, OrchestratorInvariant, PTL

\* Two attempts are never in the main tree at once: with worktrees the one that
\* is there heads the queue of the lock, without them it is the only one.
LEMMA OneEditor ==
    ASSUME OrchestratorInv, NEW i \in DOMAIN attempts, NEW j \in DOMAIN attempts,
           attempts[i].at = "tree", attempts[j].at = "tree"
    PROVE  i = j
<1>1. CASE isolated
  <2>1. Head(mergeChain) = [id |-> i, op |-> "tree"] /\ Head(mergeChain) = [id |-> j, op |-> "tree"]
    BY <1>1 DEF OrchestratorInv, Queue
  <2> QED
    BY <2>1
<1>2. CASE ~isolated
  <2>1. \A x, y \in inFlight : x = y
    BY <1>2 DEF OrchestratorInv, Alone
  <2>2. at # "race" => inFlight = {}
    BY <1>2 DEF OrchestratorInv, Alone
  <2>3. CASE at = "race"
    BY <2>1, <2>3 DEF OrchestratorInv, Flights
  <2>4. CASE at # "race"
    <3>1. \E x : DOMAIN attempts \subseteq {x}
      <4>1. CASE at = "retry"
        BY <4>1, <2>2 DEF OrchestratorInv, Flights
      <4>2. CASE at = "chain"
        BY <4>2, <2>2 DEF OrchestratorInv, Flights
      <4>3. CASE at \notin {"retry", "chain"}
        BY <4>3, <2>2, <2>4 DEF OrchestratorInv, Flights
      <4> QED
        BY <4>1, <4>2, <4>3
    <3> QED
      BY <3>1
  <2> QED
    BY <2>3, <2>4
<1> QED
  BY <1>1, <1>2

\* The merge lock: while an attempt edits the main tree, the fallback of a lost
\* worktree or the only attempt of a run without them, no other attempt's work
\* comes into it.
THEOREM TreeUndisturbedHolds == Spec => TreeUndisturbed
<1>1. ASSUME OrchestratorInv, [Next]_vars, NEW id \in DOMAIN attempts,
             Busy(id), attempts[id].at = "tree", Busy(id)'
      PROVE  tree' = tree
  <2>1. ASSUME NEW j \in DOMAIN attempts, LeaveTree(j) PROVE FALSE
    <3>1. attempts[j].at = "tree"
      BY <2>1 DEF LeaveTree
    <3>2. j = id
      BY <3>1, <1>1, OneEditor
    <3>3. attempts \in [DOMAIN attempts -> Tries]
      BY <1>1 DEF OrchestratorInv, TypeOK
    <3>4. attempts[id] \in Tries
      BY <3>3
    <3>5. attempts'[id].at = "over"
      BY <2>1, <3>2, <3>3, <3>4 DEF LeaveTree, Tries
    <3> QED
      BY <3>5, <1>1 DEF Busy
  <2>2. ~MergeBack
    <3> SUFFICES ASSUME MergeBack PROVE FALSE
      OBVIOUS
    <3>1. mergeChain # <<>> /\ Head(mergeChain).op = "merge"
      BY DEF MergeBack, Serves, First
    <3>2. isolated
      BY <3>1, <1>1 DEF OrchestratorInv, Bare
    <3>3. Head(mergeChain) = [id |-> id, op |-> "tree"]
      BY <3>2, <1>1 DEF OrchestratorInv, Queue
    <3> QED
      BY <3>1, <3>3
  <2>3. CASE Start \/ Loop \/ Crash \/ UNCHANGED vars
    BY <2>3 DEF Start, Loop, Schedule, Settle, Retried, Replan, Linked, Published, Crash, vars
  <2>4. CASE Acquire \/ EnterTree \/ Cleanup \/ \E j \in DOMAIN attempts : FinishRun(j)
    BY <2>4 DEF Acquire, EnterTree, Cleanup, FinishRun
  <2> QED
    BY <1>1, <2>1, <2>2, <2>3, <2>4 DEF Next, Locked, Work
<1>2. OrchestratorInv /\ [Next]_vars =>
        [\A id \in DOMAIN attempts : Busy(id) /\ attempts[id].at = "tree" /\ Busy(id)' => tree' = tree]_vars
  BY <1>1
<1> QED
  BY <1>2, OrchestratorInvariant, PTL DEF Spec, TreeUndisturbed

-----------------------------------------------------------------------------
(* What attempts build on.                                                  *)

\* What the task of an id declares to need, itself excepted, which topoOrder drops.
Needs(id) == {Task(d) : d \in Deps[id[1]]} \ {id}

\* Every list of tasks names what its tasks need, and a discovered one has no cycle.
WholeGraphs ==
    /\ \A p \in Plans : \A i \in DOMAIN p : Deps[p[i]] \subseteq ToSet(p)
    /\ \A t \in DOMAIN Deps :
         /\ \A i \in DOMAIN Finds[t] : Deps[Finds[t][i]] \subseteq ToSet(Finds[t])
         /\ Orders([i \in DOMAIN Finds[t] |-> Declared(Finds[t][i])]) # {}

\* The plan on disk keeps the edges of its tasks, and what it is cut off from
\* is accepted; until the cap cuts it, it has all that is known.
Kept == \A i \in DOMAIN disk.phases :
            Needs(disk.phases[i].id) \subseteq
                disk.phases[i].deps \cap (IdsOf(disk.phases) \cup disk.accepted)
Uncut == at # "dead" /\ Len(disk.phases) < MaxPersisted =>
             known \cap Tasks \subseteq IdsOf(disk.phases) \cup disk.accepted

\* A pending task waits for all it needs that is not done; an attempt of a task
\* has nothing left to wait for, and its base has the work of all it needs.
Carried == \A i \in DOMAIN pending :
               Needs(pending[i].id) \subseteq known \cap (pending[i].deps \cup done)
Founded == \A id \in DOMAIN attempts : id \in Tasks => Needs(id) \subseteq done
Based ==
    \A id \in DOMAIN attempts :
        id \in Tasks /\ attempts[id].at \in {"run", "tree"} =>
            \A d \in Needs(id) : \E w \in attempts[id].base : w[1] = d[1]

BuildInv == Kept /\ Uncut /\ Carried /\ Founded /\ Based

\* A filter keeps what came earlier in front.
LEMMA WithoutOrder ==
    ASSUME NEW ps \in Seq(Phases), NEW ids, NEW m \in DOMAIN Without(ps, ids)
    PROVE  \E j \in DOMAIN ps :
             /\ Without(ps, ids)[m] = ps[j]
             /\ \A i \in DOMAIN ps : i < j /\ ps[i].id \notin ids =>
                  \E l \in DOMAIN Without(ps, ids) : l < m /\ Without(ps, ids)[l] = ps[i]
<1> DEFINE I == {i \in DOMAIN ps : ps[i].id \notin ids}
           N == Cardinality(I)
           q == Without(ps, ids)
<1>1. Len(ps) \in Nat /\ DOMAIN ps = 1..Len(ps)
  BY LenProperties
<1>2. /\ N \in Nat
      /\ \A k \in 1..N : Nth(I, k) \in I
      /\ \A i \in I : \E k \in 1..N : Nth(I, k) = i
      /\ \A k, n \in 1..N : Nth(I, k) < Nth(I, n) => k < n
  <2>1. \A n \in Nat : I \in SUBSET (1..n) =>
          /\ N \in Nat
          /\ \A k \in 1..N : Nth(I, k) \in I
          /\ \A i \in I : \E k \in 1..N : Nth(I, k) = i
          /\ \A k, j \in 1..N : Nth(I, k) < Nth(I, j) => k < j
    BY NthShape
  <2>2. Len(ps) \in Nat /\ I \in SUBSET (1..Len(ps))
    BY <1>1
  <2> QED
    BY <2>1, <2>2
<1>3. DOMAIN q = 1..N /\ \A n \in 1..N : q[n] = ps[Nth(I, n)]
  BY DEF Without, Picked
<1> HIDE DEF N, q
<1>4. \A i \in DOMAIN ps : ps[i].id \notin ids => i \in I
  OBVIOUS
<1>5. \A i \in I : i \in DOMAIN ps
  OBVIOUS
<1> HIDE DEF I
<1>6. m \in 1..N
  BY <1>3 DEF q
<1>7. Nth(I, m) \in DOMAIN ps /\ q[m] = ps[Nth(I, m)]
  BY <1>2, <1>3, <1>5, <1>6
<1>8. ASSUME NEW i \in DOMAIN ps, i < Nth(I, m), ps[i].id \notin ids
      PROVE  \E l \in DOMAIN q : l < m /\ q[l] = ps[i]
  <2>1. PICK l \in 1..N : Nth(I, l) = i
    BY <1>2, <1>4, <1>8
  <2> QED
    BY <2>1, <1>2, <1>3, <1>6, <1>8
<1> QED
  BY <1>7, <1>8 DEF q

\* An ordered list has what a task needs of it before the task.
LEMMA TopoBefore ==
    ASSUME NEW ps \in Seq(Phases), Orders(ps) # {}, NEW n \in DOMAIN TopoOrder(ps),
           NEW x \in TopoOrder(ps)[n].deps
    PROVE  \E m \in DOMAIN TopoOrder(ps) : m < n /\ TopoOrder(ps)[m].id = x
<1> DEFINE s == CHOOSE o \in Orders(ps) : TRUE
           q == [k \in DOMAIN ps |-> [ps[s[k]] EXCEPT !.deps = Inner(ps, s[k])]]
<1>1. s \in Orders(ps)
  OBVIOUS
<1>2. TopoOrder(ps) = q
  BY DEF TopoOrder
<1> HIDE DEF s
<1>3. Len(ps) \in Nat /\ DOMAIN ps = 1..Len(ps)
  BY LenProperties
<1>4. ASSUME NEW k \in DOMAIN ps
      PROVE  q[k].id = ps[s[k]].id /\ q[k].deps = Inner(ps, s[k])
  <2>1. s[k] \in DOMAIN ps /\ ps[s[k]] \in Phases
    <3>1. s \in [DOMAIN ps -> DOMAIN ps]
      BY <1>1, OrderShape
    <3>2. s[k] \in DOMAIN ps
      BY <3>1
    <3> QED
      BY <3>2, <1>3, ElementOfSeq
  <2> QED
    BY <2>1 DEF Phases
<1>5. DOMAIN q = DOMAIN ps
  OBVIOUS
<1> HIDE DEF q
<1>6. Inner(ps, s[n]) \subseteq {ps[j].id : j \in {s[m] : m \in 1..(n - 1)}}
  BY <1>1, <1>2, <1>5 DEF Orders
<1>7. x \in Inner(ps, s[n])
  BY <1>2, <1>4, <1>5
<1>8. PICK m \in 1..(n - 1) : x = ps[s[m]].id
  BY <1>6, <1>7
<1>9. m \in DOMAIN ps /\ m < n
  BY <1>2, <1>3, <1>5, <1>8
<1> QED
  BY <1>2, <1>4, <1>5, <1>8, <1>9
\* A list that names what its tasks need keeps their edges.
LEMMA ListNeeds ==
    ASSUME NEW l \in Listed, \A i \in DOMAIN l : Deps[l[i]] \subseteq ToSet(l),
           NEW q, q = [i \in DOMAIN l |-> Declared(l[i])]
    PROVE  \A i \in DOMAIN q : Needs(q[i].id) \subseteq q[i].deps \cap IdsOf(q)
<1>1. DOMAIN q = DOMAIN l /\ \A i \in DOMAIN l : q[i].id = <<l[i], 0>> /\ q[i].deps = {<<d, 0>> : d \in Deps[l[i]]}
  BY DEF Declared, Task
<1> SUFFICES ASSUME NEW i \in DOMAIN l, NEW x \in Needs(q[i].id) PROVE x \in q[i].deps /\ x \in IdsOf(q)
  BY <1>1
<1>2. q[i].id = <<l[i], 0>>
  BY <1>1
<1>3. PICK d \in Deps[l[i]] : x = <<d, 0>>
  BY <1>2 DEF Needs, Task
<1>4. PICK j \in DOMAIN l : l[j] = d
  BY <1>3 DEF ToSet
<1>5. q[j].id = x /\ j \in DOMAIN q
  BY <1>1, <1>3, <1>4
<1> QED
  BY <1>1, <1>3, <1>5 DEF IdsOf

\* topoOrder drops only what is outside the list.
LEMMA TopoNeeds ==
    ASSUME NEW ps \in Seq(Phases), \A i \in DOMAIN ps : Needs(ps[i].id) \subseteq ps[i].deps,
           NEW n \in DOMAIN TopoOrder(ps)
    PROVE  Needs(TopoOrder(ps)[n].id) \cap IdsOf(ps) \subseteq TopoOrder(ps)[n].deps
<1>1. PICK i \in DOMAIN ps :
         /\ TopoOrder(ps)[n].id = ps[i].id
         /\ (ps[i].deps \cap IdsOf(ps)) \ {ps[i].id} \subseteq TopoOrder(ps)[n].deps
  BY TopoShape
<1>2. ps[i].id \notin Needs(ps[i].id)
  BY DEF Needs
<1> QED
  BY <1>1, <1>2

\* What is discovered comes with its edges, and after what it needs.
LEMMA FreshNeeds ==
    ASSUME WholeGraphs, OrchestratorInv, at = "publish", NEW m \in DOMAIN Fresh
    PROVE  /\ Needs(Fresh[m].id) \subseteq Fresh[m].deps
           /\ \A x \in Needs(Fresh[m].id) :
                x \in known \/ \E j \in DOMAIN Fresh : j < m /\ Fresh[j].id = x
<1> DEFINE t == settling.id[1]
           q == [i \in DOMAIN Finds[t] |-> Declared(Finds[t][i])]
           new == NewTasks(t)
<1>1. settling.finds
  <2>1. DOMAIN <<>> = {}
    OBVIOUS
  <2> QED
    BY <2>1 DEF Fresh
<1>2. Fresh = Without(new, known) /\ new = TopoOrder(q)
  BY <1>1 DEF Fresh, NewTasks
<1>3. t \in DOMAIN Deps
  BY TasksAreNoLinks DEF OrchestratorInv, Flights, Judging
<1>4. /\ Finds[t] \in Listed /\ \A i \in DOMAIN Finds[t] : Deps[Finds[t][i]] \subseteq ToSet(Finds[t])
      /\ Orders(q) # {}
  BY <1>3, OrchestratorAssumption DEF WholeGraphs
<1>5. q \in Seq(Phases)
  BY <1>4, DeclaredShape
<1>6. \A i \in DOMAIN q : Needs(q[i].id) \subseteq q[i].deps \cap IdsOf(q)
  BY <1>4, ListNeeds
<1> HIDE DEF t, q
<1>7. new \in Seq(Phases) /\ IdsOf(new) = IdsOf(q)
  BY <1>2, <1>5, TopoShape
<1>8. \A n \in DOMAIN new : Needs(new[n].id) \subseteq IdsOf(q)
  <2>1. ASSUME NEW n \in DOMAIN new PROVE new[n].id \in IdsOf(q)
    BY <1>7 DEF IdsOf
  <2> QED
    BY <2>1, <1>6 DEF IdsOf
<1>9. \A n \in DOMAIN new : Needs(new[n].id) \subseteq new[n].deps
  <2>1. \A n \in DOMAIN new : Needs(new[n].id) \cap IdsOf(q) \subseteq new[n].deps
    BY <1>2, <1>5, <1>6, TopoNeeds
  <2> QED
    BY <2>1, <1>8
<1>10. ASSUME NEW n \in DOMAIN new, NEW x \in new[n].deps
       PROVE  \E i \in DOMAIN new : i < n /\ new[i].id = x
  BY <1>2, <1>4, <1>5, TopoBefore
<1> HIDE DEF new
<1>11. PICK n \in DOMAIN new :
          /\ Fresh[m] = new[n]
          /\ \A i \in DOMAIN new : i < n /\ new[i].id \notin known =>
               \E j \in DOMAIN Fresh : j < m /\ Fresh[j] = new[i]
  BY <1>2, <1>7, WithoutOrder
<1> QED
  BY <1>9, <1>10, <1>11
LEMMA BuildInitial == ASSUME WholeGraphs, Init PROVE BuildInv
<1>1. PICK p \in Plans : disk = [phases |-> [i \in DOMAIN p |-> Declared(p[i])], accepted |-> {}]
  BY DEF Init
<1>2. /\ at = "dead" /\ pending = <<>> /\ attempts = NoAttempts
  BY DEF Init
<1> DEFINE q == [i \in DOMAIN p |-> Declared(p[i])]
<1>3. p \in Listed /\ \A i \in DOMAIN p : Deps[p[i]] \subseteq ToSet(p)
  BY OrchestratorAssumption DEF WholeGraphs
<1>4. \A i \in DOMAIN q : Needs(q[i].id) \subseteq q[i].deps \cap IdsOf(q)
  BY <1>3, ListNeeds
<1>5. disk.phases = q
  BY <1>1
<1> HIDE DEF q
<1>6. Kept
  BY <1>4, <1>5 DEF Kept
<1>7. DOMAIN pending = {} /\ DOMAIN attempts = {}
  BY <1>2 DEF NoAttempts
<1> QED
  BY <1>2, <1>6, <1>7 DEF BuildInv, Uncut, Carried, Founded, Based

LEMMA BuildStart == ASSUME OrchestratorInv, BuildInv, Start PROVE BuildInv'
<1>0. /\ at = "dead" /\ at' = "top" /\ done' = disk.accepted
      /\ pending' = Without(TopoOrder(disk.phases), disk.accepted)
      /\ known' = IdsOf(disk.phases) \cup disk.accepted
      /\ UNCHANGED <<disk, attempts>>
  BY DEF Start, Pending, Known
<1>1. disk.phases \in Seq(Phases) /\ DOMAIN attempts = {}
  <2>1. disk \in [phases : Seq(Phases), accepted : SUBSET Ids]
    BY DEF OrchestratorInv, TypeOK
  <2> QED
    BY <2>1, <1>0 DEF OrchestratorInv, Flights
<1>2. \A i \in DOMAIN disk.phases :
        Needs(disk.phases[i].id) \subseteq
            disk.phases[i].deps \cap (IdsOf(disk.phases) \cup disk.accepted)
  BY DEF BuildInv, Kept
<1>3. IdsOf(disk.phases)' = IdsOf(disk.phases)
  BY <1>0 DEF IdsOf
<1> DEFINE new == TopoOrder(disk.phases)
<1>4. new \in Seq(Phases) /\ IdsOf(new) = IdsOf(disk.phases) /\ pending' = Without(new, disk.accepted)
  BY <1>0, <1>1, TopoShape
<1>5. ASSUME NEW n \in DOMAIN new
      PROVE  /\ Needs(new[n].id) \cap IdsOf(disk.phases) \subseteq new[n].deps
             /\ Needs(new[n].id) \subseteq IdsOf(disk.phases) \cup disk.accepted
  <2>1. new[n].id \in IdsOf(disk.phases)
    BY <1>4 DEF IdsOf
  <2>2. PICK i \in DOMAIN disk.phases : disk.phases[i].id = new[n].id
    BY <2>1 DEF IdsOf
  <2>3. \A j \in DOMAIN disk.phases : Needs(disk.phases[j].id) \subseteq disk.phases[j].deps
    BY <1>2
  <2>4. Needs(new[n].id) \cap IdsOf(disk.phases) \subseteq new[n].deps
    BY <2>3, <1>1, TopoNeeds
  <2>5. Needs(new[n].id) = Needs(disk.phases[i].id)
    BY <2>2
  <2> QED
    BY <2>4, <2>5, <1>2
<1> HIDE DEF new
<1>6. \A n \in DOMAIN pending' : \E i \in DOMAIN new : pending'[n] = new[i]
  BY <1>4, WithoutShape
<1>7. Carried'
  <2>1. ASSUME NEW n \in DOMAIN pending'
        PROVE  Needs(pending'[n].id) \subseteq known' \cap (pending'[n].deps \cup done')
    <3>1. PICK i \in DOMAIN new : pending'[n] = new[i]
      BY <1>6
    <3>2. /\ Needs(new[i].id) \cap IdsOf(disk.phases) \subseteq new[i].deps
          /\ Needs(new[i].id) \subseteq IdsOf(disk.phases) \cup disk.accepted
      BY <1>5
    <3> QED
      BY <3>1, <3>2, <1>0
  <2>2. \A n \in DOMAIN pending' : Needs(pending[n].id)' = Needs(pending'[n].id)
    BY DEF Needs
  <2> QED
    BY <2>1, <2>2 DEF Carried
<1>8. Kept'
  BY <1>0, <1>2, <1>3 DEF Kept, Needs
<1>9. Uncut' /\ Founded' /\ Based'
  BY <1>0, <1>1, <1>3 DEF Uncut, Founded, Based
<1> QED
  BY <1>7, <1>8, <1>9 DEF BuildInv

LEMMA BuildCrash == ASSUME OrchestratorInv, BuildInv, Crash PROVE BuildInv'
<1>0. at' = "dead" /\ pending' = <<>> /\ attempts' = NoAttempts /\ disk' = disk
  BY DEF Crash, Forget
<1>1. DOMAIN pending' = {} /\ DOMAIN attempts' = {}
  BY <1>0 DEF NoAttempts
<1>2. Kept'
  BY <1>0 DEF BuildInv, Kept, Needs, IdsOf
<1> QED
  BY <1>0, <1>1, <1>2 DEF BuildInv, Uncut, Carried, Founded, Based

\* The lists stay as good while tasks only leave them and are accepted.
LEMMA BuildFrame ==
    ASSUME BuildInv, at # "dead", disk'.phases = disk.phases, disk.accepted \subseteq disk'.accepted,
           done \subseteq done', known \subseteq known', known' \cap Tasks = known \cap Tasks,
           \A n \in DOMAIN pending' : \E i \in DOMAIN pending : pending'[n] = pending[i]
    PROVE  Kept' /\ Uncut' /\ Carried'
<1>1. IdsOf(disk.phases)' = IdsOf(disk.phases)
  BY DEF IdsOf
<1>2. Kept'
  BY <1>1 DEF BuildInv, Kept, Needs
<1>3. Uncut'
  BY <1>1 DEF BuildInv, Uncut
<1>4. Carried'
  BY DEF BuildInv, Carried, Needs
<1> QED
  BY <1>2, <1>3, <1>4

\* Attempts stay founded when those that enter a tree enter the main tree as it is.
LEMMA AttemptsBuild ==
    ASSUME OrchestratorInv, BuildInv, at # "dead", done \subseteq done',
           \A id \in DOMAIN attempts' : id \in Tasks => Needs(id) \subseteq done,
           \A id \in DOMAIN attempts' : id \in Tasks =>
               \/ attempts'[id].at \notin {"run", "tree"}
               \/ attempts'[id].base = tree
               \/ /\ id \in DOMAIN attempts /\ attempts[id].at \in {"run", "tree"}
                  /\ attempts'[id].base = attempts[id].base
    PROVE  Founded' /\ Based'
<1>1. \A a \in done : \E w \in tree : w[1] = a[1]
  BY DEF OrchestratorInv, Separate, Merged
<1>2. Founded'
  BY DEF Founded, Needs
<1>3. \A id : Needs(id)' = Needs(id)
  BY DEF Needs
<1>4. Based'
  BY <1>1, <1>3 DEF BuildInv, Based
<1> QED
  BY <1>2, <1>4

\* An attempt that is begun without a worktree enters the tree as it is.
LEMMA BegunBase ==
    ASSUME NEW ids, Begin(ids)
    PROVE  /\ DOMAIN attempts' = DOMAIN attempts \cup ToSet(ids)
           /\ \A id \in DOMAIN attempts' :
                \/ id \in ToSet(ids) /\ (attempts'[id].at = "queued" \/ attempts'[id].base = tree)
                \/ id \in DOMAIN attempts /\ attempts'[id] = attempts[id]
<1>1. attempts' = [i \in (DOMAIN attempts \cup ToSet(ids)) |->
                      IF i \notin ToSet(ids) THEN attempts[i]
                      ELSE IF isolated THEN Attempt("queued")
                      ELSE [Attempt("tree") EXCEPT !.base = tree]]
  BY DEF Begin
<1>2. /\ Attempt("queued").at = "queued" /\ [Attempt("tree") EXCEPT !.base = tree].base = tree
  BY DEF Attempt
<1> QED
  BY <1>1, <1>2

LEMMA BuildSchedule == ASSUME OrchestratorInv, BuildInv, Schedule PROVE BuildInv'
<1> DEFINE skipped == Doomed(pending, failed)
           ready == Picked(pending, Ready(skipped))
           ids == Chosen(ready)
<1>0. at = "top" /\ UNCHANGED <<disk, tree, known, done>>
  BY DEF Schedule
<1>1. CASE pending' = <<>> /\ UNCHANGED attempts
  <2>1. DOMAIN pending' = {}
    BY <1>1
  <2>2. Kept' /\ Uncut' /\ Carried'
    BY <2>1, <1>0, BuildFrame
  <2>3. Founded' /\ Based'
    BY <1>0, <1>1 DEF BuildInv, Founded, Based, Needs
  <2> QED
    BY <2>2, <2>3 DEF BuildInv
<1>2. CASE pending' = Without(pending, skipped \cup ToSet(ids)) /\ Begin(ids)
  <2>1. \A n \in DOMAIN ids : \E i \in DOMAIN pending :
          pending[i].id = ids[n] /\ pending[i].deps \subseteq done
    BY ChosenShape
  <2> HIDE DEF skipped, ready, ids
  <2>2. \A x \in ToSet(ids) : Needs(x) \subseteq done
    BY <2>1 DEF BuildInv, Carried, ToSet
  <2>3. \A n \in DOMAIN pending' : \E i \in DOMAIN pending : pending'[n] = pending[i]
    BY <1>2, WithoutShape DEF OrchestratorInv, TypeOK
  <2>4. Kept' /\ Uncut' /\ Carried'
    BY <2>3, <1>0, BuildFrame
  <2>5. /\ DOMAIN attempts' = DOMAIN attempts \cup ToSet(ids)
        /\ \A id \in DOMAIN attempts' :
             \/ id \in ToSet(ids) /\ (attempts'[id].at = "queued" \/ attempts'[id].base = tree)
             \/ id \in DOMAIN attempts /\ attempts'[id] = attempts[id]
    BY <1>2, BegunBase
  <2>6. \A id \in DOMAIN attempts' : id \in Tasks => Needs(id) \subseteq done
    BY <2>2, <2>5 DEF BuildInv, Founded
  <2>7. Founded' /\ Based'
    BY <2>5, <2>6, <1>0, AttemptsBuild
  <2> QED
    BY <2>4, <2>7 DEF BuildInv
<1> QED
  BY <1>1, <1>2 DEF Schedule

\* Steps that judge an attempt, or start a link, in the lists they leave alone.
LEMMA BuildJudge ==
    ASSUME OrchestratorInv, BuildInv, at # "dead",
           NEW id \in DOMAIN attempts, NEW tries, Judge(id, tries),
           UNCHANGED <<tree, pending, known>>
    PROVE  BuildInv'
<1>1. \/ Record(id) /\ attempts' = Dropped(id)
      \/ Begin(<<id>>) /\ UNCHANGED <<disk, done>>
      \/ attempts' = Dropped(id) /\ UNCHANGED <<disk, done>>
  BY DEF Judge
<1>2. /\ disk'.phases = disk.phases /\ disk.accepted \subseteq disk'.accepted /\ done \subseteq done'
  <2>1. done = disk.accepted /\ disk \in [phases : Seq(Phases), accepted : SUBSET Ids]
    BY DEF OrchestratorInv, Separate, TypeOK
  <2>2. CASE Record(id)
    BY <2>1, <2>2 DEF Record
  <2> QED
    BY <2>2, <1>1
<1>3. Kept' /\ Uncut' /\ Carried'
  BY <1>2, BuildFrame
<1>4. ToSet(<<id>>) = {id}
  BY DEF ToSet
<1>5. \A i \in DOMAIN attempts' :
         \/ i = id /\ (attempts'[i].at = "queued" \/ attempts'[i].base = tree)
         \/ i \in DOMAIN attempts /\ attempts'[i] = attempts[i]
  <2>1. CASE attempts' = Dropped(id)
    BY <2>1 DEF Dropped
  <2>2. CASE Begin(<<id>>)
    BY <2>2, <1>4, BegunBase
  <2> QED
    BY <2>1, <2>2, <1>1
<1>6. \A i \in DOMAIN attempts' : i \in Tasks => Needs(i) \subseteq done
  BY <1>5 DEF BuildInv, Founded
<1>7. Founded' /\ Based'
  BY <1>2, <1>5, <1>6, AttemptsBuild
<1> QED
  BY <1>3, <1>7 DEF BuildInv

LEMMA BuildLink ==
    ASSUME OrchestratorInv, BuildInv, at \in {"replan", "publish"}, StartLink,
           UNCHANGED <<disk, tree, pending, done>>
    PROVE  BuildInv'
<1> DEFINE link == NewLink(settling.id[1])
<1>1. known' = known \cup {link} /\ Begin(<<link>>)
  BY DEF StartLink
<1>2. link \in Links
  BY NewLinkShape, TasksAreNoLinks DEF OrchestratorInv, Flights, Judging
<1> HIDE DEF link
<1>3. link \notin Tasks
  BY <1>2, TasksAreNoLinks
<1>4. known' \cap Tasks = known \cap Tasks
  BY <1>1, <1>3
<1>5. Kept' /\ Uncut' /\ Carried'
  BY <1>1, <1>4, BuildFrame
<1>6. ToSet(<<link>>) = {link}
  BY DEF ToSet
<1>7. \A i \in DOMAIN attempts' : i \in Tasks => i \in DOMAIN attempts /\ attempts'[i] = attempts[i]
  BY <1>1, <1>3, <1>6, BegunBase
<1>8. \A i \in DOMAIN attempts' : i \in Tasks => Needs(i) \subseteq done
  BY <1>7 DEF BuildInv, Founded
<1>9. Founded' /\ Based'
  BY <1>7, <1>8, AttemptsBuild
<1> QED
  BY <1>5, <1>9 DEF BuildInv

\* The fold: what is discovered keeps its edges, and the plan on disk is cut
\* only where everything before the cut has its dependencies.
LEMMA BuildFold ==
    ASSUME WholeGraphs, OrchestratorInv, BuildInv, at = "publish", at' = "top",
           UNCHANGED <<tree, done, attempts>>,
           known' = known \cup IdsOf(Fresh),
           pending' = Resorted(pending \o Fresh, known'),
           disk' = [disk EXCEPT !.phases =
                      LET all == @ \o Fresh
                      IN  SubSeq(all, 1, IF Len(all) < MaxPersisted THEN Len(all) ELSE MaxPersisted)]
    PROVE  BuildInv'
<1> DEFINE all == disk.phases \o Fresh
           k == IF Len(all) < MaxPersisted THEN Len(all) ELSE MaxPersisted
           F == IdsOf(Fresh)
<1>1. Fresh \in Seq(Phases) /\ Distinct(Fresh) /\ F \cap known = {}
  BY FreshShape
<1>2. /\ disk \in [phases : Seq(Phases), accepted : SUBSET Ids] /\ pending \in Seq(Phases)
      /\ Len(disk.phases) <= MaxPersisted /\ IdsOf(pending) \subseteq known
      /\ Distinct(pending) /\ Distinct(disk.phases) /\ IdsOf(disk.phases) \subseteq known
      /\ done = disk.accepted
  BY DEF OrchestratorInv, TypeOK, Separate
<1>3. \A m \in DOMAIN Fresh :
        /\ Needs(Fresh[m].id) \subseteq Fresh[m].deps
        /\ \A x \in Needs(Fresh[m].id) :
             x \in known \/ \E j \in DOMAIN Fresh : j < m /\ Fresh[j].id = x
  BY FreshNeeds
<1>4. IdsOf(pending) \cap F = {} /\ IdsOf(disk.phases) \cap F = {}
  BY <1>1, <1>2
<1>5. /\ pending \o Fresh \in Seq(Phases)
      /\ \A i \in DOMAIN (pending \o Fresh) :
           \/ i \in DOMAIN pending /\ (pending \o Fresh)[i] = pending[i]
           \/ i - Len(pending) \in DOMAIN Fresh /\ (pending \o Fresh)[i] = Fresh[i - Len(pending)]
  BY <1>1, <1>2, <1>4, ConcatShape
<1>6. /\ all \in Seq(Phases) /\ Distinct(all) /\ Len(all) = Len(disk.phases) + Len(Fresh)
      /\ IdsOf(all) = IdsOf(disk.phases) \cup F
      /\ \A i \in DOMAIN all : \/ i \in DOMAIN disk.phases /\ all[i] = disk.phases[i]
                               \/ /\ i - Len(disk.phases) \in DOMAIN Fresh
                                  /\ all[i] = Fresh[i - Len(disk.phases)]
  BY <1>1, <1>2, <1>4, ConcatShape
<1>7. disk' = [disk EXCEPT !.phases = SubSeq(all, 1, k)]
  OBVIOUS
<1>8. /\ Len(disk.phases) \in Nat /\ DOMAIN disk.phases = 1..Len(disk.phases)
      /\ Len(Fresh) \in Nat /\ DOMAIN Fresh = 1..Len(Fresh)
      /\ \A i \in 1..Len(disk.phases) : all[i] = disk.phases[i]
      /\ \A j \in 1..Len(Fresh) : all[Len(disk.phases) + j] = Fresh[j]
  <2>1. /\ Len(disk.phases) \in Nat /\ DOMAIN disk.phases = 1..Len(disk.phases)
        /\ Len(Fresh) \in Nat /\ DOMAIN Fresh = 1..Len(Fresh)
    BY <1>1, <1>2, LenProperties
  <2>2. \A i \in 1..(Len(disk.phases) + Len(Fresh)) :
          all[i] = IF i <= Len(disk.phases) THEN disk.phases[i] ELSE Fresh[i - Len(disk.phases)]
    BY <1>1, <1>2, ConcatProperties
  <2> HIDE DEF all
  <2>3. \A i \in 1..Len(disk.phases) : all[i] = disk.phases[i]
    BY <2>1, <2>2
  <2>4. ASSUME NEW j \in 1..Len(Fresh) PROVE all[Len(disk.phases) + j] = Fresh[j]
    <3>1. /\ Len(disk.phases) + j \in 1..(Len(disk.phases) + Len(Fresh))
          /\ ~(Len(disk.phases) + j <= Len(disk.phases)) /\ (Len(disk.phases) + j) - Len(disk.phases) = j
      BY <2>1
    <3> QED
      BY <3>1, <2>2
  <2> QED
    BY <2>1, <2>3, <2>4
<1> HIDE DEF all
<1>9. MaxPersisted \in Nat /\ Len(all) \in Nat
  BY <1>6, LenProperties, OrchestratorAssumption
<1>10. k \in Nat /\ k <= Len(all) /\ k <= MaxPersisted /\ Len(disk.phases) <= k
       /\ (k < MaxPersisted => k = Len(all))
  BY <1>2, <1>6, <1>8, <1>9
<1> HIDE DEF k
<1> DEFINE cut == SubSeq(all, 1, k)
<1>11. /\ cut \in Seq(Phases) /\ Len(cut) = k /\ IdsOf(cut) \subseteq IdsOf(all)
       /\ \A i \in 1..k : i \in DOMAIN all /\ cut[i] = all[i]
  BY <1>6, <1>10, PrefixShape
<1>12. DOMAIN cut = 1..k
  BY <1>11, LenProperties
<1> HIDE DEF cut
<1>13. disk'.phases = cut /\ disk'.accepted = disk.accepted
  BY <1>2, <1>7 DEF cut
<1>14. \A i \in 1..k : cut[i].id \in IdsOf(cut)
  BY <1>12 DEF IdsOf
<1>15. IdsOf(disk.phases) \subseteq IdsOf(cut)
  <2>1. ASSUME NEW i \in 1..Len(disk.phases) PROVE disk.phases[i].id \in IdsOf(cut)
    <3>1. i \in 1..k
      BY <1>8, <1>10
    <3> QED
      BY <3>1, <1>8, <1>11, <1>14
  <2> QED
    BY <2>1, <1>8 DEF IdsOf
<1>16. ASSUME NEW i \in 1..k
       PROVE  Needs(cut[i].id) \subseteq cut[i].deps \cap (IdsOf(cut) \cup disk.accepted)
  <2>1. CASE i \in DOMAIN disk.phases /\ all[i] = disk.phases[i]
    BY <2>1, <1>11, <1>15 DEF BuildInv, Kept
  <2>2. CASE i - Len(disk.phases) \in DOMAIN Fresh /\ all[i] = Fresh[i - Len(disk.phases)]
    <3> DEFINE m == i - Len(disk.phases)
    <3>1. m \in 1..Len(Fresh) /\ cut[i] = Fresh[m]
      BY <2>2, <1>8, <1>11
    <3>2. Len(disk.phases) < MaxPersisted
      BY <3>1, <1>8, <1>9, <1>10
    <3>3. known \cap Tasks \subseteq IdsOf(disk.phases) \cup disk.accepted
      BY <3>2 DEF BuildInv, Uncut
    <3>4. ASSUME NEW x \in Needs(Fresh[m].id) PROVE x \in IdsOf(cut) \cup disk.accepted
      <4>1. CASE x \in known
        <5>1. x \in Tasks
          <6>1. Fresh[m] \in Phases
            BY <3>1, <1>1, ElementOfSeq
          <6>2. Fresh[m].deps \subseteq Tasks
            BY <6>1 DEF Phases
          <6> QED
            BY <6>2, <3>1, <1>3, <1>8, <3>4
        <5> QED
          BY <4>1, <5>1, <3>3, <1>15
      <4>2. CASE \E j \in DOMAIN Fresh : j < m /\ Fresh[j].id = x
        <5>1. PICK j \in 1..Len(Fresh) : j < m /\ Fresh[j].id = x
          BY <4>2, <1>8
        <5>2. Len(disk.phases) + j \in 1..k
          BY <5>1, <1>8, <1>10
        <5>3. cut[Len(disk.phases) + j].id = x
          BY <5>1, <5>2, <1>8, <1>11
        <5> QED
          BY <5>2, <5>3, <1>14
      <4> QED
        BY <4>1, <4>2, <3>1, <1>3, <1>8
    <3>5. Needs(Fresh[m].id) \subseteq Fresh[m].deps
      BY <3>1, <1>3, <1>8
    <3> QED
      BY <3>1, <3>4, <3>5
  <2> QED
    BY <2>1, <2>2, <1>6, <1>11
<1>17. IdsOf(disk.phases)' = IdsOf(cut) /\ \A x : Needs(x)' = Needs(x)
  BY <1>13 DEF IdsOf, Needs
<1>18. Kept'
  BY <1>12, <1>13, <1>16, <1>17 DEF Kept
<1>19. Uncut'
  <2> SUFFICES ASSUME k < MaxPersisted
               PROVE  known' \cap Tasks \subseteq IdsOf(cut) \cup disk.accepted
    BY <1>11, <1>13, <1>17 DEF Uncut
  <2>1. k = Len(all) /\ Len(disk.phases) < MaxPersisted
    BY <1>2, <1>6, <1>8, <1>9, <1>10
  <2>2. known \cap Tasks \subseteq IdsOf(disk.phases) \cup disk.accepted
    BY <2>1 DEF BuildInv, Uncut
  <2>3. F \subseteq IdsOf(cut)
    <3>1. ASSUME NEW j \in 1..Len(Fresh) PROVE Fresh[j].id \in IdsOf(cut)
      <4>1. Len(disk.phases) + j \in 1..k
        BY <2>1, <1>6, <1>8
      <4> QED
        BY <4>1, <1>8, <1>11, <1>14
    <3> QED
      BY <3>1, <1>8 DEF IdsOf
  <2> QED
    BY <2>2, <2>3, <1>15
<1>20. \A i \in DOMAIN (pending \o Fresh) :
         Needs((pending \o Fresh)[i].id) \subseteq known' \cap ((pending \o Fresh)[i].deps \cup done)
  <2>1. \A i \in DOMAIN pending : Needs(pending[i].id) \subseteq known' \cap (pending[i].deps \cup done)
    BY DEF BuildInv, Carried
  <2>2. \A m \in DOMAIN Fresh : Needs(Fresh[m].id) \subseteq known' \cap (Fresh[m].deps \cup done)
    BY <1>3 DEF IdsOf
  <2> QED
    BY <2>1, <2>2, <1>5
<1>21. Carried'
  <2> DEFINE ps == pending \o Fresh
  <2>0. ps \in Seq(Phases)
    BY <1>5
  <2> HIDE DEF ps
  <2>1. \A n \in DOMAIN Resorted(ps, known') : \E i \in DOMAIN ps :
          /\ Resorted(ps, known')[n].id = ps[i].id
          /\ Resorted(ps, known')[n].deps = (ps[i].deps \cap known') \ {ps[i].id}
    <3>1. \A ids : \A n \in DOMAIN Resorted(ps, ids) : \E i \in DOMAIN ps :
            /\ Resorted(ps, ids)[n].id = ps[i].id
            /\ Resorted(ps, ids)[n].deps = (ps[i].deps \cap ids) \ {ps[i].id}
      BY <2>0, ResortShape
    <3> QED
      BY <3>1
  <2>2. ASSUME NEW n \in DOMAIN pending'
        PROVE  Needs(pending'[n].id) \subseteq known' \cap (pending'[n].deps \cup done)
    <3>1. PICK i \in DOMAIN ps : /\ pending'[n].id = ps[i].id
                                 /\ pending'[n].deps = (ps[i].deps \cap known') \ {ps[i].id}
      BY <2>1 DEF ps
    <3>2. ps[i].id \notin Needs(ps[i].id)
      BY DEF Needs
    <3>3. Needs(ps[i].id) \subseteq known' \cap (ps[i].deps \cup done)
      BY <1>20 DEF ps
    <3> QED
      BY <3>1, <3>2, <3>3
  <2> QED
    BY <2>2, <1>17 DEF Carried
<1>22. Founded' /\ Based'
  BY <1>17 DEF BuildInv, Founded, Based
<1> QED
  BY <1>18, <1>19, <1>21, <1>22 DEF BuildInv

LEMMA BuildPublished == ASSUME WholeGraphs, OrchestratorInv, BuildInv, Published PROVE BuildInv'
<1>0. at = "publish" /\ UNCHANGED tree
  BY DEF Published
<1>1. CASE StartLink /\ UNCHANGED <<disk, pending, done>>
  BY <1>0, <1>1, BuildLink
<1>2. CASE Record(settling.id) /\ UNCHANGED <<pending, known, attempts>>
  <2>1. done = disk.accepted /\ disk \in [phases : Seq(Phases), accepted : SUBSET Ids]
    BY <1>0 DEF OrchestratorInv, Separate, TypeOK
  <2>2. disk'.phases = disk.phases /\ disk.accepted \subseteq disk'.accepted /\ done \subseteq done'
    BY <2>1, <1>2 DEF Record
  <2>3. Kept' /\ Uncut' /\ Carried'
    BY <2>2, <1>0, <1>2, BuildFrame
  <2>4. Founded' /\ Based'
    BY <2>2, <1>2 DEF BuildInv, Founded, Based, Needs
  <2> QED
    BY <2>3, <2>4 DEF BuildInv
<1>3. CASE at' = "top" /\ UNCHANGED <<done, attempts, known, pending, disk>>
  BY <1>0, <1>3 DEF BuildInv, Kept, Uncut, Carried, Founded, Based, Needs, IdsOf
<1>4. CASE /\ at' = "top" /\ UNCHANGED <<done, attempts>>
           /\ known' = known \cup IdsOf(Fresh)
           /\ pending' = Resorted(pending \o Fresh, known')
           /\ disk' = [disk EXCEPT !.phases =
                         LET all == @ \o Fresh
                         IN  SubSeq(all, 1, IF Len(all) < MaxPersisted THEN Len(all) ELSE MaxPersisted)]
  BY <1>0, <1>4, BuildFold
<1> QED
  BY <1>1, <1>2, <1>3, <1>4 DEF Published

\* An attempt moves on: it is out of its tree, enters the main tree as it is,
\* or stays where it was.
Moved(h, a) ==
    /\ attempts' = [attempts EXCEPT ![h] = a]
    /\ \/ a.at \notin {"run", "tree"}
       \/ a.base = tree
       \/ attempts[h].at \in {"run", "tree"} /\ a.base = attempts[h].base
LEMMA WorkMoves ==
    ASSUME OrchestratorInv, Locked \/ \E id \in DOMAIN attempts : Work(id)
    PROVE  attempts' = attempts \/ \E h \in DOMAIN attempts : \E a : Moved(h, a)
<1>1. attempts \in [DOMAIN attempts -> Tries]
  BY DEF OrchestratorInv, TypeOK
<1>2. mergeChain # <<>> => First.id \in DOMAIN attempts
  BY HeadShape
<1>3. \A h \in DOMAIN attempts : attempts[h] \in Tries
  BY <1>1
<1>4. CASE Acquire
  <2>1. /\ mergeChain # <<>>
        /\ \/ attempts' = [attempts EXCEPT ![First.id] = [@ EXCEPT !.at = "run", !.base = tree]]
           \/ attempts' = [attempts EXCEPT ![First.id] = @]
    BY <1>4 DEF Acquire, Serves
  <2> DEFINE a == [attempts[First.id] EXCEPT !.at = "run", !.base = tree]
  <2>2. a.base = tree
    BY <2>1, <1>2, <1>3 DEF Tries
  <2>3. attempts' = [attempts EXCEPT ![First.id] = a] \/ attempts' = attempts
    BY <2>1, <1>1
  <2> HIDE DEF a
  <2> QED
    BY <2>1, <2>2, <2>3, <1>2 DEF Moved
<1>5. CASE EnterTree
  <2> DEFINE a == [attempts[First.id] EXCEPT !.at = "tree", !.base = tree]
  <2>1. mergeChain # <<>> /\ attempts' = [attempts EXCEPT ![First.id] = a]
    BY <1>5, <1>1, <1>2 DEF EnterTree, Serves
  <2>2. a.base = tree
    BY <2>1, <1>2, <1>3 DEF Tries
  <2> HIDE DEF a
  <2> QED
    BY <2>1, <2>2, <1>2 DEF Moved
<1>6. CASE MergeBack
  <2> DEFINE a == [attempts[First.id] EXCEPT !.ok = FALSE, !.finds = FALSE]
  <2>1. mergeChain # <<>> /\ (attempts' = [attempts EXCEPT ![First.id] = a] \/ attempts' = attempts)
    BY <1>6, <1>1, <1>2 DEF MergeBack, Serves
  <2>2. a.at = attempts[First.id].at /\ a.base = attempts[First.id].base
    BY <2>1, <1>2, <1>3 DEF Tries
  <2> HIDE DEF a
  <2> QED
    BY <2>1, <2>2, <1>2 DEF Moved
<1>7. CASE Cleanup
  <2> DEFINE a == [attempts[First.id] EXCEPT !.at = "over"]
  <2>1. mergeChain # <<>> /\ attempts' = [attempts EXCEPT ![First.id] = a]
    BY <1>7, <1>1, <1>2 DEF Cleanup, Serves
  <2>2. a.at = "over"
    BY <2>1, <1>2, <1>3 DEF Tries
  <2> HIDE DEF a
  <2> QED
    BY <2>1, <2>2, <1>2 DEF Moved
<1>8. ASSUME NEW id \in DOMAIN attempts, Work(id) PROVE \E h \in DOMAIN attempts : \E a : Moved(h, a)
  <2>1. \E w \in {"over", "queued"}, ok, finds \in BOOLEAN :
          attempts' = [attempts EXCEPT ![id] = [@ EXCEPT !.at = w, !.ok = ok, !.finds = finds]]
    BY <1>8 DEF Work, LeaveTree, FinishRun
  <2>2. PICK w \in {"over", "queued"}, ok \in BOOLEAN, finds \in BOOLEAN :
          attempts' = [attempts EXCEPT ![id] = [@ EXCEPT !.at = w, !.ok = ok, !.finds = finds]]
    BY <2>1
  <2> DEFINE a == [attempts[id] EXCEPT !.at = w, !.ok = ok, !.finds = finds]
  <2>3. attempts' = [attempts EXCEPT ![id] = a]
    BY <2>2
  <2>4. a.at \notin {"run", "tree"}
    BY <1>3 DEF Tries
  <2> HIDE DEF a
  <2> QED
    BY <2>3, <2>4 DEF Moved
<1> QED
  BY <1>4, <1>5, <1>6, <1>7, <1>8 DEF Locked

\* Steps of the attempts and of the lock.
LEMMA BuildWork ==
    ASSUME OrchestratorInv, BuildInv, Locked \/ \E id \in DOMAIN attempts : Work(id)
    PROVE  BuildInv'
<1>1. UNCHANGED <<disk, pending, known, done, at>> /\ at # "dead"
  <2>1. UNCHANGED <<disk, scheduler>>
    BY DEF Locked, Work, Acquire, EnterTree, MergeBack, Cleanup, LeaveTree, FinishRun
  <2>2. at # "dead"
    BY DEF OrchestratorInv, Flights, Locked, Work, Acquire, EnterTree, MergeBack, Cleanup, Serves
  <2> QED
    BY <2>1, <2>2 DEF scheduler
<1>2. attempts \in [DOMAIN attempts -> Tries]
  BY DEF OrchestratorInv, TypeOK
<1>3. /\ DOMAIN attempts' = DOMAIN attempts
      /\ \A i \in DOMAIN attempts :
           \/ attempts'[i].at \notin {"run", "tree"}
           \/ attempts'[i].base = tree
           \/ attempts[i].at \in {"run", "tree"} /\ attempts'[i].base = attempts[i].base
  <2>1. attempts' = attempts \/ \E h \in DOMAIN attempts : \E a : Moved(h, a)
    BY WorkMoves
  <2>2. CASE \E h \in DOMAIN attempts : \E a : Moved(h, a)
    BY <2>2, <1>2 DEF Moved
  <2> QED
    BY <2>1, <2>2
<1>4. Kept' /\ Uncut' /\ Carried'
  BY <1>1, BuildFrame
<1>5. Founded' /\ Based'
  <2>1. \A id \in DOMAIN attempts' : id \in Tasks => Needs(id) \subseteq done
    BY <1>3 DEF BuildInv, Founded
  <2> QED
    BY <2>1, <1>1, <1>3, AttemptsBuild
<1> QED
  BY <1>4, <1>5 DEF BuildInv

LEMMA BuildStep == ASSUME WholeGraphs, OrchestratorInv, BuildInv, [Next]_vars PROVE BuildInv'
<1>1. CASE Start
  BY <1>1, BuildStart
<1>2. CASE Crash
  BY <1>2, BuildCrash
<1>3. CASE Schedule
  BY <1>3, BuildSchedule
<1>4. CASE Settle
  <2>1. /\ at = "race" /\ UNCHANGED <<tree, pending, known>>
        /\ \E id \in inFlight : Judge(id, 1)
    BY <1>4 DEF Settle
  <2>2. inFlight \subseteq DOMAIN attempts
    BY DEF OrchestratorInv, TypeOK
  <2> QED
    BY <2>1, <2>2, BuildJudge
<1>5. CASE Retried
  <2>1. /\ at = "retry" /\ UNCHANGED <<tree, pending, known>>
        /\ Judge(settling.id, settling.tries + 1)
    BY <1>5 DEF Retried
  <2>2. settling.id \in DOMAIN attempts
    BY <2>1 DEF OrchestratorInv, Flights
  <2> QED
    BY <2>1, <2>2, BuildJudge
<1>6. CASE Replan
  <2>1. at = "replan" /\ UNCHANGED <<disk, tree, pending, done>>
    BY <1>6 DEF Replan
  <2>2. CASE StartLink
    BY <2>1, <2>2, BuildLink
  <2>3. CASE at' = "top" /\ UNCHANGED <<known, attempts>>
    BY <2>1, <2>3 DEF BuildInv, Kept, Uncut, Carried, Founded, Based, Needs, IdsOf
  <2> QED
    BY <2>2, <2>3, <1>6 DEF Replan, GiveUp
<1>7. CASE Linked
  <2>1. PICK link \in DOMAIN attempts \ inFlight :
          /\ attempts' = Dropped(link)
          /\ Record(link) \/ UNCHANGED <<done, disk>>
    BY <1>7 DEF Linked
  <2>2. at = "chain" /\ UNCHANGED <<tree, pending, known>>
    BY <1>7 DEF Linked
  <2>3. done = disk.accepted /\ disk \in [phases : Seq(Phases), accepted : SUBSET Ids]
    BY <2>2 DEF OrchestratorInv, Separate, TypeOK
  <2>4. disk'.phases = disk.phases /\ disk.accepted \subseteq disk'.accepted /\ done \subseteq done'
    BY <2>1, <2>3 DEF Record
  <2>5. Kept' /\ Uncut' /\ Carried'
    BY <2>2, <2>4, BuildFrame
  <2>6. \A i \in DOMAIN attempts' : i \in DOMAIN attempts /\ attempts'[i] = attempts[i]
    BY <2>1 DEF Dropped
  <2>7. Founded' /\ Based'
    BY <2>4, <2>6 DEF BuildInv, Founded, Based, Needs
  <2> QED
    BY <2>5, <2>7 DEF BuildInv
<1>8. CASE Published
  BY <1>8, BuildPublished
<1>9. CASE Locked \/ \E id \in DOMAIN attempts : Work(id)
  BY <1>9, BuildWork
<1>10. CASE UNCHANGED vars
  BY <1>10 DEF vars, memory, BuildInv, Kept, Uncut, Carried, Founded, Based, Needs, IdsOf
<1> QED
  BY <1>1, <1>2, <1>3, <1>4, <1>5, <1>6, <1>7, <1>8, <1>9, <1>10 DEF Next, Loop

\* topoOrder, the fold of discovered tasks and the dispatch: where every list of
\* tasks names what its tasks need, and a discovered one has no cycle, an
\* attempt of a task is made on a tree with the work of all it needs, whatever
\* failed, was discovered, cut off by the cap of the state file, or resumed.
THEOREM BuildsOnDoneHolds == ASSUME WholeGraphs PROVE Spec => []BuildsOnDone
<1>1. Init => BuildInv
  BY BuildInitial
<1>2. OrchestratorInv /\ BuildInv /\ [Next]_vars => BuildInv'
  BY BuildStep
<1>3. OrchestratorInv /\ BuildInv => BuildsOnDone
  <2> SUFFICES ASSUME OrchestratorInv, BuildInv, NEW id \in DOMAIN attempts,
                      id[2] = 0, attempts[id].at \in {"run", "tree"},
                      NEW d \in Deps[id[1]] \ {id[1]}
               PROVE  \E w \in attempts[id].base : w[1] = d
    BY DEF BuildsOnDone
  <2>1. id \in Tasks
    <3>1. id \in Ids
      BY DEF OrchestratorInv, TypeOK
    <3>2. \A x \in Links : x[2] # 0
      BY DEF Links
    <3> QED
      BY <3>1, <3>2 DEF Ids
  <2>2. Task(d) \in Needs(id) /\ Task(d)[1] = d
    BY <2>1 DEF Needs, Task, Tasks
  <2> QED
    BY <2>1, <2>2 DEF BuildInv, Based
<1> QED
  BY <1>1, <1>2, <1>3, OrchestratorInvariant, PTL DEF Spec
=============================================================================
