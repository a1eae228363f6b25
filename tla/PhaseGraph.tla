------------------------------ MODULE PhaseGraph ------------------------------
(* topoOrder of delivery/decompose.ts, which every planned list of phases,     *)
(* tasks or epics goes through: records [id, deps] in planner order.           *)
EXTENDS Integers, FiniteSets, SequencesExt

IdsOf(ps) == {ps[i].id : i \in DOMAIN ps}

\* pending.filter: the phases at the places in I, in the order they have.
Nth(I, n) == CHOOSE i \in I : Cardinality({j \in I : j < i}) = n - 1
Picked(ps, I) == [n \in 1..Cardinality(I) |-> ps[Nth(I, n)]]
Without(ps, ids) == Picked(ps, {i \in DOMAIN ps : ps[i].id \notin ids})

\* The order in which each phase comes after its dependencies inside the array,
\* the first that is ready next; in a cycle there is none.
Inner(ps, i) == (ps[i].deps \cap IdsOf(ps)) \ {ps[i].id}
Orders(ps) ==
    LET Ready(i, before) == Inner(ps, i) \subseteq {ps[j].id : j \in before}
        Follows(s, n) == LET before == {s[m] : m \in 1..(n - 1)}
                         IN  /\ s[n] \notin before /\ Ready(s[n], before)
                             /\ \A j \in 1..(s[n] - 1) : j \in before \/ ~Ready(j, before)
    IN  {s \in [DOMAIN ps -> DOMAIN ps] : \A n \in DOMAIN ps : Follows(s, n)}

\* topoOrder drops the other dependencies; a cycle leaves the array as it was.
TopoOrder(ps) ==
    IF Orders(ps) = {} THEN ps
    ELSE LET s == CHOOSE o \in Orders(ps) : TRUE
         IN  [n \in DOMAIN ps |-> [ps[s[n]] EXCEPT !.deps = Inner(ps, s[n])]]
=============================================================================
