----------------------------- MODULE AgentRegistry -----------------------------
(***************************************************************************)
(* The agents, work announcements and resource claims of                   *)
(* coordination/service.ts, one action per statement or transaction that   *)
(* changes them.  Heartbeats are kept as far as cutoffs tell them apart:   *)
(* `silent` is who is behind the cutoff of a cleanup that starts now,      *)
(* `older[c]` who is behind the one that the cleanup of c started with.    *)
(* Claims are on one resource; a claim that has expired is no longer a     *)
(* member, since every reader passes over its row.                         *)
(***************************************************************************)
CONSTANTS Agents, Works, Unknown

VARIABLES row,        \* status of each agent, Unknown before it registers
          silent,     \* no heartbeat for three intervals
          older,      \* per running cleanup, no heartbeat since its cutoff
          announced,  \* open announcements: <<agent, work>>
          claims,     \* unexpired claims: [by, kind]
          reaped      \* history: marked failed by a cleanup and not back since

Live == {"active", "idle"}
RowStatuses == Live \cup {"completed", "failed"}
Kinds == {"exclusive", "shared"}

\* Every statement that refreshes last_heartbeat.
Beats(a) ==
    /\ silent' = silent \ {a}
    /\ older' = [c \in Agents |-> older[c] \ {a}]

\* ensureAgentIsRegistered: inserts, reactivates or just beats.
\* Mutant: it leaves the heartbeat of a known agent alone.
Ensure_NoBeat(a) ==
    /\ row' = IF row[a] \in Live THEN row ELSE [row EXCEPT ![a] = "active"]
    /\ reaped' = reaped \ {a}
    /\ UNCHANGED <<silent, older>>
Ensure(a) ==
    /\ row' = IF row[a] \in Live THEN row ELSE [row EXCEPT ![a] = "active"]
    /\ reaped' = reaped \ {a}
    /\ Beats(a)

-----------------------------------------------------------------------------
Register(a) ==
    /\ row' = [row EXCEPT ![a] = "active"]
    /\ reaped' = reaped \ {a}
    /\ Beats(a)
    /\ UNCHANGED <<announced, claims>>

\* heartbeat does not touch the status: a failed agent stays failed.
Heartbeat(a) ==
    /\ row[a] # Unknown
    /\ Beats(a)
    /\ UNCHANGED <<row, announced, claims, reaped>>

UpdateStatus(a, s) ==
    /\ row[a] # Unknown
    /\ row' = [row EXCEPT ![a] = s]
    /\ reaped' = reaped \ {a}
    /\ Beats(a)
    /\ UNCHANGED <<announced, claims>>

ReleaseAllClaims(a) ==
    /\ claims' = {c \in claims : c.by # a}
    /\ UNCHANGED <<row, silent, older, announced, reaped>>

MarkCompleted(a) ==
    /\ row' = IF row[a] = Unknown THEN row ELSE [row EXCEPT ![a] = "completed"]
    /\ reaped' = reaped \ {a}
    /\ UNCHANGED <<silent, older, announced, claims>>

AnnounceWork(a, w) ==
    /\ Ensure(a)
    /\ announced' = announced \cup {<<a, w>>}
    /\ UNCHANGED claims

CompleteWork(a, w) ==
    /\ announced' = announced \ {<<a, w>>}
    /\ UNCHANGED <<row, silent, older, claims, reaped>>

-----------------------------------------------------------------------------
(* Claims.  The transaction reads one unexpired row of the resource.       *)

Granted(kind) == \A c \in claims : c.kind = "shared" /\ kind = "shared"

ClaimResource(a, kind) ==
    /\ Ensure(a)
    /\ claims' = IF Granted(kind) THEN claims \cup {[by |-> a, kind |-> kind]} ELSE claims
    /\ UNCHANGED announced

Expire(c) ==
    /\ c \in claims
    /\ claims' = claims \ {c}
    /\ UNCHANGED <<row, silent, older, announced, reaped>>

-----------------------------------------------------------------------------
(* cleanupAgentsOlderThan, run by c.                                       *)

Stale == {a \in Agents : row[a] \in Live /\ a \in silent}

FixCutoff(c) ==
    /\ older' = [older EXCEPT ![c] = silent]
    /\ UNCHANGED <<row, silent, announced, claims, reaped>>

\* The claims and the announcements of one listed agent: two statements.
CompleteAnnouncements(a) ==
    /\ announced' = {n \in announced : n[1] # a}
    /\ UNCHANGED <<row, silent, older, claims, reaped>>

\* The final UPDATE looks at status and heartbeat again.
Failing(c) == {a \in older[c] : row[a] \in Live}
MarkFailed(c, failing) ==
    /\ row' = [a \in Agents |-> IF a \in failing THEN "failed" ELSE row[a]]
    /\ reaped' = reaped \cup failing
    /\ older' = [older EXCEPT ![c] = {}]
    /\ UNCHANGED <<silent, announced, claims>>

\* Three heartbeat intervals without a beat.
FallSilent(a) ==
    /\ row[a] \in Live
    /\ a \notin silent
    /\ silent' = silent \cup {a}
    /\ UNCHANGED <<row, older, announced, claims, reaped>>

RegistryTypeOK ==
    /\ row \in [Agents -> RowStatuses \cup {Unknown}]
    /\ silent \subseteq Agents /\ older \in [Agents -> SUBSET silent]
    /\ announced \subseteq Agents \X Works
    /\ claims \subseteq [by : Agents, kind : Kinds]
    /\ reaped \subseteq {a \in Agents : row[a] = "failed"}
=============================================================================
