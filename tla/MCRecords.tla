------------------------------ MODULE MCRecords ------------------------------
(* Two parts that work on kept records: restoring a projection from the        *)
(* archive, and the controlled copies of what was removed.  `part` says which  *)
(* one runs.                                                                   *)
EXTENDS Restore, Retention, FiniteSets, TLC

CONSTANTS p1, p2, q1, q2

VARIABLE part

\* Three manifest keys; the gateway's batches are 2 and 3, a replacement goes to
\* 1, before both.  The marker d deletes b.
MCManifests == 1..3
MCArchivable == {2, 3}
MCEventsOf == (2 :> {"a", "d"}) @@ (3 :> {"b", "c"})
MCDeletes == [e \in {"a", "b", "c", "d"} |-> IF e = "d" THEN {"b"} ELSE {}]

recordVars == <<restoreVars, retentionVars, part>>

RecordsInit ==
    /\ RestoreInit
    /\ RetentionInit
    /\ part \in {"restore", "retention"}
    /\ part # "retention" => endpoint = {} /\ \A s \in Stores : held[s] = {}

RecordsNext ==
    /\ UNCHANGED part
    /\ \/ part = "restore" /\ RestoreNext /\ UNCHANGED retentionVars
       \/ part = "retention" /\ RetentionNext /\ UNCHANGED restoreVars

RecordsSpec == RecordsInit /\ [][RecordsNext]_recordVars

\* Executions are p1 and p2; rebuilds and copies are q1 and q2.
RecordsSymmetry == Permutations({p1, p2}) \cup Permutations({q1, q2})

\* Once the cleanup deadline has passed, one sweep is explored at a time.
SweepScope ==
    deadline > 0 => Cardinality({w \in Sweepers : sweeps[w].at # "idle"}) <= 1
=============================================================================
