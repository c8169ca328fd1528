------------------------------ MODULE Retention ------------------------------
(***************************************************************************)
(* The retention ceiling for controlled copies (worker/retention): after a *)
(* removal, every store outside the archive is asked which copies of the   *)
(* content it holds, and each copy is cleaned up by a leased worker.       *)
(*                                                                         *)
(* A sweep plans first: a row for every copy that the store's inventory    *)
(* names, and a placeholder row for a store that names none or does not    *)
(* vouch for its list.  Then it works through the rows that are open, and  *)
(* the completion of the removal is evaluated from the rows alone, by      *)
(* anybody, at any time.  Sweeps overlap: the scheduler's minute, the      *)
(* removal request and the archive tick all run one.                       *)
(*                                                                         *)
(* A store is honest: an inventory that it calls complete names every copy *)
(* it holds, and evidence that a copy is gone is true.  Copies are not     *)
(* made after the removal.  The statements of one store's plan are one     *)
(* step, which may stop half-way.  A sweep reads the clock once, at its    *)
(* start; the clock counts the two deadlines of the copies (a placeholder, *)
(* made at the first sweep, is younger than they are).  Left out: the two  *)
(* auxiliary stores, which are only ever preserved.                        *)
(***************************************************************************)
EXTENDS Naturals

CONSTANTS Stores, Copies, Sweepers, Placeholder, NoSweeper

ASSUME RetentionConstants == Placeholder \notin Copies

CopyOps == Stores \X (Copies \cup {Placeholder})
NoOp == <<Placeholder, Placeholder>>

VARIABLES
    held,       \* the copies a store really holds
    endpoint,   \* the stores whose backend is configured
    copyRows,   \* controlled_copy_operations of the removal
    sweeps,     \* a sweep, suspended at an await
    deadline    \* 0 before the cleanup deadline, 1 after it, 2 after the hard one

retentionVars == <<held, endpoint, copyRows, sweeps, deadline>>

CopyStatuses == {"absent", "planned", "leased", "incomplete", "failed", "complete"}
OpenCopy == {"planned", "incomplete", "failed"}
NoCopyRow == [status |-> "absent", token |-> NoSweeper, lapsed |-> FALSE,
              unavailable |-> FALSE, late |-> FALSE]
IdleSweep == [at |-> "idle", todo |-> {}, op |-> NoOp, evidence |-> "none", now |-> 0]

CopyRow == [status : CopyStatuses, token : Sweepers \cup {NoSweeper},
            lapsed : BOOLEAN, unavailable : BOOLEAN, late : BOOLEAN]

Sweep == [at : {"idle", "planning", "working", "recording"},
          todo : SUBSET Stores, op : CopyOps \cup {NoOp},
          evidence : {"none", "gone", "unknown", "failed"}, now : 0 .. 2]

RetentionTypeOK ==
    /\ held \in [Stores -> SUBSET Copies]
    /\ endpoint \subseteq Stores
    /\ copyRows \in [CopyOps -> CopyRow]
    /\ sweeps \in [Sweepers -> Sweep]
    /\ deadline \in 0 .. 2

RetentionInit ==
    /\ held \in [Stores -> SUBSET Copies]
    /\ endpoint \in SUBSET Stores
    /\ copyRows = [o \in CopyOps |-> NoCopyRow]
    /\ sweeps = [w \in Sweepers |-> IdleSweep]
    /\ deadline = 0

-----------------------------------------------------------------------------

startSweep(w) ==
    /\ sweeps[w].at = "idle"
    /\ sweeps' = [sweeps EXCEPT ![w] = [IdleSweep EXCEPT !.at = "planning", !.todo = Stores,
                                          !.now = deadline]]
    /\ UNCHANGED <<held, endpoint, copyRows, deadline>>

\* What a store may answer.  One without a backend, or one that fails, vouches
\* for nothing
Inventories(s) ==
    {[complete |-> FALSE, copies |-> found] : found \in IF s \in endpoint THEN SUBSET held[s] ELSE {{}}}
        \cup (IF s \in endpoint THEN {[complete |-> TRUE, copies |-> held[s]]} ELSE {})

LeaseActive(row) == row.token # NoSweeper /\ ~row.lapsed

\* reconcileUnavailableInventory: a placeholder from the time before the store
\* had a backend is handed to the present adapter
Bridged(row) ==
    row.status # "absent" /\ row.unavailable /\ ~LeaseActive(row) /\ row.status # "complete"

reconcileUnavailableInventory(s, row) ==
    IF Bridged(row)
    THEN [row EXCEPT !.status = "incomplete", !.token = NoSweeper, !.lapsed = FALSE,
                     !.unavailable = s \notin endpoint]
    ELSE row

\* insertOrReadOperation
insertOrReadOperation(s, row) ==
    IF row.status = "absent"
    THEN [NoCopyRow EXCEPT !.status = "planned", !.unavailable = s \notin endpoint] ELSE row

\* Faulty variant: an inventory without copies settles the placeholder
settledByAnyInventory(row, result) ==
    IF row.status \in OpenCopy /\ row.token = NoSweeper
    THEN [row EXCEPT !.status = "complete"] ELSE row

\* recordInventoryResult: only a row that no worker has touched is written
recordInventoryResult(row, result) ==
    IF row.status \in OpenCopy /\ row.token = NoSweeper
    THEN [row EXCEPT !.status = IF result.complete THEN "complete" ELSE "incomplete"] ELSE row

\* The placeholder after the plan of its store
PlannedPlaceholder(s, result) ==
    LET old == copyRows[<<s, Placeholder>>]
        row == reconcileUnavailableInventory(s, old) IN
    IF \/ result.copies = {}
       \/ ~result.complete
       \/ Bridged(old)
    THEN recordInventoryResult(insertOrReadOperation(s, row), result)
    ELSE row

\* createControlledCopyRetentionPlan, for one store; after the last one the
\* work begins
plan(w, s) ==
    /\ sweeps[w].at = "planning"
    /\ s \in sweeps[w].todo
    /\ \E result \in Inventories(s) :
         copyRows' = [o \in CopyOps |->
             IF o = <<s, Placeholder>> THEN PlannedPlaceholder(s, result)
             ELSE IF o[1] = s /\ o[2] \in result.copies THEN insertOrReadOperation(s, copyRows[o])
             ELSE copyRows[o]]
    /\ sweeps' = [sweeps EXCEPT ![w].todo = @ \ {s},
                               ![w].at = IF sweeps[w].todo = {s} THEN "working" ELSE @]
    /\ UNCHANGED <<held, endpoint, deadline>>

\* The sweep is lost after some of the store's copies were recorded
planStops(w, s) ==
    /\ sweeps[w].at = "planning"
    /\ s \in sweeps[w].todo \cap endpoint
    /\ \E some \in SUBSET held[s] :
         copyRows' = [o \in CopyOps |->
             IF o[1] = s /\ o[2] \in some THEN insertOrReadOperation(s, copyRows[o]) ELSE copyRows[o]]
    /\ sweeps' = [sweeps EXCEPT ![w] = IdleSweep]
    /\ UNCHANGED <<held, endpoint, deadline>>

\* The condition of claimOperation.  The list of candidates that the worker
\* reads first only orders its work: a row is claimed under this condition or
\* passed over
Claimable(row) ==
    \/ row.status \in OpenCopy /\ ~LeaseActive(row)
    \/ row.status = "leased" /\ row.lapsed

evidenceIs(w, o, evidence) ==
    sweeps' = [sweeps EXCEPT ![w].at = "recording", ![w].op = o, ![w].evidence = evidence]

\* A row that cannot be cleaned up: no adapter, a placeholder, or a copy past
\* its hard deadline
Blocked(w, o) ==
    IF o[1] \notin endpoint \/ o[2] = Placeholder THEN {"unknown"}
    ELSE IF sweeps[w].now = 2 THEN {"failed"} ELSE {}

\* The evidence of a cleanup that changed nothing, and of one that deleted the
\* copy: a store may delete and fail to say so
Unchanged(w, o) == IF Blocked(w, o) # {} THEN Blocked(w, o) ELSE {"unknown", "failed"}
Deleted(w, o) == IF Blocked(w, o) # {} THEN {} ELSE {"gone", "failed"}

\* claimOperation, and the adapter's cleanup that follows it.  (A worker that
\* is lost before the cleanup is one that is lost after a cleanup which changed
\* nothing.)
claimOperation(w, o) ==
    /\ sweeps[w].at = "working"
    /\ Claimable(copyRows[o])
    /\ copyRows' = [copyRows EXCEPT ![o].status = "leased", ![o].token = w, ![o].lapsed = FALSE]
    /\ \/ /\ \E evidence \in Deleted(w, o) : evidenceIs(w, o, evidence)
          /\ held' = [held EXCEPT ![o[1]] = @ \ {o[2]}]
       \/ /\ \E evidence \in Unchanged(w, o) : evidenceIs(w, o, evidence)
          /\ UNCHANGED held
    /\ UNCHANGED <<endpoint, deadline>>

\* Faulty variant: the answer of a worker whose lease was taken over counts
anyWorkerOf(w, row) == row.status # "absent"

\* WHERE status = 'leased' AND lease_token = ?
StillMine(w, row) == row.status = "leased" /\ row.token = w

\* appendEvidence, and operationStatusForEvidence.  A row that stays open keeps
\* the worker's token
appendEvidence(w) ==
    LET o == sweeps[w].op
        e == sweeps[w].evidence IN
    /\ sweeps[w].at = "recording"
    /\ copyRows' = [copyRows EXCEPT ![o] =
         IF ~StillMine(w, @) THEN @
         ELSE IF e = "gone"
         THEN [@ EXCEPT !.status = "complete", !.token = NoSweeper, !.lapsed = FALSE,
                        !.late = sweeps[w].now > 0]
         ELSE [@ EXCEPT !.status = IF e = "failed" THEN "failed" ELSE "incomplete"]]
    /\ sweeps' = [sweeps EXCEPT ![w].at = "working", ![w].op = NoOp, ![w].evidence = "none"]
    /\ UNCHANGED <<held, endpoint, deadline>>

\* The sweep is over, or lost
sweepEnds(w) ==
    /\ sweeps[w].at # "idle"
    /\ sweeps' = [sweeps EXCEPT ![w] = IdleSweep]
    /\ UNCHANGED <<held, endpoint, copyRows, deadline>>

\* CONTROLLED_COPY_WORKER_LEASE_MS after the start of the sweep that claimed
copyLeaseLapses(o) ==
    /\ LeaseActive(copyRows[o])
    /\ copyRows' = [copyRows EXCEPT ![o].lapsed = TRUE]
    /\ UNCHANGED <<held, endpoint, sweeps, deadline>>

\* A deployment adds the endpoint and the token of a store
configure(s) ==
    /\ s \notin endpoint
    /\ endpoint' = endpoint \cup {s}
    /\ UNCHANGED <<held, copyRows, sweeps, deadline>>

deadlinePasses ==
    /\ deadline < 2
    /\ deadline' = deadline + 1
    /\ UNCHANGED <<held, endpoint, copyRows, sweeps>>

RetentionNext ==
    \/ deadlinePasses
    \/ \E s \in Stores : configure(s)
    \/ \E o \in CopyOps : copyLeaseLapses(o)
    \/ \E w \in Sweepers :
         \/ startSweep(w)
         \/ \E s \in Stores : plan(w, s) \/ planStops(w, s)
         \/ \E o \in CopyOps : claimOperation(w, o)
         \/ appendEvidence(w)
         \/ sweepEnds(w)

RetentionSpec == RetentionInit /\ [][RetentionNext]_retentionVars

-----------------------------------------------------------------------------

\* evaluateControlledCopyCompletion, for a removal whose archive is complete
StoreComplete(s) ==
    /\ \E o \in CopyOps : o[1] = s /\ copyRows[o].status # "absent"
    /\ \A o \in CopyOps : o[1] = s /\ copyRows[o].status # "absent"
           => copyRows[o].status = "complete" /\ ~copyRows[o].late

\* "Unknown shapes ... never become a false completion claim" (runbook): when
\* the rows say that a removal is complete, no store holds a copy any more,
\* although the evaluation may fall between any two steps of any sweep.
CompletionMeansGone ==
    (\A s \in Stores : StoreComplete(s)) => \A s \in Stores : held[s] = {}

\* A settled copy stays settled: a worker whose lease was taken over cannot put
\* its late failure over the other's evidence.
SettledCopiesStaySettled ==
    [][\A o \in CopyOps : copyRows[o].status = "complete" => copyRows'[o] = copyRows[o]]_copyRows
=============================================================================
