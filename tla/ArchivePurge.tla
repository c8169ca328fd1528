---------------------------- MODULE ArchivePurge ----------------------------
(***************************************************************************)
(* Purging removed content from the canonical archive of one tenant        *)
(* (apps/control-plane/worker/archive/purge.ts and lifecycle.ts, with the  *)
(* conditional puts of archive/writer.ts).                                 *)
(*                                                                         *)
(* The archive holds batches: a manifest object and a data object under    *)
(* keys that the batch id fixes.  A batch carries items; an item is a body *)
(* or an attachment reference, the unit a removal takes away.  A removal r *)
(* rewrites every committed batch k that holds one of its items into the   *)
(* replacement Append(k.by, r), hides the manifest of k and, after the     *)
(* safety window, deletes the data of k.  Progress is kept in D1, in       *)
(* archive_purge_operations (ops) and archive_purge_objects (objs); one    *)
(* tenant wide lock with a lease (lock) orders the workers.                *)
(*                                                                         *)
(* A worker step is one D1 statement or one R2 request.  A worker may die  *)
(* between any two of them, an R2 request may fail, a lease may run out    *)
(* under a worker that is still running, batches may arrive at any time.   *)
(***************************************************************************)
EXTENDS Integers, Sequences, FiniteSets, Functions

CONSTANTS
    Batches,        \* batch ids the gateway submits
    Items,          \* bodies and attachment references
    Content,        \* Batches -> the items of the batch
    Removals,       \* removal authority ids
    Matches,        \* Removals -> the items eventMatchesRemoval selects
    Workers,        \* concurrent executions: request handlers and cron ticks
    Lease,          \* PURGE_LOCK_LEASE_MS
    RunLimit,       \* longest life of one execution
    SafetyWindow,   \* ARCHIVE_PURGE_SAFETY_WINDOW_MS
    MaxClock,       \* bound on the clock
    MaxFaults       \* bound on deaths, failing requests and repeated batches

ASSUME PurgeConstants ==
    /\ Content \in [Batches -> SUBSET Items]
    /\ Matches \in [Removals -> SUBSET Items]
    /\ Batches # {} /\ Removals # {} /\ "nobody" \notin Workers /\ "none" \notin Removals
    /\ {Lease, SafetyWindow, RunLimit} \subseteq Nat \ {0}
    /\ {MaxClock, MaxFaults} \subseteq Nat

VARIABLES
    clock,      \* wall clock
    committed,  \* every key that was ever readable (history)
    recorded,   \* rows of removal_authority
    manifests,  \* manifest objects in R2: key -> archived_at
    data,       \* data objects in R2
    ops,        \* archive_purge_operations: removal -> status and deadline
    objs,       \* archive_purge_objects: removal -> key -> row
    lock,       \* archive_purge_locks, the row of this tenant
    worker,     \* the executions
    arriving,   \* batches whose data is put and whose manifest is not
    faults      \* deaths, failing requests and repeated batches so far

vars == <<clock, committed, recorded, manifests, data, ops, objs, lock, worker,
          arriving, faults>>
-----------------------------------------------------------------------------
(* Batch keys.  A key is the original batch and the removals whose           *)
(* replacements led to it; replacementBatchId hashes the operation and the   *)
(* original key, so the two determine it.                                    *)

Keys == [batch : Batches, by : Seq(Removals)]

Original(b) == [batch |-> b, by |-> <<>>]

ReplacementKey(k, r) == [k EXCEPT !.by = Append(@, r)]

\* What sanitizeArchiveEvents leaves of a batch after each of these removals.
ItemsOf(k) == Content[k.batch] \ UNION {Matches[k.by[i]] : i \in DOMAIN k.by}

Retained(k, r) == ItemsOf(k) \ Matches[r]

\* readCommittedArchiveBatch succeeds: the manifest and its data are there.
Readable(k) == k \in DOMAIN manifests /\ k \in data

\* History: the keys that are readable after this step have been readable.
NoteReadable == committed' = committed \cup (DOMAIN manifests' \cap data')
-----------------------------------------------------------------------------
RowStates == {"planned", "replacement_written", "manifest_deleted",
              "data_deleted", "incomplete"}

OpStates == {"none", "planned", "rewritten", "pending_deletion", "incomplete",
             "complete"}

\* A lineage row: its state, whether replacement_manifest_key is set and
\* whether manifest_deleted_at is set.
Rows == [state : RowStates, repl : BOOLEAN, mdel : BOOLEAN]

PlannedRow == [state |-> "planned", repl |-> FALSE, mdel |-> FALSE]

PCs == {"idle", "start", "claim", "scan", "discover", "scan_failed", "plan",
        "next", "recover", "put_data", "put_manifest", "record_replacement",
        "validate", "delete_manifest", "record_manifest", "delete_data",
        "record_data", "fail", "finish", "unlock", "busy"}

NoRemoval == "none"
AnyBatch == CHOOSE b \in Batches : TRUE

\* purgeArchiveForRemoval between two calls: the removal, its clock, the plans
\* discovered, the rows still to process, the row in hand, the states of the
\* rows processed.
IdleWorker ==
    [pc |-> "idle", r |-> NoRemoval, now |-> 0, plans |-> {}, todo |-> {},
     key |-> Original(AnyBatch), row |-> PlannedRow, done |-> {}]

NoLock == [holder |-> "nobody", expires |-> 0]

Init ==
    /\ clock = 0
    /\ committed = {} /\ recorded = {}
    /\ manifests = <<>> /\ data = {}
    /\ ops = [r \in Removals |-> [status |-> "none", deadline |-> 0]]
    /\ objs = [r \in Removals |-> <<>>]
    /\ lock = NoLock
    /\ worker = [w \in Workers |-> IdleWorker]
    /\ arriving = {} /\ faults = 0
-----------------------------------------------------------------------------

(* The worker of a removal.  Each action is one statement or one request.   *)

At(w, pc) == worker[w].pc = pc

Goto(w, pc) == worker' = [worker EXCEPT ![w].pc = pc]

Begin(w, r, pc) ==
    \E t \in {t \in 0..clock : clock - t < RunLimit} :
        worker' = [worker EXCEPT ![w] = [IdleWorker EXCEPT !.pc = pc, !.r = r, !.now = t]]

\* recordRemovalWithArchivePurge: the route records the authority, or finds it
\* recorded, and goes on to purge.  (Bound: the safety window ends before the
\* clock does.)
RecordRemoval(w, r) ==
    /\ At(w, "idle") /\ ops[r].status = "none"
    /\ clock + SafetyWindow <= MaxClock
    /\ recorded' = recorded \cup {r}
    /\ Begin(w, r, "start")
    /\ UNCHANGED <<clock, committed, manifests, data, ops, objs, lock, arriving, faults>>

\* Mutant: the tick skips operations that wait for their safety window.
ScheduledIncomplete(w, r) ==
    /\ At(w, "idle") /\ ops[r].status \in {"planned", "incomplete"}
    /\ Begin(w, r, "claim")
    /\ UNCHANGED <<clock, committed, recorded, manifests, data, ops, objs, lock, arriving, faults>>

\* One candidate of the scheduled tick, or a repeated request: an operation of
\* any status, which is read and not inserted.
ScheduledPurge(w, r) ==
    /\ At(w, "idle") /\ ops[r].status # "none"
    /\ Begin(w, r, "claim")
    /\ UNCHANGED <<clock, committed, recorded, manifests, data, ops, objs, lock,
                   arriving, faults>>

InsertOperation(w) ==
    LET me == worker[w] IN
    /\ At(w, "start")
    /\ ops' = IF ops[me.r].status # "none" THEN ops
              ELSE [ops EXCEPT ![me.r] = [status |-> "planned",
                                          deadline |-> me.now + SafetyWindow]]
    /\ Goto(w, "claim")
    /\ UNCHANGED <<clock, committed, recorded, manifests, data, objs, lock,
                   arriving, faults>>

ClaimLock(w) ==
    LET free == lock = NoLock \/ lock.expires <= worker[w].now IN
    /\ At(w, "claim")
    /\ lock' = IF free THEN [holder |-> w, expires |-> worker[w].now + Lease] ELSE lock
    /\ Goto(w, IF free THEN "scan" ELSE "busy")
    /\ UNCHANGED <<clock, committed, recorded, manifests, data, ops, objs,
                   arriving, faults>>

\* renew: succeeds while nobody else took the lock, expired or not.
Renewed(w) == [lock EXCEPT !.expires = IF lock.holder = w THEN clock + Lease ELSE @]

RenewForDiscovery(w) ==
    /\ At(w, "scan")
    /\ lock' = Renewed(w)
    /\ Goto(w, IF lock.holder = w THEN "discover" ELSE "busy")
    /\ UNCHANGED <<clock, committed, recorded, manifests, data, ops, objs,
                   arriving, faults>>

\* A manifest whose data is missing makes the whole discovery fail.
DiscoverPlans(w) ==
    LET hit == {k \in DOMAIN manifests : ItemsOf(k) \cap Matches[worker[w].r] # {}} IN
    /\ At(w, "discover")
    /\ worker' = IF \A k \in DOMAIN manifests : Readable(k)
                 THEN [worker EXCEPT ![w].pc = "plan", ![w].plans = hit]
                 ELSE [worker EXCEPT ![w].pc = "scan_failed"]
    /\ UNCHANGED <<clock, committed, recorded, manifests, data, ops, objs, lock,
                   arriving, faults>>

RecordDiscoveryFailure(w) ==
    /\ At(w, "scan_failed")
    /\ ops' = [ops EXCEPT ![worker[w].r].status = "incomplete"]
    /\ Goto(w, "unlock")
    /\ UNCHANGED <<clock, committed, recorded, manifests, data, objs, lock,
                   arriving, faults>>

\* INSERT OR IGNORE of every plan, then the rows of the operation are read.
InsertPlans(w) ==
    LET me == worker[w]
        planned == [k \in me.plans \cup DOMAIN objs[me.r] |->
                      IF k \in DOMAIN objs[me.r] THEN objs[me.r][k] ELSE PlannedRow]
    IN
    /\ At(w, "plan")
    /\ objs' = [objs EXCEPT ![me.r] = planned]
    /\ worker' = [worker EXCEPT ![w].pc = "next",
                                ![w].todo = {<<k, planned[k]>> : k \in DOMAIN planned}]
    /\ UNCHANGED <<clock, committed, recorded, manifests, data, ops, lock,
                   arriving, faults>>

\* Where processObject goes with a row, given whether the discovery saw it.
Entry(me, k, row) ==
    IF row.state = "data_deleted" THEN "next"
    ELSE IF row.state = "incomplete" THEN "recover"
    ELSE IF row.state # "planned" THEN "validate"
    ELSE IF k \notin me.plans THEN "fail"
    ELSE IF row.repl THEN "validate"
    ELSE IF Retained(k, me.r) = {} THEN "record_replacement" ELSE "put_data"

\* renew, then the next row as it was read.
NextRow(w) ==
    LET me == worker[w] IN
    /\ At(w, "next") /\ me.todo # {}
    /\ lock' = Renewed(w)
    /\ \/ lock.holder # w /\ Goto(w, "busy")
       \/ /\ lock.holder = w
          /\ \E x \in me.todo :
               worker' = [worker EXCEPT ![w] =
                 [me EXCEPT !.pc = Entry(me, x[1], x[2]), !.key = x[1], !.row = x[2],
                            !.todo = @ \ {x},
                            !.done = @ \cup ({x[2].state} \cap {"data_deleted"})]]
    /\ UNCHANGED <<clock, committed, recorded, manifests, data, ops, objs, arriving, faults>>

\* updateObject: write some columns of the row in hand, read it back, go on.
\* Rows that are done leave their state behind.
UpdateObject(w, row, pc, done) ==
    LET me == worker[w] IN
    /\ objs' = [objs EXCEPT ![me.r][me.key] = row]
    /\ worker' = [worker EXCEPT ![w] = [me EXCEPT !.row = row, !.pc = pc,
                                                  !.done = @ \cup done]]
    /\ UNCHANGED <<clock, committed, recorded, manifests, data, ops, lock,
                   arriving, faults>>

Stored(w) == objs[worker[w].r][worker[w].key]

\* An incomplete row resumes from its durable lineage.
RecoverRow(w) ==
    LET me == worker[w]
        as(state) == [Stored(w) EXCEPT !.state = state]
        to(state) == UpdateObject(w, as(state), Entry(me, me.key, as(state)), {})
    IN
    /\ At(w, "recover")
    /\ \/ me.row.mdel /\ to("manifest_deleted")
       \/ ~me.row.mdel /\ me.row.repl /\ to("replacement_written")
       \/ ~me.row.mdel /\ ~me.row.repl /\ me.key \in me.plans /\ to("planned")
       \/ /\ ~me.row.mdel /\ ~me.row.repl /\ me.key \notin me.plans
          /\ worker' = [worker EXCEPT ![w].pc = "next", ![w].done = @ \cup {"incomplete"}]
          /\ UNCHANGED <<clock, committed, recorded, manifests, data, ops, objs,
                         lock, arriving, faults>>

\* Mutant: the replacement counts as written once its data object is there.
PutDataOnly(w) ==
    /\ At(w, "put_data")
    /\ data' = data \cup {ReplacementKey(worker[w].key, worker[w].r)}
    /\ Goto(w, "record_replacement")
    /\ UNCHANGED <<clock, recorded, manifests, ops, objs, lock, arriving, faults>>
    /\ NoteReadable

\* archiveCanonicalEventBatch puts the data object, then the manifest, each only
\* if absent; a manifest already there must carry the same archived_at.
PutReplacementData(w) ==
    /\ At(w, "put_data")
    /\ data' = data \cup {ReplacementKey(worker[w].key, worker[w].r)}
    /\ Goto(w, "put_manifest")
    /\ UNCHANGED <<clock, recorded, manifests, ops, objs, lock,
                   arriving, faults>>
    /\ NoteReadable

WithManifest(k, t) == IF k \in DOMAIN manifests THEN manifests
                      ELSE [x \in DOMAIN manifests \cup {k} |->
                              IF x = k THEN t ELSE manifests[x]]

PutReplacementManifest(w) ==
    LET me == worker[w]
        new == ReplacementKey(me.key, me.r)
    IN
    /\ At(w, "put_manifest")
    /\ manifests' = WithManifest(new, me.now)
    /\ Goto(w, IF manifests'[new] = me.now /\ new \in data THEN "record_replacement"
               ELSE "fail")
    /\ UNCHANGED <<clock, recorded, data, ops, objs, lock, arriving, faults>>
    /\ NoteReadable

RecordReplacement(w) ==
    LET me == worker[w] IN
    /\ At(w, "record_replacement")
    /\ UpdateObject(w, [Stored(w) EXCEPT !.state = "replacement_written",
                                         !.repl = @ \/ Retained(me.key, me.r) # {}],
                    "delete_manifest", {})

\* validateReplacement: an earlier run, or another execution, wrote the
\* replacement.  A row that is still planned is left at that.
ValidateReplacement(w) ==
    LET me == worker[w]
        valid == IF me.row.repl THEN Readable(ReplacementKey(me.key, me.r))
                 ELSE Retained(me.key, me.r) = {}
    IN
    /\ At(w, "validate")
    /\ \/ ~valid /\ Goto(w, "fail")
       \/ valid /\ me.row.state = "replacement_written" /\ Goto(w, "delete_manifest")
       \/ valid /\ me.row.state = "manifest_deleted" /\ Goto(w, "delete_data")
       \/ /\ valid /\ me.row.state = "planned"
          /\ worker' = [worker EXCEPT ![w].pc = "next", ![w].done = @ \cup {"planned"}]
    /\ UNCHANGED <<clock, committed, recorded, manifests, data, ops, objs, lock,
                   arriving, faults>>

DeleteManifest(w) ==
    /\ At(w, "delete_manifest")
    /\ manifests' = Restrict(manifests, DOMAIN manifests \ {worker[w].key})
    /\ Goto(w, "record_manifest")
    /\ UNCHANGED <<clock, committed, recorded, data, ops, objs, lock, arriving, faults>>

RecordManifestDeleted(w) ==
    /\ At(w, "record_manifest")
    /\ UpdateObject(w, [Stored(w) EXCEPT !.state = "manifest_deleted", !.mdel = TRUE],
                    "delete_data", {})

\* Before the deadline the row rests as manifest_deleted.
AwaitDeadline(w) ==
    /\ At(w, "delete_data") /\ worker[w].now < ops[worker[w].r].deadline
    /\ worker' = [worker EXCEPT ![w].pc = "next", ![w].done = @ \cup {"manifest_deleted"}]
    /\ UNCHANGED <<clock, committed, recorded, manifests, data, ops, objs, lock,
                   arriving, faults>>

DeleteData(w) ==
    /\ At(w, "delete_data") /\ worker[w].now >= ops[worker[w].r].deadline
    /\ data' = data \ {worker[w].key}
    /\ Goto(w, "record_data")
    /\ UNCHANGED <<clock, committed, recorded, manifests, ops, objs, lock,
                   arriving, faults>>

RecordDataDeleted(w) ==
    /\ At(w, "record_data")
    /\ UpdateObject(w, [Stored(w) EXCEPT !.state = "data_deleted"], "next",
                    {"data_deleted"})

RecordIncomplete(w) ==
    /\ At(w, "fail")
    /\ UpdateObject(w, [Stored(w) EXCEPT !.state = "incomplete"], "next",
                    {"incomplete"})

FinalStatus(me) ==
    IF "incomplete" \in me.done THEN "incomplete"
    ELSE IF me.done \subseteq {"data_deleted"} THEN "complete"
    ELSE IF me.now < ops[me.r].deadline THEN "pending_deletion" ELSE "rewritten"

FinishOperation(w) ==
    /\ At(w, "next") /\ worker[w].todo = {}
    /\ ops' = [ops EXCEPT ![worker[w].r].status = FinalStatus(worker[w])]
    /\ Goto(w, "unlock")
    /\ UNCHANGED <<clock, committed, recorded, manifests, data, objs, lock,
                   arriving, faults>>

ReleaseLock(w) ==
    /\ At(w, "unlock")
    /\ lock' = IF lock.holder = w THEN NoLock ELSE lock
    /\ worker' = [worker EXCEPT ![w] = IdleWorker]
    /\ UNCHANGED <<clock, committed, recorded, manifests, data, ops, objs,
                   arriving, faults>>

\* archive_busy, from the claim or from a renewal, marks the operation whoever
\* is working on it.
RecordBusy(w) ==
    /\ At(w, "busy")
    /\ ops' = [ops EXCEPT ![worker[w].r].status = "incomplete"]
    /\ worker' = [worker EXCEPT ![w] = IdleWorker]
    /\ UNCHANGED <<clock, committed, recorded, manifests, data, objs, lock,
                   arriving, faults>>
-----------------------------------------------------------------------------
(* The environment.                                                         *)

\* An R2 request throws, whether or not it took effect.
RequestFails(w) ==
    LET me == worker[w] IN
    /\ faults < MaxFaults
    /\ faults' = faults + 1
    /\ \/ At(w, "discover") /\ Goto(w, "scan_failed") /\ UNCHANGED <<manifests, data>>
       \/ /\ \/ me.pc \in {"put_data", "put_manifest", "validate", "delete_manifest"}
             \/ me.pc = "delete_data" /\ me.now >= ops[me.r].deadline
          /\ Goto(w, "fail")
          /\ \/ UNCHANGED <<manifests, data>>
             \/ /\ me.pc = "put_data"
                /\ data' = data \cup {ReplacementKey(me.key, me.r)}
                /\ UNCHANGED manifests
             \/ /\ me.pc = "put_manifest"
                /\ manifests' = WithManifest(ReplacementKey(me.key, me.r), me.now)
                /\ UNCHANGED data
             \/ /\ me.pc = "delete_manifest"
                /\ manifests' = Restrict(manifests, DOMAIN manifests \ {me.key})
                /\ UNCHANGED data
             \/ /\ me.pc = "delete_data"
                /\ data' = data \ {me.key}
                /\ UNCHANGED manifests
    /\ UNCHANGED <<clock, recorded, ops, objs, lock, arriving>>
    /\ NoteReadable

\* An execution dies; its lock stays until the lease ends.  (Bound: the lease
\* ends before the clock does.)
Crash(w) ==
    /\ ~At(w, "idle") /\ faults < MaxFaults /\ clock + Lease <= MaxClock
    /\ faults' = faults + 1
    /\ worker' = [worker EXCEPT ![w] = IdleWorker]
    /\ lock' = IF lock.holder = w THEN [lock EXCEPT !.holder = "nobody"] ELSE lock
    /\ UNCHANGED <<clock, committed, recorded, manifests, data, ops, objs, arriving>>

\* archiveCanonicalEventBatch for a batch of the gateway, new or submitted again
\* with the archived_at it had: the data, then the manifest, if absent.
IngestData(b) ==
    /\ b \notin arriving
    /\ Original(b) \in committed => faults < MaxFaults
    /\ faults' = faults + (IF Original(b) \in committed THEN 1 ELSE 0)
    /\ data' = data \cup {Original(b)}
    /\ arriving' = arriving \cup {b}
    /\ UNCHANGED <<clock, recorded, manifests, ops, objs, lock, worker>>
    /\ NoteReadable

IngestManifest(b) ==
    /\ b \in arriving
    /\ manifests' = WithManifest(Original(b), 0)
    /\ arriving' = arriving \ {b}
    /\ UNCHANGED <<clock, recorded, data, ops, objs, lock, worker, faults>>
    /\ NoteReadable

\* No execution outlives RunLimit.
Tick ==
    /\ clock < MaxClock
    /\ \A w \in Workers : At(w, "idle") \/ clock < worker[w].now + RunLimit
    /\ clock' = clock + 1
    /\ UNCHANGED <<committed, recorded, manifests, data, ops, objs, lock, worker,
                   arriving, faults>>
-----------------------------------------------------------------------------
PurgeStep(w) ==
    \/ InsertOperation(w) \/ ClaimLock(w) \/ RenewForDiscovery(w)
    \/ DiscoverPlans(w) \/ RecordDiscoveryFailure(w) \/ InsertPlans(w)
    \/ NextRow(w) \/ RecoverRow(w) \/ PutReplacementData(w)
    \/ PutReplacementManifest(w) \/ RecordReplacement(w) \/ ValidateReplacement(w)
    \/ DeleteManifest(w) \/ RecordManifestDeleted(w) \/ AwaitDeadline(w)
    \/ DeleteData(w) \/ RecordDataDeleted(w) \/ RecordIncomplete(w)
    \/ FinishOperation(w) \/ ReleaseLock(w) \/ RecordBusy(w)

Next ==
    \/ \E w \in Workers : PurgeStep(w) \/ RequestFails(w) \/ Crash(w)
    \/ \E w \in Workers, r \in Removals : RecordRemoval(w, r) \/ ScheduledPurge(w, r)
    \/ \E b \in Batches : IngestData(b) \/ IngestManifest(b)
    \/ Tick

Spec == Init /\ [][Next]_vars

\* Started executions go on, the gateway submits a batch until it is committed,
\* the clock runs, and the tick comes to every operation (it lists all of them,
\* the longest untouched first).
FairSpec ==
    /\ Spec
    /\ \A w \in Workers : WF_vars(PurgeStep(w))
    /\ \A r \in Removals : SF_vars(\E w \in Workers : ScheduledPurge(w, r))
    /\ \A b \in Batches : WF_vars(IngestManifest(b))
    /\ WF_vars(Tick)
-----------------------------------------------------------------------------
Worker == [pc : PCs, r : Removals \cup {NoRemoval}, now : Nat, plans : SUBSET Keys,
           todo : SUBSET (Keys \X Rows), key : Keys, row : Rows, done : SUBSET RowStates]

TypeOK ==
    /\ clock \in Nat /\ faults \in Nat
    /\ committed \subseteq Keys /\ data \subseteq Keys /\ recorded \subseteq Removals
    /\ DOMAIN manifests \subseteq Keys /\ manifests \in [DOMAIN manifests -> Nat]
    /\ ops \in [Removals -> [status : OpStates, deadline : Nat]]
    /\ objs = [r \in Removals |-> objs[r]]
    /\ \A r \in Removals : /\ DOMAIN objs[r] \subseteq Keys
                           /\ objs[r] \in [DOMAIN objs[r] -> Rows]
    /\ lock \in [holder : Workers \cup {"nobody"}, expires : Nat]
    /\ worker \in [Workers -> Worker] /\ arriving \subseteq Batches

\* Rewriting never loses what no removal took away: an item that was ever
\* readable in the archive and that no recorded removal matches is readable in
\* some committed batch, whatever overlaps, lost leases, deaths, failed requests
\* and late or repeated batches the purge meets.
NoRetainedItemLost ==
    \A k \in committed : \A i \in ItemsOf(k) :
        (\A r \in recorded : i \notin Matches[r])
        => \E x \in DOMAIN manifests : Readable(x) /\ i \in ItemsOf(x)

\* A removal that a route recorded is carried out: from some time on no data
\* object of the archive holds an item it matches, late batches included.
PurgeErases ==
    \A r \in Removals :
        <>(r \in recorded) => <>[](\A k \in data : ItemsOf(k) \cap Matches[r] = {})
=============================================================================
