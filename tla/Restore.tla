------------------------------ MODULE Restore ------------------------------
(***************************************************************************)
(* Rebuilding the projection of one tenant from its archive, under the     *)
(* removal ledger (apps/control-plane/worker/restore, archive/reader.ts    *)
(* and replay.ts, and the rebuild lifecycle of projection/                 *)
(* tenant-projection.ts).                                                  *)
(*                                                                         *)
(* The archive maps manifest keys, ordered as R2 lists them, to the events *)
(* of the batch; no events means no manifest.  Batches arrive, their       *)
(* pointers wait in the queue and are applied to the projection while it   *)
(* is ready.  A removal enters the ledger through the administrator route, *)
(* which also purges it from the archive, or through a deletion event of a *)
(* batch, which does not.  A restore request takes the activation lease,   *)
(* clears the projection, replays the archive page by page and publishes   *)
(* the new generation; it may die, fail, be repeated with the same rebuild *)
(* id, or outlive its lease.                                               *)
(***************************************************************************)
EXTENDS Integers, FiniteSets, FiniteSetsExt

CONSTANTS
    Manifests,      \* manifest keys, 1..n in listing order
    Archivable,     \* the keys among them of batches the gateway submits
    EventsOf,       \* Archivable -> the events of the batch
    Removables,     \* the events removals name
    Deletes,        \* event -> the removable events its deletion marker names
    Rebuilds,       \* rebuild ids administrators choose
    Restorers,      \* concurrent executions of restoreProjectionFromArchive
    MaxRestoreMishaps   \* bound on deaths, failing requests and lapsed leases

AllEvents == UNION {EventsOf[b] : b \in Archivable}

ASSUME RestoreConstants ==
    /\ IsFiniteSet(Manifests) /\ Manifests = 1..Cardinality(Manifests)
    /\ IsFiniteSet(Removables) /\ Deletes \in [AllEvents -> SUBSET Removables]
    /\ Archivable \subseteq Manifests
    /\ "none" \notin Rebuilds \cup Restorers
    /\ MaxRestoreMishaps \in Nat

VARIABLES
    archived,       \* R2: key -> the events of its committed batch
    pointers,       \* the queue: key -> what became of the batch's pointer
    removals,       \* removal_authority: event -> "none" or its purge status
    epoch,          \* MAX(deletion_epoch)
    purge,          \* the batch a purge is rewriting
    activation,     \* restore_activation_leases: who holds the active lease
    projection,     \* projection_meta, the replay checkpoint, the shown events
    restorers,      \* the restore requests between two calls
    straddled,      \* history: resumed under another ledger than it began with
    begunUnder,     \* history: the removals loaded when the rebuild began
    restoreMishaps

restoreVars == <<archived, pointers, removals, epoch, purge, activation, projection,
                 restorers, straddled, begunUnder, restoreMishaps>>
-----------------------------------------------------------------------------
Removed == {e \in Removables : removals[e] # "none"}

PurgeStates == {"none", "no_operation", "purging", "complete"}

PointerStates == {"absent", "queued", "prepared", "acked", "dead"}

Start == 0                              \* source_cursor null
Terminal == Cardinality(Manifests) + 1  \* checkpoint value "terminal"
Cursors == Start..Terminal

NoPage == [source |-> Start, key |-> Start, events |-> {}, next |-> Start, sane |-> TRUE]

\* projection_checkpoints, kind r2_manifest_cursor.  The digest covers the
\* source cursor and the whole page.
NoCheckpoint == [value |-> Start, page |-> NoPage]

IdleRestorer ==
    [phase |-> "idle", rebuild |-> "none", expected |-> 0, authority |-> {},
     epoch |-> 0, begun |-> FALSE, cursor |-> Start, page |-> NoPage]

NoPurge == [event |-> "none", from |-> 0, to |-> 0]

RestoreInit ==
    /\ archived = [k \in Manifests |-> {}]
    /\ pointers = [b \in Archivable |-> "absent"]
    /\ removals = [e \in Removables |-> "none"]
    /\ epoch = 0
    /\ purge = NoPurge
    /\ activation = "none"
    /\ projection = [state |-> "ready", generation |-> 1, rebuild |-> "none",
                     completed |-> {}, failed |-> {}, latest |-> "none",
                     checkpoint |-> NoCheckpoint, shown |-> {}]
    /\ restorers = [c \in Restorers |-> IdleRestorer]
    /\ straddled = FALSE
    /\ begunUnder = {}
    /\ restoreMishaps = 0
-----------------------------------------------------------------------------
(* Removal authority.                                                        *)

\* restoreActivationLeaseIsActive
leaseIsActive == activation # "none"

\* recordRemoval.  The epoch is allocated by INSERT ... SELECT MAX + 1; the
\* test for an active lease stands in the WHERE of the aggregate, so under a
\* lease the row is still inserted, with epoch 1.
recordedEpoch(new) ==
    IF new = {} THEN epoch
    ELSE IF ~leaseIsActive THEN epoch + Cardinality(new)
    ELSE Max({epoch, 1})

\* #recordRemovedEvents: the removals the deletion markers of these events
\* name.  They get no archive_purge_operations row.
recordRemovedEvents(events) ==
    LET new == (UNION {Deletes[e] : e \in events}) \ Removed
    IN  /\ removals' = [e \in Removables |-> IF e \in new THEN "no_operation" ELSE removals[e]]
        /\ epoch' = recordedEpoch(new)

\* recordRemovalHandler: records the authority or finds it, and opens its
\* purge.
recordRemovalWithArchivePurge(e) ==
    /\ removals[e] \in {"none", "no_operation"}
    /\ removals' = [removals EXCEPT ![e] = "purging"]
    /\ epoch' = recordedEpoch({e} \ Removed)
    /\ UNCHANGED <<archived, pointers, purge, activation, projection, restorers, straddled,
                   begunUnder, restoreMishaps>>

\* writeReplacement: the events that stay are committed under a key that
\* hashes the operation, so anywhere in the listing order.  (One purge works
\* at a time: ArchivePurge models the lock and the rows.)
writeReplacement(e) ==
    /\ removals[e] = "purging" /\ purge = NoPurge
    /\ \E k \in Manifests, to \in Manifests \ Archivable :
        /\ e \in archived[k] /\ archived[to] = {}
        /\ purge' = [event |-> e, from |-> k, to |-> to]
        /\ archived' = [archived EXCEPT ![to] = archived[k] \ {e}]
    /\ UNCHANGED <<pointers, removals, epoch, activation, projection, restorers,
                   straddled, begunUnder, restoreMishaps>>

\* processObject deletes the original manifest.
deleteOriginalManifest ==
    /\ purge # NoPurge
    /\ archived' = [archived EXCEPT ![purge.from] = {}]
    /\ purge' = NoPurge
    /\ UNCHANGED <<pointers, removals, epoch, activation, projection, restorers, straddled,
                   begunUnder, restoreMishaps>>

\* finishOperation: no committed batch holds the event any more.
finishPurge(e) ==
    /\ removals[e] = "purging" /\ purge = NoPurge
    /\ \A k \in Manifests : e \notin archived[k]
    /\ removals' = [removals EXCEPT ![e] = "complete"]
    /\ UNCHANGED <<archived, pointers, epoch, purge, activation, projection, restorers,
                   straddled, begunUnder, restoreMishaps>>
-----------------------------------------------------------------------------
(* Batches and the queue.  ArchiveIngest models the steps of the route.      *)

\* createIngestionBatchHandler: the batch is committed, then its pointer sent.
ingest(b) ==
    /\ pointers[b] = "absent"
    /\ archived' = [archived EXCEPT ![b] = EventsOf[b]]
    /\ pointers' = [pointers EXCEPT ![b] = "queued"]
    /\ UNCHANGED <<removals, epoch, purge, activation, projection, restorers, straddled,
                   begunUnder, restoreMishaps>>

\* applyBatch up to the transaction: the batch is read from the archive, the
\* projection was ready, and the removals its markers name are recorded.
prepareLive(b) ==
    /\ pointers[b] = "queued"
    /\ archived[b] # {} /\ projection.state = "ready"
    /\ recordRemovedEvents(archived[b])
    /\ pointers' = [pointers EXCEPT ![b] = "prepared"]
    /\ UNCHANGED <<archived, purge, activation, projection, restorers, straddled,
                   begunUnder, restoreMishaps>>

\* #applyPreparedBatch, live: the transaction finds the projection ready,
\* applies the events and the redactions follow; the message is acknowledged.
\* Otherwise it is retried.
applyLive(b) ==
    /\ pointers[b] = "prepared"
    /\ \/ /\ projection.state = "ready"
          /\ projection' = [projection EXCEPT !.shown = (@ \cup EventsOf[b]) \ Removed]
          /\ pointers' = [pointers EXCEPT ![b] = "acked"]
       \/ /\ projection.state # "ready"
          /\ pointers' = [pointers EXCEPT ![b] = "queued"]
          /\ UNCHANGED projection
    /\ UNCHANGED <<archived, removals, epoch, purge, activation, restorers, straddled,
                   begunUnder, restoreMishaps>>

\* The retry budget of the pointer runs out while the batch cannot be applied.
deadLetter(b) ==
    /\ pointers[b] = "queued"
    /\ archived[b] = {} \/ projection.state # "ready"
    /\ pointers' = [pointers EXCEPT ![b] = "dead"]
    /\ UNCHANGED <<archived, removals, epoch, purge, activation, projection, restorers,
                   straddled, begunUnder, restoreMishaps>>
-----------------------------------------------------------------------------
(* The projection's side of a rebuild.                                       *)

\* clearDerivedProjectionData
cleared(p) == [p EXCEPT !.checkpoint = NoCheckpoint, !.shown = {}]

\* beginRebuild finds the same rebuild under way.
resumes(p, r, expected) ==
    p.state = "rebuilding" /\ p.rebuild = r /\ p.generation = expected + 1

\* beginRebuild may start r.
begins(p, r, expected) ==
    /\ p.state \in {"ready", "rebuild_failed"}
    /\ p.generation = expected
    /\ r \notin p.completed \cup p.failed

beginRebuild(p, r) ==
    [cleared(p) EXCEPT !.state = "rebuilding", !.generation = @ + 1, !.rebuild = r]

\* Mutant: abortRebuild only compares the rebuild id with the last one known.
abortLatest(p, r) ==
    IF p.rebuild = r \/ p.latest = r
    THEN [cleared(p) EXCEPT !.state = "rebuild_failed", !.rebuild = "none", !.failed = @ \cup {r}]
    ELSE p

\* abortRebuild: only the rebuild under way; any other call is refused.
abortRebuild(p, r) ==
    IF p.state = "rebuilding" /\ p.rebuild = r
    THEN [cleared(p) EXCEPT !.state = "rebuild_failed", !.rebuild = "none", !.failed = @ \cup {r}]
    ELSE p

\* completeRebuild, inside the transaction.
completes(p, r) ==
    /\ p.state = "rebuilding" /\ p.rebuild = r
    /\ p.checkpoint.value = Terminal

completeRebuild(p, r) ==
    [p EXCEPT !.state = "ready", !.rebuild = "none", !.completed = @ \cup {r}, !.latest = r]

\* applyReplayPage before its transaction: the rebuild is the caller's, the
\* manifests announce as many events as the page carries, and only an empty
\* terminal page carries none.
admitsPage(p, r, page) ==
    /\ p.state = "rebuilding" /\ p.rebuild = r
    /\ page.sane /\ (page.key = Start => page.next = Terminal)

\* #applyPreparedBatch, replay: the page was applied before.
repeatsPage(p, page) == p.checkpoint # NoCheckpoint /\ p.checkpoint.page = page

\* ... or it starts where the last one ended.
adjacentPage(p, page) ==
    IF p.checkpoint = NoCheckpoint THEN page.source = Start
    ELSE /\ p.checkpoint.page.source # page.source
         /\ p.checkpoint.value = page.source

takesPage(p, r, page) ==
    /\ admitsPage(p, r, page)
    /\ repeatsPage(p, page) \/ adjacentPage(p, page)

\* #writeReplayCheckpoint
replayCheckpoint(page) == [value |-> page.next, page |-> page]

\* The events and the checkpoint, in one transaction.
applyPage(p, page) ==
    IF repeatsPage(p, page) THEN p
    ELSE [p EXCEPT !.shown = @ \cup page.events, !.checkpoint = replayCheckpoint(page)]
-----------------------------------------------------------------------------
(* restoreProjectionFromArchive.  A restorer stands between two calls.        *)

Phase(c, phase) == restorers[c].phase = phase

Proceed(c, phase) == restorers' = [restorers EXCEPT ![c].phase = phase]

\* finally: release the lease, if it is still this request's.  A request that
\* waits for the lease has none to release.
released(c) == IF activation = c /\ ~Phase(c, "lease") THEN "none" ELSE activation

\* catch and finally: abort what this request began or resumed, release the
\* lease.  (The two calls touch different stores and no step tells their
\* order.)
RestoreFails(c) ==
    /\ projection' = IF restorers[c].begun THEN abortRebuild(projection, restorers[c].rebuild)
                     ELSE projection
    /\ activation' = released(c)
    /\ restorers' = [restorers EXCEPT ![c] = IdleRestorer]
    /\ UNCHANGED <<straddled, begunUnder>>

\* The part of the state that no step of a request changes.
WorldUnchanged == UNCHANGED <<archived, pointers, purge, restoreMishaps>>

LedgerUnchanged == UNCHANGED <<removals, epoch>>

\* archiveEvidenceFor: the latest purge operation of the removal is complete.
archivePurged(e) == removals[e] = "complete"

\* statusForStore: a store is complete when its inventory is (it always is
\* here) and every removal is complete, which counts the canonical archive.
storesComplete(authority) == \A e \in authority : archivePurged(e)

\* createRestoreAuthorityExport.  It compares the ledger before and after the
\* inventories, so it is one read.
restoreAuthorityExport ==
    [authority |-> Removed, epoch |-> epoch, stores |-> storesComplete(Removed)]

\* restoreReadinessForTenant: no store of the export is incomplete.
restoreReady(export) == export.stores

\* loadRestoreAuthority, the export and the readiness report, which must agree
\* on the epoch.  The administrator sends a rebuild id and a generation that
\* fit the status they last saw.
requestRestore(c, r, expected) ==
    /\ Phase(c, "idle")
    /\ resumes(projection, r, expected) \/ begins(projection, r, expected)
    /\ restoreReady(restoreAuthorityExport)
    /\ restorers' = [restorers EXCEPT ![c] =
                        [IdleRestorer EXCEPT !.phase = "lease", !.rebuild = r, !.expected = expected,
                                             !.authority = restoreAuthorityExport.authority,
                                             !.epoch = restoreAuthorityExport.epoch]]
    /\ WorldUnchanged /\ LedgerUnchanged
    /\ UNCHANGED <<activation, projection, straddled, begunUnder>>

\* acquireRestoreActivationLease: the epoch is the one loaded and nobody holds
\* a lease.
acquireLease(c) ==
    /\ Phase(c, "lease")
    /\ WorldUnchanged /\ LedgerUnchanged
    /\ \/ /\ ~leaseIsActive /\ epoch = restorers[c].epoch
          /\ activation' = c
          /\ Proceed(c, "begin")
          /\ UNCHANGED <<projection, straddled, begunUnder>>
       \/ /\ leaseIsActive \/ epoch # restorers[c].epoch
          /\ RestoreFails(c)

\* getStatus and beginRebuild.  A rebuild under way is resumed at its
\* checkpoint; one whose replay is over goes straight to activation.
begin(c) ==
    LET me == restorers[c]
        resumed == projection.checkpoint.value
    IN  /\ Phase(c, "begin")
        /\ WorldUnchanged /\ LedgerUnchanged
        /\ \/ /\ resumes(projection, me.rebuild, me.expected)
              /\ restorers' = [restorers EXCEPT ![c] =
                    [me EXCEPT !.begun = TRUE, !.cursor = IF resumed = Terminal THEN Start ELSE resumed,
                               !.phase = IF resumed = Terminal THEN "final" ELSE "read"]]
              /\ straddled' = (straddled \/ me.authority # begunUnder)
              /\ UNCHANGED <<projection, activation, begunUnder>>
           \/ /\ begins(projection, me.rebuild, me.expected)
              /\ projection' = beginRebuild(projection, me.rebuild)
              /\ restorers' = [restorers EXCEPT ![c] =
                    [me EXCEPT !.begun = TRUE, !.phase = "read"]]
              /\ straddled' = FALSE /\ begunUnder' = me.authority
              /\ UNCHANGED activation
           \/ /\ ~resumes(projection, me.rebuild, me.expected)
              /\ ~begins(projection, me.rebuild, me.expected)
              /\ RestoreFails(c)

\* renewRestoreActivationLease: the token is that of the active lease.
holdsLease(c) == activation = c

\* sanitizeArchiveEvents: removed events are dropped, deletion markers stay.
sanitized(events) == events \ Removed

\* listCommittedManifestPage: the manifests R2 lists after the cursor.
listedAfter(cursor) == {k \in Manifests : k > cursor /\ archived[k] # {}}

\* Mutant: a page that is full is taken for the last.
firstPageOnly(cursor) ==
    LET listed == listedAfter(cursor)
        key == IF listed = {} THEN Start ELSE Min(listed)
    IN  [source |-> cursor, key |-> key,
         events |-> IF key = Start THEN {} ELSE sanitized(archived[key]),
         next |-> IF Cardinality(listed) <= 2 THEN Terminal ELSE key,
         sane |-> key # Start => sanitized(archived[key]) = archived[key]]

\* readReplayPage, one manifest per page, and what the sanitizer leaves of it;
\* the manifest still counts the events that were dropped.
replayPage(cursor) ==
    LET listed == listedAfter(cursor)
        key == IF listed = {} THEN Start ELSE Min(listed)
    IN  [source |-> cursor, key |-> key,
         events |-> IF key = Start THEN {} ELSE sanitized(archived[key]),
         next |-> IF Cardinality(listed) <= 1 THEN Terminal ELSE key,
         sane |-> key # Start => sanitized(archived[key]) = archived[key]]

\* readRestoreReplayPage under a renewed lease.  A page read while the ledger
\* changed is refused, so the page that is kept is one read.
readPage(c) ==
    /\ Phase(c, "read")
    /\ WorldUnchanged /\ LedgerUnchanged
    /\ \/ /\ holdsLease(c)
          /\ restorers' = [restorers EXCEPT ![c].phase = "apply",
                                            ![c].page = replayPage(restorers[c].cursor)]
          /\ UNCHANGED <<activation, projection, straddled, begunUnder>>
       \/ /\ ~holdsLease(c)
          /\ RestoreFails(c)

\* The loop over the pages ends with the page that has no next cursor.
turnPage(c, page) ==
    restorers' = [restorers EXCEPT ![c].page = NoPage,
        ![c].phase = IF page.next = Terminal THEN "final" ELSE "read",
        ![c].cursor = IF page.next = Terminal THEN Start ELSE page.next]

\* applyReplayPage.  The removals its markers name are recorded first, under
\* the lease; the redactions of the whole ledger follow the transaction.
applyReplayPage(c) ==
    LET me == restorers[c]
        page == me.page
    IN  /\ Phase(c, "apply")
        /\ WorldUnchanged
        /\ IF admitsPage(projection, me.rebuild, page)
           THEN recordRemovedEvents(page.events) ELSE LedgerUnchanged
        /\ \/ /\ takesPage(projection, me.rebuild, page)
              /\ projection' = [applyPage(projection, page) EXCEPT !.shown =
                                    @ \ {e \in Removables : removals'[e] # "none"}]
              /\ turnPage(c, page)
              /\ UNCHANGED <<activation, straddled, begunUnder>>
           \/ /\ ~takesPage(projection, me.rebuild, page)
              /\ RestoreFails(c)

\* sameAuthority
sameAuthority(c) == Removed = restorers[c].authority

\* Mutant: the ledger is not compared again after the replay.
activateAnyway(c) ==
    /\ Phase(c, "final") /\ holdsLease(c)
    /\ Proceed(c, "complete")
    /\ WorldUnchanged /\ LedgerUnchanged
    /\ UNCHANGED <<activation, projection, straddled, begunUnder>>

\* The lease is renewed and the ledger is the one loaded at the start, before
\* and after the pending webhook deliveries of its removals are cancelled.
\* (The ledger only grows: the second comparison decides.)
checkAuthority(c) ==
    /\ Phase(c, "final")
    /\ WorldUnchanged /\ LedgerUnchanged
    /\ \/ /\ holdsLease(c) /\ sameAuthority(c)
          /\ Proceed(c, "complete")
          /\ UNCHANGED <<activation, projection, straddled, begunUnder>>
       \/ /\ ~holdsLease(c) \/ ~sameAuthority(c)
          /\ RestoreFails(c)

\* renewRestoreActivationLeaseForCompletion.  The epoch and the ledger head of
\* the row are those the request acquired it with, so the token decides.
provesLease(c) == activation = c

\* completeRebuild up to its transaction: the projection answers at once when
\* this rebuild is already published, or renews the lease.
proveLease(c) ==
    /\ Phase(c, "complete")
    /\ WorldUnchanged /\ LedgerUnchanged
    /\ \/ /\ projection.state = "ready" /\ projection.latest = restorers[c].rebuild
          /\ activation' = released(c)
          /\ restorers' = [restorers EXCEPT ![c] = IdleRestorer]
          /\ UNCHANGED <<projection, straddled, begunUnder>>
       \/ /\ projection.state = "rebuilding" /\ projection.rebuild = restorers[c].rebuild
          /\ provesLease(c)
          /\ Proceed(c, "publish")
          /\ UNCHANGED <<activation, projection, straddled, begunUnder>>
       \/ /\ projection.state # "ready" \/ projection.latest # restorers[c].rebuild
          /\ \/ projection.rebuild # restorers[c].rebuild
             \/ ~provesLease(c)
          /\ RestoreFails(c)

\* The transaction of completeRebuild, then finally.
publish(c) ==
    LET r == restorers[c].rebuild
    IN  /\ Phase(c, "publish")
        /\ WorldUnchanged /\ LedgerUnchanged
        /\ \/ /\ completes(projection, r)
              /\ projection' = completeRebuild(projection, r)
              /\ activation' = released(c)
              /\ restorers' = [restorers EXCEPT ![c] = IdleRestorer]
              /\ UNCHANGED <<straddled, begunUnder>>
           \/ /\ projection.state = "ready" /\ projection.latest = r
              /\ activation' = released(c)
              /\ restorers' = [restorers EXCEPT ![c] = IdleRestorer]
              /\ UNCHANGED <<projection, straddled, begunUnder>>
           \/ /\ ~completes(projection, r)
              /\ projection.state # "ready" \/ projection.latest # r
              /\ RestoreFails(c)
-----------------------------------------------------------------------------
(* Deaths and failures.                                                      *)

\* The lease runs out under its holder.
leaseLapses ==
    /\ leaseIsActive /\ restoreMishaps < MaxRestoreMishaps
    /\ activation' = "none" /\ restoreMishaps' = restoreMishaps + 1
    /\ UNCHANGED <<archived, pointers, removals, epoch, purge, projection, restorers,
                   straddled, begunUnder>>

\* A call of the request fails.
restoreCallFails(c) ==
    /\ ~Phase(c, "idle") /\ restoreMishaps < MaxRestoreMishaps
    /\ restoreMishaps' = restoreMishaps + 1
    /\ RestoreFails(c)
    /\ LedgerUnchanged
    /\ UNCHANGED <<archived, pointers, purge>>

\* The execution of the request dies; its lease stays until it lapses.
restorerDies(c) ==
    /\ ~Phase(c, "idle") /\ restoreMishaps < MaxRestoreMishaps
    /\ restoreMishaps' = restoreMishaps + 1
    /\ restorers' = [restorers EXCEPT ![c] = IdleRestorer]
    /\ LedgerUnchanged
    /\ UNCHANGED <<archived, pointers, purge, activation, projection, straddled, begunUnder>>
-----------------------------------------------------------------------------
RestoreStep(c) ==
    \/ acquireLease(c) \/ begin(c) \/ readPage(c) \/ applyReplayPage(c)
    \/ checkAuthority(c) \/ proveLease(c) \/ publish(c)

RestoreNext ==
    \/ \E b \in Archivable : ingest(b) \/ prepareLive(b) \/ applyLive(b) \/ deadLetter(b)
    \/ \E e \in Removables :
        recordRemovalWithArchivePurge(e) \/ writeReplacement(e) \/ finishPurge(e)
    \/ deleteOriginalManifest
    \/ \E c \in Restorers, r \in Rebuilds, g \in {projection.generation, projection.generation - 1} :
        requestRestore(c, r, g)
    \/ \E c \in Restorers : RestoreStep(c) \/ restoreCallFails(c) \/ restorerDies(c)
    \/ leaseLapses

RestoreSpec == RestoreInit /\ [][RestoreNext]_restoreVars
-----------------------------------------------------------------------------
Phases == {"idle", "lease", "begin", "read", "apply", "final", "complete", "publish"}

Pages == [source : Cursors, key : Cursors, events : SUBSET AllEvents, next : Cursors,
          sane : BOOLEAN]

\* Every variable keeps its type, and the rebuild id is set exactly while the
\* projection is rebuilding.
RestoreTypeOK ==
    /\ archived \in [Manifests -> SUBSET AllEvents]
    /\ pointers \in [Archivable -> PointerStates]
    /\ removals \in [Removables -> PurgeStates]
    /\ epoch \in 0..Cardinality(Removables)
    /\ activation \in Restorers \cup {"none"}
    /\ projection.state \in {"ready", "rebuilding", "rebuild_failed"}
    /\ (projection.state = "rebuilding") <=> (projection.rebuild \in Rebuilds)
    /\ projection.checkpoint.value \in Cursors /\ projection.checkpoint.page \in Pages
    /\ projection.shown \subseteq AllEvents
    /\ \A c \in Restorers : restorers[c].phase \in Phases /\ restorers[c].page \in Pages

\* The events of the batches that reached the projection, less those removed.
Acknowledged ==
    (UNION {EventsOf[b] : b \in {b \in Archivable : pointers[b] = "acked"}}) \ Removed

\* A ready projection shows every event of every acknowledged batch that was
\* not removed, whatever rebuilds ran since: the replay of
\* restoreProjectionFromArchive missed none of them, also when a purge moved
\* them, when two requests replayed at once or when one was resumed.  Only a
\* rebuild resumed under another ledger than it began with is left out.
ReadyShowsAcknowledged ==
    projection.state = "ready" /\ ~straddled => Acknowledged \subseteq projection.shown

\* When a request goes on to publish, the replayed projection shows nothing
\* that the ledger removes at that moment, also when the removal was recorded
\* between two pages of the replay.
ActivatedHidesRemovals ==
    [][\A c \in Restorers :
            Phase(c, "final") /\ restorers'[c].phase = "complete" /\ ~straddled
            => projection.shown \cap Removed = {}]_restoreVars

\* An accepted batch stays replayable: at every moment each of its events that
\* was not removed is in a committed batch, also while a purge rewrites it and
\* after its pointer was dead lettered.
AcceptedStaysReplayable ==
    \A b \in Archivable : pointers[b] # "absent" =>
        EventsOf[b] \ Removed \subseteq UNION {archived[k] : k \in Manifests}

\* Nothing that was accepted is lost: it is replayable, and shown once it was
\* acknowledged and the projection is ready, unless the rebuild that made it
\* ready was resumed under another ledger.
AcceptedIsNotLost == ReadyShowsAcknowledged /\ AcceptedStaysReplayable

\* A published generation is only replaced by a later rebuild: no request that
\* failed late, lost its lease or was repeated turns it into rebuild_failed or
\* clears it under the same generation.
PublishedIsNeverUndone ==
    [][projection.state = "ready" /\ projection'.state # "ready" =>
            /\ projection'.state = "rebuilding"
            /\ projection'.generation = projection.generation + 1]_restoreVars

\* T21, docs/planning/2026-09-13-agent-messaging-tickets.md:994: "Retained records from mixed
\* archive replacements restore with identity, order, and revision intact."
\* It does not hold: a request dies after a page, a removal is recorded and its purge
\* moves the events that stay to a key before the checkpoint, and the repeated
\* request resumes behind it.
RetainedRecordsRestore ==
    projection.state = "ready" => Acknowledged \subseteq projection.shown

\* T21, docs/planning/2026-09-13-agent-messaging-tickets.md:992: "A stale archive replay, command,
\* webhook delivery, or attachment pointer cannot resurrect or send removed
\* content."  It does not hold: a request dies after the last page, a removal is recorded
\* and purged, and the repeated request publishes without another page, the
\* only place where redactions are applied.
RestoreHidesRemovals ==
    [][\A c \in Restorers :
            /\ Phase(c, "publish") /\ restorers'[c] = IdleRestorer
            /\ projection.state = "rebuilding" /\ projection'.state = "ready"
            => projection'.shown \cap restorers[c].authority = {}]_restoreVars
=============================================================================
