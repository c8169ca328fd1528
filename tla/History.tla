-------------------------------- MODULE History --------------------------------
(***************************************************************************)
(* One history import of an account: the import row and its ranges in the  *)
(* control directory, the lease a page worker takes on a range, the pages  *)
(* a provider answers with, the events handed to the tenant projection and *)
(* the event hashes that make a page repeatable.                           *)
(*                                                                         *)
(* The cron tick and the administrator's advance route run the same        *)
(* handler: the first claims a range and then reads it, the second reads   *)
(* it and then claims.  A lease token is the worker that drew it, "dead"   *)
(* once that worker is gone; a lease that runs out and a wake that comes   *)
(* due are flags time may set.  A cursor is the number of the next page.   *)
(***************************************************************************)
EXTENDS Integers, FiniteSets

CONSTANTS
    Ranges,           \* ranges the provider may split the import into
    First,            \* the range created with the import
    Pages,            \* pages of a range
    PageWorkers,      \* invocations of advance that may overlap
    MaxAttempts,      \* history_imports.max_attempts
    MaxManual,        \* bound on the administrator's advance calls
    MaxHistoryTrouble \* bound on provider failures, lapses and deaths

ASSUME HistoryBounds ==
    /\ First \in Ranges
    /\ Pages \in Nat \ {0} /\ MaxAttempts \in Nat \ {0}
    /\ MaxManual \in Nat /\ MaxHistoryTrouble \in Nat
    /\ PageWorkers \intersect {"none", "dead"} = {}

VARIABLES
    holds,     \* whether the provider has events for the account
    imp,       \* history_imports
    range,     \* history_import_ranges
    hashed,    \* history_import_events
    projected, \* events the tenant projection has applied
    starter,   \* where the start handler is
    page,      \* one record per invocation of advance
    manual,    \* advance calls made by hand so far
    mishap     \* failures so far

historyVars == <<holds, imp, range, hashed, projected, starter, page, manual, mishap>>

Open == {"pending", "active"}
Settled == {"completed", "partial", "failed"}

Mishap == mishap < MaxHistoryTrouble /\ mishap' = mishap + 1

\* What the provider holds: a page has one event of its own, and the first
\* page of every range repeats an event at the border of the ranges.
Page(r, c) ==
    IF ~holds THEN {}
    ELSE {<<r, c>>} \union (IF c = 0 THEN {<<First, 0>>} ELSE {})

EventsOf(r) == UNION {Page(r, c) : c \in 0 .. Pages - 1}

NoRange == [status |-> "none", cursor |-> 0, count |-> 0, attempts |-> 0,
            erred |-> FALSE, later |-> FALSE, token |-> "none",
            lapsed |-> FALSE]

NoPage == [pc |-> "idle", cron |-> FALSE, r |-> First, cursor |-> 0,
           count |-> 0, attempts |-> 0, total |-> 0, answer |-> "none",
           fresh |-> {}, status |-> "none"]

-----------------------------------------------------------------------------
(* The statements of the repository. *)

Free(x) == x.token = "none" \/ x.lapsed

\* Mutant: a claim does not ask whether the range is still open.
ClaimableWhateverStatus(x, w, cron) ==
    /\ x.status # "none"
    /\ Free(x) \/ x.token = w
    /\ cron => ~x.later

\* The WHERE clause of claimHistoryRangeWork; a manual call ignores the wake.
Claimable(x, w, cron) ==
    /\ x.status \in Open
    /\ Free(x) \/ x.token = w
    /\ cron => ~x.later

claimHistoryRangeWork(x, w) == [x EXCEPT !.token = w, !.lapsed = FALSE]

Unleased(x) == [x EXCEPT !.token = "none", !.lapsed = FALSE]

\* Mutant: the wake is written without giving the lease back.
ScheduledKeepingLease(x) == [x EXCEPT !.later = x.erred]

\* scheduleHistoryRangeWork: a range that met an error waits for its retry.
scheduleHistoryRangeWork(x) == [Unleased(x) EXCEPT !.later = x.erred]

closeHistoryRangeWork(x) == [Unleased(x) EXCEPT !.later = FALSE]

\* reconcileHistoryWork after a page: the range the worker leased is moved to
\* its next wake or closed; the others are closed when no one leases them.
reconcileHistoryWork(x, mine, w, other) ==
    IF x.status \in Open
    THEN IF (mine /\ x.token = w) \/ (other /\ Free(x))
         THEN scheduleHistoryRangeWork(x) ELSE x
    ELSE IF x.status \in Settled /\ (IF mine THEN x.token = w ELSE Free(x))
         THEN closeHistoryRangeWork(x) ELSE x

\* The lease clause of updateRange and updateImport.
Fenced(w, r) == range[r].token = w

-----------------------------------------------------------------------------
(* The start handler. *)

\* findHistoryAccount, findImportByIdempotency and createImport: the import
\* and its one pending range are inserted together.
createImport ==
    /\ imp.status = "none"
    /\ imp' = [imp EXCEPT !.status = "started"]
    /\ range' = [range EXCEPT ![First].status = "pending"]
    /\ starter' = "asked"
    /\ UNCHANGED <<holds, hashed, projected, page, manual, mishap>>

\* updateFailed on a range: one more attempt, and failed when it was terminal
\* or the last one.
Attempt(attempts) == IF attempts + 1 < MaxAttempts THEN attempts + 1
                     ELSE MaxAttempts
Exhausted(attempts, terminal) == terminal \/ Attempt(attempts) >= MaxAttempts

FailedRange(x, attempts, terminal) ==
    [x EXCEPT !.status = IF Exhausted(attempts, terminal) THEN "failed"
                         ELSE "active",
              !.attempts = Attempt(attempts),
              !.erred = TRUE]

\* updateFailed on the import, from the ranges it reads back.
FailedImport(ranges, exhausted) ==
    IF exhausted /\ \A r \in Ranges : ranges[r].status \notin Open
    THEN "failed" ELSE "active"

\* The provider does not answer, or answers that history is not available, or
\* with ranges that fail validateRanges: the range and then the import fail.
startFails(terminal) ==
    /\ starter = "asked"
    /\ range' = [range EXCEPT
                   ![First] = FailedRange(@, @.attempts, terminal)]
    /\ starter' = IF FailedImport(range', Exhausted(range[First].attempts,
                                                    terminal)) = "failed"
                  THEN "fail" ELSE "fail_active"
    /\ Mishap
    /\ UNCHANGED <<holds, imp, hashed, projected, page, manual>>

\* The provider has nothing for the account.
startEmpty ==
    /\ starter = "asked" /\ ~holds
    /\ range' = [range EXCEPT ![First].status = "completed",
                              ![First].count = 0]
    /\ starter' = "empty"
    /\ UNCHANGED <<holds, imp, hashed, projected, page, manual, mishap>>

\* The first range of the answer becomes the pending one.
startFirstRange ==
    /\ starter = "asked"
    /\ range' = [range EXCEPT ![First].status = "active",
                              ![First].cursor = 0]
    /\ starter' = "insert"
    /\ UNCHANGED <<holds, imp, hashed, projected, page, manual, mishap>>

\* The rest of the answer, which the directory may refuse: then the first
\* range fails.
insertRanges ==
    /\ starter = "insert"
    /\ \/ \E rest \in SUBSET (Ranges \ {First}) :
            /\ range' = [r \in Ranges |->
                           IF r \in rest
                           THEN [NoRange EXCEPT !.status = "pending"]
                           ELSE range[r]]
            /\ starter' = "active"
            /\ UNCHANGED mishap
       \/ /\ range' = [range EXCEPT ![First] = FailedRange(@, @.attempts, TRUE)]
          /\ starter' = "fail"
          /\ Mishap
    /\ UNCHANGED <<holds, imp, hashed, projected, page, manual>>

\* updateImport at the end of each branch of start.
startUpdateImport ==
    /\ starter \in {"fail", "fail_active", "empty", "active"}
    /\ imp' = [imp EXCEPT !.status = CASE starter = "fail" -> "failed"
                                       [] starter = "empty" -> "completed"
                                       [] OTHER -> "active"]
    /\ starter' = "reconcile"
    /\ UNCHANGED <<holds, range, hashed, projected, page, manual, mishap>>

startReconcile ==
    /\ starter = "reconcile"
    /\ range' = [r \in Ranges |->
                   reconcileHistoryWork(range[r], FALSE, "none", TRUE)]
    /\ starter' = "done"
    /\ UNCHANGED <<holds, imp, hashed, projected, page, manual, mishap>>

startDies ==
    /\ starter \notin {"none", "done"}
    /\ starter' = "done"
    /\ Mishap
    /\ UNCHANGED <<holds, imp, range, hashed, projected, page, manual>>

start ==
    \/ createImport
    \/ \E terminal \in BOOLEAN : startFails(terminal)
    \/ startEmpty \/ startFirstRange \/ insertRanges
    \/ startUpdateImport \/ startReconcile

-----------------------------------------------------------------------------
(* The advance handler. *)

\* claimNextHistoryRangeWork: one due range of any import.
claimNextHistoryRangeWork(w) ==
    /\ page[w].pc = "idle"
    /\ \E r \in Ranges :
         /\ Claimable(range[r], "none", TRUE) /\ Free(range[r])
         /\ range' = [range EXCEPT ![r] = claimHistoryRangeWork(@, w)]
         /\ page' = [page EXCEPT ![w].pc = "read", ![w].r = r,
                                 ![w].cron = TRUE]
    /\ UNCHANGED <<holds, imp, hashed, projected, starter, manual, mishap>>

\* The administrator asks for a page of a range that is still open.
advanceRequested(w) ==
    /\ page[w].pc = "idle"
    /\ manual < MaxManual
    /\ \E r \in Ranges :
         /\ range[r].status \in Open
         /\ page' = [page EXCEPT ![w].pc = "read", ![w].r = r]
    /\ manual' = manual + 1
    /\ UNCHANGED <<holds, imp, range, hashed, projected, starter, mishap>>

\* The import and the range as they are before the claim.
advanceRead(w) ==
    /\ page[w].pc = "read"
    /\ LET x == range[page[w].r]
       IN  page' = [page EXCEPT ![w] =
                      IF x.status \in Settled THEN NoPage
                      ELSE [@ EXCEPT !.pc = "claim", !.cursor = x.cursor,
                                     !.count = x.count,
                                     !.attempts = x.attempts,
                                     !.total = imp.count]]
    /\ UNCHANGED <<holds, imp, range, hashed, projected, starter, manual, mishap>>

\* The claim, then the provider's answer for the cursor that was read.  The
\* last page completes the range; a provider may stop earlier with a partial
\* or failed range, may be unavailable (retried), may refuse or time out
\* (terminal), or may answer with events that fail validation or contradict
\* a hash (terminal).
Answers(c) == {IF c = Pages - 1 THEN "completed" ELSE "active"}
Failures == {"partial", "failed", "unavailable", "refused", "malformed"}

advanceClaim(w) ==
    /\ page[w].pc = "claim"
    /\ LET r == page[w].r IN
         IF Claimable(range[r], w, page[w].cron)
         THEN /\ range' = [range EXCEPT ![r] = claimHistoryRangeWork(@, w)]
              /\ \E a \in Answers(page[w].cursor) \union Failures :
                   /\ page' = [page EXCEPT ![w].answer = a, ![w].pc =
                                 IF a \in {"unavailable", "refused", "malformed"}
                                 THEN "fail" ELSE "apply"]
                   /\ IF a \in Failures THEN Mishap ELSE UNCHANGED mishap
         ELSE /\ page' = [page EXCEPT ![w] = NoPage]
              /\ UNCHANGED <<range, mishap>>
    /\ UNCHANGED <<holds, imp, hashed, projected, starter, manual>>

\* Mutant: the hashes are written first and the events applied from them.
insertHashesFirst(w) ==
    /\ page[w].pc = "apply"
    /\ LET fresh == Page(page[w].r, page[w].cursor) \ hashed
       IN  /\ hashed' = hashed \union fresh
           /\ page' = [page EXCEPT ![w].fresh = fresh, ![w].pc = "insert"]
    /\ UNCHANGED <<holds, imp, range, projected, starter, manual, mishap>>

\* listExistingEventHashes keeps the events not seen before in this import,
\* and applyEvents hands them to the projection.
applyEvents(w) ==
    /\ page[w].pc = "apply"
    /\ LET fresh == Page(page[w].r, page[w].cursor) \ hashed
       IN  /\ projected' = projected \union fresh
           /\ page' = [page EXCEPT ![w].fresh = fresh, ![w].pc = "insert"]
    /\ UNCHANGED <<holds, imp, range, hashed, starter, manual, mishap>>

\* The projection refuses the batch, or cannot be reached.
applyEventsFails(w) ==
    /\ page[w].pc = "apply"
    /\ page' = [page EXCEPT ![w].pc = "fail", ![w].answer = "unavailable"]
    /\ Mishap
    /\ UNCHANGED <<holds, imp, range, hashed, projected, starter, manual>>

insertEventHashes(w) ==
    /\ page[w].pc = "insert"
    /\ hashed' = hashed \union page[w].fresh
    /\ page' = [page EXCEPT ![w].pc = "checkpoint"]
    /\ UNCHANGED <<holds, imp, range, projected, starter, manual, mishap>>

\* The status of the import after a page, from the ranges read back.
ImportStatus(ranges, answer) ==
    LET has(S) == \E r \in Ranges : ranges[r].status \in S
    IN  IF has(Open) THEN "active"
        ELSE IF has({"failed"}) \/ answer = "failed" THEN "failed"
        ELSE IF has({"partial"}) \/ answer = "partial" THEN "partial"
        ELSE "completed"

\* updateRange under the lease, then getRanges.  A page may carry the error
\* code of the provider.  A worker whose lease was taken over changes no row
\* and goes on to report a failure.
checkpoint(w) ==
    LET p == page[w]  r == page[w].r IN
    /\ p.pc = "checkpoint"
    /\ \/ /\ Fenced(w, r)
          /\ \E e \in BOOLEAN :
               /\ range' = [range EXCEPT
                    ![r] = [@ EXCEPT !.status = p.answer,
                                     !.cursor = IF p.answer = "active"
                                                THEN p.cursor + 1
                                                ELSE range[r].cursor,
                                     !.count = p.count + Cardinality(p.fresh),
                                     !.attempts = p.attempts,
                                     !.erred = e]]
               /\ IF e THEN Mishap ELSE UNCHANGED mishap
          /\ page' = [page EXCEPT ![w].pc = "import", ![w].status =
                        ImportStatus(range', p.answer)]
       \/ /\ ~Fenced(w, r)
          /\ page' = [page EXCEPT ![w].pc = "fail", ![w].answer = "lost"]
          /\ UNCHANGED <<range, mishap>>
    /\ UNCHANGED <<holds, imp, hashed, projected, starter, manual>>

\* updateImport under the lease of the range, with the count that was read
\* before the claim.
updateImport(w) ==
    LET p == page[w] IN
    /\ p.pc = "import"
    /\ IF Fenced(w, p.r)
       THEN /\ imp' = [status |-> p.status,
                       count |-> p.total + Cardinality(p.fresh)]
            /\ page' = [page EXCEPT ![w].pc = "reconcile"]
       ELSE /\ page' = [page EXCEPT ![w].pc = "fail", ![w].answer = "lost"]
            /\ UNCHANGED imp
    /\ UNCHANGED <<holds, range, hashed, projected, starter, manual, mishap>>

\* updateFailed under the lease; without it the handler throws and leaves.
updateFailed(w) ==
    LET p == page[w]  r == page[w].r
        terminal == p.answer \in {"refused", "malformed"} IN
    /\ p.pc = "fail"
    /\ IF Fenced(w, r)
       THEN /\ range' = [range EXCEPT ![r] = FailedRange(@, p.attempts, terminal)]
            /\ page' = [page EXCEPT ![w].pc = "fail_import", ![w].status =
                          FailedImport(range', Exhausted(p.attempts, terminal))]
       ELSE /\ page' = [page EXCEPT ![w] = NoPage]
            /\ UNCHANGED range
    /\ UNCHANGED <<holds, imp, hashed, projected, starter, manual, mishap>>

updateFailedImport(w) ==
    LET p == page[w] IN
    /\ p.pc = "fail_import"
    /\ IF Fenced(w, p.r)
       THEN /\ imp' = [imp EXCEPT !.status = p.status]
            /\ page' = [page EXCEPT ![w].pc = "reconcile"]
       ELSE /\ page' = [page EXCEPT ![w] = NoPage]
            /\ UNCHANGED imp
    /\ UNCHANGED <<holds, range, hashed, projected, starter, manual, mishap>>

advanceReconcile(w) ==
    /\ page[w].pc = "reconcile"
    /\ range' = [r \in Ranges |->
                   reconcileHistoryWork(range[r], r = page[w].r, w, FALSE)]
    /\ page' = [page EXCEPT ![w] = NoPage]
    /\ UNCHANGED <<holds, imp, hashed, projected, starter, manual, mishap>>

\* The invocation is evicted; its lease stays until it runs out.
advanceDies(w) ==
    /\ page[w].pc # "idle"
    /\ page' = [page EXCEPT ![w] = NoPage]
    /\ range' = [r \in Ranges |->
                   IF range[r].token = w THEN [range[r] EXCEPT !.token = "dead"]
                   ELSE range[r]]
    /\ Mishap
    /\ UNCHANGED <<holds, imp, hashed, projected, starter, manual>>

-----------------------------------------------------------------------------
(* Time. *)

\* A lease runs out under a worker that is slow, or after one that died.
historyLeaseExpires(r) ==
    /\ range[r].token # "none" /\ ~range[r].lapsed
    /\ range' = [range EXCEPT ![r].lapsed = TRUE]
    /\ IF range[r].token = "dead" THEN UNCHANGED mishap ELSE Mishap
    /\ UNCHANGED <<holds, imp, hashed, projected, starter, page, manual>>

historyWakes(r) ==
    /\ range[r].later
    /\ range' = [range EXCEPT ![r].later = FALSE]
    /\ UNCHANGED <<holds, imp, hashed, projected, starter, page, manual, mishap>>

-----------------------------------------------------------------------------

advanceStep(w) ==
    \/ advanceRead(w) \/ advanceClaim(w) \/ applyEvents(w)
    \/ insertEventHashes(w) \/ checkpoint(w) \/ updateImport(w)
    \/ updateFailed(w) \/ updateFailedImport(w) \/ advanceReconcile(w)

HistoryInit ==
    /\ holds \in BOOLEAN
    /\ imp = [status |-> "none", count |-> 0]
    /\ range = [r \in Ranges |-> NoRange]
    /\ hashed = {} /\ projected = {}
    /\ starter = "none"
    /\ page = [w \in PageWorkers |-> NoPage]
    /\ manual = 0 /\ mishap = 0

HistoryNext ==
    \/ start \/ startDies
    \/ \E w \in PageWorkers :
         \/ claimNextHistoryRangeWork(w) \/ advanceRequested(w)
         \/ advanceStep(w) \/ applyEventsFails(w) \/ advanceDies(w)
    \/ \E r \in Ranges : historyLeaseExpires(r) \/ historyWakes(r)

HistorySpec == HistoryInit /\ [][HistoryNext]_historyVars

\* The cron runs every minute and claims what is due, a handler that is not
\* evicted goes on, and time passes.
HistoryFairness ==
    /\ WF_historyVars(start)
    /\ \A w \in PageWorkers :
         /\ WF_historyVars(claimNextHistoryRangeWork(w))
         /\ WF_historyVars(advanceStep(w))
    /\ \A r \in Ranges :
         /\ WF_historyVars(range[r].token = "dead" /\ historyLeaseExpires(r))
         /\ WF_historyVars(historyWakes(r))

HistoryFairSpec == HistorySpec /\ HistoryFairness

-----------------------------------------------------------------------------
(* Properties. *)

HistoryTypeOK ==
    /\ imp.status \in {"none", "started"} \union {"active"} \union Settled
    /\ imp.count \in 0 .. Cardinality(UNION {EventsOf(r) : r \in Ranges})
    /\ \A r \in Ranges :
         /\ range[r].status \in {"none"} \union Open \union Settled
         /\ range[r].cursor \in 0 .. Pages - 1
         /\ range[r].attempts \in 0 .. MaxAttempts
         /\ range[r].token \in PageWorkers \union {"none", "dead"}
    /\ \A w \in PageWorkers : page[w].r \in Ranges

\* An event has a hash only when the projection holds it: a worker that dies
\* between applyEvents and insertEventHashes replays the page, one that dies
\* before it never skips it.
HashedEventsAreProjected == hashed \subseteq projected

\* A page is passed only when its events are in: neither the cursor of an open
\* range nor a completed range leaves an event of an earlier page behind, with
\* stale readers, lapsed leases and replays of a page.
CheckpointsSkipNothing ==
    \A r \in Ranges :
      /\ \A c \in 0 .. range[r].cursor - 1 : Page(r, c) \subseteq projected
      /\ range[r].status = "completed" => EventsOf(r) \subseteq projected

\* The progress an administrator sees is backed by hashes: a repeated page, a
\* repeated event or a worker that lost its lease adds nothing to event_count.
CountsAreBacked ==
    /\ imp.count <= Cardinality(hashed)
    /\ \A r \in Ranges : range[r].count <= Cardinality(hashed \intersect EventsOf(r))

\* What the import says it has read is in the projection: the hashes, the
\* checkpoints and the counts of createHistoryService's advance.
ImportedIsProjected ==
    HashedEventsAreProjected /\ CheckpointsSkipNothing /\ CountsAreBacked

\* A range that settled is never opened again, with slow workers whose lease
\* ran out, stale reads and manual requests. The first range is left out: the
\* start handler writes it without a lease, under a worker that may hold one.
SettledRangesStay ==
    [][\A r \in Ranges \ {First} :
         range[r].status \in Settled => range'[r].status = range[r].status]_historyVars

\* Every range settles once the import exists: pages are finite, retries are
\* counted, and the lease of a worker that died runs out.
RangesSettle ==
    \A r \in Ranges : range[r].status \in Open ~> range[r].status \in Settled

\* An import settles: an interrupted worker leaves a resumable or a failed
\* state, never one that is active with nothing left to advance
\* (docs/planning/2026-09-13-agent-messaging-tickets.md:262).  It does not hold:
\* a writer with an older view of the ranges may write "active" last.
ImportSettles == imp.status # "none" ~> imp.status \in Settled
=============================================================================
