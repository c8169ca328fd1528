# Communicator: TLA+ models and proofs

TLA+ models of the Communicator, kept beside its code. TLC checks them on small
instances; TLAPS proves most of the same statements for every value of the
constants. Paths below are relative to `apps/control-plane/worker/` unless they
start elsewhere. `PROJECT.json` names, for every definition that models code,
the lines it stands for.

## 1. The system and its parts

The Communicator lets people and agents read and send messages of accounts at
chat providers. Its control plane is a Cloudflare Worker:

- A **tenant Durable Object** (`projection/tenant-projection.ts`, SQLite) holds
  the projection of a tenant: conversations, messages, the ledger of outbound
  commands, and the sockets of browsers. One method is one transaction, but
  other events run whenever a method awaits D1.
- The **control directory** (D1) holds memberships, grants with their epochs,
  connections, lifecycle operations, private operations, webhook
  subscriptions and deliveries, history imports, removals and the progress of
  purges. A D1 batch is one transaction; a handler is many.
- The **archive** (R2) keeps every accepted batch as a data object and a
  manifest. A **queue** carries a pointer to each batch to the consumer that
  applies it to the projection.
- The **cron tick**, every minute, runs webhook deliveries, history pages,
  purges and the sweep of controlled copies. Ticks overlap with each other and
  with requests.
- A **link session object** (`linking/session.ts`) pairs an account; the
  **Matrix gateway**, a Rust process behind HTTP, talks to the provider; a
  **browser client** follows the change feed of the projection.

Hardly anything is ordered by a lock. What keeps the system correct is a set of
fences: leases, epochs, generations, revisions and conditional
statements, each compared again at the moment of writing. The models keep every
one of these comparisons and every await between a read and the write that uses
it, and leave the data out.

## 2. Modules

| Module | Models | One action is |
|---|---|---|
| `OutboundRows` | the row of a command: what each ledger method makes of it (`projection/tenant-projection.ts`, outbound methods) | (operators on a row) |
| `OutboundLedger` | the ledger: accept, claim, evidence, polls, decisions, resends, the alarm, removal, rebuild; the handlers of `outbound/` | one transaction; the alarm is one action per row |
| `AccountGrants` | account grants in D1, the epoch triggers of migration 0025, idempotent mutations, a group completion that grants access | one D1 batch |
| `OutboundAuthority` | on top of it: memberships, directory rows, acceptance reservations, provider claims (`outbound/authority.ts`) | one D1 statement |
| `PrivateAuthority` | the capability reserved for a private operation, the gateway's claim (`outbound/private-authority.ts`) | one D1 statement or gateway step |
| `DirectChats`, `Receipts`, `GroupCreation`, `GroupManagement` | the four services over it (`contacts/`, `receipts/`, `groups/`) | a handler's step between two awaits |
| `Webhooks` | subscriptions, fan-out, the lease, the fences, the outcome of a delivery (`webhooks/`) | one D1 statement or the HTTP request |
| `DurableWork` | abstract: what a durable ledger of external work promises | a change of one item |
| `History` | an import, its ranges, its page workers (`history/`) | one statement or call of a worker |
| `Linking` | link, relink, disconnect (`linking/`) | a serialised object command, or a route step between two awaits |
| `ArchiveIngest` | the ingestion route, the archive writer, the queue, the consumer (`ingestion/`, `archive/writer.ts`) | one R2, queue or object call |
| `ArchivePurge` | purging removed content from the archive (`archive/purge.ts`, `lifecycle.ts`) | one R2 request or D1 statement |
| `Projector` | what each kind of event does to the rows of a conversation (`projection/projector*.ts`), and the redaction pass | one transaction |
| `Restore` | rebuilding a projection from the archive under the removal ledger (`restore/`, `archive/reader.ts`, `replay.ts`) | one call of a restore request |
| `Retention` | controlled copies outside the archive (`retention/`) | one statement or backend call of a sweep |
| `Realtime` | tickets, sockets, broadcasts, the lease alarm (`realtime/`), and the browser client (`apps/control-plane/src/lib/realtime/live-client.ts`) | an event of the object or the browser |

`OutboundAuthority` extends `AccountGrants`, `OutboundLedger` extends
`OutboundRows`, and the four services extend `PrivateAuthority`: these parts
share rows. `MC*` modules give the constants their values. `MCTenant`,
`MCDirectory`, `MCRecords`, `MCPrivate` and `MCProgress` put parts that share no
call side by side: a variable `part` picks the one that runs, so a run explores
the sum of their state spaces and not the product.

State corresponds to the code as follows: a variable is a table (its comment
names it), an object of R2, the stored state of a Durable Object, or the
suspended handlers. A suspended handler is a record of its place in the code and
of what it has read; deaths and failing calls are actions on it. A few variables
only record what happened, for the properties: `lapsed`, `committed`,
`straddled`, `begunUnder`, `told`, `diedCommitting`, and `retried`, whose size is
also bounded. Variables that count (`faults`, `trouble`, the `...Mishaps`) bound
the failures of a behaviour.

Abstractions made everywhere: contents are model values or numbers and compare
by equality; a digest is the value it is computed from; a token of a lease is
the worker that drew it; time is either a bounded clock (`OutboundLedger`,
`ArchivePurge`) or a flag that time may set at any moment (a lease that lapses,
a retry that is due). Text, logging, listing routes and telemetry are left out.
Particular ones are in the comment at the head of each module; those worth
knowing here:

- **OutboundLedger**: what a Worker reads before the object's transaction, the
  clock (at most `Lag` ticks old) and the availability of the connection, is an
  input of the action.
- **ArchivePurge**: an R2 deletion and its verification are one step, and so are
  the write of a lineage row and its read-back; a failing D1 statement is a
  death. Listing the archive is one step.
- **ArchiveIngest**: purges are not part of it; `MaxDeliveries` stands for the
  queue's ten.
- **Retention**: the eight stores differ in name only. A store is honest: an
  inventory it calls complete is complete.
- **Projector**: one conversation with one message, participant, reaction,
  attachment and command, so that every pair of families meets. A field written
  by the event of rank n holds n.
- **Restore**: the steps of a purge are those that move events between keys; the
  rows of one event are in `Projector`, the outbound rows a rebuild fences in
  `OutboundLedger`. Store inventories answer "complete".
- **Realtime**: one identity, one browser, one tab.

## 3. Runs

Run one with `tlc -workers 2 -config X.cfg M`. All state counts are distinct
states.

| Run | Module | Checks | Shows |
|---|---|---|---|
| `ledger_one` | MCOutboundLedger | ViewAgrees, DeliveryEvidenceShown, CancelledIsNeverSent, NoUnconfirmedLateDispatch | one command through every order of acceptance, lease, evidence, polls, decisions, alarm, clock lag, removal and rebuild |
| `ledger_two` | MCOutboundLedger | PauseTracksDoubt, NeverEligibleAgain | two commands of one chat: pauses, resends, the shared alarm |
| `purge` | MCArchivePurge | NoRetainedItemLost | two removals on one batch, two executions, one fault |
| `purge_ends` | MCArchivePurge | PurgeErases | one removal, batches that arrive at any time: no data object keeps what it matches |
| `purge_overlap` | MCArchivePurge | PurgeErases (violated) | the finding of section 7 |
| `webhooks` | MCWebhooks | BacklogStaysWithItsDestination, OneRequestInFlight, RevisionsFollowDelivery, RemovalsFenceRequests | overlapping deliverers, edits, removal, cutover, lapsing leases, a retry by hand |
| `history` | MCHistory | ImportedIsProjected, SettledRangesStay | two page workers and the start handler |
| `private` | MCPrivate | ClaimsRunUnderTheirGrant, AskedAtMostOnce, ReportsAreTrue, ChangesConverge | the four private services, two handlers each |
| `tenant` | MCTenant | ProjectionConverges, HiddenStaysHidden, AnsweredIsDurable, PointersAreBacked, NoClaimAfterLapse | send authority; events in every order; ingestion |
| `directory` | MCDirectory | SessionsLinkOnce, LiveOperationsOwnTheirConnection, LateAnswersChangeNothing, PositionsWereTold, NoBroadcastAfterRevocation, GrantRowsAreSound, FenceAdvances | linking; realtime; grants |
| `records` | MCRecords | AcceptedIsNotLost, ActivatedHidesRemovals, PublishedIsNeverUndone, CompletionMeansGone, SettledCopiesStaySettled | restores; controlled copies |
| `progress` | MCProgress | DeliveriesAreDurableWork, RangesSettle, SessionsEnd, BatchesArrive, BrowserCatchesUp | what must eventually happen |

Every property has a mutant in `PROJECT.json`: a mapped definition changed the
way a plausible bug would change it (a dropped fence, a swapped order), under
which TLC finds the property violated. The mutated forms stand next to their
originals, marked "Mutant".

### Bounds, and why they are enough

Every failure the models look for is a race of two actors over one row, or of
one actor with the passing of a lease, a revocation or a death. So the instances
have **two** of whatever competes (workers, handlers, sessions, removals,
encodings), **one** of what they compete for, and **one or two** mishaps, which
suffices for a failure between any two steps of either. Every action and every
disjunct of the next-state relations fires in some passing run.

- `ledger_one`: 1 command, 2 evidence ids, confirmation after 2 ticks, lease 1,
  lag 1, clock to 4 (acceptance up to 1), 1 rebuild. `ledger_two`: 2 commands, no
  lag, one report of each outcome, no rebuild.
- `purge`: 1 batch with one kept item, 2 removals, 2 executions, 1 fault;
  `purge_ends`: 2 batches, 1 removal, no faults.
- `webhooks`: 2 destination versions, 2 revisions, 1 trouble, 1 retry by hand.
- `history`: 2 ranges of 2 pages, 2 attempts, 1 call by hand, 1 mishap.
- `private`: 2 contacts and 2 keys; 1 receipt; 1 group; 1 rename and 1 addition;
  revocations and relinkings bounded together.
- `tenant`: epochs to 3; every stream of four events that creates the message and
  deletes something, and every stream of fewer; 1 batch in 2 encodings, 2
  pointers, 2 deliveries.
- `directory`: 2 link sessions, 1 relink, 1 disconnect, 2 accounts; 2 changes, 2
  generations, 1 socket at a time, a replay of 1; 2 grants, epochs to 5.
- `records`: 3 manifest keys (a replacement sorts before the originals), 2
  rebuilds, 2 requests, 1 removable event and a marker that deletes it; 1 store, 2
  copies, 2 sweeps.
- `progress`: smaller instances, with liveness instead of breadth (36 thousand states).

Six constraints keep a run small at the price of some combinations:
`EditsAlone` (a message
that was edited is delivered by one deliverer at a time), `ManualAlone` (a call by hand or a
mishap), `StandingBound` (revocations and relinkings together), `StreamScope` (above),
`LinkScope` (after a mishap or a disconnect, two sessions at a time) and
`SweepScope` (past the deadline, one sweep at a time). They restrict the runs
only: the theorems below hold without them.

Symmetry is used over workers, handlers, keys and interchangeable ids in runs
without liveness; no action and no property singles one of them out. Deadlock
is not checked: bounded behaviours end, and a tenant with nothing to do rests.

## 4. Fairness

Stated in `ArchivePurge!FairSpec` and in `MCProgress`; each conjunct is something
the platform does:

- **Cron** runs every minute and visits what is due: weak or strong fairness of
  claiming a delivery, a range, a purge. It is strong where a claim may be
  disabled again and again by another worker's lease: the tick comes back for as
  long as the row is due.
- **A handler that is not evicted goes on**: weak fairness of its next step.
  Deaths are bounded mishaps, never forced away.
- **Time passes**: leases, retry windows and wakes run out. In `History` only the
  lease of a dead worker must run out.
- **The Durable Object's alarm fires** (session expiry, socket leases).
- **The gateway posts a batch until it has a 202** and the **queue delivers** what
  it holds, as their contracts say.
- **A rebuild ends**, for pointers and browsers that wait for one.

Nobody has to poll, decide, retry by hand or call again: no fairness is assumed
of people.

## 5. Proofs

`tlapm M.tla` checks a module; each EXTENDS the components it is about. All
theorems hold for every value of the constants that satisfies the named
assumptions of the component modules (bounds are natural numbers, markers such
as "none" are not members of the sets they stand beside, `Chats`, `Manifests` and a few
other sets are finite). The bounds in the guards are constants too, so the
theorems cover any number of workers, rows, events, retries and mishaps.

| Proof module | Components | Results |
|---|---|---|
| `OutboundLedgerProofs` | OutboundLedger | TypeCorrect, DeadlineStaysAnchored, PauseFollowsDoubt, ViewAlwaysAgrees, DeliveryAlwaysShown, CancelledNeverSent, ResendsFollowDoubt, NeverEligibleTwice, LateDispatchIsConfirmed |
| `AccessProofs` | AccountGrants, OutboundAuthority, Realtime | GrantInvariance, GrantRowsAlwaysSound, FenceAlwaysAdvances, AuthorityTypeCorrect, GrantEpochAtHead, MembershipEpochAtHead, ClaimsFollowUnbrokenAuthority; RealtimeInvariance, PositionsWereAlwaysTold, NeverBroadcastAfterRevocation |
| `ArrivalProofs` | ArchiveIngest, History | IngestInvariance, AnsweredAlwaysDurable, PointersAlwaysBacked; HistoryInvariance, ImportedAlwaysProjected, SettledRangesAlwaysStay |
| `ProjectionProofs` | Projector | ProjectorInvariance, HiddenAlwaysHidden, NewestAlwaysShown |
| `WebhookProofs` | Webhooks, DurableWork | WebhookInvariance, BacklogNeverMovesOn, AlwaysOneRequest, RevisionsAlwaysFollow, RemovalsAlwaysFence, DeliveriesImplementWork |
| `LifecycleProofs` | ArchivePurge, Linking | PurgeTypeCorrect, PurgeKeepsRetained; LinkInvariance, SessionsAlwaysLinkOnce, LiveOperationsAlwaysOwn, LateAnswersNeverMatter |
| `RecordsProofs` | Retention, Restore | RetentionInvariance, CompletionAlwaysMeansGone, SettledForGood; RestoreInvariance, AcceptedNeverLost, ActivatedAlwaysHides, PublishedNeverUndone |
| `PrivateProofs` | MCPrivate (PrivateAuthority and the four services) | PrivateInvariance, ClaimsAlwaysRunUnderTheirGrant, AlwaysAskedAtMostOnce, ReportsAreAlwaysTrue, ChangesAlwaysConverge |

The argument is the same everywhere. None of the properties is inductive as it
stands, because what protects a row is in the hands of a suspended handler. The
inductive invariant therefore says, for every place a handler can be suspended
at, what the rows look like as long as its fence still matches; an action that
takes the fence away (a lapse, a revocation, a new generation) makes the claim
about the old holder void, and an action that passes the fence finds the rows as
the claim says. There is a lemma for every action, and under it a step for each
conjunct the action can disturb. The invariants were checked with TLC on
instances before they were proved (HistoryInv on 2.9 million states, RetentionInv
on 6.0, RealtimeInv on 1.0, the others on 90 to 820 thousand). What each one adds:

- **Ledger** (`Inv`): the columns of a row agree with each other (`RowsInv`); a
  handler that may still report has taken the lease (`CallersInv`); the view is
  right while the projection is ready and deleted while it is not (`ViewInv`); a
  resend exists only for a doubtful original. `LateDispatchIsConfirmed` also needs
  that the clock of a running alarm is at most `Lag` ticks old (`SweepFresh`).
- **History** (`HistoryInv`): what is hashed is projected, a count is at most the
  number of hashes, the pages before a cursor are in (`RangeSound`), and what a
  worker read stays true while others go on (`PageSound`); a lease on a range that
  is not open is held by the worker that settled it (`LeaseSound`).
- **Authority** (`AuthorityInv`): the epoch in a row is the one its head remembers
  (`EpochAtHead`, `MemberEpochAtHead`); a reservation is at or below its head, and
  below it for good once its authority was interrupted (`IntentInv`).
- **Purge** (`IInv`): every item that no removal matches, of any key that was ever
  readable, is readable under a key rewritten at least as often (`Covered`); an
  execution about to hide or delete has a committed replacement (`WorkersGood`).
- **Ingestion** (`IngestInv`): a manifest names the encoding that is stored;
  requests, pointers and deliveries are backed by the objects their phase
  presupposes; one execution consumes a pointer at a time.
- **Projector** (`ProjectorInv`): every row, also one that waits for its target,
  hides what the tombstones ask. `NewestInv`: while no removal names the message
  or its conversation, the message row shows the greatest of its versions, the
  newest delivery and the local read mark.
- **Webhooks** (`WebhookInv`): a deliverer sends to the version of its row, an
  epoch that is still current has seen no removal of its message, a request that
  is out is marked in the row or given up as uncertain (`DelivererSound`); one
  deliverer is past the marker (`OneSender`); revisions waiting to be inserted
  were chosen for the destination that acknowledged (`FanSound`).
- **Linking** (`LinkInv`): a live operation owns its connection, a login has one
  connection, and a suspended request serves a session or operation that exists
  (`CallBacked`).
- **Realtime** (`RealtimeInv`): a slot that waits to be accepted resumes from the
  position the browser still has, and a "connected" frame comes first on the wire
  (`SlotSound`); a batch whose sockets were found valid was committed under the
  grant (`ApplierSound`).
- **Retention** (`RetentionInv`): a settled row has no lease and true evidence; a
  store that a sweep has visited has a row for every copy it holds.
- **Restore** (`RestoreInv`): what a replay has not shown is in a manifest behind
  its checkpoint, also while a purge moves events (`ReplaySound`, `PageSound`); a
  request that holds the lease works under the removals it loaded (`LeaseSound`);
  what is about to be published is whole (`WholeSound`).
- **Private services** (`PrivateInv`): a claim follows a reservation under the
  same epoch and generation; each service's rows, handlers and gateway requests
  agree, so that one handler at most can ask. The theorems are about `MCPrivate`'s
  specification, in which one service runs at a time, for any constants.

`DeliveriesImplementWork` is a refinement: under the mapping of `Webhooks`
(`pending` is open, `leased` is trying, `delivered` done, `uncertain` unknown,
`cancelled` dropped), `WebhookSpec => Work!WorkSpec`: each step of the ledger of
deliveries is a step of the abstract ledger or a stutter.

Facts about data that the proofs need (the minimum of a
set of ticks, the union of finite sets, cardinalities) are lemmas of the proof modules.

## 6. What is only model-checked

- **Liveness** (`PurgeErases`, `RangesSettle`, `SessionsEnd`, `BatchesArrive`,
  `BrowserCatchesUp`, and the fairness conjunct of `DeliveriesAreDurableWork`):
  fairness and ENABLED are out of the prover's reach.
- **`ProjectionConverges`**: its conjunct `MessageShowsTheNewest` is proved
  (`NewestAlwaysShown`). The other, `RowsConverge`, compares the rows with the ones
  a fold over the whole stream in observed order gives; proving it for every
  stream is an induction over data, which the installed provers cannot do.
  TLC checks it for every stream of four events described above.
- **Two removals on one batch, with faults, ending**: `PurgeErases` is checked
  without faults, because with them it does not hold (section 7).

## 7. Where the code and what is said of it differ

One run shows a violation.

- **`purge_overlap`**: two removals match one batch, no fault. The second rewrites
  the batch while the first waits for its safety window, and hides the manifest of
  the first one's replacement. `validateReplacement` of the first then fails on
  every later run (`archive/purge.ts:675`): its row stays incomplete and the
  original data object, which still holds both removed bodies, is never deleted. The comment at
  `archive/purge.ts:945` says that the operation "can resume after any failed
  step". The tests of overlapping removals use a safety window of 0.

The following definitions state what a document, a comment or a reader of the
code would expect, and TLC finds them false; they are kept in their modules with
the reason and are not part of a run.

| Definition | Why it does not hold |
|---|---|
| `OutboundLedger!WaitingLapses` | rescheduling after a deadline and before its alarm runs drops the only wake-up |
| `OutboundLedger!PendingIsTaken` | only the handler that saved a command claims it; if it dies, the command stays pending |
| `OutboundAuthority!ReconnectionMakesEligible` | reconnecting changes the status of the connection, which moves the epoch a waiting acceptance reserved (`docs/specs/2026-09-13-communicator-agent-messaging.md:249`) |
| `AccountGrants!RepeatIsHarmless` | a repeated mutation runs its statements again and can reopen a grant revoked since |
| `AccountGrants!ReusedAfterRemovingRows` | a group completion clears the chats of a grant only if its earlier SELECT already saw it revoked (`groups/repository.ts:438`) |
| `GroupCreation!CreatedGroupsStayCreated` | the UPDATE that ends the slower of two handlers has no condition on the status |
| `Receipts!RejectedReceiptsWereNotSent` | a repeated request may write "rejected" over a receipt that is on its way |
| `Webhooks!RemovalEventIsKept` | a suppression that runs again cancels the removal event, and INSERT OR IGNORE never writes it anew (`docs/product-alignment.md:146`) |
| `History!ImportSettles` | a worker with an older view of the ranges may write "active" last (`docs/planning/2026-09-13-agent-messaging-tickets.md:262`) |
| `Linking!EndedRelinksAreSettled` | nothing settles the operation of a relink that was cancelled, expired or refused (`docs/superpowers/specs/2026-08-27-communicator-cloudflare-data-plane-design.md:712`) |
| `Projector!PreviewHidesRemovals` | the redaction pass leaves the preview of the conversation list as the batch computed it |
| `Projector!UnreadConverges` | the unread count depends on the order once the local reader is deleted |
| `Realtime!SocketsFollowTheGeneration` | an upgrade that waits for D1 while a rebuild begins is accepted into the old generation (`docs/superpowers/plans/2026-09-10-communicator-realtime-websocket-implementation.md:299`) |
| `Realtime!LeasesHaveAnAlarm` | the alarm handler sets the alarm for the sockets it checked, not for one accepted meanwhile (`docs/runbooks/realtime-websocket-local.md:330`) |
| `Restore!RetainedRecordsRestore` | a rebuild resumed after a removal starts behind the key a purge moved retained events to (`docs/planning/2026-09-13-agent-messaging-tickets.md:994`) |
| `Restore!RestoreHidesRemovals` | a rebuild resumed after its last page publishes without another redaction (same file, line 992) |

The two restore cases are the reason for `straddled`: `AcceptedIsNotLost` and
`ActivatedHidesRemovals` leave out rebuilds resumed under another removal ledger
than they began with. Likewise `SettledRangesStay` leaves out the first range of an
import, which the start handler writes without a lease; `OneRequestInFlight` a
delivery retried by hand; and `SessionsLinkOnce` a session whose object died between
D1 and its own storage.

### Behaviour worth knowing

Met while modelling; the models have it, and the properties are stated around it.

- **Purge.** A death after a replacement was archived and before D1 recorded it
  makes the retry archive another `archived_at` and end in `archive_conflict` on
  every run. A batch of which nothing is retained, with a deletion that threw,
  stays incomplete. A repeated post recreates a hidden manifest. A slow execution
  can put a manifest whose data is gone. Removals by provider events have no purge
  operation.
- **Restore.** A page from which the sanitizer dropped an event fails the count
  check of `applyReplayPage`, so the restore aborts and the projection stays
  cleared until another one succeeds. A batch whose manifest sorts before the
  cursor depends on its pointer and the queue's ten deliveries. A slow request's
  failed renewal aborts the request that resumed its rebuild. A request that dies
  leaves the projection rebuilding; only the same `rebuild_id` and `started_at`
  resume it. A removal recorded between `loadRestoreAuthority` and the transaction of
  `completeRebuild` is not in the outbound fence. Removals by deletion events have no
  purge operation, so the readiness gate calls them incomplete.
- **Ingestion.** A batch purged before its pointer is delivered ends in the dead
  letter queue; what it retains reaches the projection with the next rebuild.
- **Retention.** An open row keeps the `lease_token` of its worker and
  `recordInventoryResult` requires NULL, so after one incomplete inventory the
  placeholder of a store cannot complete. Leases and `completed_at` count from the
  start of the sweep.
- **Groups, chats, receipts.** There is one operation row per contact for ever, and
  an uncertain one never becomes created. An unreadable body of a 200 answer
  records a group as failed although it exists. A death after the claim leaves a
  receipt dispatching.
- **Webhooks.** An edit between reading the content and recording "delivered" is
  not sent. A created delivery that ended uncertain gets no removal notice. A
  removal recorded under an active restore lease gets epoch 1.
- **History.** `max_events` is not enforced, `attempt_count` is never reset, and a
  timeout is terminal.
- **Realtime.** Concurrent resuming upgrades can exceed the capacity. Changes
  between loading a page and the first connection are not announced.

## 8. What is not modelled

- **Read API, search, MCP server, bearer tokens and OIDC**: they change no state
  that another request reads.
- **OAuth authorization server**: a component of its own; its results enter the
  models as grants and principals that come and go.
- **Attachment bytes, canonical JSON, gzip, hashes**: pure functions on byte
  strings; the models keep equality of contents and of encodings.
- **The gateway's own store and Matrix sync, providers, R2, D1 and the queue**: what
  the Worker can observe of them (late, lost or repeated answers, conditional puts,
  redelivery) is modelled from how the code uses them and marked external.
- **React components, the mock server, migrations of stored objects, encrypted
  cursors, listing and inspection routes.**
- **Several tenants, identities or tabs**: rows are keyed by tenant and identity
  and the modelled statements never cross them; tabs that share stored positions
  are not modelled.
- **Interaction of parts that run side by side**: the composing modules run one part at a
  time. Where two parts meet on the same rows (a removal with a delivery, a purge
  with a restore, a rebuild with the ledger, a rebuild with ingestion, a group
  completion with grants), the steps of the other part that touch those rows are
  actions of the module.
