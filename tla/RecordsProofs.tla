---------------------------- MODULE RecordsProofs ----------------------------
(***************************************************************************)
(* Proofs about what happens to records, for any batches, requests,        *)
(* removals, stores and sweeps.  Restore: what was accepted is not lost, a *)
(* restore that goes live shows nothing removed, and what is published is  *)
(* only replaced by the next rebuild.  Retention: a removal that its rows  *)
(* call complete is complete, and a settled row is never written again.    *)
(***************************************************************************)
EXTENDS Restore, Retention, FiniteSetTheorems, NaturalsInduction, WellFoundedInduction, TLAPS

\* The types of the rows.
RestorerRow ==
    [phase : Phases, rebuild : Rebuilds \cup {"none"}, expected : Int,
     authority : SUBSET Removables, epoch : Nat, begun : BOOLEAN, cursor : Cursors, page : Pages]

ProjectionRow ==
    [state : {"ready", "rebuilding", "rebuild_failed"}, generation : Nat,
     rebuild : Rebuilds \cup {"none"}, completed : SUBSET Rebuilds, failed : SUBSET Rebuilds,
     latest : Rebuilds \cup {"none"}, checkpoint : [value : Cursors, page : Pages],
     shown : SUBSET AllEvents]

PurgeRow == [event : Removables, from : Manifests, to : Manifests \ Archivable]

RestoreShape ==
    /\ archived \in [Manifests -> SUBSET AllEvents]
    /\ pointers \in [Archivable -> PointerStates]
    /\ removals \in [Removables -> PurgeStates]
    /\ epoch \in Nat
    /\ purge \in PurgeRow \cup {NoPurge}
    /\ projection \in ProjectionRow
    /\ restorers \in [Restorers -> RestorerRow]
    /\ straddled \in BOOLEAN

\* A batch that was not accepted has no manifest.
UnsentIsAbsent == \A b \in Archivable : pointers[b] = "absent" => archived[b] = {}

\* A purge under way is of a removal that is not complete, and the replacement
\* holds what stays of the original.
PurgeSound ==
    purge # NoPurge =>
        /\ removals[purge.event] = "purging" /\ purge.from # purge.to
        /\ purge.event \in archived[purge.from]
        /\ archived[purge.from] \ {purge.event} \subseteq archived[purge.to]

\* The rebuild under way has an id that no rebuild had before it.
RebuildSound ==
    /\ projection.state = "rebuilding" <=> projection.rebuild \in Rebuilds
    /\ projection.rebuild \notin projection.completed \cup projection.failed

\* A rebuild begins under removals that are complete, and while there are no
\* others the projection shows none of them.
BegunSound ==
    /\ begunUnder \subseteq Removables /\ \A e \in begunUnder : removals[e] = "complete"
    /\ Removed = begunUnder => projection.shown \cap Removed = {}

\* A checkpoint is where the last page ended, which is after it started.
CheckpointSound(k) == k # NoCheckpoint => k.value = k.page.next /\ k.page.source < k.value

Begun == {"read", "apply", "final", "complete", "publish"}

Mine(me) == projection.state = "rebuilding" /\ projection.rebuild = me.rebuild

\* The rebuild of a request is under way or over, its position is not ahead of
\* the checkpoint, and its replay has ended when it says so.
RestorerSound(me) ==
    /\ me.phase \in Begun <=> me.begun
    /\ me.phase # "idle" => me.rebuild \in Rebuilds
    /\ \A e \in me.authority : removals[e] = "complete"
    /\ me.cursor < Terminal
    /\ me.begun => Mine(me) \/ me.rebuild \in projection.completed \cup projection.failed
    /\ me.phase \in {"lease", "begin"} =>
          /\ me.cursor = Start /\ me.expected <= projection.generation
          /\ projection.state = "rebuilding" => me.expected < projection.generation
    /\ me.phase = "apply" => me.page.source = me.cursor /\ me.cursor < me.page.next
    /\ me.phase \in {"read", "apply"} /\ Mine(me) => me.cursor <= projection.checkpoint.value
    /\ me.phase \in {"final", "complete", "publish"} /\ Mine(me) =>
          projection.checkpoint.value = Terminal

\* While a request that began or resumed a rebuild holds the lease, no other
\* can begin one, and the rebuild is under the removals the request loaded.
LeaseSound ==
    \A c \in Restorers : activation = c /\ restorers[c].begun =>
        /\ \A d \in Restorers : d # c /\ restorers[d].phase = "begin" =>
              restorers[d].expected < projection.generation
        /\ ~straddled => restorers[c].authority = begunUnder

\* The rebuild under way can still be published as it is.
Sound == projection.state = "rebuilding" /\ ~straddled /\ Removed = begunUnder

InArchiveAfter(e, n) == \E k \in Manifests : k > n /\ e \in archived[k]

\* An event that the projection must show.
Due(e) ==
    /\ e \in AllEvents /\ e \notin Removed
    /\ \E b \in Archivable : pointers[b] = "acked" /\ e \in EventsOf[b]

\* What the replay has not shown is behind the checkpoint.
ReplaySound ==
    Sound => \A e \in AllEvents : Due(e) =>
        e \in projection.shown \/ InArchiveAfter(e, projection.checkpoint.value)

\* A page that would be applied next misses nothing before the next one.
PageSound(me) ==
    me.phase = "apply" /\ Mine(me) /\ Sound /\ me.page.source = projection.checkpoint.value =>
        \A e \in AllEvents : Due(e) =>
            e \in projection.shown \/ e \in me.page.events \/ InArchiveAfter(e, me.page.next)

Whole == \A e \in AllEvents : Due(e) => e \in projection.shown

\* What is about to be published is whole, and so is what is published.
WholeSound(me) == me.phase \in {"complete", "publish"} /\ Mine(me) /\ ~straddled => Whole

ReadySound == projection.state = "ready" /\ ~straddled => Whole

\* Every accepted event that was not removed is in some batch.
Replayable ==
    \A b \in Archivable, e \in AllEvents :
        pointers[b] # "absent" /\ e \in EventsOf[b] /\ e \notin Removed => InArchiveAfter(e, Start)

RequestsSound ==
    \A c \in Restorers : /\ RestorerSound(restorers[c]) /\ PageSound(restorers[c])
                         /\ WholeSound(restorers[c])

\* The inductive invariant.
RestoreInv ==
    /\ RestoreShape /\ UnsentIsAbsent /\ PurgeSound /\ RebuildSound /\ BegunSound
    /\ CheckpointSound(projection.checkpoint) /\ LeaseSound /\ ReplaySound /\ ReadySound
    /\ Replayable /\ RequestsSound
-----------------------------------------------------------------------------
(* Keys, pages and the archive                                               *)

\* Manifest keys are the positions between the start and the terminal cursor.
LEMMA Keys ==
    /\ Terminal \in Nat /\ Start \in Cursors /\ Terminal \in Cursors /\ Cursors \subseteq Nat
    /\ Start < Terminal /\ Manifests \subseteq Cursors
    /\ \A k \in Manifests : k > Start /\ k < Terminal /\ k # Start
<1>1. PICK n : n = Cardinality(Manifests)
  BY Zenon
<1>2. n \in Nat /\ Manifests = 1..n
  BY Zenon, <1>1, RestoreConstants, FS_CardinalityType
<1>3. /\ n + 1 \in Nat /\ 0 \in 0..(n + 1) /\ n + 1 \in 0..(n + 1) /\ 0 < n + 1
      /\ \A k \in 0..(n + 1) : k \in Nat
      /\ \A k \in 1..n : k \in 0..(n + 1) /\ k > 0 /\ k < n + 1 /\ k # 0
  BY <1>2
<1> QED BY Zenon, <1>1, <1>2, <1>3 DEF Terminal, Start, Cursors

\* The least key of a page's listing.
LEMMA LeastKey ==
    ASSUME NEW S, S \subseteq Nat, S # {}
    PROVE  Min(S) \in S /\ \A y \in S : Min(S) =< y
<1> DEFINE R == {p \in Nat \X Nat : p[1] < p[2]}
<1>1. IsWellFoundedOn(R, Nat)
  BY NatLessThanWellFounded, Zenon DEF OpToRel
<1>2. PICK x \in S : \A y \in S : <<y, x>> \notin R
  <2> HIDE DEF R
  <2> QED BY ZenonT(60), <1>1, WFMin
<1>3. \A y \in S : x =< y
  <2> SUFFICES ASSUME NEW y \in S PROVE x =< y
    BY Zenon
  <2>1. x \in Nat /\ y \in Nat /\ <<y, x>> \in Nat \X Nat
    BY Zenon
  <2>2. <<y, x>>[1] = y /\ <<y, x>>[2] = x
    BY Zenon
  <2>3. ~(y < x)
    BY Zenon, <1>2, <2>1, <2>2
  <2> QED BY <2>1, <2>3
<1> QED BY ZenonT(60), <1>3 DEF Min

\* readReplayPage moves on, and every manifest listed after the cursor is the
\* one of the page or comes after the next cursor.
LEMMA ReplayPage ==
    ASSUME archived \in [Manifests -> SUBSET AllEvents], NEW n \in Cursors, n < Terminal
    PROVE  /\ replayPage(n) \in Pages
           /\ replayPage(n).source = n /\ n < replayPage(n).next
           /\ \A k \in Manifests : k > n /\ archived[k] # {} =>
                 \/ archived[k] \ Removed \subseteq replayPage(n).events
                 \/ k > replayPage(n).next
<1>1. PICK listed : listed = listedAfter(n)
  BY Zenon
<1>2. PICK key : key = IF listed = {} THEN Start ELSE Min(listed)
  BY Zenon
<1>3. PICK next : next = IF Cardinality(listed) <= 1 THEN Terminal ELSE key
  BY Zenon
<1>4. PICK events : events = IF key = Start THEN {} ELSE sanitized(archived[key])
  BY Zenon
<1>5. /\ replayPage(n).source = n /\ replayPage(n).next = next /\ replayPage(n).events = events
      /\ replayPage(n).key = key
      /\ replayPage(n).sane = (key # Start => sanitized(archived[key]) = archived[key])
  BY Zenon, <1>1, <1>2, <1>3, <1>4 DEF replayPage
<1>6. listed \subseteq Manifests /\ IsFiniteSet(listed) /\ listed \subseteq Nat
      /\ \A k \in Manifests : k \in listed <=> (k > n /\ archived[k] # {})
  BY ZenonT(60), <1>1, RestoreConstants, FS_Subset, Keys DEF listedAfter
<1>7. Cardinality(listed) \in Nat /\ (Cardinality(listed) = 0 <=> listed = {})
      /\ (Cardinality(listed) = 1 <=> \E x : listed = {x})
  BY Zenon, <1>6, FS_CardinalityType, FS_EmptySet, FS_Singleton
<1>8. listed # {} => key \in listed /\ \A k \in listed : key =< k
  BY Zenon, <1>2, <1>6, LeastKey
<1>9. key \in Cursors /\ next \in Cursors /\ events \subseteq AllEvents
  BY Zenon, <1>2, <1>3, <1>4, <1>6, <1>8, Keys DEF sanitized
<1>10. replayPage(n) \in Pages
  <2>1. replayPage(n) = [source |-> n, key |-> key, events |-> events, next |-> next,
                         sane |-> key # Start => sanitized(archived[key]) = archived[key]]
    BY Zenon, <1>1, <1>2, <1>3, <1>4 DEF replayPage
  <2>2. PICK sane \in BOOLEAN : sane = (key # Start => sanitized(archived[key]) = archived[key])
    BY Zenon
  <2>3. replayPage(n) = [source |-> n, key |-> key, events |-> events, next |-> next, sane |-> sane]
    BY <2>1, <2>2
  <2> QED BY <1>9, <2>2, <2>3 DEF Pages
<1>11. n < next
  <2>1. CASE Cardinality(listed) <= 1
    BY Zenon, <1>3, <2>1
  <2>2. CASE ~(Cardinality(listed) <= 1)
    <3>1. listed # {}
      BY <1>7, <2>2
    <3>2. key > n
      BY Zenon, <1>6, <1>8, <3>1
    <3>3. key \in Nat /\ n \in Nat /\ next = key
      BY Zenon, <1>3, <1>9, <2>2, Keys
    <3> QED BY <3>2, <3>3
  <2> QED BY Zenon, <2>1, <2>2
<1>12. ASSUME NEW k \in Manifests, k > n, archived[k] # {}
       PROVE  archived[k] \ Removed \subseteq events \/ k > next
  <2>1. k \in listed /\ key =< k /\ key \in listed
    BY Zenon, <1>6, <1>8, <1>12
  <2>2. CASE k = key
    <3>1. key # Start
      BY Zenon, <2>2, Keys
    <3> QED BY Zenon, <1>4, <2>2, <3>1 DEF sanitized
  <2>3. CASE k # key
    <3>1. ASSUME NEW x, listed = {x} PROVE FALSE
      <4>1. k = x /\ key = x
        BY Zenon, <2>1, <3>1
      <4> QED BY Zenon, <2>3, <4>1
    <3>2. ~(Cardinality(listed) <= 1)
      BY <1>7, <2>1, <3>1
    <3>3. k \in Nat /\ key \in Nat
      BY Zenon, <1>6, <2>1
    <3>4. k > key
      BY <2>1, <2>3, <3>3
    <3> QED BY Zenon, <1>3, <3>2, <3>4
  <2> QED BY Zenon, <2>2, <2>3
<1> QED BY Zenon, <1>5, <1>10, <1>11, <1>12

\* The empty page, the first checkpoint and the idle request have their types.
LEMMA Blanks ==
    /\ NoPage \in Pages /\ NoCheckpoint \in [value : Cursors, page : Pages]
    /\ NoCheckpoint.value = Start /\ CheckpointSound(NoCheckpoint)
    /\ IdleRestorer \in RestorerRow
    /\ IdleRestorer.phase = "idle" /\ IdleRestorer.begun = FALSE /\ IdleRestorer.authority = {}
    /\ IdleRestorer.cursor = Start
<1>1. NoPage \in Pages
  BY Zenon, Keys DEF NoPage, Pages
<1>2. NoCheckpoint \in [value : Cursors, page : Pages] /\ NoCheckpoint.value = Start
  BY Zenon, <1>1, Keys DEF NoCheckpoint
<1>3. 0 \in Nat /\ 0 \in Int
  OBVIOUS
<1>4. IdleRestorer \in RestorerRow
  BY Zenon, <1>1, <1>3, Keys DEF IdleRestorer, RestorerRow, Phases
<1> QED BY Zenon, <1>1, <1>2, <1>4 DEF IdleRestorer, CheckpointSound

-----------------------------------------------------------------------------
(* Steps of the archive, the queue and the removals                          *)

\* Removals are only added, and one whose purge is complete stays so.
RemovalsGrow ==
    /\ Removed \subseteq Removed'
    /\ \A e \in Removables : removals[e] = "complete" => removals'[e] = "complete"

NoneAcked == \A b \in Archivable : pointers'[b] = "acked" => pointers[b] = "acked"

\* A rebuild that was overtaken by a removal stays so.
LEMMA Overtaken ==
    ASSUME BegunSound, RemovalsGrow, begunUnder' = begunUnder, Removed' = begunUnder
    PROVE  Removed' = Removed
<1>1. begunUnder \subseteq Removed
  <2> SUFFICES ASSUME NEW e \in begunUnder PROVE e \in Removed
    BY Zenon
  <2>1. e \in Removables /\ removals[e] = "complete"
    BY Zenon DEF BegunSound
  <2>2. removals[e] # "none"
    BY <2>1
  <2> QED BY Zenon, <2>1, <2>2 DEF Removed
<1> QED BY Zenon, <1>1 DEF RemovalsGrow

\* No event becomes due when none is acknowledged.
LEMMA DueStays ==
    ASSUME RemovalsGrow, NoneAcked
    PROVE  \A e \in AllEvents : Due(e)' => Due(e)
<1> SUFFICES ASSUME NEW e \in AllEvents, Due(e)' PROVE Due(e)
  BY Zenon
<1>1. e \notin Removed
  BY Zenon DEF Due, RemovalsGrow
<1> QED BY Zenon, <1>1 DEF Due, NoneAcked

\* A step that leaves the projection and the requests alone keeps the
\* invariant, if it keeps the archive's part of it and, while a rebuild may
\* still be published, moves no event before the checkpoint.
LEMMA WorldStep ==
    ASSUME RestoreInv, UNCHANGED <<projection, restorers, straddled, begunUnder>>,
           activation' \in {activation, "none"}, RestoreShape', UnsentIsAbsent', PurgeSound',
           Replayable', RemovalsGrow, NoneAcked,
           Removed = begunUnder => \A e \in AllEvents, n \in Cursors :
                                      InArchiveAfter(e, n) => InArchiveAfter(e, n)'
    PROVE  RestoreInv'
<1>1. RebuildSound /\ BegunSound /\ CheckpointSound(projection.checkpoint) /\ LeaseSound
      /\ ReplaySound /\ ReadySound /\ RequestsSound /\ RestoreShape
  BY Zenon DEF RestoreInv
<1>2. Removed' = begunUnder => Removed' = Removed
  BY Zenon, <1>1, Overtaken
<1>3. \A e \in AllEvents : Due(e)' => Due(e)
  BY Zenon, DueStays
<1>4. Sound' => Sound /\ \A e \in AllEvents, n \in Cursors : InArchiveAfter(e, n) => InArchiveAfter(e, n)'
  BY Zenon, <1>2 DEF Sound
<1>5. RebuildSound' /\ CheckpointSound(projection.checkpoint)' /\ LeaseSound'
  BY Zenon, <1>1, RestoreConstants DEF RebuildSound, CheckpointSound, LeaseSound
<1>6. BegunSound'
  BY Zenon, <1>1, <1>2 DEF BegunSound, RemovalsGrow
<1>7. projection.checkpoint.value \in Cursors
      /\ \A c \in Restorers : restorers[c].page.next \in Cursors /\ restorers[c].authority \subseteq Removables
  BY Zenon, <1>1 DEF RestoreShape, ProjectionRow, RestorerRow, Pages
<1>8. ReplaySound'
  BY Zenon, <1>1, <1>3, <1>4, <1>7 DEF ReplaySound
<1>9. Whole => Whole'
  BY Zenon, <1>3 DEF Whole
<1>10. ReadySound'
  BY Zenon, <1>1, <1>9 DEF ReadySound
<1>11. ASSUME NEW c \in Restorers PROVE RestorerSound(restorers[c])'
  <2>1. RestorerSound(restorers[c])
    BY Zenon, <1>1 DEF RequestsSound
  <2>2. \A e \in restorers[c].authority : removals'[e] = "complete"
    BY Zenon, <1>7, <2>1 DEF RestorerSound, RemovalsGrow
  <2> QED BY Zenon, <2>1, <2>2 DEF RestorerSound, Mine
<1>12. ASSUME NEW c \in Restorers PROVE PageSound(restorers[c])'
  <2>1. PageSound(restorers[c])
    BY Zenon, <1>1 DEF RequestsSound
  <2> QED BY Zenon, <1>3, <1>4, <1>7, <2>1 DEF PageSound, Mine
<1>13. ASSUME NEW c \in Restorers PROVE WholeSound(restorers[c])'
  <2>1. WholeSound(restorers[c])
    BY Zenon, <1>1 DEF RequestsSound
  <2> QED BY Zenon, <1>9, <2>1 DEF WholeSound, Mine
<1>14. RequestsSound'
  BY Zenon, <1>11, <1>12, <1>13 DEF RequestsSound
<1> QED BY Zenon, <1>5, <1>6, <1>8, <1>10, <1>14 DEF RestoreInv

\* Writing to the archive moves no event back.
LEMMA ArchiveGrows ==
    ASSUME \A k \in Manifests : archived[k] \subseteq archived'[k]
    PROVE  \A e \in AllEvents, n \in Cursors : InArchiveAfter(e, n) => InArchiveAfter(e, n)'
BY Zenon DEF InArchiveAfter

\* Removals are added to the ledger and the rows there are do not change.
LedgerGrows ==
    /\ removals' \in [Removables -> PurgeStates] /\ epoch' \in Nat
    /\ \A e \in Removables : removals[e] # "none" => removals'[e] = removals[e]

\* The epoch recordRemoval allocates is a number.
LEMMA EpochType ==
    ASSUME epoch \in Nat, NEW new \in SUBSET Removables
    PROVE  recordedEpoch(new) \in Nat
<1>1. Cardinality(new) \in Nat
  BY Zenon, RestoreConstants, FS_Subset, FS_CardinalityType
<1>2. Max({epoch, 1}) \in Nat
  <2>1. \E x \in {epoch, 1} : \A y \in {epoch, 1} : x >= y
    <3>1. CASE epoch >= 1
      BY <3>1
    <3>2. CASE ~(epoch >= 1)
      BY <3>2
    <3> QED BY Zenon, <3>1, <3>2
  <2>2. Max({epoch, 1}) \in {epoch, 1}
    BY Zenon, <2>1 DEF Max
  <2> QED BY <2>2
<1>3. epoch + Cardinality(new) \in Nat
  BY <1>1
<1> QED BY Zenon, <1>2, <1>3 DEF recordedEpoch

\* #recordRemovedEvents only adds removals.
LEMMA RecordsGrow ==
    ASSUME RestoreShape, NEW events \in SUBSET AllEvents, recordRemovedEvents(events)
    PROVE  LedgerGrows
<1>1. PICK new : new = (UNION {Deletes[e] : e \in events}) \ Removed
  BY Zenon
<1>2. new \in SUBSET Removables
  BY ZenonT(60), <1>1, RestoreConstants
<1>3. /\ removals' = [e \in Removables |-> IF e \in new THEN "no_operation" ELSE removals[e]]
      /\ epoch' = recordedEpoch(new)
  BY Zenon, <1>1 DEF recordRemovedEvents
<1>4. removals' \in [Removables -> PurgeStates]
  BY Zenon, <1>3 DEF RestoreShape, PurgeStates
<1>5. ASSUME NEW e \in Removables, removals[e] # "none" PROVE removals'[e] = removals[e]
  <2>1. e \in Removed
    BY Zenon, <1>5 DEF Removed
  <2>2. e \notin new
    BY Zenon, <1>1, <2>1
  <2> QED BY Zenon, <1>3, <2>2
<1> QED BY Zenon, <1>2, <1>3, <1>4, <1>5, EpochType DEF LedgerGrows, RestoreShape

\* What the archive's part of the invariant needs when only the ledger grows.
LEMMA GrowFrame ==
    ASSUME RestoreInv, LedgerGrows, UNCHANGED <<archived, purge>>,
           \A b \in Archivable : pointers'[b] = "absent" <=> pointers[b] = "absent"
    PROVE  RemovalsGrow /\ UnsentIsAbsent' /\ PurgeSound' /\ Replayable'
<1>1. RestoreShape /\ UnsentIsAbsent /\ PurgeSound /\ Replayable
  BY Zenon DEF RestoreInv
<1>2. RemovalsGrow
  <2>1. \A e \in Removables : removals[e] = "complete" => removals[e] # "none"
    BY Zenon
  <2> QED BY Zenon, <2>1 DEF RemovalsGrow, LedgerGrows, Removed
<1>3. UnsentIsAbsent'
  BY Zenon, <1>1 DEF UnsentIsAbsent
<1>4. PurgeSound'
  <2>1. purge # NoPurge => purge.event \in Removables
    BY Zenon, <1>1 DEF RestoreShape, PurgeRow
  <2>2. \A e \in Removables : removals[e] = "purging" => removals'[e] = "purging"
    BY Zenon DEF LedgerGrows
  <2> QED BY Zenon, <1>1, <2>1, <2>2 DEF PurgeSound
<1>5. Replayable'
  BY Zenon, <1>1, <1>2 DEF Replayable, RemovalsGrow, InArchiveAfter
<1> QED BY Zenon, <1>2, <1>3, <1>4, <1>5

\* Removals and the purge of one batch keep the invariant.
LEMMA RemovalsKeepInv ==
    ASSUME RestoreInv, NEW e \in Removables,
           recordRemovalWithArchivePurge(e) \/ writeReplacement(e) \/ finishPurge(e)
    PROVE  RestoreInv'
<1>1. RestoreShape /\ UnsentIsAbsent /\ PurgeSound /\ Replayable
  BY Zenon DEF RestoreInv
<1>2. CASE recordRemovalWithArchivePurge(e)
  <2>1. /\ removals[e] \in {"none", "no_operation"} /\ removals' = [removals EXCEPT ![e] = "purging"]
        /\ epoch' = recordedEpoch({e} \ Removed)
        /\ UNCHANGED <<archived, pointers, purge, activation, projection, restorers, straddled, begunUnder>>
    BY Zenon, <1>2 DEF recordRemovalWithArchivePurge
  <2>2. removals' \in [Removables -> PurgeStates] /\ epoch' \in Nat
    BY Zenon, <1>1, <2>1, EpochType DEF RestoreShape, PurgeStates
  <2>3. /\ removals[e] # "complete" /\ removals[e] # "purging" /\ removals'[e] = "purging"
        /\ \A d \in Removables : d # e => removals'[d] = removals[d]
    BY Zenon, <1>1, <2>1 DEF RestoreShape
  <2>4. RemovalsGrow
    BY Zenon, <2>3 DEF RemovalsGrow, Removed
  <2>5. RestoreShape' /\ UnsentIsAbsent'
    BY Zenon, <1>1, <2>1, <2>2 DEF RestoreShape, UnsentIsAbsent
  <2>6. purge # NoPurge => purge.event \in Removables
    BY Zenon, <1>1 DEF RestoreShape, PurgeRow
  <2>7. PurgeSound'
    BY Zenon, <1>1, <2>1, <2>3, <2>6 DEF PurgeSound
  <2>8. Replayable'
    BY Zenon, <1>1, <2>1, <2>4 DEF Replayable, RemovalsGrow, InArchiveAfter
  <2>9. NoneAcked
    BY Zenon, <2>1 DEF NoneAcked
  <2>10. \A k \in Manifests : archived[k] \subseteq archived'[k]
    BY Zenon, <2>1
  <2> QED BY Zenon, <2>1, <2>4, <2>5, <2>7, <2>8, <2>9, <2>10, ArchiveGrows, WorldStep
<1>3. CASE writeReplacement(e)
  <2>1. PICK k \in Manifests, to \in Manifests \ Archivable :
            /\ e \in archived[k] /\ archived[to] = {}
            /\ purge' = [event |-> e, from |-> k, to |-> to]
            /\ archived' = [archived EXCEPT ![to] = archived[k] \ {e}]
    BY Zenon, <1>3 DEF writeReplacement
  <2>2. /\ removals[e] = "purging"
        /\ UNCHANGED <<pointers, removals, epoch, activation, projection, restorers, straddled, begunUnder>>
    BY Zenon, <1>3 DEF writeReplacement
  <2>3. k # to
    BY Zenon, <2>1
  <2>4. /\ archived'[to] = archived[k] \ {e} /\ archived' \in [Manifests -> SUBSET AllEvents]
        /\ \A j \in Manifests : j # to => archived'[j] = archived[j]
    BY Zenon, <1>1, <2>1 DEF RestoreShape
  <2>5. purge' \in PurgeRow
    BY Zenon, <2>1 DEF PurgeRow
  <2>6. RestoreShape'
    BY Zenon, <1>1, <2>2, <2>4, <2>5 DEF RestoreShape
  <2>7. UnsentIsAbsent'
    BY Zenon, <1>1, <2>2, <2>4, RestoreConstants DEF UnsentIsAbsent
  <2>8. PurgeSound'
    BY Zenon, <2>1, <2>2, <2>3, <2>4 DEF PurgeSound
  <2>9. \A j \in Manifests : archived[j] \subseteq archived'[j]
    BY Zenon, <2>1, <2>4
  <2>10. Replayable'
    BY Zenon, <1>1, <2>2, <2>9 DEF Replayable, Removed, InArchiveAfter
  <2>11. RemovalsGrow /\ NoneAcked
    BY Zenon, <2>2 DEF RemovalsGrow, NoneAcked, Removed
  <2> QED BY Zenon, <2>2, <2>6, <2>7, <2>8, <2>9, <2>10, <2>11, ArchiveGrows, WorldStep
<1>4. CASE finishPurge(e)
  <2>1. /\ removals[e] = "purging" /\ purge = NoPurge /\ removals' = [removals EXCEPT ![e] = "complete"]
        /\ UNCHANGED <<archived, pointers, epoch, purge, activation, projection, restorers, straddled,
                       begunUnder>>
    BY Zenon, <1>4 DEF finishPurge
  <2>2. /\ removals' \in [Removables -> PurgeStates] /\ removals'[e] = "complete"
        /\ \A d \in Removables : d # e => removals'[d] = removals[d]
    BY Zenon, <1>1, <2>1 DEF RestoreShape, PurgeStates
  <2>3. RemovalsGrow /\ NoneAcked
    BY Zenon, <2>1, <2>2 DEF RemovalsGrow, Removed, NoneAcked
  <2>4. RestoreShape' /\ UnsentIsAbsent' /\ PurgeSound'
    BY Zenon, <1>1, <2>1, <2>2 DEF RestoreShape, UnsentIsAbsent, PurgeSound
  <2>5. Replayable'
    BY Zenon, <1>1, <2>1, <2>3 DEF Replayable, RemovalsGrow, InArchiveAfter
  <2>6. \A k \in Manifests : archived[k] \subseteq archived'[k]
    BY Zenon, <2>1
  <2> QED BY Zenon, <2>1, <2>3, <2>4, <2>5, <2>6, ArchiveGrows, WorldStep
<1> QED BY Zenon, <1>2, <1>3, <1>4

\* Deleting the original of a purged batch loses nothing: what stays of it is
\* in the replacement, and no rebuild begun before the removal is published.
LEMMA DeleteKeepsInv ==
    ASSUME RestoreInv, deleteOriginalManifest
    PROVE  RestoreInv'
<1>1. RestoreShape /\ UnsentIsAbsent /\ PurgeSound /\ Replayable /\ BegunSound
  BY Zenon DEF RestoreInv
<1>2. /\ purge # NoPurge /\ archived' = [archived EXCEPT ![purge.from] = {}] /\ purge' = NoPurge
      /\ UNCHANGED <<pointers, removals, epoch, activation, projection, restorers, straddled, begunUnder>>
  BY Zenon DEF deleteOriginalManifest
<1>3. /\ purge.event \in Removables /\ purge.from \in Manifests /\ purge.to \in Manifests
      /\ removals[purge.event] = "purging" /\ purge.from # purge.to
      /\ archived[purge.from] \ {purge.event} \subseteq archived[purge.to]
  BY Zenon, <1>1, <1>2 DEF RestoreShape, PurgeRow, PurgeSound
<1>4. /\ archived' \in [Manifests -> SUBSET AllEvents] /\ archived'[purge.from] = {}
      /\ \A k \in Manifests : k # purge.from => archived'[k] = archived[k]
  BY Zenon, <1>1, <1>2, <1>3 DEF RestoreShape
<1>5. RestoreShape' /\ PurgeSound'
  BY Zenon, <1>1, <1>2, <1>4 DEF RestoreShape, PurgeSound
<1>6. UnsentIsAbsent'
  BY Zenon, <1>1, <1>2, <1>4, RestoreConstants DEF UnsentIsAbsent
<1>7. purge.event \in Removed /\ purge.event \notin begunUnder
  BY <1>1, <1>3 DEF Removed, BegunSound
<1>8. Replayable'
  <2> SUFFICES ASSUME NEW b \in Archivable, NEW e \in AllEvents, pointers[b] # "absent",
                      e \in EventsOf[b], e \notin Removed
               PROVE  InArchiveAfter(e, Start)'
    BY Zenon, <1>2 DEF Replayable, Removed
  <2>1. PICK k \in Manifests : e \in archived[k]
    BY Zenon, <1>1 DEF Replayable, InArchiveAfter
  <2>2. k = purge.from => e \in archived[purge.to]
    BY Zenon, <1>3, <1>7, <2>1
  <2> QED BY Zenon, <1>3, <1>4, <2>1, <2>2, Keys DEF InArchiveAfter
<1>9. RemovalsGrow /\ NoneAcked
  BY Zenon, <1>2 DEF RemovalsGrow, NoneAcked, Removed
<1> QED BY Zenon, <1>2, <1>5, <1>6, <1>7, <1>8, <1>9, WorldStep

\* A batch arrives, its pointer is taken, or is dead lettered.
LEMMA QueueKeepsInv ==
    ASSUME RestoreInv, NEW b \in Archivable, ingest(b) \/ prepareLive(b) \/ deadLetter(b)
    PROVE  RestoreInv'
<1>1. RestoreShape /\ UnsentIsAbsent /\ PurgeSound /\ Replayable
  BY Zenon DEF RestoreInv
<1>2. b \in Manifests /\ EventsOf[b] \subseteq AllEvents
  BY Zenon, RestoreConstants DEF AllEvents
<1>3. CASE ingest(b)
  <2>1. /\ pointers[b] = "absent" /\ archived' = [archived EXCEPT ![b] = EventsOf[b]]
        /\ pointers' = [pointers EXCEPT ![b] = "queued"]
        /\ UNCHANGED <<removals, epoch, purge, activation, projection, restorers, straddled, begunUnder>>
    BY Zenon, <1>3 DEF ingest
  <2>2. /\ archived'[b] = EventsOf[b] /\ archived' \in [Manifests -> SUBSET AllEvents]
        /\ \A k \in Manifests : k # b => archived'[k] = archived[k]
    BY Zenon, <1>1, <1>2, <2>1 DEF RestoreShape
  <2>3. /\ pointers'[b] = "queued" /\ pointers' \in [Archivable -> PointerStates]
        /\ \A a \in Archivable : a # b => pointers'[a] = pointers[a]
    BY Zenon, <1>1, <2>1 DEF RestoreShape, PointerStates
  <2>4. archived[b] = {}
    BY Zenon, <1>1, <2>1 DEF UnsentIsAbsent
  <2>5. RestoreShape'
    BY Zenon, <1>1, <2>1, <2>2, <2>3 DEF RestoreShape
  <2>6. UnsentIsAbsent'
    BY Zenon, <1>1, <2>2, <2>3, RestoreConstants DEF UnsentIsAbsent
  <2>7. purge # NoPurge => purge.from \in Manifests /\ purge.to \in Manifests /\ purge.to # b
    BY Zenon, <1>1 DEF RestoreShape, PurgeRow
  <2>8. purge # NoPurge => purge.from # b
    BY Zenon, <1>1, <2>4 DEF PurgeSound
  <2>9. PurgeSound'
    BY Zenon, <1>1, <2>1, <2>2, <2>7, <2>8 DEF PurgeSound
  <2>10. \A k \in Manifests : archived[k] \subseteq archived'[k]
    BY Zenon, <2>2, <2>4
  <2>11. Replayable'
    <3> SUFFICES ASSUME NEW a \in Archivable, NEW e \in AllEvents, pointers'[a] # "absent",
                        e \in EventsOf[a], e \notin Removed'
                 PROVE  InArchiveAfter(e, Start)'
      BY Zenon DEF Replayable
    <3>1. CASE a = b
      BY Zenon, <1>2, <2>2, <3>1, Keys DEF InArchiveAfter
    <3>2. CASE a # b
      BY Zenon, <1>1, <2>1, <2>3, <2>10, <3>2 DEF Replayable, Removed, InArchiveAfter
    <3> QED BY Zenon, <3>1, <3>2
  <2>12. RemovalsGrow /\ NoneAcked
    BY Zenon, <2>1, <2>3 DEF RemovalsGrow, NoneAcked, Removed
  <2> QED BY Zenon, <2>1, <2>5, <2>6, <2>9, <2>10, <2>11, <2>12, ArchiveGrows, WorldStep
<1>4. CASE prepareLive(b)
  <2>1. /\ pointers[b] = "queued" /\ recordRemovedEvents(archived[b])
        /\ pointers' = [pointers EXCEPT ![b] = "prepared"]
        /\ UNCHANGED <<archived, purge, activation, projection, restorers, straddled, begunUnder>>
    BY Zenon, <1>4 DEF prepareLive
  <2>2. archived[b] \in SUBSET AllEvents
    BY Zenon, <1>1, <1>2 DEF RestoreShape
  <2>3. LedgerGrows
    BY Zenon, <1>1, <2>1, <2>2, RecordsGrow
  <2>4. /\ pointers'[b] = "prepared" /\ pointers' \in [Archivable -> PointerStates]
        /\ \A a \in Archivable : a # b => pointers'[a] = pointers[a]
    BY Zenon, <1>1, <2>1 DEF RestoreShape, PointerStates
  <2>5. NoneAcked /\ \A a \in Archivable : pointers'[a] = "absent" <=> pointers[a] = "absent"
    BY Zenon, <2>1, <2>4 DEF NoneAcked
  <2>6. RestoreShape'
    BY Zenon, <1>1, <2>1, <2>3, <2>4 DEF RestoreShape, LedgerGrows
  <2>7. \A k \in Manifests : archived[k] \subseteq archived'[k]
    BY Zenon, <2>1
  <2> QED BY Zenon, <2>1, <2>3, <2>5, <2>6, <2>7, GrowFrame, ArchiveGrows, WorldStep
<1>5. CASE deadLetter(b)
  <2>1. /\ pointers[b] = "queued" /\ pointers' = [pointers EXCEPT ![b] = "dead"]
        /\ UNCHANGED <<archived, removals, epoch, purge, activation, projection, restorers, straddled,
                       begunUnder>>
    BY Zenon, <1>5 DEF deadLetter
  <2>2. LedgerGrows
    BY Zenon, <1>1, <2>1 DEF LedgerGrows, RestoreShape
  <2>3. /\ pointers'[b] = "dead" /\ pointers' \in [Archivable -> PointerStates]
        /\ \A a \in Archivable : a # b => pointers'[a] = pointers[a]
    BY Zenon, <1>1, <2>1 DEF RestoreShape, PointerStates
  <2>4. NoneAcked /\ \A a \in Archivable : pointers'[a] = "absent" <=> pointers[a] = "absent"
    BY Zenon, <2>1, <2>3 DEF NoneAcked
  <2>5. RestoreShape'
    BY Zenon, <1>1, <2>1, <2>3 DEF RestoreShape
  <2>6. \A k \in Manifests : archived[k] \subseteq archived'[k]
    BY Zenon, <2>1
  <2> QED BY Zenon, <2>1, <2>2, <2>4, <2>5, <2>6, GrowFrame, ArchiveGrows, WorldStep
<1> QED BY Zenon, <1>3, <1>4, <1>5

\* Applying a batch to the ready projection shows what became due.
LEMMA LiveKeepsInv ==
    ASSUME RestoreInv, NEW b \in Archivable, applyLive(b)
    PROVE  RestoreInv'
<1>1. RestoreShape /\ UnsentIsAbsent /\ PurgeSound /\ Replayable /\ RebuildSound /\ BegunSound
      /\ CheckpointSound(projection.checkpoint) /\ LeaseSound /\ ReadySound /\ RequestsSound
  BY Zenon DEF RestoreInv
<1>2. /\ pointers[b] = "prepared"
      /\ UNCHANGED <<archived, removals, epoch, purge, activation, restorers, straddled, begunUnder>>
  BY Zenon DEF applyLive
<1>3. LedgerGrows
  BY Zenon, <1>1, <1>2 DEF LedgerGrows, RestoreShape
<1>4. CASE projection.state # "ready" /\ pointers' = [pointers EXCEPT ![b] = "queued"] /\ projection' = projection
  <2>1. /\ pointers'[b] = "queued" /\ pointers' \in [Archivable -> PointerStates]
        /\ \A a \in Archivable : a # b => pointers'[a] = pointers[a]
    BY Zenon, <1>1, <1>4 DEF RestoreShape, PointerStates
  <2>2. NoneAcked /\ \A a \in Archivable : pointers'[a] = "absent" <=> pointers[a] = "absent"
    BY Zenon, <1>2, <2>1 DEF NoneAcked
  <2>3. RestoreShape'
    BY Zenon, <1>1, <1>2, <1>4, <2>1 DEF RestoreShape
  <2>4. \A k \in Manifests : archived[k] \subseteq archived'[k]
    BY Zenon, <1>2
  <2> QED BY Zenon, <1>2, <1>3, <1>4, <2>2, <2>3, <2>4, GrowFrame, ArchiveGrows, WorldStep
<1>5. CASE /\ projection.state = "ready" /\ pointers' = [pointers EXCEPT ![b] = "acked"]
           /\ projection' = [projection EXCEPT !.shown = (@ \cup EventsOf[b]) \ Removed]
  <2>1. /\ pointers'[b] = "acked" /\ pointers' \in [Archivable -> PointerStates]
        /\ \A a \in Archivable : a # b => pointers'[a] = pointers[a]
    BY Zenon, <1>1, <1>5 DEF RestoreShape, PointerStates
  <2>2. EventsOf[b] \subseteq AllEvents
    BY Zenon DEF AllEvents
  <2>3. PICK s : s = (projection.shown \cup EventsOf[b]) \ Removed
    BY Zenon
  <2>4. projection' = [projection EXCEPT !.shown = s]
    BY Zenon, <1>5, <2>3
  <2>5. s \in SUBSET AllEvents
    BY Zenon, <1>1, <2>2, <2>3 DEF RestoreShape, ProjectionRow
  <2>6. /\ projection' \in ProjectionRow /\ projection'.shown = s
        /\ projection'.state = "ready" /\ projection'.generation = projection.generation
        /\ projection'.rebuild = projection.rebuild /\ projection'.checkpoint = projection.checkpoint
        /\ projection'.completed = projection.completed /\ projection'.failed = projection.failed
    BY Zenon, <1>1, <1>5, <2>4, <2>5 DEF RestoreShape, ProjectionRow
  <2>7. RestoreShape'
    BY Zenon, <1>1, <1>2, <2>1, <2>6 DEF RestoreShape
  <2>8. \A a \in Archivable : pointers'[a] = "absent" <=> pointers[a] = "absent"
    BY Zenon, <1>2, <2>1
  <2>9. UnsentIsAbsent' /\ PurgeSound' /\ Replayable'
    BY Zenon, <1>2, <1>3, <2>8, GrowFrame
  <2>10. RebuildSound' /\ CheckpointSound(projection.checkpoint)' /\ LeaseSound'
    BY Zenon, <1>1, <1>2, <1>5, <2>6 DEF RebuildSound, CheckpointSound, LeaseSound
  <2>11. BegunSound'
    <3>1. s \cap Removed = {}
      BY Zenon, <2>3
    <3> QED BY Zenon, <1>1, <1>2, <2>6, <3>1 DEF BegunSound, Removed
  <2>12. projection'.state # "rebuilding" /\ projection.state # "rebuilding"
    BY Zenon, <1>5, <2>6
  <2>13. ReplaySound'
    BY Zenon, <2>12 DEF ReplaySound, Sound
  <2>14. ReadySound'
    <3> SUFFICES ASSUME ~straddled', NEW e \in AllEvents, Due(e)' PROVE e \in s
      BY Zenon, <2>6 DEF ReadySound, Whole
    <3>1. e \notin Removed
      BY Zenon, <1>2 DEF Due, Removed
    <3>2. CASE e \in EventsOf[b]
      BY Zenon, <2>3, <3>1, <3>2
    <3>3. CASE e \notin EventsOf[b]
      <4>1. Due(e)
        BY Zenon, <2>1, <3>1, <3>3 DEF Due
      <4> QED BY Zenon, <1>1, <1>2, <1>5, <2>3, <3>1, <4>1 DEF ReadySound, Whole
    <3> QED BY Zenon, <3>2, <3>3
  <2>15. ASSUME NEW c \in Restorers
         PROVE  (RestorerSound(restorers[c]) /\ PageSound(restorers[c]) /\ WholeSound(restorers[c]))'
    <3>1. RestorerSound(restorers[c])
      BY Zenon, <1>1 DEF RequestsSound
    <3>2. RestorerSound(restorers[c])'
      BY Zenon, <1>2, <1>5, <2>6, <2>12, <3>1 DEF RestorerSound, Mine
    <3>3. PageSound(restorers[c])' /\ WholeSound(restorers[c])'
      BY Zenon, <2>12 DEF PageSound, WholeSound, Mine
    <3> QED BY Zenon, <3>2, <3>3
  <2> QED BY Zenon, <2>7, <2>9, <2>10, <2>11, <2>13, <2>14, <2>15 DEF RestoreInv, RequestsSound
<1> QED BY Zenon, <1>4, <1>5 DEF applyLive

-----------------------------------------------------------------------------
(* Steps of the restore requests                                             *)

\* A request that goes on, or ends, takes no lease from another.
LEMMA LeaseKept ==
    ASSUME RestoreInv, NEW c \in Restorers, NEW x, restorers' = [restorers EXCEPT ![c] = x],
           activation' \in {activation, "none"}, UNCHANGED <<straddled, begunUnder>>,
           projection'.generation = projection.generation, x.phase # "begin",
           x.begun => restorers[c].begun /\ x.authority = restorers[c].authority
    PROVE  LeaseSound'
<1>1. restorers'[c] = x /\ \A d \in Restorers : d # c => restorers'[d] = restorers[d]
  BY Zenon DEF RestoreInv, RestoreShape
<1>2. LeaseSound
  BY Zenon DEF RestoreInv
<1> SUFFICES ASSUME NEW h \in Restorers, activation' = h, restorers'[h].begun
             PROVE  /\ \A d \in Restorers : d # h /\ restorers'[d].phase = "begin" =>
                          restorers'[d].expected < projection'.generation
                    /\ ~straddled' => restorers'[h].authority = begunUnder'
  BY Zenon DEF LeaseSound
<1>3. activation = h
  BY Zenon, RestoreConstants
<1>4. restorers[h].begun /\ restorers'[h].authority = restorers[h].authority
  BY Zenon, <1>1
<1>5. \A d \in Restorers : restorers'[d].phase = "begin" => restorers'[d] = restorers[d]
  BY Zenon, <1>1
<1> QED BY Zenon, <1>2, <1>3, <1>4, <1>5 DEF LeaseSound

\* A step of one request that leaves the projection and the archive alone.
LEMMA RowStep ==
    ASSUME RestoreInv, LedgerGrows, UNCHANGED <<archived, pointers, purge, projection, begunUnder>>,
           straddled' \in BOOLEAN, straddled => straddled',
           NEW c \in Restorers, NEW x \in RestorerRow, restorers' = [restorers EXCEPT ![c] = x],
           RestorerSound(x), PageSound(x), WholeSound(x), LeaseSound'
    PROVE  RestoreInv'
<1>1. RebuildSound /\ BegunSound /\ CheckpointSound(projection.checkpoint)
      /\ ReplaySound /\ ReadySound /\ RequestsSound /\ RestoreShape
  BY Zenon DEF RestoreInv
<1>2. RemovalsGrow /\ UnsentIsAbsent' /\ PurgeSound' /\ Replayable'
  BY Zenon, GrowFrame
<1>3. Removed' = begunUnder => Removed' = Removed
  BY Zenon, <1>1, <1>2, Overtaken
<1>4. \A e \in AllEvents : Due(e)' => Due(e)
  BY Zenon, <1>2, DueStays DEF NoneAcked
<1>5. Sound' => Sound
  BY Zenon, <1>3 DEF Sound
<1>7. RebuildSound' /\ CheckpointSound(projection.checkpoint)'
  BY Zenon, <1>1 DEF RebuildSound, CheckpointSound
<1>8. BegunSound'
  BY Zenon, <1>1, <1>2, <1>3 DEF BegunSound, RemovalsGrow
<1>9. Whole => Whole'
  BY Zenon, <1>4 DEF Whole
<1>10. ReplaySound'
  <2> SUFFICES ASSUME Sound', NEW e \in AllEvents, Due(e)'
               PROVE  e \in projection.shown \/ InArchiveAfter(e, projection.checkpoint.value)'
    BY Zenon DEF ReplaySound
  <2> QED BY Zenon, <1>1, <1>4, <1>5 DEF ReplaySound, InArchiveAfter
<1>11. ReadySound'
  BY Zenon, <1>1, <1>9 DEF ReadySound
<1>12. /\ restorers'[c] = x /\ \A d \in Restorers : d # c => restorers'[d] = restorers[d]
       /\ restorers' \in [Restorers -> RestorerRow]
  BY Zenon, <1>1 DEF RestoreShape
<1>13. RestoreShape'
  BY Zenon, <1>1, <1>12 DEF RestoreShape, LedgerGrows
<1>14. ASSUME NEW me \in RestorerRow, RestorerSound(me), PageSound(me), WholeSound(me)
       PROVE  /\ \A e \in me.authority : removals'[e] = "complete"
              /\ (me.phase = "apply" /\ Mine(me) /\ Sound' /\ me.page.source = projection.checkpoint.value =>
                    \A e \in AllEvents : Due(e)' => \/ e \in projection.shown \/ e \in me.page.events
                                                    \/ InArchiveAfter(e, me.page.next))
              /\ (me.phase \in {"complete", "publish"} /\ Mine(me) /\ ~straddled' => Whole')
  <2>1. \A e \in me.authority : removals'[e] = "complete"
    BY Zenon, <1>2, <1>14 DEF RestorerSound, RestorerRow, RemovalsGrow
  <2>2. me.phase = "apply" /\ Mine(me) /\ Sound' /\ me.page.source = projection.checkpoint.value =>
            \A e \in AllEvents : Due(e)' => \/ e \in projection.shown \/ e \in me.page.events
                                            \/ InArchiveAfter(e, me.page.next)
    BY Zenon, <1>4, <1>5, <1>14 DEF PageSound
  <2>3. me.phase \in {"complete", "publish"} /\ Mine(me) /\ ~straddled' => Whole'
    BY Zenon, <1>9, <1>14 DEF WholeSound
  <2> QED BY Zenon, <2>1, <2>2, <2>3
<1>15. ASSUME NEW d \in Restorers
       PROVE  RestorerSound(restorers[d])' /\ PageSound(restorers[d])' /\ WholeSound(restorers[d])'
  <2>1. PICK me \in RestorerRow : me = restorers'[d]
    BY Zenon, <1>12
  <2>2. RestorerSound(me) /\ PageSound(me) /\ WholeSound(me)
    BY Zenon, <1>1, <1>12, <2>1 DEF RequestsSound
  <2>3. RestorerSound(restorers[d])'
    BY Zenon, <1>14, <2>1, <2>2 DEF RestorerSound, Mine
  <2>4. PageSound(restorers[d])'
    BY Zenon, <1>14, <2>1, <2>2 DEF PageSound, Mine, InArchiveAfter
  <2>5. WholeSound(restorers[d])'
    BY Zenon, <1>14, <2>1, <2>2 DEF WholeSound, Mine
  <2> QED BY Zenon, <2>3, <2>4, <2>5
<1> QED BY Zenon, <1>2, <1>7, <1>8, <1>10, <1>11, <1>13, <1>15 DEF RestoreInv, RequestsSound

\* A request that is over asks nothing of the rest.
LEMMA IdleSound == RestorerSound(IdleRestorer) /\ PageSound(IdleRestorer) /\ WholeSound(IdleRestorer)
BY Zenon, Blanks, Keys DEF RestorerSound, PageSound, WholeSound, Begun

\* The rebuild under way ends, published or aborted.
LEMMA RebuildOver ==
    ASSUME RestoreInv, LedgerGrows, UNCHANGED <<archived, pointers, purge, straddled, begunUnder>>,
           NEW c \in Restorers, Mine(restorers[c]), activation' \in {activation, "none"},
           restorers' = [restorers EXCEPT ![c] = IdleRestorer],
           projection' \in ProjectionRow, projection'.state # "rebuilding", projection'.rebuild = "none",
           projection'.generation = projection.generation,
           projection'.completed \cup projection'.failed =
               projection.completed \cup projection.failed \cup {restorers[c].rebuild},
           projection'.shown \subseteq projection.shown, CheckpointSound(projection'.checkpoint), ReadySound'
    PROVE  RestoreInv'
<1>1. BegunSound /\ RequestsSound /\ RestoreShape
  BY Zenon DEF RestoreInv
<1>2. RemovalsGrow /\ UnsentIsAbsent' /\ PurgeSound' /\ Replayable'
  BY Zenon, GrowFrame
<1>3. Removed' = begunUnder => Removed' = Removed
  BY Zenon, <1>1, <1>2, Overtaken
<1>4. /\ restorers'[c] = IdleRestorer /\ \A d \in Restorers : d # c => restorers'[d] = restorers[d]
      /\ restorers' \in [Restorers -> RestorerRow]
  BY Zenon, <1>1, Blanks DEF RestoreShape
<1>5. RestoreShape'
  BY Zenon, <1>1, <1>4 DEF RestoreShape, LedgerGrows
<1>6. LeaseSound'
  BY Zenon, Blanks, LeaseKept
<1>7. RebuildSound'
  BY Zenon, RestoreConstants DEF RebuildSound, ProjectionRow
<1>8. BegunSound'
  BY Zenon, <1>1, <1>2, <1>3 DEF BegunSound, RemovalsGrow
<1>9. ReplaySound'
  BY Zenon DEF ReplaySound, Sound
<1>10. ASSUME NEW d \in Restorers
       PROVE  RestorerSound(restorers[d])' /\ PageSound(restorers[d])' /\ WholeSound(restorers[d])'
  <2>1. PageSound(restorers[d])' /\ WholeSound(restorers[d])'
    BY Zenon DEF PageSound, WholeSound, Mine
  <2>2. RestorerSound(restorers[d])'
    <3>1. CASE d = c
      BY Zenon, <1>4, <3>1, Blanks, Keys DEF RestorerSound, Begun
    <3>2. CASE d # c
      <4>1. RestorerSound(restorers[d]) /\ restorers'[d] = restorers[d] /\ restorers[d] \in RestorerRow
        BY Zenon, <1>1, <1>4, <3>2 DEF RequestsSound, RestoreShape
      <4>2. restorers[d].begun => restorers[d].rebuild \in projection'.completed \cup projection'.failed
        BY Zenon, <4>1 DEF RestorerSound, Mine
      <4>3. \A e \in restorers[d].authority : removals'[e] = "complete"
        BY Zenon, <1>2, <4>1 DEF RestorerSound, RestorerRow, RemovalsGrow
      <4> QED BY Zenon, <4>1, <4>2, <4>3 DEF RestorerSound, Mine
    <3> QED BY Zenon, <3>1, <3>2
  <2> QED BY Zenon, <2>1, <2>2
<1>11. CheckpointSound(projection.checkpoint)'
  BY Zenon DEF CheckpointSound
<1> QED BY Zenon, <1>2, <1>5, <1>6, <1>7, <1>8, <1>9, <1>10, <1>11 DEF RestoreInv, RequestsSound

\* catch and finally: what the request began is aborted and its lease released.
LEMMA FailKeepsInv ==
    ASSUME RestoreInv, LedgerGrows, UNCHANGED <<archived, pointers, purge>>,
           NEW c \in Restorers, RestoreFails(c)
    PROVE  RestoreInv'
<1>1. /\ activation' \in {activation, "none"} /\ restorers' = [restorers EXCEPT ![c] = IdleRestorer]
      /\ UNCHANGED <<straddled, begunUnder>>
  BY Zenon DEF RestoreFails, released
<1>2. RestoreShape
  BY Zenon DEF RestoreInv
<1>3. CASE restorers[c].begun /\ Mine(restorers[c])
  <2>1. PICK r, q : r = restorers[c].rebuild /\ q = cleared(projection)
    BY Zenon
  <2>2. projection' = [q EXCEPT !.state = "rebuild_failed", !.rebuild = "none", !.failed = @ \cup {r}]
    BY Zenon, <1>3, <2>1 DEF RestoreFails, abortRebuild, Mine
  <2>3. r \in Rebuilds
    BY Zenon, <1>3, <2>1 DEF RestoreInv, RebuildSound, Mine
  <2>4. /\ q \in ProjectionRow /\ q.checkpoint = NoCheckpoint /\ q.shown = {}
        /\ q.generation = projection.generation /\ q.completed = projection.completed
        /\ q.failed = projection.failed
    BY Zenon, <1>2, <2>1, Blanks DEF cleared, RestoreShape, ProjectionRow
  <2>5. PICK f : f = q.failed \cup {r}
    BY Zenon
  <2>6. projection' = [q EXCEPT !.state = "rebuild_failed", !.rebuild = "none", !.failed = f]
    BY Zenon, <2>2, <2>5
  <2>7. f \in SUBSET Rebuilds
    BY Zenon, <2>3, <2>4, <2>5 DEF ProjectionRow
  <2>8. /\ projection' \in ProjectionRow /\ projection'.state = "rebuild_failed"
        /\ projection'.rebuild = "none" /\ projection'.generation = projection.generation
        /\ projection'.completed = projection.completed /\ projection'.failed = f
        /\ projection'.shown = {} /\ projection'.checkpoint = NoCheckpoint
    BY Zenon, <2>4, <2>6, <2>7 DEF ProjectionRow
  <2>9. projection'.completed \cup projection'.failed =
            projection.completed \cup projection.failed \cup {restorers[c].rebuild}
    BY Zenon, <2>1, <2>4, <2>5, <2>8
  <2>10. ReadySound' /\ CheckpointSound(projection'.checkpoint)
    BY Zenon, <2>8, Blanks DEF ReadySound
  <2> QED BY Zenon, <1>1, <1>3, <2>8, <2>9, <2>10, RebuildOver
<1>4. CASE ~(restorers[c].begun /\ Mine(restorers[c]))
  <2>1. projection' = projection
    BY Zenon, <1>4 DEF RestoreFails, abortRebuild, Mine
  <2>2. LeaseSound'
    BY Zenon, <1>1, <2>1, Blanks, LeaseKept
  <2>3. straddled' \in BOOLEAN /\ (straddled => straddled')
    BY Zenon, <1>1, <1>2 DEF RestoreShape
  <2> QED BY Zenon, <1>1, <2>1, <2>2, <2>3, Blanks, IdleSound, RowStep
<1> QED BY Zenon, <1>3, <1>4

\* A request loads the ledger, takes the lease, or goes on with a rebuild that
\* is under way.
LEMMA AdmissionKeepsInv ==
    ASSUME RestoreInv, NEW c \in Restorers,
           \/ \E r \in Rebuilds, g \in {projection.generation, projection.generation - 1} :
                 requestRestore(c, r, g)
           \/ acquireLease(c)
    PROVE  RestoreInv'
<1>1. RestoreShape /\ RequestsSound /\ RebuildSound
  BY Zenon DEF RestoreInv
<1>2. restorers[c] \in RestorerRow /\ RestorerSound(restorers[c]) /\ projection.generation \in Nat
      /\ straddled \in BOOLEAN /\ epoch \in Nat
  BY Zenon, <1>1 DEF RestoreShape, RequestsSound, ProjectionRow
<1>3. ASSUME NEW r \in Rebuilds, NEW g \in {projection.generation, projection.generation - 1},
             requestRestore(c, r, g)
      PROVE  RestoreInv'
  <2>1. PICK x : x = [IdleRestorer EXCEPT !.phase = "lease", !.rebuild = r, !.expected = g,
                          !.authority = Removed, !.epoch = epoch]
    BY Zenon
  <2>2. /\ restorers' = [restorers EXCEPT ![c] = x]
        /\ UNCHANGED <<archived, pointers, purge, removals, epoch, activation, projection, straddled,
                       begunUnder>>
        /\ \A e \in Removed : removals[e] = "complete"
        /\ resumes(projection, r, g) \/ begins(projection, r, g)
    BY Zenon, <1>3, <2>1 DEF requestRestore, restoreAuthorityExport, WorldUnchanged, LedgerUnchanged,
                             restoreReady, storesComplete, archivePurged
  <2>3. g \in Int /\ g <= projection.generation
    BY <1>2
  <2>4. projection.state = "rebuilding" => g < projection.generation
    <3>1. projection.state = "rebuilding" => projection.generation = g + 1
      BY Zenon, <2>2 DEF resumes, begins
    <3> QED BY <1>2, <2>3, <3>1
  <2>5. /\ x \in RestorerRow /\ x.phase = "lease" /\ x.rebuild = r /\ x.expected = g
        /\ x.authority = Removed /\ x.begun = FALSE /\ x.cursor = Start
    <3>1. Removed \in SUBSET Removables
      BY Zenon DEF Removed
    <3> QED BY Zenon, <1>2, <2>1, <2>3, <3>1, Blanks DEF IdleRestorer, RestorerRow, Phases
  <2>6. RestorerSound(x) /\ PageSound(x) /\ WholeSound(x)
    BY Zenon, <2>2, <2>3, <2>4, <2>5, Keys DEF RestorerSound, PageSound, WholeSound, Begun
  <2>7. LeaseSound'
    BY Zenon, <2>2, <2>5, LeaseKept
  <2>8. LedgerGrows
    BY Zenon, <1>1, <2>2 DEF LedgerGrows, RestoreShape
  <2> QED BY Zenon, <1>2, <2>2, <2>5, <2>6, <2>7, <2>8, RowStep
<1>4. ASSUME acquireLease(c) PROVE RestoreInv'
  <2>1. Phase(c, "lease") /\ UNCHANGED <<archived, pointers, purge, removals, epoch>>
    BY Zenon, <1>4 DEF acquireLease, WorldUnchanged, LedgerUnchanged
  <2>2. LedgerGrows
    BY Zenon, <1>1, <2>1 DEF LedgerGrows, RestoreShape
  <2>3. CASE RestoreFails(c)
    BY Zenon, <2>1, <2>2, <2>3, FailKeepsInv
  <2>4. CASE activation' = c /\ Proceed(c, "begin") /\ UNCHANGED <<projection, straddled, begunUnder>>
    <3>1. PICK x : x = [restorers[c] EXCEPT !.phase = "begin"]
      BY Zenon
    <3>2. restorers' = [restorers EXCEPT ![c] = x]
      BY Zenon, <2>4, <3>1 DEF Proceed
    <3>3. /\ x \in RestorerRow /\ x.phase = "begin" /\ x.rebuild = restorers[c].rebuild
          /\ x.expected = restorers[c].expected /\ x.authority = restorers[c].authority
          /\ x.begun = restorers[c].begun /\ x.cursor = restorers[c].cursor
      BY Zenon, <1>2, <3>1 DEF RestorerRow, Phases
    <3>4. x.begun = FALSE
      BY Zenon, <1>2, <2>1, <3>3 DEF RestorerSound, Phase, Begun, RestorerRow
    <3>5. RestorerSound(x) /\ PageSound(x) /\ WholeSound(x)
      BY Zenon, <1>2, <2>1, <3>3, <3>4 DEF RestorerSound, PageSound, WholeSound, Begun, Phase
    <3>6. LeaseSound'
      <4>1. restorers'[c] = x
        BY Zenon, <1>1, <3>2 DEF RestoreShape
      <4> QED BY Zenon, <2>4, <3>4, <4>1 DEF LeaseSound
    <3> QED BY Zenon, <1>2, <2>1, <2>2, <2>4, <3>2, <3>3, <3>5, <3>6, RowStep
  <2> QED BY Zenon, <1>4, <2>3, <2>4 DEF acquireLease
<1> QED BY Zenon, <1>3, <1>4

\* beginRebuild finds the rebuild under way and goes on with it.
LEMMA ResumeKeepsInv ==
    ASSUME RestoreInv, NEW c \in Restorers, Phase(c, "begin"), UNCHANGED <<archived, pointers, purge>>,
           LedgerUnchanged, UNCHANGED <<projection, activation, begunUnder>>,
           resumes(projection, restorers[c].rebuild, restorers[c].expected),
           restorers' = [restorers EXCEPT ![c] =
              [restorers[c] EXCEPT !.begun = TRUE,
                  !.cursor = IF projection.checkpoint.value = Terminal THEN Start
                             ELSE projection.checkpoint.value,
                  !.phase = IF projection.checkpoint.value = Terminal THEN "final" ELSE "read"]],
           straddled' = (straddled \/ restorers[c].authority # begunUnder)
    PROVE  RestoreInv'
<1>1. RestoreShape /\ RequestsSound /\ LeaseSound
  BY Zenon DEF RestoreInv
<1>2. restorers[c] \in RestorerRow /\ RestorerSound(restorers[c]) /\ projection.checkpoint.value \in Cursors
      /\ straddled \in BOOLEAN
  BY Zenon, <1>1 DEF RestoreShape, RequestsSound, ProjectionRow
<1>3. PICK n, f : /\ n = IF projection.checkpoint.value = Terminal THEN Start ELSE projection.checkpoint.value
                  /\ f = IF projection.checkpoint.value = Terminal THEN "final" ELSE "read"
  BY Zenon
<1>4. /\ n \in Cursors /\ n < Terminal /\ n <= projection.checkpoint.value
      /\ f \in {"final", "read"} /\ (f = "final" => projection.checkpoint.value = Terminal)
  <2>1. projection.checkpoint.value \in Nat /\ projection.checkpoint.value <= Terminal
        /\ Start = 0 /\ Terminal \in Nat
    BY <1>2, Keys DEF Cursors, Start
  <2>2. n < Terminal /\ n <= projection.checkpoint.value
    BY <1>3, <2>1, Keys
  <2> QED BY Zenon, <1>2, <1>3, <2>2, Keys
<1>5. PICK x : x = [restorers[c] EXCEPT !.begun = TRUE, !.cursor = n, !.phase = f]
  BY Zenon
<1>6. restorers' = [restorers EXCEPT ![c] = x]
  BY Zenon, <1>3, <1>5
<1>7. /\ x \in RestorerRow /\ x.phase = f /\ x.rebuild = restorers[c].rebuild /\ x.cursor = n
      /\ x.authority = restorers[c].authority /\ x.begun = TRUE
  BY Zenon, <1>2, <1>4, <1>5 DEF RestorerRow, Phases
<1>8. Mine(x)
  BY Zenon, <1>7 DEF resumes, Mine
<1>9. RestorerSound(x) /\ PageSound(x) /\ WholeSound(x)
  <2>1. x.phase \in Begun /\ x.phase \notin {"lease", "begin"} /\ x.phase # "apply"
        /\ x.phase \notin {"complete", "publish"}
    BY Zenon, <1>4, <1>7 DEF Begun
  <2>2. x.rebuild \in Rebuilds /\ \A e \in x.authority : removals[e] = "complete"
    BY Zenon, <1>2, <1>7 DEF RestorerSound, Phase
  <2>3. x.phase \in {"final", "complete", "publish"} => projection.checkpoint.value = Terminal
    BY Zenon, <1>4, <1>7
  <2> QED BY Zenon, <1>4, <1>7, <1>8, <2>1, <2>2, <2>3 DEF RestorerSound, PageSound, WholeSound
<1>10. straddled' \in BOOLEAN /\ (straddled => straddled')
  BY Zenon
<1>11. restorers'[c] = x /\ \A d \in Restorers : d # c => restorers'[d] = restorers[d]
  BY Zenon, <1>1, <1>6 DEF RestoreShape
<1>12. LeaseSound'
  <2> SUFFICES ASSUME NEW h \in Restorers, activation = h, restorers'[h].begun
               PROVE  /\ \A d \in Restorers : d # h /\ restorers'[d].phase = "begin" =>
                            restorers'[d].expected < projection.generation
                      /\ ~straddled' => restorers'[h].authority = begunUnder
    BY Zenon DEF LeaseSound
  <2>1. ASSUME NEW d \in Restorers, restorers'[d].phase = "begin"
        PROVE  restorers'[d].expected < projection.generation
    <3>1. d # c
      BY Zenon, <1>4, <1>7, <1>11, <2>1
    <3>2. restorers'[d] = restorers[d] /\ RestorerSound(restorers[d])
      BY Zenon, <1>1, <1>11, <3>1 DEF RequestsSound
    <3> QED BY Zenon, <2>1, <3>2 DEF RestorerSound, resumes
  <2>2. ~straddled' => restorers'[h].authority = begunUnder
    <3>1. ~straddled' => ~straddled /\ restorers[c].authority = begunUnder
      BY Zenon
    <3>2. CASE h = c
      BY Zenon, <1>7, <1>11, <3>1, <3>2
    <3>3. CASE h # c
      BY Zenon, <1>1, <1>11, <3>1, <3>3 DEF LeaseSound
    <3> QED BY Zenon, <3>2, <3>3
  <2> QED BY Zenon, <2>1, <2>2
<1>13. LedgerGrows
  BY Zenon, <1>1 DEF LedgerGrows, RestoreShape, LedgerUnchanged
<1> QED BY Zenon, <1>6, <1>7, <1>9, <1>10, <1>12, <1>13, RowStep

\* beginRebuild clears the projection and starts a rebuild with a new id.
LEMMA FreshKeepsInv ==
    ASSUME RestoreInv, NEW c \in Restorers, Phase(c, "begin"),
           UNCHANGED <<archived, pointers, purge, activation>>, LedgerUnchanged,
           begins(projection, restorers[c].rebuild, restorers[c].expected),
           projection' = beginRebuild(projection, restorers[c].rebuild),
           restorers' = [restorers EXCEPT ![c] = [restorers[c] EXCEPT !.begun = TRUE, !.phase = "read"]],
           straddled' = FALSE, begunUnder' = restorers[c].authority
    PROVE  RestoreInv'
<1>1. RestoreShape /\ RequestsSound /\ LeaseSound /\ RebuildSound /\ Replayable
  BY Zenon DEF RestoreInv
<1>2. LedgerGrows
  BY Zenon, <1>1 DEF LedgerGrows, RestoreShape, LedgerUnchanged
<1>3. UnsentIsAbsent' /\ PurgeSound' /\ Replayable'
  BY Zenon, <1>2, GrowFrame
<1>4. /\ restorers[c] \in RestorerRow /\ RestorerSound(restorers[c]) /\ projection.generation \in Nat
      /\ restorers[c].authority \in SUBSET Removables /\ restorers[c].rebuild \in Rebuilds
      /\ restorers[c].cursor = Start /\ \A e \in restorers[c].authority : removals[e] = "complete"
  BY Zenon, <1>1 DEF RestoreShape, RequestsSound, ProjectionRow, RestorerRow, RestorerSound, Phase
<1>5. PICK r, q, n : /\ r = restorers[c].rebuild /\ q = cleared(projection)
                     /\ n = projection.generation + 1
  BY Zenon
<1>6. n \in Nat /\ projection.generation < n
  BY <1>4, <1>5
<1>7. /\ q \in ProjectionRow /\ q.checkpoint = NoCheckpoint /\ q.shown = {}
      /\ q.generation = projection.generation /\ q.completed = projection.completed
      /\ q.failed = projection.failed
  BY Zenon, <1>1, <1>5, Blanks DEF cleared, RestoreShape, ProjectionRow
<1>8. projection' = [q EXCEPT !.state = "rebuilding", !.generation = n, !.rebuild = r]
  BY Zenon, <1>5, <1>7 DEF beginRebuild
<1>9. /\ projection' \in ProjectionRow /\ projection'.state = "rebuilding" /\ projection'.rebuild = r
      /\ projection'.generation = n /\ projection'.completed = projection.completed
      /\ projection'.failed = projection.failed /\ projection'.shown = {}
      /\ projection'.checkpoint = NoCheckpoint
  BY ZenonT(60), <1>4, <1>5, <1>6, <1>7, <1>8 DEF ProjectionRow
<1>10. /\ projection.state # "rebuilding" /\ projection.generation = restorers[c].expected
       /\ r \notin projection.completed \cup projection.failed
  BY Zenon, <1>5 DEF begins
<1>11. PICK x : x = [restorers[c] EXCEPT !.begun = TRUE, !.phase = "read"]
  BY Zenon
<1>12. /\ x \in RestorerRow /\ x.phase = "read" /\ x.rebuild = r /\ x.cursor = Start
       /\ x.authority = restorers[c].authority /\ x.begun = TRUE
  BY Zenon, <1>4, <1>5, <1>11 DEF RestorerRow, Phases
<1>13. /\ restorers'[c] = x /\ \A d \in Restorers : d # c => restorers'[d] = restorers[d]
       /\ restorers' \in [Restorers -> RestorerRow]
  BY Zenon, <1>1, <1>11, <1>12 DEF RestoreShape
<1>14. RestoreShape'
  BY Zenon, <1>1, <1>9, <1>13 DEF RestoreShape, LedgerUnchanged
<1>15. RebuildSound' /\ CheckpointSound(projection.checkpoint)'
  BY Zenon, <1>4, <1>5, <1>9, <1>10, Blanks DEF RebuildSound, CheckpointSound
<1>16. BegunSound'
  BY Zenon, <1>4, <1>9 DEF BegunSound, LedgerUnchanged, Removed
<1>17. ASSUME NEW d \in Restorers, d # c
       PROVE  /\ restorers'[d] = restorers[d] /\ RestorerSound(restorers[d])
              /\ restorers[d].expected \in Int
              /\ restorers[d].begun => /\ restorers[d].rebuild # r
                                       /\ restorers[d].rebuild \in projection.completed \cup projection.failed
  <2>1. restorers'[d] = restorers[d] /\ RestorerSound(restorers[d]) /\ restorers[d].expected \in Int
    BY Zenon, <1>1, <1>13, <1>17 DEF RequestsSound, RestoreShape, RestorerRow
  <2>2. restorers[d].begun => restorers[d].rebuild \in projection.completed \cup projection.failed
    BY Zenon, <1>10, <2>1 DEF RestorerSound, Mine
  <2> QED BY Zenon, <1>10, <2>1, <2>2
<1>18. ASSUME NEW d \in Restorers, d # c, restorers[d].phase \in {"lease", "begin"}
       PROVE  restorers[d].expected < n /\ restorers[d].expected <= n
  <2>1. restorers[d].expected <= projection.generation
    BY Zenon, <1>17, <1>18 DEF RestorerSound
  <2> QED BY <1>4, <1>5, <1>17, <1>18, <2>1
<1>19. LeaseSound'
  <2> SUFFICES ASSUME NEW h \in Restorers, activation = h, restorers'[h].begun
               PROVE  /\ \A d \in Restorers : d # h /\ restorers'[d].phase = "begin" =>
                            restorers'[d].expected < n
                      /\ restorers'[h].authority = restorers[c].authority
    BY Zenon, <1>9 DEF LeaseSound
  <2>1. ASSUME h # c PROVE FALSE
    <3>1. restorers[h].begun
      BY Zenon, <1>13, <2>1
    <3>2. restorers[c].expected < projection.generation
      BY Zenon, <1>1, <2>1, <3>1 DEF LeaseSound, Phase
    <3> QED BY <1>4, <1>10, <3>2
  <2> QED BY Zenon, <1>12, <1>13, <1>18, <2>1
<1>20. ReplaySound'
  <2> SUFFICES ASSUME NEW e \in AllEvents, Due(e)'
               PROVE  InArchiveAfter(e, Start)'
    BY Zenon, <1>9, Blanks DEF ReplaySound, InArchiveAfter
  <2>1. PICK b \in Archivable : pointers'[b] = "acked" /\ e \in EventsOf[b] /\ e \notin Removed'
    BY Zenon DEF Due
  <2>2. pointers'[b] # "absent"
    BY Zenon, <2>1
  <2> QED BY Zenon, <1>3, <2>1, <2>2 DEF Replayable
<1>21. ReadySound'
  BY Zenon, <1>9 DEF ReadySound
<1>22. RestorerSound(restorers[c])' /\ PageSound(restorers[c])' /\ WholeSound(restorers[c])'
  <2>1. Start <= NoCheckpoint.value
    BY Blanks DEF Start
  <2> QED BY Zenon, <1>4, <1>5, <1>9, <1>12, <1>13, <2>1, Keys
          DEF RestorerSound, PageSound, WholeSound, Begun, Mine, LedgerUnchanged
<1>23. ASSUME NEW d \in Restorers, d # c
       PROVE  RestorerSound(restorers[d])' /\ PageSound(restorers[d])' /\ WholeSound(restorers[d])'
  <2>1. restorers[d].begun <=> restorers[d].phase \in Begun
    BY Zenon, <1>17, <1>23 DEF RestorerSound
  <2>2. restorers[d].phase \in {"read", "apply", "final", "complete", "publish"} => restorers[d].rebuild # r
    BY Zenon, <1>17, <1>23, <2>1 DEF Begun
  <2>3. PageSound(restorers[d])' /\ WholeSound(restorers[d])'
    BY Zenon, <1>9, <1>17, <1>23, <2>2 DEF PageSound, WholeSound, Mine
  <2>4. /\ restorers[d].phase \in {"read", "apply", "final", "complete", "publish"} => ~Mine(restorers[d])'
        /\ restorers[d].begun => restorers[d].rebuild \in projection'.completed \cup projection'.failed
        /\ restorers'[d] = restorers[d]
    BY Zenon, <1>9, <1>17, <1>23, <2>2 DEF Mine
  <2>5. restorers[d].phase \in {"lease", "begin"} =>
            restorers[d].expected < projection'.generation /\ restorers[d].expected <= projection'.generation
    BY Zenon, <1>9, <1>18, <1>23
  <2>6. RestorerSound(restorers[d])
    BY Zenon, <1>17, <1>23
  <2>7. RestorerSound(restorers[d])'
    BY Zenon, <2>4, <2>5, <2>6 DEF RestorerSound, LedgerUnchanged
  <2> QED BY Zenon, <2>3, <2>7
<1>24. RequestsSound'
  BY Zenon, <1>22, <1>23 DEF RequestsSound
<1> QED BY Zenon, <1>3, <1>14, <1>15, <1>16, <1>19, <1>20, <1>21, <1>24 DEF RestoreInv

\* getStatus and beginRebuild.
LEMMA BeginKeepsInv ==
    ASSUME RestoreInv, NEW c \in Restorers, begin(c)
    PROVE  RestoreInv'
<1>1. Phase(c, "begin") /\ WorldUnchanged /\ LedgerUnchanged
  BY Zenon DEF begin
<1>2. LedgerGrows /\ UNCHANGED <<archived, pointers, purge>>
  BY Zenon, <1>1 DEF RestoreInv, RestoreShape, LedgerGrows, WorldUnchanged, LedgerUnchanged
<1>3. CASE RestoreFails(c)
  BY Zenon, <1>2, <1>3, FailKeepsInv
<1>4. CASE ~RestoreFails(c)
  BY Zenon, <1>1, <1>2, <1>4, ResumeKeepsInv, FreshKeepsInv DEF begin
<1> QED BY Zenon, <1>3, <1>4

\* A page that is read at the cursor misses nothing.
LEMMA ReadKeepsInv ==
    ASSUME RestoreInv, NEW c \in Restorers, readPage(c)
    PROVE  RestoreInv'
<1>1. Phase(c, "read") /\ UNCHANGED <<archived, pointers, purge, removals, epoch>>
  BY Zenon DEF readPage, WorldUnchanged, LedgerUnchanged
<1>2. RestoreShape /\ RequestsSound /\ ReplaySound
  BY Zenon DEF RestoreInv
<1>3. LedgerGrows
  BY Zenon, <1>1, <1>2 DEF RestoreShape, LedgerGrows
<1>4. CASE RestoreFails(c)
  BY Zenon, <1>1, <1>3, <1>4, FailKeepsInv
<1>5. CASE /\ UNCHANGED <<activation, projection, straddled, begunUnder>>
           /\ restorers' = [restorers EXCEPT ![c].phase = "apply",
                                             ![c].page = replayPage(restorers[c].cursor)]
  <2>1. restorers[c] \in RestorerRow /\ RestorerSound(restorers[c]) /\ straddled \in BOOLEAN
    BY Zenon, <1>2 DEF RestoreShape, RequestsSound
  <2>2. PICK n, page : n = restorers[c].cursor /\ page = replayPage(n)
    BY Zenon
  <2>3. n \in Cursors /\ n < Terminal /\ archived \in [Manifests -> SUBSET AllEvents]
    BY Zenon, <1>2, <2>1, <2>2 DEF RestorerRow, RestorerSound, RestoreShape
  <2>4. /\ page \in Pages /\ page.source = n /\ n < page.next
        /\ \A k \in Manifests : k > n /\ archived[k] # {} =>
              archived[k] \ Removed \subseteq page.events \/ k > page.next
    BY Zenon, <2>2, <2>3, ReplayPage
  <2>5. PICK x : x = [restorers[c] EXCEPT !.phase = "apply", !.page = page]
    BY Zenon
  <2>6. restorers' = [restorers EXCEPT ![c] = x]
    BY Zenon, <1>2, <1>5, <2>2, <2>5 DEF RestoreShape, RestorerRow
  <2>7. /\ x \in RestorerRow /\ x.phase = "apply" /\ x.page = page /\ x.cursor = n
        /\ x.rebuild = restorers[c].rebuild /\ x.authority = restorers[c].authority
        /\ x.begun = restorers[c].begun
    BY Zenon, <2>1, <2>2, <2>4, <2>5 DEF RestorerRow, Phases
  <2>8. Mine(x) <=> Mine(restorers[c])
    BY Zenon, <2>7 DEF Mine
  <2>9. RestorerSound(x)
    BY Zenon, <1>1, <2>1, <2>2, <2>4, <2>7, <2>8 DEF RestorerSound, Phase, Begun
  <2>10. PageSound(x)
    <3> SUFFICES ASSUME Sound, page.source = projection.checkpoint.value, NEW e \in AllEvents, Due(e),
                        e \notin projection.shown
                 PROVE  e \in page.events \/ InArchiveAfter(e, page.next)
      BY Zenon, <2>7 DEF PageSound
    <3>1. PICK k \in Manifests : k > n /\ e \in archived[k]
      BY Zenon, <1>2, <2>4 DEF ReplaySound, InArchiveAfter
    <3>2. e \notin Removed /\ archived[k] # {}
      BY Zenon, <3>1 DEF Due
    <3> QED BY Zenon, <2>4, <3>1, <3>2 DEF InArchiveAfter
  <2>11. WholeSound(x)
    BY Zenon, <2>7 DEF WholeSound
  <2>12. LeaseSound'
    BY Zenon, <1>5, <2>6, <2>7, LeaseKept
  <2> QED BY Zenon, <1>1, <1>3, <1>5, <2>1, <2>6, <2>7, <2>9, <2>10, <2>11, <2>12, RowStep
<1> QED BY Zenon, <1>4, <1>5 DEF readPage

\* The last comparison of the ledger finds the replay whole.
LEMMA CheckKeepsInv ==
    ASSUME RestoreInv, NEW c \in Restorers, checkAuthority(c)
    PROVE  RestoreInv'
<1>1. Phase(c, "final") /\ UNCHANGED <<archived, pointers, purge, removals, epoch>>
  BY Zenon DEF checkAuthority, WorldUnchanged, LedgerUnchanged
<1>2. RestoreShape /\ RequestsSound /\ ReplaySound /\ LeaseSound
  BY Zenon DEF RestoreInv
<1>3. LedgerGrows
  BY Zenon, <1>1, <1>2 DEF RestoreShape, LedgerGrows
<1>4. CASE RestoreFails(c)
  BY Zenon, <1>1, <1>3, <1>4, FailKeepsInv
<1>5. CASE /\ holdsLease(c) /\ sameAuthority(c) /\ Proceed(c, "complete")
           /\ UNCHANGED <<activation, projection, straddled, begunUnder>>
  <2>1. restorers[c] \in RestorerRow /\ RestorerSound(restorers[c]) /\ straddled \in BOOLEAN
    BY Zenon, <1>2 DEF RestoreShape, RequestsSound
  <2>2. PICK x : x = [restorers[c] EXCEPT !.phase = "complete"]
    BY Zenon
  <2>3. restorers' = [restorers EXCEPT ![c] = x]
    BY Zenon, <1>5, <2>2 DEF Proceed
  <2>4. /\ x \in RestorerRow /\ x.phase = "complete" /\ x.cursor = restorers[c].cursor
        /\ x.rebuild = restorers[c].rebuild /\ x.authority = restorers[c].authority
        /\ x.begun = restorers[c].begun
    BY Zenon, <2>1, <2>2 DEF RestorerRow, Phases
  <2>5. Mine(x) <=> Mine(restorers[c])
    BY Zenon, <2>4 DEF Mine
  <2>6. RestorerSound(x) /\ PageSound(x)
    BY Zenon, <1>1, <2>1, <2>4, <2>5 DEF RestorerSound, Phase, Begun, PageSound
  <2>7. WholeSound(x)
    <3> SUFFICES ASSUME Mine(x), ~straddled, NEW e \in AllEvents, Due(e) PROVE e \in projection.shown
      BY Zenon DEF WholeSound, Whole
    <3>1. restorers[c].begun /\ projection.checkpoint.value = Terminal
      BY Zenon, <1>1, <2>1, <2>5 DEF RestorerSound, Begun, Phase
    <3>2. Removed = begunUnder
      BY Zenon, <1>2, <1>5, <3>1 DEF LeaseSound, holdsLease, sameAuthority
    <3>3. Sound
      BY Zenon, <3>2 DEF Sound, Mine
    <3>4. ASSUME InArchiveAfter(e, Terminal) PROVE FALSE
      <4>1. PICK k \in Manifests : k > Terminal
        BY Zenon, <3>4 DEF InArchiveAfter
      <4>2. k < Terminal /\ k \in Nat /\ Terminal \in Nat
        BY Zenon, Keys
      <4> QED BY <4>1, <4>2
    <3> QED BY Zenon, <1>2, <3>1, <3>3, <3>4 DEF ReplaySound
  <2>8. LeaseSound'
    BY Zenon, <1>5, <2>3, <2>4, LeaseKept
  <2> QED BY Zenon, <1>1, <1>3, <1>5, <2>1, <2>3, <2>4, <2>6, <2>7, <2>8, RowStep
<1> QED BY Zenon, <1>4, <1>5 DEF checkAuthority

\* A request ends without touching the projection.
LEMMA QuitKeepsInv ==
    ASSUME RestoreInv, NEW c \in Restorers, restorers' = [restorers EXCEPT ![c] = IdleRestorer],
           activation' \in {activation, "none"},
           UNCHANGED <<archived, pointers, purge, removals, epoch, projection, straddled, begunUnder>>
    PROVE  RestoreInv'
<1>1. LedgerGrows /\ straddled \in BOOLEAN
  BY Zenon DEF RestoreInv, RestoreShape, LedgerGrows
<1>2. LeaseSound'
  BY Zenon, Blanks, LeaseKept
<1> QED BY Zenon, <1>1, <1>2, Blanks, IdleSound, RowStep

\* The completion renews the lease and publishes.
LEMMA PublishKeepsInv ==
    ASSUME RestoreInv, NEW c \in Restorers, proveLease(c) \/ publish(c)
    PROVE  RestoreInv'
<1>1. RestoreShape /\ RequestsSound
  BY Zenon DEF RestoreInv
<1>2. restorers[c] \in RestorerRow /\ RestorerSound(restorers[c]) /\ WholeSound(restorers[c])
      /\ straddled \in BOOLEAN
  BY Zenon, <1>1 DEF RestoreShape, RequestsSound
<1>3. UNCHANGED <<archived, pointers, purge, removals, epoch>>
  BY Zenon DEF proveLease, publish, WorldUnchanged, LedgerUnchanged
<1>4. LedgerGrows
  BY Zenon, <1>1, <1>3 DEF RestoreShape, LedgerGrows
<1>5. CASE RestoreFails(c)
  BY Zenon, <1>3, <1>4, <1>5, FailKeepsInv
<1>6. released(c) \in {activation, "none"}
  BY Zenon DEF released
<1>7. CASE proveLease(c) /\ ~RestoreFails(c)
  <2>1. Phase(c, "complete")
    BY Zenon, <1>7 DEF proveLease
  <2>2. CASE /\ activation' = released(c) /\ restorers' = [restorers EXCEPT ![c] = IdleRestorer]
             /\ UNCHANGED <<projection, straddled, begunUnder>>
    BY Zenon, <1>3, <1>6, <2>2, QuitKeepsInv
  <2>3. CASE Proceed(c, "publish") /\ UNCHANGED <<activation, projection, straddled, begunUnder>>
    <3>1. PICK x : x = [restorers[c] EXCEPT !.phase = "publish"]
      BY Zenon
    <3>2. restorers' = [restorers EXCEPT ![c] = x]
      BY Zenon, <2>3, <3>1 DEF Proceed
    <3>3. /\ x \in RestorerRow /\ x.phase = "publish" /\ x.cursor = restorers[c].cursor
          /\ x.rebuild = restorers[c].rebuild /\ x.authority = restorers[c].authority
          /\ x.begun = restorers[c].begun
      BY Zenon, <1>2, <3>1 DEF RestorerRow, Phases
    <3>4. Mine(x) <=> Mine(restorers[c])
      BY Zenon, <3>3 DEF Mine
    <3>5. RestorerSound(x) /\ PageSound(x) /\ WholeSound(x)
      BY Zenon, <1>2, <2>1, <3>3, <3>4 DEF RestorerSound, Phase, Begun, PageSound, WholeSound
    <3>6. LeaseSound'
      BY Zenon, <2>3, <3>2, <3>3, LeaseKept
    <3> QED BY Zenon, <1>2, <1>3, <1>4, <2>3, <3>2, <3>3, <3>5, <3>6, RowStep
  <2> QED BY Zenon, <1>7, <2>2, <2>3 DEF proveLease
<1>8. CASE publish(c) /\ ~RestoreFails(c)
  <2>1. /\ activation' = released(c) /\ restorers' = [restorers EXCEPT ![c] = IdleRestorer]
        /\ UNCHANGED <<straddled, begunUnder>> /\ Phase(c, "publish")
    BY Zenon, <1>8 DEF publish
  <2>2. CASE projection' = projection
    BY Zenon, <1>3, <1>6, <2>1, <2>2, QuitKeepsInv
  <2>3. CASE /\ completes(projection, restorers[c].rebuild)
             /\ projection' = completeRebuild(projection, restorers[c].rebuild)
    <3>1. PICK r, done : r = restorers[c].rebuild /\ done = projection.completed \cup {r}
      BY Zenon
    <3>2. projection' = [projection EXCEPT !.state = "ready", !.rebuild = "none", !.completed = done,
                                           !.latest = r]
      BY Zenon, <2>3, <3>1 DEF completeRebuild
    <3>3. r \in Rebuilds /\ Mine(restorers[c])
      BY Zenon, <1>2, <2>1, <2>3, <3>1 DEF RestorerSound, Phase, completes, Mine
    <3>4. done \in SUBSET Rebuilds
      BY Zenon, <1>1, <3>1, <3>3 DEF RestoreShape, ProjectionRow
    <3>5. /\ projection' \in ProjectionRow /\ projection'.state = "ready"
          /\ projection'.rebuild = "none" /\ projection'.generation = projection.generation
          /\ projection'.completed = done /\ projection'.failed = projection.failed
          /\ projection'.shown = projection.shown /\ projection'.checkpoint = projection.checkpoint
      BY Zenon, <1>1, <3>2, <3>3, <3>4 DEF RestoreShape, ProjectionRow
    <3>6. projection'.completed \cup projection'.failed =
            projection.completed \cup projection.failed \cup {restorers[c].rebuild}
      BY Zenon, <3>1, <3>5
    <3>7. ~straddled => Whole
      BY Zenon, <1>2, <2>1, <3>3 DEF WholeSound, Phase
    <3>8. ReadySound'
      BY Zenon, <1>3, <2>1, <3>5, <3>7 DEF ReadySound, Whole, Due, Removed
    <3>9. CheckpointSound(projection'.checkpoint)
      BY Zenon, <3>5 DEF RestoreInv
    <3> QED BY Zenon, <1>3, <1>4, <1>6, <2>1, <3>3, <3>5, <3>6, <3>8, <3>9, RebuildOver
  <2> QED BY Zenon, <1>8, <2>2, <2>3 DEF publish
<1> QED BY Zenon, <1>5, <1>7, <1>8

\* What a page does to the projection that takes it: the checkpoint goes to the
\* end of the page, which was applied before or starts at the checkpoint.
LEMMA PageTaken ==
    ASSUME RestoreInv, NEW c \in Restorers, Phase(c, "apply"),
           LedgerGrows, takesPage(projection, restorers[c].rebuild, restorers[c].page),
           projection' = [applyPage(projection, restorers[c].page) EXCEPT
                             !.shown = @ \ {e \in Removables : removals'[e] # "none"}]
    PROVE  /\ projection' \in ProjectionRow /\ Mine(restorers[c])
           /\ projection'.state = "rebuilding" /\ projection'.rebuild = projection.rebuild
           /\ projection'.generation = projection.generation
           /\ projection'.completed = projection.completed /\ projection'.failed = projection.failed
           /\ projection'.checkpoint.value = restorers[c].page.next
           /\ CheckpointSound(projection'.checkpoint)
           /\ projection'.shown \cap Removed' = {} /\ projection.shown \ Removed' \subseteq projection'.shown
           /\ \/ projection'.checkpoint = projection.checkpoint
              \/ /\ projection.checkpoint.value = restorers[c].page.source
                 /\ restorers[c].page.events \ Removed' \subseteq projection'.shown
<1>1. PICK page, q : page = restorers[c].page /\ q = applyPage(projection, page)
  BY Zenon
<1>2. RestoreShape /\ RequestsSound /\ CheckpointSound(projection.checkpoint)
  BY Zenon DEF RestoreInv
<1>3. /\ page \in Pages /\ page.source < page.next /\ projection \in ProjectionRow
      /\ projection.checkpoint \in [value : Cursors, page : Pages]
  BY Zenon, <1>1, <1>2 DEF RestoreShape, RequestsSound, RestorerSound, Phase, RestorerRow, ProjectionRow
<1>4. /\ Mine(restorers[c])
      /\ repeatsPage(projection, page) \/ adjacentPage(projection, page)
  BY Zenon, <1>1 DEF takesPage, admitsPage, Mine
<1>5. /\ q \in ProjectionRow /\ q.state = "rebuilding" /\ q.rebuild = projection.rebuild
      /\ q.generation = projection.generation /\ q.completed = projection.completed
      /\ q.failed = projection.failed /\ q.checkpoint.value = page.next
      /\ CheckpointSound(q.checkpoint) /\ projection.shown \subseteq q.shown
      /\ \/ q.checkpoint = projection.checkpoint
         \/ projection.checkpoint.value = page.source /\ page.events \subseteq q.shown
  <2>1. CASE repeatsPage(projection, page)
    BY Zenon, <1>1, <1>2, <1>3, <1>4, <2>1 DEF applyPage, repeatsPage, CheckpointSound, Mine
  <2>2. CASE ~repeatsPage(projection, page)
    <3>1. PICK k, s : k = [value |-> page.next, page |-> page] /\ s = projection.shown \cup page.events
      BY Zenon
    <3>2. q = [projection EXCEPT !.shown = s, !.checkpoint = k]
      BY Zenon, <1>1, <2>2, <3>1 DEF applyPage, replayCheckpoint
    <3>3. /\ k \in [value : Cursors, page : Pages] /\ k.value = page.next /\ k.page = page
          /\ s \in SUBSET AllEvents /\ projection.shown \subseteq s /\ page.events \subseteq s
      BY Zenon, <1>3, <3>1 DEF Pages, ProjectionRow
    <3>4. /\ q \in ProjectionRow /\ q.state = projection.state /\ q.rebuild = projection.rebuild
          /\ q.generation = projection.generation /\ q.completed = projection.completed
          /\ q.failed = projection.failed /\ q.checkpoint = k /\ q.shown = s
      BY Zenon, <1>3, <3>2, <3>3 DEF ProjectionRow
    <3>5. projection.checkpoint.value = page.source
      BY Zenon, <1>4, <2>2, Blanks DEF adjacentPage
    <3>6. CheckpointSound(k)
      BY Zenon, <1>3, <3>3 DEF CheckpointSound
    <3> QED BY Zenon, <1>4, <3>3, <3>4, <3>5, <3>6 DEF Mine
  <2> QED BY Zenon, <2>1, <2>2
<1>6. PICK s : s = q.shown \ Removed'
  BY Zenon
<1>7. projection' = [q EXCEPT !.shown = s]
  BY Zenon, <1>1, <1>6 DEF Removed
<1>8. s \in SUBSET AllEvents
  BY Zenon, <1>5, <1>6 DEF ProjectionRow
<1>9. /\ projection' \in ProjectionRow /\ projection'.state = q.state /\ projection'.rebuild = q.rebuild
      /\ projection'.generation = q.generation /\ projection'.completed = q.completed
      /\ projection'.failed = q.failed /\ projection'.checkpoint = q.checkpoint /\ projection'.shown = s
  BY Zenon, <1>5, <1>7, <1>8 DEF ProjectionRow
<1>10. s \cap Removed' = {} /\ projection.shown \ Removed' \subseteq s
       /\ (page.events \subseteq q.shown => page.events \ Removed' \subseteq s)
  BY Zenon, <1>5, <1>6
<1> QED BY Zenon, <1>1, <1>4, <1>5, <1>9, <1>10

\* The row of a request after a page.
LEMMA PageTurned ==
    ASSUME RestoreInv, NEW c \in Restorers, Phase(c, "apply"), turnPage(c, restorers[c].page)
    PROVE  \E x \in RestorerRow :
              /\ restorers' = [restorers EXCEPT ![c] = x]
              /\ x.phase \in {"final", "read"} /\ x.begun /\ x.rebuild = restorers[c].rebuild
              /\ x.authority = restorers[c].authority /\ x.cursor < Terminal
              /\ x.cursor <= restorers[c].page.next
              /\ x.phase = "final" => restorers[c].page.next = Terminal
<1>1. PICK next, n, f : /\ next = restorers[c].page.next
                        /\ n = IF next = Terminal THEN Start ELSE next
                        /\ f = IF next = Terminal THEN "final" ELSE "read"
  BY Zenon
<1>2. restorers[c] \in RestorerRow /\ RestorerSound(restorers[c]) /\ next \in Cursors
  BY Zenon, <1>1 DEF RestoreInv, RestoreShape, RequestsSound, RestorerRow, Pages
<1>3. /\ n \in Cursors /\ n < Terminal /\ n <= next
      /\ f \in {"final", "read"} /\ (f = "final" => next = Terminal)
  <2>1. next \in Nat /\ next <= Terminal /\ Start = 0 /\ Terminal \in Nat
    BY <1>2, Keys DEF Cursors, Start
  <2>2. n < Terminal /\ n <= next
    BY <1>1, <2>1, Keys
  <2> QED BY Zenon, <1>1, <1>2, <2>2, Keys
<1>4. PICK x : x = [restorers[c] EXCEPT !.page = NoPage, !.phase = f, !.cursor = n]
  BY Zenon
<1>5. restorers' = [restorers EXCEPT ![c] = x]
  BY Zenon, <1>1, <1>2, <1>4 DEF turnPage, RestorerRow, RestoreInv, RestoreShape
<1>6. /\ x \in RestorerRow /\ x.phase = f /\ x.cursor = n /\ x.rebuild = restorers[c].rebuild
      /\ x.authority = restorers[c].authority /\ x.begun = restorers[c].begun
  BY Zenon, <1>2, <1>3, <1>4, Blanks DEF RestorerRow, Phases
<1>7. restorers[c].begun
  BY Zenon, <1>2 DEF RestorerSound, Begun, Phase
<1> QED BY Zenon, <1>1, <1>3, <1>5, <1>6, <1>7

\* A page that the projection takes: nothing due is left before the checkpoint.
LEMMA TakeKeepsInv ==
    ASSUME RestoreInv, NEW c \in Restorers, Phase(c, "apply"), LedgerGrows,
           UNCHANGED <<archived, pointers, purge, activation, straddled, begunUnder>>,
           takesPage(projection, restorers[c].rebuild, restorers[c].page),
           projection' = [applyPage(projection, restorers[c].page) EXCEPT
                             !.shown = @ \ {e \in Removables : removals'[e] # "none"}],
           turnPage(c, restorers[c].page)
    PROVE  RestoreInv'
<1>1. RestoreShape /\ RequestsSound /\ ReplaySound /\ BegunSound /\ RebuildSound
  BY Zenon DEF RestoreInv
<1>2. RemovalsGrow /\ UnsentIsAbsent' /\ PurgeSound' /\ Replayable'
  BY Zenon, GrowFrame
<1>3. Removed' = begunUnder => Removed' = Removed
  BY Zenon, <1>1, <1>2, Overtaken
<1>4. \A e \in AllEvents : Due(e)' => Due(e) /\ e \notin Removed'
  BY Zenon, <1>2, DueStays DEF NoneAcked, Due
<1>5. PICK page : page = restorers[c].page
  BY Zenon
<1>6. /\ projection' \in ProjectionRow /\ Mine(restorers[c])
      /\ projection'.state = "rebuilding" /\ projection'.rebuild = projection.rebuild
      /\ projection'.generation = projection.generation
      /\ projection'.completed = projection.completed /\ projection'.failed = projection.failed
      /\ projection'.checkpoint.value = page.next
      /\ CheckpointSound(projection'.checkpoint)
      /\ projection'.shown \cap Removed' = {} /\ projection.shown \ Removed' \subseteq projection'.shown
      /\ \/ projection'.checkpoint = projection.checkpoint
         \/ /\ projection.checkpoint.value = page.source
            /\ page.events \ Removed' \subseteq projection'.shown
  BY Zenon, <1>5, PageTaken
<1>7. projection.state = "rebuilding"
  BY Zenon, <1>6 DEF Mine
<1>8. /\ PageSound(restorers[c]) /\ RestorerSound(restorers[c]) /\ page.source < page.next
      /\ page.source \in Nat /\ page.next \in Nat /\ page.source < Terminal /\ page.next <= Terminal
  <2>1. PageSound(restorers[c]) /\ RestorerSound(restorers[c]) /\ page \in Pages
    BY Zenon, <1>1, <1>5 DEF RequestsSound, RestoreShape, RestorerRow
  <2>2. page.source < page.next /\ page.source \in Cursors /\ page.next \in Cursors /\ page.source < Terminal
    BY Zenon, <1>5, <2>1 DEF RestorerSound, Phase, Pages
  <2> QED BY <2>1, <2>2, Keys DEF Cursors, Start
<1>9. projection.checkpoint.value \in Nat /\ projection.checkpoint.value <= projection'.checkpoint.value
  <2>1. projection.checkpoint.value \in Nat
    BY Zenon, <1>1, Keys DEF RestoreShape, ProjectionRow
  <2> QED BY <1>6, <1>8, <2>1
<1>10. PICK x \in RestorerRow :
              /\ restorers' = [restorers EXCEPT ![c] = x]
              /\ x.phase \in {"final", "read"} /\ x.begun /\ x.rebuild = restorers[c].rebuild
              /\ x.authority = restorers[c].authority /\ x.cursor < Terminal
              /\ x.cursor <= page.next /\ (x.phase = "final" => page.next = Terminal)
  BY Zenon, <1>5, PageTurned
<1>11. /\ restorers'[c] = x /\ \A d \in Restorers : d # c => restorers'[d] = restorers[d]
       /\ restorers' \in [Restorers -> RestorerRow]
  BY Zenon, <1>1, <1>10 DEF RestoreShape
<1>12. RestoreShape'
  BY Zenon, <1>1, <1>6, <1>11 DEF RestoreShape, LedgerGrows
<1>13. RebuildSound' /\ ReadySound' /\ CheckpointSound(projection.checkpoint)'
  BY Zenon, <1>1, <1>6, <1>7 DEF RebuildSound, ReadySound, CheckpointSound
<1>14. BegunSound'
  BY Zenon, <1>1, <1>2, <1>6 DEF BegunSound, RemovalsGrow
<1>15. LeaseSound'
  <2>1. restorers[c].begun /\ x.phase # "begin"
    BY Zenon, <1>8, <1>10 DEF RestorerSound, Phase, Begun
  <2> QED BY Zenon, <1>6, <1>10, <2>1, LeaseKept
<1>16. Sound' => Sound
  BY Zenon, <1>3, <1>7 DEF Sound
<1>17. ReplaySound'
  <2> SUFFICES ASSUME Sound', NEW e \in AllEvents, Due(e)', e \notin projection'.shown
               PROVE  InArchiveAfter(e, projection.checkpoint.value)'
    BY Zenon DEF ReplaySound
  <2>1. Due(e) /\ e \notin Removed' /\ e \notin projection.shown /\ Sound
    BY Zenon, <1>4, <1>6, <1>16
  <2>2. CASE projection'.checkpoint = projection.checkpoint
    BY Zenon, <1>1, <2>1, <2>2 DEF ReplaySound, InArchiveAfter
  <2>3. CASE projection.checkpoint.value = page.source /\ page.events \ Removed' \subseteq projection'.shown
    <3>1. e \notin page.events
      BY Zenon, <2>1, <2>3
    <3>2. InArchiveAfter(e, page.next)
      BY Zenon, <1>5, <1>6, <1>8, <2>1, <2>3, <3>1 DEF PageSound, Phase
    <3> QED BY Zenon, <1>6, <3>2 DEF InArchiveAfter
  <2> QED BY Zenon, <1>6, <2>2, <2>3
<1>18. RestorerSound(restorers[c])' /\ PageSound(restorers[c])' /\ WholeSound(restorers[c])'
  <2>1. PageSound(restorers[c])' /\ WholeSound(restorers[c])'
    BY Zenon, <1>10, <1>11 DEF PageSound, WholeSound
  <2>2. x.rebuild \in Rebuilds /\ \A e \in x.authority : removals'[e] = "complete"
    BY Zenon, <1>2, <1>8, <1>10 DEF RestorerSound, Phase, RestorerRow, RemovalsGrow
  <2>3. x.begun <=> x.phase \in Begun
    BY Zenon, <1>10 DEF Begun
  <2>4. Mine(x)'
    BY Zenon, <1>6, <1>10 DEF Mine
  <2> QED BY Zenon, <1>6, <1>10, <1>11, <2>1, <2>2, <2>3, <2>4 DEF RestorerSound, Mine
<1>19. ASSUME NEW d \in Restorers, d # c
       PROVE  RestorerSound(restorers[d])' /\ PageSound(restorers[d])' /\ WholeSound(restorers[d])'
  <2>1. PICK me \in RestorerRow : me = restorers[d] /\ me = restorers'[d]
    BY Zenon, <1>1, <1>11, <1>19 DEF RestoreShape
  <2>2. RestorerSound(me) /\ PageSound(me) /\ WholeSound(me)
    BY Zenon, <1>1, <2>1 DEF RequestsSound
  <2>3. Mine(me)' <=> Mine(me)
    BY Zenon, <1>6, <1>7 DEF Mine
  <2>4. me.cursor \in Nat
    BY Zenon, Keys DEF RestorerRow
  <2>5. me.phase \in {"read", "apply"} /\ Mine(me) => me.cursor <= projection'.checkpoint.value
    <3> SUFFICES ASSUME me.cursor <= projection.checkpoint.value
                 PROVE  me.cursor <= projection'.checkpoint.value
      BY Zenon, <2>2 DEF RestorerSound
    <3> QED BY <1>6, <1>8, <1>9, <2>4
  <2>6. me.phase \in {"final", "complete", "publish"} /\ Mine(me) => projection'.checkpoint.value = Terminal
    <3> SUFFICES ASSUME projection.checkpoint.value = Terminal
                 PROVE  projection'.checkpoint.value = Terminal
      BY Zenon, <2>2 DEF RestorerSound
    <3> QED BY <1>6, <1>8, <1>9
  <2>7. \A e \in me.authority : removals'[e] = "complete"
    BY Zenon, <1>2, <2>2 DEF RestorerSound, RestorerRow, RemovalsGrow
  <2>8. RestorerSound(restorers[d])'
    BY Zenon, <1>6, <1>7, <2>1, <2>2, <2>3, <2>5, <2>6, <2>7 DEF RestorerSound, Mine
  <2>9. WholeSound(restorers[d])'
    <3>1. Whole => Whole'
      BY Zenon, <1>4, <1>6 DEF Whole
    <3> QED BY Zenon, <2>1, <2>2, <2>3, <3>1 DEF WholeSound, Mine
  <2>10. PageSound(restorers[d])'
    <3> SUFFICES ASSUME me.phase = "apply", Mine(me), Sound', me.page.source = projection'.checkpoint.value,
                        NEW e \in AllEvents, Due(e)', e \notin projection'.shown
                 PROVE  e \in me.page.events \/ InArchiveAfter(e, me.page.next)'
      BY Zenon, <2>1, <2>3 DEF PageSound, Mine, InArchiveAfter
    <3>1. Due(e) /\ e \notin projection.shown /\ Sound
      BY Zenon, <1>4, <1>6, <1>16
    <3>2. me.page.source = me.cursor /\ me.cursor <= projection.checkpoint.value
      BY Zenon, <2>2 DEF RestorerSound
    <3>3. projection'.checkpoint = projection.checkpoint
      BY <1>6, <1>8, <1>9, <2>4, <3>2
    <3> QED BY Zenon, <2>2, <3>1, <3>3 DEF PageSound, InArchiveAfter
  <2> QED BY Zenon, <2>8, <2>9, <2>10
<1>20. RequestsSound'
  BY Zenon, <1>18, <1>19 DEF RequestsSound
<1> QED BY Zenon, <1>2, <1>12, <1>13, <1>14, <1>15, <1>17, <1>20 DEF RestoreInv

\* applyReplayPage, taken or refused.
LEMMA ApplyKeepsInv ==
    ASSUME RestoreInv, NEW c \in Restorers, applyReplayPage(c)
    PROVE  RestoreInv'
<1>1. Phase(c, "apply") /\ UNCHANGED <<archived, pointers, purge>>
  BY Zenon DEF applyReplayPage, WorldUnchanged
<1>2. RestoreShape /\ restorers[c].page.events \in SUBSET AllEvents
  BY Zenon DEF RestoreInv, RestoreShape, RestorerRow, Pages
<1>3. LedgerGrows
  <2>1. CASE recordRemovedEvents(restorers[c].page.events)
    BY Zenon, <1>2, <2>1, RecordsGrow
  <2>2. CASE LedgerUnchanged
    BY Zenon, <1>2, <2>2 DEF LedgerGrows, RestoreShape, LedgerUnchanged
  <2> QED BY Zenon, <2>1, <2>2 DEF applyReplayPage
<1>4. CASE RestoreFails(c)
  BY Zenon, <1>1, <1>3, <1>4, FailKeepsInv
<1>5. CASE ~RestoreFails(c)
  BY Zenon, <1>1, <1>3, <1>5, TakeKeepsInv DEF applyReplayPage
<1> QED BY Zenon, <1>4, <1>5

-----------------------------------------------------------------------------
(* The theorems                                                              *)

\* Every step keeps the invariant.
LEMMA RestoreStepKeepsInv ==
    ASSUME RestoreInv, [RestoreNext]_restoreVars
    PROVE  RestoreInv'
<1>1. ASSUME NEW b \in Archivable, ingest(b) \/ prepareLive(b) \/ applyLive(b) \/ deadLetter(b)
      PROVE  RestoreInv'
  BY Zenon, <1>1, QueueKeepsInv, LiveKeepsInv
<1>2. ASSUME NEW e \in Removables,
             recordRemovalWithArchivePurge(e) \/ writeReplacement(e) \/ finishPurge(e)
      PROVE  RestoreInv'
  BY Zenon, <1>2, RemovalsKeepInv
<1>3. ASSUME NEW c \in Restorers, RestoreStep(c) PROVE RestoreInv'
  BY Zenon, <1>3, AdmissionKeepsInv, BeginKeepsInv, ReadKeepsInv, ApplyKeepsInv, CheckKeepsInv,
     PublishKeepsInv DEF RestoreStep
<1>4. ASSUME NEW c \in Restorers, restoreCallFails(c) \/ restorerDies(c) PROVE RestoreInv'
  <2>1. UNCHANGED <<archived, pointers, purge, removals, epoch>>
    BY Zenon, <1>4 DEF restoreCallFails, restorerDies, LedgerUnchanged
  <2>2. LedgerGrows
    BY Zenon, <2>1 DEF RestoreInv, RestoreShape, LedgerGrows
  <2>3. CASE restoreCallFails(c)
    BY Zenon, <2>1, <2>2, <2>3, FailKeepsInv DEF restoreCallFails
  <2>4. CASE restorerDies(c)
    BY Zenon, <2>1, <2>4, QuitKeepsInv DEF restorerDies
  <2> QED BY Zenon, <1>4, <2>3, <2>4
<1>5. ASSUME leaseLapses \/ UNCHANGED restoreVars PROVE RestoreInv'
  <2>1. /\ activation' \in {activation, "none"}
        /\ UNCHANGED <<archived, pointers, removals, epoch, purge, projection, restorers, straddled,
                       begunUnder>>
    BY Zenon, <1>5 DEF leaseLapses, restoreVars
  <2>2. RestoreShape' /\ LedgerGrows
    BY Zenon, <2>1 DEF RestoreInv, RestoreShape, LedgerGrows
  <2>3. NoneAcked /\ \A k \in Manifests : archived[k] \subseteq archived'[k]
    BY Zenon, <2>1 DEF NoneAcked
  <2> QED BY Zenon, <2>1, <2>2, <2>3, GrowFrame, ArchiveGrows, WorldStep
<1> QED BY Zenon, <1>1, <1>2, <1>3, <1>4, <1>5, DeleteKeepsInv, AdmissionKeepsInv DEF RestoreNext

\* The first state.
LEMMA RestoreInitSound ==
    ASSUME RestoreInit
    PROVE  RestoreInv
<1>1. RestoreShape
  <2>1. 0 \in Nat /\ 1 \in Nat
    OBVIOUS
  <2>2. projection \in ProjectionRow
    BY Zenon, <2>1, Blanks DEF RestoreInit, ProjectionRow
  <2> QED BY Zenon, <2>1, <2>2, Blanks DEF RestoreInit, RestoreShape, PointerStates, PurgeStates
<1>2. UnsentIsAbsent /\ PurgeSound /\ BegunSound /\ Replayable
  <2>1. UnsentIsAbsent
    <3>1. Archivable \subseteq Manifests
      BY Zenon, RestoreConstants
    <3> QED BY Zenon, <3>1 DEF RestoreInit, UnsentIsAbsent
  <2>2. PurgeSound /\ Replayable
    BY Zenon DEF RestoreInit, PurgeSound, Replayable
  <2>3. BegunSound
    <3>1. begunUnder = {} /\ projection.shown = {}
      BY Zenon DEF RestoreInit
    <3> QED BY Zenon, <3>1 DEF BegunSound
  <2> QED BY Zenon, <2>1, <2>2, <2>3
<1>3. /\ projection.state = "ready" /\ projection.rebuild = "none" /\ projection.completed = {}
      /\ projection.failed = {} /\ projection.checkpoint = NoCheckpoint
  BY Zenon DEF RestoreInit
<1>4. RebuildSound /\ CheckpointSound(projection.checkpoint) /\ ReplaySound
  BY Zenon, <1>3, Blanks, RestoreConstants DEF RebuildSound, ReplaySound, Sound
<1>5. LeaseSound
  BY Zenon, RestoreConstants DEF RestoreInit, LeaseSound
<1>6. \A e \in AllEvents : ~Due(e)
  BY Zenon DEF RestoreInit, Due
<1>7. ReadySound
  BY Zenon, <1>6 DEF ReadySound, Whole
<1>8. RequestsSound
  BY Zenon, IdleSound DEF RestoreInit, RequestsSound
<1> QED BY Zenon, <1>1, <1>2, <1>4, <1>5, <1>7, <1>8 DEF RestoreInv

\* The inductive invariant of Restore: what the replay has not shown is behind
\* its checkpoint, in the order restoreProjectionFromArchive reads the archive.
THEOREM RestoreInvariance == RestoreSpec => []RestoreInv
<1>1. RestoreInit => RestoreInv
  BY Zenon, RestoreInitSound
<1>2. RestoreInv /\ [RestoreNext]_restoreVars => RestoreInv'
  BY Zenon, RestoreStepKeepsInv
<1> QED BY <1>1, <1>2, PTL DEF RestoreSpec

\* Nothing that was accepted is lost, whatever requests, purges, removals and
\* mishaps: it stays in a committed batch, and a ready projection shows what
\* was acknowledged, unless the rebuild was resumed under another ledger.
THEOREM AcceptedNeverLost == RestoreSpec => []AcceptedIsNotLost
<1>1. RestoreInv => AcceptedIsNotLost
  <2> SUFFICES ASSUME RestoreInv PROVE AcceptedIsNotLost
    BY Zenon
  <2>1. ReadySound /\ Replayable
    BY Zenon DEF RestoreInv
  <2>2. \A e \in Acknowledged : e \in AllEvents /\ Due(e)
    BY Zenon DEF Acknowledged, AllEvents, Due
  <2>3. ReadyShowsAcknowledged
    BY Zenon, <2>1, <2>2 DEF ReadyShowsAcknowledged, ReadySound, Whole
  <2>4. AcceptedStaysReplayable
    <3> SUFFICES ASSUME NEW b \in Archivable, pointers[b] # "absent", NEW e \in EventsOf[b], e \notin Removed
                 PROVE  \E k \in Manifests : e \in archived[k]
      BY Zenon DEF AcceptedStaysReplayable
    <3>1. e \in AllEvents
      BY Zenon DEF AllEvents
    <3> QED BY Zenon, <2>1, <3>1 DEF Replayable, InArchiveAfter
  <2> QED BY Zenon, <2>3, <2>4 DEF AcceptedIsNotLost
<1> QED BY <1>1, RestoreInvariance, PTL

\* The step that lets a request publish.
LEMMA OnlyTheCheckActivates ==
    ASSUME RestoreInv, [RestoreNext]_restoreVars, NEW c \in Restorers, Phase(c, "final"),
           restorers'[c].phase = "complete"
    PROVE  holdsLease(c) /\ sameAuthority(c)
<1>1. restorers \in [Restorers -> RestorerRow]
  BY Zenon DEF RestoreInv, RestoreShape
<1>2. restorers' # restorers
  BY Zenon DEF Phase
<1>3. ASSUME NEW d \in Restorers, NEW x, restorers' = [restorers EXCEPT ![d] = x]
      PROVE  d = c /\ x.phase = "complete"
  BY Zenon, <1>1, <1>3 DEF Phase
<1>4. ASSUME NEW d \in Restorers, restorers' = [restorers EXCEPT ![d] = IdleRestorer]
      PROVE  FALSE
  BY Zenon, <1>3, <1>4, Blanks
<1>5. ASSUME NEW d \in Restorers, RestoreFails(d)
      PROVE  FALSE
  BY Zenon, <1>4, <1>5 DEF RestoreFails
<1>6. ASSUME NEW d \in Restorers, RestoreStep(d)
      PROVE  checkAuthority(c) /\ ~RestoreFails(c)
  <2>1. d = c
    <3> SUFFICES ASSUME d # c PROVE FALSE
      BY Zenon
    <3>1. restorers'[c] = restorers[c]
      BY <1>1, <1>6 DEF RestoreStep, acquireLease, begin, readPage, applyReplayPage, checkAuthority,
         proveLease, publish, RestoreFails, Proceed, turnPage
    <3> QED BY Zenon, <3>1 DEF Phase
  <2> QED BY Zenon, <1>4, <1>5, <1>6, <2>1 DEF RestoreStep, acquireLease, begin, readPage,
          applyReplayPage, proveLease, publish, Phase
<1>7. \A d \in Restorers : ~(restoreCallFails(d) \/ restorerDies(d))
  BY Zenon, <1>4, <1>5 DEF restoreCallFails, restorerDies
<1>8. \A d \in Restorers, r \in Rebuilds : \A g : ~requestRestore(d, r, g)
  <2> SUFFICES ASSUME NEW d \in Restorers, NEW r \in Rebuilds, NEW g, requestRestore(d, r, g) PROVE FALSE
    BY Zenon
  <2>1. PICK x : x.phase = "lease" /\ restorers' = [restorers EXCEPT ![d] = x]
    BY Zenon DEF requestRestore, IdleRestorer
  <2> QED BY Zenon, <1>3, <2>1
<1>9. \E d \in Restorers : RestoreStep(d)
  BY Zenon, <1>2, <1>7, <1>8 DEF RestoreNext, restoreVars, ingest, prepareLive, applyLive, deadLetter,
     recordRemovalWithArchivePurge, writeReplacement, finishPurge, deleteOriginalManifest, leaseLapses
<1> QED BY Zenon, <1>6, <1>9 DEF checkAuthority

\* When the last comparison of the ledger lets a request publish, the replayed
\* projection shows no removed event.
THEOREM ActivatedAlwaysHides == RestoreSpec => ActivatedHidesRemovals
<1>1. RestoreInv /\ [RestoreNext]_restoreVars =>
        [\A c \in Restorers :
            Phase(c, "final") /\ restorers'[c].phase = "complete" /\ ~straddled
            => projection.shown \cap Removed = {}]_restoreVars
  <2> SUFFICES ASSUME RestoreInv, [RestoreNext]_restoreVars, NEW c \in Restorers, Phase(c, "final"),
                      restorers'[c].phase = "complete", ~straddled
               PROVE  projection.shown \cap Removed = {}
    BY Zenon
  <2>1. holdsLease(c) /\ sameAuthority(c)
    BY Zenon, OnlyTheCheckActivates
  <2>2. restorers[c].begun
    BY Zenon DEF RestoreInv, RequestsSound, RestorerSound, Phase, Begun
  <2>3. Removed = begunUnder
    BY Zenon, <2>1, <2>2 DEF RestoreInv, LeaseSound, holdsLease, sameAuthority
  <2> QED BY Zenon, <2>3 DEF RestoreInv, BegunSound
<1> QED BY <1>1, RestoreInvariance, PTL DEF RestoreSpec, ActivatedHidesRemovals

\* A published generation is only replaced by the rebuild that comes next.
THEOREM PublishedNeverUndone == RestoreSpec => PublishedIsNeverUndone
<1>1. RestoreInv /\ [RestoreNext]_restoreVars =>
        [projection.state = "ready" /\ projection'.state # "ready" =>
            /\ projection'.state = "rebuilding"
            /\ projection'.generation = projection.generation + 1]_restoreVars
  <2> SUFFICES ASSUME RestoreInv, [RestoreNext]_restoreVars, projection.state = "ready",
                      projection'.state # "ready"
               PROVE  projection'.state = "rebuilding" /\ projection'.generation = projection.generation + 1
    BY Zenon
  <2>1. projection \in ProjectionRow
    BY Zenon DEF RestoreInv, RestoreShape
  <2>2. projection' # projection
    BY Zenon
  <2>3. \A d \in Restorers : ~RestoreFails(d)
    BY Zenon, <2>2 DEF RestoreFails, abortRebuild
  <2>4. ASSUME NEW b \in Archivable, applyLive(b) PROVE FALSE
    <3>1. PICK s : projection' = [projection EXCEPT !.shown = s]
      BY Zenon, <2>2, <2>4 DEF applyLive
    <3> QED BY Zenon, <2>1, <3>1 DEF ProjectionRow
  <2>5. ASSUME NEW d \in Restorers, RestoreStep(d)
        PROVE  projection' = beginRebuild(projection, restorers[d].rebuild)
    BY Zenon, <2>2, <2>3, <2>5 DEF RestoreStep, acquireLease, begin, readPage, applyReplayPage, takesPage,
       admitsPage, checkAuthority, proveLease, publish, completes
  <2>6. \E d \in Restorers : RestoreStep(d)
    BY Zenon, <2>2, <2>3, <2>4 DEF RestoreNext, restoreVars, ingest, prepareLive, deadLetter,
       recordRemovalWithArchivePurge, writeReplacement, finishPurge, deleteOriginalManifest, leaseLapses,
       restoreCallFails, restorerDies, requestRestore
  <2>7. PICK d \in Restorers : projection' = beginRebuild(projection, restorers[d].rebuild)
    BY Zenon, <2>5, <2>6
  <2>8. PICK q, r : q = cleared(projection) /\ r = restorers[d].rebuild
    BY Zenon
  <2>9. q.generation = projection.generation /\ DOMAIN q = DOMAIN projection
    BY Zenon, <2>1, <2>8 DEF cleared, ProjectionRow
  <2>10. projection' = [q EXCEPT !.state = "rebuilding", !.generation = @ + 1, !.rebuild = r]
    BY Zenon, <2>7, <2>8 DEF beginRebuild
  <2>11. q \in ProjectionRow
    BY Zenon, <2>1, <2>8, Blanks DEF cleared, ProjectionRow
  <2> QED BY Zenon, <2>9, <2>10, <2>11 DEF ProjectionRow
<1> QED BY <1>1, RestoreInvariance, PTL DEF RestoreSpec, PublishedIsNeverUndone

-----------------------------------------------------------------------------
(* The inductive invariant *)

\* A settled row has no lease that could lapse.
SettledRowsAreFree ==
    \A o \in CopyOps : copyRows[o].status = "complete" => copyRows[o].token = NoSweeper

\* The row of a copy is settled only once the store has deleted the copy.
SettledCopiesAreGone ==
    \A s \in Stores, c \in Copies :
        copyRows[<<s, c>>].status = "complete" => c \notin held[s]

\* The evidence that a worker carries to its row is about a row, and "gone" is
\* said of a copy that is gone.
EvidenceIsTrue ==
    \A w \in Sweepers : sweeps[w].at = "recording" =>
        /\ sweeps[w].op \in CopyOps
        /\ sweeps[w].evidence = "gone" =>
              sweeps[w].op[2] \in Copies /\ sweeps[w].op[2] \notin held[sweeps[w].op[1]]

\* A sweep works only after it has planned every store.
PlannedBeforeWork ==
    \A w \in Sweepers : sweeps[w].at \in {"working", "recording"} => sweeps[w].todo = {}

\* Some sweep has the plan of the store behind it, or a row of the store has
\* been worked on, which comes to the same.
Visited(s) ==
    \/ \E w \in Sweepers : sweeps[w].at # "idle" /\ s \notin sweeps[w].todo
    \/ \E c \in Copies \cup {Placeholder} : copyRows[<<s, c>>].status \notin {"absent", "planned"}

Rowed(s) == \A c \in held[s] : copyRows[<<s, c>>].status # "absent"

\* Every copy the store still holds has a row, or the placeholder stands for
\* the ones that have none and is open.
Covered(s) ==
    \/ Rowed(s)
    \/ copyRows[<<s, Placeholder>>].status \notin {"absent", "complete"}

RetentionInv ==
    /\ RetentionTypeOK
    /\ SettledRowsAreFree
    /\ SettledCopiesAreGone
    /\ EvidenceIsTrue
    /\ PlannedBeforeWork
    /\ \A s \in Stores : Visited(s) => Covered(s)

-----------------------------------------------------------------------------
(* Lemmas on the operators *)

\* A key of a row is a pair of a store and a copy or the placeholder.
LEMMA CopyOpPairs ==
    /\ \A o \in CopyOps : /\ o[1] \in Stores /\ o[2] \in Copies \cup {Placeholder}
                          /\ o = <<o[1], o[2]>>
    /\ \A s \in Stores, c \in Copies \cup {Placeholder} : <<s, c>> \in CopyOps
BY DEF CopyOps

\* insertOrReadOperation returns the row that is there, or a planned one.
LEMMA InsertOrRead ==
    ASSUME NEW s \in Stores, NEW row \in CopyRow
    PROVE  /\ insertOrReadOperation(s, row) \in CopyRow
           /\ row.status # "absent" => insertOrReadOperation(s, row) = row
           /\ row.status = "absent" => insertOrReadOperation(s, row).status = "planned"
<1>1. CASE row.status = "absent"
  <2>1. NoCopyRow \in CopyRow
    BY Zenon DEF NoCopyRow, CopyRow, CopyStatuses
  <2> QED BY <1>1, <2>1, Zenon DEF insertOrReadOperation, CopyRow, CopyStatuses, NoCopyRow
<1>2. CASE row.status # "absent"
  BY Zenon, <1>2 DEF insertOrReadOperation
<1> QED BY Zenon, <1>1, <1>2

\* The placeholder after a plan: a settled one is untouched, none disappears,
\* one is settled only by an inventory that is complete, and after an incomplete
\* inventory there is one.
LEMMA PlaceholderAfterPlan ==
    ASSUME RetentionTypeOK, NEW s \in Stores, NEW result, result.complete \in BOOLEAN,
           NEW old, old = copyRows[<<s, Placeholder>>],
           NEW new, new = PlannedPlaceholder(s, result),
           old.status = "complete" => old.token = NoSweeper
    PROVE  /\ new \in CopyRow
           /\ old.status = "complete" => new = old
           /\ old.status # "absent" => new.status # "absent"
           /\ new.status = "complete" => new.token = NoSweeper
           /\ new.status = "complete" /\ old.status # "complete" => result.complete
           /\ ~result.complete => new.status # "absent"
<1>1. old \in CopyRow
  BY Zenon, CopyOpPairs DEF RetentionTypeOK
<1>2. PICK row : row = reconcileUnavailableInventory(s, old)
  BY Zenon
<1>3. /\ row \in CopyRow
      /\ old.status = "complete" => row = old
      /\ row.status = "complete" => row = old
      /\ row.status = "absent" <=> old.status = "absent"
  BY <1>1, <1>2, Zenon DEF reconcileUnavailableInventory, Bridged, CopyRow, CopyStatuses
<1>4. PICK ins : ins = insertOrReadOperation(s, row)
  BY Zenon
<1>5. /\ ins \in CopyRow
      /\ row.status # "absent" => ins = row
      /\ row.status = "absent" => ins.status = "planned"
  BY Zenon, <1>3, <1>4, InsertOrRead
<1>6. PICK rec : rec = recordInventoryResult(ins, result)
  BY Zenon
<1>7. /\ rec \in CopyRow
      /\ ins.status # "absent" => rec.status # "absent"
      /\ ins.status = "complete" => rec = ins
      /\ rec.status = "complete" /\ ins.status # "complete" => result.complete /\ rec.token = NoSweeper
  BY Zenon, <1>5, <1>6 DEF recordInventoryResult, OpenCopy, CopyRow, CopyStatuses
<1>8. new = rec \/ (new = row /\ result.complete)
  BY Zenon, <1>2, <1>4, <1>6 DEF PlannedPlaceholder
<1> QED BY Zenon, <1>3, <1>5, <1>7, <1>8

-----------------------------------------------------------------------------
(* The invariant is inductive *)

\* No sweep has started and no row exists.
LEMMA InitRetentionInv == RetentionInit => RetentionInv
<1> SUFFICES ASSUME RetentionInit PROVE RetentionInv
  BY Zenon
<1>1. NoCopyRow \in CopyRow /\ NoCopyRow.status = "absent"
  BY Zenon DEF NoCopyRow, CopyRow, CopyStatuses
<1>2. \A o \in CopyOps : copyRows[o] = NoCopyRow
  BY Zenon DEF RetentionInit
<1>3. \A w \in Sweepers : sweeps[w].at = "idle"
  BY Zenon DEF RetentionInit, IdleSweep
<1>4. RetentionTypeOK
  BY <1>1 DEF RetentionInit, RetentionTypeOK, IdleSweep, Sweep
<1>5. \A s \in Stores : ~Visited(s)
  BY Zenon, <1>1, <1>2, <1>3, CopyOpPairs DEF Visited
<1> QED
  BY Zenon, <1>1, <1>2, <1>3, <1>4, <1>5, CopyOpPairs
  DEF RetentionInv, SettledRowsAreFree, SettledCopiesAreGone, EvidenceIsTrue, PlannedBeforeWork

\* What a store's inventory may say.
LEMMA InventoryAnswers ==
    ASSUME RetentionTypeOK, NEW s \in Stores, NEW result \in Inventories(s)
    PROVE  /\ result.complete \in BOOLEAN
           /\ result.copies \subseteq held[s]
           /\ result.complete => result.copies = held[s]
<1>1. CASE s \in endpoint
  <2>1. \/ \E found \in SUBSET held[s] : result = [complete |-> FALSE, copies |-> found]
        \/ result = [complete |-> TRUE, copies |-> held[s]]
    <3>1. Inventories(s) = {[complete |-> FALSE, copies |-> found] : found \in SUBSET held[s]}
                             \cup {[complete |-> TRUE, copies |-> held[s]]}
      BY <1>1, Zenon DEF Inventories
    <3> QED BY Zenon, <3>1
  <2>2. CASE \E found \in SUBSET held[s] : result = [complete |-> FALSE, copies |-> found]
    <3>1. PICK found \in SUBSET held[s] : result = [complete |-> FALSE, copies |-> found]
      BY <2>2, Zenon
    <3>2. result.complete = FALSE /\ result.copies = found
      BY Zenon, <3>1
    <3> QED BY <3>2, Zenon
  <2>3. CASE result = [complete |-> TRUE, copies |-> held[s]]
    <3>1. result.complete = TRUE /\ result.copies = held[s]
      BY Zenon, <2>3
    <3> QED BY <3>1, Zenon
  <2> QED BY Zenon, <2>1, <2>2, <2>3
<1>2. CASE s \notin endpoint
  <2>1. result = [complete |-> FALSE, copies |-> {}]
    BY Zenon, <1>2 DEF Inventories
  <2> QED BY Zenon, <2>1
<1> QED BY Zenon, <1>1, <1>2

\* The plan of one store gives every copy it saw a row; an incomplete inventory
\* leaves an open placeholder, or a settled one from a complete inventory before.
LEMMA PlanKeepsInv ==
    ASSUME RetentionInv, NEW w \in Sweepers, NEW s \in Stores, plan(w, s)
    PROVE  RetentionInv'
<1> USE DEF RetentionInv
<1>1. PICK result \in Inventories(s) :
        copyRows' = [o \in CopyOps |->
             IF o = <<s, Placeholder>> THEN PlannedPlaceholder(s, result)
             ELSE IF o[1] = s /\ o[2] \in result.copies THEN insertOrReadOperation(s, copyRows[o])
             ELSE copyRows[o]]
  BY Zenon DEF plan
<1>2. /\ result.complete \in BOOLEAN
      /\ result.copies \subseteq held[s]
      /\ result.complete => result.copies = held[s]
  BY Zenon, InventoryAnswers
<1>3. held' = held /\ held[s] \subseteq Copies
  BY Zenon DEF plan, RetentionTypeOK
<1>4. PICK old : old = copyRows[<<s, Placeholder>>]
  BY Zenon
<1>5. PICK new : new = PlannedPlaceholder(s, result)
  BY Zenon
<1>6. copyRows'[<<s, Placeholder>>] = new
  BY Zenon, <1>1, <1>5, CopyOpPairs
<1>7. old.status = "complete" => old.token = NoSweeper
  BY Zenon, <1>4, CopyOpPairs DEF SettledRowsAreFree
<1>8. /\ new \in CopyRow
      /\ old.status = "complete" => new = old
      /\ old.status # "absent" => new.status # "absent"
      /\ new.status = "complete" => new.token = NoSweeper
      /\ new.status = "complete" /\ old.status # "complete" => result.complete
      /\ ~result.complete => new.status # "absent"
  BY ONLY RetentionTypeOK, s \in Stores, <1>2, <1>4, <1>5, <1>7, PlaceholderAfterPlan
<1>9. ASSUME NEW o \in CopyOps, o # <<s, Placeholder>>
      PROVE  /\ copyRows'[o] \in CopyRow
             /\ copyRows[o].status # "absent" => copyRows'[o] = copyRows[o]
             /\ copyRows[o].status = "absent" => copyRows'[o].status \in {"absent", "planned"}
             /\ o[1] = s /\ o[2] \in result.copies => copyRows'[o].status # "absent"
             /\ o[1] # s => copyRows'[o] = copyRows[o]
  <2>1. copyRows[o] \in CopyRow
    BY Zenon DEF RetentionTypeOK
  <2>2. copyRows'[o] = IF o[1] = s /\ o[2] \in result.copies
                       THEN insertOrReadOperation(s, copyRows[o]) ELSE copyRows[o]
    BY Zenon, <1>1, <1>9
  <2> QED BY <2>1, <2>2, InsertOrRead
<1>10. copyRows' \in [CopyOps -> CopyRow]
  <2>1. \A o \in CopyOps : copyRows'[o] \in CopyRow
    BY Zenon, <1>6, <1>8, <1>9
  <2> QED BY Zenon, <1>1, <2>1
<1>11. /\ sweeps' = [sweeps EXCEPT ![w].todo = @ \ {s},
                                   ![w].at = IF sweeps[w].todo = {s} THEN "working" ELSE @]
       /\ sweeps[w].at = "planning" /\ s \in sweeps[w].todo
       /\ UNCHANGED <<held, endpoint, deadline>>
  BY Zenon DEF plan
<1>12. sweeps' \in [Sweepers -> Sweep]
       /\ sweeps'[w].todo = sweeps[w].todo \ {s}
       /\ sweeps'[w].at \in {"planning", "working"}
       /\ (sweeps'[w].at = "working" => sweeps'[w].todo = {})
       /\ \A v \in Sweepers : v # w => sweeps'[v] = sweeps[v]
  <2>1. PICK at : at = IF sweeps[w].todo = {s} THEN "working" ELSE "planning"
    BY Zenon
  <2>2. PICK sweep : sweep = [sweeps[w] EXCEPT !.todo = sweeps[w].todo \ {s}, !.at = at]
    BY Zenon
  <2>3. sweeps' = [sweeps EXCEPT ![w] = sweep]
    BY Zenon, <1>11, <2>1, <2>2 DEF RetentionTypeOK
  <2>4. sweeps[w] \in Sweep
    BY Zenon DEF RetentionTypeOK
  <2>5. sweep \in Sweep /\ sweep.todo = sweeps[w].todo \ {s} /\ sweep.at = at
    BY Zenon, <2>1, <2>2, <2>4 DEF Sweep
  <2> QED BY Zenon, <2>1, <2>3, <2>5 DEF RetentionTypeOK
<1>13. RetentionTypeOK'
  BY Zenon, <1>10, <1>11, <1>12 DEF RetentionTypeOK
<1>14. SettledRowsAreFree'
  BY <1>6, <1>8, <1>9 DEF SettledRowsAreFree
<1>15. SettledCopiesAreGone'
  <2> SUFFICES ASSUME NEW t \in Stores, NEW c \in Copies, copyRows'[<<t, c>>].status = "complete"
               PROVE  c \notin held'[t]
    BY Zenon DEF SettledCopiesAreGone
  <2>1. <<t, c>> \in CopyOps /\ <<t, c>> # <<s, Placeholder>>
    BY Zenon, CopyOpPairs, RetentionConstants
  <2> QED BY Zenon, <1>3, <1>9, <2>1 DEF SettledCopiesAreGone
<1>16. EvidenceIsTrue'
  BY Zenon, <1>3, <1>12 DEF EvidenceIsTrue
<1>17. PlannedBeforeWork'
  BY Zenon, <1>12 DEF PlannedBeforeWork
<1>18. ASSUME NEW t \in Stores, Visited(t)' PROVE Covered(t)'
  <2>1. CASE t # s
    <3>1. \A c \in Copies \cup {Placeholder} : copyRows'[<<t, c>>] = copyRows[<<t, c>>]
      BY Zenon, <1>9, <2>1, CopyOpPairs
    <3>2. \A v \in Sweepers : sweeps'[v].at # "idle" /\ t \notin sweeps'[v].todo
                              => sweeps[v].at # "idle" /\ t \notin sweeps[v].todo
      BY Zenon, <1>11, <1>12, <2>1
    <3>3. Visited(t)
      BY Zenon, <1>18, <3>1, <3>2 DEF Visited
    <3>4. held[t] \subseteq Copies
      BY Zenon DEF RetentionTypeOK
    <3> QED BY Zenon, <1>3, <3>1, <3>3, <3>4 DEF Covered, Rowed
  <2>2. CASE t = s /\ result.complete
    <3>1. \A c \in held[s] : <<s, c>> \in CopyOps /\ <<s, c>> # <<s, Placeholder>>
      BY Zenon, <1>3, CopyOpPairs, RetentionConstants
    <3>2. \A c \in held[s] : copyRows'[<<s, c>>].status # "absent"
      BY Zenon, <1>2, <1>9, <2>2, <3>1
    <3> QED BY Zenon, <1>3, <2>2, <3>2 DEF Covered, Rowed
  <2>3. CASE t = s /\ ~result.complete /\ old.status # "complete"
    BY Zenon, <1>6, <1>8, <2>3 DEF Covered
  <2>4. CASE t = s /\ old.status = "complete"
    <3>1. Visited(s)
      BY Zenon, <1>4, <2>4 DEF Visited
    <3>2. \A c \in held[s] : copyRows[<<s, c>>].status # "absent"
      BY Zenon, <1>4, <2>4, <3>1 DEF Covered, Rowed
    <3>3. \A c \in held[s] : <<s, c>> \in CopyOps /\ <<s, c>> # <<s, Placeholder>>
      BY Zenon, <1>3, CopyOpPairs, RetentionConstants
    <3>4. \A c \in held[s] : copyRows'[<<s, c>>].status # "absent"
      BY Zenon, <1>9, <3>2, <3>3
    <3> QED BY Zenon, <1>3, <2>4, <3>4 DEF Covered, Rowed
  <2> QED BY Zenon, <1>2, <2>1, <2>2, <2>3, <2>4
<1> QED BY Zenon, <1>13, <1>14, <1>15, <1>16, <1>17, <1>18

\* A plan that stops half-way leaves some of the copies with a row.
LEMMA StoppedPlanKeepsInv ==
    ASSUME RetentionInv, NEW w \in Sweepers, NEW s \in Stores, planStops(w, s)
    PROVE  RetentionInv'
<1> USE DEF RetentionInv
<1>1. PICK some \in SUBSET held[s] :
        copyRows' = [o \in CopyOps |->
             IF o[1] = s /\ o[2] \in some THEN insertOrReadOperation(s, copyRows[o]) ELSE copyRows[o]]
  BY Zenon DEF planStops
<1>2. ASSUME NEW o \in CopyOps
      PROVE  /\ copyRows'[o] \in CopyRow
             /\ copyRows[o].status # "absent" => copyRows'[o] = copyRows[o]
             /\ copyRows[o].status = "absent" => copyRows'[o].status \in {"absent", "planned"}
  <2>1. copyRows[o] \in CopyRow
    BY Zenon DEF RetentionTypeOK
  <2>2. copyRows'[o] = IF o[1] = s /\ o[2] \in some
                       THEN insertOrReadOperation(s, copyRows[o]) ELSE copyRows[o]
    BY Zenon, <1>1
  <2> QED BY <2>1, <2>2, InsertOrRead
<1>3. sweeps' = [sweeps EXCEPT ![w] = IdleSweep] /\ UNCHANGED <<held, endpoint, deadline>>
  BY Zenon DEF planStops
<1>4. RetentionTypeOK'
  <2>1. copyRows' \in [CopyOps -> CopyRow]
    BY Zenon, <1>1, <1>2
  <2>2. sweeps' \in [Sweepers -> Sweep]
    BY <1>3 DEF RetentionTypeOK, IdleSweep, Sweep
  <2> QED BY Zenon, <1>3, <2>1, <2>2 DEF RetentionTypeOK
<1>5. \A v \in Sweepers : sweeps'[v] = sweeps[v] \/ sweeps'[v].at = "idle"
  BY Zenon, <1>3 DEF RetentionTypeOK, IdleSweep
<1>6. SettledRowsAreFree' /\ SettledCopiesAreGone'
  BY Zenon, <1>2, <1>3, CopyOpPairs DEF SettledRowsAreFree, SettledCopiesAreGone
<1>7. EvidenceIsTrue' /\ PlannedBeforeWork'
  BY Zenon, <1>3, <1>5 DEF EvidenceIsTrue, PlannedBeforeWork
<1>8. ASSUME NEW t \in Stores, Visited(t)' PROVE Covered(t)'
  <2>1. Visited(t)
    BY Zenon, <1>2, <1>5, <1>8, CopyOpPairs DEF Visited
  <2>2. held'[t] = held[t] /\ held[t] \subseteq Copies
    BY Zenon, <1>3 DEF RetentionTypeOK
  <2> QED BY <1>2, <2>1, <2>2, CopyOpPairs DEF Covered, Rowed
<1> QED BY Zenon, <1>4, <1>6, <1>7, <1>8

\* A claim is made on a row that is there and open, by a sweep that has planned
\* every store; what it says is gone, it has deleted.
LEMMA ClaimKeepsInv ==
    ASSUME RetentionInv, NEW w \in Sweepers, NEW o \in CopyOps, claimOperation(w, o)
    PROVE  RetentionInv'
<1> USE DEF RetentionInv
<1>1. PICK row : row = [copyRows[o] EXCEPT !.status = "leased", !.token = w, !.lapsed = FALSE]
  BY Zenon
<1>2. copyRows[o] \in CopyRow /\ copyRows[o].status \notin {"absent", "complete"}
  BY Zenon DEF claimOperation, Claimable, OpenCopy, RetentionTypeOK
<1>3. row \in CopyRow /\ row.status = "leased"
  BY <1>1, <1>2, Zenon DEF CopyRow, CopyStatuses
<1>4. copyRows' = [copyRows EXCEPT ![o] = row]
  BY Zenon, <1>1 DEF claimOperation, RetentionTypeOK
<1>5. copyRows' \in [CopyOps -> CopyRow] /\ copyRows'[o] = row
      /\ \A p \in CopyOps : p # o => copyRows'[p] = copyRows[p]
  BY Zenon, <1>3, <1>4 DEF RetentionTypeOK
<1>6. sweeps[w] \in Sweep /\ sweeps[w].at = "working" /\ sweeps[w].todo = {}
  BY Zenon DEF claimOperation, PlannedBeforeWork, RetentionTypeOK
<1>7. PICK e \in {"gone", "unknown", "failed"} :
        /\ sweeps' = [sweeps EXCEPT ![w].at = "recording", ![w].op = o, ![w].evidence = e]
        /\ \/ e \in Deleted(w, o) /\ held' = [held EXCEPT ![o[1]] = @ \ {o[2]}]
           \/ e \in Unchanged(w, o) /\ held' = held
  <2>1. Deleted(w, o) \subseteq {"gone", "failed"} /\ Unchanged(w, o) \subseteq {"unknown", "failed"}
    BY Zenon DEF Deleted, Unchanged, Blocked
  <2> QED BY Zenon, <2>1 DEF claimOperation, evidenceIs
<1>8. e = "gone" => o[2] \in Copies /\ held' = [held EXCEPT ![o[1]] = @ \ {o[2]}]
  <2>1. "gone" \notin Unchanged(w, o)
    BY Zenon DEF Unchanged, Blocked
  <2>2. Deleted(w, o) # {} => o[2] # Placeholder
    BY Zenon DEF Deleted, Blocked
  <2> QED BY Zenon, <1>7, <2>1, <2>2, CopyOpPairs
<1>9. PICK sweep : sweep = [sweeps[w] EXCEPT !.at = "recording", !.op = o, !.evidence = e]
  BY Zenon
<1>10. sweep \in Sweep /\ sweep.at = "recording" /\ sweep.op = o /\ sweep.evidence = e /\ sweep.todo = {}
  BY <1>6, <1>9, Zenon DEF Sweep
<1>11. sweeps' = [sweeps EXCEPT ![w] = sweep]
  BY Zenon, <1>7, <1>9 DEF RetentionTypeOK
<1>12. sweeps' \in [Sweepers -> Sweep] /\ sweeps'[w] = sweep
       /\ \A v \in Sweepers : v # w => sweeps'[v] = sweeps[v]
  BY Zenon, <1>10, <1>11 DEF RetentionTypeOK
<1>13. held' \in [Stores -> SUBSET Copies] /\ \A s \in Stores : held'[s] \subseteq held[s]
  BY <1>7, CopyOpPairs DEF RetentionTypeOK
<1>14. RetentionTypeOK'
  BY Zenon, <1>5, <1>12, <1>13 DEF RetentionTypeOK, claimOperation
<1>15. SettledRowsAreFree' /\ SettledCopiesAreGone'
  BY Zenon, <1>3, <1>5, <1>13, CopyOpPairs DEF SettledRowsAreFree, SettledCopiesAreGone
<1>16. EvidenceIsTrue'
  <2>1. e = "gone" => o[2] \notin held'[o[1]]
    BY Zenon, <1>8, CopyOpPairs DEF RetentionTypeOK
  <2>2. ASSUME NEW v \in Sweepers, v # w, sweeps'[v].at = "recording"
        PROVE  /\ sweeps'[v].op \in CopyOps
               /\ sweeps'[v].evidence = "gone" =>
                    sweeps'[v].op[2] \in Copies /\ sweeps'[v].op[2] \notin held'[sweeps'[v].op[1]]
    <3>1. sweeps[v].op \in CopyOps /\ sweeps[v].op[1] \in Stores
      BY Zenon, <1>12, <2>2, CopyOpPairs DEF EvidenceIsTrue
    <3> QED BY Zenon, <1>12, <1>13, <2>2, <3>1 DEF EvidenceIsTrue
  <2> QED BY Zenon, <1>8, <1>10, <1>12, <2>1, <2>2 DEF EvidenceIsTrue
<1>17. PlannedBeforeWork'
  BY Zenon, <1>10, <1>12 DEF PlannedBeforeWork
<1>18. ASSUME NEW t \in Stores, Visited(t)' PROVE Covered(t)'
  <2>1. Visited(t)
    BY Zenon, <1>6 DEF Visited
  <2>2. \A p \in CopyOps : copyRows[p].status # "absent" => copyRows'[p].status # "absent"
    BY Zenon, <1>3, <1>5
  <2>3. copyRows[<<t, Placeholder>>].status \notin {"absent", "complete"}
        => copyRows'[<<t, Placeholder>>].status \notin {"absent", "complete"}
    BY Zenon, <1>3, <1>5, CopyOpPairs
  <2>4. held'[t] \subseteq held[t] /\ held[t] \subseteq Copies
    BY Zenon, <1>13 DEF RetentionTypeOK
  <2> QED BY Zenon, <2>1, <2>2, <2>3, <2>4, CopyOpPairs DEF Covered, Rowed
<1> QED BY Zenon, <1>14, <1>15, <1>16, <1>17, <1>18

\* Only the worker that still holds the row writes its evidence there, and a row
\* is settled only by evidence that the copy is gone.
LEMMA EvidenceKeepsInv ==
    ASSUME RetentionInv, NEW w \in Sweepers, appendEvidence(w)
    PROVE  RetentionInv'
<1> USE DEF RetentionInv
<1>1. PICK o : o = sweeps[w].op
  BY Zenon
<1>2. PICK e : e = sweeps[w].evidence
  BY Zenon
<1>3. /\ o \in CopyOps
      /\ e = "gone" => o[2] \in Copies /\ o[2] \notin held[o[1]]
  BY Zenon, <1>1, <1>2 DEF appendEvidence, EvidenceIsTrue
<1>4. sweeps[w] \in Sweep /\ sweeps[w].at = "recording" /\ sweeps[w].todo = {}
  BY Zenon DEF appendEvidence, PlannedBeforeWork, RetentionTypeOK
<1>5. PICK late \in BOOLEAN : late = (sweeps[w].now > 0)
  <2>1. (sweeps[w].now > 0) \in BOOLEAN
    OBVIOUS
  <2> QED BY <2>1, Zenon
<1>6. copyRows[o] \in CopyRow
  BY Zenon, <1>3 DEF RetentionTypeOK
<1>7. PICK row : row =
         IF ~StillMine(w, copyRows[o]) THEN copyRows[o]
         ELSE IF e = "gone"
         THEN [copyRows[o] EXCEPT !.status = "complete", !.token = NoSweeper, !.lapsed = FALSE,
                                  !.late = late]
         ELSE [copyRows[o] EXCEPT !.status = IF e = "failed" THEN "failed" ELSE "incomplete"]
  BY Zenon
<1>8. copyRows' = [copyRows EXCEPT ![o] = row]
  BY Zenon, <1>1, <1>2, <1>5, <1>7 DEF appendEvidence
<1>9. /\ row \in CopyRow
      /\ copyRows[o].status # "leased" => row = copyRows[o]
      /\ copyRows[o].status = "leased" => row.status \in {"leased", "complete", "failed", "incomplete"}
      /\ row.status = "complete" /\ row # copyRows[o] => e = "gone" /\ row.token = NoSweeper
  <2>1. CASE ~StillMine(w, copyRows[o])
    BY Zenon, <1>6, <1>7, <2>1
  <2>2. CASE StillMine(w, copyRows[o]) /\ e = "gone"
    <3>1. row = [copyRows[o] EXCEPT !.status = "complete", !.token = NoSweeper,
                                    !.lapsed = FALSE, !.late = late]
      BY Zenon, <1>7, <2>2
    <3>2. row \in CopyRow /\ row.status = "complete" /\ row.token = NoSweeper
      BY <1>5, <1>6, <3>1, Zenon DEF CopyRow, CopyStatuses
    <3> QED BY Zenon, <2>2, <3>2 DEF StillMine
  <2>3. CASE StillMine(w, copyRows[o]) /\ e # "gone"
    <3>1. row = [copyRows[o] EXCEPT !.status = IF e = "failed" THEN "failed" ELSE "incomplete"]
      BY Zenon, <1>7, <2>3
    <3>2. row \in CopyRow /\ row.status \in {"failed", "incomplete"}
      BY Zenon, <1>6, <3>1 DEF CopyRow, CopyStatuses
    <3> QED BY Zenon, <2>3, <3>2 DEF StillMine
  <2> QED BY Zenon, <2>1, <2>2, <2>3
<1>10. copyRows' \in [CopyOps -> CopyRow] /\ copyRows'[o] = row
       /\ \A p \in CopyOps : p # o => copyRows'[p] = copyRows[p]
  BY Zenon, <1>3, <1>8, <1>9 DEF RetentionTypeOK
<1>11. PICK sweep : sweep = [sweeps[w] EXCEPT !.at = "working", !.op = NoOp, !.evidence = "none"]
  BY Zenon
<1>12. sweep \in Sweep /\ sweep.at = "working" /\ sweep.todo = {}
  BY <1>4, <1>11, Zenon DEF Sweep
<1>13. sweeps' = [sweeps EXCEPT ![w] = sweep] /\ UNCHANGED <<held, endpoint, deadline>>
  BY Zenon, <1>11 DEF appendEvidence, RetentionTypeOK
<1>14. sweeps' \in [Sweepers -> Sweep] /\ sweeps'[w] = sweep
       /\ \A v \in Sweepers : v # w => sweeps'[v] = sweeps[v]
  BY Zenon, <1>12, <1>13 DEF RetentionTypeOK
<1>15. RetentionTypeOK'
  BY Zenon, <1>10, <1>13, <1>14 DEF RetentionTypeOK
<1>16. SettledRowsAreFree'
  BY Zenon, <1>3, <1>9, <1>10 DEF SettledRowsAreFree
<1>17. SettledCopiesAreGone'
  <2> SUFFICES ASSUME NEW s \in Stores, NEW c \in Copies, copyRows'[<<s, c>>].status = "complete"
               PROVE  c \notin held[s]
    BY Zenon, <1>13 DEF SettledCopiesAreGone
  <2>1. <<s, c>> \in CopyOps
    BY Zenon, CopyOpPairs
  <2>2. CASE <<s, c>> # o \/ row = copyRows[o]
    BY Zenon, <1>10, <2>1, <2>2 DEF SettledCopiesAreGone
  <2>3. CASE <<s, c>> = o /\ row # copyRows[o]
    <3>1. e = "gone" /\ o[1] = s /\ o[2] = c
      BY Zenon, <1>9, <1>10, <2>3
    <3> QED BY Zenon, <1>3, <3>1
  <2> QED BY Zenon, <2>2, <2>3
<1>18. EvidenceIsTrue' /\ PlannedBeforeWork'
  BY Zenon, <1>12, <1>13, <1>14 DEF EvidenceIsTrue, PlannedBeforeWork
<1>19. ASSUME NEW t \in Stores, Visited(t)' PROVE Covered(t)'
  <2>1. Visited(t)
    BY Zenon, <1>4 DEF Visited
  <2>2. \A p \in CopyOps : copyRows[p].status # "absent" => copyRows'[p].status # "absent"
    BY Zenon, <1>9, <1>10
  <2>3. copyRows[<<t, Placeholder>>].status \notin {"absent", "complete"}
        => copyRows'[<<t, Placeholder>>].status \notin {"absent", "complete"}
    <3>1. CASE <<t, Placeholder>> # o
      BY Zenon, <1>10, <3>1, CopyOpPairs
    <3>2. CASE <<t, Placeholder>> = o
      <4>1. e # "gone"
        BY Zenon, <1>3, <3>2, RetentionConstants
      <4> QED BY Zenon, <1>9, <1>10, <3>2, <4>1
    <3> QED BY Zenon, <3>1, <3>2
  <2>4. held'[t] = held[t] /\ held[t] \subseteq Copies
    BY Zenon, <1>13 DEF RetentionTypeOK
  <2> QED BY Zenon, <2>1, <2>2, <2>3, <2>4, CopyOpPairs DEF Covered, Rowed
<1> QED BY Zenon, <1>15, <1>16, <1>17, <1>18, <1>19

\* The steps that write no row but a lease that lapses.
LEMMA OtherStepsKeepInv ==
    ASSUME RetentionInv,
           \/ deadlinePasses
           \/ \E s \in Stores : configure(s)
           \/ \E o \in CopyOps : copyLeaseLapses(o)
           \/ \E w \in Sweepers : startSweep(w) \/ sweepEnds(w)
           \/ UNCHANGED retentionVars
    PROVE  RetentionInv'
<1> USE DEF RetentionInv
<1>1. CASE deadlinePasses
  BY <1>1 DEF deadlinePasses, RetentionTypeOK, SettledRowsAreFree, SettledCopiesAreGone,
              EvidenceIsTrue, PlannedBeforeWork, Visited, Covered, Rowed
<1>2. ASSUME NEW s \in Stores, configure(s) PROVE RetentionInv'
  BY Zenon, <1>2 DEF configure, RetentionTypeOK, SettledRowsAreFree, SettledCopiesAreGone,
              EvidenceIsTrue, PlannedBeforeWork, Visited, Covered, Rowed
<1>3. ASSUME NEW o \in CopyOps, copyLeaseLapses(o) PROVE RetentionInv'
  <2>1. PICK row : row = [copyRows[o] EXCEPT !.lapsed = TRUE]
    BY Zenon
  <2>2. row \in CopyRow /\ row.status = copyRows[o].status /\ row.token = copyRows[o].token
    BY Zenon, <2>1 DEF RetentionTypeOK, CopyRow
  <2>3. copyRows' = [copyRows EXCEPT ![o] = row] /\ UNCHANGED <<held, endpoint, sweeps, deadline>>
    BY Zenon, <1>3, <2>1 DEF copyLeaseLapses, RetentionTypeOK
  <2>4. /\ copyRows' \in [CopyOps -> CopyRow]
        /\ \A p \in CopyOps : /\ copyRows'[p].status = copyRows[p].status
                              /\ copyRows'[p].token = copyRows[p].token
    BY Zenon, <2>2, <2>3 DEF RetentionTypeOK
  <2>5. RetentionTypeOK'
    BY Zenon, <2>3, <2>4 DEF RetentionTypeOK
  <2>6. SettledRowsAreFree' /\ SettledCopiesAreGone'
    BY <2>3, <2>4, CopyOpPairs DEF SettledRowsAreFree, SettledCopiesAreGone
  <2>7. EvidenceIsTrue' /\ PlannedBeforeWork'
    BY Zenon, <2>3 DEF EvidenceIsTrue, PlannedBeforeWork
  <2>8. ASSUME NEW t \in Stores, Visited(t)' PROVE Covered(t)'
    <3>1. Visited(t)
      BY Zenon, <2>3, <2>4, <2>8, CopyOpPairs DEF Visited
    <3>2. held'[t] = held[t] /\ held[t] \subseteq Copies
      BY Zenon, <2>3 DEF RetentionTypeOK
    <3> QED BY <2>4, <3>1, <3>2, CopyOpPairs DEF Covered, Rowed
  <2> QED BY Zenon, <2>5, <2>6, <2>7, <2>8
<1>4. ASSUME NEW w \in Sweepers, startSweep(w) \/ sweepEnds(w) PROVE RetentionInv'
  <2>1. PICK sweep \in Sweep : /\ sweeps' = [sweeps EXCEPT ![w] = sweep]
                               /\ sweep.at \in {"idle", "planning"}
                               /\ sweep.at = "planning" => sweep.todo = Stores
    <3>1. PICK s1 : s1 = [IdleSweep EXCEPT !.at = "planning", !.todo = Stores, !.now = deadline]
      BY Zenon
    <3>2. s1 \in Sweep /\ s1.at = "planning" /\ s1.todo = Stores
      BY Zenon, <3>1 DEF IdleSweep, Sweep, RetentionTypeOK
    <3>3. IdleSweep \in Sweep /\ IdleSweep.at = "idle"
      BY DEF IdleSweep, Sweep
    <3>4. sweeps' = [sweeps EXCEPT ![w] = s1] \/ sweeps' = [sweeps EXCEPT ![w] = IdleSweep]
      BY Zenon, <1>4, <3>1 DEF startSweep, sweepEnds
    <3> QED BY Zenon, <3>2, <3>3, <3>4
  <2>2. UNCHANGED <<held, endpoint, copyRows, deadline>>
    BY Zenon, <1>4 DEF startSweep, sweepEnds
  <2>3. sweeps' \in [Sweepers -> Sweep] /\ sweeps'[w] = sweep
        /\ \A v \in Sweepers : v # w => sweeps'[v] = sweeps[v]
    BY Zenon, <2>1 DEF RetentionTypeOK
  <2>4. RetentionTypeOK'
    BY Zenon, <2>2, <2>3 DEF RetentionTypeOK
  <2>5. SettledRowsAreFree' /\ SettledCopiesAreGone'
    BY Zenon, <2>2 DEF SettledRowsAreFree, SettledCopiesAreGone
  <2>6. EvidenceIsTrue' /\ PlannedBeforeWork'
    BY Zenon, <2>1, <2>2, <2>3 DEF EvidenceIsTrue, PlannedBeforeWork
  <2>7. ASSUME NEW t \in Stores, Visited(t)' PROVE Covered(t)'
    <3>1. Visited(t)
      BY Zenon, <2>1, <2>2, <2>3, <2>7 DEF Visited
    <3> QED BY Zenon, <2>2, <3>1 DEF Covered, Rowed
  <2> QED BY Zenon, <2>4, <2>5, <2>6, <2>7
<1>5. CASE UNCHANGED retentionVars
  BY Zenon, <1>5 DEF retentionVars, RetentionTypeOK, SettledRowsAreFree, SettledCopiesAreGone,
              EvidenceIsTrue, PlannedBeforeWork, Visited, Covered, Rowed
<1> QED BY Zenon, <1>1, <1>2, <1>3, <1>4, <1>5

\* Every step of the sweeps, of the stores and of the clock keeps the invariant.
LEMMA NextKeepsRetentionInv == RetentionInv /\ [RetentionNext]_retentionVars => RetentionInv'
<1> SUFFICES ASSUME RetentionInv, [RetentionNext]_retentionVars PROVE RetentionInv'
  BY Zenon
<1>1. ASSUME NEW w \in Sweepers, NEW s \in Stores, plan(w, s) \/ planStops(w, s)
      PROVE  RetentionInv'
  BY Zenon, <1>1, PlanKeepsInv, StoppedPlanKeepsInv
<1>2. ASSUME NEW w \in Sweepers, NEW o \in CopyOps, claimOperation(w, o) PROVE RetentionInv'
  BY Zenon, <1>2, ClaimKeepsInv
<1>3. ASSUME NEW w \in Sweepers, appendEvidence(w) PROVE RetentionInv'
  BY Zenon, <1>3, EvidenceKeepsInv
<1> QED BY <1>1, <1>2, <1>3, OtherStepsKeepInv, Zenon DEF RetentionNext

\* The rows, the sweeps and the stores keep their shape, a settled row has no
\* lease, and evidence is true at the moment it is written (worker/retention).
THEOREM RetentionInvariance == RetentionSpec => []RetentionInv
<1> QED BY InitRetentionInv, NextKeepsRetentionInv, PTL DEF RetentionSpec

\* When the rows of a removal say it is complete, no store holds a copy any
\* more, for any number of stores, copies and overlapping sweeps
\* (evaluateControlledCopyCompletion).
THEOREM CompletionAlwaysMeansGone == RetentionSpec => []CompletionMeansGone
<1>1. RetentionInv => CompletionMeansGone
  <2> SUFFICES ASSUME RetentionInv, NEW s \in Stores, StoreComplete(s), NEW c \in held[s]
               PROVE  FALSE
    BY Zenon DEF CompletionMeansGone
  <2>1. c \in Copies
    BY Zenon DEF RetentionInv, RetentionTypeOK
  <2>2. \A d \in Copies \cup {Placeholder} : copyRows[<<s, d>>].status \in {"absent", "complete"}
    BY Zenon, CopyOpPairs DEF StoreComplete
  <2>3. PICK o \in CopyOps : o[1] = s /\ copyRows[o].status = "complete"
    BY Zenon DEF StoreComplete
  <2>4. Visited(s)
    BY Zenon, <2>3, CopyOpPairs DEF Visited
  <2>5. Rowed(s)
    BY <2>2, <2>4, Zenon DEF RetentionInv, Covered
  <2>6. copyRows[<<s, c>>].status = "complete"
    BY Zenon, <2>1, <2>2, <2>5 DEF Rowed
  <2> QED BY Zenon, <2>1, <2>6 DEF RetentionInv, SettledCopiesAreGone
<1> QED BY <1>1, RetentionInvariance, PTL

\* A settled row is never written again, by no plan, no claim and no worker
\* whose lease was taken over (claimOperation, appendEvidence).
THEOREM SettledForGood == RetentionSpec => SettledCopiesStaySettled
<1>1. RetentionInv /\ [RetentionNext]_retentionVars =>
        [\A o \in CopyOps : copyRows[o].status = "complete" => copyRows'[o] = copyRows[o]]_copyRows
  <2> SUFFICES ASSUME RetentionInv, [RetentionNext]_retentionVars, copyRows' # copyRows,
                      NEW p \in CopyOps, copyRows[p].status = "complete"
               PROVE  copyRows'[p] = copyRows[p]
    BY Zenon
  <2>0. RetentionTypeOK /\ copyRows[p].token = NoSweeper /\ p[1] \in Stores
    BY Zenon, CopyOpPairs DEF RetentionInv, SettledRowsAreFree
  <2>1. ASSUME NEW w \in Sweepers, NEW s \in Stores, plan(w, s) PROVE copyRows'[p] = copyRows[p]
    <3>1. PICK result \in Inventories(s) :
            copyRows' = [o \in CopyOps |->
                 IF o = <<s, Placeholder>> THEN PlannedPlaceholder(s, result)
                 ELSE IF o[1] = s /\ o[2] \in result.copies THEN insertOrReadOperation(s, copyRows[o])
                 ELSE copyRows[o]]
      BY Zenon, <2>1 DEF plan
    <3>2. result.complete \in BOOLEAN
      BY Zenon, <2>0, InventoryAnswers
    <3>3. CASE p = <<s, Placeholder>>
      <4>1. copyRows'[p] = PlannedPlaceholder(s, result)
        BY Zenon, <3>1, <3>3
      <4>2. PICK old, new : old = copyRows[<<s, Placeholder>>] /\ new = PlannedPlaceholder(s, result)
        BY Zenon
      <4>3. old.status = "complete" => new = old
        BY <2>0, <3>2, <3>3, <4>2, PlaceholderAfterPlan
      <4> QED BY Zenon, <3>3, <4>1, <4>2, <4>3
    <3>4. CASE p # <<s, Placeholder>>
      <4>1. copyRows'[p] = copyRows[p] \/ copyRows'[p] = insertOrReadOperation(s, copyRows[p])
        BY Zenon, <3>1, <3>4
      <4> QED BY Zenon, <4>1 DEF insertOrReadOperation
    <3> QED BY Zenon, <3>3, <3>4
  <2>2. ASSUME NEW w \in Sweepers, NEW s \in Stores, planStops(w, s)
        PROVE  copyRows'[p] = copyRows[p]
    BY Zenon, <2>2 DEF planStops, insertOrReadOperation
  <2>3. ASSUME NEW w \in Sweepers, NEW o \in CopyOps, claimOperation(w, o)
        PROVE  copyRows'[p] = copyRows[p]
    BY Zenon, <2>0, <2>3 DEF claimOperation, Claimable, OpenCopy, RetentionTypeOK
  <2>4. ASSUME NEW w \in Sweepers, appendEvidence(w) PROVE copyRows'[p] = copyRows[p]
    <3>1. ~StillMine(w, copyRows[p])
      BY Zenon DEF StillMine
    <3> QED BY Zenon, <2>0, <2>4, <3>1 DEF appendEvidence, RetentionTypeOK
  <2>5. ASSUME NEW o \in CopyOps, copyLeaseLapses(o) PROVE copyRows'[p] = copyRows[p]
    BY Zenon, <2>0, <2>5 DEF copyLeaseLapses, LeaseActive, RetentionTypeOK
  <2>6. CASE UNCHANGED copyRows
    BY Zenon, <2>6
  <2> QED BY Zenon, <2>1, <2>2, <2>3, <2>4, <2>5, <2>6
          DEF RetentionNext, retentionVars, deadlinePasses, configure, startSweep, sweepEnds
<1> QED BY <1>1, RetentionInvariance, PTL DEF RetentionSpec, SettledCopiesStaySettled
=============================================================================
