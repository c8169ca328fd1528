--------------------------- MODULE LifecycleProofs ---------------------------
(***************************************************************************)
(* Proofs about what is taken apart step by step, with requests that fail  *)
(* and die on the way: the archive objects of removed content, and the     *)
(* connections of an account.                                              *)
(*                                                                         *)
(* ArchivePurge keeps its types and loses no retained item, for every set  *)
(* of batches, removals and workers, every content, every lease, window    *)
(* and number of faults.  NoRetainedItemLost is not inductive: when a      *)
(* worker hides a batch, the replacement it validated may itself have been *)
(* replaced and hidden since by another removal.  Covered strengthens it:  *)
(* what a batch kept is readable in a batch that is at least as many       *)
(* replacements deep.  Hiding k then leaves the cover of its replacement   *)
(* untouched, since that is deeper than k.                                 *)
(*                                                                         *)
(* Linking, for any sessions, relinks, disconnects and logins, and any     *)
(* number of requests and failures: an account is attached once and never  *)
(* by a session that ended otherwise, an operation under way owns its      *)
(* connection, and a late answer changes nothing.                          *)
(***************************************************************************)
EXTENDS ArchivePurge, Linking, TLAPS

-----------------------------------------------------------------------------
(* The purge *)

\* Where processObject holds a row.
RowPCs == {"recover", "put_data", "put_manifest", "record_replacement", "validate",
           "delete_manifest", "record_manifest", "delete_data", "record_data", "fail"}

\* Where the replacement of the row in hand has been written.
HidePCs == {"record_replacement", "delete_manifest", "record_manifest",
            "delete_data", "record_data"}

Safe(k, r, c) == Retained(k, r) = {} \/ ReplacementKey(k, r) \in c

Good(m) ==
    /\ m.pc # "idle" => m.r \in recorded
    /\ m.pc \in RowPCs => m.key \in DOMAIN objs[m.r]
    /\ \A x \in m.todo : m.r \in Removals /\ x[1] \in DOMAIN objs[m.r]
    /\ m.pc \in HidePCs => Safe(m.key, m.r, committed)

WorkersGood == \A w \in Workers : Good(worker[w])

OpsRecorded == \A r \in Removals : ops[r].status # "none" => r \in recorded

ReadableCommitted == DOMAIN manifests \cap data \subseteq committed

Unremoved(i) == \A r \in recorded : i \notin Matches[r]

CoverOf(k, i) == \E x \in DOMAIN manifests : /\ x \in data /\ i \in ItemsOf(x)
                                             /\ Len(x.by) >= Len(k.by)

Covered == \A k \in committed : \A i \in ItemsOf(k) : Unremoved(i) => CoverOf(k, i)

\* The inductive invariant.
IInv == TypeOK /\ WorkersGood /\ OpsRecorded /\ ReadableCommitted /\ Covered

-----------------------------------------------------------------------------
(* Keys and coverage.                                                       *)

\* replacementBatchId: one more removal, one level deeper.
LEMMA ReplacementIsDeeper ==
    ASSUME NEW k \in Keys, NEW r \in Removals
    PROVE  /\ ReplacementKey(k, r) \in Keys
           /\ Len(ReplacementKey(k, r).by) = Len(k.by) + 1
           /\ ItemsOf(ReplacementKey(k, r)) = Retained(k, r)
<1> DEFINE n == ReplacementKey(k, r)
<1>1. n = [batch |-> k.batch, by |-> Append(k.by, r)]
  BY DEF ReplacementKey, Keys
<1>2. k.by \in Seq(Removals) /\ k.batch \in Batches
  BY Zenon DEF Keys
<1>3. n \in Keys
  BY <1>1, <1>2 DEF Keys
<1>4. Len(n.by) = Len(k.by) + 1
  BY <1>1, <1>2
<1>5. DOMAIN n.by = 1..(Len(k.by) + 1) /\ DOMAIN k.by = 1..Len(k.by) /\ Len(k.by) \in Nat
  BY <1>1, <1>2
<1>6. \A i \in 1..Len(k.by) : n.by[i] = k.by[i]
  BY <1>1, <1>2
<1>7. n.by[Len(k.by) + 1] = r
  BY <1>1, <1>2
<1>8. \A y : (\E i \in DOMAIN n.by : y \in Matches[n.by[i]])
             <=> (\E i \in DOMAIN k.by : y \in Matches[k.by[i]]) \/ y \in Matches[r]
  <2>1. ASSUME NEW y, NEW i \in DOMAIN n.by, y \in Matches[n.by[i]]
        PROVE  (\E j \in DOMAIN k.by : y \in Matches[k.by[j]]) \/ y \in Matches[r]
    <3>1. i \in 1..Len(k.by) \/ i = Len(k.by) + 1
      BY <1>5
    <3>. QED  BY Zenon, <3>1, <2>1, <1>5, <1>6, <1>7
  <2>2. ASSUME NEW y, NEW i \in DOMAIN k.by, y \in Matches[k.by[i]]
        PROVE  \E j \in DOMAIN n.by : y \in Matches[n.by[j]]
    BY <2>2, <1>5, <1>6
  <2>3. ASSUME NEW y, y \in Matches[r]
        PROVE  \E j \in DOMAIN n.by : y \in Matches[n.by[j]]
    <3>1. Len(k.by) + 1 \in DOMAIN n.by
      BY <1>5
    <3>. QED  BY Zenon, <3>1, <2>3, <1>7
  <2>. QED  BY Zenon, <2>1, <2>2, <2>3
<1>9. n.batch = k.batch
  BY <1>1
<1>10. ItemsOf(n) = ItemsOf(k) \ Matches[r]
  <2>1. ASSUME NEW y PROVE y \in ItemsOf(n) <=> y \in ItemsOf(k) \ Matches[r]
    BY <1>8, <1>9 DEF ItemsOf
  <2>. QED  BY Zenon, <2>1
<1>. QED  BY Zenon, <1>3, <1>4, <1>10 DEF Retained

\* Nothing that still covers an item is lost by a step that keeps every batch
\* readable and adds only readable batches.
LEMMA CoveredGrows ==
    ASSUME TypeOK, Covered, recorded \subseteq recorded',
           DOMAIN manifests \subseteq DOMAIN manifests', data \subseteq data',
           committed' \subseteq committed \cup (DOMAIN manifests' \cap data'),
           committed' \subseteq Keys
    PROVE  Covered'
<1> SUFFICES ASSUME NEW k \in committed', NEW i \in ItemsOf(k), Unremoved(i)'
             PROVE  CoverOf(k, i)'
  BY Zenon DEF Covered, ItemsOf
<1>1. Len(k.by) \in Nat
  BY DEF Keys
<1>2. CASE k \in committed
  <2>1. Unremoved(i)
    BY Zenon DEF Unremoved
  <2>2. CoverOf(k, i)
    BY Zenon, <1>2, <2>1 DEF Covered
  <2>. QED  BY Zenon, <2>2 DEF CoverOf, ItemsOf
<1>3. CASE k \in DOMAIN manifests' \cap data'
  BY <1>1, <1>3 DEF CoverOf, ItemsOf
<1>. QED  BY Zenon, <1>2, <1>3

\* Hiding a batch whose replacement was written, or taking away its data, loses
\* nothing: the cover of the replacement is deeper than the batch.
LEMMA CoveredWithout ==
    ASSUME TypeOK, Covered, NEW h \in Keys, NEW r \in Removals, r \in recorded,
           Safe(h, r, committed), UNCHANGED <<recorded, committed>>,
           \A x \in DOMAIN manifests : x \in data /\ x # h => x \in DOMAIN manifests' /\ x \in data'
    PROVE  Covered'
<1> SUFFICES ASSUME NEW k \in committed, NEW i \in ItemsOf(k), Unremoved(i)
             PROVE  CoverOf(k, i)'
  BY Zenon DEF Covered, ItemsOf, Unremoved
<1>1. PICK x \in DOMAIN manifests : x \in data /\ i \in ItemsOf(x) /\ Len(x.by) >= Len(k.by)
  BY Zenon DEF Covered, CoverOf
<1>2. CASE x # h
  <2>1. x \in DOMAIN manifests' /\ x \in data'
    BY Zenon, <1>1, <1>2
  <2>. QED  BY Zenon, <1>1, <2>1 DEF CoverOf, ItemsOf
<1>3. CASE x = h
  <2> DEFINE n == ReplacementKey(h, r)
  <2>1. n \in Keys /\ Len(n.by) = Len(h.by) + 1 /\ ItemsOf(n) = Retained(h, r)
    BY Zenon, ReplacementIsDeeper
  <2>2. i \in Retained(h, r)
    BY Zenon, <1>1, <1>3 DEF Retained, Unremoved
  <2>3. n \in committed
    BY Zenon, <2>2 DEF Safe
  <2>4. i \in ItemsOf(n)
    BY Zenon, <2>1, <2>2
  <2>5. CoverOf(n, i)
    BY Zenon, <2>3, <2>4 DEF Covered
  <2> HIDE DEF n
  <2>6. PICK y \in DOMAIN manifests : y \in data /\ i \in ItemsOf(y) /\ Len(y.by) >= Len(n.by)
    BY Zenon, <2>5 DEF CoverOf
  <2>7. Len(h.by) \in Nat /\ Len(k.by) \in Nat /\ Len(y.by) \in Nat /\ Len(n.by) \in Nat
    BY <2>1 DEF Keys, TypeOK
  <2>8. y # h /\ Len(y.by) >= Len(k.by)
    BY <2>1, <2>6, <2>7, <1>1, <1>3
  <2>9. y \in DOMAIN manifests' /\ y \in data'
    BY Zenon, <2>6, <2>8
  <2>. QED  BY Zenon, <2>6, <2>8, <2>9 DEF CoverOf, ItemsOf
<1>. QED  BY Zenon, <1>2, <1>3
-----------------------------------------------------------------------------
(* Steps of a worker.                                                       *)

\* A step that changes one worker keeps the others good, and their types, while
\* the authority, the history and the lineage rows only grow.
LEMMA OneWorkerMoves ==
    ASSUME TypeOK, WorkersGood, NEW w \in Workers, NEW m \in Worker,
           worker' = [worker EXCEPT ![w] = m],
           recorded \subseteq recorded', committed \subseteq committed',
           \A r \in Removals : DOMAIN objs[r] \subseteq DOMAIN objs'[r],
           Good(m)'
    PROVE  worker' \in [Workers -> Worker] /\ WorkersGood'
<1>1. worker' \in [Workers -> Worker]
  BY Zenon DEF TypeOK
<1>2. ASSUME NEW v \in Workers PROVE Good(worker[v])'
  <2>1. CASE v = w
    <3>1. worker'[v] = m
      BY Zenon, <2>1 DEF TypeOK
    <3>. QED  BY <3>1, Zenon DEF Good, Safe, Retained, ItemsOf, ReplacementKey
  <2>2. CASE v # w
    <3>1. worker'[v] = worker[v] /\ worker[v] \in Worker
      BY Zenon, <2>2 DEF TypeOK
    <3>2. PICK n \in Worker : n = worker[v]
      BY Zenon, <3>1
    <3>3. Good(n)
      BY Zenon, <3>2 DEF WorkersGood
    <3>4. n.pc # "idle" => n.r \in recorded'
      BY Zenon, <3>3 DEF Good
    <3>5. \A x \in n.todo : n.r \in Removals /\ x[1] \in DOMAIN objs'[n.r]
      BY Zenon, <3>3 DEF Good
    <3>6. n.pc \in RowPCs => n.key \in DOMAIN objs'[n.r]
      <4>1. n.pc \in RowPCs => n.pc # "idle"
        BY Zenon DEF RowPCs
      <4>. QED  BY Zenon, <3>3, <4>1 DEF Good, TypeOK
    <3>7. n.pc \in HidePCs => Safe(n.key, n.r, committed')
      BY Zenon, <3>3 DEF Good, Safe, Retained, ItemsOf, ReplacementKey
    <3>. QED  BY Zenon, <3>1, <3>2, <3>4, <3>5, <3>6, <3>7 DEF Good
  <2>. QED  BY Zenon, <2>1, <2>2
<1>. QED  BY Zenon, <1>1, <1>2 DEF WorkersGood

\* A worker that moves on with what it holds.
LEMMA WorkerGoes ==
    ASSUME TypeOK, WorkersGood, NEW w \in Workers, NEW p \in PCs, Goto(w, p),
           worker[w].pc # "idle" \/ p = "idle",
           p \in RowPCs => worker[w].pc \in RowPCs,
           p \in HidePCs => Safe(worker[w].key, worker[w].r, committed'),
           UNCHANGED <<recorded, objs>>, committed \subseteq committed'
    PROVE  worker' \in [Workers -> Worker] /\ WorkersGood'
<1>0. worker[w] \in Worker
  BY Zenon DEF TypeOK
<1>1. PICK m \in Worker : m = [worker[w] EXCEPT !.pc = p]
  BY <1>0, Zenon DEF Worker
<1>2. worker' = [worker EXCEPT ![w] = m]
  BY Zenon, <1>1 DEF Goto
<1>3. m.pc = p /\ m.r = worker[w].r /\ m.key = worker[w].key /\ m.todo = worker[w].todo
  BY Zenon, <1>0, <1>1 DEF Worker
<1>4. Good(worker[w])
  BY Zenon DEF WorkersGood
<1>5. Good(m)'
  <2>1. m.pc # "idle" => m.r \in recorded'
    BY Zenon, <1>3, <1>4 DEF Good
  <2>2. m.pc \in RowPCs => m.key \in DOMAIN objs'[m.r]
    BY Zenon, <1>3, <1>4 DEF Good
  <2>3. \A x \in m.todo : m.r \in Removals /\ x[1] \in DOMAIN objs'[m.r]
    BY Zenon, <1>3, <1>4 DEF Good
  <2>4. m.pc \in HidePCs => Safe(m.key, m.r, committed')
    BY Zenon, <1>3
  <2>. QED  BY Zenon, <2>1, <2>2, <2>3, <2>4 DEF Good
<1>. QED  BY <1>1, <1>2, <1>5, OneWorkerMoves, Zenon

\* An idle execution is well typed.
LEMMA IdleIsWorker == IdleWorker \in Worker
<1>1. AnyBatch \in Batches
  BY Zenon, PurgeConstants DEF AnyBatch
<1>2. Original(AnyBatch) \in Keys
  BY <1>1 DEF Original, Keys
<1>3. PlannedRow \in Rows
  BY Zenon DEF PlannedRow, Rows, RowStates
<1>. QED  BY Zenon, <1>2, <1>3 DEF IdleWorker, Worker, PCs

\* An execution that ends, or dies.
LEMMA WorkerEnds ==
    ASSUME TypeOK, WorkersGood, NEW w \in Workers,
           worker' = [worker EXCEPT ![w] = IdleWorker],
           UNCHANGED <<recorded, objs>>, committed \subseteq committed'
    PROVE  worker' \in [Workers -> Worker] /\ WorkersGood'
<1>1. IdleWorker \in Worker
  BY Zenon, IdleIsWorker
<1>2. Good(IdleWorker)'
  BY Zenon DEF Good, IdleWorker, RowPCs, HidePCs
<1>. QED  BY <1>1, <1>2, OneWorkerMoves, Zenon
-----------------------------------------------------------------------------
(* Steps that leave the archive alone.                                      *)

OpsType == [Removals -> [status : OpStates, deadline : Nat]]
LockType == [holder : Workers \cup {"nobody"}, expires : Nat]
ObjsOK == /\ objs = [r \in Removals |-> objs[r]]
          /\ \A r \in Removals : /\ DOMAIN objs[r] \subseteq Keys
                                 /\ objs[r] \in [DOMAIN objs[r] -> Rows]

\* The parts of TypeOK, for the steps that need one of them.
LEMMA TypeParts ==
    ASSUME TypeOK
    PROVE  /\ clock \in Nat /\ faults \in Nat /\ ops \in OpsType /\ lock \in LockType
           /\ ObjsOK /\ worker \in [Workers -> Worker]
BY Zenon DEF TypeOK, OpsType, LockType, ObjsOK

\* A step on the D1 tables and the workers.
LEMMA QuietStep ==
    ASSUME IInv, worker' \in [Workers -> Worker], WorkersGood',
           UNCHANGED <<committed, manifests, data>>,
           recorded \subseteq recorded', recorded' \subseteq Removals,
           clock' \in Nat, faults' \in Nat, ops' \in OpsType, OpsRecorded',
           lock' \in LockType, ObjsOK', arriving' \subseteq Batches
    PROVE  IInv'
<1>1. TypeOK'
  BY Zenon DEF IInv, TypeOK, OpsType, LockType, ObjsOK
<1>2. ReadableCommitted'
  BY Zenon DEF IInv, ReadableCommitted
<1>3. Covered'
  BY Zenon, CoveredGrows DEF IInv, TypeOK
<1>. QED  BY Zenon, <1>1, <1>2, <1>3 DEF IInv

\* A worker that only moves on.
LEMMA QuietGoto ==
    ASSUME IInv, NEW w \in Workers, NEW p \in PCs, Goto(w, p),
           worker[w].pc # "idle",
           p \in RowPCs => worker[w].pc \in RowPCs,
           p \in HidePCs => Safe(worker[w].key, worker[w].r, committed),
           UNCHANGED <<clock, committed, recorded, manifests, data, objs, arriving, faults>>,
           ops' \in OpsType, OpsRecorded', lock' \in LockType
    PROVE  IInv'
<1>1. worker' \in [Workers -> Worker] /\ WorkersGood'
  BY Zenon, WorkerGoes DEF IInv
<1>2. ObjsOK'
  BY Zenon, TypeParts DEF IInv, ObjsOK
<1>3. clock' \in Nat /\ faults' \in Nat /\ recorded' \subseteq Removals /\ arriving' \subseteq Batches
  BY Zenon DEF IInv, TypeOK
<1>. QED  BY Zenon, <1>1, <1>2, <1>3, QuietStep

\* A worker that ends.
LEMMA QuietEnd ==
    ASSUME IInv, NEW w \in Workers, worker' = [worker EXCEPT ![w] = IdleWorker],
           UNCHANGED <<clock, committed, recorded, manifests, data, objs, arriving>>,
           faults' \in Nat, ops' \in OpsType, OpsRecorded', lock' \in LockType
    PROVE  IInv'
<1>1. worker' \in [Workers -> Worker] /\ WorkersGood'
  BY WorkerEnds, Zenon DEF IInv
<1>2. ObjsOK'
  BY Zenon, TypeParts DEF IInv, ObjsOK
<1>3. clock' \in Nat /\ recorded' \subseteq Removals /\ arriving' \subseteq Batches
  BY Zenon DEF IInv, TypeOK
<1>. QED  BY Zenon, <1>1, <1>2, <1>3, QuietStep

\* An operation whose worker writes a status belongs to a recorded removal.
LEMMA StatusWritten ==
    ASSUME IInv, NEW w \in Workers, worker[w].pc # "idle", NEW s \in OpStates,
           ops' = [ops EXCEPT ![worker[w].r].status = s], UNCHANGED recorded
    PROVE  ops' \in OpsType /\ OpsRecorded'
<1>1. worker[w].r \in recorded
  BY Zenon DEF IInv, WorkersGood, Good
<1>2. PICK q : q = worker[w].r
  BY Zenon
<1>3. q \in recorded /\ q \in Removals
  BY Zenon, <1>1, <1>2 DEF IInv, TypeOK
<1>4. ops \in OpsType /\ OpsRecorded
  BY Zenon, TypeParts DEF IInv
<1>5. ops' = [ops EXCEPT ![q].status = s]
  BY Zenon, <1>2
<1>6. ops' \in OpsType
  BY ZenonT(60), <1>3, <1>4, <1>5 DEF OpsType
<1>7. OpsRecorded'
  BY Zenon, <1>3, <1>4, <1>5 DEF OpsRecorded, OpsType
<1>. QED  BY Zenon, <1>6, <1>7

\* updateObject writes a row of the operation the worker carries out.
LEMMA RowWritten ==
    ASSUME IInv, NEW w \in Workers, worker[w].pc \in RowPCs,
           NEW row \in Rows, NEW p \in PCs, NEW done \in SUBSET RowStates,
           p \in HidePCs => Safe(worker[w].key, worker[w].r, committed),
           p # "idle", UpdateObject(w, row, p, done)
    PROVE  IInv'
<1>1. worker[w] \in Worker /\ Good(worker[w])
  BY Zenon DEF IInv, TypeOK, WorkersGood
<1>2. PICK q, k : q = worker[w].r /\ k = worker[w].key
  BY Zenon
<1>3. q \in recorded /\ q \in Removals /\ k \in DOMAIN objs[q] /\ k \in Keys
  <2>1. worker[w].pc # "idle"
    BY Zenon DEF RowPCs
  <2>2. q \in recorded
    BY Zenon, <1>1, <1>2, <2>1 DEF Good
  <2>3. k \in DOMAIN objs[q]
    BY Zenon, <1>1, <1>2 DEF Good
  <2>4. k \in Keys
    BY Zenon, <1>1, <1>2 DEF Worker
  <2>. QED  BY Zenon, <2>2, <2>3, <2>4 DEF IInv, TypeOK
<1>4. objs' = [objs EXCEPT ![q][k] = row]
  BY Zenon, <1>2 DEF UpdateObject
<1>5. ObjsOK
  BY Zenon, TypeParts DEF IInv
<1>6. \A r \in Removals : objs'[r] = IF r = q THEN [objs[q] EXCEPT ![k] = row] ELSE objs[r]
  BY Zenon, <1>4, <1>5, <1>3 DEF ObjsOK
<1>7. \A r \in Removals : DOMAIN objs'[r] = DOMAIN objs[r]
  BY Zenon, <1>6
<1>8. ObjsOK'
  <2>1. objs' = [r \in Removals |-> objs'[r]]
    BY <1>4, <1>5, Zenon DEF ObjsOK
  <2>2. ASSUME NEW r \in Removals PROVE objs'[r] \in [DOMAIN objs'[r] -> Rows]
    BY <1>5, <1>6, <1>3 DEF ObjsOK
  <2>3. ASSUME NEW r \in Removals PROVE DOMAIN objs'[r] \subseteq Keys
    BY Zenon, <1>5, <1>7 DEF ObjsOK
  <2>. QED  BY Zenon, <2>1, <2>2, <2>3 DEF ObjsOK
<1>9. PICK m \in Worker : m = [worker[w] EXCEPT !.row = row, !.pc = p, !.done = @ \cup done]
  BY <1>1, Zenon DEF Worker
<1>10. worker' = [worker EXCEPT ![w] = m]
  BY Zenon, <1>9 DEF UpdateObject
<1>11. m.pc = p /\ m.r = q /\ m.key = k /\ m.todo = worker[w].todo
  BY Zenon, <1>1, <1>2, <1>9 DEF Worker
<1>12. UNCHANGED <<clock, committed, recorded, manifests, data, ops, lock, arriving, faults>>
  BY Zenon DEF UpdateObject
<1>13. Good(m)'
  <2>1. m.pc # "idle" => m.r \in recorded'
    BY Zenon, <1>3, <1>11, <1>12
  <2>2. m.pc \in RowPCs => m.key \in DOMAIN objs'[m.r]
    BY Zenon, <1>3, <1>7, <1>11
  <2>3. \A x \in m.todo : m.r \in Removals /\ x[1] \in DOMAIN objs'[m.r]
    BY Zenon, <1>1, <1>2, <1>3, <1>7, <1>11 DEF Good
  <2>4. m.pc \in HidePCs => Safe(m.key, m.r, committed')
    BY Zenon, <1>2, <1>11, <1>12
  <2>. QED  BY Zenon, <2>1, <2>2, <2>3, <2>4 DEF Good
<1>14. worker' \in [Workers -> Worker] /\ WorkersGood'
  BY <1>7, <1>9, <1>10, <1>12, <1>13, OneWorkerMoves, Zenon DEF IInv
<1>15. OpsRecorded'
  BY Zenon, <1>12 DEF IInv, OpsRecorded
<1>16. clock' \in Nat /\ faults' \in Nat /\ ops' \in OpsType /\ lock' \in LockType
  BY Zenon, <1>12, TypeParts DEF IInv
<1>17. recorded' \subseteq Removals /\ arriving' \subseteq Batches
  BY Zenon, <1>12 DEF IInv, TypeOK
<1>. QED  BY Zenon, <1>8, <1>12, <1>14, <1>15, <1>16, <1>17, QuietStep
-----------------------------------------------------------------------------
(* Steps on the archive.                                                    *)

\* Objects are put.
LEMMA PutStep ==
    ASSUME IInv, worker' \in [Workers -> Worker], WorkersGood',
           DOMAIN manifests \subseteq DOMAIN manifests', DOMAIN manifests' \subseteq Keys,
           manifests' \in [DOMAIN manifests' -> Nat],
           data \subseteq data', data' \subseteq Keys, NoteReadable,
           UNCHANGED <<clock, recorded, ops, objs, lock>>, faults' \in Nat,
           arriving' \subseteq Batches
    PROVE  IInv'
<1>1. committed' \subseteq Keys /\ committed \subseteq committed'
  BY Zenon DEF IInv, TypeOK, NoteReadable
<1>2. TypeOK'
  BY Zenon, <1>1 DEF IInv, TypeOK
<1>3. ReadableCommitted'
  BY Zenon DEF ReadableCommitted, NoteReadable
<1>4. Covered'
  BY Zenon, <1>1, CoveredGrows DEF IInv, NoteReadable
<1>5. OpsRecorded'
  BY Zenon DEF IInv, OpsRecorded
<1>. QED  BY Zenon, <1>2, <1>3, <1>4, <1>5 DEF IInv

\* An object of a batch that was replaced is taken away, or nothing is.
LEMMA HideStep ==
    ASSUME IInv, worker' \in [Workers -> Worker], WorkersGood',
           NEW h \in Keys, NEW r \in Removals, r \in recorded, Safe(h, r, committed),
           DOMAIN manifests' \subseteq DOMAIN manifests,
           manifests' \in [DOMAIN manifests' -> Nat], data' \subseteq data,
           \A x \in DOMAIN manifests :
              x \in data /\ x # h => x \in DOMAIN manifests' /\ x \in data',
           UNCHANGED <<clock, committed, recorded, ops, objs, lock, arriving>>, faults' \in Nat
    PROVE  IInv'
<1>1. TypeOK'
  BY Zenon DEF IInv, TypeOK
<1>2. ReadableCommitted'
  BY Zenon DEF IInv, ReadableCommitted
<1>3. Covered'
  BY Zenon, CoveredWithout DEF IInv
<1>4. OpsRecorded'
  BY Zenon DEF IInv, OpsRecorded
<1>. QED  BY Zenon, <1>1, <1>2, <1>3, <1>4 DEF IInv

\* What a put and a deletion do to the manifests.
LEMMA ManifestPut ==
    ASSUME TypeOK, NEW k \in Keys, NEW t \in Nat
    PROVE  /\ DOMAIN WithManifest(k, t) = DOMAIN manifests \cup {k}
           /\ WithManifest(k, t) \in [DOMAIN WithManifest(k, t) -> Nat]
           /\ DOMAIN WithManifest(k, t) \subseteq Keys
<1>1. CASE k \in DOMAIN manifests
  BY ZenonT(60), <1>1 DEF WithManifest, TypeOK
<1>2. CASE k \notin DOMAIN manifests
  BY Zenon, <1>2 DEF WithManifest, TypeOK
<1>. QED  BY Zenon, <1>1, <1>2

\* A deletion takes one manifest away.
LEMMA ManifestGone ==
    ASSUME TypeOK, NEW k
    PROVE  /\ DOMAIN Restrict(manifests, DOMAIN manifests \ {k}) = DOMAIN manifests \ {k}
           /\ Restrict(manifests, DOMAIN manifests \ {k})
                \in [DOMAIN manifests \ {k} -> Nat]
BY Zenon DEF Restrict, TypeOK

\* The facts about the worker that every archive step starts from.
LEMMA RowInHand ==
    ASSUME IInv, NEW w \in Workers, worker[w].pc \in RowPCs
    PROVE  /\ worker[w].r \in recorded /\ worker[w].r \in Removals
           /\ worker[w].key \in Keys /\ worker[w].key \in DOMAIN objs[worker[w].r]
           /\ worker[w].now \in Nat /\ worker[w].pc # "idle"
           /\ Stored(w) \in Rows /\ worker[w] \in Worker
           /\ ReplacementKey(worker[w].key, worker[w].r) \in Keys
<1>1. worker[w] \in Worker /\ Good(worker[w])
  BY Zenon DEF IInv, TypeOK, WorkersGood
<1>2. worker[w].pc # "idle"
  BY Zenon DEF RowPCs
<1>3. worker[w].r \in recorded /\ worker[w].r \in Removals
  BY Zenon, <1>1, <1>2 DEF Good, IInv, TypeOK
<1>4. worker[w].key \in Keys /\ worker[w].now \in Nat
  BY Zenon, <1>1 DEF Worker
<1>5. worker[w].key \in DOMAIN objs[worker[w].r]
  BY Zenon, <1>1 DEF Good
<1>6. Stored(w) \in Rows
  BY <1>3, <1>5 DEF Stored, IInv, TypeOK
<1>. QED  BY Zenon, <1>1, <1>2, <1>3, <1>4, <1>5, <1>6, ReplacementIsDeeper
-----------------------------------------------------------------------------
(* The archive actions.                                                     *)

\* The data object of a replacement is put.
LEMMA PutDataPreserves ==
    ASSUME IInv, NEW w \in Workers, PutReplacementData(w)
    PROVE  IInv'
<1>1. worker[w].pc \in RowPCs
  BY Zenon DEF PutReplacementData, At, RowPCs
<1>2. ReplacementKey(worker[w].key, worker[w].r) \in Keys /\ worker[w].pc # "idle"
  BY Zenon, <1>1, RowInHand
<1>3. committed \subseteq committed' /\ UNCHANGED <<recorded, objs>>
  BY Zenon DEF PutReplacementData, NoteReadable
<1>4. worker' \in [Workers -> Worker] /\ WorkersGood'
  <2>1. Goto(w, "put_manifest") /\ "put_manifest" \in PCs /\ "put_manifest" \notin HidePCs
    BY Zenon DEF PutReplacementData, PCs, HidePCs
  <2>. QED  BY Zenon, <1>1, <1>2, <1>3, <2>1, WorkerGoes DEF IInv
<1>5. data \subseteq data' /\ data' \subseteq Keys
  BY Zenon, <1>2 DEF PutReplacementData, IInv, TypeOK
<1>6. UNCHANGED <<clock, recorded, ops, objs, lock, manifests, arriving, faults>> /\ NoteReadable
  BY Zenon DEF PutReplacementData
<1>. QED  BY Zenon, <1>4, <1>5, <1>6, PutStep DEF IInv, TypeOK

\* The manifest of a replacement is put; once it is, the replacement is committed.
LEMMA PutManifestPreserves ==
    ASSUME IInv, NEW w \in Workers, PutReplacementManifest(w)
    PROVE  IInv'
<1>1. worker[w].pc \in RowPCs
  BY Zenon DEF PutReplacementManifest, At, RowPCs
<1>2. PICK k, q, n, t : k = worker[w].key /\ q = worker[w].r /\ n = ReplacementKey(k, q)
                        /\ t = worker[w].now
  BY Zenon
<1>3. n \in Keys /\ t \in Nat /\ worker[w].pc # "idle"
  BY Zenon, <1>1, <1>2, RowInHand
<1>4. manifests' = WithManifest(n, t) /\ NoteReadable
      /\ UNCHANGED <<clock, recorded, data, ops, objs, lock, arriving, faults>>
  BY Zenon, <1>2 DEF PutReplacementManifest
<1>5. /\ DOMAIN manifests' = DOMAIN manifests \cup {n}
      /\ manifests' \in [DOMAIN manifests' -> Nat] /\ DOMAIN manifests' \subseteq Keys
  BY <1>3, <1>4, ManifestPut, Zenon DEF IInv
<1>6. PICK p : p = IF manifests'[n] = t /\ n \in data THEN "record_replacement" ELSE "fail"
  BY Zenon
<1>7. Goto(w, p)
  BY Zenon, <1>2, <1>6 DEF PutReplacementManifest
<1>8. p \in PCs /\ p \in RowPCs
  BY Zenon, <1>6 DEF PCs, RowPCs
<1>9. p \in HidePCs => Safe(k, q, committed')
  <2>1. p \in HidePCs => n \in data
    BY Zenon, <1>6 DEF HidePCs
  <2>2. n \in data => n \in committed'
    BY Zenon, <1>4, <1>5 DEF NoteReadable
  <2>. QED  BY Zenon, <2>1, <2>2, <1>2 DEF Safe
<1>10. committed \subseteq committed'
  BY Zenon, <1>4 DEF NoteReadable
<1>11. worker' \in [Workers -> Worker] /\ WorkersGood'
  BY Zenon, <1>1, <1>2, <1>3, <1>4, <1>7, <1>8, <1>9, <1>10, WorkerGoes DEF IInv
<1>. QED  BY Zenon, <1>4, <1>5, <1>11, PutStep DEF IInv, TypeOK

\* The manifest of a replaced batch is deleted.
LEMMA DeleteManifestPreserves ==
    ASSUME IInv, NEW w \in Workers, DeleteManifest(w)
    PROVE  IInv'
<1>1. worker[w].pc \in RowPCs /\ worker[w].pc \in HidePCs
  BY Zenon DEF DeleteManifest, At, RowPCs, HidePCs
<1>2. PICK k, q : k = worker[w].key /\ q = worker[w].r
  BY Zenon
<1>3. k \in Keys /\ q \in Removals /\ q \in recorded /\ worker[w].pc # "idle"
  BY Zenon, <1>1, <1>2, RowInHand
<1>4. Safe(k, q, committed)
  BY Zenon, <1>1, <1>2 DEF IInv, WorkersGood, Good
<1>5. manifests' = Restrict(manifests, DOMAIN manifests \ {k})
      /\ UNCHANGED <<clock, committed, recorded, data, ops, objs, lock, arriving, faults>>
  BY Zenon, <1>2 DEF DeleteManifest
<1>6. Goto(w, "record_manifest") /\ "record_manifest" \in PCs
  BY Zenon DEF DeleteManifest, PCs
<1>7. worker' \in [Workers -> Worker] /\ WorkersGood'
  BY Zenon, <1>1, <1>2, <1>3, <1>4, <1>5, <1>6, WorkerGoes DEF IInv
<1>8. DOMAIN manifests' = DOMAIN manifests \ {k} /\ manifests' \in [DOMAIN manifests' -> Nat]
  BY <1>5, ManifestGone, Zenon DEF IInv
<1>9. faults' \in Nat
  BY Zenon, <1>5 DEF IInv, TypeOK
<1>. QED  BY <1>3, <1>4, <1>5, <1>7, <1>8, <1>9, HideStep, Zenon

\* The data of a replaced batch is deleted.
LEMMA DeleteDataPreserves ==
    ASSUME IInv, NEW w \in Workers, DeleteData(w)
    PROVE  IInv'
<1>1. worker[w].pc \in RowPCs /\ worker[w].pc \in HidePCs
  BY Zenon DEF DeleteData, At, RowPCs, HidePCs
<1>2. PICK k, q : k = worker[w].key /\ q = worker[w].r
  BY Zenon
<1>3. k \in Keys /\ q \in Removals /\ q \in recorded /\ worker[w].pc # "idle"
  BY Zenon, <1>1, <1>2, RowInHand
<1>4. Safe(k, q, committed)
  BY Zenon, <1>1, <1>2 DEF IInv, WorkersGood, Good
<1>5. data' = data \ {k}
      /\ UNCHANGED <<clock, committed, recorded, manifests, ops, objs, lock, arriving, faults>>
  BY Zenon, <1>2 DEF DeleteData
<1>6. Goto(w, "record_data") /\ "record_data" \in PCs
  BY Zenon DEF DeleteData, PCs
<1>7. worker' \in [Workers -> Worker] /\ WorkersGood'
  BY Zenon, <1>1, <1>2, <1>3, <1>4, <1>5, <1>6, WorkerGoes DEF IInv
<1>8. manifests' \in [DOMAIN manifests' -> Nat] /\ faults' \in Nat
  BY Zenon, <1>5 DEF IInv, TypeOK
<1>. QED  BY Zenon, <1>3, <1>4, <1>5, <1>7, <1>8, HideStep

\* A batch arrives, for the first time or again.
LEMMA IngestPreserves ==
    ASSUME IInv, NEW b \in Batches, IngestData(b) \/ IngestManifest(b)
    PROVE  IInv'
<1>1. Original(b) \in Keys
  BY DEF Original, Keys
<1>2. data \subseteq data' /\ data' \subseteq Keys
  BY Zenon, <1>1 DEF IngestData, IngestManifest, IInv, TypeOK
<1>3. /\ DOMAIN manifests \subseteq DOMAIN manifests' /\ DOMAIN manifests' \subseteq Keys
      /\ manifests' \in [DOMAIN manifests' -> Nat]
  <2>1. CASE manifests' = manifests
    BY Zenon, <2>1 DEF IInv, TypeOK
  <2>2. CASE manifests' = WithManifest(Original(b), 0)
    BY <1>1, <2>2, ManifestPut, Zenon DEF IInv
  <2>. QED  BY Zenon, <2>1, <2>2 DEF IngestData, IngestManifest
<1>4. faults' \in Nat /\ arriving' \subseteq Batches
  BY DEF IngestData, IngestManifest, IInv, TypeOK
<1>5. UNCHANGED <<clock, recorded, ops, objs, lock, worker>> /\ NoteReadable
  BY Zenon DEF IngestData, IngestManifest
<1>6. worker' \in [Workers -> Worker] /\ WorkersGood'
  <2>1. committed \subseteq committed'
    BY Zenon, <1>5 DEF NoteReadable
  <2>2. ASSUME NEW w \in Workers PROVE Good(worker[w])'
    <3>1. PICK m : m = worker[w]
      BY Zenon
    <3>2. Good(m)
      BY Zenon, <3>1 DEF IInv, WorkersGood
    <3>3. m.pc \in HidePCs => Safe(m.key, m.r, committed')
      BY Zenon, <2>1, <3>2 DEF Good, Safe
    <3>. QED  BY Zenon, <1>5, <3>1, <3>2, <3>3 DEF Good
  <2>. QED  BY Zenon, <1>5, <2>2 DEF IInv, TypeOK, WorkersGood
<1>. QED  BY Zenon, <1>2, <1>3, <1>4, <1>5, <1>6, PutStep

\* A failing request may have put or deleted its object.
LEMMA RequestFailsPreserves ==
    ASSUME IInv, NEW w \in Workers, RequestFails(w)
    PROVE  IInv'
<1>1. /\ UNCHANGED <<clock, recorded, ops, objs, lock, arriving>> /\ NoteReadable
      /\ faults' = faults + 1
  BY Zenon DEF RequestFails
<1>2. committed \subseteq committed' /\ faults' \in Nat
  BY <1>1 DEF NoteReadable, IInv, TypeOK
<1>3. CASE At(w, "discover") /\ Goto(w, "scan_failed") /\ UNCHANGED <<manifests, data>>
  <2>1. worker' \in [Workers -> Worker] /\ WorkersGood'
    <3>1. /\ "scan_failed" \in PCs /\ "scan_failed" \notin RowPCs /\ "scan_failed" \notin HidePCs
          /\ worker[w].pc # "idle"
      BY Zenon, <1>3 DEF PCs, RowPCs, HidePCs, At
    <3>. QED  BY Zenon, <1>1, <1>2, <1>3, <3>1, WorkerGoes DEF IInv
  <2>. QED  BY Zenon, <1>1, <1>2, <1>3, <2>1, PutStep DEF IInv, TypeOK
<1>4. CASE worker[w].pc \in RowPCs /\ Goto(w, "fail")
  <2>1. PICK k, q, n, t : /\ k = worker[w].key /\ q = worker[w].r
                          /\ n = ReplacementKey(k, q) /\ t = worker[w].now
    BY Zenon
  <2>2. /\ k \in Keys /\ q \in Removals /\ q \in recorded /\ n \in Keys /\ t \in Nat
        /\ worker[w].pc # "idle"
    BY Zenon, <1>4, <2>1, RowInHand
  <2>3. worker' \in [Workers -> Worker] /\ WorkersGood'
    <3>1. "fail" \in PCs /\ "fail" \notin HidePCs
      BY Zenon DEF PCs, HidePCs
    <3>. QED  BY Zenon, <1>1, <1>2, <1>4, <2>2, <3>1, WorkerGoes DEF IInv
  <2>4. CASE UNCHANGED <<manifests, data>>
    BY Zenon, <1>1, <1>2, <2>3, <2>4, PutStep DEF IInv, TypeOK
  <2>5. CASE data' = data \cup {n} /\ UNCHANGED manifests
    BY Zenon, <1>1, <1>2, <2>2, <2>3, <2>5, PutStep DEF IInv, TypeOK
  <2>6. CASE manifests' = WithManifest(n, t) /\ UNCHANGED data
    <3>1. /\ DOMAIN manifests \subseteq DOMAIN manifests' /\ DOMAIN manifests' \subseteq Keys
          /\ manifests' \in [DOMAIN manifests' -> Nat]
      BY <2>2, <2>6, ManifestPut, Zenon DEF IInv
    <3>. QED  BY Zenon, <1>1, <1>2, <2>3, <2>6, <3>1, PutStep DEF IInv, TypeOK
  <2>7. CASE worker[w].pc \in HidePCs /\ UNCHANGED data
             /\ manifests' = Restrict(manifests, DOMAIN manifests \ {k})
    <3>1. Safe(k, q, committed)
      BY Zenon, <2>1, <2>7 DEF IInv, WorkersGood, Good
    <3>2. DOMAIN manifests' = DOMAIN manifests \ {k}
          /\ manifests' \in [DOMAIN manifests' -> Nat]
      BY <2>7, ManifestGone, Zenon DEF IInv
    <3>3. committed' = committed
      BY Zenon, <1>1, <2>7, <3>2 DEF NoteReadable, IInv, ReadableCommitted
    <3>. QED  BY <1>1, <1>2, <2>2, <2>3, <2>7, <3>1, <3>2, <3>3, HideStep, Zenon
  <2>8. CASE worker[w].pc \in HidePCs /\ UNCHANGED manifests /\ data' = data \ {k}
    <3>1. Safe(k, q, committed)
      BY Zenon, <2>1, <2>8 DEF IInv, WorkersGood, Good
    <3>2. committed' = committed
      BY Zenon, <1>1, <2>8 DEF NoteReadable, IInv, ReadableCommitted
    <3>3. manifests' \in [DOMAIN manifests' -> Nat]
      BY Zenon, <2>8 DEF IInv, TypeOK
    <3>. QED  BY Zenon, <1>1, <1>2, <2>2, <2>3, <2>8, <3>1, <3>2, <3>3, HideStep
  <2>. QED  BY Zenon, <2>1, <2>4, <2>5, <2>6, <2>7, <2>8, <1>3 DEF RequestFails, HidePCs, At
<1>. QED  BY Zenon, <1>3, <1>4 DEF RequestFails, RowPCs
-----------------------------------------------------------------------------
(* The other actions.                                                       *)

\* A new execution, for a removal that is recorded.
LEMMA BeginPreserves ==
    ASSUME IInv, NEW w \in Workers, NEW r \in Removals, NEW pc \in {"start", "claim"},
           Begin(w, r, pc),
           recorded' = recorded \cup {r},
           UNCHANGED <<clock, committed, manifests, data, ops, objs, lock, arriving, faults>>
    PROVE  IInv'
<1>1. PICK t \in 0..clock :
        worker' = [worker EXCEPT ![w] = [IdleWorker EXCEPT !.pc = pc, !.r = r, !.now = t]]
  BY Zenon DEF Begin
<1>2. PICK m : m = [IdleWorker EXCEPT !.pc = pc, !.r = r, !.now = t]
  BY Zenon
<1>3. IdleWorker \in Worker /\ t \in Nat
  BY IdleIsWorker DEF IInv, TypeOK
<1>4. m \in Worker /\ m.pc = pc /\ m.r = r /\ m.todo = {}
  <2>1. m \in Worker
    BY <1>2, <1>3, Zenon DEF Worker, PCs
  <2>2. m.pc = pc /\ m.r = r /\ m.todo = IdleWorker.todo
    BY Zenon, <1>2, <1>3 DEF Worker
  <2>. QED  BY Zenon, <2>1, <2>2 DEF IdleWorker
<1>5. Good(m)'
  BY Zenon, <1>4 DEF Good, RowPCs, HidePCs
<1>6. worker' \in [Workers -> Worker] /\ WorkersGood'
  BY <1>1, <1>2, <1>4, <1>5, OneWorkerMoves, Zenon DEF IInv
<1>7. OpsRecorded'
  BY Zenon DEF IInv, OpsRecorded
<1>8. clock' \in Nat /\ faults' \in Nat /\ ops' \in OpsType /\ lock' \in LockType
  BY Zenon, TypeParts DEF IInv
<1>9. ObjsOK'
  BY Zenon, TypeParts DEF IInv, ObjsOK
<1>10. recorded' \subseteq Removals /\ arriving' \subseteq Batches
  BY Zenon DEF IInv, TypeOK
<1>. QED  BY Zenon, <1>6, <1>7, <1>8, <1>9, <1>10, QuietStep

\* insertOperation keeps the row of an operation that exists.
LEMMA InsertOperationPreserves ==
    ASSUME IInv, NEW w \in Workers, InsertOperation(w)
    PROVE  IInv'
<1>1. Good(worker[w]) /\ worker[w] \in Worker /\ worker[w].pc # "idle"
  BY Zenon DEF IInv, WorkersGood, TypeOK, InsertOperation, At
<1>2. PICK q, t : q = worker[w].r /\ t = worker[w].now + SafetyWindow
  BY Zenon
<1>3. q \in recorded /\ q \in Removals /\ t \in Nat
  BY <1>1, <1>2, PurgeConstants DEF Good, IInv, TypeOK, Worker
<1>4. ops \in OpsType /\ OpsRecorded
  BY Zenon, TypeParts DEF IInv
<1>5. ops' = ops \/ ops' = [ops EXCEPT ![q] = [status |-> "planned", deadline |-> t]]
  BY Zenon, <1>2 DEF InsertOperation
<1>6. ops' \in OpsType
  BY <1>3, <1>4, <1>5 DEF OpsType, OpStates
<1>7. OpsRecorded'
  <2>1. recorded' = recorded
    BY Zenon DEF InsertOperation
  <2>. QED  BY Zenon, <2>1, <1>3, <1>4, <1>5 DEF OpsRecorded, OpsType
<1>8. Goto(w, "claim") /\ "claim" \in PCs /\ "claim" \notin RowPCs /\ "claim" \notin HidePCs
  BY Zenon DEF InsertOperation, PCs, RowPCs, HidePCs
<1>9. UNCHANGED <<clock, committed, recorded, manifests, data, objs, lock, arriving, faults>>
  BY Zenon DEF InsertOperation
<1>10. lock' \in LockType
  BY Zenon, <1>9, TypeParts DEF IInv
<1>. QED  BY Zenon, <1>1, <1>6, <1>7, <1>8, <1>9, <1>10, QuietGoto

\* The lock is claimed, or is busy.
LEMMA ClaimLockPreserves ==
    ASSUME IInv, NEW w \in Workers, ClaimLock(w)
    PROVE  IInv'
<1>1. worker[w] \in Worker /\ worker[w].pc # "idle"
  BY Zenon DEF IInv, TypeOK, ClaimLock, At
<1>2. PICK t : t = worker[w].now + Lease
  BY Zenon
<1>3. t \in Nat
  BY <1>1, <1>2, PurgeConstants DEF Worker
<1>4. lock' = lock \/ lock' = [holder |-> w, expires |-> t]
  BY Zenon, <1>2 DEF ClaimLock
<1>5. lock' \in LockType
  BY <1>3, <1>4, TypeParts DEF IInv, LockType
<1>6. PICK p \in {"scan", "busy"} : Goto(w, p)
  BY Zenon DEF ClaimLock
<1>7. p \in PCs /\ p \notin RowPCs /\ p \notin HidePCs
  BY Zenon, <1>6 DEF PCs, RowPCs, HidePCs
<1>8. UNCHANGED <<clock, committed, recorded, manifests, data, ops, objs, arriving, faults>>
  BY Zenon DEF ClaimLock
<1>9. ops' \in OpsType /\ OpsRecorded'
  BY Zenon, <1>8, TypeParts DEF IInv, OpsRecorded
<1>. QED  BY Zenon, <1>1, <1>5, <1>6, <1>7, <1>8, <1>9, QuietGoto

\* A renewal keeps the lock well typed.
LEMMA RenewedIsLock ==
    ASSUME IInv, NEW w \in Workers
    PROVE  Renewed(w) \in LockType
<1>1. lock \in LockType /\ clock \in Nat
  BY Zenon, TypeParts DEF IInv
<1>2. PICK e : e = IF lock.holder = w THEN clock + Lease ELSE lock.expires
  BY Zenon
<1>3. e \in Nat
  BY <1>1, <1>2, PurgeConstants DEF LockType
<1>4. Renewed(w) = [lock EXCEPT !.expires = e]
  BY Zenon, <1>2 DEF Renewed
<1>. QED  BY Zenon, <1>1, <1>3, <1>4 DEF LockType

\* The lock is renewed before the discovery.
LEMMA RenewForDiscoveryPreserves ==
    ASSUME IInv, NEW w \in Workers, RenewForDiscovery(w)
    PROVE  IInv'
<1>1. worker[w].pc # "idle"
  BY Zenon DEF RenewForDiscovery, At
<1>2. lock' \in LockType
  BY Zenon, RenewedIsLock DEF RenewForDiscovery
<1>3. PICK p \in {"discover", "busy"} : Goto(w, p)
  BY Zenon DEF RenewForDiscovery
<1>4. p \in PCs /\ p \notin RowPCs /\ p \notin HidePCs
  BY Zenon, <1>3 DEF PCs, RowPCs, HidePCs
<1>5. UNCHANGED <<clock, committed, recorded, manifests, data, ops, objs, arriving, faults>>
  BY Zenon DEF RenewForDiscovery
<1>6. ops' \in OpsType /\ OpsRecorded'
  BY Zenon, <1>5, TypeParts DEF IInv, OpsRecorded
<1>. QED  BY Zenon, <1>1, <1>2, <1>3, <1>4, <1>5, <1>6, QuietGoto

\* A worker that changes what it holds; the lineage rows may grow.
LEMMA QuietWorker ==
    ASSUME IInv, NEW w \in Workers, NEW m \in Worker,
           worker' = [worker EXCEPT ![w] = m], Good(m)',
           UNCHANGED <<clock, committed, recorded, manifests, data, ops, arriving, faults>>,
           lock' \in LockType, ObjsOK',
           \A r \in Removals : DOMAIN objs[r] \subseteq DOMAIN objs'[r]
    PROVE  IInv'
<1>1. worker' \in [Workers -> Worker] /\ WorkersGood'
  BY OneWorkerMoves, Zenon DEF IInv
<1>2. ops' \in OpsType /\ clock' \in Nat /\ faults' \in Nat
  BY Zenon, TypeParts DEF IInv
<1>3. OpsRecorded'
  BY Zenon DEF IInv, OpsRecorded
<1>4. recorded' \subseteq Removals /\ arriving' \subseteq Batches
  BY Zenon DEF IInv, TypeOK
<1>. QED  BY Zenon, <1>1, <1>2, <1>3, <1>4, QuietStep

\* The discovery plans committed batches only.
LEMMA DiscoverPlansPreserves ==
    ASSUME IInv, NEW w \in Workers, DiscoverPlans(w)
    PROVE  IInv'
<1>1. Good(worker[w]) /\ worker[w] \in Worker /\ worker[w].pc # "idle"
  BY Zenon DEF IInv, WorkersGood, TypeOK, DiscoverPlans, At
<1>2. UNCHANGED <<clock, committed, recorded, manifests, data, ops, objs, lock, arriving, faults>>
  BY Zenon DEF DiscoverPlans
<1>3. lock' \in LockType /\ ops' \in OpsType
  BY Zenon, <1>2, TypeParts DEF IInv
<1>4. OpsRecorded'
  BY Zenon, <1>2 DEF IInv, OpsRecorded
<1>5. CASE Goto(w, "scan_failed")
  <2>1. /\ "scan_failed" \in PCs /\ "scan_failed" \notin RowPCs /\ "scan_failed" \notin HidePCs
    BY Zenon DEF PCs, RowPCs, HidePCs
  <2>. QED  BY Zenon, <1>1, <1>2, <1>3, <1>4, <1>5, <2>1, QuietGoto
<1>6. ASSUME NEW hit \in SUBSET Keys,
             worker' = [worker EXCEPT ![w].pc = "plan", ![w].plans = hit]
      PROVE  IInv'
  <2>1. PICK m : m = [worker[w] EXCEPT !.pc = "plan", !.plans = hit]
    BY Zenon
  <2>2. m \in Worker /\ m.pc = "plan" /\ m.r = worker[w].r /\ m.todo = worker[w].todo
    BY <1>1, <2>1, Zenon DEF Worker, PCs
  <2>3. worker' = [worker EXCEPT ![w] = m]
    BY <1>6, <2>1, Zenon
  <2>4. Good(m)'
    BY Zenon, <1>1, <1>2, <2>2 DEF Good, RowPCs, HidePCs
  <2>5. ObjsOK'
    BY Zenon, <1>2, TypeParts DEF IInv, ObjsOK
  <2>. QED  BY <1>2, <1>3, <2>2, <2>3, <2>4, <2>5, QuietWorker, Zenon
<1>7. PICK hit \in SUBSET Keys :
        \/ worker' = [worker EXCEPT ![w].pc = "plan", ![w].plans = hit]
        \/ Goto(w, "scan_failed")
  <2>1. PICK h : h = {k \in DOMAIN manifests : ItemsOf(k) \cap Matches[worker[w].r] # {}}
    BY Zenon
  <2>2. h \in SUBSET Keys
    BY Zenon, <2>1 DEF IInv, TypeOK
  <2>. QED  BY <2>1, <2>2, Zenon DEF DiscoverPlans, Goto
<1>. QED  BY Zenon, <1>5, <1>6, <1>7

\* A failed discovery marks the operation.
LEMMA DiscoveryFailurePreserves ==
    ASSUME IInv, NEW w \in Workers, RecordDiscoveryFailure(w)
    PROVE  IInv'
<1>1. worker[w].pc # "idle" /\ "incomplete" \in OpStates
  BY Zenon DEF RecordDiscoveryFailure, At, OpStates
<1>2. UNCHANGED <<clock, committed, recorded, manifests, data, objs, lock, arriving, faults>>
  BY Zenon DEF RecordDiscoveryFailure
<1>3. ops' = [ops EXCEPT ![worker[w].r].status = "incomplete"]
  BY Zenon DEF RecordDiscoveryFailure
<1>4. ops' \in OpsType /\ OpsRecorded'
  BY <1>1, <1>2, <1>3, StatusWritten, Zenon
<1>5. Goto(w, "unlock") /\ "unlock" \in PCs /\ "unlock" \notin RowPCs /\ "unlock" \notin HidePCs
  BY Zenon DEF RecordDiscoveryFailure, PCs, RowPCs, HidePCs
<1>6. lock' \in LockType
  BY Zenon, <1>2, TypeParts DEF IInv
<1>. QED  BY Zenon, <1>1, <1>2, <1>4, <1>5, <1>6, QuietGoto

\* The plans become lineage rows; rows that exist stay as they are.
LEMMA InsertPlansPreserves ==
    ASSUME IInv, NEW w \in Workers, InsertPlans(w)
    PROVE  IInv'
<1>1. Good(worker[w]) /\ worker[w] \in Worker /\ worker[w].pc # "idle"
  BY Zenon DEF IInv, WorkersGood, TypeOK, InsertPlans, At
<1>2. PICK q, d : q = worker[w].r /\ d = worker[w].plans \cup DOMAIN objs[q]
  BY Zenon
<1>3. q \in recorded /\ q \in Removals
  BY Zenon, <1>1, <1>2 DEF Good, IInv, TypeOK
<1>4. ObjsOK
  BY Zenon, TypeParts DEF IInv
<1>5. d \subseteq Keys /\ DOMAIN objs[q] \subseteq d
  BY Zenon, <1>1, <1>2, <1>3, <1>4 DEF Worker, ObjsOK
<1>6. PICK f : f = [k \in d |-> IF k \in DOMAIN objs[q] THEN objs[q][k] ELSE PlannedRow]
  BY Zenon
<1>7. f \in [d -> Rows] /\ DOMAIN f = d
  <2>1. PlannedRow \in Rows
    BY Zenon DEF PlannedRow, Rows, RowStates
  <2>. QED  BY Zenon, <1>3, <1>4, <1>6, <2>1 DEF ObjsOK
<1>8. objs' = [objs EXCEPT ![q] = f]
  BY Zenon, <1>2, <1>6 DEF InsertPlans
<1>9. \A r \in Removals : objs'[r] = IF r = q THEN f ELSE objs[r]
  BY Zenon, <1>3, <1>4, <1>8 DEF ObjsOK
<1>10. ObjsOK'
  <2>1. objs' = [r \in Removals |-> objs'[r]]
    BY Zenon, <1>4, <1>8 DEF ObjsOK
  <2>2. ASSUME NEW r \in Removals
        PROVE  DOMAIN objs'[r] \subseteq Keys /\ objs'[r] \in [DOMAIN objs'[r] -> Rows]
    BY Zenon, <1>4, <1>5, <1>7, <1>9 DEF ObjsOK
  <2>. QED  BY Zenon, <2>1, <2>2 DEF ObjsOK
<1>11. \A r \in Removals : DOMAIN objs[r] \subseteq DOMAIN objs'[r]
  BY Zenon, <1>5, <1>7, <1>9
<1>12. PICK todo : todo = {<<k, f[k]>> : k \in DOMAIN f}
  BY Zenon
<1>13. todo \subseteq Keys \X Rows /\ \A x \in todo : x[1] \in d
  BY <1>5, <1>7, <1>12
<1>14. PICK m : m = [worker[w] EXCEPT !.pc = "next", !.todo = todo]
  BY Zenon
<1>15. m \in Worker /\ m.pc = "next" /\ m.r = q /\ m.todo = todo
  BY <1>1, <1>2, <1>13, <1>14, Zenon DEF Worker, PCs
<1>16. worker' = [worker EXCEPT ![w] = m]
  BY ZenonT(60), <1>2, <1>6, <1>12, <1>14 DEF InsertPlans
<1>17. UNCHANGED <<clock, committed, recorded, manifests, data, ops, lock, arriving, faults>>
  BY Zenon DEF InsertPlans
<1>18. Good(m)'
  BY Zenon, <1>3, <1>7, <1>9, <1>13, <1>15, <1>17 DEF Good, RowPCs, HidePCs
<1>19. lock' \in LockType
  BY Zenon, <1>17, TypeParts DEF IInv
<1>. QED  BY <1>10, <1>11, <1>15, <1>16, <1>17, <1>18, <1>19, QuietWorker, Zenon

\* Where a row enters processObject, nothing is hidden before it is validated
\* unless there is nothing to retain.
LEMMA EntryIsSafe ==
    ASSUME NEW m, NEW k, NEW row, NEW c
    PROVE  /\ Entry(m, k, row) \in PCs
           /\ Entry(m, k, row) # "idle"
           /\ Entry(m, k, row) \in HidePCs => Safe(k, m.r, c)
<1>1. \/ Entry(m, k, row) \in {"next", "recover", "fail", "put_data", "validate"}
      \/ Entry(m, k, row) = "record_replacement" /\ Retained(k, m.r) = {}
  BY Zenon DEF Entry
<1>. QED  BY Zenon, <1>1 DEF PCs, HidePCs, Safe

\* The next row is taken up.
LEMMA NextRowPreserves ==
    ASSUME IInv, NEW w \in Workers, NextRow(w)
    PROVE  IInv'
<1>1. Good(worker[w]) /\ worker[w] \in Worker /\ worker[w].pc # "idle"
  BY Zenon DEF IInv, WorkersGood, TypeOK, NextRow, At
<1>2. UNCHANGED <<clock, committed, recorded, manifests, data, ops, objs, arriving, faults>>
  BY Zenon DEF NextRow
<1>3. lock' \in LockType
  BY Zenon, RenewedIsLock DEF NextRow
<1>4. ops' \in OpsType /\ OpsRecorded'
  BY Zenon, <1>2, TypeParts DEF IInv, OpsRecorded
<1>5. CASE Goto(w, "busy")
  <2>1. "busy" \in PCs /\ "busy" \notin RowPCs /\ "busy" \notin HidePCs
    BY Zenon DEF PCs, RowPCs, HidePCs
  <2>. QED  BY Zenon, <1>1, <1>2, <1>3, <1>4, <1>5, <2>1, QuietGoto
<1>6. ASSUME NEW x \in worker[w].todo,
             worker' = [worker EXCEPT ![w] =
               [worker[w] EXCEPT !.pc = Entry(worker[w], x[1], x[2]), !.key = x[1],
                                 !.row = x[2], !.todo = @ \ {x},
                                 !.done = @ \cup ({x[2].state} \cap {"data_deleted"})]]
      PROVE  IInv'
  <2>1. x[1] \in Keys /\ x[2] \in Rows
    BY Zenon, <1>1 DEF Worker
  <2>2. PICK p : p = Entry(worker[w], x[1], x[2])
    BY Zenon
  <2>3. p \in PCs /\ p # "idle" /\ (p \in HidePCs => Safe(x[1], worker[w].r, committed))
    BY Zenon, <2>2, EntryIsSafe
  <2>4. PICK dn : dn = worker[w].done \cup ({x[2].state} \cap {"data_deleted"})
    BY Zenon
  <2>5. dn \subseteq RowStates
    BY Zenon, <1>1, <2>4 DEF Worker, RowStates
  <2>6. PICK m : m = [worker[w] EXCEPT !.pc = p, !.key = x[1], !.row = x[2],
                                       !.todo = @ \ {x}, !.done = dn]
    BY Zenon
  <2>7. m \in Worker
    BY <1>1, <2>1, <2>3, <2>5, <2>6, Zenon DEF Worker
  <2>8. m.pc = p /\ m.r = worker[w].r /\ m.key = x[1] /\ m.todo = worker[w].todo \ {x}
    BY Zenon, <1>1, <2>6 DEF Worker
  <2>9. worker' = [worker EXCEPT ![w] = m]
    BY Zenon, <1>6, <2>2, <2>4, <2>6
  <2>10. Good(m)'
    <3>1. m.r \in recorded' /\ m.key \in DOMAIN objs'[m.r]
      BY Zenon, <1>1, <1>2, <2>8 DEF Good
    <3>2. \A y \in m.todo : m.r \in Removals /\ y[1] \in DOMAIN objs'[m.r]
      BY Zenon, <1>1, <1>2, <2>8 DEF Good
    <3>3. m.pc \in HidePCs => Safe(m.key, m.r, committed')
      BY Zenon, <1>2, <2>3, <2>8
    <3>. QED  BY Zenon, <3>1, <3>2, <3>3 DEF Good
  <2>11. ObjsOK'
    BY Zenon, <1>2, TypeParts DEF IInv, ObjsOK
  <2>. QED  BY <1>2, <1>3, <2>7, <2>9, <2>10, <2>11, QuietWorker, Zenon
<1>. QED  BY Zenon, <1>5, <1>6 DEF NextRow

\* A row that stays as it is for this run.
LEMMA RowLeft ==
    ASSUME IInv, NEW w \in Workers, worker[w].pc # "idle", NEW s \in RowStates,
           worker' = [worker EXCEPT ![w].pc = "next", ![w].done = @ \cup {s}],
           UNCHANGED <<clock, committed, recorded, manifests, data, ops, objs, lock, arriving, faults>>
    PROVE  IInv'
<1>1. Good(worker[w]) /\ worker[w] \in Worker
  BY Zenon DEF IInv, WorkersGood, TypeOK
<1>2. PICK m : m = [worker[w] EXCEPT !.pc = "next", !.done = @ \cup {s}]
  BY Zenon
<1>3. m \in Worker /\ m.pc = "next" /\ m.r = worker[w].r /\ m.todo = worker[w].todo
  BY <1>1, <1>2, Zenon DEF Worker, PCs
<1>4. worker' = [worker EXCEPT ![w] = m]
  BY <1>2, Zenon
<1>5. Good(m)'
  BY Zenon, <1>1, <1>3 DEF Good, RowPCs, HidePCs
<1>6. lock' \in LockType /\ ObjsOK'
  BY Zenon, TypeParts DEF IInv, ObjsOK
<1>. QED  BY <1>3, <1>4, <1>5, <1>6, QuietWorker, Zenon

\* Recovery writes a state from the lineage, then the row is validated anew.
LEMMA RecoverRowPreserves ==
    ASSUME IInv, NEW w \in Workers, RecoverRow(w)
    PROVE  IInv'
<1>1. worker[w].pc \in RowPCs /\ worker[w].pc # "idle"
  BY Zenon DEF RecoverRow, At, RowPCs
<1>2. Stored(w) \in Rows
  BY Zenon, <1>1, RowInHand
<1>3. ASSUME NEW row, NEW st \in RowStates, row = [Stored(w) EXCEPT !.state = st],
             UpdateObject(w, row, Entry(worker[w], worker[w].key, row), {})
      PROVE  IInv'
  <2>1. PICK e : e = Entry(worker[w], worker[w].key, row)
    BY Zenon
  <2>2. row \in Rows
    BY Zenon, <1>2, <1>3 DEF Rows
  <2>3. /\ e \in PCs /\ e # "idle"
        /\ e \in HidePCs => Safe(worker[w].key, worker[w].r, committed)
    BY Zenon, <2>1, EntryIsSafe
  <2>4. UpdateObject(w, row, e, {})
    BY Zenon, <1>3, <2>1
  <2>5. PICK done \in SUBSET RowStates : done = {}
    BY Zenon
  <2>6. UpdateObject(w, row, e, done)
    BY Zenon, <2>4, <2>5
  <2>. QED  BY Zenon, <1>1, <2>2, <2>3, <2>6, RowWritten
<1>4. CASE /\ worker' = [worker EXCEPT ![w].pc = "next", ![w].done = @ \cup {"incomplete"}]
           /\ UNCHANGED <<clock, committed, recorded, manifests, data, ops, objs, lock, arriving, faults>>
  <2>1. "incomplete" \in RowStates
    BY Zenon DEF RowStates
  <2>. QED  BY <1>1, <1>4, <2>1, RowLeft, Zenon
<1>. QED  BY Zenon, <1>3, <1>4 DEF RecoverRow, RowStates

\* The replacement is entered in the lineage.
LEMMA RecordReplacementPreserves ==
    ASSUME IInv, NEW w \in Workers, RecordReplacement(w)
    PROVE  IInv'
<1>1. worker[w].pc \in RowPCs /\ worker[w].pc \in HidePCs
  BY Zenon DEF RecordReplacement, At, RowPCs, HidePCs
<1>2. Stored(w) \in Rows
  BY Zenon, <1>1, RowInHand
<1>3. PICK row : row = [Stored(w) EXCEPT !.state = "replacement_written",
                           !.repl = @ \/ Retained(worker[w].key, worker[w].r) # {}]
  BY Zenon
<1>4. row \in Rows
  BY <1>2, <1>3, Zenon DEF Rows, RowStates
<1>5. Safe(worker[w].key, worker[w].r, committed)
  BY Zenon, <1>1 DEF IInv, WorkersGood, Good
<1>6. UpdateObject(w, row, "delete_manifest", {})
  BY Zenon, <1>3 DEF RecordReplacement
<1>7. PICK p \in PCs : p = "delete_manifest" /\ p # "idle"
  BY Zenon DEF PCs
<1>8. PICK done \in SUBSET RowStates : done = {}
  BY Zenon
<1>9. UpdateObject(w, row, p, done)
  BY Zenon, <1>6, <1>7, <1>8
<1>10. p \in HidePCs => Safe(worker[w].key, worker[w].r, committed)
  BY Zenon, <1>5
<1>11. p # "idle" /\ worker[w].pc \in RowPCs
  BY Zenon, <1>1, <1>7
<1>. QED  BY ONLY Zenon, IInv, <1>4, <1>9, <1>10, <1>11, RowWritten

\* A replacement that validates is readable, so it was committed.
LEMMA ValidateReplacementPreserves ==
    ASSUME IInv, NEW w \in Workers, ValidateReplacement(w)
    PROVE  IInv'
<1>1. worker[w].pc \in RowPCs /\ worker[w].pc # "idle"
  BY Zenon DEF ValidateReplacement, At, RowPCs
<1>2. PICK valid : valid = IF worker[w].row.repl
                           THEN Readable(ReplacementKey(worker[w].key, worker[w].r))
                           ELSE Retained(worker[w].key, worker[w].r) = {}
  BY Zenon
<1>3. valid => Safe(worker[w].key, worker[w].r, committed)
  BY <1>2, Zenon DEF Safe, Readable, IInv, ReadableCommitted
<1>4. UNCHANGED <<clock, committed, recorded, manifests, data, ops, objs, lock, arriving, faults>>
  BY Zenon DEF ValidateReplacement
<1>5. ops' \in OpsType /\ OpsRecorded' /\ lock' \in LockType
  BY Zenon, <1>4, TypeParts DEF IInv, OpsRecorded
<1>6. ASSUME NEW p \in {"fail", "delete_manifest", "delete_data"}, Goto(w, p),
             p # "fail" => valid
      PROVE  IInv'
  <2>1. p \in PCs /\ (p \in HidePCs => p # "fail")
    BY DEF PCs, HidePCs
  <2>. QED  BY Zenon, <1>1, <1>3, <1>4, <1>5, <1>6, <2>1, QuietGoto
<1>7. CASE worker' = [worker EXCEPT ![w].pc = "next", ![w].done = @ \cup {"planned"}]
  <2>1. "planned" \in RowStates
    BY Zenon DEF RowStates
  <2>. QED  BY <1>1, <1>4, <1>7, <2>1, RowLeft, Zenon
<1>. QED  BY <1>2, <1>6, <1>7, Zenon DEF ValidateReplacement

\* The deletion of the manifest is entered in the lineage.
LEMMA RecordManifestDeletedPreserves ==
    ASSUME IInv, NEW w \in Workers, RecordManifestDeleted(w)
    PROVE  IInv'
<1>1. worker[w].pc \in RowPCs /\ worker[w].pc \in HidePCs
  BY Zenon DEF RecordManifestDeleted, At, RowPCs, HidePCs
<1>2. Stored(w) \in Rows
  BY Zenon, <1>1, RowInHand
<1>3. PICK row : row = [Stored(w) EXCEPT !.state = "manifest_deleted", !.mdel = TRUE]
  BY Zenon
<1>4. row \in Rows
  BY <1>2, <1>3, Zenon DEF Rows, RowStates
<1>5. Safe(worker[w].key, worker[w].r, committed)
  BY Zenon, <1>1 DEF IInv, WorkersGood, Good
<1>6. UpdateObject(w, row, "delete_data", {})
  BY Zenon, <1>3 DEF RecordManifestDeleted
<1>7. PICK p \in PCs : p = "delete_data" /\ p # "idle"
  BY Zenon DEF PCs
<1>8. PICK done \in SUBSET RowStates : done = {}
  BY Zenon
<1>9. UpdateObject(w, row, p, done)
  BY Zenon, <1>6, <1>7, <1>8
<1>10. p \in HidePCs => Safe(worker[w].key, worker[w].r, committed)
  BY Zenon, <1>5
<1>11. p # "idle" /\ worker[w].pc \in RowPCs
  BY Zenon, <1>1, <1>7
<1>. QED  BY ONLY Zenon, IInv, <1>4, <1>9, <1>10, <1>11, RowWritten

\* The data waits for the end of the safety window.
LEMMA AwaitDeadlinePreserves ==
    ASSUME IInv, NEW w \in Workers, AwaitDeadline(w)
    PROVE  IInv'
<1>1. worker[w].pc # "idle" /\ "manifest_deleted" \in RowStates
  BY Zenon DEF AwaitDeadline, At, RowStates
<1>. QED  BY Zenon, <1>1, RowLeft DEF AwaitDeadline

\* A row is done, or failed.
LEMMA RowEndsPreserves ==
    ASSUME IInv, NEW w \in Workers, RecordDataDeleted(w) \/ RecordIncomplete(w)
    PROVE  IInv'
<1>1. worker[w].pc \in RowPCs
  BY Zenon DEF RecordDataDeleted, RecordIncomplete, At, RowPCs
<1>2. Stored(w) \in Rows
  BY Zenon, <1>1, RowInHand
<1>3. PICK st \in {"data_deleted", "incomplete"} :
        UpdateObject(w, [Stored(w) EXCEPT !.state = st], "next", {st})
  BY Zenon DEF RecordDataDeleted, RecordIncomplete
<1>4. PICK row : row = [Stored(w) EXCEPT !.state = st]
  BY Zenon
<1>5. row \in Rows /\ {st} \in SUBSET RowStates
  BY Zenon, <1>2, <1>4 DEF Rows, RowStates
<1>6. UpdateObject(w, row, "next", {st})
  BY Zenon, <1>3, <1>4
<1>7. PICK p \in PCs : p = "next" /\ p # "idle" /\ p \notin HidePCs
  BY Zenon DEF PCs, HidePCs
<1>8. PICK done \in SUBSET RowStates : done = {st}
  BY <1>5, Zenon
<1>9. UpdateObject(w, row, p, done)
  BY Zenon, <1>6, <1>7, <1>8
<1>. QED  BY Zenon, <1>1, <1>5, <1>7, <1>9, RowWritten

\* The operation gets the status of its rows.
LEMMA FinishOperationPreserves ==
    ASSUME IInv, NEW w \in Workers, FinishOperation(w)
    PROVE  IInv'
<1>1. worker[w].pc # "idle"
  BY Zenon DEF FinishOperation, At
<1>2. UNCHANGED <<clock, committed, recorded, manifests, data, objs, lock, arriving, faults>>
  BY Zenon DEF FinishOperation
<1>3. PICK s : s = FinalStatus(worker[w])
  BY Zenon
<1>4. s \in OpStates
  BY Zenon, <1>3 DEF FinalStatus, OpStates
<1>5. ops' = [ops EXCEPT ![worker[w].r].status = s]
  BY Zenon, <1>3 DEF FinishOperation
<1>6. ops' \in OpsType /\ OpsRecorded'
  BY <1>1, <1>2, <1>4, <1>5, StatusWritten, Zenon
<1>7. Goto(w, "unlock") /\ "unlock" \in PCs /\ "unlock" \notin RowPCs /\ "unlock" \notin HidePCs
  BY Zenon DEF FinishOperation, PCs, RowPCs, HidePCs
<1>8. lock' \in LockType
  BY Zenon, <1>2, TypeParts DEF IInv
<1>. QED  BY Zenon, <1>1, <1>2, <1>6, <1>7, <1>8, QuietGoto

\* The lock is released if it is still held.
LEMMA ReleaseLockPreserves ==
    ASSUME IInv, NEW w \in Workers, ReleaseLock(w)
    PROVE  IInv'
<1>1. /\ worker' = [worker EXCEPT ![w] = IdleWorker]
      /\ UNCHANGED <<clock, committed, recorded, manifests, data, ops, objs, arriving, faults>>
      /\ lock' = NoLock \/ lock' = lock
  BY Zenon DEF ReleaseLock
<1>2. lock' \in LockType
  BY <1>1, TypeParts DEF IInv, LockType, NoLock
<1>3. ops' \in OpsType /\ OpsRecorded' /\ faults' \in Nat
  BY Zenon, <1>1, TypeParts DEF IInv, OpsRecorded
<1>. QED  BY <1>1, <1>2, <1>3, QuietEnd, Zenon

\* archive_busy ends the execution.
LEMMA RecordBusyPreserves ==
    ASSUME IInv, NEW w \in Workers, RecordBusy(w)
    PROVE  IInv'
<1>1. worker[w].pc # "idle" /\ "incomplete" \in OpStates
  BY Zenon DEF RecordBusy, At, OpStates
<1>2. /\ worker' = [worker EXCEPT ![w] = IdleWorker]
      /\ UNCHANGED <<clock, committed, recorded, manifests, data, objs, lock, arriving, faults>>
      /\ ops' = [ops EXCEPT ![worker[w].r].status = "incomplete"]
  BY Zenon DEF RecordBusy
<1>3. ops' \in OpsType /\ OpsRecorded'
  BY <1>1, <1>2, StatusWritten, Zenon
<1>4. lock' \in LockType /\ faults' \in Nat
  BY Zenon, <1>2, TypeParts DEF IInv
<1>. QED  BY <1>2, <1>3, <1>4, QuietEnd, Zenon

\* An execution dies.
LEMMA CrashPreserves ==
    ASSUME IInv, NEW w \in Workers, Crash(w)
    PROVE  IInv'
<1>1. /\ worker' = [worker EXCEPT ![w] = IdleWorker]
      /\ UNCHANGED <<clock, committed, recorded, manifests, data, ops, objs, arriving>>
      /\ faults' = faults + 1
      /\ lock' = [lock EXCEPT !.holder = "nobody"] \/ lock' = lock
  BY Zenon DEF Crash
<1>2. lock' \in LockType
  BY Zenon, <1>1, TypeParts DEF IInv, LockType
<1>3. ops' \in OpsType /\ OpsRecorded' /\ faults' \in Nat
  BY <1>1, TypeParts DEF IInv, OpsRecorded
<1>. QED  BY <1>1, <1>2, <1>3, QuietEnd, Zenon

\* Time passes.
LEMMA TickPreserves ==
    ASSUME IInv, Tick
    PROVE  IInv'
<1>1. /\ UNCHANGED <<committed, recorded, manifests, data, ops, objs, lock, worker, arriving, faults>>
      /\ clock' = clock + 1
  BY Zenon DEF Tick
<1>2. /\ clock' \in Nat /\ faults' \in Nat /\ ops' \in OpsType /\ lock' \in LockType
      /\ worker' \in [Workers -> Worker] /\ OpsRecorded'
  BY <1>1, TypeParts DEF IInv, OpsRecorded
<1>3. ObjsOK'
  BY Zenon, <1>1, TypeParts DEF IInv, ObjsOK
<1>4. WorkersGood'
  BY Zenon, <1>1 DEF IInv, WorkersGood, Good
<1>5. recorded' \subseteq Removals /\ arriving' \subseteq Batches
  BY Zenon, <1>1 DEF IInv, TypeOK
<1>. QED  BY Zenon, <1>1, <1>2, <1>3, <1>4, <1>5, QuietStep

\* A removal is recorded, or the tick takes an operation up.
LEMMA StartPreserves ==
    ASSUME IInv, NEW w \in Workers, NEW r \in Removals,
           RecordRemoval(w, r) \/ ScheduledPurge(w, r)
    PROVE  IInv'
<1>1. PICK pc \in {"start", "claim"} : Begin(w, r, pc)
  BY Zenon DEF RecordRemoval, ScheduledPurge
<1>3. UNCHANGED <<clock, committed, manifests, data, ops, objs, lock, arriving, faults>>
  BY Zenon DEF RecordRemoval, ScheduledPurge
<1>2. recorded' = recorded \cup {r}
  BY Zenon DEF RecordRemoval, ScheduledPurge, IInv, OpsRecorded
<1>. QED  BY Zenon, <1>1, <1>2, <1>3, BeginPreserves
-----------------------------------------------------------------------------
\* The initial states satisfy the inductive invariant.
LEMMA InitIInv == Init => IInv
<1> SUFFICES ASSUME Init PROVE IInv
  BY Zenon
<1>1. worker = [w \in Workers |-> IdleWorker] /\ IdleWorker \in Worker
  BY Zenon, IdleIsWorker DEF Init
<1>2. TypeOK
  <2>1. manifests \in [DOMAIN manifests -> Nat] /\ DOMAIN manifests \subseteq Keys
    BY DEF Init
  <2>2. ops \in [Removals -> [status : OpStates, deadline : Nat]]
    BY Zenon DEF Init, OpStates
  <2>3. \A r \in Removals : DOMAIN objs[r] \subseteq Keys /\ objs[r] \in [DOMAIN objs[r] -> Rows]
    BY DEF Init
  <2>4. objs = [r \in Removals |-> objs[r]]
    BY Zenon DEF Init
  <2>5. lock \in [holder : Workers \cup {"nobody"}, expires : Nat]
    BY Zenon DEF Init, NoLock
  <2>6. worker \in [Workers -> Worker]
    BY Zenon, <1>1
  <2>7. /\ clock \in Nat /\ faults \in Nat
        /\ committed \subseteq Keys /\ data \subseteq Keys /\ recorded \subseteq Removals
    BY Zenon DEF Init
  <2>. QED  BY Zenon, <2>1, <2>2, <2>3, <2>4, <2>5, <2>6, <2>7 DEF TypeOK, Init
<1>3. WorkersGood
  <2>1. Good(IdleWorker)
    BY Zenon DEF Good, IdleWorker, RowPCs, HidePCs
  <2>. QED  BY Zenon, <1>1, <2>1 DEF WorkersGood
<1>4. OpsRecorded /\ ReadableCommitted /\ Covered
  BY Zenon DEF Init, OpsRecorded, ReadableCommitted, Covered
<1>. QED  BY Zenon, <1>2, <1>3, <1>4 DEF IInv

\* Every step preserves it.
LEMMA NextIInv == IInv /\ [Next]_vars => IInv'
<1> SUFFICES ASSUME IInv, [Next]_vars PROVE IInv'
  BY Zenon
<1>1. ASSUME NEW w \in Workers, PurgeStep(w) PROVE IInv'
  BY <1>1, InsertOperationPreserves, ClaimLockPreserves, RenewForDiscoveryPreserves,
     DiscoverPlansPreserves, DiscoveryFailurePreserves, InsertPlansPreserves,
     NextRowPreserves, RecoverRowPreserves, PutDataPreserves, PutManifestPreserves,
     RecordReplacementPreserves, ValidateReplacementPreserves, DeleteManifestPreserves,
     RecordManifestDeletedPreserves, AwaitDeadlinePreserves, DeleteDataPreserves,
     RowEndsPreserves, FinishOperationPreserves, ReleaseLockPreserves,
     RecordBusyPreserves DEF PurgeStep
<1>2. ASSUME NEW w \in Workers, RequestFails(w) \/ Crash(w) PROVE IInv'
  BY Zenon, <1>2, RequestFailsPreserves, CrashPreserves
<1>3. ASSUME NEW w \in Workers, NEW r \in Removals,
             RecordRemoval(w, r) \/ ScheduledPurge(w, r)
      PROVE  IInv'
  BY Zenon, <1>3, StartPreserves
<1>4. CASE \E b \in Batches : IngestData(b) \/ IngestManifest(b)
  BY Zenon, <1>4, IngestPreserves
<1>5. CASE Tick
  BY Zenon, <1>5, TickPreserves
<1>6. CASE UNCHANGED vars
  <2>1. UNCHANGED <<clock, committed, recorded, manifests, data, ops, objs, lock, worker, arriving, faults>>
    BY Zenon, <1>6 DEF vars
  <2>2. /\ clock' \in Nat /\ faults' \in Nat /\ ops' \in OpsType /\ lock' \in LockType
        /\ worker' \in [Workers -> Worker] /\ OpsRecorded' /\ recorded' \subseteq Removals /\ arriving' \subseteq Batches
    BY Zenon, <2>1, TypeParts DEF IInv, OpsRecorded, TypeOK
  <2>3. ObjsOK'
    BY Zenon, <2>1, TypeParts DEF IInv, ObjsOK
  <2>4. WorkersGood'
    BY Zenon, <2>1 DEF IInv, WorkersGood, Good
  <2>. QED  BY Zenon, <2>1, <2>2, <2>3, <2>4, QuietStep
<1>. QED  BY Zenon, <1>1, <1>2, <1>3, <1>4, <1>5, <1>6 DEF Next

\* The inductive invariant holds in every reachable state.
THEOREM PurgeInvariant == Spec => []IInv
<1>1. Init => IInv
  BY Zenon, InitIInv
<1>2. IInv /\ [Next]_vars => IInv'
  BY Zenon, NextIInv
<1>. QED  BY <1>1, <1>2, PTL DEF Spec

\* Every table, object and execution of the purge keeps its type.
THEOREM PurgeTypeCorrect == Spec => []TypeOK
<1>1. IInv => TypeOK
  BY Zenon DEF IInv
<1>. QED  BY <1>1, PurgeInvariant, PTL

\* The purge loses no item that no removal matches, with any number of batches,
\* overlapping removals, concurrent executions, deaths and failing requests.
THEOREM PurgeKeepsRetained == Spec => []NoRetainedItemLost
<1>1. IInv => NoRetainedItemLost
  <2> SUFFICES ASSUME IInv, NEW k \in committed, NEW i \in ItemsOf(k),
                      \A r \in recorded : i \notin Matches[r]
               PROVE  \E x \in DOMAIN manifests : Readable(x) /\ i \in ItemsOf(x)
    BY Zenon DEF NoRetainedItemLost
  <2>1. CoverOf(k, i)
    BY Zenon DEF IInv, Covered, Unremoved
  <2>. QED  BY Zenon, <2>1 DEF CoverOf, Readable
<1>. QED  BY <1>1, PurgeInvariant, PTL

-----------------------------------------------------------------------------
(* The inductive invariant of the linking *)

SessionRow == [status : EndedStatus \cup {"absent", "created", "awaiting_user"},
               generation : Nat, ref : BOOLEAN]

ConnectionRow == [status : {"none", "connected", "disconnected"},
                  login : Logins \cup {NoLogin}, generation : Nat,
                  operation : Operations \cup {NoOperation}]

OperationStatus == LiveOperation \cup SettledOperation \cup {"absent", "reconciliation_required"}

OperationRow == [status : OperationStatus, target : Sessions \cup {NoOperation},
                 generation : Nat]

LinkShape ==
    /\ session \in [Sessions -> SessionRow]
    /\ connection \in [Sessions -> ConnectionRow]
    /\ lifecycle \in [Operations -> OperationRow]

\* The statuses of a session that has linked nothing.
Unlinked == {"cancelled", "expired", "failed", "relink_required"}

\* A session has attached nothing before it ends: what D1 has of it while it is
\* open is the replacement a relink is about to finish, or what an object that
\* died has left.
SessionSound(s) ==
    /\ session[s].status = "absent" =>
          ~Exists(s) /\ (s \in Relinks => lifecycle[s].status # "succeeded")
    /\ s \in Relinks /\ existing(s) => lifecycle[s].status # "absent"
    /\ OpenSession(s) /\ s \notin diedCommitting =>
          /\ Exists(s) => Blocked(s)
          /\ s \in Relinks => lifecycle[s].status # "succeeded"
    /\ session[s].status \in Unlinked /\ s \notin diedCommitting =>
          ~Exists(s) /\ (s \in Relinks => lifecycle[s].status # "succeeded")

\* A row that exists has a login, and one that does not has none.
ConnectionSound(s) ==
    IF Exists(s) THEN connection[s].login \in Logins ELSE connection[s].login = NoLogin

\* An operation is about a connection that exists, and owns it while it is live.
OperationSound(o) ==
    lifecycle[o].status # "absent" =>
        /\ lifecycle[o].target \in Sessions /\ Exists(lifecycle[o].target)
        /\ lifecycle[o].status \in LiveOperation =>
              connection[lifecycle[o].target].operation = o

\* A suspended request serves a session or an operation that is there.
CallBacked(c) ==
    /\ c.target \in Sessions /\ c.generation \in Nat
    /\ c.kind # "begin" /\ c.key \in Operations => lifecycle[c.key].status # "absent"
    /\ c.kind = "begin" => c.key \in Operations /\ Exists(c.target)
    /\ c.kind = "create" => c.key \in Relinks
    /\ c.kind = "claim" => c.key \in Operations
    /\ c.kind \in {"start", "answer"} => c.key \in Sessions
    /\ c.kind = "disconnect" => c.key \in Disconnects
    /\ c.kind = "finish" => c.key \in Relinks /\ existing(c.key)

LinkInv ==
    /\ LinkShape
    /\ \A s \in Sessions : SessionSound(s) /\ ConnectionSound(s)
    /\ OneConnectionPerLogin
    /\ \A o \in Operations : OperationSound(o)
    /\ \A c \in linkCalls : CallBacked(c)

-----------------------------------------------------------------------------
(* What the steps have in common *)

\* No session, connection or operation is forgotten, and no operation changes
\* its target.
Keeps ==
    /\ \A s \in Sessions : existing(s) => existing(s)'
    /\ \A s \in Sessions : Exists(s) => Exists(s)'
    /\ \A o \in Operations : lifecycle[o].status # "absent" =>
          lifecycle'[o].status # "absent" /\ lifecycle'[o].target = lifecycle[o].target

\* The requests in D come back, and those in N are suspended.
CallsMove(D, N) == linkCalls' = (linkCalls \ D) \cup N

\* A request that stays suspended stays backed.
LEMMA CallsStayBacked ==
    ASSUME LinkInv, Keeps, NEW D, NEW N, CallsMove(D, N), \A n \in N : CallBacked(n)'
    PROVE  \A c \in linkCalls' : CallBacked(c)'
<1> SUFFICES ASSUME NEW c \in linkCalls, CallBacked(c) PROVE CallBacked(c)'
  BY Zenon DEF CallsMove, LinkInv
<1>1. Relinks \subseteq Sessions
  BY Zenon DEF Sessions
<1> QED BY Zenon, <1>1 DEF CallBacked, Keeps

\* A step that ends and begins no commit changes no session's being blocked.
LEMMA BlockedStays ==
    ASSUME NEW D, NEW N, CallsMove(D, N), \A c \in D \cup N : c.kind # "finish"
    PROVE  \A s : Blocked(s) <=> Blocked(s)'
BY Zenon DEF CallsMove, Blocked

\* A session a step does not touch stays sound.
LEMMA SessionStaysSound ==
    ASSUME NEW s \in Sessions, SessionSound(s), session'[s] = session[s],
           Exists(s) <=> Exists(s)', Blocked(s) => Blocked(s)',
           s \in diedCommitting => s \in diedCommitting',
           s \in Relinks =>
              /\ lifecycle[s].status # "absent" => lifecycle'[s].status # "absent"
              /\ lifecycle'[s].status = "succeeded" => lifecycle[s].status = "succeeded"
    PROVE  SessionSound(s)'
BY Zenon DEF SessionSound, existing, OpenSession

\* An operation a step does not touch stays sound.
LEMMA OperationStaysSound ==
    ASSUME NEW o \in Operations, OperationSound(o), lifecycle'[o] = lifecycle[o],
           \A s \in Sessions : Exists(s) => Exists(s)',
           lifecycle[o].status \in LiveOperation =>
              connection'[lifecycle[o].target].operation = connection[lifecycle[o].target].operation
    PROVE  OperationSound(o)'
BY Zenon DEF OperationSound, LiveOperation

\* A step that attaches no account leaves the logins as they are.
LEMMA LoginsStay ==
    ASSUME LinkInv, \A s \in Sessions : connection'[s].login = connection[s].login
                                        /\ (Exists(s) <=> Exists(s)')
    PROVE  OneConnectionPerLogin' /\ \A s \in Sessions : ConnectionSound(s)'
BY Zenon DEF LinkInv, OneConnectionPerLogin, ConnectionSound

\* The three rows a step may change, and what else the invariant asks for.
LEMMA LinkStep ==
    ASSUME LinkInv, LinkShape', Keeps, NEW D, NEW N, CallsMove(D, N),
           \A n \in N : CallBacked(n)',
           \A s \in Sessions : SessionSound(s)' /\ ConnectionSound(s)',
           OneConnectionPerLogin', \A o \in Operations : OperationSound(o)'
    PROVE  LinkInv'
BY Zenon, CallsStayBacked DEF LinkInv

\* A step that writes no row at all.
LEMMA NoRowStep ==
    ASSUME LinkInv, UNCHANGED <<session, connection, lifecycle>>,
           diedCommitting \subseteq diedCommitting',
           NEW D, NEW N, CallsMove(D, N), \A n \in N : CallBacked(n),
           \A s \in Sessions : Blocked(s) => Blocked(s)' \/ s \in diedCommitting'
    PROVE  LinkInv'
<1>1. LinkShape' /\ Keeps /\ OneConnectionPerLogin'
  BY Zenon DEF LinkInv, LinkShape, Keeps, existing, Exists, OneConnectionPerLogin
<1>2. \A n \in N : CallBacked(n)'
  BY Zenon DEF CallBacked, Exists, existing
<1>3. \A s \in Sessions : SessionSound(s)' /\ ConnectionSound(s)'
  BY Zenon DEF LinkInv, SessionSound, ConnectionSound, Exists, existing, OpenSession
<1>4. \A o \in Operations : OperationSound(o)'
  BY Zenon DEF LinkInv, OperationSound, Exists
<1> QED BY Zenon, <1>1, <1>2, <1>3, <1>4, LinkStep

\* A step that writes one session and no row of D1.
SessionMoves(s, x) ==
    /\ session' = [session EXCEPT ![s] = x]
    /\ x \in SessionRow /\ x.status # "absent"
    /\ s \in Relinks => lifecycle[s].status # "absent"
    /\ UNCHANGED <<connection, lifecycle>>
    /\ diedCommitting' = diedCommitting

(* A step that only moves one session along its statuses keeps the invariant. *)
LEMMA SessionStep ==
    ASSUME LinkInv, NEW s \in Sessions, NEW x, SessionMoves(s, x), SessionSound(s)',
           NEW D, NEW N, CallsMove(D, N), \A c \in D \cup N : c.kind # "finish",
           \A n \in N : CallBacked(n)'
    PROVE  LinkInv'
<1>1. session \in [Sessions -> SessionRow] /\ session' \in [Sessions -> SessionRow]
      /\ session'[s] = x /\ \A y \in Sessions : y # s => session'[y] = session[y]
  BY Zenon DEF SessionMoves, LinkInv, LinkShape
<1>2. connection' = connection /\ lifecycle' = lifecycle /\ diedCommitting' = diedCommitting
  BY Zenon DEF SessionMoves
<1>3. LinkShape' /\ OneConnectionPerLogin'
  BY Zenon, <1>1, <1>2 DEF LinkInv, LinkShape, OneConnectionPerLogin, Exists
<1>4. Keeps
  BY Zenon, <1>1, <1>2 DEF Keeps, existing, Exists, SessionMoves
<1>5. ASSUME NEW y \in Sessions PROVE SessionSound(y)' /\ ConnectionSound(y)'
  <2>1. ConnectionSound(y)'
    BY Zenon, <1>2 DEF LinkInv, ConnectionSound, Exists
  <2>2. CASE y # s
    <3>1. SessionSound(y) /\ session'[y] = session[y] /\ (Exists(y) <=> Exists(y)')
      BY Zenon, <1>1, <1>2, <2>2 DEF LinkInv, Exists
    <3>2. Blocked(y) <=> Blocked(y)'
      BY Zenon, BlockedStays
    <3>3. SessionSound(y)'
      BY Zenon, <1>2, <3>1, <3>2, SessionStaysSound
    <3> QED BY Zenon, <2>1, <3>3
  <2> QED BY Zenon, <2>1, <2>2
<1>6. \A o \in Operations : OperationSound(o)'
  BY Zenon, <1>2 DEF LinkInv, OperationSound, Exists
<1> QED BY Zenon, <1>3, <1>4, <1>5, <1>6, LinkStep

-----------------------------------------------------------------------------
(* The requests and the session objects *)

\* The rest of a handler serves an operation that is there.
LEMMA ResumeIsBacked ==
    ASSUME NEW o \in Operations, NEW t \in Sessions, NEW status,
           lifecycle[o].status # "absent", NEW c \in Resume(o, t, status)
    PROVE  CallBacked(c) /\ c.kind # "finish"
BY DEF Resume, Call, CallBacked, Operations

(* Starting a relink or disconnect request keeps the invariant. *)
LEMMA BeginOperationKeepsInv ==
    ASSUME LinkInv, NEW o \in Operations, NEW t \in Sessions, beginOperation(o, t)
    PROVE  LinkInv'
<1>1. UNCHANGED <<session, connection, lifecycle>> /\ diedCommitting' = diedCommitting /\ Exists(t)
  BY Zenon DEF beginOperation
<1>2. PICK N : /\ N = IF lifecycle[o].status = "absent"
                      THEN {Call("begin", o, t, connection[t].generation, "")}
                      ELSE Resume(o, t, lifecycle[o].status)
               /\ linkCalls' = linkCalls \cup N
  BY Zenon DEF beginOperation
<1>3. \A n \in N : CallBacked(n) /\ n.kind # "finish"
  <2>1. CASE lifecycle[o].status = "absent"
    <3>1. connection[t].generation \in Nat
      BY Zenon DEF LinkInv, LinkShape, ConnectionRow
    <3>2. PICK b : b = Call("begin", o, t, connection[t].generation, "")
      BY Zenon
    <3>3. CallBacked(b) /\ b.kind # "finish"
      BY Zenon, <1>1, <3>1, <3>2 DEF Call, CallBacked
    <3>4. N = {b}
      BY Zenon, <1>2, <2>1, <3>2
    <3> QED BY Zenon, <3>3, <3>4
  <2>2. CASE lifecycle[o].status # "absent"
    BY Zenon, <1>2, <2>2, ResumeIsBacked
  <2> QED BY Zenon, <2>1, <2>2
<1>4. CallsMove({}, N)
  BY Zenon, <1>2 DEF CallsMove
<1>5. \A s : Blocked(s) <=> Blocked(s)'
  BY Zenon, <1>3, <1>4, BlockedStays
<1> QED BY Zenon, <1>1, <1>3, <1>4, <1>5, NoRowStep

(* Answering a begin from its recorded operation keeps the invariant. *)
LEMMA BeginReplayKeepsInv ==
    ASSUME LinkInv, NEW c \in linkCalls, beginReplay(c)
    PROVE  LinkInv'
<1>1. UNCHANGED <<session, connection, lifecycle>> /\ diedCommitting' = diedCommitting
      /\ c.kind = "begin" /\ lifecycle[c.key].status # "absent"
  BY Zenon DEF beginReplay
<1>2. c.key \in Operations
  BY Zenon, <1>1 DEF LinkInv, CallBacked
<1>3. lifecycle[c.key].target \in Sessions
  BY Zenon, <1>1, <1>2 DEF LinkInv, OperationSound
<1>4. PICK N : /\ N = Resume(c.key, lifecycle[c.key].target, lifecycle[c.key].status)
               /\ CallsMove({c}, N)
  BY Zenon DEF beginReplay, CallsMove
<1>5. \A n \in N : CallBacked(n) /\ n.kind # "finish"
  BY Zenon, <1>1, <1>2, <1>3, <1>4, ResumeIsBacked
<1>6. \A s : Blocked(s) <=> Blocked(s)'
  BY Zenon, <1>1, <1>4, <1>5, BlockedStays
<1> QED BY Zenon, <1>1, <1>4, <1>5, <1>6, NoRowStep

(* Sending a poll to the gateway keeps the invariant. *)
LEMMA PollKeepsInv ==
    ASSUME LinkInv, NEW s \in Sessions, poll(s)
    PROVE  LinkInv'
<1>1. UNCHANGED <<session, connection, lifecycle>> /\ diedCommitting' = diedCommitting
      /\ OpenSession(s)
  BY Zenon DEF poll
<1>2. PICK value : linkCalls' = linkCalls \cup {Call("answer", s, s, session[s].generation, value)}
  BY Zenon DEF poll
<1>3. PICK n : n = Call("answer", s, s, session[s].generation, value)
  BY Zenon
<1>4. CallBacked(n) /\ n.kind # "finish"
  <2>1. session[s].generation \in Nat /\ SessionSound(s)
    BY Zenon DEF LinkInv, LinkShape, SessionRow
  <2>2. s \in Operations => s \in Relinks
    BY Zenon, LinkBounds DEF Operations
  <2> QED BY Zenon, <1>1, <1>3, <2>1, <2>2 DEF Call, CallBacked, SessionSound, OpenSession, existing
<1>5. CallsMove({}, {n})
  BY Zenon, <1>2, <1>3 DEF CallsMove
<1>6. \A x : Blocked(x) <=> Blocked(x)'
  BY Zenon, <1>4, <1>5, BlockedStays
<1> QED BY Zenon, <1>1, <1>4, <1>5, <1>6, NoRowStep

(* A provider answer for a session that moved on changes no row. *)
LEMMA StaleCommitKeepsInv ==
    ASSUME LinkInv, NEW c \in linkCalls, staleCommit(c)
    PROVE  LinkInv'
<1>1. UNCHANGED <<session, connection, lifecycle>> /\ diedCommitting' = diedCommitting
      /\ c.kind = "answer" /\ CallsMove({c}, {})
  BY Zenon DEF staleCommit, CallsMove
<1>2. \A s : Blocked(s) <=> Blocked(s)'
  BY Zenon, <1>1, BlockedStays
<1> QED BY <1>1, <1>2, NoRowStep

\* An object that dies inside a commit is remembered as such.
LEMMA RequestDiesKeepsInv ==
    ASSUME LinkInv, NEW c \in linkCalls, requestDies(c)
    PROVE  LinkInv'
<1>1. UNCHANGED <<session, connection, lifecycle>> /\ CallsMove({c}, {})
      /\ diedCommitting \subseteq diedCommitting'
      /\ (c.kind = "finish" => c.key \in diedCommitting')
  BY Zenon DEF requestDies, CallsMove
<1>2. \A s \in Sessions : Blocked(s) => Blocked(s)' \/ s \in diedCommitting'
  BY Zenon, <1>1 DEF Blocked, CallsMove
<1> QED BY <1>1, <1>2, NoRowStep

\* The steps that change no row: an administrator who loses the grant, and none.
LEMMA NothingKeepsInv ==
    ASSUME LinkInv, UNCHANGED <<session, connection, lifecycle, linkCalls, diedCommitting>>
    PROVE  LinkInv'
<1>1. CallsMove({}, {})
  BY Zenon DEF CallsMove
<1>2. \A s : Blocked(s) <=> Blocked(s)'
  BY Zenon, <1>1, BlockedStays
<1> QED BY <1>1, <1>2, NoRowStep

\* An operation's name is a session's only for a relink.
LEMMA SessionNames == \A s \in Sessions : s \in Operations <=> s \in Relinks
BY Zenon, LinkBounds DEF Sessions, Operations

\* A session that is open has its operation, and has attached nothing unless
\* its object is inside a commit or died there.
LEMMA OpenIsSound ==
    ASSUME LinkInv, NEW s \in Sessions, OpenSession(s)
    PROVE  /\ s \in Relinks => lifecycle[s].status # "absent"
           /\ ~Blocked(s) /\ s \notin diedCommitting =>
                 ~Exists(s) /\ (s \in Relinks => lifecycle[s].status # "succeeded")
           /\ session[s] \in SessionRow
BY Zenon DEF LinkInv, LinkShape, SessionSound, OpenSession, existing

\* expire and cancel: a session nobody commits ends with nothing attached.
LEMMA EndingKeepsInv ==
    ASSUME LinkInv, NEW s \in Sessions, expire(s) \/ cancel(s)
    PROVE  LinkInv'
<1>1. PICK status \in {"expired", "cancelled"} : session' = EndedNextGeneration(s, status)
  BY Zenon DEF expire, cancel
<1>2. OpenSession(s) /\ ~Blocked(s) /\ UNCHANGED <<connection, lifecycle, linkCalls>>
      /\ diedCommitting' = diedCommitting
  BY Zenon DEF expire, cancel
<1>3. PICK x : x = [status |-> status, generation |-> session[s].generation + 1, ref |-> FALSE]
  BY Zenon
<1>4. x \in SessionRow /\ x.status = status
  BY <1>2, <1>3, OpenIsSound DEF SessionRow, EndedStatus
<1>5. session' = [session EXCEPT ![s] = x] /\ session'[s] = x
  BY Zenon, <1>1, <1>3 DEF EndedNextGeneration, LinkInv, LinkShape
<1>6. SessionMoves(s, x)
  BY Zenon, <1>2, <1>4, <1>5, OpenIsSound DEF SessionMoves
<1>7. SessionSound(s)'
  <2>1. s \notin diedCommitting => ~Exists(s) /\ (s \in Relinks => lifecycle[s].status # "succeeded")
    BY Zenon, <1>2, OpenIsSound
  <2>2. s \in Relinks => lifecycle[s].status # "absent"
    BY Zenon, <1>2, OpenIsSound
  <2> QED BY Zenon, <1>2, <1>4, <1>5, <2>1, <2>2
          DEF SessionSound, OpenSession, existing, Exists, EndedStatus
<1>8. CallsMove({}, {})
  BY Zenon, <1>2 DEF CallsMove
<1> QED BY <1>6, <1>7, <1>8, SessionStep

\* A session that becomes or stays open is sound when it was open, or was not
\* there.
LEMMA OpenedIsSound ==
    ASSUME LinkInv, NEW s \in Sessions, NEW x, SessionMoves(s, x), x.status \notin EndedStatus,
           session[s].status = "absent" \/ OpenSession(s), \A y : Blocked(y) <=> Blocked(y)'
    PROVE  SessionSound(s)'
<1>1. session'[s] = x /\ connection' = connection /\ lifecycle' = lifecycle
      /\ diedCommitting' = diedCommitting /\ x.status # "absent"
      /\ (s \in Relinks => lifecycle[s].status # "absent")
  BY Zenon DEF SessionMoves, LinkInv, LinkShape
<1>2. SessionSound(s)
  BY Zenon DEF LinkInv
<1>3. x.status \notin Unlinked
  BY Zenon DEF Unlinked, EndedStatus
<1> QED BY Zenon, <1>1, <1>2, <1>3 DEF SessionSound, OpenSession, existing, Exists

\* createLinkSession and refresh: a start call of the new generation.
LEMMA OpeningKeepsInv ==
    ASSUME LinkInv, NEW s \in Sessions, refresh(s) \/ (s \in LinkSessions /\ createLinkSession(s))
    PROVE  LinkInv'
<1>1. PICK generation \in Nat :
         /\ session' = [session EXCEPT ![s] =
                           [status |-> "created", generation |-> generation, ref |-> FALSE]]
         /\ linkCalls' = linkCalls \cup {Call("start", s, s, generation, "")}
  <2>1. session[s].generation + 1 \in Nat
    BY DEF LinkInv, LinkShape, SessionRow
  <2>2. CASE refresh(s)
    BY Zenon, <2>1, <2>2 DEF refresh, LinkInv, LinkShape
  <2>3. CASE createLinkSession(s)
    BY Zenon, <2>3 DEF createLinkSession, create
  <2> QED BY Zenon, <2>2, <2>3
<1>2. UNCHANGED <<connection, lifecycle>> /\ diedCommitting' = diedCommitting
      /\ (session[s].status = "absent" \/ OpenSession(s))
      /\ (s \in Relinks => lifecycle[s].status # "absent")
  <2>1. CASE refresh(s)
    BY Zenon, <2>1, OpenIsSound DEF refresh
  <2>2. CASE s \in LinkSessions /\ createLinkSession(s)
    BY Zenon, <2>2, LinkBounds DEF createLinkSession
  <2> QED BY Zenon, <2>1, <2>2
<1>3. PICK x : x = [status |-> "created", generation |-> generation, ref |-> FALSE]
  BY Zenon
<1>4. x \in SessionRow /\ x.status = "created"
  BY Zenon, <1>3 DEF SessionRow
<1>5. SessionMoves(s, x)
  BY Zenon, <1>1, <1>2, <1>3, <1>4 DEF SessionMoves
<1>6. PICK n : n = Call("start", s, s, generation, "")
  BY Zenon
<1>7. CallBacked(n)' /\ n.kind = "start" /\ CallsMove({}, {n})
  <2>1. n.kind = "start" /\ n.key = s /\ n.target = s /\ n.generation \in Nat
    BY Zenon, <1>6 DEF Call
  <2>2. CallBacked(n)'
    BY Zenon, <1>2, <2>1, SessionNames DEF CallBacked
  <2> QED BY Zenon, <1>1, <1>6, <2>1, <2>2 DEF CallsMove
<1>8. \A y : Blocked(y) <=> Blocked(y)'
  BY Zenon, <1>7, BlockedStays
<1>9. SessionSound(s)'
  BY Zenon, <1>2, <1>4, <1>5, <1>8, OpenedIsSound DEF EndedStatus
<1> QED BY Zenon, <1>5, <1>7, <1>9, SessionStep

\* The session of a relink is made from the status its operation had.
LEMMA CreateRelinkKeepsInv ==
    ASSUME LinkInv, NEW c \in linkCalls, createRelinkSession(c)
    PROVE  LinkInv'
<1>1. PICK r : r = c.key
  BY Zenon
<1>2. /\ r \in Relinks /\ r \in Sessions /\ r \in Operations /\ c.kind = "create"
      /\ c.target \in Sessions /\ lifecycle[r].status # "absent"
      /\ UNCHANGED <<connection, lifecycle>> /\ diedCommitting' = diedCommitting
  BY Zenon, <1>1 DEF createRelinkSession, LinkInv, CallBacked, Sessions, Operations
<1>3. PICK N : /\ N = IF session[r].status = "absent" /\ c.value \in LiveOperation
                      THEN {Call("claim", r, c.target, 1, c.value)} ELSE {}
               /\ CallsMove({c}, N)
  BY <1>1, Zenon DEF createRelinkSession, CallsMove
<1>4. \A n \in N : CallBacked(n) /\ CallBacked(n)' /\ n.kind # "finish"
  <2>1. PICK n : n = Call("claim", r, c.target, 1, c.value)
    BY Zenon
  <2>2. n.kind = "claim" /\ n.key = r /\ n.target = c.target /\ n.generation = 1
    BY Zenon, <2>1 DEF Call
  <2>3. CallBacked(n) /\ CallBacked(n)'
    BY <1>2, <2>2 DEF CallBacked
  <2> QED BY Zenon, <1>3, <2>1, <2>2, <2>3
<1>5. \A y : Blocked(y) <=> Blocked(y)'
  BY Zenon, <1>2, <1>3, <1>4, BlockedStays
<1>6. CASE session[r].status # "absent"
  <2>1. session' = session
    BY Zenon, <1>1, <1>6 DEF createRelinkSession
  <2> QED BY Zenon, <1>2, <1>3, <1>4, <1>5, <2>1, NoRowStep
<1>7. CASE session[r].status = "absent"
  <2>1. PICK status \in {"created", "connected", "reconciliation_required"} :
           session' = [session EXCEPT ![r] = [status |-> status, generation |-> 1, ref |-> FALSE]]
    BY <1>1, <1>7, Zenon DEF createRelinkSession, create
  <2>2. PICK x : x = [status |-> status, generation |-> 1, ref |-> FALSE]
    BY Zenon
  <2>3. x \in SessionRow /\ x.status = status
    BY Zenon, <2>2 DEF SessionRow, EndedStatus
  <2>4. SessionMoves(r, x) /\ session'[r] = x
    BY Zenon, <1>2, <2>1, <2>2, <2>3 DEF SessionMoves, LinkInv, LinkShape
  <2>5. SessionSound(r)'
    <3>1. CASE status = "created"
      BY Zenon, <1>2, <1>5, <1>7, <2>3, <2>4, <3>1, OpenedIsSound DEF EndedStatus
    <3>2. CASE status # "created"
      BY Zenon, <1>2, <2>3, <2>4, <3>2 DEF SessionSound, OpenSession, existing, EndedStatus, Unlinked
    <3> QED BY Zenon, <3>1, <3>2
  <2> QED BY Zenon, <1>2, <1>3, <1>4, <2>4, <2>5, SessionStep
<1> QED BY Zenon, <1>6, <1>7

\* A refusal of the provider ends an open session with nothing attached.
LEMMA ProviderEndedKeepsInv ==
    ASSUME LinkInv, NEW c \in linkCalls, providerEnded(c)
    PROVE  LinkInv'
<1>1. PICK s : s = c.key
  BY Zenon
<1>2. /\ s \in Sessions /\ c.kind = "answer" /\ c.value = "failed" /\ ~Blocked(s)
      /\ UNCHANGED <<connection, lifecycle>> /\ diedCommitting' = diedCommitting
      /\ CallsMove({c}, {})
  BY Zenon, <1>1 DEF providerEnded, LinkInv, CallBacked, CallsMove, LinkAnswers
<1>3. \A y : Blocked(y) <=> Blocked(y)'
  BY Zenon, <1>2, BlockedStays
<1>4. CASE session' = session
  BY <1>2, <1>3, <1>4, NoRowStep
<1>5. CASE OpenSession(s) /\ session' = EndedAs(s, "failed")
  <2>1. PICK x : x = [session[s] EXCEPT !.status = "failed", !.ref = FALSE]
    BY Zenon
  <2>2. x \in SessionRow /\ x.status = "failed"
    BY <1>2, <1>5, <2>1, OpenIsSound, Zenon DEF SessionRow, EndedStatus
  <2>3. session' = [session EXCEPT ![s] = x] /\ session'[s] = x
    BY <1>2, <1>5, <2>1, Zenon DEF EndedAs, LinkInv, LinkShape
  <2>4. SessionMoves(s, x)
    BY Zenon, <1>2, <1>5, <2>2, <2>3, OpenIsSound DEF SessionMoves
  <2>5. SessionSound(s)'
    <3>1. s \notin diedCommitting => ~Exists(s) /\ (s \in Relinks => lifecycle[s].status # "succeeded")
      BY Zenon, <1>2, <1>5, OpenIsSound
    <3>2. s \in Relinks => lifecycle[s].status # "absent"
      BY Zenon, <1>2, <1>5, OpenIsSound
    <3> QED BY Zenon, <1>2, <2>2, <2>3, <3>1, <3>2
            DEF SessionSound, OpenSession, existing, Exists, EndedStatus
  <2> QED BY <1>2, <2>4, <2>5, SessionStep
<1> QED BY Zenon, <1>1, <1>2, <1>4, <1>5 DEF providerEnded, Accepts

-----------------------------------------------------------------------------
(* The rows of D1 *)

\* What a step leaves of the connections and the operations.
RowsSound ==
    /\ connection' \in [Sessions -> ConnectionRow]
    /\ lifecycle' \in [Operations -> OperationRow]
    /\ \A s \in Sessions : Exists(s) => Exists(s)'
    /\ \A o \in Operations : lifecycle[o].status # "absent" =>
          lifecycle'[o].status # "absent" /\ lifecycle'[o].target = lifecycle[o].target
    /\ OneConnectionPerLogin'
    /\ \A s \in Sessions : ConnectionSound(s)'
    /\ \A o \in Operations : OperationSound(o)'

\* A step of operation o that attaches no account: it moves its own row, and
\* takes a fence away only where it is its own.
RowsMove(o) ==
    /\ connection' \in [Sessions -> ConnectionRow]
    /\ lifecycle' \in [Operations -> OperationRow]
    /\ \A s \in Sessions : connection'[s].login = connection[s].login /\ (Exists(s) <=> Exists(s)')
    /\ \A s \in Sessions : connection'[s].operation # connection[s].operation =>
                              connection[s].operation = o
    /\ \A x \in Operations : x # o => lifecycle'[x] = lifecycle[x]
    /\ lifecycle[o].status # "absent" /\ lifecycle'[o].status # "absent"
    /\ lifecycle'[o].target = lifecycle[o].target
    /\ lifecycle'[o].status \in LiveOperation =>
          /\ lifecycle[o].status \in LiveOperation
          /\ connection'[lifecycle[o].target].operation = connection[lifecycle[o].target].operation

(* A statement that changes one operation row, and takes from connections only
   what that operation fences, leaves every row sound. *)
LEMMA RowsMoveSound ==
    ASSUME LinkInv, NEW o \in Operations, RowsMove(o)
    PROVE  RowsSound
<1>1. OneConnectionPerLogin' /\ \A s \in Sessions : ConnectionSound(s)'
  BY Zenon, LoginsStay DEF RowsMove
<1>2. \A s \in Sessions : Exists(s) => Exists(s)'
  BY Zenon DEF RowsMove
<1>3. ASSUME NEW x \in Operations PROVE OperationSound(x)'
  <2>1. OperationSound(x)
    BY Zenon DEF LinkInv
  <2>2. CASE x = o
    BY Zenon, <1>2, <2>1, <2>2 DEF OperationSound, RowsMove
  <2>3. CASE x # o
    <3>1. lifecycle'[x] = lifecycle[x]
      BY Zenon, <2>3 DEF RowsMove
    <3>2. lifecycle[x].status \in LiveOperation =>
             /\ lifecycle[x].target \in Sessions
             /\ connection[lifecycle[x].target].operation = x
      BY Zenon, <2>1 DEF OperationSound, LiveOperation
    <3>3. lifecycle[x].status \in LiveOperation =>
             connection'[lifecycle[x].target].operation = connection[lifecycle[x].target].operation
      BY Zenon, <2>3, <3>2 DEF RowsMove
    <3> QED BY Zenon, <1>2, <2>1, <3>1, <3>3, OperationStaysSound
  <2> QED BY Zenon, <2>2, <2>3
<1> QED BY Zenon, <1>1, <1>2, <1>3 DEF RowsSound, RowsMove

\* Rows nobody writes stay sound.
LEMMA RowsUnchangedSound ==
    ASSUME LinkInv, UNCHANGED <<connection, lifecycle>>
    PROVE  RowsSound
BY Zenon DEF LinkInv, LinkShape, RowsSound, Exists, OneConnectionPerLogin, ConnectionSound, OperationSound

\* A step is sound when the rows and the sessions are.
LEMMA RowsStep ==
    ASSUME LinkInv, RowsSound, session' \in [Sessions -> SessionRow],
           \A s \in Sessions : existing(s) => existing(s)',
           \A s \in Sessions : SessionSound(s)',
           NEW D, NEW N, CallsMove(D, N), \A n \in N : CallBacked(n)'
    PROVE  LinkInv'
<1>1. LinkShape' /\ Keeps
  BY Zenon DEF RowsSound, LinkShape, Keeps
<1> QED BY Zenon, <1>1, LinkStep DEF RowsSound

\* A step of operation o that writes no session.
LEMMA OperationStep ==
    ASSUME LinkInv, NEW o \in Operations, RowsMove(o),
           lifecycle'[o].status = "succeeded" => o \notin Relinks \/ lifecycle[o].status = "succeeded",
           UNCHANGED <<session, diedCommitting>>,
           NEW D, NEW N, CallsMove(D, N), \A c \in D \cup N : c.kind # "finish",
           \A n \in N : CallBacked(n)'
    PROVE  LinkInv'
<1>1. RowsSound
  BY Zenon, RowsMoveSound
<1>2. \A s \in Sessions : existing(s) => existing(s)'
  BY Zenon DEF existing
<1>3. \A s : Blocked(s) <=> Blocked(s)'
  BY Zenon, BlockedStays
<1>4. ASSUME NEW s \in Sessions PROVE SessionSound(s)'
  <2>1. SessionSound(s) /\ (Exists(s) <=> Exists(s)')
    BY Zenon DEF LinkInv, RowsMove
  <2>2. s \in Relinks =>
           /\ lifecycle[s].status # "absent" => lifecycle'[s].status # "absent"
           /\ lifecycle'[s].status = "succeeded" => lifecycle[s].status = "succeeded"
    BY Zenon, SessionNames DEF RowsMove
  <2> QED BY Zenon, <1>3, <2>1, <2>2, SessionStaysSound
<1>5. session' \in [Sessions -> SessionRow]
  BY Zenon DEF LinkInv, LinkShape
<1> QED BY Zenon, <1>1, <1>2, <1>4, <1>5, RowsStep

\* One row of the operations gets another status.
LEMMA StatusMoves ==
    ASSUME LinkInv, NEW o \in Operations, NEW status \in OperationStatus,
           lifecycle[o].status # "absent", status # "absent",
           lifecycle' = [lifecycle EXCEPT ![o].status = status],
           status \in LiveOperation => lifecycle[o].status \in LiveOperation
    PROVE  /\ lifecycle' \in [Operations -> OperationRow]
           /\ \A x \in Operations : x # o => lifecycle'[x] = lifecycle[x]
           /\ lifecycle'[o].status = status /\ lifecycle'[o].target = lifecycle[o].target
           /\ connection' = connection => RowsMove(o)
<1>1. lifecycle \in [Operations -> OperationRow] /\ connection \in [Sessions -> ConnectionRow]
  BY Zenon DEF LinkInv, LinkShape
<1>2. PICK y : y = [lifecycle[o] EXCEPT !.status = status]
  BY Zenon
<1>3. y \in OperationRow /\ y.status = status /\ y.target = lifecycle[o].target
  BY Zenon, <1>1, <1>2 DEF OperationRow
<1>4. lifecycle' = [lifecycle EXCEPT ![o] = y]
  BY Zenon, <1>1, <1>2
<1>5. /\ lifecycle' \in [Operations -> OperationRow]
      /\ \A x \in Operations : x # o => lifecycle'[x] = lifecycle[x]
      /\ lifecycle'[o].status = status /\ lifecycle'[o].target = lifecycle[o].target
  BY Zenon, <1>1, <1>3, <1>4
<1>6. connection' = connection => RowsMove(o)
  BY Zenon, <1>1, <1>5 DEF RowsMove, Exists
<1> QED BY Zenon, <1>5, <1>6

\* markLifecycleReconciliation, with or without the fence released.
LEMMA ReconcileMoves ==
    ASSUME LinkInv, NEW o \in Operations, lifecycle[o].status # "absent",
           lifecycle' = Reconciled(o),
           connection' = connection \/ \E code : connection' = ReleasedFence(o, code)
    PROVE  /\ RowsMove(o)
           /\ lifecycle'[o].status = "succeeded" => lifecycle[o].status = "succeeded"
           /\ lifecycle'[o].status \notin LiveOperation
<1>1. /\ lifecycle' \in [Operations -> OperationRow]
      /\ \A x \in Operations : x # o => lifecycle'[x] = lifecycle[x]
      /\ lifecycle'[o].target = lifecycle[o].target /\ lifecycle'[o].status # "absent"
      /\ lifecycle'[o].status = "succeeded" => lifecycle[o].status = "succeeded"
      /\ lifecycle'[o].status \notin LiveOperation
  <2>1. CASE lifecycle[o].status \in SettledOperation
    BY Zenon, <2>1 DEF Reconciled, LinkInv, LinkShape, SettledOperation, LiveOperation
  <2>2. CASE lifecycle[o].status \notin SettledOperation
    <3>1. lifecycle' = [lifecycle EXCEPT ![o].status = "reconciliation_required"]
      BY Zenon, <2>2 DEF Reconciled
    <3>2. "reconciliation_required" \in OperationStatus /\ "reconciliation_required" \notin LiveOperation
      BY Zenon DEF OperationStatus, LiveOperation
    <3> QED BY <3>1, <3>2, StatusMoves, Zenon
  <2> QED BY Zenon, <2>1, <2>2
<1>2. connection \in [Sessions -> ConnectionRow]
  BY Zenon DEF LinkInv, LinkShape
<1>3. /\ connection' \in [Sessions -> ConnectionRow]
      /\ \A s \in Sessions : connection'[s].login = connection[s].login /\ (Exists(s) <=> Exists(s)')
      /\ \A s \in Sessions : connection'[s].operation # connection[s].operation =>
                                connection[s].operation = o
  <2>1. CASE connection' = connection
    BY Zenon, <1>2, <2>1 DEF Exists
  <2>2. CASE \E code : connection' = ReleasedFence(o, code)
    <3>1. PICK t : t = lifecycle[o].target
      BY Zenon
    <3>2. t \in Sessions
      BY Zenon, <3>1 DEF LinkInv, OperationSound
    <3>3. CASE connection[t].operation = o /\ connection' = [connection EXCEPT ![t].operation = NoOperation]
      <4>1. PICK y : y = [connection[t] EXCEPT !.operation = NoOperation]
        BY Zenon
      <4>2. /\ y \in ConnectionRow /\ y.login = connection[t].login
            /\ y.status = connection[t].status
        BY Zenon, <1>2, <3>2, <4>1 DEF ConnectionRow
      <4>3. connection' = [connection EXCEPT ![t] = y]
        BY Zenon, <1>2, <3>2, <3>3, <4>1
      <4> QED BY Zenon, <1>2, <3>2, <3>3, <4>2, <4>3 DEF Exists
    <3> QED BY Zenon, <2>1, <2>2, <3>1, <3>3 DEF ReleasedFence
  <2> QED BY Zenon, <2>1, <2>2
<1> QED BY Zenon, <1>1, <1>3 DEF RowsMove

\* markLifecycleProviderPending: a live operation stays live.
LEMMA ClaimKeepsInv ==
    ASSUME LinkInv, NEW c \in linkCalls, claim(c)
    PROVE  LinkInv'
<1>1. PICK o : o = c.key
  BY Zenon
<1>2. /\ o \in Operations /\ c.kind = "claim" /\ lifecycle[o].status # "absent"
      /\ c.target \in Sessions /\ c.generation \in Nat
      /\ UNCHANGED <<session, connection, diedCommitting>>
  BY Zenon, <1>1 DEF claim, LinkInv, CallBacked
<1>3. CASE lifecycle[o].status # "pending"
  <2>1. lifecycle' = lifecycle /\ CallsMove({c}, {})
    BY Zenon, <1>1, <1>3 DEF claim, CallsMove
  <2>2. \A s : Blocked(s) <=> Blocked(s)'
    BY Zenon, <1>2, <2>1, BlockedStays
  <2> QED BY <1>2, <2>1, <2>2, NoRowStep
<1>4. CASE lifecycle[o].status = "pending"
  <2>1. lifecycle' = [lifecycle EXCEPT ![o].status = "provider_pending"]
    BY Zenon, <1>1, <1>4 DEF claim
  <2>2. RowsMove(o) /\ lifecycle'[o].status = "provider_pending"
    BY <1>2, <1>4, <2>1, StatusMoves, Zenon DEF OperationStatus, LiveOperation
  <2>3. PICK n : n = Call(IF o \in Relinks THEN "start" ELSE "disconnect", o, c.target, c.generation, "")
    BY Zenon
  <2>4. /\ n.kind = (IF o \in Relinks THEN "start" ELSE "disconnect")
        /\ n.key = o /\ n.target = c.target /\ n.generation = c.generation
    BY Zenon, <2>3 DEF Call
  <2>5. CallBacked(n)' /\ n.kind # "finish"
    BY Zenon, <1>2, <2>2, <2>4 DEF CallBacked, Operations, Sessions
  <2>6. CallsMove({c}, {n})
    BY Zenon, <1>1, <1>4, <2>3 DEF claim, CallsMove
  <2> QED BY Zenon, <1>2, <2>2, <2>5, <2>6, OperationStep
<1> QED BY Zenon, <1>3, <1>4

\* The end of a disconnect, whatever the gateway answered.
LEMMA DisconnectedKeepsInv ==
    ASSUME LinkInv, NEW c \in linkCalls, disconnected(c)
    PROVE  LinkInv'
<1>1. PICK o, t : o = c.key /\ t = c.target
  BY Zenon
<1>2. /\ o \in Disconnects /\ o \in Operations /\ o \notin Relinks /\ c.kind = "disconnect"
      /\ lifecycle[o].status # "absent" /\ UNCHANGED <<session, diedCommitting>>
      /\ CallsMove({c}, {})
  <2>1. o \in Disconnects /\ o \in Operations /\ o \notin Relinks
    BY Zenon, <1>1, LinkBounds DEF disconnected, LinkInv, CallBacked, Operations, Sessions
  <2> QED BY Zenon, <1>1, <2>1 DEF disconnected, LinkInv, CallBacked, CallsMove
<1>3. RowsMove(o)
  <2>1. CASE /\ lifecycle[o].status \in LiveOperation /\ connection' = connection
             /\ lifecycle' = [lifecycle EXCEPT ![o].status = "succeeded"]
    BY <1>2, <2>1, StatusMoves, Zenon DEF OperationStatus, SettledOperation, LiveOperation
  <2>2. CASE /\ lifecycle' = Reconciled(o)
             /\ connection' = connection \/ \E code : connection' = ReleasedFence(o, code)
    BY Zenon, <1>2, <2>2, ReconcileMoves
  <2> QED BY Zenon, <1>1, <2>1, <2>2 DEF disconnected, completeConnectionDisconnect
<1> QED BY <1>2, <1>3, OperationStep

\* startProvider: the session goes on, or ends with nothing attached and its
\* operation is marked.
LEMMA StartProviderKeepsInv ==
    ASSUME LinkInv, NEW c \in linkCalls, startProvider(c)
    PROVE  LinkInv'
<1>1. PICK s : s = c.key
  BY Zenon
<1>2. /\ s \in Sessions /\ c.kind = "start" /\ ~Blocked(s) /\ diedCommitting' = diedCommitting
      /\ CallsMove({c}, {}) /\ (s \in Relinks => s \in Operations /\ lifecycle[s].status # "absent")
  BY Zenon, <1>1, SessionNames DEF startProvider, LinkInv, CallBacked, CallsMove
<1>3. \A y : Blocked(y) <=> Blocked(y)'
  BY Zenon, <1>2, BlockedStays
<1>4. CASE OpenSession(s) /\ session' = [session EXCEPT ![s].status = "awaiting_user", ![s].ref = TRUE]
           /\ UNCHANGED <<lifecycle, connection>>
  <2>1. PICK x : x = [session[s] EXCEPT !.status = "awaiting_user", !.ref = TRUE]
    BY Zenon
  <2>2. x \in SessionRow /\ x.status = "awaiting_user"
    BY <1>2, <1>4, <2>1, OpenIsSound, Zenon DEF SessionRow
  <2>3. session' = [session EXCEPT ![s] = x]
    BY <1>2, <1>4, <2>1, Zenon DEF LinkInv, LinkShape
  <2>4. SessionMoves(s, x)
    BY <1>2, <1>4, <2>2, <2>3, Zenon DEF SessionMoves
  <2>5. SessionSound(s)'
    BY Zenon, <1>2, <1>3, <1>4, <2>2, <2>4, OpenedIsSound DEF EndedStatus
  <2> QED BY <1>2, <2>4, <2>5, SessionStep
<1>5. ASSUME NEW code, StartFailed(c, code)
      PROVE  \/ UNCHANGED <<lifecycle, connection>>
             \/ /\ s \in Relinks /\ RowsMove(s)
                /\ lifecycle'[s].status = "succeeded" => lifecycle[s].status = "succeeded"
  <2>1. CASE s \in Relinks /\ lifecycle' = Reconciled(s) /\ connection' = ReleasedFence(s, code)
    BY Zenon, <1>2, <2>1, ReconcileMoves
  <2> QED BY Zenon, <1>1, <1>5, <2>1 DEF StartFailed
<1>6. ASSUME NEW code, StartFailed(c, code), session' = session
      PROVE  LinkInv'
  <2>1. CASE UNCHANGED <<lifecycle, connection>>
    BY <1>2, <1>3, <1>6, <2>1, NoRowStep
  <2>2. CASE s \in Relinks /\ RowsMove(s)
             /\ (lifecycle'[s].status = "succeeded" => lifecycle[s].status = "succeeded")
    BY <1>2, <1>6, <2>2, OperationStep
  <2> QED BY Zenon, <1>5, <1>6, <2>1, <2>2
<1>7. ASSUME NEW code, StartFailed(c, code), OpenSession(s), session' = EndedAs(s, "failed")
      PROVE  LinkInv'
  <2>1. PICK x : x = [session[s] EXCEPT !.status = "failed", !.ref = FALSE]
    BY Zenon
  <2>2. x \in SessionRow /\ x.status = "failed"
    BY <1>2, <1>7, <2>1, OpenIsSound, Zenon DEF SessionRow, EndedStatus
  <2>3. session' = [session EXCEPT ![s] = x]
    BY <1>2, <1>7, <2>1, Zenon DEF EndedAs, LinkInv, LinkShape
  <2>4. /\ session' \in [Sessions -> SessionRow] /\ session'[s] = x
        /\ \A y \in Sessions : y # s => session'[y] = session[y]
    BY Zenon, <1>2, <2>2, <2>3 DEF LinkInv, LinkShape
  <2>5. RowsSound /\ (\A y \in Sessions : Exists(y) <=> Exists(y)')
        /\ (\A y \in Relinks :
              /\ lifecycle[y].status # "absent" => lifecycle'[y].status # "absent"
              /\ lifecycle'[y].status = "succeeded" => lifecycle[y].status = "succeeded")
    <3>1. CASE UNCHANGED <<lifecycle, connection>>
      BY Zenon, <3>1, RowsUnchangedSound DEF Exists
    <3>2. CASE s \in Relinks /\ RowsMove(s)
               /\ (lifecycle'[s].status = "succeeded" => lifecycle[s].status = "succeeded")
      BY Zenon, <1>2, <3>2, RowsMoveSound DEF RowsMove, Operations
    <3> QED BY Zenon, <1>5, <1>7, <3>1, <3>2
  <2>6. SessionSound(s)'
    <3>1. s \notin diedCommitting => ~Exists(s) /\ (s \in Relinks => lifecycle[s].status # "succeeded")
      BY Zenon, <1>2, <1>7, OpenIsSound
    <3> QED BY Zenon, <1>2, <2>2, <2>4, <2>5, <3>1 DEF SessionSound, OpenSession, existing, EndedStatus
  <2>7. ASSUME NEW y \in Sessions PROVE SessionSound(y)'
    <3>1. CASE y # s
      <4>1. SessionSound(y) /\ session'[y] = session[y]
        BY Zenon, <2>4, <3>1 DEF LinkInv
      <4> QED BY Zenon, <1>2, <1>3, <2>5, <4>1, SessionStaysSound
    <3> QED BY Zenon, <2>6, <3>1
  <2>8. \A y \in Sessions : existing(y) => existing(y)'
    BY Zenon, <2>2, <2>4 DEF existing
  <2> QED BY <1>2, <2>4, <2>5, <2>7, <2>8, RowsStep
<1> QED BY Zenon, <1>1, <1>4, <1>6, <1>7 DEF startProvider, Accepts

\* The same for an operation the step itself inserts.
LEMMA InsertedIsBacked ==
    ASSUME NEW o \in Operations, NEW t \in Sessions, NEW status,
           lifecycle'[o].status # "absent", NEW c \in Resume(o, t, status)
    PROVE  CallBacked(c)' /\ c.kind # "finish"
BY DEF Resume, Call, CallBacked, Operations

\* The batch of beginOperation: whoever takes the connection takes it from a
\* settled operation, or from a relink that the same batch fails.
LEMMA BeginBatchKeepsInv ==
    ASSUME LinkInv, NEW c \in linkCalls, beginBatch(c)
    PROVE  LinkInv'
<1>1. PICK o, t : o = c.key /\ t = c.target
  BY Zenon
<1>2. /\ o \in Operations /\ t \in Sessions /\ Exists(t) /\ c.kind = "begin"
      /\ c.generation \in Nat /\ lifecycle[o].status = "absent"
      /\ UNCHANGED <<session, diedCommitting>>
  BY Zenon, <1>1 DEF beginBatch, LinkInv, CallBacked
<1>3. PICK took \in BOOLEAN : took <=> connection[t].generation = c.generation /\ MayTake(o, t)
  BY Zenon
<1>4. PICK row : row = [status |-> IF took THEN "pending" ELSE "failed",
                        target |-> t, generation |-> c.generation]
  BY Zenon
<1>5. /\ row \in OperationRow /\ row.target = t /\ row.status \in {"pending", "failed"}
      /\ row.status = "pending" => took
  BY Zenon, <1>2, <1>4 DEF OperationRow, OperationStatus, LiveOperation, SettledOperation
<1>6. lifecycle' = [supersedeRelinks(o, t) EXCEPT ![o] = row]
  BY Zenon, <1>1, <1>3, <1>4 DEF beginBatch
<1>7. lifecycle \in [Operations -> OperationRow] /\ connection \in [Sessions -> ConnectionRow]
  BY Zenon DEF LinkInv, LinkShape
<1>8. /\ supersedeRelinks(o, t) \in [Operations -> OperationRow]
      /\ \A x \in Operations :
            \/ supersedeRelinks(o, t)[x] = lifecycle[x]
               /\ ~(o \in Disconnects /\ x \in Relinks /\ lifecycle[x].target = t
                    /\ lifecycle[x].status \in LiveOperation)
            \/ /\ supersedeRelinks(o, t)[x].status = "failed"
               /\ supersedeRelinks(o, t)[x].target = lifecycle[x].target
               /\ lifecycle[x].status # "absent"
  <2>1. ASSUME NEW x \in Operations
        PROVE  /\ [lifecycle[x] EXCEPT !.status = "failed"] \in OperationRow
               /\ [lifecycle[x] EXCEPT !.status = "failed"].status = "failed"
               /\ [lifecycle[x] EXCEPT !.status = "failed"].target = lifecycle[x].target
    BY Zenon, <1>7 DEF OperationRow, OperationStatus, SettledOperation
  <2> QED BY Zenon, <1>7, <2>1 DEF supersedeRelinks, LiveOperation
<1>9. /\ lifecycle' \in [Operations -> OperationRow] /\ lifecycle'[o] = row
      /\ \A x \in Operations : x # o => lifecycle'[x] = supersedeRelinks(o, t)[x]
  BY Zenon, <1>2, <1>5, <1>6, <1>8
<1>10. /\ connection' \in [Sessions -> ConnectionRow]
       /\ \A s \in Sessions : connection'[s].login = connection[s].login /\ (Exists(s) <=> Exists(s)')
       /\ \A s \in Sessions : ~took \/ s # t => connection'[s] = connection[s]
       /\ took => connection'[t].operation = o
  <2>1. CASE ~took
    <3>1. connection' = connection
      BY Zenon, <1>1, <1>3, <2>1 DEF beginBatch
    <3> QED BY Zenon, <1>7, <2>1, <3>1 DEF Exists
  <2>2. CASE took /\ o \in Disconnects
    <3>1. PICK y : y = [connection[t] EXCEPT !.status = "disconnected", !.operation = o,
                                             !.generation = connection[t].generation + 1]
      BY Zenon
    <3>2. /\ y \in ConnectionRow /\ y.login = connection[t].login /\ y.operation = o
          /\ y.status = "disconnected"
      <4>1. connection[t] \in ConnectionRow
        BY Zenon, <1>2, <1>7
      <4>2. connection[t].generation + 1 \in Nat
        BY <4>1 DEF ConnectionRow
      <4> QED BY <1>2, <3>1, <4>1, <4>2, Zenon DEF ConnectionRow
    <3>3. connection' = [connection EXCEPT ![t] = y]
      BY <1>1, <1>2, <1>3, <1>7, <2>2, <3>1, Zenon DEF beginBatch
    <3> QED BY Zenon, <1>2, <1>7, <2>2, <3>2, <3>3 DEF Exists
  <2>3. CASE took /\ o \notin Disconnects
    <3>1. PICK y : y = [connection[t] EXCEPT !.operation = o]
      BY Zenon
    <3>2. /\ y \in ConnectionRow /\ y.login = connection[t].login /\ y.operation = o
          /\ y.status = connection[t].status
      BY Zenon, <1>2, <1>7, <3>1 DEF ConnectionRow
    <3>3. connection' = [connection EXCEPT ![t] = y]
      BY Zenon, <1>1, <1>2, <1>3, <1>7, <2>3, <3>1 DEF beginBatch
    <3> QED BY Zenon, <1>2, <1>7, <2>3, <3>2, <3>3 DEF Exists
  <2> QED BY Zenon, <2>1, <2>2, <2>3
<1>11. OneConnectionPerLogin' /\ \A s \in Sessions : ConnectionSound(s)'
  BY Zenon, <1>10, LoginsStay
<1>12. ASSUME NEW x \in Operations PROVE OperationSound(x)'
  <2>1. OperationSound(x)
    BY Zenon DEF LinkInv
  <2>2. CASE x = o
    BY Zenon, <1>2, <1>5, <1>9, <1>10, <2>2 DEF OperationSound, LiveOperation
  <2>3. CASE x # o /\ lifecycle'[x].status = "failed" /\ lifecycle'[x].target = lifecycle[x].target
             /\ lifecycle[x].status # "absent"
    BY Zenon, <1>10, <2>1, <2>3 DEF OperationSound, LiveOperation
  <2>4. CASE x # o /\ lifecycle'[x] = lifecycle[x]
             /\ ~(o \in Disconnects /\ x \in Relinks /\ lifecycle[x].target = t
                  /\ lifecycle[x].status \in LiveOperation)
    <3>1. ASSUME lifecycle[x].status \in LiveOperation
          PROVE  ~took \/ lifecycle[x].target # t
      <4>1. SUFFICES ASSUME took, lifecycle[x].target = t PROVE FALSE
        BY Zenon
      <4>2. connection[t].operation = x /\ x # NoOperation
        BY Zenon, <2>1, <3>1, <4>1, LinkBounds DEF OperationSound, LiveOperation
      <4>3. ~SettledOwner(x)
        BY Zenon, <3>1, <4>2 DEF SettledOwner, LiveOperation, SettledOperation
      <4> QED BY Zenon, <1>3, <2>4, <3>1, <4>1, <4>2, <4>3 DEF MayTake
    <3>2. lifecycle[x].status \in LiveOperation =>
             connection'[lifecycle[x].target].operation = connection[lifecycle[x].target].operation
      BY Zenon, <1>10, <2>1, <3>1 DEF OperationSound, LiveOperation
    <3> QED BY Zenon, <1>10, <2>1, <2>4, <3>2, OperationStaysSound
  <2> QED BY Zenon, <1>8, <1>9, <2>2, <2>3, <2>4
<1>13. \A x \in Operations : lifecycle[x].status # "absent" =>
          lifecycle'[x].status # "absent" /\ lifecycle'[x].target = lifecycle[x].target
  BY Zenon, <1>2, <1>8, <1>9
<1>14. RowsSound
  BY Zenon, <1>9, <1>10, <1>11, <1>12, <1>13 DEF RowsSound
<1>15. PICK N : /\ CallsMove({c}, N)
                /\ N = IF took THEN Resume(o, t, "pending") ELSE {}
  BY <1>1, <1>3, Zenon DEF beginBatch, CallsMove
<1>16. \A n \in N : CallBacked(n)' /\ n.kind # "finish"
  BY Zenon, <1>2, <1>5, <1>9, <1>15, InsertedIsBacked
<1>17. \A s : Blocked(s) <=> Blocked(s)'
  BY Zenon, <1>2, <1>15, <1>16, BlockedStays
<1>18. ASSUME NEW s \in Sessions PROVE SessionSound(s)'
  <2>1. SessionSound(s)
    BY Zenon DEF LinkInv
  <2>2. s \in Relinks =>
           /\ lifecycle[s].status # "absent" => lifecycle'[s].status # "absent"
           /\ lifecycle'[s].status = "succeeded" => lifecycle[s].status = "succeeded"
    BY Zenon, <1>5, <1>8, <1>9, <1>13, SessionNames
  <2> QED BY Zenon, <1>2, <1>10, <1>17, <2>1, <2>2, SessionStaysSound
<1>19. session' \in [Sessions -> SessionRow] /\ \A s \in Sessions : existing(s) => existing(s)'
  BY Zenon, <1>2 DEF LinkInv, LinkShape, existing
<1> QED BY Zenon, <1>14, <1>15, <1>16, <1>18, <1>19, RowsStep

-----------------------------------------------------------------------------
(* The commits *)

\* The object writes the outcome of a commit, or dies before it has.
SettlesSession(s, status) ==
    \/ session' = EndedAs(s, status) /\ diedCommitting' = diedCommitting
    \/ session' = session /\ diedCommitting' = diedCommitting \cup {s}

(* Storing the outcome of a commit in its session, or losing the object before
   the put, leaves that session sound and every other one as it was. *)
LEMMA SettledIsSound ==
    ASSUME LinkInv, NEW s \in Sessions, existing(s),
           NEW status \in {"connected", "reconciliation_required", "relink_required"},
           SettlesSession(s, status), s \in Relinks => lifecycle'[s].status # "absent",
           status = "relink_required" => s \notin Relinks /\ ~Exists(s)'
    PROVE  /\ session' \in [Sessions -> SessionRow]
           /\ \A y \in Sessions : y # s => session'[y] = session[y]
           /\ \A y \in Sessions : existing(y) => existing(y)'
           /\ diedCommitting \subseteq diedCommitting'
           /\ SessionSound(s)'
<1>1. session \in [Sessions -> SessionRow]
  BY Zenon DEF LinkInv, LinkShape
<1>2. CASE session' = session /\ diedCommitting' = diedCommitting \cup {s}
  BY Zenon, <1>1, <1>2 DEF SessionSound, existing, OpenSession
<1>3. CASE session' = EndedAs(s, status) /\ diedCommitting' = diedCommitting
  <2>1. PICK x : x = [session[s] EXCEPT !.status = status, !.ref = FALSE]
    BY Zenon
  <2>2. x \in SessionRow /\ x.status = status
    BY <1>1, <2>1, Zenon DEF SessionRow, EndedStatus
  <2>3. session' = [session EXCEPT ![s] = x]
    BY <1>1, <1>3, <2>1, Zenon DEF EndedAs
  <2>4. /\ session' \in [Sessions -> SessionRow] /\ session'[s] = x
        /\ \A y \in Sessions : y # s => session'[y] = session[y]
    BY Zenon, <1>1, <2>2, <2>3
  <2>5. \A y \in Sessions : existing(y) => existing(y)'
    BY Zenon, <2>2, <2>4 DEF existing
  <2>6. SessionSound(s)'
    BY Zenon, <2>2, <2>4 DEF SessionSound, OpenSession, existing, EndedStatus, Unlinked
  <2> QED BY Zenon, <1>3, <2>4, <2>5, <2>6
<1> QED BY Zenon, <1>2, <1>3 DEF SettlesSession

\* A commit of session s: the rows stay sound, no other session or relink is
\* affected, and s is settled.
CommitMoves(s, status) ==
    /\ SettlesSession(s, status)
    /\ s \in Relinks => lifecycle'[s].status # "absent"
    /\ status = "relink_required" => s \notin Relinks /\ ~Exists(s)'
    /\ \A y \in Sessions : y # s => (Exists(y) <=> Exists(y)')
    /\ \A y \in Relinks : y # s =>
          /\ lifecycle[y].status # "absent" => lifecycle'[y].status # "absent"
          /\ lifecycle'[y].status = "succeeded" => lifecycle[y].status = "succeeded"

(* The commit of an answer, whatever its outcome, keeps the invariant when it
   leaves the rows sound. *)
LEMMA CommitStep ==
    ASSUME LinkInv, RowsSound, NEW s \in Sessions, existing(s),
           NEW status \in {"connected", "reconciliation_required", "relink_required"},
           CommitMoves(s, status), NEW c \in linkCalls, c.key = s, CallsMove({c}, {})
    PROVE  LinkInv'
<1>1. /\ session' \in [Sessions -> SessionRow]
      /\ \A y \in Sessions : y # s => session'[y] = session[y]
      /\ \A y \in Sessions : existing(y) => existing(y)'
      /\ diedCommitting \subseteq diedCommitting'
      /\ SessionSound(s)'
  BY Zenon, SettledIsSound DEF CommitMoves
<1>2. ASSUME NEW y \in Sessions PROVE SessionSound(y)'
  <2>1. CASE y # s
    <3>1. SessionSound(y) /\ session'[y] = session[y] /\ (Exists(y) <=> Exists(y)')
      BY Zenon, <1>1, <2>1 DEF LinkInv, CommitMoves
    <3>2. Blocked(y) => Blocked(y)'
      BY Zenon, <2>1 DEF Blocked, CallsMove
    <3>3. y \in Relinks =>
             /\ lifecycle[y].status # "absent" => lifecycle'[y].status # "absent"
             /\ lifecycle'[y].status = "succeeded" => lifecycle[y].status = "succeeded"
      BY Zenon, <2>1 DEF CommitMoves
    <3> QED BY Zenon, <1>1, <3>1, <3>2, <3>3, SessionStaysSound
  <2> QED BY Zenon, <1>1, <2>1
<1> QED BY <1>1, <1>2, RowsStep

\* An account is attached only when no connection has its login, and to a row
\* that no operation is about.
LEMMA LinkedSound ==
    ASSUME LinkInv, NEW s \in Sessions, NEW login \in Logins, ~Exists(s), ~Taken(login),
           connection' = Linked(s, login), lifecycle' = lifecycle
    PROVE  RowsSound /\ \A y \in Sessions : y # s => (Exists(y) <=> Exists(y)')
<1>1. lifecycle \in [Operations -> OperationRow] /\ connection \in [Sessions -> ConnectionRow]
  BY Zenon DEF LinkInv, LinkShape
<1>2. PICK x : x = [status |-> "connected", login |-> login, generation |-> 1,
                    operation |-> NoOperation]
  BY Zenon
<1>3. x \in ConnectionRow /\ x.status = "connected" /\ x.login = login
  BY Zenon, <1>2 DEF ConnectionRow
<1>4. /\ connection' \in [Sessions -> ConnectionRow] /\ connection'[s] = x
      /\ \A y \in Sessions : y # s => connection'[y] = connection[y]
  BY Zenon, <1>1, <1>2, <1>3 DEF Linked
<1>5. Exists(s)' /\ \A y \in Sessions : y # s => (Exists(y) <=> Exists(y)')
  BY Zenon, <1>3, <1>4 DEF Exists
<1>6. OneConnectionPerLogin'
  <2>1. \A y \in Sessions : connection[y].login # login
    BY Zenon DEF Taken
  <2> QED BY <1>3, <1>4, <1>5, <2>1 DEF LinkInv, OneConnectionPerLogin
<1>7. \A y \in Sessions : ConnectionSound(y)'
  BY Zenon, <1>3, <1>4, <1>5 DEF LinkInv, ConnectionSound
<1>8. ASSUME NEW o \in Operations PROVE OperationSound(o)'
  <2>1. OperationSound(o)
    BY Zenon DEF LinkInv
  <2>2. lifecycle[o].status # "absent" => lifecycle[o].target \in Sessions /\ lifecycle[o].target # s
    BY Zenon, <2>1 DEF OperationSound
  <2>3. lifecycle[o].status \in LiveOperation =>
           connection'[lifecycle[o].target].operation = connection[lifecycle[o].target].operation
    BY Zenon, <1>4, <2>2 DEF LiveOperation
  <2>4. \A y \in Sessions : Exists(y) => Exists(y)'
    BY Zenon, <1>5
  <2> QED BY Zenon, <2>1, <2>3, <2>4, OperationStaysSound
<1> QED BY Zenon, <1>1, <1>4, <1>5, <1>6, <1>7, <1>8 DEF RowsSound

\* commit: whatever D1 answers, the session is settled or its object has died.
LEMMA CommitKeepsInv ==
    ASSUME LinkInv, NEW c \in linkCalls, commit(c)
    PROVE  LinkInv'
<1>1. PICK s, login : s = c.key /\ login = c.value
  BY Zenon
<1>2. /\ s \in LinkSessions /\ s \in Sessions /\ s \notin Relinks /\ login \in Logins
      /\ OpenSession(s) /\ existing(s) /\ lifecycle' = lifecycle /\ CallsMove({c}, {})
  BY Zenon, <1>1, LinkBounds DEF commit, Accepts, OpenSession, existing, CallsMove, Sessions
<1>3. PICK status \in {"connected", "reconciliation_required", "relink_required"} :
         /\ SettlesSession(s, status)
         /\ \/ connection' = connection /\ (status = "relink_required" => ~Exists(s))
            \/ /\ status # "relink_required" /\ ~Exists(s) /\ ~Taken(login)
               /\ connection' = Linked(s, login)
  <2>1. ASSUME NEW x, PutOrDie(s, x) PROVE SettlesSession(s, x)
    BY Zenon, <2>1 DEF PutOrDie, SettlesSession
  <2>2. CASE commitLinkedAccount(s, login)
    <3>1. CASE PutOrDie(s, "connected") /\ connection' = connection
      BY Zenon, <2>1, <3>1
    <3>2. CASE duplicate(s, login)
      BY Zenon, <2>1, <3>2 DEF duplicate
    <3>3. CASE ~Exists(s) /\ ~Taken(login) /\ connection' = Linked(s, login) /\ PutOrDie(s, "connected")
      BY Zenon, <2>1, <3>3
    <3>4. CASE PutOrDie(s, "reconciliation_required") /\ connection' = connection
      BY Zenon, <2>1, <3>4
    <3> QED BY Zenon, <2>2, <3>1, <3>2, <3>3, <3>4 DEF commitLinkedAccount, getExistingSessionCommit
  <2>3. CASE commitLost(s, login)
    BY Zenon, <2>3 DEF commitLost, SettlesSession
  <2> QED BY Zenon, <1>1, <2>2, <2>3 DEF commit
<1>4. RowsSound /\ \A y \in Sessions : y # s => (Exists(y) <=> Exists(y)')
  <2>1. CASE connection' = connection
    BY Zenon, <1>2, <2>1, RowsUnchangedSound DEF Exists
  <2>2. CASE ~Exists(s) /\ ~Taken(login) /\ connection' = Linked(s, login)
    BY Zenon, <1>2, <2>2, LinkedSound
  <2> QED BY Zenon, <1>3, <2>1, <2>2
<1>5. CommitMoves(s, status)
  BY Zenon, <1>2, <1>3, <1>4 DEF CommitMoves, Exists
<1> QED BY Zenon, <1>1, <1>2, <1>4, <1>5, CommitStep

\* A relink's own rows move, and its session is settled.
LEMMA RelinkMoves ==
    ASSUME NEW r \in Relinks, RowsMove(r), NEW status \in {"connected", "reconciliation_required"},
           PutOrDie(r, status)
    PROVE  CommitMoves(r, status)
<1>1. SettlesSession(r, status)
  BY Zenon DEF PutOrDie, SettlesSession
<1> QED BY Zenon, <1>1 DEF CommitMoves, RowsMove, Operations

\* RelinkRefused: the relink is to be reconciled and attaches nothing.
LEMMA RefusedRelinkMoves ==
    ASSUME LinkInv, NEW r \in Relinks, lifecycle[r].status # "absent", RelinkRefused(r)
    PROVE  RowsMove(r) /\ CommitMoves(r, "reconciliation_required")
<1>1. r \in Operations /\ lifecycle' = Reconciled(r) /\ connection' = connection
      /\ PutOrDie(r, "reconciliation_required")
  BY Zenon DEF RelinkRefused, Operations
<1>2. RowsMove(r)
  BY Zenon, <1>1, ReconcileMoves
<1> QED BY Zenon, <1>1, <1>2, RelinkMoves

\* completeConnectionRelink up to its first batch.
LEMMA CommitRelinkKeepsInv ==
    ASSUME LinkInv, NEW c \in linkCalls, commitRelink(c)
    PROVE  LinkInv'
<1>1. PICK r, t : r = c.key /\ t = lifecycle[r].target
  BY Zenon
<1>2. /\ r \in Relinks /\ r \in Sessions /\ r \in Operations /\ c.value \in Logins
      /\ c.kind = "answer" /\ OpenSession(r) /\ existing(r) /\ ~Blocked(r)
  BY Zenon, <1>1 DEF commitRelink, Accepts, OpenSession, existing, Sessions, Operations
<1>3. lifecycle[r].status # "absent" /\ t \in Sessions /\ c.target \in Sessions /\ c.generation \in Nat
  BY Zenon, <1>1, <1>2, OpenIsSound DEF LinkInv, OperationSound, CallBacked
<1>4. CASE /\ PutOrDie(r, "connected") /\ linkCalls' = linkCalls \ {c}
           /\ UNCHANGED <<lifecycle, connection>>
  <2>1. RowsSound
    BY Zenon, <1>4, RowsUnchangedSound
  <2>2. CommitMoves(r, "connected")
    BY Zenon, <1>3, <1>4 DEF CommitMoves, PutOrDie, SettlesSession, Exists
  <2> QED BY Zenon, <1>1, <1>2, <1>4, <2>1, <2>2, CommitStep DEF CallsMove
<1>5. CASE RelinkRefused(r) /\ linkCalls' = linkCalls \ {c}
  <2>1. RowsMove(r) /\ CommitMoves(r, "reconciliation_required")
    BY Zenon, <1>2, <1>3, <1>5, RefusedRelinkMoves
  <2> QED BY Zenon, <1>1, <1>2, <1>5, <2>1, CommitStep, RowsMoveSound DEF CallsMove
<1>6. CASE /\ RelinkFenced(r) /\ connection[t].login = c.value
           /\ lifecycle' = [lifecycle EXCEPT ![r].status = "succeeded"]
           /\ connection' = [connection EXCEPT ![t].status = "connected",
                                 ![t].operation = r, ![t].generation = @ + 1]
           /\ PutOrDie(r, "connected") /\ linkCalls' = linkCalls \ {c}
  <2>1. /\ lifecycle' \in [Operations -> OperationRow]
        /\ \A x \in Operations : x # r => lifecycle'[x] = lifecycle[x]
        /\ lifecycle'[r].status = "succeeded" /\ lifecycle'[r].target = lifecycle[r].target
    BY Zenon, <1>2, <1>3, <1>6, StatusMoves DEF OperationStatus, SettledOperation, LiveOperation
  <2>2. connection \in [Sessions -> ConnectionRow] /\ connection[t] \in ConnectionRow
    BY Zenon, <1>3 DEF LinkInv, LinkShape
  <2>3. Exists(t)
    BY Zenon, <1>1, <1>2, <1>3 DEF LinkInv, OperationSound
  <2>4. PICK y : y = [connection[t] EXCEPT !.status = "connected", !.operation = r,
                                           !.generation = connection[t].generation + 1]
    BY Zenon
  <2>5. /\ y \in ConnectionRow /\ y.login = connection[t].login /\ y.operation = r
        /\ y.status = "connected"
    <3>1. connection[t].generation + 1 \in Nat
      BY <2>2 DEF ConnectionRow
    <3> QED BY <1>2, <2>2, <2>4, <3>1, Zenon DEF ConnectionRow
  <2>6. connection' = [connection EXCEPT ![t] = y]
    BY <1>3, <1>6, <2>2, <2>4, Zenon
  <2>7. connection[t].operation = r
    BY Zenon, <1>1, <1>6 DEF RelinkFenced
  <2>8. /\ connection' \in [Sessions -> ConnectionRow]
        /\ \A s \in Sessions : connection'[s].login = connection[s].login /\ (Exists(s) <=> Exists(s)')
        /\ \A s \in Sessions : connection'[s].operation = connection[s].operation
    BY Zenon, <1>3, <2>2, <2>3, <2>5, <2>6, <2>7 DEF Exists
  <2>9. RowsMove(r)
    BY Zenon, <1>3, <2>1, <2>8 DEF RowsMove, LiveOperation
  <2>10. CommitMoves(r, "connected")
    BY Zenon, <1>2, <1>6, <2>9, RelinkMoves
  <2> QED BY Zenon, <1>1, <1>2, <1>6, <2>9, <2>10, CommitStep, RowsMoveSound DEF CallsMove
<1>7. CASE /\ lifecycle[r].status # "succeeded" /\ (Exists(r) \/ ~Taken(c.value))
           /\ connection' = IF Exists(r) THEN connection ELSE Linked(r, c.value)
           /\ linkCalls' = (linkCalls \ {c}) \cup
                 {Call("finish", r, t, c.generation, IF Exists(r) THEN "old" ELSE "new")}
           /\ UNCHANGED <<lifecycle, session, diedCommitting>>
  <2>1. RowsSound /\ \A y \in Sessions : y # r => (Exists(y) <=> Exists(y)')
    <3>1. CASE Exists(r)
      BY Zenon, <1>7, <3>1, RowsUnchangedSound DEF Exists
    <3>2. CASE ~Exists(r)
      BY Zenon, <1>2, <1>7, <3>2, LinkedSound
    <3> QED BY Zenon, <3>1, <3>2
  <2>2. PICK n : n = Call("finish", r, t, c.generation, IF Exists(r) THEN "old" ELSE "new")
    BY Zenon
  <2>3. n.kind = "finish" /\ n.key = r /\ n.target = t /\ n.generation = c.generation
    BY Zenon, <2>2 DEF Call
  <2>4. CallBacked(n)' /\ CallsMove({c}, {n})
    BY Zenon, <1>2, <1>3, <1>7, <2>2, <2>3 DEF CallBacked, CallsMove, existing
  <2>5. Blocked(r)' /\ \A s : Blocked(s) => Blocked(s)'
    BY Zenon, <1>2, <2>3, <2>4 DEF Blocked, CallsMove
  <2>6. ASSUME NEW s \in Sessions PROVE SessionSound(s)'
    <3>1. SessionSound(s) /\ session'[s] = session[s]
      BY Zenon, <1>7 DEF LinkInv
    <3>2. CASE s = r
      BY Zenon, <1>2, <1>3, <1>7, <2>5, <3>1, <3>2
         DEF SessionSound, OpenSession, existing, Unlinked, EndedStatus
    <3>3. CASE s # r
      BY Zenon, <1>7, <2>1, <2>5, <3>1, <3>3, SessionStaysSound
    <3> QED BY Zenon, <3>2, <3>3
  <2>7. session' \in [Sessions -> SessionRow] /\ \A s \in Sessions : existing(s) => existing(s)'
    BY Zenon, <1>7 DEF LinkInv, LinkShape, existing
  <2> QED BY Zenon, <2>1, <2>4, <2>6, <2>7, RowsStep
<1> QED BY Zenon, <1>1, <1>4, <1>5, <1>6, <1>7 DEF commitRelink

\* The second batch of a relink that met another login.
LEMMA FinishKeepsInv ==
    ASSUME LinkInv, NEW c \in linkCalls, finishReplacement(c)
    PROVE  LinkInv'
<1>1. PICK r : r = c.key
  BY Zenon
<1>2. /\ r \in Relinks /\ r \in Sessions /\ r \in Operations /\ existing(r)
      /\ lifecycle[r].status # "absent" /\ CallsMove({c}, {})
  BY Zenon, <1>1 DEF finishReplacement, LinkInv, CallBacked, CallsMove, Sessions, Operations
<1>3. PICK status \in {"connected", "reconciliation_required"} :
         RowsMove(r) /\ CommitMoves(r, status)
  <2>1. CASE /\ lifecycle[r].status \in LiveOperation /\ connection' = connection
             /\ lifecycle' = [lifecycle EXCEPT ![r].status = "succeeded"]
             /\ PutOrDie(r, "connected")
    <3>1. RowsMove(r)
      BY <1>2, <2>1, StatusMoves, Zenon DEF OperationStatus, SettledOperation, LiveOperation
    <3> QED BY Zenon, <1>2, <2>1, <3>1, RelinkMoves
  <2>2. CASE RelinkRefused(r)
    BY Zenon, <1>2, <2>2, RefusedRelinkMoves
  <2> QED BY Zenon, <1>1, <2>1, <2>2 DEF finishReplacement
<1> QED BY Zenon, <1>1, <1>2, <1>3, CommitStep, RowsMoveSound

-----------------------------------------------------------------------------
(* All steps together *)

(* The invariant holds of an empty directory. *)
LEMMA LinkInitInv == LinkInit => LinkInv
<1> SUFFICES ASSUME LinkInit PROVE LinkInv
  BY Zenon
<1>1. LinkShape
  BY Zenon DEF LinkInit, LinkShape, SessionRow, ConnectionRow, OperationRow, OperationStatus, NoConnection
<1>2. \A s \in Sessions : ~Exists(s) /\ connection[s].login = NoLogin /\ session[s].status = "absent"
  BY Zenon DEF LinkInit, Exists, NoConnection
<1>3. \A o \in Operations : lifecycle[o].status = "absent"
  BY Zenon DEF LinkInit
<1>4. \A s \in Sessions : SessionSound(s) /\ ConnectionSound(s)
  BY Zenon, <1>2, <1>3, SessionNames DEF SessionSound, ConnectionSound, existing, OpenSession, Unlinked
<1>5. linkCalls = {}
  BY Zenon DEF LinkInit
<1> QED BY Zenon, <1>1, <1>2, <1>3, <1>4, <1>5 DEF LinkInv, OneConnectionPerLogin, OperationSound

(* Every step of the routes, the session objects and the gateway keeps the
   invariant. *)
LEMMA LinkNextInv == LinkInv /\ [LinkNext]_linkVars => LinkInv'
<1> SUFFICES ASSUME LinkInv, [LinkNext]_linkVars PROVE LinkInv'
  BY Zenon
<1>1. ASSUME NEW s \in LinkSessions, createLinkSession(s) PROVE LinkInv'
  BY Zenon, <1>1, OpeningKeepsInv DEF Sessions
<1>2. ASSUME NEW s \in Sessions, expire(s) \/ refresh(s) \/ cancel(s) \/ poll(s) PROVE LinkInv'
  BY Zenon, <1>2, EndingKeepsInv, OpeningKeepsInv, PollKeepsInv
<1>3. ASSUME NEW o \in Operations, NEW t \in Sessions, beginOperation(o, t) PROVE LinkInv'
  BY Zenon, <1>3, BeginOperationKeepsInv
<1>4. ASSUME NEW c \in linkCalls,
             \/ beginReplay(c) \/ beginBatch(c) \/ createRelinkSession(c) \/ claim(c)
             \/ disconnected(c) \/ startProvider(c)
      PROVE  LinkInv'
  BY Zenon, <1>4, BeginReplayKeepsInv, BeginBatchKeepsInv, CreateRelinkKeepsInv, ClaimKeepsInv,
     DisconnectedKeepsInv, StartProviderKeepsInv
<1>5. ASSUME NEW c \in linkCalls,
             \/ providerEnded(c) \/ staleCommit(c) \/ commit(c) \/ commitRelink(c)
             \/ finishReplacement(c) \/ requestDies(c)
      PROVE  LinkInv'
  BY Zenon, <1>5, ProviderEndedKeepsInv, StaleCommitKeepsInv, CommitKeepsInv, CommitRelinkKeepsInv,
     FinishKeepsInv, RequestDiesKeepsInv
<1>6. CASE revokeAdministrator \/ UNCHANGED linkVars
  BY Zenon, <1>6, NothingKeepsInv DEF revokeAdministrator, linkVars
<1> QED BY Zenon, <1>1, <1>2, <1>3, <1>4, <1>5, <1>6 DEF LinkNext

-----------------------------------------------------------------------------
(* Late answers *)

\* What LateAnswersChangeNothing asks of a step.
LateStep ==
    \A s \in Sessions :
          /\ ~Exists(s) /\ connection'[s].status # "none" =>
                \E c \in linkCalls \ linkCalls' :
                   /\ c.kind = "answer" /\ c.key = s
                   /\ OpenSession(s) /\ c.generation = session[s].generation
          /\ connection[s].status = "disconnected" /\ connection'[s].status = "connected" =>
                \E r \in Relinks : /\ connection[s].operation = r
                                   /\ lifecycle[r].generation = connection[s].generation
                                   /\ lifecycle'[r].status = "succeeded"

\* A step that leaves the statuses alone, or disconnects what is there, asks
\* for nothing.
LEMMA StatusKeptIsLate ==
    ASSUME \A s \in Sessions : \/ connection'[s].status = connection[s].status
                               \/ Exists(s) /\ connection'[s].status = "disconnected"
    PROVE  LateStep
BY Zenon DEF LateStep, Exists

\* Releasing a fence leaves the statuses alone.
LEMMA ReleaseKeepsStatus ==
    ASSUME LinkInv, NEW o, NEW code, connection' = ReleasedFence(o, code)
    PROVE  \A s \in Sessions : connection'[s].status = connection[s].status
<1>1. connection \in [Sessions -> ConnectionRow]
  BY Zenon DEF LinkInv, LinkShape
<1>2. PICK t : t = lifecycle[o].target
  BY Zenon
<1>3. CASE connection' = connection
  BY Zenon, <1>3
<1>4. CASE connection' = [connection EXCEPT ![t].operation = NoOperation]
  BY <1>1, <1>4 DEF ConnectionRow
<1> QED BY Zenon, <1>2, <1>3, <1>4 DEF ReleasedFence

\* The batch of a disconnect disconnects what is there.
LEMMA BeginIsNotLate ==
    ASSUME LinkInv, NEW c \in linkCalls, beginBatch(c)
    PROVE  LateStep
<1>1. PICK o, t : o = c.key /\ t = c.target
  BY Zenon
<1>2. t \in Sessions /\ Exists(t) /\ connection \in [Sessions -> ConnectionRow]
  BY Zenon, <1>1 DEF beginBatch, LinkInv, CallBacked, LinkShape
<1>3. CASE connection' = connection
  BY Zenon, <1>3, StatusKeptIsLate
<1>4. CASE connection' = [connection EXCEPT ![t].status = "disconnected",
                                            ![t].operation = o, ![t].generation = @ + 1]
  BY <1>2, <1>4, StatusKeptIsLate DEF ConnectionRow
<1>5. CASE connection' = [connection EXCEPT ![t].operation = o]
  BY Zenon, <1>2, <1>5, StatusKeptIsLate DEF ConnectionRow
<1> QED BY Zenon, <1>1, <1>3, <1>4, <1>5 DEF beginBatch

\* A row is inserted for the session whose answer came back, while it is open
\* at the generation that was polled.
LEMMA LinkedInTime ==
    ASSUME LinkInv, NEW c \in linkCalls, NEW s \in Sessions, c.key = s, c.kind = "answer",
           Accepts(s, c.generation), NEW login, connection' = Linked(s, login), ~Exists(s),
           c \notin linkCalls'
    PROVE  LateStep
<1>1. \A y \in Sessions : y # s => connection'[y] = connection[y]
  BY Zenon DEF Linked, LinkInv, LinkShape
<1>2. OpenSession(s) /\ c.generation = session[s].generation /\ connection[s].status = "none"
  BY Zenon DEF Accepts, ensureCurrent, Exists
<1>3. c \in linkCalls \ linkCalls'
  BY Zenon
<1> QED BY <1>1, <1>2, <1>3 DEF LateStep, Exists

(* Every commit that attaches an account is by the session's own generation. *)
LEMMA CommitIsInTime ==
    ASSUME LinkInv, NEW c \in linkCalls, commit(c)
    PROVE  LateStep
<1>1. PICK s, login : s = c.key /\ login = c.value
  BY Zenon
<1>2. s \in Sessions /\ c.kind = "answer" /\ Accepts(s, c.generation) /\ c \notin linkCalls'
  BY Zenon, <1>1 DEF commit, Sessions
<1>3. CASE connection' = connection
  BY Zenon, <1>3, StatusKeptIsLate
<1>4. CASE connection' = Linked(s, login) /\ ~Exists(s)
  BY Zenon, <1>1, <1>2, <1>4, LinkedInTime
<1> QED BY Zenon, <1>1, <1>3, <1>4
        DEF commit, commitLinkedAccount, getExistingSessionCommit, duplicate, commitLost

\* A relink brings back the connection it fences at the generation it began.
LEMMA CommitRelinkIsInTime ==
    ASSUME LinkInv, NEW c \in linkCalls, commitRelink(c)
    PROVE  LateStep
<1>1. PICK r, t : r = c.key /\ t = lifecycle[r].target
  BY Zenon
<1>2. /\ r \in Relinks /\ r \in Sessions /\ r \in Operations
      /\ c.kind = "answer" /\ OpenSession(r) /\ Accepts(r, c.generation)
  BY Zenon, <1>1 DEF commitRelink, Accepts, Sessions, Operations
<1>3. lifecycle[r].status # "absent" /\ t \in Sessions
  BY Zenon, <1>1, <1>2, OpenIsSound DEF LinkInv, OperationSound
<1>4. CASE connection' = connection
  BY Zenon, <1>4, StatusKeptIsLate
<1>5. CASE /\ RelinkFenced(r)
           /\ lifecycle' = [lifecycle EXCEPT ![r].status = "succeeded"]
           /\ connection' = [connection EXCEPT ![t].status = "connected",
                                 ![t].operation = r, ![t].generation = @ + 1]
  <2>1. \A y \in Sessions : y # t => connection'[y] = connection[y]
    BY Zenon, <1>3, <1>5 DEF LinkInv, LinkShape
  <2>2. Exists(t)
    BY Zenon, <1>1, <1>2, <1>3 DEF LinkInv, OperationSound
  <2>3. lifecycle'[r].status = "succeeded"
    BY Zenon, <1>2, <1>3, <1>5, StatusMoves DEF OperationStatus, SettledOperation, LiveOperation
  <2>4. connection[t].operation = r /\ lifecycle[r].generation = connection[t].generation
    BY Zenon, <1>1, <1>5 DEF RelinkFenced
  <2> QED BY Zenon, <1>2, <2>1, <2>2, <2>3, <2>4 DEF LateStep, Exists
<1>6. CASE /\ ~Exists(r) /\ connection' = Linked(r, c.value)
           /\ \E value : linkCalls' = (linkCalls \ {c}) \cup
                            {Call("finish", r, t, c.generation, value)}
  <2>1. c \notin linkCalls'
    BY <1>2, <1>6 DEF Call
  <2> QED BY Zenon, <1>1, <1>2, <1>6, <2>1, LinkedInTime
<1> QED BY Zenon, <1>1, <1>4, <1>5, <1>6 DEF commitRelink, RelinkRefused

(* No step of the specification attaches an account by a late answer. *)
LEMMA NextIsInTime == LinkInv /\ [LinkNext]_linkVars => LateStep
<1> SUFFICES ASSUME LinkInv, [LinkNext]_linkVars PROVE LateStep
  BY Zenon
<1>1. CASE connection' = connection
  BY Zenon, <1>1, StatusKeptIsLate
<1>2. ASSUME NEW c \in linkCalls, disconnected(c) \/ startProvider(c) PROVE LateStep
  <2>1. CASE \E o, code : connection' = ReleasedFence(o, code)
    BY Zenon, <2>1, ReleaseKeepsStatus, StatusKeptIsLate
  <2>2. connection' = connection \/ \E o, code : connection' = ReleasedFence(o, code)
    BY Zenon, <1>2 DEF disconnected, completeConnectionDisconnect, startProvider, StartFailed
  <2> QED BY Zenon, <1>1, <2>1, <2>2
<1>3. ASSUME NEW c \in linkCalls, beginBatch(c) \/ commit(c) \/ commitRelink(c) PROVE LateStep
  BY Zenon, <1>3, BeginIsNotLate, CommitIsInTime, CommitRelinkIsInTime
<1>4. ASSUME NEW c \in linkCalls,
             \/ beginReplay(c) \/ createRelinkSession(c) \/ claim(c) \/ providerEnded(c)
             \/ staleCommit(c) \/ finishReplacement(c) \/ requestDies(c)
      PROVE  connection' = connection
  BY Zenon, <1>4 DEF beginReplay, createRelinkSession, claim, providerEnded, staleCommit,
              finishReplacement, RelinkRefused, requestDies
<1>5. ASSUME NEW s \in Sessions,
             createLinkSession(s) \/ expire(s) \/ refresh(s) \/ cancel(s) \/ poll(s)
      PROVE  connection' = connection
  BY Zenon, <1>5 DEF createLinkSession, expire, refresh, cancel, poll
<1>6. ASSUME NEW o \in Operations, NEW t \in Sessions, beginOperation(o, t)
      PROVE  connection' = connection
  BY Zenon, <1>6 DEF beginOperation
<1>7. revokeAdministrator \/ UNCHANGED linkVars => connection' = connection
  BY Zenon DEF revokeAdministrator, linkVars
<1> QED BY Zenon, <1>1, <1>2, <1>3, <1>4, <1>5, <1>6, <1>7 DEF LinkNext, Sessions

-----------------------------------------------------------------------------
(* The theorems *)

\* The invariant holds in every state of the linking, with any number of
\* sessions, operations, logins, suspended requests and failures.
THEOREM LinkInvariance == LinkSpec => []LinkInv
<1>1. LinkInit => LinkInv
  BY Zenon, LinkInitInv
<1>2. LinkInv /\ [LinkNext]_linkVars => LinkInv'
  BY Zenon, LinkNextInv
<1> QED BY <1>1, <1>2, PTL DEF LinkSpec

\* A provider account is attached to one connection of the tenant at most, and
\* a session that was cancelled, that expired or that was refused has attached
\* none (commitLinkedAccount, completeConnectionRelink, LinkSessionDO.execute).
THEOREM SessionsAlwaysLinkOnce == LinkSpec => []SessionsLinkOnce
<1>1. LinkInv => SessionsLinkOnce
  BY Zenon DEF LinkInv, SessionsLinkOnce, EndedSessionsLinkNothing, SessionSound, Unlinked
<1> QED BY <1>1, LinkInvariance, PTL

\* Two operations never work on one connection: the one that may still call the
\* provider or complete is the one the connection names (beginOperation).
THEOREM LiveOperationsAlwaysOwn == LinkSpec => []LiveOperationsOwnTheirConnection
<1>1. LinkInv => LiveOperationsOwnTheirConnection
  BY Zenon DEF LinkInv, LiveOperationsOwnTheirConnection, OperationSound, LiveOperation
<1> QED BY <1>1, LinkInvariance, PTL

\* An answer that comes back after a refresh, a cancellation or an expiry
\* attaches nothing, and only the relink that fences a disconnected connection
\* brings it back (ensureCurrent, completeConnectionRelink).
THEOREM LateAnswersNeverMatter == LinkSpec => LateAnswersChangeNothing
<1>1. LinkInv /\ [LinkNext]_linkVars => [LateStep]_linkVars
  BY Zenon, NextIsInTime
<1> QED BY <1>1, LinkInvariance, PTL DEF LinkSpec, LateAnswersChangeNothing, LateStep
=============================================================================
