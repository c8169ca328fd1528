---------------------------- MODULE ArrivalProofs ----------------------------
(***************************************************************************)
(* Proofs about the two ways an event reaches a tenant's projection.       *)
(*                                                                         *)
(* ArchiveIngest, for any batches, encodings, requests, consumers and      *)
(* pointers, and any number of failures: what was answered is durable, and *)
(* no pointer leaves the queue too early.                                  *)
(*                                                                         *)
(* History, for any ranges, pages and overlapping workers, and any number  *)
(* of failures: what an import says it has read is in the projection, and  *)
(* a settled range stays settled.                                          *)
(***************************************************************************)
EXTENDS ArchiveIngest, History, FiniteSetTheorems, TLAPS

-----------------------------------------------------------------------------
(* The inductive invariant *)

\* What a request has behind it, by the call it is about to make: the object
\* its manifest will name, the committed manifest, the pointer.
RequestBacked(r) ==
    /\ r.phase # "idle" => r.batch \in IngestBatches /\ r.own \in Encodings
    /\ r.phase \in {"put_manifest", "verify_manifest", "send", "answer"} =>
          r.etag # "absent" /\ dataObject[r.batch] = r.etag
    /\ r.phase \in {"send", "answer"} => manifestObject[r.batch] # "absent"
    /\ r.phase = "answer" => Sent(r.batch)

\* The events of a batch were applied, and are there unless a rebuild runs.
Landed(b) ==
    /\ projectionState # "uninitialized"
    /\ projectionState = "ready" => b \in shown

\* What a pointer has behind it, by where it is.
PointerBacked(p) ==
    /\ p.state = "unsent" => p.batch = "none"
    /\ p.state # "unsent" => p.batch \in IngestBatches /\ manifestObject[p.batch] # "absent"
    /\ p.state = "queued" => p.deliveries < MaxDeliveries
    /\ p.state = "acked" => Landed(p.batch) /\ p.batch \in fannedOut
    /\ p.state = "dead" => ingestMishaps > 0

\* What a delivery has behind it, by the call it is about to make.
DeliveryBacked(k) ==
    k.phase # "idle" =>
        /\ k.message \in Pointers
        /\ queueMessages[k.message].state = "delivered"
        /\ k.phase \in {"fan_out", "deliver", "ack"} => Landed(queueMessages[k.message].batch)
        /\ k.phase \in {"deliver", "ack"} => queueMessages[k.message].batch \in fannedOut

\* The queue gives a pointer to one execution at a time.
OneExecutionPerPointer ==
    \A c, d \in Consumers :
        c # d /\ consumers[c].phase # "idle" /\ consumers[d].phase # "idle"
            => consumers[c].message # consumers[d].message

IngestInv ==
    /\ IngestTypeOK
    /\ ManifestsMatchTheirData
    /\ \A i \in Ingesters : RequestBacked(ingesters[i])
    /\ \A m \in Pointers : PointerBacked(queueMessages[m])
    /\ \A c \in Consumers : DeliveryBacked(consumers[c])
    /\ OneExecutionPerPointer
    /\ projectionState = "rebuilding" => ingestMishaps > 0
    /\ \A b \in answered : manifestObject[b] # "absent" /\ Sent(b)

-----------------------------------------------------------------------------
(* The route *)

\* What no step of a request takes back: an object once written, a pointer once
\* sent.
Grows ==
    /\ \A b \in IngestBatches : dataObject[b] # "absent" => dataObject'[b] = dataObject[b]
    /\ \A b \in IngestBatches : manifestObject[b] # "absent" => manifestObject'[b] = manifestObject[b]
    /\ \A m \in Pointers : queueMessages[m].state # "unsent" => queueMessages'[m] = queueMessages[m]

\* A request may move on when what it needs is there afterwards, nothing that
\* another request, a pointer or an answer rests on is taken back, and every
\* pointer it sent names a committed batch.
LEMMA RouteStep ==
    ASSUME IngestInv, NEW i \in Ingesters, NEW r \in IngesterRow,
           ingesters' = [ingesters EXCEPT ![i] = r],
           dataObject' \in [IngestBatches -> Objects],
           manifestObject' \in [IngestBatches -> Objects],
           queueMessages' \in [Pointers -> PointerRow],
           Grows, ManifestsMatchTheirData', RequestBacked(r)',
           \A m \in Pointers : PointerBacked(queueMessages[m])',
           answered' \subseteq IngestBatches, seen' \subseteq answered',
           \A b \in answered' : b \in answered \/ (manifestObject'[b] # "absent" /\ Sent(b)'),
           ingestMishaps' \in ingestMishaps .. MaxIngestMishaps,
           UNCHANGED <<gatewayRoute, consumeVars>>
    PROVE  IngestInv'
<1> USE DEF IngestInv
<1>1. consumers' = consumers /\ shown' = shown /\ fannedOut' = fannedOut
      /\ projectionState' = projectionState /\ gatewayRoute' = gatewayRoute
  BY Zenon DEF consumeVars
<1>2. ingesters' \in [Ingesters -> IngesterRow] /\ ingesters'[i] = r
      /\ \A j \in Ingesters : j # i => ingesters'[j] = ingesters[j]
  BY Zenon DEF IngestTypeOK
<1>3. ingestMishaps \in Nat /\ MaxIngestMishaps \in Nat
  BY IngestConstants DEF IngestTypeOK
<1>4. ASSUME NEW b \in IngestBatches, Sent(b) PROVE Sent(b)'
  <2>1. PICK m \in Pointers : queueMessages[m].batch = b
    BY Zenon, <1>4 DEF Sent
  <2>2. queueMessages[m].state # "unsent"
    BY Zenon, <2>1, IngestConstants DEF PointerBacked
  <2> QED BY Zenon, <2>1, <2>2 DEF Grows, Sent
<1>5. ASSUME NEW j \in Ingesters PROVE RequestBacked(ingesters[j])'
  <2>1. CASE j = i
    BY Zenon, <1>2, <2>1 DEF RequestBacked
  <2>2. CASE j # i
    <3>1. RequestBacked(ingesters[j])
      BY Zenon
    <3> QED BY <1>2, <1>4, <2>2, <3>1 DEF RequestBacked, Grows
  <2> QED BY Zenon, <2>1, <2>2
<1>6. \A c \in Consumers : consumers[c].phase # "idle" =>
         /\ consumers[c].message \in Pointers
         /\ queueMessages'[consumers[c].message] = queueMessages[consumers[c].message]
  BY Zenon DEF DeliveryBacked, Grows
<1>7. \A c \in Consumers : DeliveryBacked(consumers[c])'
  BY Zenon, <1>1, <1>6 DEF DeliveryBacked, Landed
<1>8. OneExecutionPerPointer'
  BY Zenon, <1>1 DEF OneExecutionPerPointer
<1>9. projectionState' = "rebuilding" => ingestMishaps' > 0
  BY <1>1, <1>3
<1>10. \A b \in answered' : manifestObject'[b] # "absent" /\ Sent(b)'
  <2>1. answered \subseteq IngestBatches
    BY Zenon DEF IngestTypeOK
  <2> QED BY Zenon, <1>4, <2>1 DEF Grows
<1>11. IngestTypeOK'
  <2>1. \A j \in Ingesters : ingesters'[j].phase # "idle" =>
            ingesters'[j].batch \in IngestBatches /\ ingesters'[j].own \in Encodings
    BY Zenon, <1>5 DEF RequestBacked
  <2>2. \A c \in Consumers : consumers'[c].phase # "idle" =>
            /\ consumers'[c].message \in Pointers
            /\ queueMessages'[consumers'[c].message].state = "delivered"
    BY Zenon, <1>1, <1>7 DEF DeliveryBacked
  <2>3. ingestMishaps' \in 0 .. MaxIngestMishaps
    BY <1>3
  <2>4. shown \subseteq IngestBatches /\ fannedOut \subseteq IngestBatches
        /\ consumers \in [Consumers -> ConsumerRow] /\ gatewayRoute \in {"active", "retired"}
        /\ projectionState \in {"uninitialized", "ready", "rebuilding"}
    BY Zenon DEF IngestTypeOK
  <2> QED BY Zenon, <1>1, <1>2, <2>1, <2>2, <2>3, <2>4 DEF IngestTypeOK
<1> QED BY Zenon, <1>1, <1>5, <1>7, <1>8, <1>9, <1>10, <1>11

\* The idle request needs nothing.
LEMMA IdleIsBacked == IdleIngester \in IngesterRow /\ RequestBacked(IdleIngester)'
BY Zenon DEF IdleIngester, IngesterRow, IngesterPhases, Objects, RequestBacked

\* A step that writes no object and sends nothing: submit, the two checks, and
\* a request that ends.
LEMMA QuietRouteStep ==
    ASSUME IngestInv, NEW i \in Ingesters, NEW r \in IngesterRow,
           ingesters' = [ingesters EXCEPT ![i] = r], RequestBacked(r)',
           ingestMishaps' \in ingestMishaps .. MaxIngestMishaps,
           UNCHANGED <<archiveVars, gatewayRoute, queueMessages, answered, seen, consumeVars>>
    PROVE  IngestInv'
<1>1. dataObject' = dataObject /\ manifestObject' = manifestObject /\ gatewayRoute' = gatewayRoute
      /\ queueMessages' = queueMessages /\ answered' = answered /\ seen' = seen
      /\ UNCHANGED <<gatewayRoute, consumeVars>>
  BY Zenon DEF archiveVars
<1>2. /\ dataObject \in [IngestBatches -> Objects] /\ manifestObject \in [IngestBatches -> Objects]
      /\ queueMessages \in [Pointers -> PointerRow]
      /\ answered \subseteq IngestBatches /\ seen \subseteq answered
  BY Zenon DEF IngestInv, IngestTypeOK
<1>3. Grows /\ ManifestsMatchTheirData'
  BY Zenon, <1>1 DEF Grows, IngestInv, ManifestsMatchTheirData
<1>4. \A m \in Pointers : PointerBacked(queueMessages[m])'
  <2>1. projectionState' = projectionState /\ shown' = shown /\ fannedOut' = fannedOut
    BY Zenon DEF consumeVars
  <2>2. ingestMishaps \in Nat
    BY DEF IngestInv, IngestTypeOK
  <2>3. ASSUME NEW m \in Pointers PROVE PointerBacked(queueMessages[m])'
    <3>1. PointerBacked(queueMessages[m])
      BY Zenon DEF IngestInv
    <3> QED BY <1>1, <2>1, <2>2, <3>1 DEF PointerBacked, Landed
  <2> QED BY Zenon, <2>3
<1> QED BY <1>1, <1>2, <1>3, <1>4, RouteStep, Zenon

\* A failing call uses one of the mishaps of the bound.
LEMMA MishapCounts ==
    ASSUME IngestInv
    PROVE  /\ ingestMishaps \in Nat /\ MaxIngestMishaps \in Nat
           /\ IngestMishap \/ UNCHANGED ingestMishaps => ingestMishaps' \in ingestMishaps .. MaxIngestMishaps
           /\ IngestMishap => ingestMishaps' > 0
BY IngestConstants DEF IngestInv, IngestTypeOK, IngestMishap

\* The type of the record of a request, for the steps that update a field of it.
LEMMA IngesterTypes ==
    ASSUME IngestInv, NEW i \in Ingesters
    PROVE  ingesters[i] \in IngesterRow /\ RequestBacked(ingesters[i])
BY Zenon DEF IngestInv, IngestTypeOK

\* A request that is refused, answers an error or dies.
LEMMA RefusedKeepsInv ==
    ASSUME IngestInv, NEW i \in Ingesters, Refuse(i), IngestMishap \/ UNCHANGED ingestMishaps,
           UNCHANGED <<archiveVars, gatewayRoute, queueMessages, answered, seen, consumeVars>>
    PROVE  IngestInv'
BY IdleIsBacked, MishapCounts, QuietRouteStep, Zenon DEF Refuse

\* A new request has nothing behind it (createIngestionBatchHandler).
LEMMA SubmitKeepsInv ==
    ASSUME IngestInv, NEW i \in Ingesters, NEW b \in IngestBatches, submit(i, b)
    PROVE  IngestInv'
<1>1. PICK z \in Encodings : ingesters' = [ingesters EXCEPT ![i] =
            [phase |-> "put_data", batch |-> b, own |-> z, etag |-> "absent", status |-> "none"]]
  BY Zenon DEF submit
<1>2. PICK r : r = [phase |-> "put_data", batch |-> b, own |-> z, etag |-> "absent", status |-> "none"]
  BY Zenon
<1>3. r \in IngesterRow /\ RequestBacked(r)'
  BY Zenon, <1>2 DEF IngesterRow, IngesterPhases, Objects, RequestBacked
<1>4. UNCHANGED <<archiveVars, gatewayRoute, queueMessages, answered, seen, consumeVars>>
      /\ UNCHANGED ingestMishaps
  BY Zenon DEF submit, archiveVars
<1> QED BY <1>1, <1>2, <1>3, <1>4, MishapCounts, QuietRouteStep, Zenon

\* The manifest is to name the object that was read back (verifyDataObject).
LEMMA VerifyDataKeepsInv ==
    ASSUME IngestInv, NEW i \in Ingesters, verifyDataObject(i)
    PROVE  IngestInv'
<1>1. ingesters[i] \in IngesterRow /\ RequestBacked(ingesters[i])
  BY Zenon, IngesterTypes
<1>2. PICK b : b = ingesters[i].batch
  BY Zenon
<1>3. b \in IngestBatches /\ dataObject[b] \in Objects /\ dataObject' = dataObject
  BY Zenon, <1>1, <1>2 DEF verifyDataObject, RequestBacked, IngestInv, IngestTypeOK, archiveVars
<1>4. UNCHANGED <<archiveVars, gatewayRoute, queueMessages, answered, seen, consumeVars>>
      /\ UNCHANGED ingestMishaps
  BY Zenon DEF verifyDataObject
<1>5. CASE dataObject[b] = "absent"
  BY Zenon, <1>2, <1>4, <1>5, RefusedKeepsInv DEF verifyDataObject
<1>6. CASE dataObject[b] # "absent"
  <2>1. PICK r : r = [ingesters[i] EXCEPT !.phase = "put_manifest", !.etag = dataObject[b]]
    BY Zenon
  <2>2. r \in IngesterRow /\ r.phase = "put_manifest" /\ r.batch = b /\ r.etag = dataObject[b]
        /\ r.own = ingesters[i].own
    BY <1>1, <1>2, <1>3, <2>1, Zenon DEF IngesterRow, IngesterPhases
  <2>3. ingesters' = [ingesters EXCEPT ![i] = r]
    BY <1>2, <1>6, <2>1, Zenon DEF verifyDataObject, IngestInv, IngestTypeOK
  <2>4. RequestBacked(r)'
    BY Zenon, <1>1, <1>3, <1>6, <2>2 DEF RequestBacked, verifyDataObject
  <2> QED BY <1>4, <2>2, <2>3, <2>4, MishapCounts, QuietRouteStep, Zenon
<1> QED BY Zenon, <1>5, <1>6

\* The pair is committed before the pointer is sent (readAndValidateCommitted).
LEMMA VerifyPairKeepsInv ==
    ASSUME IngestInv, NEW i \in Ingesters, readAndValidateCommitted(i)
    PROVE  IngestInv'
<1>1. ingesters[i] \in IngesterRow /\ RequestBacked(ingesters[i])
  BY Zenon, IngesterTypes
<1>2. PICK b : b = ingesters[i].batch
  BY Zenon
<1>3. dataObject' = dataObject /\ manifestObject' = manifestObject
  BY Zenon DEF readAndValidateCommitted, archiveVars
<1>4. UNCHANGED <<archiveVars, gatewayRoute, queueMessages, answered, seen, consumeVars>>
      /\ UNCHANGED ingestMishaps
  BY Zenon DEF readAndValidateCommitted
<1>5. CASE Refuse(i)
  BY Zenon, <1>4, <1>5, RefusedKeepsInv
<1>6. CASE manifestObject[b] = ingesters[i].etag /\ Continue(i, "send")
  <2>1. PICK r : r = [ingesters[i] EXCEPT !.phase = "send"]
    BY Zenon
  <2>2. r \in IngesterRow /\ r.phase = "send" /\ r.batch = b /\ r.etag = ingesters[i].etag
        /\ r.own = ingesters[i].own
    BY Zenon, <1>1, <1>2, <2>1 DEF IngesterRow, IngesterPhases
  <2>3. ingesters' = [ingesters EXCEPT ![i] = r]
    BY Zenon, <1>6, <2>1 DEF Continue, IngestInv, IngestTypeOK
  <2>4. RequestBacked(r)'
    BY Zenon, <1>1, <1>2, <1>3, <1>6, <2>2 DEF RequestBacked, readAndValidateCommitted
  <2> QED BY <1>4, <2>2, <2>3, <2>4, MishapCounts, QuietRouteStep, Zenon
<1> QED BY Zenon, <1>2, <1>5, <1>6 DEF readAndValidateCommitted

\* The pointers stay backed in a step of the route that sends none.
LEMMA PointersStayBacked ==
    ASSUME IngestInv, Grows, UNCHANGED <<queueMessages, consumeVars>>,
           ingestMishaps' \in ingestMishaps .. MaxIngestMishaps,
           NEW m \in Pointers
    PROVE  PointerBacked(queueMessages[m])'
<1>1. PointerBacked(queueMessages[m]) /\ ingestMishaps \in Nat
  BY DEF IngestInv, IngestTypeOK
<1>2. projectionState' = projectionState /\ shown' = shown /\ fannedOut' = fannedOut
      /\ queueMessages' = queueMessages
  BY Zenon DEF consumeVars
<1> QED BY <1>1, <1>2 DEF PointerBacked, Landed, Grows

\* The data object: whichever of two writers comes first keeps its bytes.
LEMMA PutDataKeepsInv ==
    ASSUME IngestInv, NEW i \in Ingesters, putData(i)
    PROVE  IngestInv'
<1>1. ingesters[i] \in IngesterRow /\ RequestBacked(ingesters[i])
  BY Zenon, IngesterTypes
<1>2. PICK b, z : b = ingesters[i].batch /\ z = ingesters[i].own
  BY Zenon
<1>3. b \in IngestBatches /\ z \in Objects
  BY Zenon, <1>1, <1>2 DEF putData, RequestBacked, Objects
<1>4. /\ dataObject \in [IngestBatches -> Objects] /\ manifestObject \in [IngestBatches -> Objects]
      /\ queueMessages \in [Pointers -> PointerRow]
      /\ answered \subseteq IngestBatches /\ seen \subseteq answered
  BY Zenon DEF IngestInv, IngestTypeOK
<1>5. dataObject' = PutNew(dataObject, b, z)
  BY Zenon, <1>2 DEF putData
<1>6. /\ dataObject' \in [IngestBatches -> Objects]
      /\ \A x \in IngestBatches : dataObject[x] # "absent" => dataObject'[x] = dataObject[x]
  BY Zenon, <1>3, <1>4, <1>5 DEF PutNew
<1>7. manifestObject' = manifestObject /\ queueMessages' = queueMessages
      /\ answered' = answered /\ seen' = seen
      /\ UNCHANGED <<gatewayRoute, consumeVars>> /\ UNCHANGED <<queueMessages, consumeVars>>
  BY Zenon DEF putData
<1>8. Grows
  BY Zenon, <1>6, <1>7 DEF Grows
<1>9. ManifestsMatchTheirData'
  <2>1. \A x \in IngestBatches : manifestObject[x] # "absent" =>
            dataObject[x] = manifestObject[x] /\ dataObject[x] # "absent"
    BY Zenon DEF IngestInv, ManifestsMatchTheirData
  <2> QED BY Zenon, <1>6, <1>7, <2>1 DEF ManifestsMatchTheirData
<1>10. ingestMishaps' \in ingestMishaps .. MaxIngestMishaps
  BY Zenon, MishapCounts DEF putData
<1>11. PICK r \in IngesterRow : ingesters' = [ingesters EXCEPT ![i] = r] /\ RequestBacked(r)'
  <2>1. CASE Refuse(i)
    BY <2>1, IdleIsBacked, Zenon DEF Refuse
  <2>2. CASE Continue(i, "verify_data")
    <3>1. PICK r : r = [ingesters[i] EXCEPT !.phase = "verify_data"]
      BY Zenon
    <3>2. r \in IngesterRow /\ r.phase = "verify_data" /\ r.batch = b /\ r.own = ingesters[i].own
      BY Zenon, <1>1, <1>2, <3>1 DEF IngesterRow, IngesterPhases
    <3>3. ingesters' = [ingesters EXCEPT ![i] = r]
      BY Zenon, <2>2, <3>1 DEF Continue, IngestInv, IngestTypeOK
    <3>4. RequestBacked(r)'
      BY Zenon, <1>1, <1>3, <3>2 DEF RequestBacked, putData
    <3> QED BY <3>2, <3>3, <3>4, Zenon
  <2> QED BY Zenon, <2>1, <2>2 DEF putData
<1>12. \A m \in Pointers : PointerBacked(queueMessages[m])'
  BY Zenon, <1>7, <1>8, <1>10, PointersStayBacked
<1>13. \A x \in answered' : x \in answered \/ (manifestObject'[x] # "absent" /\ Sent(x)')
  BY Zenon, <1>7
<1> QED BY <1>4, <1>6, <1>7, <1>8, <1>9, <1>10, <1>11, <1>12, <1>13, RouteStep, Zenon

\* The manifest: it names the object the request has read back, which is the
\* one that is stored.
LEMMA PutManifestKeepsInv ==
    ASSUME IngestInv, NEW i \in Ingesters, putManifest(i)
    PROVE  IngestInv'
<1>1. ingesters[i] \in IngesterRow /\ RequestBacked(ingesters[i])
  BY Zenon, IngesterTypes
<1>2. PICK b, z : b = ingesters[i].batch /\ z = ingesters[i].etag
  BY Zenon
<1>3. b \in IngestBatches /\ z \in Objects /\ dataObject[b] = z /\ z # "absent"
  BY Zenon, <1>1, <1>2 DEF putManifest, RequestBacked, IngesterRow
<1>4. /\ dataObject \in [IngestBatches -> Objects] /\ manifestObject \in [IngestBatches -> Objects]
      /\ queueMessages \in [Pointers -> PointerRow]
      /\ answered \subseteq IngestBatches /\ seen \subseteq answered
  BY Zenon DEF IngestInv, IngestTypeOK
<1>5. manifestObject' = PutNew(manifestObject, b, z)
  BY Zenon, <1>2 DEF putManifest
<1>6. /\ manifestObject' \in [IngestBatches -> Objects]
      /\ \A x \in IngestBatches : manifestObject[x] # "absent" => manifestObject'[x] = manifestObject[x]
      /\ \A x \in IngestBatches : x # b => manifestObject'[x] = manifestObject[x]
      /\ manifestObject[b] = "absent" => manifestObject'[b] = z
  BY Zenon, <1>3, <1>4, <1>5 DEF PutNew
<1>7. dataObject' = dataObject /\ queueMessages' = queueMessages
      /\ answered' = answered /\ seen' = seen
      /\ UNCHANGED <<gatewayRoute, consumeVars>> /\ UNCHANGED <<queueMessages, consumeVars>>
  BY Zenon DEF putManifest
<1>8. Grows
  BY Zenon, <1>6, <1>7 DEF Grows
<1>9. ManifestsMatchTheirData'
  BY Zenon, <1>3, <1>6, <1>7 DEF ManifestsMatchTheirData, IngestInv
<1>10. ingestMishaps' \in ingestMishaps .. MaxIngestMishaps
  BY Zenon, MishapCounts DEF putManifest
<1>11. PICK r \in IngesterRow : ingesters' = [ingesters EXCEPT ![i] = r] /\ RequestBacked(r)'
  <2>1. CASE Refuse(i)
    BY Zenon, <2>1, IdleIsBacked DEF Refuse
  <2>2. CASE ingesters' = [ingesters EXCEPT ![i].phase = "verify_manifest",
                                            ![i].status = archiveStatus(i)]
    <3>1. PICK r : r = [ingesters[i] EXCEPT !.phase = "verify_manifest", !.status = archiveStatus(i)]
      BY Zenon
    <3>2. archiveStatus(i) \in {"created", "already_committed"}
      BY Zenon DEF archiveStatus
    <3>3. r \in IngesterRow /\ r.phase = "verify_manifest" /\ r.batch = b
          /\ r.own = ingesters[i].own /\ r.etag = z
      BY <1>1, <1>2, <3>1, <3>2, Zenon DEF IngesterRow, IngesterPhases
    <3>4. ingesters' = [ingesters EXCEPT ![i] = r]
      BY <2>2, <3>1, Zenon DEF IngestInv, IngestTypeOK
    <3>5. RequestBacked(r)'
      BY Zenon, <1>1, <1>3, <1>7, <3>3 DEF RequestBacked, putManifest
    <3> QED BY <3>3, <3>4, <3>5, Zenon
  <2> QED BY Zenon, <2>1, <2>2 DEF putManifest
<1>12. \A m \in Pointers : PointerBacked(queueMessages[m])'
  BY Zenon, <1>7, <1>8, <1>10, PointersStayBacked
<1>13. \A x \in answered' : x \in answered \/ (manifestObject'[x] # "absent" /\ Sent(x)')
  BY Zenon, <1>7
<1> QED BY <1>4, <1>6, <1>7, <1>8, <1>9, <1>10, <1>11, <1>12, <1>13, RouteStep, Zenon

\* The pointer: it is sent for a committed pair, whether or not the send throws.
LEMMA SendKeepsInv ==
    ASSUME IngestInv, NEW i \in Ingesters, sendPointer(i)
    PROVE  IngestInv'
<1>1. ingesters[i] \in IngesterRow /\ RequestBacked(ingesters[i])
  BY Zenon, IngesterTypes
<1>2. PICK b : b = ingesters[i].batch
  BY Zenon
<1>3. b \in IngestBatches /\ manifestObject[b] # "absent"
  BY Zenon, <1>1, <1>2 DEF sendPointer, RequestBacked
<1>4. /\ dataObject \in [IngestBatches -> Objects] /\ manifestObject \in [IngestBatches -> Objects]
      /\ queueMessages \in [Pointers -> PointerRow]
      /\ answered \subseteq IngestBatches /\ seen \subseteq answered
  BY Zenon DEF IngestInv, IngestTypeOK
<1>5. PICK m \in Pointers : /\ queueMessages[m].state = "unsent"
                            /\ queueMessages' = [queueMessages EXCEPT ![m] =
                                  [batch |-> b, deliveries |-> 0, state |-> "queued"]]
  BY <1>2, Zenon DEF sendPointer
<1>6. PICK p : p = [batch |-> b, deliveries |-> 0, state |-> "queued"]
  BY Zenon
<1>7. p \in PointerRow /\ p.batch = b /\ p.state = "queued" /\ p.deliveries < MaxDeliveries
  BY <1>3, <1>6, IngestConstants DEF PointerRow
<1>8. /\ queueMessages' \in [Pointers -> PointerRow] /\ queueMessages'[m] = p
      /\ \A n \in Pointers : n # m => queueMessages'[n] = queueMessages[n]
  BY Zenon, <1>4, <1>5, <1>6, <1>7
<1>9. dataObject' = dataObject /\ manifestObject' = manifestObject
      /\ answered' = answered /\ seen' = seen /\ UNCHANGED <<gatewayRoute, consumeVars>>
      /\ projectionState' = projectionState /\ shown' = shown /\ fannedOut' = fannedOut
  BY Zenon DEF sendPointer, archiveVars, consumeVars
<1>10. Grows /\ ManifestsMatchTheirData'
  BY Zenon, <1>5, <1>8, <1>9 DEF Grows, ManifestsMatchTheirData, IngestInv
<1>11. ingestMishaps' \in ingestMishaps .. MaxIngestMishaps /\ ingestMishaps \in Nat
  BY Zenon, MishapCounts DEF sendPointer
<1>12. ASSUME NEW n \in Pointers PROVE PointerBacked(queueMessages[n])'
  <2>1. CASE n = m
    BY Zenon, <1>3, <1>7, <1>8, <1>9, <2>1 DEF PointerBacked
  <2>2. CASE n # m
    <3>1. PointerBacked(queueMessages[n])
      BY Zenon DEF IngestInv
    <3> QED BY <1>8, <1>9, <1>11, <2>2, <3>1 DEF PointerBacked, Landed
  <2> QED BY Zenon, <2>1, <2>2
<1>13. PICK r \in IngesterRow : ingesters' = [ingesters EXCEPT ![i] = r] /\ RequestBacked(r)'
  <2>1. CASE Refuse(i)
    BY <2>1, IdleIsBacked, Zenon DEF Refuse
  <2>2. CASE Continue(i, "answer")
    <3>1. PICK r : r = [ingesters[i] EXCEPT !.phase = "answer"]
      BY Zenon
    <3>2. r \in IngesterRow /\ r.phase = "answer" /\ r.batch = b
          /\ r.own = ingesters[i].own /\ r.etag = ingesters[i].etag
      BY Zenon, <1>1, <1>2, <3>1 DEF IngesterRow, IngesterPhases
    <3>3. ingesters' = [ingesters EXCEPT ![i] = r]
      BY Zenon, <2>2, <3>1 DEF Continue, IngestInv, IngestTypeOK
    <3>4. Sent(b)'
      BY Zenon, <1>7, <1>8 DEF Sent
    <3>5. RequestBacked(r)'
      BY <1>1, <1>2, <1>3, <1>9, <3>2, <3>4 DEF RequestBacked, sendPointer
    <3> QED BY <3>2, <3>3, <3>5, Zenon
  <2> QED BY Zenon, <2>1, <2>2 DEF sendPointer
<1>14. \A x \in answered' : x \in answered \/ (manifestObject'[x] # "absent" /\ Sent(x)')
  BY Zenon, <1>9
<1> QED BY <1>4, <1>8, <1>9, <1>10, <1>11, <1>12, <1>13, <1>14, RouteStep, Zenon

\* The 202 follows the send.
LEMMA AnswerKeepsInv ==
    ASSUME IngestInv, NEW i \in Ingesters, answer(i)
    PROVE  IngestInv'
<1>1. PICK b : b = ingesters[i].batch
  BY Zenon
<1>2. b \in IngestBatches /\ manifestObject[b] # "absent" /\ Sent(b)
  BY Zenon, <1>1, IngesterTypes DEF answer, RequestBacked
<1>3. /\ dataObject \in [IngestBatches -> Objects] /\ manifestObject \in [IngestBatches -> Objects]
      /\ queueMessages \in [Pointers -> PointerRow]
      /\ answered \subseteq IngestBatches /\ seen \subseteq answered
  BY Zenon DEF IngestInv, IngestTypeOK
<1>4. dataObject' = dataObject /\ manifestObject' = manifestObject /\ queueMessages' = queueMessages
      /\ UNCHANGED <<gatewayRoute, consumeVars>> /\ UNCHANGED <<queueMessages, consumeVars>>
      /\ answered' = answered \cup {b} /\ (seen' = seen \/ seen' = seen \cup {b})
  BY Zenon, <1>1 DEF answer, archiveVars
<1>5. Grows /\ ManifestsMatchTheirData'
  BY Zenon, <1>4 DEF Grows, ManifestsMatchTheirData, IngestInv
<1>6. ingestMishaps' \in ingestMishaps .. MaxIngestMishaps
  BY Zenon, MishapCounts DEF answer
<1>7. \A m \in Pointers : PointerBacked(queueMessages[m])'
  BY Zenon, <1>4, <1>5, <1>6, PointersStayBacked
<1>8. Sent(b)'
  BY Zenon, <1>2, <1>4 DEF Sent
<1>9. \A x \in answered' : x \in answered \/ (manifestObject'[x] # "absent" /\ Sent(x)')
  BY Zenon, <1>2, <1>4, <1>8
<1>10. answered' \subseteq IngestBatches /\ seen' \subseteq answered'
  BY Zenon, <1>2, <1>3, <1>4
<1>11. IdleIngester \in IngesterRow /\ RequestBacked(IdleIngester)'
       /\ ingesters' = [ingesters EXCEPT ![i] = IdleIngester]
  BY Zenon, IdleIsBacked DEF answer, Refuse
<1> QED BY <1>3, <1>4, <1>5, <1>6, <1>7, <1>9, <1>10, <1>11, RouteStep, Zenon

-----------------------------------------------------------------------------
(* The consumer *)

\* A step of one delivery: the row of its pointer may change, no other row does,
\* and nothing the route wrote.
ConsumerMoves(c, k, m, p) ==
    /\ consumers' = [consumers EXCEPT ![c] = k]
    /\ queueMessages' = [queueMessages EXCEPT ![m] = p]
    /\ queueMessages[m].state # "unsent" /\ p.batch = queueMessages[m].batch
    /\ \A d \in Consumers : d # c /\ consumers[d].phase # "idle" => consumers[d].message # m
    /\ k.phase # "idle" => k.message = m
    /\ shown' \subseteq IngestBatches /\ shown \subseteq shown'
    /\ fannedOut' \subseteq IngestBatches /\ fannedOut \subseteq fannedOut'
    /\ \/ projectionState' = projectionState
       \/ projectionState = "uninitialized" /\ projectionState' = "ready"
    /\ ingestMishaps' \in ingestMishaps .. MaxIngestMishaps
    /\ UNCHANGED routeVars

\* Such a step keeps the invariant when the delivery and the pointer have behind
\* them what their new rows ask for.
LEMMA ConsumerStep ==
    ASSUME IngestInv, NEW c \in Consumers, NEW k \in ConsumerRow,
           NEW m \in Pointers, NEW p \in PointerRow,
           ConsumerMoves(c, k, m, p), DeliveryBacked(k)', PointerBacked(p)'
    PROVE  IngestInv'
<1> USE DEF IngestInv, ConsumerMoves
<1>1. /\ dataObject' = dataObject /\ manifestObject' = manifestObject /\ gatewayRoute' = gatewayRoute
      /\ ingesters' = ingesters /\ answered' = answered /\ seen' = seen
  BY Zenon DEF routeVars, archiveVars
<1>2. consumers' \in [Consumers -> ConsumerRow] /\ consumers'[c] = k
      /\ \A d \in Consumers : d # c => consumers'[d] = consumers[d]
  BY Zenon DEF IngestTypeOK
<1>3. queueMessages' \in [Pointers -> PointerRow] /\ queueMessages'[m] = p
      /\ \A n \in Pointers : n # m => queueMessages'[n] = queueMessages[n]
  BY Zenon DEF IngestTypeOK
<1>4. \A n \in Pointers : queueMessages'[n].batch = queueMessages[n].batch
  BY Zenon, <1>3
<1>5. \A b : Sent(b) <=> Sent(b)'
  BY Zenon, <1>4 DEF Sent
<1>6. \A b : Landed(b) => Landed(b)'
  BY Zenon DEF Landed
<1>7. ingestMishaps \in Nat /\ MaxIngestMishaps \in Nat
  BY IngestConstants DEF IngestTypeOK
<1>8. ASSUME NEW j \in Ingesters PROVE RequestBacked(ingesters[j])'
  <2>1. RequestBacked(ingesters[j])
    BY Zenon
  <2> QED BY Zenon, <1>1, <1>5, <2>1 DEF RequestBacked
<1>9. ASSUME NEW n \in Pointers PROVE PointerBacked(queueMessages[n])'
  <2>1. CASE n = m
    BY Zenon, <1>3, <2>1 DEF PointerBacked
  <2>2. CASE n # m
    <3>1. PointerBacked(queueMessages[n])
      BY Zenon
    <3> QED BY <1>1, <1>3, <1>6, <1>7, <2>2, <3>1 DEF PointerBacked
  <2> QED BY Zenon, <2>1, <2>2
<1>10. ASSUME NEW d \in Consumers PROVE DeliveryBacked(consumers[d])'
  <2>1. CASE d = c
    BY Zenon, <1>2, <2>1 DEF DeliveryBacked
  <2>2. CASE d # c
    <3>1. DeliveryBacked(consumers[d])
      BY Zenon
    <3> QED BY <1>2, <1>3, <1>6, <2>2, <3>1 DEF DeliveryBacked
  <2> QED BY Zenon, <2>1, <2>2
<1>11. OneExecutionPerPointer'
  BY <1>2 DEF OneExecutionPerPointer
<1>12. projectionState' = "rebuilding" => ingestMishaps' > 0
  BY <1>7
<1>13. \A b \in answered' : manifestObject'[b] # "absent" /\ Sent(b)'
  BY Zenon, <1>1, <1>5
<1>14. IngestTypeOK'
  <2>1. \A j \in Ingesters : ingesters'[j].phase # "idle" =>
            ingesters'[j].batch \in IngestBatches /\ ingesters'[j].own \in Encodings
    BY Zenon, <1>8 DEF RequestBacked
  <2>2. \A d \in Consumers : consumers'[d].phase # "idle" =>
            /\ consumers'[d].message \in Pointers
            /\ queueMessages'[consumers'[d].message].state = "delivered"
    BY Zenon, <1>10 DEF DeliveryBacked
  <2>3. ingestMishaps' \in 0 .. MaxIngestMishaps
    BY <1>7
  <2>4. projectionState' \in {"uninitialized", "ready", "rebuilding"}
    BY Zenon DEF IngestTypeOK
  <2> QED BY Zenon, <1>1, <1>2, <1>3, <2>1, <2>2, <2>3, <2>4 DEF IngestTypeOK
<1>15. ManifestsMatchTheirData'
  BY Zenon, <1>1 DEF ManifestsMatchTheirData
<1> QED BY Zenon, <1>8, <1>9, <1>10, <1>11, <1>12, <1>13, <1>14, <1>15

\* What a delivery that is under way knows of its pointer.
LEMMA DeliveryTypes ==
    ASSUME IngestInv, NEW c \in Consumers, consumers[c].phase # "idle",
           NEW m, m = consumers[c].message
    PROVE  /\ consumers[c] \in ConsumerRow /\ m \in Pointers
           /\ queueMessages[m] \in PointerRow /\ queueMessages[m].state = "delivered"
           /\ queueMessages[m].batch \in IngestBatches
           /\ manifestObject[queueMessages[m].batch] # "absent"
           /\ BatchOf(c) = queueMessages[m].batch
           /\ DeliveryBacked(consumers[c])
           /\ \A d \in Consumers : d # c /\ consumers[d].phase # "idle" => consumers[d].message # m
<1>1. DeliveryBacked(consumers[c]) /\ consumers[c] \in ConsumerRow
  BY Zenon DEF IngestInv, IngestTypeOK
<1>2. m \in Pointers /\ queueMessages[m].state = "delivered"
  BY Zenon, <1>1 DEF DeliveryBacked
<1>3. queueMessages[m] \in PointerRow /\ PointerBacked(queueMessages[m])
  BY Zenon, <1>2 DEF IngestInv, IngestTypeOK
<1> QED BY Zenon, <1>1, <1>2, <1>3 DEF PointerBacked, BatchOf, IngestInv, OneExecutionPerPointer

\* A delivery that goes on to its next call.
LEMMA ProceedKeepsInv ==
    ASSUME IngestInv, NEW c \in Consumers, consumers[c].phase # "idle",
           NEW phase \in ConsumerPhases \ {"idle"}, Proceeds(c, phase), UNCHANGED queueMessages,
           shown' \subseteq IngestBatches, shown \subseteq shown',
           fannedOut' \subseteq IngestBatches, fannedOut \subseteq fannedOut',
           \/ projectionState' = projectionState
           \/ projectionState = "uninitialized" /\ projectionState' = "ready",
           phase \in {"fan_out", "deliver", "ack"} => Landed(BatchOf(c))',
           phase \in {"deliver", "ack"} => BatchOf(c) \in fannedOut',
           UNCHANGED <<routeVars, ingestMishaps>>
    PROVE  IngestInv'
<1>1. PICK m : m = consumers[c].message
  BY Zenon
<1>2. /\ consumers[c] \in ConsumerRow /\ m \in Pointers
      /\ queueMessages[m] \in PointerRow /\ queueMessages[m].state = "delivered"
      /\ queueMessages[m].batch \in IngestBatches
      /\ manifestObject[queueMessages[m].batch] # "absent"
      /\ BatchOf(c) = queueMessages[m].batch
      /\ \A d \in Consumers : d # c /\ consumers[d].phase # "idle" => consumers[d].message # m
  BY Zenon, <1>1, DeliveryTypes
<1>3. PICK k : k = [consumers[c] EXCEPT !.phase = phase]
  BY Zenon
<1>4. k \in ConsumerRow /\ k.phase = phase /\ k.message = m
  BY Zenon, <1>1, <1>2, <1>3 DEF ConsumerRow
<1>5. consumers' = [consumers EXCEPT ![c] = k] /\ consumers'[c] = k
  BY Zenon, <1>3 DEF Proceeds, IngestInv, IngestTypeOK
<1>6. queueMessages' = queueMessages /\ queueMessages' = [queueMessages EXCEPT ![m] = queueMessages[m]]
  BY Zenon, <1>2 DEF IngestInv, IngestTypeOK
<1>7. BatchOf(c)' = queueMessages[m].batch
  BY Zenon, <1>4, <1>5, <1>6 DEF BatchOf
<1>8. DeliveryBacked(k)'
  BY Zenon, <1>2, <1>4, <1>6, <1>7 DEF DeliveryBacked, Landed
<1>9. PICK p \in PointerRow : p = queueMessages[m]
  BY Zenon, <1>2
<1>10. PointerBacked(p)'
  <2>1. manifestObject' = manifestObject
    BY Zenon DEF routeVars, archiveVars
  <2> QED BY Zenon, <1>2, <1>9, <2>1 DEF PointerBacked
<1>11. ingestMishaps' \in ingestMishaps .. MaxIngestMishaps /\ UNCHANGED routeVars
  BY Zenon, MishapCounts
<1>12. ConsumerMoves(c, k, m, p)
  BY <1>2, <1>4, <1>5, <1>6, <1>9, <1>11, Zenon DEF ConsumerMoves
<1> QED BY Zenon, <1>2, <1>4, <1>8, <1>9, <1>10, <1>12, ConsumerStep

\* The idle delivery needs nothing.
LEMMA IdleDeliveryIsBacked ==
    IdleConsumer \in ConsumerRow /\ IdleConsumer.phase = "idle" /\ DeliveryBacked(IdleConsumer)'
BY Zenon DEF IdleConsumer, ConsumerRow, ConsumerPhases, DeliveryBacked

\* A retry is either another delivery or the end of the pointer; it is the end
\* only after a failure.
LEMMA RetryKeepsInv ==
    ASSUME IngestInv, NEW c \in Consumers, consumers[c].phase # "idle", Retry(c),
           IngestMishap \/ (ingestMishaps > 0 /\ UNCHANGED ingestMishaps),
           UNCHANGED <<routeVars, shown, fannedOut, projectionState>>
    PROVE  IngestInv'
<1>1. PICK m : m = consumers[c].message
  BY Zenon
<1>2. /\ m \in Pointers
      /\ queueMessages[m] \in PointerRow /\ queueMessages[m].state = "delivered"
      /\ queueMessages[m].batch \in IngestBatches
      /\ manifestObject[queueMessages[m].batch] # "absent"
      /\ \A d \in Consumers : d # c /\ consumers[d].phase # "idle" => consumers[d].message # m
  BY Zenon, <1>1, DeliveryTypes
<1>3. PICK p : p = [queueMessages[m] EXCEPT !.state =
                       IF queueMessages[m].deliveries = MaxDeliveries THEN "dead" ELSE "queued"]
  BY Zenon
<1>4. /\ p \in PointerRow /\ p.batch = queueMessages[m].batch /\ p.state \in {"dead", "queued"}
      /\ p.deliveries = queueMessages[m].deliveries
      /\ p.state = "queued" => queueMessages[m].deliveries # MaxDeliveries
  BY Zenon, <1>2, <1>3 DEF PointerRow
<1>5. queueMessages' = [queueMessages EXCEPT ![m] = p]
  BY Zenon, <1>1, <1>2, <1>3 DEF Retry, Redelivered, IngestInv, IngestTypeOK
<1>6. ingestMishaps' \in ingestMishaps .. MaxIngestMishaps /\ ingestMishaps' > 0
  BY Zenon, MishapCounts
<1>7. manifestObject' = manifestObject /\ UNCHANGED routeVars
  BY Zenon DEF routeVars, archiveVars
<1>8. p.deliveries \in 0 .. MaxDeliveries /\ MaxDeliveries \in Nat
  BY Zenon, <1>4, IngestConstants DEF PointerRow
<1>9. PointerBacked(p)'
  BY <1>2, <1>4, <1>6, <1>7, <1>8 DEF PointerBacked
<1>10. shown \subseteq IngestBatches /\ fannedOut \subseteq IngestBatches
  BY Zenon DEF IngestInv, IngestTypeOK
<1>11. ConsumerMoves(c, IdleConsumer, m, p)
  BY Zenon, <1>2, <1>4, <1>5, <1>6, <1>7, <1>10, IdleDeliveryIsBacked DEF ConsumerMoves, Retry
<1> QED BY Zenon, <1>2, <1>4, <1>9, <1>11, IdleDeliveryIsBacked, ConsumerStep

\* The queue delivers a pointer that no execution holds.
LEMMA DeliverKeepsInv ==
    ASSUME IngestInv, NEW c \in Consumers, NEW m \in Pointers, deliverPointer(c, m)
    PROVE  IngestInv'
<1>1. queueMessages[m] \in PointerRow /\ PointerBacked(queueMessages[m])
      /\ queueMessages[m].state = "queued" /\ queueMessages[m].deliveries < MaxDeliveries
  BY Zenon DEF deliverPointer, IngestInv, IngestTypeOK, PointerBacked
<1>2. PICK p : p = [queueMessages[m] EXCEPT !.state = "delivered",
                                            !.deliveries = queueMessages[m].deliveries + 1]
  BY Zenon
<1>3. p \in PointerRow /\ p.state = "delivered" /\ p.batch = queueMessages[m].batch
  <2>1. queueMessages[m].deliveries + 1 \in 0 .. MaxDeliveries
    BY <1>1, IngestConstants DEF PointerRow
  <2> QED BY <1>1, <1>2, <2>1, Zenon DEF PointerRow
<1>4. queueMessages' = [queueMessages EXCEPT ![m] = p] /\ queueMessages'[m] = p
  BY <1>2, Zenon DEF deliverPointer, IngestInv, IngestTypeOK
<1>5. PICK k : k = [phase |-> "read", message |-> m]
  BY Zenon
<1>6. k \in ConsumerRow /\ k.phase = "read" /\ k.message = m
  BY Zenon, <1>5 DEF ConsumerRow, ConsumerPhases
<1>7. \A d \in Consumers : d # c /\ consumers[d].phase # "idle" => consumers[d].message # m
  BY Zenon, <1>1 DEF IngestInv, DeliveryBacked
<1>8. shown \subseteq IngestBatches /\ fannedOut \subseteq IngestBatches
  BY Zenon DEF IngestInv, IngestTypeOK
<1>9. ConsumerMoves(c, k, m, p)
  BY <1>1, <1>3, <1>4, <1>5, <1>6, <1>7, <1>8, MishapCounts, Zenon DEF ConsumerMoves, deliverPointer
<1>10. PointerBacked(p)'
  BY Zenon, <1>1, <1>3 DEF PointerBacked, deliverPointer, routeVars, archiveVars
<1>11. DeliveryBacked(k)'
  BY Zenon, <1>3, <1>4, <1>6 DEF DeliveryBacked
<1> QED BY Zenon, <1>3, <1>6, <1>9, <1>10, <1>11, ConsumerStep

\* The acknowledgement: the batch has landed and its webhook deliveries are in D1.
LEMMA AckKeepsInv ==
    ASSUME IngestInv, NEW c \in Consumers, ackMessage(c)
    PROVE  IngestInv'
<1>1. PICK m : m = consumers[c].message
  BY Zenon
<1>2. /\ m \in Pointers
      /\ queueMessages[m] \in PointerRow /\ queueMessages[m].state = "delivered"
      /\ queueMessages[m].batch \in IngestBatches
      /\ manifestObject[queueMessages[m].batch] # "absent"
      /\ DeliveryBacked(consumers[c])
      /\ \A d \in Consumers : d # c /\ consumers[d].phase # "idle" => consumers[d].message # m
  BY Zenon, <1>1, DeliveryTypes DEF ackMessage
<1>3. PICK p : p = [queueMessages[m] EXCEPT !.state = "acked"]
  BY Zenon
<1>4. p \in PointerRow /\ p.batch = queueMessages[m].batch /\ p.state = "acked"
  BY Zenon, <1>2, <1>3 DEF PointerRow
<1>5. queueMessages' = [queueMessages EXCEPT ![m] = p]
  BY Zenon, <1>1, <1>2, <1>3 DEF ackMessage, IngestInv, IngestTypeOK
<1>6. shown' = shown /\ fannedOut' = fannedOut /\ projectionState' = projectionState
      /\ manifestObject' = manifestObject /\ UNCHANGED routeVars
  BY Zenon DEF ackMessage, routeVars, archiveVars
<1>7. PointerBacked(p)'
  <2>1. Landed(p.batch) /\ p.batch \in fannedOut
    BY Zenon, <1>1, <1>2, <1>4 DEF DeliveryBacked, ackMessage
  <2> QED BY Zenon, <1>2, <1>4, <1>6, <2>1 DEF PointerBacked, Landed
<1>8. shown \subseteq IngestBatches /\ fannedOut \subseteq IngestBatches
  BY Zenon DEF IngestInv, IngestTypeOK
<1>9. ConsumerMoves(c, IdleConsumer, m, p)
  BY <1>2, <1>4, <1>5, <1>6, <1>8, IdleDeliveryIsBacked, MishapCounts, Zenon DEF ConsumerMoves, ackMessage
<1> QED BY Zenon, <1>2, <1>4, <1>7, <1>9, IdleDeliveryIsBacked, ConsumerStep

\* The calls of a delivery between the queue and the acknowledgement.
LEMMA CallsKeepInv ==
    ASSUME IngestInv, NEW c \in Consumers,
           \/ readCommittedArchiveBatch(c) \/ applyPointerBatch(c) \/ fanOutBatch(c)
           \/ deliverIncomingWebhookBatch(c)
    PROVE  IngestInv'
<1>1. PICK m : m = consumers[c].message
  BY Zenon
<1>2. consumers[c].phase # "idle"
  BY Zenon DEF readCommittedArchiveBatch, applyPointerBatch, fanOutBatch, deliverIncomingWebhookBatch
<1>3. /\ queueMessages[m].batch \in IngestBatches
      /\ manifestObject[queueMessages[m].batch] # "absent"
      /\ BatchOf(c) = queueMessages[m].batch
      /\ DeliveryBacked(consumers[c])
      /\ consumers[c] \in ConsumerRow
  BY Zenon, <1>1, <1>2, DeliveryTypes
<1>4. shown \subseteq IngestBatches /\ fannedOut \subseteq IngestBatches
      /\ projectionState \in {"uninitialized", "ready", "rebuilding"}
  BY Zenon DEF IngestInv, IngestTypeOK
<1>5. ASSUME NEW phase, Proceeds(c, phase), UNCHANGED queueMessages
      PROVE  BatchOf(c)' = BatchOf(c)
  BY Zenon, <1>3, <1>5 DEF Proceeds, BatchOf, IngestInv, IngestTypeOK, ConsumerRow
<1>6. CASE readCommittedArchiveBatch(c)
  <2>1. Proceeds(c, "apply") /\ UNCHANGED queueMessages
    BY Zenon, <1>3, <1>6 DEF readCommittedArchiveBatch, IngestInv, ManifestsMatchTheirData
  <2>2. UNCHANGED <<routeVars, ingestMishaps>> /\ UNCHANGED <<shown, fannedOut, projectionState>>
    BY Zenon, <1>6 DEF readCommittedArchiveBatch
  <2> QED BY Zenon, <1>2, <1>4, <2>1, <2>2, ProceedKeepsInv DEF ConsumerPhases
<1>7. CASE applyPointerBatch(c)
  <2>1. UNCHANGED <<routeVars, ingestMishaps>> /\ UNCHANGED fannedOut
    BY Zenon, <1>7 DEF applyPointerBatch
  <2>2. CASE projectionState = "rebuilding"
    <3>1. Retry(c) /\ UNCHANGED <<shown, projectionState>> /\ ingestMishaps > 0
      BY Zenon, <1>7, <2>2 DEF applyPointerBatch, IngestInv
    <3> QED BY Zenon, <1>2, <2>1, <3>1, RetryKeepsInv
  <2>3. CASE projectionState # "rebuilding"
    <3>1. /\ projectionState' = "ready" /\ shown' = shown \cup {BatchOf(c)}
          /\ Proceeds(c, "fan_out") /\ UNCHANGED queueMessages
      BY Zenon, <1>7, <2>3 DEF applyPointerBatch
    <3>2. Landed(BatchOf(c))'
      BY Zenon, <1>5, <3>1 DEF Landed
    <3> QED BY Zenon, <1>2, <1>3, <1>4, <2>1, <2>3, <3>1, <3>2, ProceedKeepsInv DEF ConsumerPhases
  <2> QED BY Zenon, <2>2, <2>3
<1>8. CASE fanOutBatch(c)
  <2>1. /\ UNCHANGED <<routeVars, ingestMishaps>> /\ UNCHANGED <<queueMessages, shown, projectionState>>
        /\ Proceeds(c, "deliver") /\ fannedOut' = fannedOut \cup {BatchOf(c)}
    BY Zenon, <1>8 DEF fanOutBatch
  <2>2. Landed(BatchOf(c))
    BY Zenon, <1>1, <1>3, <1>8 DEF fanOutBatch, DeliveryBacked
  <2>3. Landed(BatchOf(c))'
    BY Zenon, <1>5, <2>1, <2>2 DEF Landed
  <2> QED BY Zenon, <1>2, <1>3, <1>4, <2>1, <2>3, ProceedKeepsInv DEF ConsumerPhases
<1>9. CASE deliverIncomingWebhookBatch(c)
  <2>1. /\ UNCHANGED <<routeVars, ingestMishaps>>
        /\ UNCHANGED <<queueMessages, shown, fannedOut, projectionState>> /\ Proceeds(c, "ack")
    BY Zenon, <1>9 DEF deliverIncomingWebhookBatch
  <2>2. Landed(BatchOf(c)) /\ BatchOf(c) \in fannedOut
    BY Zenon, <1>1, <1>3, <1>9 DEF deliverIncomingWebhookBatch, DeliveryBacked
  <2>3. Landed(BatchOf(c))'
    BY Zenon, <1>5, <2>1, <2>2 DEF Landed
  <2> QED BY Zenon, <1>2, <1>4, <2>1, <2>2, <2>3, ProceedKeepsInv DEF ConsumerPhases
<1> QED BY Zenon, <1>6, <1>7, <1>8, <1>9

-----------------------------------------------------------------------------
(* The projection, and all steps together *)

\* A step that leaves R2, the requests, the queue and the deliveries alone keeps
\* the invariant when every batch a pointer or a delivery knows to have landed
\* has still landed.
LEMMA ProjectionStep ==
    ASSUME IngestInv, UNCHANGED <<archiveVars, ingesters, queueMessages, answered, seen,
                                  consumers, fannedOut>>,
           gatewayRoute' \in {"active", "retired"},
           shown' \subseteq IngestBatches,
           projectionState' \in {"uninitialized", "ready", "rebuilding"},
           ingestMishaps' \in ingestMishaps .. MaxIngestMishaps,
           projectionState' = "rebuilding" => ingestMishaps' > 0,
           \A b \in IngestBatches : manifestObject[b] # "absent" /\ Landed(b) => Landed(b)'
    PROVE  IngestInv'
<1> USE DEF IngestInv
<1>1. /\ dataObject' = dataObject /\ manifestObject' = manifestObject
      /\ ingesters' = ingesters /\ answered' = answered /\ seen' = seen
      /\ queueMessages' = queueMessages /\ consumers' = consumers /\ fannedOut' = fannedOut
  BY Zenon DEF archiveVars
<1>2. ingestMishaps \in Nat /\ MaxIngestMishaps \in Nat
  BY Zenon, MishapCounts
<1>3. \A b : Sent(b) <=> Sent(b)'
  BY Zenon, <1>1 DEF Sent
<1>4. ASSUME NEW j \in Ingesters PROVE RequestBacked(ingesters[j])'
  <2>1. RequestBacked(ingesters[j])
    BY Zenon
  <2> QED BY Zenon, <1>1, <1>3, <2>1 DEF RequestBacked
<1>5. ASSUME NEW m \in Pointers PROVE PointerBacked(queueMessages[m])'
  <2>1. PointerBacked(queueMessages[m])
    BY Zenon
  <2> QED BY <1>1, <1>2, <2>1 DEF PointerBacked
<1>6. ASSUME NEW c \in Consumers PROVE DeliveryBacked(consumers[c])'
  <2>1. DeliveryBacked(consumers[c])
    BY Zenon
  <2>2. CASE consumers[c].phase = "idle"
    BY Zenon, <1>1, <2>2 DEF DeliveryBacked
  <2>3. CASE consumers[c].phase # "idle"
    <3>1. PICK m : m = consumers[c].message
      BY Zenon
    <3>2. queueMessages[m].batch \in IngestBatches /\ manifestObject[queueMessages[m].batch] # "absent"
      BY Zenon, <2>3, <3>1, DeliveryTypes
    <3> QED BY Zenon, <1>1, <2>1, <3>1, <3>2 DEF DeliveryBacked
  <2> QED BY Zenon, <2>2, <2>3
<1>7. OneExecutionPerPointer' /\ ManifestsMatchTheirData'
  BY <1>1 DEF OneExecutionPerPointer, ManifestsMatchTheirData
<1>8. \A b \in answered' : manifestObject'[b] # "absent" /\ Sent(b)'
  BY Zenon, <1>1, <1>3
<1>9. IngestTypeOK'
  <2>1. ingestMishaps' \in 0 .. MaxIngestMishaps
    BY <1>2
  <2> QED BY Zenon, <1>1, <2>1 DEF IngestTypeOK
<1> QED BY Zenon, <1>4, <1>5, <1>6, <1>7, <1>8, <1>9

\* A route may be retired at any time: nothing that was accepted rests on it.
LEMMA RetireKeepsInv ==
    ASSUME IngestInv, retireRoute
    PROVE  IngestInv'
<1>1. /\ UNCHANGED <<archiveVars, ingesters, queueMessages, answered, seen, consumers, fannedOut>>
      /\ gatewayRoute' \in {"active", "retired"} /\ UNCHANGED ingestMishaps
      /\ shown' = shown /\ projectionState' = projectionState
  BY Zenon DEF retireRoute, consumeVars
<1>2. /\ shown \subseteq IngestBatches
      /\ projectionState \in {"uninitialized", "ready", "rebuilding"}
      /\ projectionState = "rebuilding" => ingestMishaps > 0
  BY Zenon DEF IngestInv, IngestTypeOK
<1>3. \A b : Landed(b) => Landed(b)'
  BY Zenon, <1>1 DEF Landed
<1> QED BY Zenon, <1>1, <1>2, <1>3, MishapCounts, ProjectionStep

\* A rebuild takes everything away while it runs, and brings back every
\* committed batch, which is more than what had landed.
LEMMA RebuildKeepsInv ==
    ASSUME IngestInv, beginsRebuild \/ completesRebuild
    PROVE  IngestInv'
<1>1. /\ UNCHANGED <<archiveVars, ingesters, queueMessages, answered, seen, consumers, fannedOut>>
      /\ gatewayRoute' = gatewayRoute /\ gatewayRoute \in {"active", "retired"}
  BY Zenon DEF beginsRebuild, completesRebuild, routeVars, IngestInv, IngestTypeOK
<1>2. CASE beginsRebuild
  <2>1. shown' = {} /\ projectionState' = "rebuilding" /\ IngestMishap
    BY Zenon, <1>2 DEF beginsRebuild
  <2>2. \A b : Landed(b)'
    BY Zenon, <2>1 DEF Landed
  <2> QED BY Zenon, <1>1, <2>1, <2>2, MishapCounts, ProjectionStep
<1>3. CASE completesRebuild
  <2>1. /\ shown' = {b \in IngestBatches : manifestObject[b] # "absent"}
        /\ projectionState' = "ready" /\ UNCHANGED ingestMishaps
    BY Zenon, <1>3 DEF completesRebuild
  <2>2. \A b \in IngestBatches : manifestObject[b] # "absent" => Landed(b)'
    BY Zenon, <2>1 DEF Landed
  <2> QED BY Zenon, <1>1, <2>1, <2>2, MishapCounts, ProjectionStep
<1> QED BY Zenon, <1>2, <1>3

\* Nothing is posted, archived or shown yet.
LEMMA IngestInitInv == ArchiveIngestInit => IngestInv
<1> SUFFICES ASSUME ArchiveIngestInit PROVE IngestInv
  BY Zenon
<1> USE DEF ArchiveIngestInit
<1>1. IdleIngester \in IngesterRow /\ IdleIngester.phase = "idle"
  BY Zenon DEF IdleIngester, IngesterRow, IngesterPhases, Objects
<1>2. IdleConsumer \in ConsumerRow /\ IdleConsumer.phase = "idle"
  BY Zenon DEF IdleConsumer, ConsumerRow, ConsumerPhases
<1>3. Unsent \in PointerRow /\ Unsent.state = "unsent" /\ Unsent.batch = "none"
  BY IngestConstants DEF Unsent, PointerRow
<1>4. IngestTypeOK
  BY <1>1, <1>2, <1>3, IngestConstants DEF IngestTypeOK, Objects
<1>5. \A i \in Ingesters : RequestBacked(ingesters[i])
  BY Zenon, <1>1 DEF RequestBacked
<1>6. \A m \in Pointers : PointerBacked(queueMessages[m])
  BY Zenon, <1>3 DEF PointerBacked
<1>7. \A c \in Consumers : DeliveryBacked(consumers[c])
  BY Zenon, <1>2 DEF DeliveryBacked
<1>8. OneExecutionPerPointer
  BY Zenon, <1>2 DEF OneExecutionPerPointer
<1> QED BY Zenon, <1>4, <1>5, <1>6, <1>7, <1>8 DEF IngestInv, ManifestsMatchTheirData

\* Every step of the route, the queue, the consumers and the rebuild.
LEMMA IngestNextInv == IngestInv /\ [ArchiveIngestNext]_ingestVars => IngestInv'
<1> SUFFICES ASSUME IngestInv, [ArchiveIngestNext]_ingestVars PROVE IngestInv'
  BY Zenon
<1>1. ASSUME NEW i \in Ingesters, NEW b \in IngestBatches, submit(i, b) PROVE IngestInv'
  BY Zenon, <1>1, SubmitKeepsInv
<1>2. ASSUME NEW i \in Ingesters, ingesterSteps(i) PROVE IngestInv'
  BY Zenon, <1>2, PutDataKeepsInv, VerifyDataKeepsInv, PutManifestKeepsInv, VerifyPairKeepsInv,
     SendKeepsInv, AnswerKeepsInv DEF ingesterSteps
<1>3. ASSUME NEW i \in Ingesters, ingesterFails(i) PROVE IngestInv'
  BY Zenon, <1>3, RefusedKeepsInv DEF ingesterFails
<1>4. ASSUME NEW c \in Consumers, NEW m \in Pointers, deliverPointer(c, m) PROVE IngestInv'
  BY Zenon, <1>4, DeliverKeepsInv
<1>5. ASSUME NEW c \in Consumers, consumerSteps(c) PROVE IngestInv'
  BY Zenon, <1>5, CallsKeepInv, AckKeepsInv DEF consumerSteps
<1>6. ASSUME NEW c \in Consumers, consumerFails(c) PROVE IngestInv'
  BY Zenon, <1>6, RetryKeepsInv DEF consumerFails
<1>7. CASE retireRoute
  BY Zenon, <1>7, RetireKeepsInv
<1>8. CASE beginsRebuild \/ completesRebuild
  BY Zenon, <1>8, RebuildKeepsInv
<1>9. CASE UNCHANGED ingestVars
  <2>1. /\ UNCHANGED <<archiveVars, ingesters, queueMessages, answered, seen, consumers, fannedOut>>
        /\ gatewayRoute' = gatewayRoute /\ UNCHANGED ingestMishaps
        /\ shown' = shown /\ projectionState' = projectionState
    BY Zenon, <1>9 DEF ingestVars, archiveVars
  <2>2. /\ shown \subseteq IngestBatches /\ gatewayRoute \in {"active", "retired"}
        /\ projectionState \in {"uninitialized", "ready", "rebuilding"}
        /\ projectionState = "rebuilding" => ingestMishaps > 0
    BY Zenon DEF IngestInv, IngestTypeOK
  <2>3. \A b : Landed(b) => Landed(b)'
    BY Zenon, <2>1 DEF Landed
  <2> QED BY Zenon, <2>1, <2>2, <2>3, MishapCounts, ProjectionStep
<1> QED BY Zenon, <1>1, <1>2, <1>3, <1>4, <1>5, <1>6, <1>7, <1>8, <1>9 DEF ArchiveIngestNext

-----------------------------------------------------------------------------
(* The theorems *)

\* The invariant holds in every state of the ingestion, with any number of
\* requests, consumers, pointers and failures.
THEOREM IngestInvariance == ArchiveIngestSpec => []IngestInv
<1>1. ArchiveIngestInit => IngestInv
  BY Zenon, IngestInitInv
<1>2. IngestInv /\ [ArchiveIngestNext]_ingestVars => IngestInv'
  BY Zenon, IngestNextInv
<1> QED BY <1>1, <1>2, PTL DEF ArchiveIngestSpec

\* What the gateway was told is accepted is committed in R2, readable whichever
\* encoding its writers used, and in the hands of the queue, whatever failed and
\* however many requests ran for it (createIngestionBatchHandler,
\* archiveCanonicalEventBatch).
THEOREM AnsweredAlwaysDurable == ArchiveIngestSpec => []AnsweredIsDurable
<1>1. IngestInv => AnsweredIsDurable
  BY Zenon DEF IngestInv, AnsweredIsDurable
<1> QED BY <1>1, IngestInvariance, PTL

\* A pointer that left the queue was acknowledged with its batch in the
\* projection and in the webhook backlog, or was given up after a failure and
\* names a committed pair (createIngestionQueueHandler).
THEOREM PointersAlwaysBacked == ArchiveIngestSpec => []PointersAreBacked
<1>1. IngestInv => PointersAreBacked
  <2> SUFFICES ASSUME IngestInv PROVE PointersAreBacked
    BY Zenon
  <2>1. \A m \in Pointers : PointerBacked(queueMessages[m])
    BY Zenon DEF IngestInv
  <2>2. AckedIsDone
    BY Zenon, <2>1 DEF AckedIsDone, PointerBacked, Landed
  <2>3. DeadLettersAreReplayable
    BY Zenon, <2>1 DEF DeadLettersAreReplayable, PointerBacked, IngestInv, ManifestsMatchTheirData
  <2> QED BY Zenon, <2>2, <2>3 DEF PointersAreBacked
<1> QED BY <1>1, IngestInvariance, PTL

-----------------------------------------------------------------------------
(* The inductive invariant of the history import                             *)

\* Page and EventsOf for a given answer to "does the provider hold anything".
PageOf(h, r, c) ==
    IF ~h THEN {} ELSE {<<r, c>>} \union (IF c = 0 THEN {<<First, 0>>} ELSE {})

EventsIn(h, r) == UNION {PageOf(h, r, c) : c \in 0 .. Pages - 1}

RangeStatus == {"none", "pending", "active", "completed", "partial", "failed"}

ImportStates == {"none", "started", "active", "completed", "partial", "failed"}

PageAnswers == {"active", "completed", "partial", "failed"}

RangeRow ==
    [status : RangeStatus, cursor : 0 .. Pages - 1, count : Nat, attempts : Nat, erred : BOOLEAN,
     later : BOOLEAN, token : PageWorkers \cup {"none", "dead"}, lapsed : BOOLEAN]

PageRow ==
    [pc : {"idle", "read", "claim", "apply", "insert", "checkpoint", "import", "fail", "fail_import",
           "reconcile"},
     cron : BOOLEAN, r : Ranges, cursor : 0 .. Pages - 1, count : Nat, attempts : Nat, total : Nat,
     answer : PageAnswers \cup {"none", "unavailable", "refused", "malformed", "lost"},
     fresh : SUBSET (Ranges \X Nat), status : ImportStates]

HistoryShape ==
    /\ imp \in [status : ImportStates, count : Nat]
    /\ range \in [Ranges -> RangeRow]
    /\ page \in [PageWorkers -> PageRow]
    /\ IsFiniteSet(hashed)

\* The pages before a cursor are in the projection.
Passed(r, cursor, h, pr) == \A c \in 0 .. cursor - 1 : PageOf(h, r, c) \subseteq pr

\* A row of a range says no more than what is projected and hashed.
RangeSound(x, r, h, ha, pr) ==
    /\ Passed(r, x.cursor, h, pr)
    /\ x.status = "completed" => EventsIn(h, r) \subseteq pr
    /\ x.count <= Cardinality(ha \cap EventsIn(h, r))

\* What a worker read stays true while others go on: the pages before its
\* cursor are in, and the counts it read do not include its new events.
PageSound(p, h, ha, pr) ==
    /\ p.pc = "idle" => p = NoPage
    /\ p.pc \in {"idle", "read", "claim", "apply"} => p.fresh = {}
    /\ p.fresh \subseteq PageOf(h, p.r, p.cursor)
    /\ Passed(p.r, p.cursor, h, pr)
    /\ p.pc \in {"insert", "checkpoint", "import"} => PageOf(h, p.r, p.cursor) \subseteq pr
    /\ p.pc \in {"checkpoint", "import"} => p.fresh \subseteq ha
    /\ p.total <= Cardinality(ha \ p.fresh)
    /\ p.count <= Cardinality((ha \cap EventsIn(h, p.r)) \ p.fresh)
    /\ p.pc \in {"apply", "insert", "checkpoint"} =>
          /\ p.answer \in PageAnswers
          /\ p.answer = "completed" => p.cursor = Pages - 1
          /\ p.answer = "active" => p.cursor # Pages - 1
    /\ p.pc \in {"import", "fail_import"} => p.status # "none"

\* A lease on a range that is not open is held by the worker that settled it,
\* on its way to give it back.
LeaseSound(x, r, w, p) ==
    x.token = w /\ x.status \notin Open =>
        x.status \in Settled /\ p.r = r /\ p.pc \in {"import", "fail_import", "reconcile"}

HistoryInv ==
    /\ HistoryShape
    /\ hashed \subseteq projected
    /\ imp.count <= Cardinality(hashed)
    /\ \A r \in Ranges : RangeSound(range[r], r, holds, hashed, projected)
    /\ \A w \in PageWorkers : PageSound(page[w], holds, hashed, projected)
    /\ \A r \in Ranges \ {First}, w \in PageWorkers : LeaseSound(range[r], r, w, page[w])
    /\ starter \in {"none", "asked", "insert"} => \A r \in Ranges \ {First} : range[r].status = "none"
    /\ imp.status = "none" => starter = "none"

-----------------------------------------------------------------------------
(* Pages and counts                                                          *)

LEMMA FirstPage ==
    /\ 0 \in 0 .. Pages - 1 /\ 0 \in Nat
    /\ \A r, h, pr : Passed(r, 0, h, pr)
    /\ \A c \in 0 .. Pages - 1 : c \in Nat /\ (c # Pages - 1 => c + 1 \in 0 .. Pages - 1)
<1>1. 0 \in 0 .. Pages - 1 /\ 0 \in Nat /\ 0 .. 0 - 1 = {}
  BY HistoryBounds
<1>2. \A c \in 0 .. Pages - 1 : c \in Nat /\ (c # Pages - 1 => c + 1 \in 0 .. Pages - 1)
  BY HistoryBounds
<1>3. \A r, h, pr : Passed(r, 0, h, pr)
  BY Zenon, <1>1 DEF Passed
<1> QED BY Zenon, <1>1, <1>2, <1>3

\* A page is small, and one of the pages of its range.
LEMMA PageFacts ==
    ASSUME NEW h, NEW r \in Ranges, NEW c \in 0 .. Pages - 1
    PROVE  /\ IsFiniteSet(PageOf(h, r, c)) /\ PageOf(h, r, c) \subseteq EventsIn(h, r)
           /\ PageOf(h, r, c) \in SUBSET (Ranges \X Nat)
<1>1. IsFiniteSet(PageOf(h, r, c))
  <2>1. /\ IsFiniteSet({}) /\ IsFiniteSet({<<r, c>>}) /\ IsFiniteSet({<<First, 0>>})
        /\ IsFiniteSet({<<r, c>>} \union {}) /\ IsFiniteSet({<<r, c>>} \union {<<First, 0>>})
    BY Zenon, FS_EmptySet, FS_Singleton, FS_Union
  <2> QED BY Zenon, <2>1 DEF PageOf
<1>2. PageOf(h, r, c) \subseteq EventsIn(h, r)
  BY Zenon DEF EventsIn
<1>3. PageOf(h, r, c) \in SUBSET (Ranges \X Nat)
  <2>1. c \in Nat /\ 0 \in Nat /\ First \in Ranges
    BY Zenon, FirstPage, HistoryBounds
  <2>2. <<r, c>> \in Ranges \X Nat /\ <<First, 0>> \in Ranges \X Nat
    BY Zenon, <2>1
  <2> QED BY Zenon, <2>2 DEF PageOf
<1> QED BY Zenon, <1>1, <1>2, <1>3

\* A larger set has no fewer elements.
LEMMA CountGrows ==
    ASSUME NEW T, IsFiniteSet(T), NEW S, S \subseteq T, NEW n \in Nat, n <= Cardinality(S)
    PROVE  n <= Cardinality(T)
<1>1. IsFiniteSet(S) /\ Cardinality(S) <= Cardinality(T)
  BY Zenon, FS_Subset
<1>2. Cardinality(S) \in Nat /\ Cardinality(T) \in Nat
  BY Zenon, <1>1, FS_CardinalityType
<1> QED BY <1>1, <1>2

\* A count that leaves out F may add F.
LEMMA CountAdds ==
    ASSUME NEW S, IsFiniteSet(S), NEW F, F \subseteq S, NEW n \in Nat, n <= Cardinality(S \ F)
    PROVE  n + Cardinality(F) \in Nat /\ n + Cardinality(F) <= Cardinality(S)
<1>1. IsFiniteSet(F) /\ S \cap F = F
  BY Zenon, FS_Subset
<1>2. IsFiniteSet(S \ F) /\ Cardinality(S \ F) = Cardinality(S) - Cardinality(F)
  BY Zenon, <1>1, FS_Difference
<1>3. Cardinality(S) \in Nat /\ Cardinality(F) \in Nat /\ Cardinality(S \ F) \in Nat
  BY Zenon, <1>1, <1>2, FS_CardinalityType
<1> QED BY <1>2, <1>3

\* What is said of a range stays true as more is hashed and projected.
LEMMA RangeGrows ==
    ASSUME NEW x \in RangeRow, NEW r, NEW h, NEW ha, NEW pr, RangeSound(x, r, h, ha, pr),
           NEW hb, IsFiniteSet(hb), ha \subseteq hb, NEW ps, pr \subseteq ps
    PROVE  RangeSound(x, r, h, hb, ps)
<1>1. Passed(r, x.cursor, h, ps)
  BY Zenon DEF RangeSound, Passed
<1>2. x.status = "completed" => EventsIn(h, r) \subseteq ps
  BY Zenon DEF RangeSound
<1>3. x.count <= Cardinality(hb \cap EventsIn(h, r))
  <2>1. IsFiniteSet(hb \cap EventsIn(h, r)) /\ ha \cap EventsIn(h, r) \subseteq hb \cap EventsIn(h, r)
    BY Zenon, FS_Intersection
  <2>2. x.count \in Nat /\ x.count <= Cardinality(ha \cap EventsIn(h, r))
    BY Zenon DEF RangeRow, RangeSound
  <2> QED BY Zenon, <2>1, <2>2, CountGrows
<1> QED BY Zenon, <1>1, <1>2, <1>3 DEF RangeSound

LEMMA PageGrows ==
    ASSUME NEW p \in PageRow, NEW h, NEW ha, NEW pr, PageSound(p, h, ha, pr),
           NEW hb, IsFiniteSet(hb), ha \subseteq hb, NEW ps, pr \subseteq ps
    PROVE  PageSound(p, h, hb, ps)
<1>1. Passed(p.r, p.cursor, h, ps)
  BY Zenon DEF PageSound, Passed
<1>2. p.total <= Cardinality(hb \ p.fresh)
  <2>1. IsFiniteSet(hb \ p.fresh) /\ ha \ p.fresh \subseteq hb \ p.fresh
    BY Zenon, FS_Difference
  <2>2. p.total \in Nat /\ p.total <= Cardinality(ha \ p.fresh)
    BY Zenon DEF PageRow, PageSound
  <2> QED BY Zenon, <2>1, <2>2, CountGrows
<1>3. p.count <= Cardinality((hb \cap EventsIn(h, p.r)) \ p.fresh)
  <2>1. /\ IsFiniteSet((hb \cap EventsIn(h, p.r)) \ p.fresh)
        /\ (ha \cap EventsIn(h, p.r)) \ p.fresh \subseteq (hb \cap EventsIn(h, p.r)) \ p.fresh
    BY Zenon, FS_Intersection, FS_Difference
  <2>2. p.count \in Nat /\ p.count <= Cardinality((ha \cap EventsIn(h, p.r)) \ p.fresh)
    BY Zenon DEF PageRow, PageSound
  <2> QED BY Zenon, <2>1, <2>2, CountGrows
<1>4. /\ p.pc \in {"insert", "checkpoint", "import"} => PageOf(h, p.r, p.cursor) \subseteq ps
      /\ p.pc \in {"checkpoint", "import"} => p.fresh \subseteq hb
  BY Zenon DEF PageSound
<1> QED BY Zenon, <1>1, <1>2, <1>3, <1>4 DEF PageSound

\* A worker that has nothing.
LEMMA NoPageSound ==
    ASSUME NEW h, NEW ha, IsFiniteSet(ha), NEW pr
    PROVE  NoPage \in PageRow /\ PageSound(NoPage, h, ha, pr)
<1>1. NoPage \in PageRow
  BY Zenon, FirstPage, HistoryBounds DEF NoPage, PageRow, ImportStates, PageAnswers
<1>2. /\ NoPage.pc = "idle" /\ NoPage.fresh = {} /\ NoPage.cursor = 0 /\ NoPage.total = 0
      /\ NoPage.count = 0
  BY Zenon DEF NoPage
<1>3. \A S : IsFiniteSet(S) => 0 <= Cardinality(S)
  BY FS_CardinalityType
<1>4. IsFiniteSet(ha \ {}) /\ IsFiniteSet((ha \cap EventsIn(h, NoPage.r)) \ {})
  BY Zenon, FS_Difference, FS_Intersection
<1> QED BY Zenon, <1>1, <1>2, <1>3, <1>4, FirstPage DEF PageSound

LEMMA NoRangeSound ==
    ASSUME NEW x \in RangeRow, x.cursor = 0, x.count = 0, NEW r, NEW h, NEW ha, IsFiniteSet(ha), NEW pr,
           x.status = "completed" => EventsIn(h, r) \subseteq pr
    PROVE  RangeSound(x, r, h, ha, pr)
<1>1. 0 <= Cardinality(ha \cap EventsIn(h, r))
  <2>1. IsFiniteSet(ha \cap EventsIn(h, r))
    BY Zenon, FS_Intersection
  <2>2. Cardinality(ha \cap EventsIn(h, r)) \in Nat
    BY Zenon, <2>1, FS_CardinalityType
  <2> QED BY <2>2
<1> QED BY Zenon, <1>1, FirstPage DEF RangeSound

-----------------------------------------------------------------------------
(* Steps                                                                     *)

RangesSound ==
    range \in [Ranges -> RangeRow] /\ \A r \in Ranges : RangeSound(range[r], r, holds, hashed, projected)

PagesSound ==
    page \in [PageWorkers -> PageRow] /\ \A w \in PageWorkers : PageSound(page[w], holds, hashed, projected)

LeasesSound == \A r \in Ranges \ {First}, w \in PageWorkers : LeaseSound(range[r], r, w, page[w])

StarterSound ==
    /\ starter \in {"none", "asked", "insert"} => \A r \in Ranges \ {First} : range[r].status = "none"
    /\ imp.status = "none" => starter = "none"

ImportSound ==
    /\ imp \in [status : ImportStates, count : Nat] /\ imp.count <= Cardinality(hashed)
    /\ IsFiniteSet(hashed) /\ hashed \subseteq projected

LEMMA InvParts ==
    HistoryInv <=> RangesSound /\ PagesSound /\ LeasesSound /\ StarterSound /\ ImportSound
BY Zenon DEF HistoryInv, HistoryShape, RangesSound, PagesSound, LeasesSound, StarterSound, ImportSound

LEMMA InvPartsAfter ==
    ASSUME RangesSound', PagesSound', LeasesSound', StarterSound', ImportSound'
    PROVE  HistoryInv'
BY Zenon DEF HistoryInv, HistoryShape, RangesSound, PagesSound, LeasesSound, StarterSound, ImportSound

LEMMA NothingHashed ==
    ASSUME HistoryInv, UNCHANGED <<hashed, projected, imp>>
    PROVE  ImportSound'
<1>1. ImportSound
  BY Zenon, InvParts
<1> QED BY Zenon, <1>1 DEF ImportSound

LEMMA SameRanges ==
    ASSUME HistoryInv, UNCHANGED <<holds, hashed, projected, range>>
    PROVE  RangesSound'
<1>1. RangesSound
  BY Zenon, InvParts
<1> QED BY Zenon, <1>1 DEF RangesSound

LEMMA SamePages ==
    ASSUME HistoryInv, UNCHANGED <<holds, hashed, projected, page>>
    PROVE  PagesSound'
<1>1. PagesSound
  BY Zenon, InvParts
<1> QED BY Zenon, <1>1 DEF PagesSound

LEMMA OneRange ==
    ASSUME HistoryInv, UNCHANGED <<holds, hashed, projected>>, NEW r \in Ranges, NEW x \in RangeRow,
           RangeSound(x, r, holds, hashed, projected), range' = [range EXCEPT ![r] = x]
    PROVE  RangesSound'
<1>1. RangesSound
  BY Zenon, InvParts
<1>2. range' \in [Ranges -> RangeRow]
  BY Zenon, <1>1 DEF RangesSound
<1>3. \A s \in Ranges : RangeSound(range'[s], s, holds, hashed, projected)
  BY Zenon, <1>1 DEF RangesSound
<1> QED BY Zenon, <1>2, <1>3 DEF RangesSound

LEMMA OnePage ==
    ASSUME HistoryInv, UNCHANGED <<holds, hashed, projected>>, NEW w \in PageWorkers, NEW x \in PageRow,
           PageSound(x, holds, hashed, projected), page' = [page EXCEPT ![w] = x]
    PROVE  PagesSound'
<1>1. PagesSound
  BY Zenon, InvParts
<1>2. page' \in [PageWorkers -> PageRow]
  BY Zenon, <1>1 DEF PagesSound
<1>3. \A v \in PageWorkers : PageSound(page'[v], holds, hashed, projected)
  BY Zenon, <1>1 DEF PagesSound
<1> QED BY Zenon, <1>2, <1>3 DEF PagesSound

\* A row whose status, cursor and count stay.
Kept(x, y) ==
    y \in RangeRow /\ y.status = x.status /\ y.cursor = x.cursor /\ y.count = x.count

LEMMA KeptRanges ==
    ASSUME HistoryInv, UNCHANGED <<holds, hashed, projected>>, range' = [r \in Ranges |-> range'[r]],
           \A r \in Ranges : Kept(range[r], range'[r])
    PROVE  RangesSound' /\ (UNCHANGED <<starter, imp>> => StarterSound')
<1>1. RangesSound /\ StarterSound
  BY Zenon, InvParts
<1>2. \A r \in Ranges : range'[r] \in RangeRow
  BY Zenon DEF Kept
<1>3. range' \in [Ranges -> RangeRow]
  BY Zenon, <1>2
<1>4. \A r \in Ranges : RangeSound(range'[r], r, holds, hashed, projected)
  BY Zenon, <1>1 DEF RangesSound, RangeSound, Kept
<1>5. UNCHANGED <<starter, imp>> => StarterSound'
  BY Zenon, <1>1 DEF StarterSound, Kept
<1> QED BY Zenon, <1>3, <1>4, <1>5 DEF RangesSound

\* A lease that is given up, or lost with its worker.
Loosened(x, y) == y.status = x.status /\ y.token \in {x.token, "none", "dead"}

LEMMA LoosenedLeases ==
    ASSUME HistoryInv, UNCHANGED page, \A r \in Ranges \ {First} : Loosened(range[r], range'[r])
    PROVE  LeasesSound'
<1>1. LeasesSound
  BY Zenon, InvParts
<1>2. \A w \in PageWorkers : w \notin {"none", "dead"}
  BY Zenon, HistoryBounds
<1>3. \A r \in Ranges \ {First}, w \in PageWorkers : LeaseSound(range'[r], r, w, page[w])
  <2> TAKE r \in Ranges \ {First}, w \in PageWorkers
  <2>1. LeaseSound(range[r], r, w, page[w]) /\ Loosened(range[r], range'[r])
    BY Zenon, <1>1 DEF LeasesSound
  <2>2. range'[r].token = w => range[r].token = w
    BY Zenon, <1>2, <2>1 DEF Loosened
  <2> QED BY Zenon, <2>1, <2>2 DEF LeaseSound, Loosened
<1> QED BY Zenon, <1>3 DEF LeasesSound

\* reconcileHistoryWork gives up leases and plans wakes.
LEMMA ReconcileKeeps ==
    ASSUME NEW x \in RangeRow, NEW mine \in BOOLEAN, NEW w, NEW other \in BOOLEAN
    PROVE  LET y == reconcileHistoryWork(x, mine, w, other)
           IN  /\ Kept(x, y) /\ Loosened(x, y)
               /\ mine /\ x.token = w /\ x.status \in Settled => y.token = "none"
<1>1. PICK u : u = [x EXCEPT !.token = "none", !.lapsed = FALSE]
  BY Zenon
<1>2. u \in RangeRow /\ u.status = x.status /\ u.cursor = x.cursor /\ u.count = x.count /\ u.token = "none"
  BY Zenon, <1>1 DEF RangeRow
<1>3. x.erred \in BOOLEAN /\ FALSE \in BOOLEAN
  BY Zenon DEF RangeRow
<1>4. ASSUME NEW b \in BOOLEAN, NEW y, y = [u EXCEPT !.later = b]
      PROVE  Kept(x, y) /\ Loosened(x, y) /\ y.token = "none"
  BY Zenon, <1>2, <1>4 DEF RangeRow, Kept, Loosened
<1>5. Kept(x, x) /\ Loosened(x, x)
  BY Zenon DEF Kept, Loosened
<1>6. scheduleHistoryRangeWork(x) = [u EXCEPT !.later = x.erred] /\ closeHistoryRangeWork(x) = [u EXCEPT !.later = FALSE]
  BY Zenon, <1>1 DEF scheduleHistoryRangeWork, closeHistoryRangeWork, Unleased
<1>7. PICK a, b : a = scheduleHistoryRangeWork(x) /\ b = closeHistoryRangeWork(x)
  BY Zenon
<1>8. /\ Kept(x, a) /\ Loosened(x, a) /\ a.token = "none"
      /\ Kept(x, b) /\ Loosened(x, b) /\ b.token = "none"
  BY Zenon, <1>3, <1>4, <1>6, <1>7
<1>9. Settled \cap Open = {}
  BY Zenon DEF Settled, Open
<1> QED BY Zenon, <1>5, <1>7, <1>8, <1>9 DEF reconcileHistoryWork

-----------------------------------------------------------------------------
(* The start handler                                                         *)

LEMMA RowsTyped ==
    ASSUME HistoryInv
    PROVE  /\ range \in [Ranges -> RangeRow] /\ First \in Ranges /\ page \in [PageWorkers -> PageRow]
           /\ \A r \in Ranges : RangeSound(range[r], r, holds, hashed, projected)
           /\ \A w \in PageWorkers : PageSound(page[w], holds, hashed, projected)
           /\ IsFiniteSet(hashed)
BY Zenon, HistoryBounds DEF HistoryInv, HistoryShape

\* A step that writes the row of the first range.
LEMMA FirstStep ==
    ASSUME HistoryInv, UNCHANGED <<holds, hashed, projected, page>>, NEW x \in RangeRow,
           RangeSound(x, First, holds, hashed, projected), range' = [range EXCEPT ![First] = x],
           ImportSound', imp'.status # "none", starter # "none" \/ imp.status = "none",
           starter' \in {"none", "asked", "insert"} => starter \in {"none", "asked", "insert"}
    PROVE  HistoryInv'
<1>1. RangesSound'
  BY Zenon, OneRange, RowsTyped
<1>2. PagesSound'
  BY Zenon, SamePages
<1>3. \A r \in Ranges \ {First} : range'[r] = range[r]
  BY Zenon, RowsTyped
<1>4. LeasesSound'
  BY Zenon, <1>3, LoosenedLeases DEF Loosened
<1>5. StarterSound'
  BY Zenon, <1>3, InvParts DEF StarterSound
<1> QED BY Zenon, <1>1, <1>2, <1>4, <1>5, InvPartsAfter

LEMMA CreateKeepsInv ==
    ASSUME HistoryInv, createImport
    PROVE  HistoryInv'
<1>1. PICK x : x = [range[First] EXCEPT !.status = "pending"]
  BY Zenon
<1>2. range' = [range EXCEPT ![First] = x]
  BY <1>1 DEF createImport
<1>3. x \in RangeRow /\ x.cursor = range[First].cursor /\ x.count = range[First].count /\ x.status = "pending"
  BY Zenon, <1>1, RowsTyped DEF RangeRow, RangeStatus
<1>4. RangeSound(x, First, holds, hashed, projected)
  BY Zenon, <1>3, RowsTyped DEF RangeSound
<1>5. UNCHANGED <<holds, hashed, projected, page>> /\ starter' = "asked" /\ imp.status = "none"
  BY Zenon DEF createImport
<1>6. ImportSound' /\ imp'.status # "none" /\ starter = "none"
  <2>1. ImportSound /\ StarterSound
    BY Zenon, InvParts
  <2>2. imp' = [imp EXCEPT !.status = "started"]
    BY Zenon DEF createImport
  <2>3. imp' \in [status : ImportStates, count : Nat] /\ imp'.status = "started" /\ imp'.count = imp.count
    BY Zenon, <2>1, <2>2 DEF ImportSound, ImportStates
  <2>4. starter = "none"
    BY Zenon, <1>5, <2>1 DEF StarterSound
  <2> QED BY Zenon, <1>5, <2>1, <2>3, <2>4 DEF ImportSound
<1> QED BY Zenon, <1>2, <1>3, <1>4, <1>5, <1>6, FirstStep

\* A start handler that is under way follows createImport.
LEMMA StartedImport ==
    ASSUME HistoryInv, starter # "none", UNCHANGED <<hashed, projected, imp>>
    PROVE  ImportSound' /\ imp'.status # "none"
BY Zenon, NothingHashed, InvParts DEF StarterSound

\* One more attempt.
LEMMA FailedRow ==
    ASSUME NEW x \in RangeRow, NEW a \in Nat, NEW t
    PROVE  LET y == FailedRange(x, a, t)
           IN  /\ y \in RangeRow /\ y.status \in {"failed", "active"} /\ y.cursor = x.cursor
               /\ y.count = x.count /\ y.token = x.token
<1>1. PICK n, s : n = Attempt(a) /\ s = IF Exhausted(a, t) THEN "failed" ELSE "active"
  BY Zenon
<1>2. n \in Nat /\ s \in {"failed", "active"} /\ s \in RangeStatus
  <2>1. Attempt(a) \in Nat
    BY HistoryBounds DEF Attempt
  <2> QED BY Zenon, <1>1, <2>1 DEF RangeStatus
<1>3. PICK y : y = [x EXCEPT !.status = s, !.attempts = n, !.erred = TRUE]
  BY Zenon
<1>4. /\ y \in RangeRow /\ y.status = s /\ y.cursor = x.cursor
      /\ y.count = x.count /\ y.token = x.token
  BY Zenon, <1>2, <1>3 DEF RangeRow
<1>5. FailedRange(x, a, t) = y
  BY Zenon, <1>1, <1>3 DEF FailedRange
<1> QED BY Zenon, <1>2, <1>4, <1>5

LEMMA FailedSound ==
    ASSUME HistoryInv, NEW r \in Ranges, NEW a \in Nat, NEW t
    PROVE  /\ FailedRange(range[r], a, t) \in RangeRow
           /\ RangeSound(FailedRange(range[r], a, t), r, holds, hashed, projected)
<1>1. PICK y : y = FailedRange(range[r], a, t)
  BY Zenon
<1>2. /\ y \in RangeRow /\ y.status \in {"failed", "active"} /\ y.cursor = range[r].cursor
      /\ y.count = range[r].count
  <2>1. range[r] \in RangeRow
    BY Zenon, RowsTyped
  <2> QED BY Zenon, <1>1, <2>1, FailedRow
<1>3. RangeSound(y, r, holds, hashed, projected)
  <2>1. RangeSound(range[r], r, holds, hashed, projected) /\ y.status # "completed"
    BY Zenon, <1>2, RowsTyped
  <2> QED BY Zenon, <1>2, <2>1 DEF RangeSound
<1> QED BY Zenon, <1>1, <1>2, <1>3

LEMMA StartFailsKeepsInv ==
    ASSUME HistoryInv, NEW t, startFails(t)
    PROVE  HistoryInv'
<1>1. PICK x : x = FailedRange(range[First], range[First].attempts, t)
  BY Zenon
<1>2. range' = [range EXCEPT ![First] = x]
  BY Zenon, <1>1 DEF startFails
<1>3. x \in RangeRow /\ RangeSound(x, First, holds, hashed, projected)
  <2>1. range[First].attempts \in Nat
    BY Zenon, RowsTyped DEF RangeRow
  <2> QED BY Zenon, <1>1, <2>1, RowsTyped, FailedSound
<1>4. /\ UNCHANGED <<holds, hashed, projected, page, imp>> /\ starter = "asked"
      /\ starter' \in {"fail", "fail_active"}
  BY Zenon DEF startFails
<1> QED BY Zenon, <1>2, <1>3, <1>4, StartedImport, FirstStep

LEMMA EmptyKeepsInv ==
    ASSUME HistoryInv, startEmpty
    PROVE  HistoryInv'
<1>1. PICK x : x = [range[First] EXCEPT !.status = "completed", !.count = 0]
  BY Zenon
<1>2. range' = [range EXCEPT ![First] = x]
  BY Zenon, <1>1 DEF startEmpty
<1>3. x \in RangeRow /\ x.cursor = range[First].cursor /\ x.count = 0
  BY Zenon, <1>1, RowsTyped, FirstPage DEF RangeRow, RangeStatus
<1>4. UNCHANGED <<holds, hashed, projected, page, imp>> /\ starter = "asked" /\ starter' = "empty" /\ ~holds
  BY Zenon DEF startEmpty
<1>5. RangeSound(x, First, holds, hashed, projected)
  <2>1. Passed(First, x.cursor, holds, projected)
    BY Zenon, <1>3, RowsTyped DEF RangeSound
  <2>2. EventsIn(holds, First) \subseteq projected
    BY Zenon, <1>4 DEF EventsIn, PageOf
  <2>3. x.count <= Cardinality(hashed \cap EventsIn(holds, First))
    <3>1. IsFiniteSet(hashed \cap EventsIn(holds, First))
      BY Zenon, RowsTyped, FS_Intersection
    <3>2. Cardinality(hashed \cap EventsIn(holds, First)) \in Nat
      BY Zenon, <3>1, FS_CardinalityType
    <3> QED BY <1>3, <3>2
  <2> QED BY Zenon, <2>1, <2>2, <2>3 DEF RangeSound
<1> QED BY Zenon, <1>2, <1>3, <1>4, <1>5, StartedImport, FirstStep

LEMMA FirstRangeKeepsInv ==
    ASSUME HistoryInv, startFirstRange
    PROVE  HistoryInv'
<1>1. PICK x : x = [range[First] EXCEPT !.status = "active", !.cursor = 0]
  BY Zenon
<1>2. range' = [range EXCEPT ![First] = x]
  BY Zenon, <1>1 DEF startFirstRange
<1>3. x \in RangeRow /\ x.cursor = 0 /\ x.count = range[First].count /\ x.status = "active"
  BY Zenon, <1>1, RowsTyped, FirstPage DEF RangeRow, RangeStatus
<1>4. UNCHANGED <<holds, hashed, projected, page, imp>> /\ starter = "asked" /\ starter' = "insert"
  BY Zenon DEF startFirstRange
<1>5. RangeSound(x, First, holds, hashed, projected)
  BY Zenon, <1>3, RowsTyped, FirstPage DEF RangeSound
<1> QED BY Zenon, <1>2, <1>3, <1>4, <1>5, StartedImport, FirstStep

LEMMA InsertKeepsInv ==
    ASSUME HistoryInv, insertRanges
    PROVE  HistoryInv'
<1>1. UNCHANGED <<holds, imp, hashed, projected, page>> /\ starter = "insert" /\ starter' \in {"active", "fail"}
  BY Zenon DEF insertRanges
<1>2. ASSUME NEW rest \in SUBSET (Ranges \ {First}),
             range' = [r \in Ranges |-> IF r \in rest THEN [NoRange EXCEPT !.status = "pending"] ELSE range[r]]
      PROVE  HistoryInv'
  <2>1. PICK x : x = [NoRange EXCEPT !.status = "pending"]
    BY Zenon
  <2>2. x \in RangeRow /\ x.cursor = 0 /\ x.count = 0 /\ x.status = "pending"
    BY Zenon, <2>1, FirstPage DEF NoRange, RangeRow, RangeStatus
  <2>3. \A r \in Ranges : RangeSound(x, r, holds, hashed, projected)
    BY Zenon, <2>2, RowsTyped, NoRangeSound
  <2>4. \A r \in Ranges : range'[r] = x \/ range'[r] = range[r]
    BY Zenon, <1>2, <2>1
  <2>5. \A r \in Ranges : range'[r] \in RangeRow /\ RangeSound(range'[r], r, holds, hashed, projected)
    BY Zenon, <2>2, <2>3, <2>4, RowsTyped
  <2>6. RangesSound'
    <3>1. range' \in [Ranges -> RangeRow]
      BY Zenon, <1>2, <2>5
    <3> QED BY Zenon, <1>1, <2>5, <3>1 DEF RangesSound
  <2>7. LeasesSound'
    <3>1. \A r \in Ranges \ {First}, w \in PageWorkers : LeaseSound(range'[r], r, w, page[w])
      <4> TAKE r \in Ranges \ {First}, w \in PageWorkers
      <4>1. CASE range'[r] = x
        BY Zenon, <2>2, <4>1 DEF LeaseSound, Open
      <4>2. CASE range'[r] = range[r]
        BY Zenon, <4>2, InvParts DEF LeasesSound
      <4> QED BY Zenon, <2>4, <4>1, <4>2
    <3> QED BY Zenon, <1>1, <3>1 DEF LeasesSound
  <2>8. StarterSound' /\ ImportSound' /\ PagesSound'
    BY Zenon, <1>1, NothingHashed, SamePages, InvParts DEF StarterSound
  <2> QED BY Zenon, <2>6, <2>7, <2>8, InvPartsAfter
<1>3. ASSUME range' = [range EXCEPT ![First] = FailedRange(@, @.attempts, TRUE)]
      PROVE  HistoryInv'
  <2>1. PICK x : x = FailedRange(range[First], range[First].attempts, TRUE)
    BY Zenon
  <2>2. range' = [range EXCEPT ![First] = x]
    BY Zenon, <1>3, <2>1
  <2>3. x \in RangeRow /\ RangeSound(x, First, holds, hashed, projected)
    <3>1. range[First].attempts \in Nat
      BY Zenon, RowsTyped DEF RangeRow
    <3> QED BY Zenon, <2>1, <3>1, RowsTyped, FailedSound
  <2> QED BY Zenon, <1>1, <2>2, <2>3, StartedImport, FirstStep
<1> QED BY Zenon, <1>2, <1>3 DEF insertRanges

LEMMA StartEndsKeepsInv ==
    ASSUME HistoryInv, startUpdateImport \/ startReconcile \/ startDies
    PROVE  HistoryInv'
<1>1. /\ UNCHANGED <<holds, hashed, projected, page>> /\ starter # "none"
      /\ starter' \in {"reconcile", "done"}
  BY Zenon DEF startUpdateImport, startReconcile, startDies
<1>2. PagesSound'
  BY Zenon, <1>1, SamePages
<1>3. \A r \in Ranges : Kept(range[r], range'[r]) /\ Loosened(range[r], range'[r])
  <2>1. CASE UNCHANGED range
    BY Zenon, <2>1, RowsTyped DEF Kept, Loosened
  <2>2. CASE startReconcile
    <3>1. \A r \in Ranges : range'[r] = reconcileHistoryWork(range[r], FALSE, "none", TRUE)
      BY Zenon, <2>2 DEF startReconcile
    <3> QED BY Zenon, <3>1, RowsTyped, ReconcileKeeps
  <2> QED BY Zenon, <2>1, <2>2 DEF startUpdateImport, startDies
<1>4. range' = [r \in Ranges |-> range'[r]]
  <2>1. CASE UNCHANGED range
    BY Zenon, <2>1, RowsTyped
  <2>2. CASE startReconcile
    BY Zenon, <2>2 DEF startReconcile
  <2> QED BY Zenon, <2>1, <2>2 DEF startUpdateImport, startDies
<1>5. RangesSound' /\ LeasesSound'
  BY Zenon, <1>1, <1>3, <1>4, KeptRanges, LoosenedLeases
<1>6. ImportSound' /\ imp'.status # "none"
  <2>1. CASE UNCHANGED imp
    BY Zenon, <1>1, <2>1, StartedImport
  <2>2. CASE startUpdateImport
    <3>1. ImportSound
      BY Zenon, InvParts
    <3>2. PICK s : imp' = [imp EXCEPT !.status = s] /\ s \in {"failed", "completed", "active"}
      BY <2>2 DEF startUpdateImport
    <3>3. /\ imp' \in [status : ImportStates, count : Nat] /\ imp'.count = imp.count
          /\ imp'.status = s
      BY Zenon, <3>1, <3>2 DEF ImportSound, ImportStates
    <3> QED BY Zenon, <1>1, <3>1, <3>2, <3>3 DEF ImportSound
  <2> QED BY Zenon, <2>1, <2>2 DEF startReconcile, startDies
<1>7. StarterSound'
  BY Zenon, <1>1, <1>6 DEF StarterSound
<1> QED BY Zenon, <1>2, <1>5, <1>6, <1>7, InvPartsAfter

\* Time.
LEMMA TimeKeepsInv ==
    ASSUME HistoryInv, NEW r \in Ranges, historyLeaseExpires(r) \/ historyWakes(r)
    PROVE  HistoryInv'
<1>1. UNCHANGED <<holds, imp, hashed, projected, starter, page>>
  BY Zenon DEF historyLeaseExpires, historyWakes
<1>2. PICK x : /\ x = [range[r] EXCEPT !.lapsed = TRUE] \/ x = [range[r] EXCEPT !.later = FALSE]
               /\ range' = [range EXCEPT ![r] = x]
  BY Zenon DEF historyLeaseExpires, historyWakes
<1>3. Kept(range[r], x) /\ x.token = range[r].token
  <2>1. CASE x = [range[r] EXCEPT !.lapsed = TRUE]
    BY Zenon, <2>1, RowsTyped DEF RangeRow, Kept
  <2>2. CASE x = [range[r] EXCEPT !.later = FALSE]
    BY Zenon, <2>2, RowsTyped DEF RangeRow, Kept
  <2> QED BY Zenon, <1>2, <2>1, <2>2
<1>4. range' = [s \in Ranges |-> range'[s]]
  BY Zenon, <1>2, RowsTyped
<1>5. \A s \in Ranges : Kept(range[s], range'[s]) /\ Loosened(range[s], range'[s])
  BY Zenon, <1>2, <1>3, RowsTyped DEF Kept, Loosened
<1>6. RangesSound' /\ StarterSound' /\ LeasesSound'
  BY Zenon, <1>1, <1>4, <1>5, KeptRanges, LoosenedLeases
<1> QED BY Zenon, <1>1, <1>6, NothingHashed, SamePages, InvPartsAfter

-----------------------------------------------------------------------------
(* The advance handler                                                       *)

Late == {"import", "fail_import", "reconcile"}

\* A worker that has not settled its range holds leases of open ranges only.
LEMMA IdleLease ==
    ASSUME HistoryInv, NEW w \in PageWorkers, page[w].pc \notin Late, NEW r \in Ranges \ {First}, NEW x
    PROVE  LeaseSound(range[r], r, w, x)
BY Zenon, InvParts DEF LeasesSound, LeaseSound, Late

LEMMA LateLease ==
    ASSUME HistoryInv, NEW w \in PageWorkers, NEW r \in Ranges \ {First}, NEW x,
           x.r = page[w].r, x.pc \in Late
    PROVE  LeaseSound(range[r], r, w, x)
BY Zenon, InvParts DEF LeasesSound, LeaseSound, Late

LEMMA LostLease ==
    ASSUME HistoryInv, NEW w \in PageWorkers, ~Fenced(w, page[w].r), NEW r \in Ranges \ {First}, NEW x
    PROVE  LeaseSound(range[r], r, w, x)
<1>1. LeaseSound(range[r], r, w, page[w])
  BY Zenon, InvParts DEF LeasesSound
<1> QED BY Zenon, <1>1 DEF LeaseSound, Fenced

\* A step of a worker that writes no range.
LEMMA WorkerStep ==
    ASSUME HistoryInv, UNCHANGED <<holds, range, hashed, projected, starter>>, NEW w \in PageWorkers,
           NEW x \in PageRow, PageSound(x, holds, hashed, projected), page' = [page EXCEPT ![w] = x],
           \A r \in Ranges \ {First} : LeaseSound(range[r], r, w, x),
           ImportSound', imp'.status = "none" => imp.status = "none"
    PROVE  HistoryInv'
<1>1. RangesSound' /\ PagesSound'
  BY Zenon, SameRanges, OnePage
<1>2. \A v \in PageWorkers : page'[v] = IF v = w THEN x ELSE page[v]
  BY Zenon, RowsTyped
<1>3. LeasesSound'
  <2>1. LeasesSound
    BY Zenon, InvParts
  <2> QED BY Zenon, <1>2, <2>1 DEF LeasesSound
<1>4. StarterSound'
  BY Zenon, InvParts DEF StarterSound
<1> QED BY Zenon, <1>1, <1>3, <1>4, InvPartsAfter

\* A step of a worker that writes the row of one range, whose lease it has
\* from then on.
LEMMA LeasedStep ==
    ASSUME HistoryInv, UNCHANGED <<holds, imp, hashed, projected, starter>>, NEW w \in PageWorkers,
           NEW x \in PageRow, PageSound(x, holds, hashed, projected), page' = [page EXCEPT ![w] = x],
           NEW r \in Ranges, NEW y \in RangeRow, RangeSound(y, r, holds, hashed, projected),
           range' = [range EXCEPT ![r] = y], y.token = w, r = First \/ range[r].status # "none",
           LeaseSound(y, r, w, x), \A s \in Ranges \ {First} : s # r => LeaseSound(range[s], s, w, x)
    PROVE  HistoryInv'
<1>1. RangesSound' /\ PagesSound' /\ ImportSound'
  BY Zenon, OneRange, OnePage, NothingHashed
<1>2. \A v \in PageWorkers : page'[v] = IF v = w THEN x ELSE page[v]
  BY Zenon, RowsTyped
<1>3. \A s \in Ranges : range'[s] = IF s = r THEN y ELSE range[s]
  BY Zenon, RowsTyped
<1>4. LeasesSound'
  <2>1. \A s \in Ranges \ {First}, v \in PageWorkers : LeaseSound(range'[s], s, v, page'[v])
    <3> TAKE s \in Ranges \ {First}, v \in PageWorkers
    <3>1. CASE v = w
      <4>1. page'[v] = x
        BY Zenon, <1>2, <3>1
      <4>2. CASE s = r
        BY Zenon, <1>3, <3>1, <4>1, <4>2
      <4>3. CASE s # r
        BY Zenon, <1>3, <3>1, <4>1, <4>3
      <4> QED BY Zenon, <4>2, <4>3
    <3>2. CASE v # w /\ s = r
      BY Zenon, <1>3, <3>2 DEF LeaseSound
    <3>3. CASE v # w /\ s # r
      BY Zenon, <1>2, <1>3, <3>3, InvParts DEF LeasesSound
    <3> QED BY Zenon, <3>1, <3>2, <3>3
  <2> QED BY Zenon, <2>1 DEF LeasesSound
<1>5. StarterSound'
  <2>1. StarterSound
    BY Zenon, InvParts
  <2>2. starter \in {"none", "asked", "insert"} => \A s \in Ranges \ {First} : range'[s].status = "none"
    BY Zenon, <1>3, <2>1 DEF StarterSound
  <2> QED BY Zenon, <2>1, <2>2 DEF StarterSound
<1> QED BY Zenon, <1>1, <1>4, <1>5, InvPartsAfter

LEMMA ClaimedRow ==
    ASSUME HistoryInv, NEW r \in Ranges, NEW w \in PageWorkers, range[r].status \in Open
    PROVE  LET y == claimHistoryRangeWork(range[r], w)
           IN  /\ y \in RangeRow /\ RangeSound(y, r, holds, hashed, projected) /\ y.token = w
               /\ range[r].status # "none" /\ \A x : LeaseSound(y, r, w, x)
<1>1. range[r] \in RangeRow /\ RangeSound(range[r], r, holds, hashed, projected) /\ range[r].status # "none"
  BY Zenon, RowsTyped DEF Open
<1>2. PICK y : y = claimHistoryRangeWork(range[r], w)
  BY Zenon
<1>3. Kept(range[r], y) /\ y.token = w
  BY Zenon, <1>1, <1>2 DEF claimHistoryRangeWork, RangeRow, Kept
<1>4. RangeSound(y, r, holds, hashed, projected) /\ \A x : LeaseSound(y, r, w, x)
  BY Zenon, <1>1, <1>3 DEF RangeSound, Kept, LeaseSound
<1> QED BY Zenon, <1>1, <1>2, <1>3, <1>4 DEF Kept

\* A worker that begins.
LEMMA ReadSound ==
    ASSUME HistoryInv, NEW x, x.pc = "read", x.fresh = {}, x.cursor = 0, x.total = 0, x.count = 0
    PROVE  PageSound(x, holds, hashed, projected)
<1>1. \A S : IsFiniteSet(S) => 0 <= Cardinality(S)
  BY FS_CardinalityType
<1>2. IsFiniteSet(hashed \ {}) /\ IsFiniteSet((hashed \cap EventsIn(holds, x.r)) \ {})
  BY Zenon, RowsTyped, FS_Difference, FS_Intersection
<1> QED BY Zenon, <1>1, <1>2, FirstPage DEF PageSound

LEMMA BegunPage ==
    ASSUME HistoryInv, NEW r \in Ranges, NEW x,
           \/ x = [NoPage EXCEPT !.pc = "read", !.r = r, !.cron = TRUE]
           \/ x = [NoPage EXCEPT !.pc = "read", !.r = r]
    PROVE  x \in PageRow /\ PageSound(x, holds, hashed, projected)
<1>1. NoPage \in PageRow
  BY Zenon, RowsTyped, NoPageSound
<1>2. /\ x \in PageRow /\ x.pc = "read" /\ x.fresh = NoPage.fresh /\ x.cursor = NoPage.cursor
      /\ x.total = NoPage.total /\ x.count = NoPage.count
  <2>1. CASE x = [NoPage EXCEPT !.pc = "read", !.r = r, !.cron = TRUE]
    BY Zenon, <1>1, <2>1 DEF PageRow
  <2>2. CASE x = [NoPage EXCEPT !.pc = "read", !.r = r]
    BY Zenon, <1>1, <2>2 DEF PageRow
  <2> QED BY Zenon, <2>1, <2>2
<1>3. x.pc = "read" /\ x.fresh = {} /\ x.cursor = 0 /\ x.total = 0 /\ x.count = 0
  BY Zenon, <1>2 DEF NoPage
<1>4. PageSound(x, holds, hashed, projected)
  BY Zenon, <1>3, ReadSound
<1> QED BY Zenon, <1>2, <1>4

LEMMA BeginKeepsInv ==
    ASSUME HistoryInv, NEW w \in PageWorkers, claimNextHistoryRangeWork(w) \/ advanceRequested(w)
    PROVE  HistoryInv'
<1>1. UNCHANGED <<holds, imp, hashed, projected, starter>> /\ page[w].pc = "idle"
  BY Zenon DEF claimNextHistoryRangeWork, advanceRequested
<1>2. page[w] = NoPage /\ page[w].pc \notin Late
  BY Zenon, <1>1, RowsTyped DEF PageSound, Late
<1>3. ASSUME NEW r \in Ranges, range[r].status \in Open, NEW x,
             \/ x = [page[w] EXCEPT !.pc = "read", !.r = r, !.cron = TRUE]
             \/ x = [page[w] EXCEPT !.pc = "read", !.r = r],
             page' = [page EXCEPT ![w] = x],
             \/ UNCHANGED range
             \/ range' = [range EXCEPT ![r] = claimHistoryRangeWork(range[r], w)]
      PROVE  HistoryInv'
  <2>1. x \in PageRow /\ PageSound(x, holds, hashed, projected)
    BY Zenon, <1>2, <1>3, BegunPage
  <2>2. \A s \in Ranges \ {First} : LeaseSound(range[s], s, w, x)
    BY Zenon, <1>2, IdleLease
  <2>3. CASE UNCHANGED range
    <3>1. ImportSound'
      BY Zenon, <1>1, NothingHashed
    <3> QED BY Zenon, <1>1, <1>3, <2>1, <2>2, <2>3, <3>1, WorkerStep
  <2>4. CASE range' = [range EXCEPT ![r] = claimHistoryRangeWork(range[r], w)]
    <3>1. PICK y : y = claimHistoryRangeWork(range[r], w)
      BY Zenon
    <3>2. /\ y \in RangeRow /\ RangeSound(y, r, holds, hashed, projected) /\ y.token = w
          /\ range[r].status # "none" /\ LeaseSound(y, r, w, x)
      BY Zenon, <1>3, <3>1, ClaimedRow
    <3> QED BY Zenon, <1>1, <1>3, <2>1, <2>2, <2>4, <3>1, <3>2, LeasedStep
  <2> QED BY Zenon, <1>3, <2>3, <2>4
<1>4. CASE claimNextHistoryRangeWork(w)
  <2>1. PICK r \in Ranges :
          /\ Claimable(range[r], "none", TRUE)
          /\ range' = [range EXCEPT ![r] = claimHistoryRangeWork(@, w)]
          /\ page' = [page EXCEPT ![w].pc = "read", ![w].r = r, ![w].cron = TRUE]
    BY Zenon, <1>4 DEF claimNextHistoryRangeWork
  <2>2. PICK x : x = [page[w] EXCEPT !.pc = "read", !.r = r, !.cron = TRUE]
    BY Zenon
  <2>3. page' = [page EXCEPT ![w] = x]
    BY Zenon, <2>1, <2>2, RowsTyped
  <2>4. range[r].status \in Open /\ range' = [range EXCEPT ![r] = claimHistoryRangeWork(range[r], w)]
    BY Zenon, <2>1 DEF Claimable
  <2> QED BY Zenon, <1>3, <2>2, <2>3, <2>4
<1>5. CASE advanceRequested(w)
  <2>1. PICK r \in Ranges :
          range[r].status \in Open /\ page' = [page EXCEPT ![w].pc = "read", ![w].r = r]
    BY Zenon, <1>5 DEF advanceRequested
  <2>2. PICK x : x = [page[w] EXCEPT !.pc = "read", !.r = r]
    BY Zenon
  <2>4. page' = [page EXCEPT ![w] = x]
    BY Zenon, <2>1, <2>2, RowsTyped
  <2>5. UNCHANGED range
    BY Zenon, <1>5 DEF advanceRequested
  <2> QED BY Zenon, <1>3, <2>1, <2>2, <2>4, <2>5
<1> QED BY Zenon, <1>4, <1>5

\* A worker that leaves.
LEMMA LeavesKeepsInv ==
    ASSUME HistoryInv, NEW w \in PageWorkers, UNCHANGED <<holds, imp, range, hashed, projected, starter>>,
           page[w].pc \notin Late \/ ~Fenced(w, page[w].r), page' = [page EXCEPT ![w] = NoPage]
    PROVE  HistoryInv'
<1>1. NoPage \in PageRow /\ PageSound(NoPage, holds, hashed, projected) /\ ImportSound'
  BY Zenon, RowsTyped, NoPageSound, NothingHashed
<1>2. \A s \in Ranges \ {First} : LeaseSound(range[s], s, w, NoPage)
  BY Zenon, IdleLease, LostLease
<1> QED BY Zenon, <1>1, <1>2, WorkerStep

LEMMA ReadKeepsInv ==
    ASSUME HistoryInv, NEW w \in PageWorkers, advanceRead(w)
    PROVE  HistoryInv'
<1>1. UNCHANGED <<holds, imp, range, hashed, projected, starter>> /\ page[w].pc = "read"
  BY Zenon DEF advanceRead
<1>2. page[w].pc \notin Late
  BY Zenon, <1>1 DEF Late
<1>3. PICK y : y = range[page[w].r]
  BY Zenon
<1>4. PICK x : x = [page[w] EXCEPT !.pc = "claim", !.cursor = y.cursor, !.count = y.count,
                                   !.attempts = y.attempts, !.total = imp.count]
  BY Zenon
<1>5. page' = [page EXCEPT ![w] = NoPage] \/ page' = [page EXCEPT ![w] = x]
  BY Zenon, <1>3, <1>4 DEF advanceRead
<1>6. page[w] \in PageRow /\ PageSound(page[w], holds, hashed, projected) /\ ImportSound
  BY Zenon, RowsTyped, InvParts
<1>7. page[w].r \in Ranges /\ page[w].fresh = {}
  BY Zenon, <1>1, <1>6 DEF PageRow, PageSound
<1>8. y \in RangeRow /\ RangeSound(y, page[w].r, holds, hashed, projected)
  BY Zenon, <1>3, <1>7, RowsTyped
<1>9. /\ x \in PageRow /\ x.pc = "claim" /\ x.r = page[w].r /\ x.cursor = y.cursor /\ x.count = y.count
      /\ x.total = imp.count /\ x.fresh = {}
  <2>1. y.cursor \in 0 .. Pages - 1 /\ y.count \in Nat /\ y.attempts \in Nat /\ imp.count \in Nat
    BY Zenon, <1>6, <1>8 DEF RangeRow, ImportSound
  <2> QED BY Zenon, <1>4, <1>6, <1>7, <2>1 DEF PageRow
<1>10. PageSound(x, holds, hashed, projected)
  <2>1. imp.count <= Cardinality(hashed \ {}) /\ hashed \ {} = hashed
    BY Zenon, <1>6 DEF ImportSound
  <2>2. (hashed \cap EventsIn(holds, page[w].r)) \ {} = hashed \cap EventsIn(holds, page[w].r)
    BY Zenon
  <2> QED BY Zenon, <1>8, <1>9, <2>1, <2>2 DEF PageSound, RangeSound
<1>11. \A s \in Ranges \ {First} : LeaseSound(range[s], s, w, x)
  BY Zenon, <1>2, IdleLease
<1>12. ImportSound'
  BY Zenon, <1>1, NothingHashed
<1> QED BY Zenon, <1>1, <1>2, <1>5, <1>9, <1>10, <1>11, <1>12, LeavesKeepsInv, WorkerStep

LEMMA ClaimKeepsInv ==
    ASSUME HistoryInv, NEW w \in PageWorkers, advanceClaim(w)
    PROVE  HistoryInv'
<1>1. UNCHANGED <<holds, imp, hashed, projected, starter>> /\ page[w].pc = "claim"
  BY Zenon DEF advanceClaim
<1>2. page[w].pc \notin Late /\ page[w] \in PageRow /\ PageSound(page[w], holds, hashed, projected)
  BY Zenon, <1>1, RowsTyped DEF Late
<1>3. PICK r : r = page[w].r
  BY Zenon
<1>4. r \in Ranges /\ page[w].fresh = {}
  BY Zenon, <1>1, <1>2, <1>3 DEF PageRow, PageSound
<1>5. CASE ~Claimable(range[r], w, page[w].cron)
  <2>1. page' = [page EXCEPT ![w] = NoPage] /\ UNCHANGED range
    BY Zenon, <1>3, <1>5 DEF advanceClaim
  <2> QED BY Zenon, <1>1, <1>2, <2>1, LeavesKeepsInv
<1>6. CASE Claimable(range[r], w, page[w].cron)
  <2>1. PICK a \in Answers(page[w].cursor) \union Failures :
          page' = [page EXCEPT ![w].answer = a, ![w].pc =
                     IF a \in {"unavailable", "refused", "malformed"} THEN "fail" ELSE "apply"]
    BY Zenon, <1>3, <1>6 DEF advanceClaim
  <2>2. PICK c : c = IF a \in {"unavailable", "refused", "malformed"} THEN "fail" ELSE "apply"
    BY Zenon
  <2>3. PICK x : x = [page[w] EXCEPT !.answer = a, !.pc = c]
    BY Zenon
  <2>4. page' = [page EXCEPT ![w] = x]
    BY Zenon, <2>1, <2>2, <2>3, RowsTyped
  <2>5. /\ c \in {"fail", "apply"} /\ (c = "apply" => a \in PageAnswers)
        /\ a \in PageAnswers \cup {"unavailable", "refused", "malformed"}
        /\ (a = "completed" => page[w].cursor = Pages - 1) /\ (a = "active" => page[w].cursor # Pages - 1)
    <3>1. a \in PageAnswers \cup {"unavailable", "refused", "malformed"}
      BY Zenon DEF Answers, Failures, PageAnswers
    <3>2. (a = "completed" => page[w].cursor = Pages - 1) /\ (a = "active" => page[w].cursor # Pages - 1)
      BY Zenon DEF Answers, Failures
    <3> QED BY Zenon, <2>2, <3>1, <3>2
  <2>6. /\ x \in PageRow /\ x.pc = c /\ x.answer = a /\ x.r = r /\ x.cursor = page[w].cursor
        /\ x.count = page[w].count /\ x.total = page[w].total /\ x.fresh = {}
    BY Zenon, <1>2, <1>3, <1>4, <2>3, <2>5 DEF PageRow
  <2>7. PageSound(x, holds, hashed, projected)
    BY Zenon, <1>2, <1>3, <1>4, <2>5, <2>6 DEF PageSound
  <2>8. PICK y : y = claimHistoryRangeWork(range[r], w)
    BY Zenon
  <2>9. /\ y \in RangeRow /\ RangeSound(y, r, holds, hashed, projected) /\ y.token = w
        /\ range[r].status # "none" /\ LeaseSound(y, r, w, x)
    BY Zenon, <1>4, <1>6, <2>8, ClaimedRow DEF Claimable
  <2>10. range' = [range EXCEPT ![r] = y]
    BY Zenon, <1>3, <1>6, <2>8 DEF advanceClaim
  <2>11. \A s \in Ranges \ {First} : LeaseSound(range[s], s, w, x)
    BY Zenon, <1>2, IdleLease
  <2> QED BY Zenon, <1>1, <1>4, <2>4, <2>6, <2>7, <2>9, <2>10, <2>11, LeasedStep
<1> QED BY Zenon, <1>5, <1>6

\* What is handed to the projection or hashed helps every row.
LEMMA MoreIn ==
    ASSUME HistoryInv, UNCHANGED <<holds, imp, range, starter>>, NEW w \in PageWorkers, NEW x \in PageRow,
           page' = [page EXCEPT ![w] = x], page[w].pc \notin Late,
           hashed \subseteq hashed', projected \subseteq projected', IsFiniteSet(hashed'),
           hashed' \subseteq projected', PageSound(x, holds, hashed', projected')
    PROVE  HistoryInv'
<1>1. \A r \in Ranges : RangeSound(range[r], r, holds, hashed', projected')
  BY Zenon, RowsTyped, RangeGrows
<1>2. RangesSound'
  BY Zenon, <1>1, RowsTyped DEF RangesSound
<1>3. \A v \in PageWorkers : page'[v] = IF v = w THEN x ELSE page[v]
  BY Zenon, RowsTyped
<1>4. \A v \in PageWorkers : page'[v] \in PageRow /\ PageSound(page'[v], holds, hashed', projected')
  BY Zenon, <1>3, RowsTyped, PageGrows
<1>5. PagesSound'
  <2>1. page' \in [PageWorkers -> PageRow]
    BY Zenon, RowsTyped
  <2> QED BY Zenon, <1>4, <2>1 DEF PagesSound
<1>6. LeasesSound'
  <2>1. LeasesSound /\ \A s \in Ranges \ {First} : LeaseSound(range[s], s, w, x)
    BY Zenon, InvParts, IdleLease
  <2> QED BY Zenon, <1>3, <2>1 DEF LeasesSound
<1>7. StarterSound'
  BY Zenon, InvParts DEF StarterSound
<1>8. ImportSound'
  <2>1. ImportSound
    BY Zenon, InvParts
  <2>2. imp.count \in Nat /\ imp.count <= Cardinality(hashed)
    BY Zenon, <2>1 DEF ImportSound
  <2>3. imp.count <= Cardinality(hashed')
    BY Zenon, <2>2, CountGrows
  <2> QED BY Zenon, <2>1, <2>3 DEF ImportSound
<1> QED BY Zenon, <1>2, <1>5, <1>6, <1>7, <1>8, InvPartsAfter

LEMMA SamePage == \A r, c : Page(r, c) = PageOf(holds, r, c)
BY Zenon DEF Page, PageOf

LEMMA ApplyKeepsInv ==
    ASSUME HistoryInv, NEW w \in PageWorkers, applyEvents(w)
    PROVE  HistoryInv'
<1>1. /\ UNCHANGED <<holds, imp, range, hashed, starter>> /\ page[w].pc = "apply"
      /\ page[w] \in PageRow /\ PageSound(page[w], holds, hashed, projected)
  BY Zenon, RowsTyped DEF applyEvents
<1>2. PICK P : P = PageOf(holds, page[w].r, page[w].cursor)
  BY Zenon
<1>3. PICK F : F = P \ hashed
  BY Zenon
<1>4. Page(page[w].r, page[w].cursor) = P
  BY Zenon, <1>2, SamePage
<1>5. projected' = projected \union F /\ page' = [page EXCEPT ![w].fresh = F, ![w].pc = "insert"]
  BY Zenon, <1>3, <1>4 DEF applyEvents
<1>6. PICK x : x = [page[w] EXCEPT !.fresh = F, !.pc = "insert"]
  BY Zenon
<1>7. page' = [page EXCEPT ![w] = x]
  BY Zenon, <1>5, <1>6, RowsTyped
<1>8. page[w].r \in Ranges /\ page[w].cursor \in 0 .. Pages - 1 /\ page[w].fresh = {}
  BY Zenon, <1>1 DEF PageRow, PageSound
<1>9. F \in SUBSET (Ranges \X Nat)
  <2>1. P \in SUBSET (Ranges \X Nat)
    BY Zenon, <1>2, <1>8, PageFacts
  <2> QED BY Zenon, <1>3, <2>1
<1>10. /\ x \in PageRow /\ x.pc = "insert" /\ x.fresh = F /\ x.r = page[w].r /\ x.cursor = page[w].cursor
       /\ x.total = page[w].total /\ x.count = page[w].count /\ x.answer = page[w].answer
  BY Zenon, <1>1, <1>6, <1>9 DEF PageRow
<1>11. hashed \subseteq projected /\ IsFiniteSet(hashed)
  BY Zenon, InvParts DEF ImportSound
<1>12. projected \subseteq projected' /\ hashed \subseteq projected' /\ P \subseteq projected' /\ F \subseteq P
  BY Zenon, <1>3, <1>5, <1>11
<1>13. PageSound(x, holds, hashed, projected')
  <2>1. Passed(x.r, x.cursor, holds, projected')
    BY Zenon, <1>1, <1>10, <1>12 DEF PageSound, Passed
  <2>2. hashed \ F = hashed \ {} /\ (hashed \cap EventsIn(holds, x.r)) \ F = (hashed \cap EventsIn(holds, x.r)) \ {}
    BY Zenon, <1>3
  <2>3. x.total <= Cardinality(hashed \ F) /\ x.count <= Cardinality((hashed \cap EventsIn(holds, x.r)) \ F)
    BY Zenon, <1>1, <1>8, <1>10, <2>2 DEF PageSound
  <2>4. /\ x.answer \in PageAnswers /\ (x.answer = "completed" => x.cursor = Pages - 1)
        /\ (x.answer = "active" => x.cursor # Pages - 1)
    BY Zenon, <1>1, <1>10 DEF PageSound
  <2> QED BY Zenon, <1>2, <1>10, <1>12, <2>1, <2>3, <2>4 DEF PageSound
<1>14. page[w].pc \notin Late
  BY Zenon, <1>1 DEF Late
<1>15. hashed' = hashed
  BY Zenon, <1>1
<1> QED BY Zenon, <1>1, <1>7, <1>10, <1>11, <1>12, <1>13, <1>14, <1>15, MoreIn

LEMMA InsertHashesKeepsInv ==
    ASSUME HistoryInv, NEW w \in PageWorkers, insertEventHashes(w)
    PROVE  HistoryInv'
<1>1. /\ UNCHANGED <<holds, imp, range, projected, starter>> /\ page[w].pc = "insert"
      /\ page[w] \in PageRow /\ PageSound(page[w], holds, hashed, projected)
      /\ hashed' = hashed \union page[w].fresh /\ page' = [page EXCEPT ![w].pc = "checkpoint"]
  BY Zenon, RowsTyped DEF insertEventHashes
<1>2. PICK x : x = [page[w] EXCEPT !.pc = "checkpoint"]
  BY Zenon
<1>3. page' = [page EXCEPT ![w] = x]
  BY <1>1, <1>2, RowsTyped
<1>4. page[w].r \in Ranges /\ page[w].cursor \in 0 .. Pages - 1
  BY Zenon, <1>1 DEF PageRow
<1>5. /\ x \in PageRow /\ x.pc = "checkpoint" /\ x.fresh = page[w].fresh /\ x.r = page[w].r
      /\ x.cursor = page[w].cursor /\ x.total = page[w].total /\ x.count = page[w].count
      /\ x.answer = page[w].answer
  BY Zenon, <1>1, <1>2 DEF PageRow
<1>6. hashed \subseteq projected /\ IsFiniteSet(hashed)
  BY Zenon, InvParts DEF ImportSound
<1>7. /\ page[w].fresh \subseteq PageOf(holds, page[w].r, page[w].cursor)
      /\ PageOf(holds, page[w].r, page[w].cursor) \subseteq projected
  BY Zenon, <1>1 DEF PageSound
<1>8. IsFiniteSet(page[w].fresh)
  <2>1. IsFiniteSet(PageOf(holds, page[w].r, page[w].cursor))
    BY Zenon, <1>4, PageFacts
  <2> QED BY Zenon, <1>7, <2>1, FS_Subset
<1>9. /\ IsFiniteSet(hashed') /\ hashed \subseteq hashed' /\ hashed' \subseteq projected'
      /\ page[w].fresh \subseteq hashed' /\ projected \subseteq projected'
  <2>1. IsFiniteSet(hashed \union page[w].fresh)
    BY Zenon, <1>6, <1>8, FS_Union
  <2> QED BY Zenon, <1>1, <1>6, <1>7, <2>1
<1>10. PageSound(page[w], holds, hashed', projected')
  BY Zenon, <1>1, <1>9, PageGrows
<1>11. PageSound(x, holds, hashed', projected')
  BY Zenon, <1>1, <1>5, <1>9, <1>10 DEF PageSound
<1>12. page[w].pc \notin Late
  BY Zenon, <1>1 DEF Late
<1> QED BY Zenon, <1>1, <1>3, <1>5, <1>9, <1>11, <1>12, MoreIn

\* A worker that goes on to report a failure.
LEMMA FailsKeepsInv ==
    ASSUME HistoryInv, NEW w \in PageWorkers, UNCHANGED <<holds, imp, range, hashed, projected, starter>>,
           page[w].pc \notin Late \/ ~Fenced(w, page[w].r), NEW a \in {"unavailable", "lost"},
           page' = [page EXCEPT ![w].pc = "fail", ![w].answer = a]
    PROVE  HistoryInv'
<1>1. page[w] \in PageRow /\ PageSound(page[w], holds, hashed, projected) /\ ImportSound'
  BY Zenon, RowsTyped, NothingHashed
<1>2. PICK x : x = [page[w] EXCEPT !.pc = "fail", !.answer = a]
  BY Zenon
<1>3. page' = [page EXCEPT ![w] = x]
  BY Zenon, <1>2, RowsTyped
<1>4. /\ x \in PageRow /\ x.pc = "fail" /\ x.fresh = page[w].fresh /\ x.r = page[w].r
      /\ x.cursor = page[w].cursor /\ x.total = page[w].total /\ x.count = page[w].count
  BY Zenon, <1>1, <1>2 DEF PageRow
<1>5. PageSound(x, holds, hashed, projected)
  BY Zenon, <1>1, <1>4 DEF PageSound
<1>6. \A s \in Ranges \ {First} : LeaseSound(range[s], s, w, x)
  BY Zenon, IdleLease, LostLease
<1> QED BY Zenon, <1>1, <1>3, <1>4, <1>5, <1>6, WorkerStep

LEMMA ApplyFailsKeepsInv ==
    ASSUME HistoryInv, NEW w \in PageWorkers, applyEventsFails(w)
    PROVE  HistoryInv'
<1>1. /\ UNCHANGED <<holds, imp, range, hashed, projected, starter>> /\ page[w].pc \notin Late
      /\ page' = [page EXCEPT ![w].pc = "fail", ![w].answer = "unavailable"]
  BY Zenon DEF applyEventsFails, Late
<1> QED BY Zenon, <1>1, FailsKeepsInv

\* A lease held before the range was settled is the lease of an open range.
LEMMA FencedOpen ==
    ASSUME HistoryInv, NEW w \in PageWorkers, page[w].pc \notin Late, NEW r \in Ranges, r # First, Fenced(w, r)
    PROVE  range[r].status \in Open /\ range[r].status # "none"
<1>1. LeaseSound(range[r], r, w, page[w])
  BY Zenon, InvParts DEF LeasesSound
<1> QED BY Zenon, <1>1 DEF LeaseSound, Fenced, Late, Open

\* A page that is in moves the cursor over it.
LEMMA NextPassed ==
    ASSUME NEW r, NEW c \in 0 .. Pages - 1, NEW h, NEW pr, Passed(r, c, h, pr), PageOf(h, r, c) \subseteq pr
    PROVE  Passed(r, c + 1, h, pr) /\ (c = Pages - 1 => EventsIn(h, r) \subseteq pr)
<1>1. \A d \in 0 .. (c + 1) - 1 : d \in 0 .. c - 1 \/ d = c
  BY HistoryBounds
<1>2. Passed(r, c + 1, h, pr)
  BY Zenon, <1>1 DEF Passed
<1>3. c = Pages - 1 => 0 .. Pages - 1 = 0 .. (c + 1) - 1
  BY HistoryBounds
<1>4. ASSUME c = Pages - 1 PROVE EventsIn(h, r) \subseteq pr
  <2>1. \A d \in 0 .. Pages - 1 : PageOf(h, r, d) \subseteq pr
    BY Zenon, <1>2, <1>3, <1>4 DEF Passed
  <2> QED BY Zenon, <2>1 DEF EventsIn
<1> QED BY Zenon, <1>2, <1>4

\* The counts of a page whose hashes are in.
LEMMA CountsAdded ==
    ASSUME HistoryInv, NEW w \in PageWorkers, page[w].pc \in {"checkpoint", "import"}
    PROVE  LET p == page[w]
           IN  /\ p.total + Cardinality(p.fresh) \in Nat
               /\ p.total + Cardinality(p.fresh) <= Cardinality(hashed)
               /\ p.count + Cardinality(p.fresh) \in Nat
               /\ p.count + Cardinality(p.fresh) <= Cardinality(hashed \cap EventsIn(holds, p.r))
<1>1. page[w] \in PageRow /\ PageSound(page[w], holds, hashed, projected) /\ IsFiniteSet(hashed)
  BY Zenon, RowsTyped
<1>2. PICK p : p = page[w]
  BY Zenon
<1>3. /\ p.r \in Ranges /\ p.cursor \in 0 .. Pages - 1 /\ p.total \in Nat /\ p.count \in Nat
      /\ p.fresh \subseteq PageOf(holds, p.r, p.cursor) /\ p.fresh \subseteq hashed
      /\ p.total <= Cardinality(hashed \ p.fresh)
      /\ p.count <= Cardinality((hashed \cap EventsIn(holds, p.r)) \ p.fresh)
  BY Zenon, <1>1, <1>2 DEF PageRow, PageSound
<1>4. PageOf(holds, p.r, p.cursor) \subseteq EventsIn(holds, p.r)
  BY Zenon, <1>3, PageFacts
<1>5. PICK E : E = hashed \cap EventsIn(holds, p.r)
  BY Zenon
<1>6. IsFiniteSet(E) /\ p.fresh \subseteq E
  <2>1. IsFiniteSet(hashed \cap EventsIn(holds, p.r))
    BY Zenon, <1>1, FS_Intersection
  <2> QED BY Zenon, <1>3, <1>4, <1>5, <2>1
<1>7. p.total + Cardinality(p.fresh) \in Nat /\ p.total + Cardinality(p.fresh) <= Cardinality(hashed)
  BY Zenon, <1>1, <1>3, CountAdds
<1>8. p.count + Cardinality(p.fresh) \in Nat /\ p.count + Cardinality(p.fresh) <= Cardinality(E)
  BY Zenon, <1>3, <1>5, <1>6, CountAdds
<1> QED BY Zenon, <1>2, <1>5, <1>7, <1>8

\* The row a checkpoint writes.
Checkpointed(x, p, e) ==
    [x EXCEPT !.status = p.answer,
              !.cursor = IF p.answer = "active" THEN p.cursor + 1 ELSE x.cursor,
              !.count = p.count + Cardinality(p.fresh), !.attempts = p.attempts, !.erred = e]

LEMMA CheckpointedRow ==
    ASSUME HistoryInv, NEW w \in PageWorkers, page[w].pc = "checkpoint", Fenced(w, page[w].r),
           NEW e \in BOOLEAN, NEW y, y = Checkpointed(range[page[w].r], page[w], e)
    PROVE  /\ y \in RangeRow /\ RangeSound(y, page[w].r, holds, hashed, projected) /\ y.token = w
           /\ y.status \in Open \union Settled
<1>1. page[w] \in PageRow /\ PageSound(page[w], holds, hashed, projected)
  BY Zenon, RowsTyped
<1>2. PICK p : p = page[w]
  BY Zenon
<1>3. /\ p.r \in Ranges /\ p.cursor \in 0 .. Pages - 1 /\ p.attempts \in Nat /\ p.answer \in PageAnswers
      /\ Passed(p.r, p.cursor, holds, projected) /\ PageOf(holds, p.r, p.cursor) \subseteq projected
      /\ p.answer = "completed" => p.cursor = Pages - 1
      /\ p.answer = "active" => p.cursor # Pages - 1
  BY Zenon, <1>1, <1>2 DEF PageRow, PageSound
<1>4. range[p.r] \in RangeRow /\ RangeSound(range[p.r], p.r, holds, hashed, projected) /\ range[p.r].token = w
  BY Zenon, <1>2, <1>3, RowsTyped DEF Fenced
<1>5. PICK c, n : /\ c = IF p.answer = "active" THEN p.cursor + 1 ELSE range[p.r].cursor
                  /\ n = p.count + Cardinality(p.fresh)
  BY Zenon
<1>6. n \in Nat /\ n <= Cardinality(hashed \cap EventsIn(holds, p.r))
  BY Zenon, <1>2, <1>5, CountsAdded
<1>7. /\ Passed(p.r, p.cursor + 1, holds, projected)
      /\ p.cursor = Pages - 1 => EventsIn(holds, p.r) \subseteq projected
  BY Zenon, <1>3, NextPassed
<1>8. c \in 0 .. Pages - 1 /\ Passed(p.r, c, holds, projected)
  <2>1. CASE p.answer = "active"
    BY Zenon, <1>3, <1>5, <1>7, <2>1, FirstPage
  <2>2. CASE p.answer # "active"
    BY Zenon, <1>4, <1>5, <2>2 DEF RangeRow, RangeSound
  <2> QED BY Zenon, <2>1, <2>2
<1>9. p.answer \in RangeStatus /\ p.answer \in Open \union Settled
  BY Zenon, <1>3 DEF PageAnswers, RangeStatus, Open, Settled
<1>10. y = [range[p.r] EXCEPT !.status = p.answer, !.cursor = c, !.count = n, !.attempts = p.attempts, !.erred = e]
  BY Zenon, <1>2, <1>5 DEF Checkpointed
<1>11. y \in RangeRow /\ y.status = p.answer /\ y.cursor = c /\ y.count = n /\ y.token = w
  BY ZenonT(60), <1>3, <1>4, <1>6, <1>8, <1>9, <1>10 DEF RangeRow
<1>12. RangeSound(y, p.r, holds, hashed, projected)
  BY Zenon, <1>3, <1>6, <1>7, <1>8, <1>11 DEF RangeSound
<1> QED BY Zenon, <1>2, <1>9, <1>11, <1>12

LEMMA StatusWritten ==
    /\ \A ranges, a : ImportStatus(ranges, a) \in ImportStates \ {"none"}
    /\ \A ranges, x : FailedImport(ranges, x) \in ImportStates \ {"none"}
BY Zenon DEF ImportStatus, FailedImport, ImportStates

LEMMA CheckpointKeepsInv ==
    ASSUME HistoryInv, NEW w \in PageWorkers, checkpoint(w)
    PROVE  HistoryInv'
<1>1. UNCHANGED <<holds, imp, hashed, projected, starter>> /\ page[w].pc = "checkpoint"
  BY Zenon DEF checkpoint
<1>2. page[w].pc \notin Late /\ page[w] \in PageRow /\ PageSound(page[w], holds, hashed, projected)
  BY Zenon, <1>1, RowsTyped DEF Late
<1>3. PICK r : r = page[w].r
  BY Zenon
<1>4. r \in Ranges
  BY Zenon, <1>2, <1>3 DEF PageRow
<1>5. CASE ~Fenced(w, r)
  <2>1. page' = [page EXCEPT ![w].pc = "fail", ![w].answer = "lost"] /\ UNCHANGED range
    BY Zenon, <1>3, <1>5 DEF checkpoint
  <2> QED BY Zenon, <1>1, <1>2, <2>1, FailsKeepsInv
<1>6. CASE Fenced(w, r)
  <2>1. PICK e \in BOOLEAN : range' = [range EXCEPT ![r] = Checkpointed(range[r], page[w], e)]
    BY Zenon, <1>3, <1>6 DEF checkpoint, Checkpointed
  <2>2. PICK y : y = Checkpointed(range[page[w].r], page[w], e)
    BY Zenon
  <2>3. range' = [range EXCEPT ![r] = y]
    BY Zenon, <1>3, <2>1, <2>2
  <2>4. /\ y \in RangeRow /\ RangeSound(y, r, holds, hashed, projected) /\ y.token = w
        /\ y.status \in Open \union Settled
    <3>1. Fenced(w, page[w].r)
      BY Zenon, <1>3, <1>6
    <3>2. /\ y \in RangeRow /\ RangeSound(y, page[w].r, holds, hashed, projected) /\ y.token = w
          /\ y.status \in Open \union Settled
      BY Zenon, <1>1, <2>2, <3>1, CheckpointedRow
    <3> QED BY Zenon, <1>3, <3>2
  <2>5. PICK i : i = ImportStatus(range', page[w].answer)
    BY Zenon
  <2>6. PICK x : x = [page[w] EXCEPT !.pc = "import", !.status = i]
    BY Zenon
  <2>7. page' = [page EXCEPT ![w] = x]
    <3>1. page' = [page EXCEPT ![w].pc = "import", ![w].status = i]
      BY Zenon, <1>3, <1>6, <2>5 DEF checkpoint
    <3> QED BY Zenon, <2>6, <3>1, RowsTyped
  <2>8. i \in ImportStates /\ i # "none"
    BY Zenon, <2>5, StatusWritten
  <2>9. /\ x \in PageRow /\ x.pc = "import" /\ x.status = i /\ x.fresh = page[w].fresh /\ x.r = r
        /\ x.cursor = page[w].cursor /\ x.total = page[w].total /\ x.count = page[w].count
    BY Zenon, <1>2, <1>3, <2>6, <2>8 DEF PageRow
  <2>10. PageSound(x, holds, hashed, projected)
    BY Zenon, <1>1, <1>2, <1>3, <2>8, <2>9 DEF PageSound
  <2>11. LeaseSound(y, r, w, x) /\ \A s \in Ranges \ {First} : LeaseSound(range[s], s, w, x)
    <3>1. LeaseSound(y, r, w, x)
      BY Zenon, <2>4, <2>9 DEF LeaseSound
    <3> QED BY Zenon, <1>2, <3>1, IdleLease
  <2>12. r = First \/ range[r].status # "none"
    BY Zenon, <1>2, <1>4, <1>6, FencedOpen
  <2> QED BY Zenon, <1>1, <1>4, <2>3, <2>4, <2>7, <2>9, <2>10, <2>11, <2>12, LeasedStep
<1> QED BY Zenon, <1>5, <1>6

\* A worker that wrote the import under its lease.
LEMMA WroteKeepsInv ==
    ASSUME HistoryInv, NEW w \in PageWorkers, UNCHANGED <<holds, range, hashed, projected, starter>>,
           page' = [page EXCEPT ![w].pc = "reconcile"], ImportSound', imp'.status # "none"
    PROVE  HistoryInv'
<1>1. page[w] \in PageRow /\ PageSound(page[w], holds, hashed, projected)
  BY Zenon, RowsTyped
<1>2. PICK x : x = [page[w] EXCEPT !.pc = "reconcile"]
  BY Zenon
<1>3. page' = [page EXCEPT ![w] = x]
  BY <1>2, RowsTyped
<1>4. /\ x \in PageRow /\ x.pc = "reconcile" /\ x.fresh = page[w].fresh /\ x.r = page[w].r
      /\ x.cursor = page[w].cursor /\ x.total = page[w].total /\ x.count = page[w].count
  BY Zenon, <1>1, <1>2 DEF PageRow
<1>5. PageSound(x, holds, hashed, projected)
  BY Zenon, <1>1, <1>4 DEF PageSound
<1>6. \A s \in Ranges \ {First} : LeaseSound(range[s], s, w, x)
  BY Zenon, <1>4, LateLease DEF Late
<1> QED BY Zenon, <1>3, <1>4, <1>5, <1>6, WorkerStep

LEMMA UpdateImportKeepsInv ==
    ASSUME HistoryInv, NEW w \in PageWorkers, updateImport(w)
    PROVE  HistoryInv'
<1>1. UNCHANGED <<holds, range, hashed, projected, starter>> /\ page[w].pc = "import"
  BY Zenon DEF updateImport
<1>2. CASE Fenced(w, page[w].r)
  <2>1. PICK n : n = page[w].total + Cardinality(page[w].fresh)
    BY Zenon
  <2>2. /\ imp' = [status |-> page[w].status, count |-> n]
        /\ page' = [page EXCEPT ![w].pc = "reconcile"]
    BY Zenon, <1>2, <2>1 DEF updateImport
  <2>3. n \in Nat /\ n <= Cardinality(hashed)
    BY Zenon, <1>1, <2>1, CountsAdded
  <2>4. page[w].status \in ImportStates /\ page[w].status # "none"
    BY Zenon, <1>1, RowsTyped DEF PageRow, PageSound
  <2>5. imp' \in [status : ImportStates, count : Nat] /\ imp'.count = n /\ imp'.status = page[w].status
    BY Zenon, <2>2, <2>3, <2>4
  <2>6. ImportSound'
    BY Zenon, <1>1, <2>3, <2>5, InvParts DEF ImportSound
  <2> QED BY Zenon, <1>1, <2>2, <2>4, <2>5, <2>6, WroteKeepsInv
<1>3. CASE ~Fenced(w, page[w].r)
  <2>1. page' = [page EXCEPT ![w].pc = "fail", ![w].answer = "lost"] /\ UNCHANGED imp
    BY Zenon, <1>3 DEF updateImport
  <2> QED BY Zenon, <1>1, <1>3, <2>1, FailsKeepsInv
<1> QED BY Zenon, <1>2, <1>3

LEMMA UpdateFailedKeepsInv ==
    ASSUME HistoryInv, NEW w \in PageWorkers, updateFailed(w)
    PROVE  HistoryInv'
<1>1. UNCHANGED <<holds, imp, hashed, projected, starter>> /\ page[w].pc = "fail"
  BY Zenon DEF updateFailed
<1>2. page[w].pc \notin Late /\ page[w] \in PageRow /\ PageSound(page[w], holds, hashed, projected)
  BY Zenon, <1>1, RowsTyped DEF Late
<1>3. PICK r : r = page[w].r
  BY Zenon
<1>4. r \in Ranges /\ page[w].attempts \in Nat
  BY Zenon, <1>2, <1>3 DEF PageRow
<1>5. CASE ~Fenced(w, r)
  <2>1. page' = [page EXCEPT ![w] = NoPage] /\ UNCHANGED range
    BY Zenon, <1>3, <1>5 DEF updateFailed
  <2> QED BY Zenon, <1>1, <1>2, <2>1, LeavesKeepsInv
<1>6. CASE Fenced(w, r)
  <2>1. PICK t : t = (page[w].answer \in {"refused", "malformed"})
    BY Zenon
  <2>2. PICK y, i : /\ y = FailedRange(range[r], page[w].attempts, t)
                    /\ i = FailedImport(range', Exhausted(page[w].attempts, t))
    BY Zenon
  <2>3. range' = [range EXCEPT ![r] = y] /\ page' = [page EXCEPT ![w].pc = "fail_import", ![w].status = i]
    BY Zenon, <1>3, <1>6, <2>1, <2>2 DEF updateFailed
  <2>4. /\ y \in RangeRow /\ RangeSound(y, r, holds, hashed, projected) /\ y.token = w
        /\ y.status \in {"failed", "active"}
    <3>1. range[r] \in RangeRow /\ range[r].token = w
      BY Zenon, <1>4, <1>6, RowsTyped DEF Fenced
    <3>2. y \in RangeRow /\ RangeSound(y, r, holds, hashed, projected)
      BY Zenon, <1>4, <2>2, FailedSound
    <3>3. y.token = range[r].token /\ y.status \in {"failed", "active"}
      <4>1. PICK a \in Nat : a = page[w].attempts
        BY Zenon, <1>4
      <4>2. y = FailedRange(range[r], a, t)
        BY Zenon, <2>2, <4>1
      <4> QED BY <3>1, <4>2, FailedRow
    <3> QED BY Zenon, <3>1, <3>2, <3>3
  <2>5. i \in ImportStates /\ i # "none"
    BY Zenon, <2>2, StatusWritten
  <2>6. PICK x : x = [page[w] EXCEPT !.pc = "fail_import", !.status = i]
    BY Zenon
  <2>7. page' = [page EXCEPT ![w] = x]
    BY Zenon, <2>3, <2>6, RowsTyped
  <2>8. /\ x \in PageRow /\ x.pc = "fail_import" /\ x.status = i /\ x.fresh = page[w].fresh /\ x.r = r
        /\ x.cursor = page[w].cursor /\ x.total = page[w].total /\ x.count = page[w].count
    BY Zenon, <1>2, <1>3, <2>5, <2>6 DEF PageRow
  <2>9. PageSound(x, holds, hashed, projected)
    BY Zenon, <1>2, <1>3, <2>5, <2>8 DEF PageSound
  <2>10. LeaseSound(y, r, w, x) /\ \A s \in Ranges \ {First} : LeaseSound(range[s], s, w, x)
    <3>1. LeaseSound(y, r, w, x)
      BY Zenon, <2>4, <2>8 DEF LeaseSound, Open, Settled
    <3> QED BY Zenon, <1>2, <3>1, IdleLease
  <2>11. r = First \/ range[r].status # "none"
    BY Zenon, <1>2, <1>4, <1>6, FencedOpen
  <2> QED BY Zenon, <1>1, <1>4, <2>3, <2>4, <2>7, <2>8, <2>9, <2>10, <2>11, LeasedStep
<1> QED BY Zenon, <1>5, <1>6

LEMMA FailedImportKeepsInv ==
    ASSUME HistoryInv, NEW w \in PageWorkers, updateFailedImport(w)
    PROVE  HistoryInv'
<1>1. UNCHANGED <<holds, range, hashed, projected, starter>> /\ page[w].pc = "fail_import"
  BY Zenon DEF updateFailedImport
<1>2. CASE Fenced(w, page[w].r)
  <2>1. imp' = [imp EXCEPT !.status = page[w].status] /\ page' = [page EXCEPT ![w].pc = "reconcile"]
    BY Zenon, <1>2 DEF updateFailedImport
  <2>2. page[w].status \in ImportStates /\ page[w].status # "none"
    BY Zenon, <1>1, RowsTyped DEF PageRow, PageSound
  <2>3. ImportSound
    BY Zenon, InvParts
  <2>4. /\ imp' \in [status : ImportStates, count : Nat] /\ imp'.count = imp.count
        /\ imp'.status = page[w].status
    BY Zenon, <2>1, <2>2, <2>3 DEF ImportSound
  <2>5. ImportSound'
    BY Zenon, <1>1, <2>3, <2>4 DEF ImportSound
  <2> QED BY Zenon, <1>1, <2>1, <2>2, <2>4, <2>5, WroteKeepsInv
<1>3. CASE ~Fenced(w, page[w].r)
  <2>1. page' = [page EXCEPT ![w] = NoPage] /\ UNCHANGED imp
    BY Zenon, <1>3 DEF updateFailedImport
  <2> QED BY Zenon, <1>1, <1>3, <2>1, LeavesKeepsInv
<1> QED BY Zenon, <1>2, <1>3

\* A worker that leaves for good, with what it leased loosened.
LEMMA GoneKeepsInv ==
    ASSUME HistoryInv, NEW w \in PageWorkers, UNCHANGED <<holds, imp, hashed, projected, starter>>,
           page' = [page EXCEPT ![w] = NoPage], range' = [r \in Ranges |-> range'[r]],
           \A r \in Ranges : Kept(range[r], range'[r]) /\ Loosened(range[r], range'[r]),
           \A r \in Ranges \ {First} : range'[r].token = w => range[r].status \in Open
    PROVE  HistoryInv'
<1>1. RangesSound' /\ StarterSound' /\ ImportSound'
  BY Zenon, KeptRanges, NothingHashed
<1>2. PagesSound'
  <2>1. NoPage \in PageRow /\ PageSound(NoPage, holds, hashed, projected)
    BY Zenon, RowsTyped, NoPageSound
  <2> QED BY Zenon, <2>1, OnePage
<1>3. \A v \in PageWorkers : page'[v] = IF v = w THEN NoPage ELSE page[v]
  BY Zenon, RowsTyped
<1>4. \A r \in Ranges \ {First}, v \in PageWorkers : LeaseSound(range'[r], r, v, page'[v])
  <2> TAKE r \in Ranges \ {First}, v \in PageWorkers
  <2>1. LeaseSound(range[r], r, v, page[v]) /\ Loosened(range[r], range'[r]) /\ v \notin {"none", "dead"}
    BY Zenon, InvParts, HistoryBounds DEF LeasesSound
  <2>2. CASE v = w
    BY Zenon, <2>1, <2>2 DEF LeaseSound, Loosened
  <2>3. CASE v # w
    <3>1. range'[r].token = v => range[r].token = v
      BY Zenon, <2>1 DEF Loosened
    <3> QED BY Zenon, <1>3, <2>1, <2>3, <3>1 DEF LeaseSound, Loosened
  <2> QED BY Zenon, <2>2, <2>3
<1> QED BY Zenon, <1>1, <1>2, <1>4, InvPartsAfter DEF LeasesSound

LEMMA ReconcileKeepsInv ==
    ASSUME HistoryInv, NEW w \in PageWorkers, advanceReconcile(w)
    PROVE  HistoryInv'
<1>1. /\ UNCHANGED <<holds, imp, hashed, projected, starter>> /\ page' = [page EXCEPT ![w] = NoPage]
      /\ range' = [r \in Ranges |-> reconcileHistoryWork(range[r], r = page[w].r, w, FALSE)]
  BY Zenon DEF advanceReconcile
<1>2. ASSUME NEW r \in Ranges
      PROVE  /\ Kept(range[r], range'[r]) /\ Loosened(range[r], range'[r])
             /\ r = page[w].r /\ range[r].token = w /\ range[r].status \in Settled => range'[r].token = "none"
  <2>1. range[r] \in RangeRow /\ FALSE \in BOOLEAN /\ TRUE \in BOOLEAN
    BY Zenon, RowsTyped
  <2>2. CASE r = page[w].r
    <3>1. range'[r] = reconcileHistoryWork(range[r], TRUE, w, FALSE)
      BY Zenon, <1>1, <2>2 DEF reconcileHistoryWork
    <3> QED BY Zenon, <2>1, <3>1, ReconcileKeeps
  <2>3. CASE r # page[w].r
    <3>1. range'[r] = reconcileHistoryWork(range[r], FALSE, w, FALSE)
      BY Zenon, <1>1, <2>3 DEF reconcileHistoryWork
    <3> QED BY Zenon, <2>1, <2>3, <3>1, ReconcileKeeps
  <2> QED BY Zenon, <2>2, <2>3
<1>3. ASSUME NEW r \in Ranges \ {First}, range'[r].token = w PROVE range[r].status \in Open
  <2>1. w \notin {"none", "dead"} /\ LeaseSound(range[r], r, w, page[w])
    BY Zenon, InvParts, HistoryBounds DEF LeasesSound
  <2>2. range[r].token = w
    BY Zenon, <1>2, <1>3, <2>1 DEF Loosened
  <2> QED BY Zenon, <1>2, <1>3, <2>1, <2>2 DEF LeaseSound
<1>4. range' = [r \in Ranges |-> range'[r]]
  BY Zenon, <1>1
<1> QED BY Zenon, <1>1, <1>2, <1>3, <1>4, GoneKeepsInv

LEMMA DiesKeepsInv ==
    ASSUME HistoryInv, NEW w \in PageWorkers, advanceDies(w)
    PROVE  HistoryInv'
<1>1. /\ UNCHANGED <<holds, imp, hashed, projected, starter>> /\ page' = [page EXCEPT ![w] = NoPage]
      /\ range' = [r \in Ranges |->
                     IF range[r].token = w THEN [range[r] EXCEPT !.token = "dead"] ELSE range[r]]
  BY Zenon DEF advanceDies
<1>2. ASSUME NEW r \in Ranges
      PROVE  Kept(range[r], range'[r]) /\ Loosened(range[r], range'[r]) /\ range'[r].token # w
  <2>1. range[r] \in RangeRow /\ w \notin {"none", "dead"}
    BY Zenon, RowsTyped, HistoryBounds
  <2>2. PICK y : y = [range[r] EXCEPT !.token = "dead"]
    BY Zenon
  <2>3. Kept(range[r], y) /\ Loosened(range[r], y) /\ y.token = "dead"
    BY Zenon, <2>1, <2>2 DEF RangeRow, Kept, Loosened
  <2>4. range'[r] = IF range[r].token = w THEN y ELSE range[r]
    BY Zenon, <1>1, <2>2
  <2> QED BY Zenon, <2>1, <2>3, <2>4 DEF Kept, Loosened
<1>3. range' = [r \in Ranges |-> range'[r]]
  BY Zenon, <1>1
<1> QED BY Zenon, <1>1, <1>2, <1>3, GoneKeepsInv

-----------------------------------------------------------------------------
(* Results                                                                   *)

LEMMA InitSatisfiesHistoryInv ==
    ASSUME HistoryInit
    PROVE  HistoryInv
<1>1. /\ imp = [status |-> "none", count |-> 0] /\ range = [r \in Ranges |-> NoRange] /\ hashed = {}
      /\ projected = {} /\ starter = "none" /\ page = [w \in PageWorkers |-> NoPage]
  BY Zenon DEF HistoryInit
<1>2. IsFiniteSet(hashed) /\ 0 <= Cardinality(hashed) /\ 0 \in Nat
  <2>1. IsFiniteSet({}) /\ Cardinality({}) = 0
    BY Zenon, FS_EmptySet
  <2> QED BY <1>1, <2>1
<1>3. NoRange \in RangeRow /\ NoRange.cursor = 0 /\ NoRange.count = 0 /\ NoRange.status = "none" /\ NoRange.token = "none"
  BY Zenon, FirstPage DEF NoRange, RangeRow, RangeStatus
<1>4. RangesSound
  <2>1. \A r \in Ranges : RangeSound(NoRange, r, holds, hashed, projected)
    BY Zenon, <1>2, <1>3, NoRangeSound
  <2> QED BY Zenon, <1>1, <1>3, <2>1 DEF RangesSound
<1>5. PagesSound
  <2>1. NoPage \in PageRow /\ PageSound(NoPage, holds, hashed, projected)
    BY Zenon, <1>2, NoPageSound
  <2> QED BY Zenon, <1>1, <2>1 DEF PagesSound
<1>6. LeasesSound
  <2>1. \A w \in PageWorkers : w # "none"
    BY Zenon, HistoryBounds
  <2> QED BY Zenon, <1>1, <1>3, <2>1 DEF LeasesSound, LeaseSound
<1>7. StarterSound
  BY Zenon, <1>1, <1>3 DEF StarterSound
<1>8. ImportSound
  BY Zenon, <1>1, <1>2 DEF ImportSound, ImportStates
<1> QED BY Zenon, <1>4, <1>5, <1>6, <1>7, <1>8, InvParts

LEMMA HistoryStepKeepsInv ==
    ASSUME HistoryInv, [HistoryNext]_historyVars
    PROVE  HistoryInv'
<1>1. CASE start \/ startDies
  BY Zenon, <1>1, CreateKeepsInv, StartFailsKeepsInv, EmptyKeepsInv, FirstRangeKeepsInv, InsertKeepsInv,
     StartEndsKeepsInv DEF start
<1>2. ASSUME NEW w \in PageWorkers,
             \/ claimNextHistoryRangeWork(w) \/ advanceRequested(w)
             \/ advanceStep(w) \/ applyEventsFails(w) \/ advanceDies(w)
      PROVE  HistoryInv'
  BY Zenon, <1>2, BeginKeepsInv, ReadKeepsInv, ClaimKeepsInv, ApplyKeepsInv, InsertHashesKeepsInv,
     CheckpointKeepsInv, UpdateImportKeepsInv, UpdateFailedKeepsInv, FailedImportKeepsInv, ReconcileKeepsInv,
     ApplyFailsKeepsInv, DiesKeepsInv DEF advanceStep
<1>3. ASSUME NEW r \in Ranges, historyLeaseExpires(r) \/ historyWakes(r) PROVE HistoryInv'
  BY Zenon, <1>3, TimeKeepsInv
<1>4. CASE UNCHANGED historyVars
  BY Zenon, <1>4 DEF historyVars, HistoryInv, HistoryShape
<1> QED BY Zenon, <1>1, <1>2, <1>3, <1>4 DEF HistoryNext

\* The inductive invariant of the history import holds in every reachable state:
\* of the rows createHistoryService writes, what each invocation of advance has
\* read, and the leases of the ranges.
THEOREM HistoryInvariance == HistorySpec => []HistoryInv
<1>1. HistoryInit => HistoryInv
  BY Zenon, InitSatisfiesHistoryInv
<1>2. HistoryInv /\ [HistoryNext]_historyVars => HistoryInv'
  BY Zenon, HistoryStepKeepsInv
<1> QED BY <1>1, <1>2, PTL DEF HistorySpec

LEMMA InvImportedIsProjected ==
    ASSUME HistoryInv
    PROVE  ImportedIsProjected
<1>1. \A r : EventsOf(r) = EventsIn(holds, r)
  BY Zenon, SamePage DEF EventsOf, EventsIn
<1>2. HashedEventsAreProjected
  BY Zenon, InvParts DEF HashedEventsAreProjected, ImportSound
<1>3. CheckpointsSkipNothing
  BY Zenon, <1>1, SamePage, RowsTyped DEF CheckpointsSkipNothing, RangeSound, Passed
<1>4. CountsAreBacked
  BY Zenon, <1>1, InvParts, RowsTyped DEF CountsAreBacked, ImportSound, RangeSound
<1> QED BY Zenon, <1>2, <1>3, <1>4 DEF ImportedIsProjected

\* What an import says it has read is in the projection, for any number of
\* ranges, pages and overlapping workers: the order applyEvents, insertEventHashes
\* and updateRange of advance.
THEOREM ImportedAlwaysProjected == HistorySpec => []ImportedIsProjected
BY HistoryInvariance, InvImportedIsProjected, PTL

\* The status of a settled range is written by no step.
LEMMA SettledStay ==
    ASSUME HistoryInv, [HistoryNext]_historyVars, NEW r \in Ranges \ {First}, range[r].status \in Settled
    PROVE  range'[r].status = range[r].status
<1>1. range \in [Ranges -> RangeRow] /\ range[r].status \notin Open /\ range[r].status # "none"
  BY Zenon, RowsTyped DEF Open, Settled
<1>2. ASSUME NEW y, range' = [range EXCEPT ![First] = y] PROVE range'[r].status = range[r].status
  BY Zenon, <1>1, <1>2
<1>3. ASSUME UNCHANGED range PROVE range'[r].status = range[r].status
  BY Zenon, <1>3
<1>4. CASE start
  <2>1. CASE createImport
    BY <1>1, <2>1 DEF createImport
  <2>2. CASE \E terminal \in BOOLEAN : startFails(terminal)
    <3>1. PICK y : range' = [range EXCEPT ![First] = y]
      BY Zenon, <2>2 DEF startFails
    <3> QED BY Zenon, <1>2, <3>1
  <2>3. CASE startEmpty
    BY <1>1, <2>3 DEF startEmpty
  <2>4. CASE startFirstRange
    BY <1>1, <2>4 DEF startFirstRange
  <2>5. CASE insertRanges
    <3>1. starter = "insert"
      BY Zenon, <2>5 DEF insertRanges
    <3>2. range[r].status = "none"
      BY Zenon, <3>1, InvParts DEF StarterSound
    <3> QED BY Zenon, <1>1, <3>2
  <2>6. CASE startUpdateImport
    BY Zenon, <1>3, <2>6 DEF startUpdateImport
  <2>7. CASE startReconcile
    <3>1. range'[r] = reconcileHistoryWork(range[r], FALSE, "none", TRUE) /\ range[r] \in RangeRow
      BY Zenon, <1>1, <2>7 DEF startReconcile
    <3>2. Kept(range[r], range'[r])
      BY Zenon, <3>1, ReconcileKeeps
    <3> QED BY Zenon, <3>2 DEF Kept
  <2> QED BY Zenon, <1>4, <2>1, <2>2, <2>3, <2>4, <2>5, <2>6, <2>7 DEF start
<1>5. ASSUME NEW w \in PageWorkers,
             \/ claimNextHistoryRangeWork(w) \/ advanceRequested(w)
             \/ advanceStep(w) \/ applyEventsFails(w) \/ advanceDies(w)
      PROVE  range'[r].status = range[r].status
  <2>1. ASSUME NEW s \in Ranges, NEW y, range' = [range EXCEPT ![s] = y], range[s].status \in Open
        PROVE  range'[r].status = range[r].status
    BY Zenon, <1>1, <2>1
  <2>2. ASSUME NEW s \in Ranges, NEW y, range' = [range EXCEPT ![s] = y], Fenced(w, s), page[w].pc \notin Late
        PROVE  range'[r].status = range[r].status
    <3>1. s = First \/ range[s].status \in Open
      BY Zenon, <2>2, FencedOpen
    <3> QED BY Zenon, <1>1, <2>2, <3>1
  <2>3. CASE claimNextHistoryRangeWork(w)
    <3>1. PICK s \in Ranges : /\ range[s].status \in Open
                              /\ range' = [range EXCEPT ![s] = claimHistoryRangeWork(@, w)]
      BY Zenon, <2>3 DEF claimNextHistoryRangeWork, Claimable
    <3> QED BY Zenon, <2>1, <3>1
  <2>4. page[w].r \in Ranges
    BY Zenon, RowsTyped DEF PageRow
  <2>5. CASE advanceClaim(w)
    <3>1. \/ UNCHANGED range
          \/ /\ range[page[w].r].status \in Open
             /\ range' = [range EXCEPT ![page[w].r] = claimHistoryRangeWork(@, w)]
      BY Zenon, <2>5 DEF advanceClaim, Claimable
    <3> QED BY Zenon, <1>3, <2>1, <2>4, <3>1
  <2>6. CASE checkpoint(w)
    <3>1. \/ UNCHANGED range
          \/ Fenced(w, page[w].r) /\ \E y : range' = [range EXCEPT ![page[w].r] = y]
      BY Zenon, <2>6 DEF checkpoint
    <3>2. page[w].pc \notin Late
      BY Zenon, <2>6 DEF checkpoint, Late
    <3> QED BY Zenon, <1>3, <2>2, <2>4, <3>1, <3>2
  <2>7. CASE updateFailed(w)
    <3>1. \/ UNCHANGED range
          \/ Fenced(w, page[w].r) /\ \E y : range' = [range EXCEPT ![page[w].r] = y]
      BY Zenon, <2>7 DEF updateFailed
    <3>2. page[w].pc \notin Late
      BY Zenon, <2>7 DEF updateFailed, Late
    <3> QED BY Zenon, <1>3, <2>2, <2>4, <3>1, <3>2
  <2>8. CASE advanceReconcile(w)
    <3>1. range'[r] = reconcileHistoryWork(range[r], r = page[w].r, w, FALSE) /\ range[r] \in RangeRow
      BY Zenon, <1>1, <2>8 DEF advanceReconcile
    <3>2. closeHistoryRangeWork(range[r]).status = range[r].status
      BY <3>1 DEF closeHistoryRangeWork, Unleased, RangeRow
    <3> QED BY Zenon, <1>1, <3>1, <3>2 DEF reconcileHistoryWork
  <2>9. CASE advanceDies(w)
    <3>1. range'[r] = [range[r] EXCEPT !.token = "dead"] \/ range'[r] = range[r]
      BY Zenon, <1>1, <2>9 DEF advanceDies
    <3> QED BY <1>1, <3>1 DEF RangeRow
  <2>10. CASE UNCHANGED range
    BY Zenon, <1>3, <2>10
  <2> QED BY Zenon, <1>5, <2>3, <2>5, <2>6, <2>7, <2>8, <2>9, <2>10
        DEF advanceRequested, advanceStep, applyEventsFails, advanceRead, applyEvents, insertEventHashes,
            updateImport, updateFailedImport
<1>6. ASSUME NEW s \in Ranges, historyLeaseExpires(s) \/ historyWakes(s)
      PROVE  range'[r].status = range[r].status
  BY <1>1, <1>6 DEF historyLeaseExpires, historyWakes, RangeRow
<1>7. CASE UNCHANGED historyVars
  BY Zenon, <1>7 DEF historyVars
<1>8. CASE startDies
  BY Zenon, <1>3, <1>8 DEF startDies
<1> QED BY Zenon, <1>4, <1>5, <1>6, <1>7, <1>8 DEF HistoryNext

\* A range that settled is never opened again, for any number of ranges, pages
\* and overlapping workers: the status clause of claimHistoryRangeWork and the
\* lease clause of updateRange. The first range is left out, as in the property.
THEOREM SettledRangesAlwaysStay == HistorySpec => SettledRangesStay
<1>1. HistoryInv /\ [HistoryNext]_historyVars =>
        [\A r \in Ranges \ {First} :
           range[r].status \in Settled => range'[r].status = range[r].status]_historyVars
  BY Zenon, SettledStay
<1> QED BY <1>1, HistoryInvariance, PTL DEF HistorySpec, SettledRangesStay
=============================================================================
