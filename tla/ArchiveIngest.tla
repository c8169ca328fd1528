--------------------------- MODULE ArchiveIngest ---------------------------
(***************************************************************************)
(* Live ingestion of one tenant: the gateway posts a batch, the route      *)
(* archives it in R2 as a data object and then a manifest, sends a pointer *)
(* to the queue and answers 202; the consumer reads the committed pair     *)
(* back, applies it to the projection, fans it out to webhooks and         *)
(* acknowledges (apps/control-plane/worker/ingestion, archive/writer.ts,   *)
(* codec.ts, reader.ts and control-directory/ingestion-repository.ts).     *)
(*                                                                         *)
(* The id of a batch is a hash of its content, so a batch has one content  *)
(* and the two R2 keys are functions of it.  What differs between two      *)
(* writers of a batch is the gzip encoding; an encoding stands for the     *)
(* bytes, the size and the ETag of a data object.  Every R2 and queue call *)
(* may throw before or after it took effect, and a handler may die.        *)
(***************************************************************************)
EXTENDS Integers, FiniteSets

CONSTANTS
    IngestBatches,
    Encodings,          \* what the gzip of a runtime may make of a batch
    Ingesters,          \* concurrent executions of the ingestion route
    Consumers,          \* concurrent executions of the queue handler
    Pointers,           \* bound on the pointers sent
    MaxDeliveries,      \* 1 + max_retries of the queue
    MaxIngestMishaps    \* bound on failing calls, deaths and rebuilds

ASSUME IngestConstants ==
    /\ "absent" \notin Encodings
    /\ Encodings # {}
    /\ "none" \notin IngestBatches
    /\ MaxDeliveries \in Nat \ {0}
    /\ MaxIngestMishaps \in Nat

VARIABLES
    dataObject,         \* R2: batch -> the encoding of its data object
    manifestObject,     \* R2: batch -> the encoding its manifest names
    gatewayRoute,       \* gateway_routes.status, and of all its bindings
    ingesters,          \* the requests between two calls
    queueMessages,      \* the pointers and their deliveries
    consumers,          \* the deliveries between two calls
    answered,           \* batches some request answered 202
    seen,               \* batches whose 202 the gateway received
    shown,              \* batches whose events the projection has
    fannedOut,          \* batches whose webhook deliveries are in D1
    projectionState,    \* projection_meta.state
    ingestMishaps

ingestVars == <<dataObject, manifestObject, gatewayRoute, ingesters, queueMessages,
                consumers, answered, seen, shown, fannedOut, projectionState,
                ingestMishaps>>

archiveVars == <<dataObject, manifestObject>>
consumeVars == <<consumers, shown, fannedOut, projectionState>>
-----------------------------------------------------------------------------
Objects == Encodings \cup {"absent"}

IngesterPhases == {"idle", "put_data", "verify_data", "put_manifest",
                   "verify_manifest", "send", "answer"}

ConsumerPhases == {"idle", "read", "apply", "fan_out", "deliver", "ack"}

\* own is what encodeCanonicalEventBatch made here, etag what was read back,
\* status the archive_status of the answer.
IdleIngester ==
    [phase |-> "idle", batch |-> "none", own |-> "absent", etag |-> "absent",
     status |-> "none"]

IdleConsumer == [phase |-> "idle", message |-> "none"]

Unsent == [batch |-> "none", deliveries |-> 0, state |-> "unsent"]

ArchiveIngestInit ==
    /\ dataObject = [b \in IngestBatches |-> "absent"]
    /\ manifestObject = [b \in IngestBatches |-> "absent"]
    /\ gatewayRoute = "active"
    /\ ingesters = [i \in Ingesters |-> IdleIngester]
    /\ queueMessages = [m \in Pointers |-> Unsent]
    /\ consumers = [c \in Consumers |-> IdleConsumer]
    /\ answered = {}
    /\ seen = {}
    /\ shown = {}
    /\ fannedOut = {}
    /\ projectionState = "uninitialized"
    /\ ingestMishaps = 0

IngestMishap ==
    /\ ingestMishaps < MaxIngestMishaps
    /\ ingestMishaps' = ingestMishaps + 1
-----------------------------------------------------------------------------
(* The route.                                                              *)

\* Every request in flight can still send its pointer within the bound.
Reserved ==
    Cardinality({i \in Ingesters : ingesters[i].phase # "idle"})
      < Cardinality({m \in Pointers : queueMessages[m].state = "unsent"})

Continue(i, phase) ==
    ingesters' = [ingesters EXCEPT ![i].phase = phase]

\* 4xx or 503: the request ends and what it wrote stays.
Refuse(i) == ingesters' = [ingesters EXCEPT ![i] = IdleIngester]

\* The gateway posts a batch whose 202 it has not received, possibly while an
\* earlier request for it still runs.  The route and the bindings of the
\* accounts are resolved among the active ones; a request they refuse, or one
\* whose batch id is not the hash of its content, ends before R2.
submit(i, b) ==
    /\ ingesters[i].phase = "idle"
    /\ b \notin seen
    /\ gatewayRoute = "active"
    /\ Reserved
    /\ \E z \in Encodings :
         ingesters' = [ingesters EXCEPT ![i] =
            [phase |-> "put_data", batch |-> b, own |-> z, etag |-> "absent",
             status |-> "none"]]
    /\ UNCHANGED <<dataObject, manifestObject, gatewayRoute, queueMessages,
                   answered, seen, consumeVars, ingestMishaps>>

\* An R2 put with etagDoesNotMatch "*".
PutNew(objects, b, z) ==
    IF objects[b] = "absent" THEN [objects EXCEPT ![b] = z] ELSE objects

putData(i) ==
    /\ ingesters[i].phase = "put_data"
    /\ dataObject' = PutNew(dataObject, ingesters[i].batch, ingesters[i].own)
    /\ \/ Continue(i, "verify_data") /\ UNCHANGED ingestMishaps
       \/ Refuse(i) /\ IngestMishap
    /\ UNCHANGED <<manifestObject, gatewayRoute, queueMessages, answered, seen, consumeVars>>

\* A writer that takes only its own bytes for its batch.
refuseForeignData(i) ==
    LET object == dataObject[ingesters[i].batch]
    IN  /\ ingesters[i].phase = "verify_data"
        /\ IF object # ingesters[i].own
             THEN Refuse(i)
             ELSE ingesters' = [ingesters EXCEPT ![i].phase = "put_manifest",
                                                 ![i].etag = object]
        /\ UNCHANGED <<archiveVars, gatewayRoute, queueMessages, answered, seen,
                       consumeVars, ingestMishaps>>

\* The object that is there, whoever wrote it, decides what the manifest says.
verifyDataObject(i) ==
    LET object == dataObject[ingesters[i].batch]
    IN  /\ ingesters[i].phase = "verify_data"
        /\ IF object = "absent"
             THEN Refuse(i)
             ELSE ingesters' = [ingesters EXCEPT ![i].phase = "put_manifest",
                                                 ![i].etag = object]
        /\ UNCHANGED <<archiveVars, gatewayRoute, queueMessages, answered, seen,
                       consumeVars, ingestMishaps>>

archiveStatus(i) ==
    IF manifestObject[ingesters[i].batch] = "absent" THEN "created" ELSE "already_committed"

putManifest(i) ==
    /\ ingesters[i].phase = "put_manifest"
    /\ manifestObject' = PutNew(manifestObject, ingesters[i].batch, ingesters[i].etag)
    /\ \/ /\ ingesters' = [ingesters EXCEPT ![i].phase = "verify_manifest",
                                           ![i].status = archiveStatus(i)]
          /\ UNCHANGED ingestMishaps
       \/ Refuse(i) /\ IngestMishap
    /\ UNCHANGED <<dataObject, gatewayRoute, queueMessages, answered, seen, consumeVars>>

\* Whether the put created the manifest or found one, the pair is read back
\* and compared byte for byte with what this request would have written.
readAndValidateCommitted(i) ==
    LET b == ingesters[i].batch
    IN  /\ ingesters[i].phase = "verify_manifest"
        /\ IF /\ manifestObject[b] = ingesters[i].etag
              /\ dataObject[b] = ingesters[i].etag
             THEN Continue(i, "send")
             ELSE Refuse(i)
        /\ UNCHANGED <<archiveVars, gatewayRoute, queueMessages, answered, seen,
                       consumeVars, ingestMishaps>>

\* A route that takes a manifest it found for a pointer already sent.
sendOnlyCreated(i) ==
    /\ ingesters[i].phase = "send"
    /\ IF ingesters[i].status = "already_committed"
         THEN UNCHANGED queueMessages
         ELSE \E m \in Pointers :
                /\ queueMessages[m].state = "unsent"
                /\ queueMessages' = [queueMessages EXCEPT ![m] =
                       [batch |-> ingesters[i].batch, deliveries |-> 0, state |-> "queued"]]
    /\ \/ Continue(i, "answer") /\ UNCHANGED ingestMishaps
       \/ Refuse(i) /\ IngestMishap
    /\ UNCHANGED <<archiveVars, gatewayRoute, answered, seen, consumeVars>>

\* The pointer is sent also when the pair was already committed; the send may
\* throw although the queue took the message.
sendPointer(i) ==
    /\ ingesters[i].phase = "send"
    /\ \E m \in Pointers :
         /\ queueMessages[m].state = "unsent"
         /\ queueMessages' = [queueMessages EXCEPT ![m] =
                [batch |-> ingesters[i].batch, deliveries |-> 0, state |-> "queued"]]
    /\ \/ Continue(i, "answer") /\ UNCHANGED ingestMishaps
       \/ Refuse(i) /\ IngestMishap
    /\ UNCHANGED <<archiveVars, gatewayRoute, answered, seen, consumeVars>>

\* 202; the answer may be lost on its way to the gateway.
answer(i) ==
    /\ ingesters[i].phase = "answer"
    /\ answered' = answered \cup {ingesters[i].batch}
    /\ Refuse(i)
    /\ \/ seen' = seen \cup {ingesters[i].batch} /\ UNCHANGED ingestMishaps
       \/ UNCHANGED seen /\ IngestMishap
    /\ UNCHANGED <<archiveVars, gatewayRoute, queueMessages, consumeVars>>

\* A call throws before it took effect, a read fails, or the execution ends.
ingesterFails(i) ==
    /\ ingesters[i].phase # "idle"
    /\ IngestMishap
    /\ Refuse(i)
    /\ UNCHANGED <<archiveVars, gatewayRoute, queueMessages, answered, seen, consumeVars>>

\* The route, its principal, or a connection of the tenant is retired.
retireRoute ==
    /\ gatewayRoute = "active"
    /\ gatewayRoute' = "retired"
    /\ UNCHANGED <<archiveVars, ingesters, queueMessages, answered, seen,
                   consumeVars, ingestMishaps>>
-----------------------------------------------------------------------------
(* The consumer.                                                           *)

BatchOf(c) == queueMessages[consumers[c].message].batch

Proceeds(c, phase) == consumers' = [consumers EXCEPT ![c].phase = phase]

routeVars == <<archiveVars, gatewayRoute, ingesters, answered, seen>>

\* message.retry, and what the queue does with a message nobody acknowledged.
Redelivered(m) ==
    [queueMessages EXCEPT ![m].state =
        IF queueMessages[m].deliveries = MaxDeliveries THEN "dead" ELSE "queued"]

Retry(c) ==
    /\ queueMessages' = Redelivered(consumers[c].message)
    /\ consumers' = [consumers EXCEPT ![c] = IdleConsumer]

deliverPointer(c, m) ==
    /\ consumers[c].phase = "idle"
    /\ queueMessages[m].state = "queued"
    /\ consumers' = [consumers EXCEPT ![c] = [phase |-> "read", message |-> m]]
    /\ queueMessages' = [queueMessages EXCEPT ![m].state = "delivered",
                                              ![m].deliveries = @ + 1]
    /\ UNCHANGED <<routeVars, shown, fannedOut, projectionState, ingestMishaps>>

\* The pair must be there and agree with itself and with the pointer.  The
\* route and the bindings are resolved whatever their status is now.
readCommittedArchiveBatch(c) ==
    /\ consumers[c].phase = "read"
    /\ IF /\ manifestObject[BatchOf(c)] # "absent"
          /\ dataObject[BatchOf(c)] = manifestObject[BatchOf(c)]
         THEN Proceeds(c, "apply") /\ UNCHANGED queueMessages
         ELSE Retry(c)
    /\ UNCHANGED <<routeVars, shown, fannedOut, projectionState, ingestMishaps>>

\* A consumer that takes a rebuild in progress for a reason to go on.
applySkipsRebuild(c) ==
    /\ consumers[c].phase = "apply"
    /\ IF projectionState = "rebuilding"
         THEN Proceeds(c, "ack") /\ UNCHANGED <<queueMessages, shown, projectionState>>
         ELSE /\ projectionState' = "ready"
              /\ shown' = shown \cup {BatchOf(c)}
              /\ Proceeds(c, "fan_out")
              /\ UNCHANGED queueMessages
    /\ UNCHANGED <<routeVars, fannedOut, ingestMishaps>>

\* initialize creates projection_meta once; applyPointerBatch needs it to be ready,
\* and adds nothing for events it has.
applyPointerBatch(c) ==
    /\ consumers[c].phase = "apply"
    /\ IF projectionState = "rebuilding"
         THEN Retry(c) /\ UNCHANGED <<shown, projectionState>>
         ELSE /\ projectionState' = "ready"
              /\ shown' = shown \cup {BatchOf(c)}
              /\ Proceeds(c, "fan_out")
              /\ UNCHANGED queueMessages
    /\ UNCHANGED <<routeVars, fannedOut, ingestMishaps>>

fanOutBatch(c) ==
    /\ consumers[c].phase = "fan_out"
    /\ fannedOut' = fannedOut \cup {BatchOf(c)}
    /\ Proceeds(c, "deliver")
    /\ UNCHANGED <<routeVars, queueMessages, shown, projectionState, ingestMishaps>>

\* The HTTP deliveries are in Webhooks; here they end, or throw (consumerFails).
deliverIncomingWebhookBatch(c) ==
    /\ consumers[c].phase = "deliver"
    /\ Proceeds(c, "ack")
    /\ UNCHANGED <<routeVars, queueMessages, shown, fannedOut, projectionState,
                   ingestMishaps>>

ackMessage(c) ==
    /\ consumers[c].phase = "ack"
    /\ queueMessages' = [queueMessages EXCEPT ![consumers[c].message].state = "acked"]
    /\ consumers' = [consumers EXCEPT ![c] = IdleConsumer]
    /\ UNCHANGED <<routeVars, shown, fannedOut, projectionState, ingestMishaps>>

\* A call throws, before or after it took effect, or the execution ends, the
\* acknowledgement included: the queue delivers the message again.
consumerFails(c) ==
    /\ consumers[c].phase # "idle"
    /\ IngestMishap
    /\ Retry(c)
    /\ UNCHANGED <<routeVars, shown, fannedOut, projectionState>>

\* A rebuild clears the projection, and publishes it with every committed
\* batch; its pages and its failures are in Restore.
beginsRebuild ==
    /\ projectionState = "ready"
    /\ IngestMishap
    /\ projectionState' = "rebuilding"
    /\ shown' = {}
    /\ UNCHANGED <<routeVars, queueMessages, consumers, fannedOut>>

completesRebuild ==
    /\ projectionState = "rebuilding"
    /\ projectionState' = "ready"
    /\ shown' = {b \in IngestBatches : manifestObject[b] # "absent"}
    /\ UNCHANGED <<routeVars, queueMessages, consumers, fannedOut, ingestMishaps>>
-----------------------------------------------------------------------------
ingesterSteps(i) ==
    \/ putData(i)
    \/ verifyDataObject(i)
    \/ putManifest(i)
    \/ readAndValidateCommitted(i)
    \/ sendPointer(i)
    \/ answer(i)

consumerSteps(c) ==
    \/ readCommittedArchiveBatch(c)
    \/ applyPointerBatch(c)
    \/ fanOutBatch(c)
    \/ deliverIncomingWebhookBatch(c)
    \/ ackMessage(c)

ArchiveIngestNext ==
    \/ \E i \in Ingesters, b \in IngestBatches : submit(i, b)
    \/ \E i \in Ingesters : ingesterSteps(i)
    \/ \E i \in Ingesters : ingesterFails(i)
    \/ retireRoute
    \/ \E c \in Consumers, m \in Pointers : deliverPointer(c, m)
    \/ \E c \in Consumers : consumerSteps(c)
    \/ \E c \in Consumers : consumerFails(c)
    \/ beginsRebuild
    \/ completesRebuild

ArchiveIngestSpec == ArchiveIngestInit /\ [][ArchiveIngestNext]_ingestVars

\* A request that is not cut off goes on; the gateway posts again until it has
\* a 202; the queue delivers what it holds; a rebuild ends.
ArchiveIngestFairness ==
    /\ \A i \in Ingesters : WF_ingestVars(ingesterSteps(i))
    /\ \A b \in IngestBatches : WF_ingestVars(\E i \in Ingesters : submit(i, b))
    /\ \A c \in Consumers : WF_ingestVars(consumerSteps(c))
    /\ \A m \in Pointers : WF_ingestVars(\E c \in Consumers : deliverPointer(c, m))
    /\ WF_ingestVars(completesRebuild)

ArchiveIngestLiveSpec == ArchiveIngestSpec /\ ArchiveIngestFairness
-----------------------------------------------------------------------------
IngesterRow == [phase : IngesterPhases, batch : IngestBatches \cup {"none"},
                own : Objects, etag : Objects,
                status : {"none", "created", "already_committed"}]

PointerRow == [batch : IngestBatches \cup {"none"}, deliveries : 0..MaxDeliveries,
               state : {"unsent", "queued", "delivered", "acked", "dead"}]

ConsumerRow == [phase : ConsumerPhases, message : Pointers \cup {"none"}]

\* The rows and the executions have the shape the code gives them, and an
\* execution past its first call knows its batch (route.ts, consumer.ts).
IngestTypeOK ==
    /\ dataObject \in [IngestBatches -> Objects]
    /\ manifestObject \in [IngestBatches -> Objects]
    /\ gatewayRoute \in {"active", "retired"}
    /\ ingesters \in [Ingesters -> IngesterRow]
    /\ queueMessages \in [Pointers -> PointerRow]
    /\ consumers \in [Consumers -> ConsumerRow]
    /\ answered \subseteq IngestBatches
    /\ seen \subseteq answered
    /\ shown \subseteq IngestBatches
    /\ fannedOut \subseteq IngestBatches
    /\ projectionState \in {"uninitialized", "ready", "rebuilding"}
    /\ ingestMishaps \in 0..MaxIngestMishaps
    /\ \A i \in Ingesters : ingesters[i].phase # "idle" =>
            /\ ingesters[i].batch \in IngestBatches
            /\ ingesters[i].own \in Encodings
    /\ \A c \in Consumers : consumers[c].phase # "idle" =>
            /\ consumers[c].message \in Pointers
            /\ queueMessages[consumers[c].message].state = "delivered"

\* A manifest names the data object that is stored, whichever of two writers
\* with different gzip encodings wrote which of them (archiveCanonicalEventBatch:
\* conditional puts, and the manifest built from the object read back).
ManifestsMatchTheirData ==
    \A b \in IngestBatches : manifestObject[b] # "absent" => dataObject[b] = manifestObject[b]

Sent(b) == \E m \in Pointers : queueMessages[m].batch = b

\* A 202 means the pair of the batch is committed in R2 and a pointer to it was
\* given to the queue, also when an earlier request died between the manifest
\* and the send (createIngestionBatchHandler sends again for already_committed).
AnsweredIsDurable ==
    /\ ManifestsMatchTheirData
    /\ \A b \in answered : manifestObject[b] # "absent" /\ Sent(b)

\* An acknowledged pointer has nothing left to do: its batch is in the
\* projection whenever that is ready, also after a rebuild that ran while the
\* consumer was between two calls, and its webhook deliveries are in D1
\* (processMessage, then message.ack).
AckedIsDone ==
    \A m \in Pointers : queueMessages[m].state = "acked" =>
        /\ queueMessages[m].batch \in fannedOut
        /\ projectionState = "ready" => queueMessages[m].batch \in shown

\* A pointer is given up only when something failed: a route retired after the
\* 202 is no reason, because the consumer resolves it whatever its status.  What
\* is given up still names a committed pair, so a rebuild finds the batch
\* (resolveArchivedIngestionRoute, resolveArchivedBindings; max_retries).
DeadLettersAreReplayable ==
    \A m \in Pointers : queueMessages[m].state = "dead" =>
        /\ ingestMishaps > 0
        /\ manifestObject[queueMessages[m].batch] # "absent"
        /\ dataObject[queueMessages[m].batch] = manifestObject[queueMessages[m].batch]

\* No pointer leaves the queue too early: an acknowledged one is done, and one
\* that was given up can be replayed (createIngestionQueueHandler).
PointersAreBacked == AckedIsDone /\ DeadLettersAreReplayable

\* The gateway gets its 202 for every batch it posted unless the route is
\* retired, whatever an earlier request left behind in R2 or in the queue (the
\* exact retries of the ingestion contract).
BatchesAreAccepted ==
    \A b \in IngestBatches :
        (\E i \in Ingesters : ingesters[i].batch = b)
            ~> (b \in seen \/ gatewayRoute = "retired")

\* Every batch that was answered 202 ends applied and acknowledged, or in the
\* dead letter queue after its last delivery, also when its route was retired
\* in between (createIngestionQueueHandler acknowledges or retries each one).
AnsweredIsSettled ==
    \A b \in IngestBatches : b \in answered ~>
        \E m \in Pointers : /\ queueMessages[m].batch = b
                            /\ queueMessages[m].state \in {"acked", "dead"}

\* A batch the gateway posts is accepted, and what was accepted is settled.
BatchesArrive == BatchesAreAccepted /\ AnsweredIsSettled
=============================================================================
