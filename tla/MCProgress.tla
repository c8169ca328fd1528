----------------------------- MODULE MCProgress -----------------------------
(* What must eventually happen, in five parts of the system.  `part` says      *)
(* which one runs; each has its own variables and the fairness of its own     *)
(* module, restated for the behaviours in which it is the part that runs.     *)
EXTENDS Webhooks, History, Linking, ArchiveIngest, Realtime, TLC

VARIABLE part

Parts == {"webhooks", "history", "linking", "ingestion", "realtime"}

progressVars == <<webhookVars, historyVars, linkVars, ingestVars, realtimeVars, part>>

ProgressInit ==
    /\ WebhookInit
    /\ HistoryInit
    /\ LinkInit
    /\ ArchiveIngestInit
    /\ RealtimeInit
    /\ part \in Parts
    /\ part # "history" => holds

ProgressNext ==
    /\ UNCHANGED part
    /\ \/ /\ part = "webhooks" /\ WebhookNext
          /\ UNCHANGED <<historyVars, linkVars, ingestVars, realtimeVars>>
       \/ /\ part = "history" /\ HistoryNext
          /\ UNCHANGED <<webhookVars, linkVars, ingestVars, realtimeVars>>
       \/ /\ part = "linking" /\ LinkNext
          /\ UNCHANGED <<webhookVars, historyVars, ingestVars, realtimeVars>>
       \/ /\ part = "ingestion" /\ ArchiveIngestNext
          /\ UNCHANGED <<webhookVars, historyVars, linkVars, realtimeVars>>
       \/ /\ part = "realtime" /\ RealtimeNext
          /\ UNCHANGED <<webhookVars, historyVars, linkVars, ingestVars>>

\* Cron runs every minute and visits every due row, requests time out, and
\* both a lease and the 24-hour retry window run out.
WebhookProgress ==
    /\ \A w \in Deliverers : WF_webhookVars(part = "webhooks" /\ deliverOne(w))
    /\ \A d \in Deliveries :
         /\ SF_webhookVars(part = "webhooks" /\ \E w \in Deliverers : claimDelivery(w, d))
         /\ WF_webhookVars(part = "webhooks" /\ leaseExpires(d))
         /\ WF_webhookVars(part = "webhooks" /\ retryDeadlinePasses(d))

\* The cron claims what is due, a handler that is not evicted goes on, and time
\* passes.
HistoryProgress ==
    /\ WF_historyVars(part = "history" /\ start)
    /\ \A w \in PageWorkers :
         /\ WF_historyVars(part = "history" /\ claimNextHistoryRangeWork(w))
         /\ WF_historyVars(part = "history" /\ advanceStep(w))
    /\ \A r \in Ranges :
         /\ WF_historyVars(/\ part = "history"
                           /\ range[r].token = "dead" /\ historyLeaseExpires(r))
         /\ WF_historyVars(part = "history" /\ historyWakes(r))

\* The alarm of a session goes off, and a call to the gateway returns.
LinkProgress ==
    /\ \A s \in Sessions : WF_linkVars(part = "linking" /\ expire(s))
    /\ \A r \in Relinks : WF_linkVars(part = "linking" /\ commitReturns(r))

\* The gateway posts again until it has a 202, the queue delivers what it
\* holds, a call that is not cut off goes on, and a rebuild ends.
IngestProgress ==
    /\ \A i \in Ingesters : WF_ingestVars(part = "ingestion" /\ ingesterSteps(i))
    /\ \A b \in IngestBatches :
         WF_ingestVars(part = "ingestion" /\ \E i \in Ingesters : submit(i, b))
    /\ \A c \in Consumers : WF_ingestVars(part = "ingestion" /\ consumerSteps(c))
    /\ \A m \in Pointers :
         WF_ingestVars(part = "ingestion" /\ \E c \in Consumers : deliverPointer(c, m))
    /\ WF_ingestVars(part = "ingestion" /\ completesRebuild)

\* The browser's timers fire, sockets deliver, the Durable Object finishes what
\* it began, and a rebuild ends.
RealtimeProgress ==
    /\ WF_realtimeVars(part = "realtime" /\ \E s \in Slots : createRealtimeTicket(s))
    /\ \A s \in Slots : WF_realtimeVars(part = "realtime" /\ slotSteps(s))
    /\ \A a \in Appliers : WF_realtimeVars(part = "realtime" /\ applierSteps(a))
    /\ WF_realtimeVars(part = "realtime" /\ alarmCloses)
    /\ WF_realtimeVars(part = "realtime" /\ rebuildCompletes)

ProgressSpec ==
    /\ ProgressInit /\ [][ProgressNext]_progressVars
    /\ WebhookProgress /\ HistoryProgress /\ LinkProgress
    /\ IngestProgress /\ RealtimeProgress
=============================================================================
