------------------------------- MODULE Webhooks -------------------------------
(***************************************************************************)
(* The webhook delivery ledger: subscriptions, the fan-out of projected    *)
(* message events into webhook_deliveries rows, the lease a deliverer takes *)
(* on a row, the removal fences it passes before the HTTP request and the  *)
(* classification of what the request did.                                 *)
(*                                                                         *)
(* Time is untimed: a lease that runs out, and a retry deadline that       *)
(* passes, are flags of the row which time may set at any moment; the      *)
(* backoff before the next attempt is the freedom not to claim a row.  A   *)
(* lease id is the deliverer holding it.  Payloads are the revision of the *)
(* message they were built from.                                           *)
(***************************************************************************)
EXTENDS Integers, FiniteSets

CONSTANTS
    Subscriptions,  \* webhook subscriptions of one tenant
    Messages,       \* messages of one conversation of one account
    Deliverers,        \* invocations of deliverOne that may overlap
    MaxVersion,     \* bound on destination_version
    MaxRevision,    \* bound on the revisions of a message
    Volatile,       \* the facts behind currentAuthority that may change
    MaxTrouble,     \* bound on directory changes, failures and deaths
    MaxRetries      \* bound on the deliveries retried by hand

ASSUME WebhookBounds ==
    /\ MaxVersion \in Nat \ {0}
    /\ MaxRevision \in Nat \ {0}
    /\ MaxTrouble \in Nat /\ MaxRetries \in Nat
    /\ "none" \notin Deliverers

VARIABLES
    sub,       \* webhook_subscriptions, with the outcome of currentAuthority
    rev,       \* revision of each message the projection holds, 0 for none
    gone,      \* messages the projection has redacted
    removed,   \* the removal_authority rows for these messages
    elsewhere, \* how many other removals the tenant has recorded
    row,       \* webhook_deliveries
    fan,       \* rows fan-out or reconciliation chose and has yet to insert
    retrying,  \* deliveries whose manual retry passed its checks
    retried,   \* deliveries that were ever retried by hand
    deliverer,    \* one record per invocation of deliverOne
    got,       \* the deliveries whose request reached a destination
    trouble    \* directory changes, failures and deaths so far

source == <<rev, gone, removed, elsewhere>>
requests == <<fan, retrying, retried>>
workers == <<deliverer, got>>
webhookVars == <<sub, source, row, requests, workers, trouble>>

Trouble == trouble < MaxTrouble /\ trouble' = trouble + 1

WebhookContent == {"created", "edited"}
Kinds == WebhookContent \union {"deleted", "removal"}
Deliveries == Subscriptions \X Messages \X Kinds

SubOf(d) == d[1]
MsgOf(d) == d[2]
KindOf(d) == d[3]

isWebhookRemovalDelivery(d) == KindOf(d) \notin WebhookContent

\* Every removal of a message takes the next deletion_epoch of the tenant.
Epoch == Cardinality(removed) + elsewhere

NoRow == [status |-> "none", ver |-> 0, epoch |-> 0, lease |-> "none",
          lapsed |-> FALSE, started |-> FALSE, manual |-> FALSE,
          overdue |-> FALSE]

NoWork == [pc |-> "idle", d |-> CHOOSE d \in Deliveries : TRUE, epoch |-> 0,
           rev |-> 0, ver |-> 0, started |-> FALSE, ok |-> FALSE]

-----------------------------------------------------------------------------
(* The directory. *)

\* The account is active, the owner's installation still answers to it, and
\* the creator is an administrator or an active member who holds the grant.
currentAuthority(s) ==
    /\ {"account", "installation"} \subseteq sub[s].facts
    /\ \/ "administrator" \in sub[s].facts
       \/ {"identity", "membership", "grant"} \subseteq sub[s].facts

\* Chat rule before account rule before the global one, and the event filter.
subscriptionAllowsEvent(s) == sub[s].status = "active" /\ sub[s].rules

subscriptionAllows(s) == subscriptionAllowsEvent(s) /\ currentAuthority(s)

\* Mutant: any active subscription will do, whatever its destination.
AnyDestinationMatches(d) == subscriptionAllows(SubOf(d))

\* authorizationMatches for the row a deliverer holds.
authorizationMatches(d) ==
    subscriptionAllows(SubOf(d)) /\ sub[SubOf(d)].ver = row[d].ver

Released(r) == [r EXCEPT !.lease = "none", !.lapsed = FALSE]

\* Neither the deadline nor the epoch of a closed row is read again.
Closed(r) == [r EXCEPT !.overdue = FALSE, !.epoch = 0]

\* A cutover or a revocation cancels a pending row.
Withdrawn(r) == [Closed(r) EXCEPT !.status = "cancelled", !.manual = FALSE]

\* A removal or a refused lease also forgets the lease and the provider start.
Cancelled(r) == [Withdrawn(Released(r)) EXCEPT !.started = FALSE]

createWebhookSubscription(s) ==
    /\ sub[s].status = "none"
    /\ sub' = [sub EXCEPT ![s].status = "active", ![s].ver = 1]
    /\ UNCHANGED <<source, row, requests, workers, trouble>>

\* The rules or the event filter change; the destination cannot.
updateWebhookSubscription(s) ==
    /\ sub[s].status = "active"
    /\ sub' = [sub EXCEPT ![s].rules = ~@]
    /\ Trouble
    /\ UNCHANGED <<source, row, requests, workers>>

\* A new destination cancels the backlog addressed to the older ones.
cutoverWebhookSubscription(s) ==
    /\ sub[s].status = "active"
    /\ sub[s].ver < MaxVersion
    /\ sub' = [sub EXCEPT ![s].ver = @ + 1]
    /\ row' = [d \in Deliveries |->
                 IF SubOf(d) = s /\ row[d].status = "pending"
                                 /\ row[d].ver < sub'[s].ver
                 THEN Withdrawn(row[d]) ELSE row[d]]
    /\ Trouble
    /\ UNCHANGED <<source, requests, workers>>

revokeWebhookSubscription(s) ==
    /\ sub[s].status = "active"
    /\ sub' = [sub EXCEPT ![s].status = "revoked"]
    /\ row' = [d \in Deliveries |->
                 IF SubOf(d) = s /\ row[d].status = "pending"
                 THEN Withdrawn(row[d]) ELSE row[d]]
    /\ Trouble
    /\ UNCHANGED <<source, requests, workers>>

\* A grant, an installation, an account or a membership changes.
authorityFactChanges(s, fact) ==
    /\ sub[s].status = "active"
    /\ sub' = [sub EXCEPT ![s].facts = IF fact \in @ THEN @ \ {fact}
                                       ELSE @ \union {fact}]
    /\ Trouble
    /\ UNCHANGED <<source, row, requests, workers>>

\* retryWebhookDelivery reads the row and its subscription ...
retryWebhookDeliveryCheck(d) ==
    /\ d \notin retried /\ Cardinality(retried) < MaxRetries
    /\ row[d].status \in {"failed", "uncertain"}
    /\ sub[SubOf(d)].status = "active"
    /\ sub[SubOf(d)].ver = row[d].ver
    /\ retrying' = retrying \union {d}
    /\ retried' = retried \union {d}
    /\ UNCHANGED <<sub, source, row, fan, workers, trouble>>

\* ... and then reopens the row if its status still permits it.
retryWebhookDelivery(d) ==
    /\ d \in retrying
    /\ retrying' = retrying \ {d}
    /\ row' = IF row[d].status \in {"failed", "uncertain"}
              THEN [row EXCEPT ![d].status = "pending", ![d].manual = TRUE]
              ELSE row
    /\ UNCHANGED <<sub, source, fan, retried, workers, trouble>>

-----------------------------------------------------------------------------
(* Ingestion: what the queue consumer applies before it fans out, and the  *)
(* removals other callers record.                                          *)

\* A message.created or message.edited event reaches the projection.
applyBatch(m) ==
    /\ rev[m] < MaxRevision
    /\ rev' = [rev EXCEPT ![m] = @ + 1]
    /\ UNCHANGED <<sub, gone, removed, elsewhere, row, requests, workers, trouble>>

\* recordRemoval commits the authority and with it the next epoch.
recordRemoval(m, kind) ==
    /\ rev[m] > 0
    /\ \A r \in removed : r.m # m
    /\ removed' = removed \union {[m |-> m, kind |-> kind]}
    /\ UNCHANGED <<sub, rev, gone, elsewhere, row, requests, workers, trouble>>

\* A removal of anything else of the tenant also advances the epoch.
recordRemovalElsewhere ==
    /\ elsewhere' = elsewhere + 1
    /\ Trouble
    /\ UNCHANGED <<sub, rev, gone, removed, row, requests, workers>>

Removed(m) == \E r \in removed : r.m = m

\* The second half of recordRemovalWithSuppression.  The call is repeated when
\* the delete is: a client's retry, or a redelivered queue message.
cancelWebhookDeliveriesForRemoval(m) ==
    /\ Removed(m)
    /\ row' = [d \in Deliveries |->
                 IF /\ MsgOf(d) = m
                    /\ \/ row[d].status = "pending"
                       \/ row[d].status = "leased" /\ ~row[d].started
                 THEN Cancelled(row[d]) ELSE row[d]]
    /\ UNCHANGED <<sub, source, requests, workers, trouble>>

\* #reapplyExternalRemovalRedactions blanks the projected message.
redact(m) ==
    /\ Removed(m)
    /\ gone' = gone \union {m}
    /\ UNCHANGED <<sub, rev, removed, elsewhere, row, requests, workers, trouble>>

\* Events of a message the queue may hand to fan-out, again and again.
Arrived(m, kind) ==
    CASE kind = "created" -> rev[m] >= 1
      [] kind = "edited" -> rev[m] >= 2
      [] kind = "deleted" -> [m |-> m, kind |-> "provider"] \in removed
      [] kind = "removal" -> [m |-> m, kind |-> "api"] \in removed

\* Mutant: an acknowledgement by an earlier destination counts.
EverDelivered(s, m) == row[<<s, m, "created">>].status = "delivered"

\* Only a destination that acknowledged the created event hears of revisions.
previouslyDelivered(s, m) ==
    /\ row[<<s, m, "created">>].status = "delivered"
    /\ row[<<s, m, "created">>].ver = sub[s].ver

Unwritten(d) ==
    row[d].status = "none" /\ [d |-> d, ver |-> sub[SubOf(d)].ver] \notin fan

\* fanOutIncomingWebhookDeliveries reads subscriptions and earlier deliveries.
fanOutIncomingWebhookDeliveries(d) ==
    /\ KindOf(d) # "removal"
    /\ Arrived(MsgOf(d), KindOf(d))
    /\ Unwritten(d)
    /\ subscriptionAllows(SubOf(d))
    /\ KindOf(d) # "created" => previouslyDelivered(SubOf(d), MsgOf(d))
    /\ fan' = fan \union {[d |-> d, ver |-> sub[SubOf(d)].ver]}
    /\ UNCHANGED <<sub, source, row, retrying, retried, workers, trouble>>

\* reconcileWebhookRemovalDeliveries, per authority and delivered row.
reconcileWebhookRemovalDeliveries(d) ==
    /\ isWebhookRemovalDelivery(d)
    /\ Arrived(MsgOf(d), KindOf(d))
    /\ Unwritten(d)
    /\ subscriptionAllows(SubOf(d))
    /\ \E k \in Kinds : LET r == row[<<SubOf(d), MsgOf(d), k>>] IN
         r.status = "delivered" /\ r.ver = sub[SubOf(d)].ver
    /\ fan' = fan \union {[d |-> d, ver |-> sub[SubOf(d)].ver]}
    /\ UNCHANGED <<sub, source, row, retrying, retried, workers, trouble>>

\* INSERT OR IGNORE of a chosen row, with the epoch read just before.
insertDeliveryRows(f) ==
    /\ fan' = fan \ {f}
    /\ row' = IF row[f.d].status = "none"
              THEN [row EXCEPT ![f.d] = [NoRow EXCEPT !.status = "pending",
                                           !.ver = f.ver, !.epoch = Epoch]]
              ELSE row
    /\ UNCHANGED <<sub, source, retrying, retried, workers, trouble>>

-----------------------------------------------------------------------------
(* Time. *)

leaseExpires(d) ==
    /\ row[d].status = "leased" /\ ~row[d].lapsed
    /\ row' = [row EXCEPT ![d].lapsed = TRUE]
    /\ UNCHANGED <<sub, source, requests, workers, trouble>>

retryDeadlinePasses(d) ==
    /\ row[d].status \in {"pending", "leased"} /\ ~row[d].overdue
    /\ row' = [row EXCEPT ![d].overdue = TRUE]
    /\ UNCHANGED <<sub, source, requests, workers, trouble>>

-----------------------------------------------------------------------------
(* deliverOne. *)

\* Mutant: a lapsed lease is retried although its request was started.
RetryAbandoned(r) ==
    IF r.status = "leased" /\ r.lapsed
    THEN [Released(r) EXCEPT !.status = "pending", !.started = FALSE] ELSE r

\* The three UPDATEs of claimDelivery, in order.
Abandoned(r) ==
    IF r.status = "leased" /\ r.lapsed /\ r.started
    THEN [Released(r) EXCEPT !.status = "uncertain", !.manual = FALSE]
    ELSE r

AttemptsExhausted(r) ==
    IF /\ r.overdue /\ ~r.manual
       /\ \/ r.status = "pending"
          \/ r.status = "leased" /\ r.lapsed /\ ~r.started
    THEN [Released(r) EXCEPT !.status = "failed", !.started = FALSE]
    ELSE r

Leasable(r) ==
    \/ r.status = "pending" /\ (r.manual \/ ~r.overdue)
    \/ r.status = "leased" /\ r.lapsed /\ ~r.overdue /\ ~r.started

claimDelivery(w, d) ==
    /\ deliverer[w].pc = "idle"
    /\ LET r == AttemptsExhausted(Abandoned(row[d])) IN
       \/ /\ Leasable(r)
          /\ row' = [row EXCEPT ![d] = [r EXCEPT !.status = "leased",
                       !.lease = w, !.lapsed = FALSE, !.started = FALSE,
                       !.manual = FALSE, !.epoch = Epoch]]
          /\ deliverer' = [deliverer EXCEPT ![w] = [NoWork EXCEPT
                          !.pc = "fence", !.d = d, !.epoch = Epoch]]
       \/ /\ ~Leasable(r) /\ r # row[d]
          /\ row' = [row EXCEPT ![d] = r]
          /\ UNCHANGED deliverer
    /\ UNCHANGED <<sub, source, requests, got, trouble>>

Holds(w) ==
    LET r == row[deliverer[w].d] IN r.status = "leased" /\ r.lease = w

\* Every return of deliverOne.
Leave(w) == deliverer' = [deliverer EXCEPT ![w] = NoWork]

Step(w, pc) == deliverer' = [deliverer EXCEPT ![w].pc = pc, ![w].epoch = Epoch]

\* cancelDelivery writes only under the deliverer's own lease.
cancelDelivery(w) ==
    /\ row' = IF Holds(w)
              THEN [row EXCEPT ![deliverer[w].d] = Cancelled(@)] ELSE row
    /\ Leave(w)

finishUncertainDelivery(w) ==
    /\ row' = IF Holds(w)
              THEN [row EXCEPT ![deliverer[w].d] =
                      [Released(@) EXCEPT !.status = "uncertain",
                                          !.manual = FALSE]]
              ELSE row
    /\ Leave(w)

\* removalFence reads the epoch and then the authority, so the authority is
\* never older than the epoch it is compared with.
Changed(w) == Epoch # deliverer[w].epoch

Suppressed(w) ==
    Removed(MsgOf(deliverer[w].d)) # isWebhookRemovalDelivery(deliverer[w].d)

removalBecameUncertain(w) ==
    Changed(w) \/ (Suppressed(w) /\ ~isWebhookRemovalDelivery(deliverer[w].d))

ReadableContent(w) ==
    \/ isWebhookRemovalDelivery(deliverer[w].d)
    \/ MsgOf(deliverer[w].d) \notin gone

\* The first fence and authorization, and the credential of the destination.
\* The authorization is read after the fence; a change between the two is what
\* the next step, which reads it again, sees.
authorize(w) ==
    /\ deliverer[w].pc = "fence"
    /\ IF Suppressed(w) \/ ~authorizationMatches(deliverer[w].d)
       THEN cancelDelivery(w)
       ELSE (\E pc \in {"read", "failure"} : Step(w, pc)) /\ UNCHANGED row
    /\ UNCHANGED <<sub, source, requests, got, trouble>>

\* The final authorization and the first read of the message.
currentMessageFor(w) ==
    /\ deliverer[w].pc = "read"
    /\ IF ~authorizationMatches(deliverer[w].d) \/ ~ReadableContent(w)
       THEN cancelDelivery(w)
       ELSE /\ deliverer' = [deliverer EXCEPT ![w].pc = "hydrate",
                                        ![w].rev = rev[MsgOf(deliverer[w].d)]]
            /\ UNCHANGED row
    /\ UNCHANGED <<sub, source, requests, got, trouble>>

\* The loop that rehydrates at most twice after an epoch it saw advance.
rehydrate(w) ==
    /\ deliverer[w].pc \in {"hydrate", "hydrate_again"}
    /\ IF \/ Suppressed(w)
          \/ Changed(w) /\ (~authorizationMatches(deliverer[w].d) \/ ~ReadableContent(w))
       THEN cancelDelivery(w)
       ELSE /\ deliverer' = [deliverer EXCEPT ![w].epoch = Epoch,
                 ![w].rev = IF Changed(w) THEN rev[MsgOf(deliverer[w].d)] ELSE @,
                 ![w].pc = IF Changed(w) /\ @ = "hydrate"
                           THEN "hydrate_again" ELSE "prepare"]
            /\ UNCHANGED row
    /\ UNCHANGED <<sub, source, requests, got, trouble>>

\* A removal event names the message and carries nothing of it.
removalPayloadFor(w) == 0
payloadFor(w) == deliverer[w].rev

Payload(w) == IF isWebhookRemovalDelivery(deliverer[w].d)
              THEN removalPayloadFor(w) ELSE payloadFor(w)

\* The recheck and the fence before the payload, and again before sending.
recheck(w) ==
    /\ deliverer[w].pc \in {"prepare", "send"}
    /\ IF ~authorizationMatches(deliverer[w].d) \/ Suppressed(w)
       THEN cancelDelivery(w)
       ELSE /\ deliverer' = [deliverer EXCEPT ![w].epoch = Epoch,
                 ![w].ver = sub[SubOf(deliverer[w].d)].ver,
                 ![w].rev = Payload(w),
                 ![w].pc = IF @ = "prepare" THEN "send" ELSE "claim"]
            /\ UNCHANGED row
    /\ UNCHANGED <<sub, source, requests, got, trouble>>

\* Mutant: the marker is written without looking at the epoch again.
StartableAtAnyEpoch(w) ==
    Holds(w) /\ ~row[deliverer[w].d].started /\ ~row[deliverer[w].d].lapsed

\* The provider-start marker is written in one UPDATE with the epoch test.
Startable(w) ==
    /\ Holds(w)
    /\ ~row[deliverer[w].d].started /\ ~row[deliverer[w].d].lapsed
    /\ deliverer[w].epoch = Epoch

claimProviderRequest(w) ==
    /\ deliverer[w].pc \in {"claim", "claim_again"}
    /\ \/ /\ Startable(w)
          /\ row' = [row EXCEPT ![deliverer[w].d].started = TRUE,
                                ![deliverer[w].d].epoch = Epoch]
          /\ deliverer' = [deliverer EXCEPT ![w].pc = "request", ![w].started = TRUE]
       \/ /\ ~Startable(w) /\ deliverer[w].pc = "claim" /\ Suppressed(w)
          /\ cancelDelivery(w)
       \/ /\ ~Startable(w) /\ deliverer[w].pc = "claim" /\ ~Suppressed(w)
          /\ IF Changed(w) THEN Step(w, "claim_again") ELSE Leave(w)
          /\ UNCHANGED row
       \/ /\ ~Startable(w) /\ deliverer[w].pc = "claim_again"
          /\ Leave(w)
          /\ UNCHANGED row
    /\ UNCHANGED <<sub, source, requests, got, trouble>>

\* A D1 or projection call fails inside the try block, before any request.
unavailable(w) ==
    /\ deliverer[w].pc \in {"read", "hydrate", "prepare", "send", "claim"}
    /\ deliverer' = [deliverer EXCEPT ![w].pc = "failure"]
    /\ Trouble
    /\ UNCHANGED <<sub, source, row, requests, got>>

\* The HTTP request: an answer in time, or a timeout that says nothing about
\* whether the destination has the payload.
fetchWithTimeout(w) ==
    /\ deliverer[w].pc = "request"
    /\ \E received \in BOOLEAN, ok \in BOOLEAN, answered \in BOOLEAN :
         /\ ok => answered
         /\ answered => received
         /\ got' = IF received THEN got \union {deliverer[w].d} ELSE got
         /\ deliverer' = [deliverer EXCEPT ![w].ok = ok,
                         ![w].pc = IF answered THEN "answered" ELSE "failure"]
    /\ UNCHANGED <<sub, source, row, requests, trouble>>

\* After an answer: the fence, then the subscription, decide whether the
\* outcome may be recorded or is uncertain.
afterResponse(w) ==
    /\ deliverer[w].pc = "answered"
    /\ \/ finishUncertainDelivery(w)      \* the fence itself is unavailable
       \/ IF removalBecameUncertain(w) \/ ~authorizationMatches(deliverer[w].d)
          THEN finishUncertainDelivery(w)
          ELSE Step(w, "finish") /\ UNCHANGED row
    /\ UNCHANGED <<sub, source, requests, got, trouble>>

markNetworkFailure(w) ==
    /\ deliverer[w].pc = "failure"
    /\ \/ deliverer[w].started /\ finishUncertainDelivery(w)
       \/ IF \/ deliverer[w].started /\ removalBecameUncertain(w)
             \/ ~authorizationMatches(deliverer[w].d)
          THEN finishUncertainDelivery(w)
          ELSE /\ deliverer' = [deliverer EXCEPT ![w].pc = "finish", ![w].ok = FALSE]
               /\ UNCHANGED row
    /\ UNCHANGED <<sub, source, requests, got, trouble>>

\* The guards finishSuccessfulDelivery and finishFailedDelivery share.
Recordable(w) ==
    /\ Holds(w)
    /\ deliverer[w].started => row[deliverer[w].d].started
    /\ row[deliverer[w].d].epoch = deliverer[w].epoch
    /\ deliverer[w].epoch = Epoch

\* Mutant: a refused or lost request is recorded like an accepted one.
RecordedAsDelivered(r, ok) ==
    [Closed(Released(r)) EXCEPT !.status = "delivered", !.manual = FALSE,
                                !.started = FALSE]

Recorded(r, ok) ==
    LET done == [Released(r) EXCEPT !.manual = FALSE, !.started = FALSE] IN
    IF ok THEN [Closed(done) EXCEPT !.status = "delivered"]
    ELSE [done EXCEPT !.status = IF r.overdue THEN "failed" ELSE "pending"]

finishDelivery(w) ==
    /\ deliverer[w].pc = "finish"
    /\ IF Recordable(w)
       THEN /\ row' = [row EXCEPT ![deliverer[w].d] = Recorded(@, deliverer[w].ok)]
            /\ Leave(w)
       ELSE /\ IF deliverer[w].started
               THEN deliverer' = [deliverer EXCEPT ![w].pc = "race"] ELSE Leave(w)
            /\ UNCHANGED row
    /\ UNCHANGED <<sub, source, requests, got, trouble>>

finishUncertainAfterRemovalRace(w) ==
    /\ deliverer[w].pc = "race"
    /\ \/ finishUncertainDelivery(w)
       \/ ~removalBecameUncertain(w) /\ Leave(w) /\ UNCHANGED row
    /\ UNCHANGED <<sub, source, requests, got, trouble>>

\* The isolate is evicted: nothing but the row's lease remembers the work.
die(w) ==
    /\ deliverer[w].pc # "idle"
    /\ Leave(w)
    /\ Trouble
    /\ UNCHANGED <<sub, source, row, requests, got>>

-----------------------------------------------------------------------------
WebhookInit ==
    /\ sub = [s \in Subscriptions |-> [status |-> "none", ver |-> 0,
                                       rules |-> TRUE,
           facts |-> {"account", "installation", "identity", "membership", "grant"}]]
    /\ rev = [m \in Messages |-> 0]
    /\ gone = {} /\ removed = {} /\ elsewhere = 0
    /\ row = [d \in Deliveries |-> NoRow]
    /\ fan = {} /\ retrying = {} /\ retried = {}
    /\ deliverer = [w \in Deliverers |-> NoWork]
    /\ got = {}
    /\ trouble = 0

directory(s) ==
    \/ createWebhookSubscription(s)
    \/ updateWebhookSubscription(s)
    \/ cutoverWebhookSubscription(s)
    \/ revokeWebhookSubscription(s)
    \/ \E fact \in Volatile : authorityFactChanges(s, fact)

ingestion(m) ==
    \/ applyBatch(m)
    \/ \E kind \in {"api", "provider"} : recordRemoval(m, kind)
    \/ cancelWebhookDeliveriesForRemoval(m)
    \/ redact(m)

deliverOne(w) ==
    \/ authorize(w)
    \/ currentMessageFor(w)
    \/ rehydrate(w)
    \/ recheck(w)
    \/ claimProviderRequest(w)
    \/ fetchWithTimeout(w)
    \/ afterResponse(w)
    \/ markNetworkFailure(w)
    \/ finishDelivery(w)
    \/ finishUncertainAfterRemovalRace(w)

scheduled(d) ==
    \/ leaseExpires(d)
    \/ retryDeadlinePasses(d)
    \/ \E w \in Deliverers : claimDelivery(w, d)

WebhookNext ==
    \/ \E s \in Subscriptions : directory(s)
    \/ \E m \in Messages : ingestion(m)
    \/ recordRemovalElsewhere
    \/ \E d \in Deliveries :
         \/ scheduled(d)
         \/ retryWebhookDeliveryCheck(d)
         \/ retryWebhookDelivery(d)
         \/ fanOutIncomingWebhookDeliveries(d)
         \/ reconcileWebhookRemovalDeliveries(d)
    \/ \E f \in fan : insertDeliveryRows(f)
    \/ \E w \in Deliverers : deliverOne(w) \/ unavailable(w) \/ die(w)

WebhookSpec == WebhookInit /\ [][WebhookNext]_webhookVars

\* Cron runs every minute and visits every due row, requests time out, and
\* both a lease and the 24-hour retry window run out.
WebhookFairSpec ==
    /\ WebhookSpec
    /\ \A w \in Deliverers : WF_webhookVars(deliverOne(w))
    /\ \A d \in Deliveries :
         /\ SF_webhookVars(\E w \in Deliverers : claimDelivery(w, d))
         /\ WF_webhookVars(leaseExpires(d))
         /\ WF_webhookVars(retryDeadlinePasses(d))

-----------------------------------------------------------------------------
(* Properties. *)

Statuses == {"none", "pending", "leased", "delivered", "failed", "cancelled",
             "uncertain"}

WebhookTypeOK ==
    /\ \A s \in Subscriptions :
         /\ sub[s].status \in {"none", "active", "revoked"}
         /\ sub[s].ver \in 0..MaxVersion
    /\ rev \in [Messages -> 0..MaxRevision]
    /\ gone \subseteq Messages
    /\ removed \subseteq [m : Messages, kind : {"api", "provider"}]
    /\ \A d \in Deliveries :
         /\ row[d].status \in Statuses
         /\ row[d].ver \in 0..MaxVersion
         /\ row[d].lease \in Deliverers \union {"none"}
         /\ row[d].status = "leased" <=> row[d].lease # "none"
    /\ \A w \in Deliverers : deliverer[w].d \in Deliveries
    /\ got \subseteq Deliveries
    /\ trouble \in 0..MaxTrouble

Sending(w, d) == deliverer[w].d = d /\ deliverer[w].pc \in {"request", "answered"}

\* A row is only ever sent to the destination version it was created for: a
\* cutover, and a retry by hand that overlaps one, cannot turn the backlog of
\* the old destination into requests to the new one.
BacklogStaysWithItsDestination ==
    \A w \in Deliverers :
      deliverer[w].pc \in {"request", "answered"} => deliverer[w].ver = row[deliverer[w].d].ver

\* Two invocations never have a request for the same delivery in flight, for
\* all the leases that lapse under a slow one; only a retry by hand may send a
\* delivery whose first request is still out.
OneRequestInFlight ==
    \A d \in Deliveries \ retried :
      Cardinality({w \in Deliverers : Sending(w, d)}) <= 1

\* A removal and a request never cross.  A removal committed before the
\* provider-start marker is not followed by a request that carries the removed
\* message, whichever fences the deliverer passed before (claimProviderRequest);
\* and a row whose request is out is not cancelled under the deliverer that holds
\* its lease, who is left to classify the result
\* (cancelWebhookDeliveriesForRemoval calls it in-flight evidence).
RemovalsFenceRequests ==
    [][\A w \in Deliverers :
         /\ /\ deliverer[w].pc # "request" /\ deliverer'[w].pc = "request"
            /\ KindOf(deliverer[w].d) \in WebhookContent
            => ~Removed(MsgOf(deliverer[w].d))
         /\ Holds(w) /\ Sending(w, deliverer[w].d)
            => row'[deliverer[w].d].status # "cancelled"]_webhookVars

\* A destination hears of an edit or a removal only when that very destination
\* acknowledged the message.
RevisionsFollowDelivery ==
    \A d \in Deliveries :
      LET first == row[<<SubOf(d), MsgOf(d), "created">>] IN
      KindOf(d) # "created" /\ row[d].status # "none"
        => first.status = "delivered" /\ first.ver = row[d].ver

\* What the status of a row says of the work it stands for.
WorkState(status) ==
    CASE status = "none" -> "absent"
      [] status = "pending" -> "open"
      [] status = "leased" -> "trying"
      [] status = "delivered" -> "done"
      [] status = "failed" -> "failed"
      [] status = "cancelled" -> "dropped"
      [] status = "uncertain" -> "unknown"

\* The ledger of deliveries as durable work: delivered only if a destination
\* had the request, an uncertain or failed delivery is only attempted again by
\* hand, and no row stays pending or leased, whatever dies on the way.
Work == INSTANCE DurableWork WITH
    Items <- Deliveries,
    state <- [d \in Deliveries |-> WorkState(row[d].status)],
    effect <- got,
    asked <- retried

DeliveriesAreDurableWork == Work!WorkLiveSpec

\* A destination that was sent a message is told of its removal: nothing but
\* its own subscription or authority may cancel the removal event
\* (docs/product-alignment.md:146, "If the content was already delivered,
\* Communicator sends a removal event").  It does not hold: a suppression that
\* runs again cancels the event, and INSERT OR IGNORE never writes it anew.
RemovalEventIsKept ==
    [][\A d \in Deliveries :
         /\ isWebhookRemovalDelivery(d)
         /\ row[d].status # "cancelled" /\ row'[d].status = "cancelled"
         => ~authorizationMatches(d) \/ ~authorizationMatches(d)']_webhookVars
=============================================================================
