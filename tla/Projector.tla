------------------------------ MODULE Projector ------------------------------
(***************************************************************************)
(* The event projector of the tenant projection object: how one canonical  *)
(* event changes the receive-side rows of a conversation.                  *)
(* (worker/projection/projector*.ts and the batch loop of                  *)
(* worker/projection/tenant-projection.ts.)                                *)
(*                                                                         *)
(* Events reach the object in any order: queue deliveries are neither      *)
(* ordered nor unique and a rebuild replays the archive page by page.      *)
(* Every handler therefore resolves conflicts by the observed tuple        *)
(* (observed_ms, event_id), keeps rows for targets that have not arrived   *)
(* yet, and lets a tombstone win for ever.  The model has one conversation *)
(* with one participant, one message, one reaction, one attachment and one *)
(* command, all owned alike, so that every pair of families meets on the   *)
(* same rows.                                                              *)
(*                                                                         *)
(* An event is its kind and its rank `at' in the observed order; ranks are *)
(* unique, as event ids are.  The rank also stands for the content: a      *)
(* field written by event n holds n, and 0 is NULL, '' or no row.          *)
(***************************************************************************)
EXTENDS Naturals

CONSTANTS
    MaxRank,     \* Bound: the events of the instance
    OccurredMs,  \* the occurred time of the event of each rank
    Kinds,       \* the event kinds of the instance
    Removable    \* resources the removal API may remove without an event

\* The observed tuples an event may carry, in their order.
Ranks == 1 .. MaxRank

VARIABLES
    stream,      \* the kind of the event applied at each rank, or "none"
    rows,        \* the projection rows of the conversation
    authorities, \* resources with a removal authority in D1
    reapplied    \* the authorities the last batch re-applied

projectorVars == <<stream, rows, authorities, reapplied>>

Resources == {"message", "conversation", "participant", "attachment"}

\* A deletion event and the resource it removes (message.deleted and a
\* deletion.tombstone for a message take the same path).
DeletionTarget ==
    [kind \in {"message.deleted", "conversation.tombstone",
               "participant.tombstone", "attachment.tombstone"} |->
        CASE kind = "message.deleted" -> "message"
          [] kind = "conversation.tombstone" -> "conversation"
          [] kind = "participant.tombstone" -> "participant"
          [] kind = "attachment.tombstone" -> "attachment"]

AllKinds == DOMAIN DeletionTarget \cup
    { "conversation.updated", "participant.updated", "message.created",
      "message.edited", "reaction.added", "reaction.removed",
      "receipt.read", "receipt.delivered", "typing.started",
      "typing.stopped", "attachment.observed", "command.updated",
      "bridge.delivery.updated", "replay.tombstone" }

ASSUME ProjectorConstants ==
    /\ MaxRank \in Nat
    /\ OccurredMs \in [Ranks -> Nat \ {0}]
    /\ Kinds \subseteq AllKinds
    /\ Removable \subseteq Resources

-----------------------------------------------------------------------------
(* Rows.                                                                   *)

Later(a, b) == IF a >= b THEN a ELSE b

ConversationRow ==
    [ shell |-> 0, title |-> 0, metadata |-> 0, deleted |-> 0,
      preview |-> 0, activity |-> 0, unread |-> 0, messages |-> 0,
      attachments |-> 0 ]

ParticipantRow == [ at |-> 0, name |-> 0, deleted |-> 0 ]

MessageRow ==
    [ created |-> 0, sender |-> 0, body |-> 0, reply |-> 0, status |-> 0,
      unread |-> FALSE, localRead |-> 0, current |-> 0, edited |-> 0,
      deleted |-> 0, attachments |-> 0, failure |-> 0, delivery |-> 0 ]

ReactionRow == [ at |-> 0, emoji |-> 0 ]

TypingRow == [ at |-> 0, typing |-> FALSE ]

AttachmentRow == [ at |-> 0, file |-> 0, expires |-> 0, deleted |-> 0 ]

CommandRow == [ at |-> 0, created |-> 0, failure |-> 0 ]

DeliveryRow == [ at |-> 0, failure |-> 0 ]

NoRows ==
    [ conversation |-> ConversationRow, participant |-> ParticipantRow,
      message |-> MessageRow, versions |-> {}, reaction |-> ReactionRow,
      receipt |-> [type \in {"read", "delivered"} |-> 0],
      typing |-> TypingRow, attachment |-> AttachmentRow,
      command |-> CommandRow, delivery |-> DeliveryRow, marker |-> 0,
      tombstone |-> [resource \in Resources |-> 0] ]

\* latestTombstone of the message's and the conversation's tombstones.
messageIsRedacted(r) == Later(r.tombstone["message"], r.tombstone["conversation"])

\* The newest version of the message, or of its created versions.
readLatest(versions) ==
    CHOOSE v \in versions : \A w \in versions : v.at >= w.at

\* Every handler first makes sure the conversation row exists; its activity
\* follows the latest occurred tuple.
ensureConversationShell(r, e) ==
    IF r.conversation.shell = 0
    THEN [r EXCEPT
            !.conversation.shell = e.at,
            !.conversation.title =
                IF e.kind = "conversation.updated" THEN e.at ELSE 0,
            !.conversation.metadata =
                IF e.kind = "conversation.updated" THEN e.at ELSE 0]
    ELSE IF OccurredMs[e.at] > OccurredMs[r.conversation.shell]
    THEN [r EXCEPT !.conversation.shell = e.at]
    ELSE r

-----------------------------------------------------------------------------
(* Redaction.                                                              *)

redactMessage(r, t) ==
    LET hidden == [r EXCEPT
            !.versions = {[v EXCEPT !.body = 0, !.editor = 0] : v \in @},
            !.reaction = ReactionRow,
            !.receipt = NoRows.receipt,
            !.delivery.failure = 0,
            !.attachment =
                IF @.at = 0 THEN @
                ELSE [@ EXCEPT !.file = 0, !.expires = 0,
                               !.deleted = Later(r.tombstone["attachment"], t)]]
    IN  IF r.message.created = 0 THEN hidden
        ELSE [hidden EXCEPT !.message =
                [@ EXCEPT !.sender = 0, !.body = 0, !.reply = 0,
                          !.unread = FALSE, !.localRead = 0, !.edited = 0,
                          !.deleted = t, !.attachments = 0, !.failure = 0,
                          !.current = Later(t, r.message.current)]]

redactConversation(r, t) ==
    LET blank == redactMessage(r, Later(r.tombstone["message"], t))
    IN  [blank EXCEPT
            !.conversation =
                [@ EXCEPT !.title = 0, !.preview = 0, !.unread = 0,
                          !.messages = 0, !.attachments = 0, !.deleted = t],
            !.message.current =
                IF r.message.created = 0 THEN 0 ELSE Later(t, r.message.current),
            !.participant =
                IF @.at = 0 THEN @
                ELSE [@ EXCEPT !.name = 0,
                        !.deleted = Later(r.tombstone["participant"], t)],
            !.typing = TypingRow,
            !.command.failure = 0]

redactParticipant(r, t) ==
    [r EXCEPT
        !.participant = IF @.at = 0 THEN @
                        ELSE [@ EXCEPT !.name = 0, !.deleted = t],
        !.versions = {[v EXCEPT !.editor = 0] : v \in @},
        !.message.sender = 0,
        !.reaction = IF @.emoji = 0 THEN @ ELSE ReactionRow,
        !.receipt = NoRows.receipt,
        !.typing = TypingRow]

redactAttachment(r, t) ==
    IF r.attachment.at = 0 THEN r
    ELSE [r EXCEPT !.attachment =
            [@ EXCEPT !.file = 0, !.expires = 0, !.deleted = t]]

\* A tombstone is permanent; its metadata follows the newest event.
upsertResourceTombstone(r, resource, e) ==
    [r EXCEPT !.tombstone[resource] = Later(@, e.at)]

projectDeletionTombstone(r, e) ==
    LET resource == DeletionTarget[e.kind]
        marked   == upsertResourceTombstone(r, resource, e)
        winner   == marked.tombstone[resource]
        scope    == marked.tombstone["conversation"]
    IN  CASE resource = "message" -> redactMessage(marked, Later(winner, scope))
          [] resource = "conversation" -> redactConversation(marked, winner)
          [] resource = "participant" ->
                redactParticipant(marked, Later(winner, scope))
          [] resource = "attachment" ->
                redactAttachment(marked,
                    Later(Later(winner,
                                IF r.attachment.at = 0 THEN 0
                                ELSE marked.tombstone["message"]),
                          scope))

-----------------------------------------------------------------------------
(* Conversation and participant.                                           *)

projectConversationUpdated(r, e) ==
    IF \/ r.tombstone["conversation"] # 0
       \/ e.at <= r.conversation.metadata
    THEN r
    ELSE [r EXCEPT !.conversation.title = e.at, !.conversation.metadata = e.at]

projectParticipantUpdated(r, e) ==
    LET existing == r.participant
        deletion == Later(r.tombstone["participant"], r.tombstone["conversation"])
        erased   == existing.deleted # 0 \/ deletion # 0
    IN  IF e.at <= existing.at THEN r
        ELSE [r EXCEPT !.participant =
                [ at |-> e.at,
                  name |-> IF erased THEN 0 ELSE e.at,
                  deleted |-> IF existing.deleted # 0 THEN existing.deleted
                              ELSE deletion ]]

-----------------------------------------------------------------------------
(* Message, versions, delivery and local read.                             *)

\* Only the read receipt of the local identity is modelled as receipt.read.
reconcileMessageLocalRead(r) ==
    IF \/ r.message.created = 0
       \/ messageIsRedacted(r) # 0
       \/ r.receipt["read"] = 0
    THEN r
    ELSE [r EXCEPT !.message.localRead = r.receipt["read"],
                   !.message.unread = FALSE]

reconcileMessageDelivery(r) ==
    LET blocked == messageIsRedacted(r) # 0 \/ r.message.deleted # 0
    IN  IF r.message.created = 0 \/ r.delivery.at = 0 THEN r
        ELSE IF r.delivery.at <= r.message.delivery
        THEN IF blocked THEN [r EXCEPT !.message.failure = 0] ELSE r
        ELSE [r EXCEPT
                !.message.status = r.delivery.at,
                !.message.failure = IF blocked THEN 0 ELSE r.delivery.failure,
                !.message.delivery = r.delivery.at]

insertMessageVersion(r, e, kind, editor) ==
    [r EXCEPT !.versions = @ \cup
        {[ at |-> e.at, kind |-> kind,
           body |-> IF messageIsRedacted(r) # 0 THEN 0 ELSE e.at,
           editor |-> IF messageIsRedacted(r) # 0 THEN 0 ELSE editor ]}]

applyCurrentMessageVersion(r, latest) ==
    LET tombstone == messageIsRedacted(r)
        newer     == latest.at > r.message.current
    IN  IF tombstone # 0
        THEN [redactMessage(r, tombstone) EXCEPT
                !.message.current =
                    IF newer /\ latest.at > tombstone THEN latest.at ELSE @]
        ELSE IF ~newer THEN r
        ELSE [r EXCEPT
                !.message.body = latest.body,
                !.message.edited = IF latest.kind = "edited" THEN latest.at ELSE 0,
                !.message.current = latest.at]

\* Mutant: any created event takes the immutable fields.
lastCreatedToArrive(r, e) ==
    LET tombstone == messageIsRedacted(r)
    IN  [r EXCEPT !.message =
            [@ EXCEPT
                !.created = e.at,
                !.sender = IF tombstone # 0 \/ r.tombstone["participant"] # 0
                           THEN 0 ELSE e.at,
                !.reply = IF tombstone # 0 THEN 0 ELSE e.at,
                !.unread = tombstone = 0,
                !.status = IF r.delivery.at = 0 THEN e.at
                               ELSE r.message.status]]

\* A created event owns the immutable fields while it is the newest created
\* version; the delivery status only while no delivery update is known.
reconcileWinningCreatedFields(r, e) ==
    LET tombstone == messageIsRedacted(r)
        winner == readLatest({v \in r.versions : v.kind = "created"})
    IN  IF winner.at # e.at THEN r
        ELSE [r EXCEPT !.message =
                [@ EXCEPT
                    !.created = e.at,
                    !.sender = IF tombstone # 0 \/ r.tombstone["participant"] # 0
                               THEN 0 ELSE e.at,
                    !.reply = IF tombstone # 0 THEN 0 ELSE e.at,
                    !.unread = tombstone = 0,
                    !.status = IF r.delivery.at = 0 THEN e.at
                               ELSE r.message.status]]

insertMessage(r, e, latest) ==
    LET tombstone == messageIsRedacted(r)
    IN  [r EXCEPT !.message =
            [ MessageRow EXCEPT
                !.created = e.at,
                !.sender = IF tombstone # 0 \/ r.tombstone["participant"] # 0
                           THEN 0 ELSE e.at,
                !.body = latest.body,
                !.reply = IF tombstone # 0 THEN 0 ELSE e.at,
                !.status = e.at,
                !.unread = tombstone = 0,
                !.current = Later(tombstone, latest.at),
                !.edited = IF latest.kind = "edited" /\ tombstone = 0
                           THEN latest.at ELSE 0,
                !.deleted = tombstone ]]

projectMessageCreated(r, e) ==
    LET versioned == insertMessageVersion(r, e, "created", 0)
        latest    == readLatest(versioned.versions)
        placed    == IF r.message.created = 0
                     THEN insertMessage(versioned, e, latest)
                     ELSE reconcileWinningCreatedFields(
                            applyCurrentMessageVersion(versioned, latest), e)
        delivered == reconcileMessageDelivery(placed)
        redacted  == IF messageIsRedacted(r) = 0 THEN delivered
                     ELSE redactMessage(delivered, messageIsRedacted(r))
    IN  reconcileMessageLocalRead(redacted)

projectMessageEdited(r, e) ==
    LET editor    == IF r.tombstone["participant"] # 0 THEN 0 ELSE e.at
        versioned == insertMessageVersion(r, e, "edited", editor)
    IN  IF r.message.created = 0 THEN versioned
        ELSE reconcileMessageLocalRead(
                applyCurrentMessageVersion(versioned,
                    readLatest(versioned.versions)))

projectBridgeDeliveryUpdated(r, e) ==
    LET blocked == messageIsRedacted(r) # 0
    IN  reconcileMessageDelivery(
            IF e.at <= r.delivery.at
            THEN IF blocked THEN [r EXCEPT !.delivery.failure = 0] ELSE r
            ELSE [r EXCEPT !.delivery =
                    [at |-> e.at, failure |-> IF blocked THEN 0 ELSE e.at]])

-----------------------------------------------------------------------------
(* Reactions, receipts, typing, attachments, commands, markers.            *)

projectReactionAdded(r, e) ==
    IF messageIsRedacted(r) # 0 \/ r.tombstone["participant"] # 0
    THEN [r EXCEPT !.reaction = ReactionRow]
    ELSE IF e.at <= r.reaction.at THEN r
    ELSE [r EXCEPT !.reaction = [at |-> e.at, emoji |-> e.at]]

projectReactionRemoved(r, e) ==
    IF messageIsRedacted(r) # 0 THEN [r EXCEPT !.reaction = ReactionRow]
    ELSE IF e.at <= r.reaction.at THEN r
    ELSE [r EXCEPT !.reaction = [at |-> e.at, emoji |-> 0]]

projectReceipt(r, e) ==
    LET type == IF e.kind = "receipt.read" THEN "read" ELSE "delivered"
    IN  IF messageIsRedacted(r) # 0 \/ r.tombstone["participant"] # 0
        THEN [r EXCEPT !.receipt[type] = 0]
        ELSE IF e.at <= r.receipt[type] THEN r
        ELSE LET stored == [r EXCEPT !.receipt[type] = e.at]
             IN  IF type = "read" THEN reconcileMessageLocalRead(stored)
                 ELSE stored

projectTyping(r, e) ==
    IF r.tombstone["conversation"] # 0 \/ r.tombstone["participant"] # 0
    THEN [r EXCEPT !.typing = TypingRow]
    ELSE IF e.at <= r.typing.at THEN r
    ELSE [r EXCEPT !.typing = [at |-> e.at, typing |-> e.kind = "typing.started"]]

\* The payload's expires_at is written even when the attachment is redacted.
projectAttachmentObserved(r, e) ==
    LET redaction == Later(r.tombstone["attachment"], messageIsRedacted(r))
        scrubbed  == IF redaction = 0 THEN r ELSE redactAttachment(r, redaction)
    IN  IF e.at <= r.attachment.at THEN scrubbed
        ELSE [scrubbed EXCEPT !.attachment =
                [ at |-> e.at, file |-> IF redaction = 0 THEN e.at ELSE 0,
                  expires |-> e.at, deleted |-> redaction ]]

projectCommandUpdated(r, e) ==
    LET blocked == r.tombstone["conversation"] # 0
        first   == IF \/ r.command.at = 0
                      \/ OccurredMs[e.at] < OccurredMs[r.command.created]
                   THEN e.at ELSE r.command.created
    IN  [r EXCEPT !.command =
            [ at |-> Later(@.at, e.at), created |-> first,
              failure |-> IF blocked THEN 0 ELSE Later(@.failure, e.at) ]]

projectEventMarker(r, e) == [r EXCEPT !.marker = Later(@, e.at)]

-----------------------------------------------------------------------------
(* One event, the summaries, and the external authorities.                 *)

projectEvent(r, e) ==
    LET s == ensureConversationShell(r, e)
    IN  CASE e.kind = "conversation.updated" -> projectConversationUpdated(s, e)
          [] e.kind = "participant.updated" -> projectParticipantUpdated(s, e)
          [] e.kind = "message.created" -> projectMessageCreated(s, e)
          [] e.kind = "message.edited" -> projectMessageEdited(s, e)
          [] e.kind = "reaction.added" -> projectReactionAdded(s, e)
          [] e.kind = "reaction.removed" -> projectReactionRemoved(s, e)
          [] e.kind \in {"receipt.read", "receipt.delivered"} ->
                projectReceipt(s, e)
          [] e.kind \in {"typing.started", "typing.stopped"} ->
                projectTyping(s, e)
          [] e.kind = "attachment.observed" -> projectAttachmentObserved(s, e)
          [] e.kind = "command.updated" -> projectCommandUpdated(s, e)
          [] e.kind = "bridge.delivery.updated" ->
                projectBridgeDeliveryUpdated(s, e)
          [] e.kind = "replay.tombstone" -> projectEventMarker(s, e)
          [] e.kind \in DOMAIN DeletionTarget -> projectDeletionTombstone(s, e)

recomputeConversationSummaries(r) ==
    LET live  == r.message.created # 0 /\ r.message.deleted = 0
        files == IF live /\ r.attachment.at # 0 /\ r.attachment.deleted = 0
                 THEN 1 ELSE 0
        counted == IF live THEN [r EXCEPT !.message.attachments = files] ELSE r
    IN  IF r.conversation.deleted # 0
        THEN [r EXCEPT !.conversation =
                [@ EXCEPT !.preview = 0, !.activity = r.conversation.shell,
                          !.unread = 0,
                          !.messages = 0, !.attachments = 0]]
        ELSE [counted EXCEPT !.conversation =
                [@ EXCEPT
                    !.preview = IF live THEN r.message.body ELSE 0,
                    !.activity = IF live THEN r.message.created
                                 ELSE r.conversation.shell,
                    !.unread = IF live /\ r.message.unread THEN 1 ELSE 0,
                    !.messages = IF live THEN 1 ELSE 0,
                    !.attachments = files]]

\* An authority that came without an event is dated after every event.
RemovedAt == MaxRank + 1

Dated(deleted) == IF deleted = 0 THEN RemovedAt ELSE deleted

ScrubbedMessage(m) ==
    IF m.created = 0 THEN m
    ELSE [m EXCEPT !.sender = 0, !.body = 0, !.reply = 0, !.unread = FALSE,
                   !.localRead = 0, !.edited = 0, !.deleted = Dated(@),
                   !.attachments = 0, !.failure = 0]

ScrubbedAttachment(a, expires) ==
    IF a.at = 0 THEN a
    ELSE [a EXCEPT !.file = 0, !.expires = expires, !.deleted = Dated(@)]

\* Mutant: only the rows that carry the resource's own id are scrubbed.
scrubbedRowOnly(r, resource) ==
    CASE resource = "message" -> [r EXCEPT !.message = ScrubbedMessage(@)]
      [] resource = "attachment" ->
            [r EXCEPT !.attachment = ScrubbedAttachment(@, 0)]
      [] resource = "conversation" ->
            [r EXCEPT !.conversation =
                [@ EXCEPT !.title = 0, !.preview = 0,
                          !.deleted = Dated(r.conversation.deleted)]]
      [] resource = "participant" ->
            [r EXCEPT !.participant = IF @.at = 0 THEN @
                                      ELSE [@ EXCEPT !.name = 0]]

\* The redaction pass for one authority.
reapplyMessageRemoval(r) ==
    [r EXCEPT
        !.versions = {[v EXCEPT !.body = 0, !.editor = 0] : v \in @},
        !.reaction = ReactionRow, !.receipt = NoRows.receipt,
        !.attachment = ScrubbedAttachment(@, @.expires),
        !.message = ScrubbedMessage(@)]

reapplyConversationRemoval(r) ==
    [r EXCEPT
        !.conversation =
            [@ EXCEPT !.title = 0, !.preview = 0, !.unread = 0,
                      !.messages = 0, !.attachments = 0,
                      !.deleted = Dated(r.conversation.deleted)],
        !.message = ScrubbedMessage(@),
        !.attachment = ScrubbedAttachment(@, 0)]

reapplyParticipantRemoval(r) ==
    [r EXCEPT
        !.participant = IF @.at = 0 THEN @
                        ELSE [@ EXCEPT !.name = 0,
                                       !.deleted = Dated(r.participant.deleted)],
        !.message.sender = 0]

reapplyAttachmentRemoval(r) ==
    [r EXCEPT !.attachment = ScrubbedAttachment(@, 0)]

reapplyRemoval(r, resource) ==
    CASE resource = "message" -> reapplyMessageRemoval(r)
      [] resource = "attachment" -> reapplyAttachmentRemoval(r)
      [] resource = "conversation" -> reapplyConversationRemoval(r)
      [] resource = "participant" -> reapplyParticipantRemoval(r)

reapplyExternalRemovalRedactions(r, removals) ==
    LET one(s, resource) ==
            IF resource \in removals THEN reapplyRemoval(s, resource) ELSE s
    IN  one(one(one(one(r, "message"), "attachment"), "conversation"),
            "participant")

-----------------------------------------------------------------------------
(* The object.                                                             *)

ProjectorInit ==
    /\ stream = [n \in Ranks |-> "none"]
    /\ rows = NoRows
    /\ authorities = {}
    /\ reapplied = {}

\* The transaction of a batch of one event.  The authority of a deletion
\* event was written to D1 before it.  A batch of several events is the same
\* steps in observed order; an event already applied is skipped, and one that
\* reuses an event id with other content is refused whole.
applyPreparedBatch(kind, n) ==
    /\ stream[n] = "none"
    /\ stream' = [stream EXCEPT ![n] = kind]
    /\ rows' = recomputeConversationSummaries(
                    projectEvent(rows, [kind |-> kind, at |-> n]))
    /\ authorities' = IF kind \in DOMAIN DeletionTarget
                      THEN authorities \cup {DeletionTarget[kind]}
                      ELSE authorities
    /\ reapplied' = {}

\* The redaction transaction that follows a batch.  It awaits D1 first, so it
\* may be lost with the object or run after later batches; the queue delivers
\* an unacknowledged batch again, so it may run at any time.  With no
\* authority it changes nothing.
reapplyRedactions ==
    /\ authorities # {}
    /\ rows' = reapplyExternalRemovalRedactions(rows, authorities)
    /\ reapplied' = authorities
    /\ UNCHANGED <<stream, authorities>>

\* The removal API, or a deletion event whose batch failed after D1 was
\* written: an authority without a tombstone.
recordRemovalAuthority(resource) ==
    /\ resource \notin authorities
    /\ authorities' = authorities \cup {resource}
    /\ UNCHANGED <<stream, rows, reapplied>>

ProjectorNext ==
    \/ \E kind \in Kinds, n \in Ranks : applyPreparedBatch(kind, n)
    \/ reapplyRedactions
    \/ \E resource \in Removable : recordRemovalAuthority(resource)

ProjectorSpec == ProjectorInit /\ [][ProjectorNext]_projectorVars

-----------------------------------------------------------------------------
(* Properties.                                                             *)

Values == Ranks \cup {0, RemovedAt}

ProjectorTypeOK ==
    /\ stream \in [Ranks -> Kinds \cup {"none"}]
    /\ authorities \subseteq Resources
    /\ reapplied \subseteq authorities
    /\ DOMAIN rows = DOMAIN NoRows
    /\ rows.tombstone \in [Resources -> Ranks \cup {0}]
    /\ \A v \in rows.versions :
          v \in [at : Ranks, kind : {"created", "edited"},
                 body : Ranks \cup {0}, editor : Ranks \cup {0}]
    /\ \A field \in DOMAIN MessageRow \ {"unread"} :
          rows.message[field] \in Values
    /\ \A field \in DOMAIN ConversationRow : rows.conversation[field] \in Values

\* The rows an observer would build by applying the same events one at a time
\* in observed order.
InObservedOrder ==
    LET upTo[n \in 0 .. MaxRank] ==
            IF n = 0 THEN NoRows
            ELSE IF stream[n] = "none" THEN upTo[n - 1]
            ELSE recomputeConversationSummaries(
                    projectEvent(upTo[n - 1], [kind |-> stream[n], at |-> n]))
    IN  upTo[MaxRank]

TombstonedResources == {x \in Resources : rows.tombstone[x] # 0}

\* What convergence is claimed for: everything except the read mark once the
\* reader is deleted, a removed reaction once its author is, the expiry of a
\* redacted attachment, and the metadata tuple of a deleted conversation.
Converging(r) ==
    LET reader  == r.tombstone["participant"] # 0
        deleted == r.tombstone["conversation"] # 0
    IN  [r EXCEPT
            !.message = IF reader
                        THEN [@ EXCEPT !.unread = FALSE, !.localRead = 0]
                        ELSE @,
            !.conversation = [@ EXCEPT
                !.unread = IF reader THEN 0 ELSE @,
                !.metadata = IF deleted THEN 0 ELSE @],
            !.reaction = IF reader /\ @.emoji = 0 THEN ReactionRow ELSE @,
            !.attachment.expires = IF r.attachment.deleted # 0 THEN 0 ELSE @]

\* Batches may be split, reordered and repeated in any way: the rows are the
\* ones the events produce in observed order.
RowsConverge ==
    authorities = TombstonedResources =>
        Converging(rows) = Converging(InObservedOrder)

\* Nothing of a deleted resource is left in any row, whichever of its events,
\* and its children's, arrive after the tombstone.
TombstonesHide ==
    LET bodies == {v.body : v \in rows.versions}
        editors == {v.editor : v \in rows.versions}
        gone(resource) == rows.tombstone[resource] # 0
    IN  /\ gone("message") \/ gone("conversation") =>
             /\ bodies \cup editors \subseteq {0}
             /\ rows.message.body = 0 /\ rows.message.sender = 0
             /\ rows.message.reply = 0 /\ ~rows.message.unread
             /\ rows.conversation.preview = 0 /\ rows.conversation.messages = 0
             /\ rows.reaction = ReactionRow /\ rows.receipt = NoRows.receipt
             /\ rows.delivery.failure = 0 /\ rows.message.failure = 0
             /\ rows.attachment.file = 0
        /\ gone("participant") =>
             /\ rows.participant.name = 0 /\ rows.message.sender = 0
             /\ editors \subseteq {0}
             /\ rows.reaction.emoji = 0 /\ rows.receipt = NoRows.receipt
             /\ rows.typing = TypingRow
        /\ gone("conversation") =>
             /\ rows.conversation.title = 0 /\ rows.participant.name = 0
             /\ rows.typing = TypingRow /\ rows.command.failure = 0
        /\ gone("attachment") => rows.attachment.file = 0

\* A message nobody removed shows its newest version and the newest delivery
\* status, and counts as read only because of a local read receipt.
MessageShowsTheNewest ==
    LET m == rows.message
        created == {v.at : v \in {w \in rows.versions : w.kind = "created"}}
    IN  m.created # 0 /\ {"message", "conversation"} \cap authorities = {} =>
            /\ m.body = readLatest(rows.versions).at
            /\ \A at \in created : at <= m.created
            /\ m.status = IF rows.delivery.at # 0 THEN rows.delivery.at
                          ELSE m.created
            /\ rows.receipt["read"] # 0 => ~m.unread
            /\ ~m.unread => m.localRead # 0

\* The projection is a function of the set of events, and the one a reader of
\* the newest event expects (the projectors' last-writer-wins conditions).
ProjectionConverges == RowsConverge /\ MessageShowsTheNewest

\* Once the redaction pass has run for an authority, no row of the resource
\* shows content, although the projection itself has no tombstone for it.
RemovalsHide ==
    /\ "message" \in reapplied =>
         /\ rows.message.body = 0 /\ rows.message.sender = 0
         /\ \A v \in rows.versions : v.body = 0 /\ v.editor = 0
         /\ rows.receipt = NoRows.receipt /\ rows.attachment.file = 0
    /\ "conversation" \in reapplied =>
         /\ rows.conversation.title = 0 /\ rows.conversation.preview = 0
         /\ rows.message.body = 0 /\ rows.attachment.file = 0
    /\ "participant" \in reapplied =>
         rows.participant.name = 0 /\ rows.message.sender = 0
    /\ "attachment" \in reapplied => rows.attachment.file = 0

\* What was hidden stays hidden, by a tombstone of the projection
\* (projector-deletion.ts) or by the removal ledger
\* (#reapplyExternalRemovalRedactions).
HiddenStaysHidden == TombstonesHide /\ RemovalsHide

\* "The redaction pass below re-applies the authority after every mutation so
\* a late event cannot resurrect content": it does not hold of the preview the
\* conversation list shows, which the pass leaves as the batch computed it.
PreviewHidesRemovals ==
    "message" \in reapplied => rows.conversation.preview = 0

\* "event hashes and LWW rules converge" for batches delivered out of order:
\* it does not hold of the unread count once the local reader is deleted.
UnreadConverges ==
    authorities = TombstonedResources =>
        rows.conversation.unread = InObservedOrder.conversation.unread
=============================================================================
