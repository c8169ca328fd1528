--------------------------- MODULE ProjectionProofs ---------------------------
(***************************************************************************)
(* Proofs about Projector, for any number of events of any kinds, applied  *)
(* in any order, with any removals of the API and any number of redaction  *)
(* passes between them.                                                    *)
(*                                                                         *)
(* No row shows what a tombstone or a re-applied removal hides.  The       *)
(* inductive invariant says of each row, the ones whose target has not     *)
(* arrived included, what the tombstones ask of it.                        *)
(*                                                                         *)
(* A message nobody removed shows its newest version, the newest delivery  *)
(* status and the local read mark.  The invariant relates the message row  *)
(* to the versions, the delivery and the receipt it was reconciled with.   *)
(***************************************************************************)
EXTENDS Projector, TLAPS

-----------------------------------------------------------------------------
(* The projection of a conversation.                                        *)

Conversations ==
    [ shell : Nat, title : Nat, metadata : Nat, deleted : Nat, preview : Nat,
      activity : Nat, unread : Nat, messages : Nat, attachments : Nat ]

Participants == [ at : Nat, name : Nat, deleted : Nat ]

Messages ==
    [ created : Nat, sender : Nat, body : Nat, reply : Nat, status : Nat,
      unread : BOOLEAN, localRead : Nat, current : Nat, edited : Nat,
      deleted : Nat, attachments : Nat, failure : Nat, delivery : Nat ]

Versions == [ at : Nat, kind : {"created", "edited"}, body : Nat, editor : Nat ]

Reactions == [ at : Nat, emoji : Nat ]

Typings == [ at : Nat, typing : BOOLEAN ]

Attachments == [ at : Nat, file : Nat, expires : Nat, deleted : Nat ]

CommandRows == [ at : Nat, created : Nat, failure : Nat ]

DeliveryRows == [ at : Nat, failure : Nat ]

ReceiptRows == [ {"read", "delivered"} -> Nat ]

Tombstones == [ Resources -> Nat ]

ProjectionRows ==
    [ conversation : Conversations, participant : Participants,
      message : Messages, versions : SUBSET Versions, reaction : Reactions,
      receipt : ReceiptRows, typing : Typings, attachment : Attachments,
      command : CommandRows, delivery : DeliveryRows, marker : Nat,
      tombstone : Tombstones ]

\* What the tombstones t ask of each row.

OfMessage(t) == t["message"] # 0 \/ t["conversation"] # 0

ConversationHides(c, t) ==
    /\ t["conversation"] # 0 => c.title = 0
    /\ (\E x \in Resources : t[x] # 0) => c.shell # 0

SummaryHides(c, t) == OfMessage(t) => c.preview = 0 /\ c.messages = 0

ParticipantHides(p, t) ==
    /\ p.at = 0 => p.name = 0
    /\ t["participant"] # 0 \/ t["conversation"] # 0 => p.name = 0

Scrubbed(m) ==
    /\ m.body = 0 /\ m.sender = 0 /\ m.reply = 0 /\ m.unread = FALSE /\ m.failure = 0

MessageHides(m, t) ==
    /\ m.created = 0 => Scrubbed(m)
    /\ OfMessage(t) => Scrubbed(m) /\ (m.created # 0 => m.deleted # 0)
    /\ t["participant"] # 0 => m.sender = 0

HasLatest(versions) ==
    versions # {} => \E v \in versions : \A w \in versions : v.at >= w.at

VersionsHide(versions, t) ==
    /\ HasLatest(versions)
    /\ \A v \in versions :
          /\ OfMessage(t) => v.body = 0 /\ v.editor = 0
          /\ t["participant"] # 0 => v.editor = 0

ReactionHides(x, t) ==
    /\ OfMessage(t) => x = ReactionRow
    /\ t["participant"] # 0 => x.emoji = 0

ReceiptHides(x, t) == OfMessage(t) \/ t["participant"] # 0 => x = NoRows.receipt

TypingHides(x, t) == t["conversation"] # 0 \/ t["participant"] # 0 => x = TypingRow

AttachmentHides(a, t) ==
    /\ a.at = 0 => a.file = 0
    /\ OfMessage(t) \/ t["attachment"] # 0 => a.file = 0

CommandHides(x, t) == t["conversation"] # 0 => x.failure = 0

DeliveryHides(x, t) == OfMessage(t) => x.failure = 0

RowsHide(r) ==
    /\ r \in ProjectionRows
    /\ ConversationHides(r.conversation, r.tombstone)
    /\ ParticipantHides(r.participant, r.tombstone)
    /\ MessageHides(r.message, r.tombstone)
    /\ VersionsHide(r.versions, r.tombstone)
    /\ ReactionHides(r.reaction, r.tombstone)
    /\ ReceiptHides(r.receipt, r.tombstone)
    /\ TypingHides(r.typing, r.tombstone)
    /\ AttachmentHides(r.attachment, r.tombstone)
    /\ CommandHides(r.command, r.tombstone)
    /\ DeliveryHides(r.delivery, r.tombstone)

\* The inductive invariant: every row, the ones of targets that have not
\* arrived included, hides what the tombstones ask for.
ProjectorInv ==
    /\ RowsHide(rows) /\ SummaryHides(rows.conversation, rows.tombstone)
    /\ authorities \subseteq Resources /\ RemovalsHide


LEMMA RanksPositive == \A n \in Ranks : n \in Nat /\ n # 0
  BY ProjectorConstants DEF Ranks

LEMMA LaterType ==
    ASSUME NEW a \in Nat, NEW b \in Nat
    PROVE  /\ Later(a, b) \in Nat
           /\ Later(a, b) # 0 <=> (a # 0 \/ b # 0)
  BY DEF Later

LEMMA RedactedType ==
    ASSUME NEW r \in ProjectionRows
    PROVE  /\ messageIsRedacted(r) \in Nat
           /\ messageIsRedacted(r) # 0 <=> OfMessage(r.tombstone)
<1>1. r.tombstone["message"] \in Nat /\ r.tombstone["conversation"] \in Nat
  BY Zenon DEF ProjectionRows, Tombstones, Resources
<1> QED BY Zenon, <1>1, LaterType DEF messageIsRedacted, OfMessage

\* One row of a projection that hides is replaced by one that hides.

LEMMA WithConversation ==
    ASSUME NEW r, RowsHide(r), NEW x \in Conversations, ConversationHides(x, r.tombstone),
           NEW s, s = [r EXCEPT !.conversation = x]
    PROVE  RowsHide(s) /\ s.tombstone = r.tombstone /\ s.conversation = x
<1>1. r \in ProjectionRows
  BY Zenon DEF RowsHide
<1>2. s \in ProjectionRows
  BY Zenon, <1>1 DEF ProjectionRows
<1>3. s.tombstone = r.tombstone /\ s.conversation = x
  BY Zenon, <1>1 DEF ProjectionRows
<1>4. /\ s.participant = r.participant
      /\ s.message = r.message
      /\ s.versions = r.versions
      /\ s.reaction = r.reaction
      /\ s.receipt = r.receipt
      /\ s.typing = r.typing
      /\ s.attachment = r.attachment
      /\ s.command = r.command
      /\ s.delivery = r.delivery
  BY Zenon, <1>1 DEF ProjectionRows
<1> QED BY Zenon, <1>2, <1>3, <1>4 DEF RowsHide

LEMMA WithParticipant ==
    ASSUME NEW r, RowsHide(r), NEW x \in Participants, ParticipantHides(x, r.tombstone),
           NEW s, s = [r EXCEPT !.participant = x]
    PROVE  RowsHide(s) /\ s.tombstone = r.tombstone /\ s.participant = x
<1>1. r \in ProjectionRows
  BY Zenon DEF RowsHide
<1>2. s \in ProjectionRows
  BY Zenon, <1>1 DEF ProjectionRows
<1>3. s.tombstone = r.tombstone /\ s.participant = x
  BY Zenon, <1>1 DEF ProjectionRows
<1>4. /\ s.conversation = r.conversation
      /\ s.message = r.message
      /\ s.versions = r.versions
      /\ s.reaction = r.reaction
      /\ s.receipt = r.receipt
      /\ s.typing = r.typing
      /\ s.attachment = r.attachment
      /\ s.command = r.command
      /\ s.delivery = r.delivery
  BY Zenon, <1>1 DEF ProjectionRows
<1> QED BY Zenon, <1>2, <1>3, <1>4 DEF RowsHide

LEMMA WithMessage ==
    ASSUME NEW r, RowsHide(r), NEW x \in Messages, MessageHides(x, r.tombstone),
           NEW s, s = [r EXCEPT !.message = x]
    PROVE  RowsHide(s) /\ s.tombstone = r.tombstone /\ s.message = x
<1>1. r \in ProjectionRows
  BY Zenon DEF RowsHide
<1>2. s \in ProjectionRows
  BY Zenon, <1>1 DEF ProjectionRows
<1>3. s.tombstone = r.tombstone /\ s.message = x
  BY Zenon, <1>1 DEF ProjectionRows
<1>4. /\ s.conversation = r.conversation
      /\ s.participant = r.participant
      /\ s.versions = r.versions
      /\ s.reaction = r.reaction
      /\ s.receipt = r.receipt
      /\ s.typing = r.typing
      /\ s.attachment = r.attachment
      /\ s.command = r.command
      /\ s.delivery = r.delivery
  BY Zenon, <1>1 DEF ProjectionRows
<1> QED BY Zenon, <1>2, <1>3, <1>4 DEF RowsHide

LEMMA WithVersions ==
    ASSUME NEW r, RowsHide(r), NEW x \in SUBSET Versions, VersionsHide(x, r.tombstone),
           NEW s, s = [r EXCEPT !.versions = x]
    PROVE  RowsHide(s) /\ s.tombstone = r.tombstone /\ s.versions = x
<1>1. r \in ProjectionRows
  BY Zenon DEF RowsHide
<1>2. s \in ProjectionRows
  BY Zenon, <1>1 DEF ProjectionRows
<1>3. s.tombstone = r.tombstone /\ s.versions = x
  BY Zenon, <1>1 DEF ProjectionRows
<1>4. /\ s.conversation = r.conversation
      /\ s.participant = r.participant
      /\ s.message = r.message
      /\ s.reaction = r.reaction
      /\ s.receipt = r.receipt
      /\ s.typing = r.typing
      /\ s.attachment = r.attachment
      /\ s.command = r.command
      /\ s.delivery = r.delivery
  BY Zenon, <1>1 DEF ProjectionRows
<1> QED BY Zenon, <1>2, <1>3, <1>4 DEF RowsHide

LEMMA WithReaction ==
    ASSUME NEW r, RowsHide(r), NEW x \in Reactions, ReactionHides(x, r.tombstone),
           NEW s, s = [r EXCEPT !.reaction = x]
    PROVE  RowsHide(s) /\ s.tombstone = r.tombstone /\ s.reaction = x
<1>1. r \in ProjectionRows
  BY Zenon DEF RowsHide
<1>2. s \in ProjectionRows
  BY Zenon, <1>1 DEF ProjectionRows
<1>3. s.tombstone = r.tombstone /\ s.reaction = x
  BY Zenon, <1>1 DEF ProjectionRows
<1>4. /\ s.conversation = r.conversation
      /\ s.participant = r.participant
      /\ s.message = r.message
      /\ s.versions = r.versions
      /\ s.receipt = r.receipt
      /\ s.typing = r.typing
      /\ s.attachment = r.attachment
      /\ s.command = r.command
      /\ s.delivery = r.delivery
  BY Zenon, <1>1 DEF ProjectionRows
<1> QED BY Zenon, <1>2, <1>3, <1>4 DEF RowsHide

LEMMA WithReceipt ==
    ASSUME NEW r, RowsHide(r), NEW x \in ReceiptRows, ReceiptHides(x, r.tombstone),
           NEW s, s = [r EXCEPT !.receipt = x]
    PROVE  RowsHide(s) /\ s.tombstone = r.tombstone /\ s.receipt = x
<1>1. r \in ProjectionRows
  BY Zenon DEF RowsHide
<1>2. s \in ProjectionRows
  BY Zenon, <1>1 DEF ProjectionRows
<1>3. s.tombstone = r.tombstone /\ s.receipt = x
  BY Zenon, <1>1 DEF ProjectionRows
<1>4. /\ s.conversation = r.conversation
      /\ s.participant = r.participant
      /\ s.message = r.message
      /\ s.versions = r.versions
      /\ s.reaction = r.reaction
      /\ s.typing = r.typing
      /\ s.attachment = r.attachment
      /\ s.command = r.command
      /\ s.delivery = r.delivery
  BY Zenon, <1>1 DEF ProjectionRows
<1> QED BY Zenon, <1>2, <1>3, <1>4 DEF RowsHide

LEMMA WithTyping ==
    ASSUME NEW r, RowsHide(r), NEW x \in Typings, TypingHides(x, r.tombstone),
           NEW s, s = [r EXCEPT !.typing = x]
    PROVE  RowsHide(s) /\ s.tombstone = r.tombstone /\ s.typing = x
<1>1. r \in ProjectionRows
  BY Zenon DEF RowsHide
<1>2. s \in ProjectionRows
  BY Zenon, <1>1 DEF ProjectionRows
<1>3. s.tombstone = r.tombstone /\ s.typing = x
  BY Zenon, <1>1 DEF ProjectionRows
<1>4. /\ s.conversation = r.conversation
      /\ s.participant = r.participant
      /\ s.message = r.message
      /\ s.versions = r.versions
      /\ s.reaction = r.reaction
      /\ s.receipt = r.receipt
      /\ s.attachment = r.attachment
      /\ s.command = r.command
      /\ s.delivery = r.delivery
  BY Zenon, <1>1 DEF ProjectionRows
<1> QED BY Zenon, <1>2, <1>3, <1>4 DEF RowsHide

LEMMA WithAttachment ==
    ASSUME NEW r, RowsHide(r), NEW x \in Attachments, AttachmentHides(x, r.tombstone),
           NEW s, s = [r EXCEPT !.attachment = x]
    PROVE  RowsHide(s) /\ s.tombstone = r.tombstone /\ s.attachment = x
<1>1. r \in ProjectionRows
  BY Zenon DEF RowsHide
<1>2. s \in ProjectionRows
  BY Zenon, <1>1 DEF ProjectionRows
<1>3. s.tombstone = r.tombstone /\ s.attachment = x
  BY Zenon, <1>1 DEF ProjectionRows
<1>4. /\ s.conversation = r.conversation
      /\ s.participant = r.participant
      /\ s.message = r.message
      /\ s.versions = r.versions
      /\ s.reaction = r.reaction
      /\ s.receipt = r.receipt
      /\ s.typing = r.typing
      /\ s.command = r.command
      /\ s.delivery = r.delivery
  BY Zenon, <1>1 DEF ProjectionRows
<1> QED BY Zenon, <1>2, <1>3, <1>4 DEF RowsHide

LEMMA WithCommand ==
    ASSUME NEW r, RowsHide(r), NEW x \in CommandRows, CommandHides(x, r.tombstone),
           NEW s, s = [r EXCEPT !.command = x]
    PROVE  RowsHide(s) /\ s.tombstone = r.tombstone /\ s.command = x
<1>1. r \in ProjectionRows
  BY Zenon DEF RowsHide
<1>2. s \in ProjectionRows
  BY Zenon, <1>1 DEF ProjectionRows
<1>3. s.tombstone = r.tombstone /\ s.command = x
  BY Zenon, <1>1 DEF ProjectionRows
<1>4. /\ s.conversation = r.conversation
      /\ s.participant = r.participant
      /\ s.message = r.message
      /\ s.versions = r.versions
      /\ s.reaction = r.reaction
      /\ s.receipt = r.receipt
      /\ s.typing = r.typing
      /\ s.attachment = r.attachment
      /\ s.delivery = r.delivery
  BY Zenon, <1>1 DEF ProjectionRows
<1> QED BY Zenon, <1>2, <1>3, <1>4 DEF RowsHide

LEMMA WithDelivery ==
    ASSUME NEW r, RowsHide(r), NEW x \in DeliveryRows, DeliveryHides(x, r.tombstone),
           NEW s, s = [r EXCEPT !.delivery = x]
    PROVE  RowsHide(s) /\ s.tombstone = r.tombstone /\ s.delivery = x
<1>1. r \in ProjectionRows
  BY Zenon DEF RowsHide
<1>2. s \in ProjectionRows
  BY Zenon, <1>1 DEF ProjectionRows
<1>3. s.tombstone = r.tombstone /\ s.delivery = x
  BY Zenon, <1>1 DEF ProjectionRows
<1>4. /\ s.conversation = r.conversation
      /\ s.participant = r.participant
      /\ s.message = r.message
      /\ s.versions = r.versions
      /\ s.reaction = r.reaction
      /\ s.receipt = r.receipt
      /\ s.typing = r.typing
      /\ s.attachment = r.attachment
      /\ s.command = r.command
  BY Zenon, <1>1 DEF ProjectionRows
<1> QED BY Zenon, <1>2, <1>3, <1>4 DEF RowsHide

-----------------------------------------------------------------------------
(* Handlers of one row *)

LEMMA ShellHides ==
    ASSUME NEW r, RowsHide(r), NEW e, e.at \in Ranks, NEW s, s = ensureConversationShell(r, e)
    PROVE  RowsHide(s) /\ s.tombstone = r.tombstone /\ s.conversation.shell # 0
<1>1. r \in ProjectionRows /\ r.conversation \in Conversations /\ e.at \in Nat /\ e.at # 0
  BY Zenon, RanksPositive DEF RowsHide, ProjectionRows
<1>2. CASE r.conversation.shell = 0
  <2> DEFINE told == IF e.kind = "conversation.updated" THEN e.at ELSE 0
             x == [r.conversation EXCEPT !.shell = e.at, !.title = told, !.metadata = told]
  <2>1. s = [r EXCEPT !.conversation = x]
    BY Zenon, <1>1, <1>2 DEF ensureConversationShell, ProjectionRows
  <2>2. told \in Nat
    BY Zenon, <1>1
  <2>3. x \in Conversations /\ x.shell # 0
    BY Zenon, <1>1, <2>2 DEF Conversations
  <2>4. ConversationHides(x, r.tombstone)
    BY Zenon, <1>2, <2>3 DEF ConversationHides, RowsHide, Resources
  <2> HIDE DEF x
  <2>5. \A y : y = [r EXCEPT !.conversation = x] =>
               RowsHide(y) /\ y.tombstone = r.tombstone /\ y.conversation = x
    BY Zenon, <2>3, <2>4, WithConversation
  <2> QED BY Zenon, <2>1, <2>3, <2>5
<1>3. CASE r.conversation.shell # 0 /\ s # r
  <2> DEFINE x == [r.conversation EXCEPT !.shell = e.at]
  <2>1. s = [r EXCEPT !.conversation = x]
    BY <1>1, <1>3 DEF ensureConversationShell, ProjectionRows
  <2>2. x \in Conversations /\ x.shell # 0 /\ x.title = r.conversation.title
    BY Zenon, <1>1 DEF Conversations
  <2>3. ConversationHides(x, r.tombstone)
    BY Zenon, <2>2 DEF ConversationHides, RowsHide
  <2> HIDE DEF x
  <2>5. \A y : y = [r EXCEPT !.conversation = x] =>
               RowsHide(y) /\ y.tombstone = r.tombstone /\ y.conversation = x
    BY Zenon, <2>2, <2>3, WithConversation
  <2> QED BY Zenon, <2>1, <2>2, <2>5
<1> QED BY Zenon, <1>2, <1>3

LEMMA ConversationUpdated ==
    ASSUME NEW r, RowsHide(r), NEW e, e.at \in Ranks, NEW s, s = projectConversationUpdated(r, e)
    PROVE  RowsHide(s)
<1>1. r \in ProjectionRows /\ r.conversation \in Conversations /\ e.at \in Nat
  BY Zenon, RanksPositive DEF RowsHide, ProjectionRows
<1>2. CASE s # r
  <2> DEFINE x == [r.conversation EXCEPT !.title = e.at, !.metadata = e.at]
  <2>1. r.tombstone["conversation"] = 0 /\ s = [r EXCEPT !.conversation = x]
    BY Zenon, <1>1, <1>2 DEF projectConversationUpdated, ProjectionRows
  <2>2. x \in Conversations /\ x.shell = r.conversation.shell
    BY Zenon, <1>1 DEF Conversations
  <2>3. ConversationHides(x, r.tombstone)
    BY Zenon, <2>1, <2>2 DEF ConversationHides, RowsHide
  <2> HIDE DEF x
  <2> QED BY Zenon, <2>1, <2>2, <2>3, WithConversation
<1> QED BY Zenon, <1>2

LEMMA ParticipantUpdated ==
    ASSUME NEW r, RowsHide(r), NEW e, e.at \in Ranks, NEW s, s = projectParticipantUpdated(r, e)
    PROVE  RowsHide(s)
<1>1. r \in ProjectionRows /\ r.participant \in Participants /\ e.at \in Nat /\ e.at # 0
  BY Zenon, RanksPositive DEF RowsHide, ProjectionRows
<1>2. r.tombstone["participant"] \in Nat /\ r.tombstone["conversation"] \in Nat /\ r.participant.deleted \in Nat
  BY Zenon, <1>1 DEF ProjectionRows, Tombstones, Resources, Participants
<1>3. CASE s # r
  <2> DEFINE deletion == Later(r.tombstone["participant"], r.tombstone["conversation"])
             name == IF r.participant.deleted # 0 \/ deletion # 0 THEN 0 ELSE e.at
             deleted == IF r.participant.deleted # 0 THEN r.participant.deleted ELSE deletion
             x == [at |-> e.at, name |-> name, deleted |-> deleted]
  <2>1. s = [r EXCEPT !.participant = x]
    BY Zenon, <1>3 DEF projectParticipantUpdated
  <2>2. name \in Nat /\ deleted \in Nat
    BY Zenon, <1>1, <1>2, LaterType
  <2>3. x \in Participants
    BY Zenon, <1>1, <2>2 DEF Participants
  <2>4. r.tombstone["participant"] # 0 \/ r.tombstone["conversation"] # 0 => name = 0
    BY Zenon, <1>2, LaterType
  <2>5. x.at = e.at /\ x.name = name
    BY Zenon
  <2>6. ParticipantHides(x, r.tombstone)
    BY Zenon, <1>1, <2>4, <2>5 DEF ParticipantHides
  <2> HIDE DEF x
  <2> QED BY Zenon, <2>1, <2>3, <2>6, WithParticipant
<1> QED BY Zenon, <1>3

LEMMA ReactionChanged ==
    ASSUME NEW r, RowsHide(r), NEW e, e.at \in Ranks, NEW s,
           s = projectReactionAdded(r, e) \/ s = projectReactionRemoved(r, e)
    PROVE  RowsHide(s)
<1>1. r \in ProjectionRows /\ e.at \in Nat
  BY Zenon, RanksPositive DEF RowsHide, ProjectionRows
<1>2. ReactionRow \in Reactions /\ ReactionRow.emoji = 0
  BY Zenon DEF ReactionRow, Reactions
<1>3. CASE s = [r EXCEPT !.reaction = ReactionRow]
  BY Zenon, <1>2, <1>3, WithReaction DEF ReactionHides
<1>4. ASSUME NEW m \in Nat, s = [r EXCEPT !.reaction = [at |-> e.at, emoji |-> m]],
             ~OfMessage(r.tombstone), m = 0 \/ r.tombstone["participant"] = 0
      PROVE  RowsHide(s)
  <2>1. PICK x : x = [at |-> e.at, emoji |-> m]
    BY Zenon
  <2>2. x \in Reactions /\ x.emoji = m
    BY Zenon, <1>1, <2>1 DEF Reactions
  <2>3. ReactionHides(x, r.tombstone)
    BY Zenon, <1>4, <2>2 DEF ReactionHides
  <2> QED BY Zenon, <1>4, <2>1, <2>2, <2>3, WithReaction
<1>5. CASE s = projectReactionAdded(r, e)
  BY Zenon, <1>1, <1>3, <1>4, <1>5, RedactedType DEF projectReactionAdded
<1>6. CASE s = projectReactionRemoved(r, e)
  BY Zenon, <1>1, <1>3, <1>4, <1>6, RedactedType DEF projectReactionRemoved
<1> QED BY Zenon, <1>5, <1>6

LEMMA TypingChanged ==
    ASSUME NEW r, RowsHide(r), NEW e, e.at \in Ranks, NEW s, s = projectTyping(r, e)
    PROVE  RowsHide(s)
<1>1. r \in ProjectionRows /\ e.at \in Nat
  BY Zenon, RanksPositive DEF RowsHide, ProjectionRows
<1>2. CASE s = [r EXCEPT !.typing = TypingRow]
  <2>1. TypingRow \in Typings
    BY Zenon DEF TypingRow, Typings
  <2> QED BY Zenon, <1>2, <2>1, WithTyping DEF TypingHides
<1>3. CASE s # r /\ ~(r.tombstone["conversation"] # 0 \/ r.tombstone["participant"] # 0)
  <2>1. PICK x : x = [at |-> e.at, typing |-> e.kind = "typing.started"]
    BY Zenon
  <2>2. x \in Typings
    BY Zenon, <1>1, <2>1 DEF Typings
  <2>3. s = [r EXCEPT !.typing = x]
    BY Zenon, <1>3, <2>1 DEF projectTyping
  <2> QED BY Zenon, <1>3, <2>2, <2>3, WithTyping DEF TypingHides
<1> QED BY Zenon, <1>2, <1>3 DEF projectTyping

LEMMA CommandUpdated ==
    ASSUME NEW r, RowsHide(r), NEW e, e.at \in Ranks, NEW s, s = projectCommandUpdated(r, e)
    PROVE  RowsHide(s)
<1>1. r \in ProjectionRows /\ r.command \in CommandRows /\ e.at \in Nat
  BY Zenon, RanksPositive DEF RowsHide, ProjectionRows
<1>2. r.command.at \in Nat /\ r.command.created \in Nat /\ r.command.failure \in Nat
  BY Zenon, <1>1 DEF CommandRows
<1> DEFINE first == IF r.command.at = 0 \/ OccurredMs[e.at] < OccurredMs[r.command.created]
                      THEN e.at ELSE r.command.created
           failure == IF r.tombstone["conversation"] # 0 THEN 0 ELSE Later(r.command.failure, e.at)
           x == [at |-> Later(r.command.at, e.at), created |-> first, failure |-> failure]
<1>3. s = [r EXCEPT !.command = x]
  BY Zenon DEF projectCommandUpdated
<1>4. first \in Nat /\ failure \in Nat /\ Later(r.command.at, e.at) \in Nat
  BY Zenon, <1>1, <1>2, LaterType
<1>5. x \in CommandRows
  BY Zenon, <1>4 DEF CommandRows
<1>6. CommandHides(x, r.tombstone)
  BY Zenon DEF CommandHides
<1> HIDE DEF x
<1> QED BY Zenon, <1>3, <1>5, <1>6, WithCommand

LEMMA MarkerUpdated ==
    ASSUME NEW r, RowsHide(r), NEW e, e.at \in Ranks, NEW s, s = projectEventMarker(r, e)
    PROVE  RowsHide(s)
<1>1. r \in ProjectionRows /\ e.at \in Nat /\ r.marker \in Nat
  BY Zenon, RanksPositive DEF RowsHide, ProjectionRows
<1>2. PICK x \in Nat : x = Later(r.marker, e.at)
  BY Zenon, <1>1, LaterType
<1>3. s = [r EXCEPT !.marker = x]
  BY Zenon, <1>2 DEF projectEventMarker
<1>4. s \in ProjectionRows
  BY Zenon, <1>1, <1>3 DEF ProjectionRows
<1>5. /\ s.tombstone = r.tombstone /\ s.conversation = r.conversation /\ s.participant = r.participant
      /\ s.message = r.message /\ s.versions = r.versions /\ s.reaction = r.reaction /\ s.receipt = r.receipt
      /\ s.typing = r.typing /\ s.attachment = r.attachment /\ s.command = r.command /\ s.delivery = r.delivery
  BY Zenon, <1>1, <1>3 DEF ProjectionRows
<1> QED BY Zenon, <1>4, <1>5 DEF RowsHide

-----------------------------------------------------------------------------
(* Redaction *)

\* A set with a version for every version of the other, of the same rank
SameRanks(versions, others) ==
    /\ \A v \in versions : \E w \in others : v.at = w.at
    /\ \A w \in others : \E v \in versions : v.at = w.at

LEMMA SameLatest ==
    ASSUME NEW versions, NEW others, SameRanks(others, versions), HasLatest(versions)
    PROVE  HasLatest(others)
<1>1. SUFFICES ASSUME others # {} PROVE \E v \in others : \A w \in others : v.at >= w.at
  BY Zenon DEF HasLatest
<1>2. versions # {}
  BY Zenon, <1>1 DEF SameRanks
<1>3. PICK v \in versions : \A w \in versions : v.at >= w.at
  BY Zenon, <1>2 DEF HasLatest
<1>4. PICK x \in others : x.at = v.at
  BY Zenon DEF SameRanks
<1> QED BY Zenon, <1>3, <1>4 DEF SameRanks

LEMMA BlankVersions ==
    ASSUME NEW versions \in SUBSET Versions, NEW blank,
           blank = {[v EXCEPT !.body = 0, !.editor = 0] : v \in versions}
    PROVE  /\ blank \in SUBSET Versions /\ SameRanks(blank, versions)
           /\ \A v \in blank : v.body = 0 /\ v.editor = 0
<1>1. \A v \in Versions : /\ [v EXCEPT !.body = 0, !.editor = 0] \in Versions
                          /\ [v EXCEPT !.body = 0, !.editor = 0].body = 0
                          /\ [v EXCEPT !.body = 0, !.editor = 0].editor = 0
                          /\ [v EXCEPT !.body = 0, !.editor = 0].at = v.at
  BY Zenon DEF Versions
<1>2. blank \in SUBSET Versions
  BY Zenon, <1>1
<1>3. ASSUME NEW v \in blank PROVE v.body = 0 /\ v.editor = 0 /\ \E w \in versions : v.at = w.at
  <2>1. PICK w \in versions : v = [w EXCEPT !.body = 0, !.editor = 0]
    BY Zenon
  <2>2. w \in Versions
    BY Zenon
  <2> QED BY Zenon, <1>1, <2>1, <2>2
<1>4. ASSUME NEW w \in versions PROVE \E v \in blank : v.at = w.at
  <2>1. [w EXCEPT !.body = 0, !.editor = 0] \in blank /\ w \in Versions
    BY Zenon
  <2> QED BY Zenon, <1>1, <2>1
<1> QED BY Zenon, <1>2, <1>3, <1>4 DEF SameRanks

EditorsBlank(plain, versions) ==
    \A v \in plain : v.editor = 0 /\ \E w \in versions : v.body = w.body

LEMMA PlainVersions ==
    ASSUME NEW versions \in SUBSET Versions, NEW plain,
           plain = {[v EXCEPT !.editor = 0] : v \in versions}
    PROVE  /\ plain \in SUBSET Versions /\ SameRanks(plain, versions)
           /\ EditorsBlank(plain, versions)
<1>1. \A v \in Versions : /\ [v EXCEPT !.editor = 0] \in Versions
                          /\ [v EXCEPT !.editor = 0].body = v.body
                          /\ [v EXCEPT !.editor = 0].editor = 0
                          /\ [v EXCEPT !.editor = 0].at = v.at
  BY Zenon DEF Versions
<1>2. plain \in SUBSET Versions
  BY Zenon, <1>1
<1>3. ASSUME NEW v \in plain
      PROVE  v.editor = 0 /\ \E w \in versions : v.body = w.body /\ v.at = w.at
  <2>1. PICK w \in versions : v = [w EXCEPT !.editor = 0]
    BY Zenon
  <2>2. w \in Versions
    BY Zenon
  <2> QED BY Zenon, <1>1, <2>1, <2>2
<1>4. ASSUME NEW w \in versions PROVE \E v \in plain : v.at = w.at
  <2>1. [w EXCEPT !.editor = 0] \in plain /\ w \in Versions
    BY Zenon
  <2> QED BY Zenon, <1>1, <2>1
<1> QED BY Zenon, <1>2, <1>3, <1>4 DEF SameRanks, EditorsBlank

LEMMA EmptyRows ==
    /\ ReactionRow \in Reactions /\ ReactionRow.emoji = 0 /\ TypingRow \in Typings
    /\ NoRows.receipt \in ReceiptRows /\ \A type \in {"read", "delivered"} : NoRows.receipt[type] = 0
<1>1. ReactionRow \in Reactions /\ ReactionRow.emoji = 0 /\ TypingRow \in Typings
  BY Zenon DEF ReactionRow, Reactions, TypingRow, Typings
<1>2. NoRows.receipt = [type \in {"read", "delivered"} |-> 0]
  BY Zenon DEF NoRows
<1>3. NoRows.receipt \in ReceiptRows /\ \A type \in {"read", "delivered"} : NoRows.receipt[type] = 0
  BY <1>2 DEF ReceiptRows
<1> QED BY Zenon, <1>1, <1>3

\* What redactMessage leaves of each row
MessageRedacted(r, s, t) ==
    /\ s \in ProjectionRows /\ s.tombstone = r.tombstone
    /\ s.conversation = r.conversation /\ s.participant = r.participant
    /\ s.typing = r.typing /\ s.command = r.command
    /\ SameRanks(s.versions, r.versions) /\ \A v \in s.versions : v.body = 0 /\ v.editor = 0
    /\ s.reaction = ReactionRow /\ s.receipt = NoRows.receipt /\ s.delivery.failure = 0
    /\ r.attachment.at = 0 => s.attachment = r.attachment
    /\ r.attachment.at # 0 => s.attachment.at # 0 /\ s.attachment.file = 0
    /\ r.message.created = 0 => s.message = r.message
    /\ r.message.created # 0 => /\ Scrubbed(s.message) /\ s.message.deleted = t
                                /\ s.message.created = r.message.created

LEMMA RedactMessage ==
    ASSUME NEW r \in ProjectionRows, NEW t \in Nat, NEW s, s = redactMessage(r, t)
    PROVE  MessageRedacted(r, s, t)
<1>1. /\ r.versions \in SUBSET Versions /\ r.attachment \in Attachments /\ r.delivery \in DeliveryRows
      /\ r.message \in Messages /\ r.tombstone["attachment"] \in Nat /\ r.message.current \in Nat
  BY Zenon DEF ProjectionRows, Tombstones, Resources, Messages
<1>2. PICK V : V = {[v EXCEPT !.body = 0, !.editor = 0] : v \in r.versions}
  BY Zenon
<1>3. V \in SUBSET Versions /\ SameRanks(V, r.versions) /\ \A v \in V : v.body = 0 /\ v.editor = 0
  BY ZenonT(60), <1>1, <1>2, BlankVersions
<1>4. PICK A : A = IF r.attachment.at = 0 THEN r.attachment
                   ELSE [r.attachment EXCEPT !.file = 0, !.expires = 0,
                                             !.deleted = Later(r.tombstone["attachment"], t)]
  BY Zenon
<1>5. /\ A \in Attachments /\ (r.attachment.at = 0 => A = r.attachment)
      /\ r.attachment.at # 0 => A.at = r.attachment.at /\ A.file = 0
  BY Zenon, <1>1, <1>4, LaterType DEF Attachments
<1>6. PICK D : D = [r.delivery EXCEPT !.failure = 0]
  BY Zenon
<1>7. D \in DeliveryRows /\ D.failure = 0
  BY Zenon, <1>1, <1>6 DEF DeliveryRows
<1>8. PICK h : h = [r EXCEPT !.versions = V, !.reaction = ReactionRow, !.receipt = NoRows.receipt,
                             !.delivery = D, !.attachment = A]
  BY Zenon
<1>9. h \in ProjectionRows /\ h.message = r.message
  BY Zenon, <1>3, <1>5, <1>7, <1>8, EmptyRows DEF ProjectionRows
<1>10. /\ h.versions = V /\ h.reaction = ReactionRow /\ h.receipt = NoRows.receipt /\ h.delivery = D
       /\ h.attachment = A
  BY Zenon, <1>8 DEF ProjectionRows
<1>11. /\ h.tombstone = r.tombstone /\ h.conversation = r.conversation /\ h.participant = r.participant
       /\ h.typing = r.typing /\ h.command = r.command
  BY Zenon, <1>8 DEF ProjectionRows
<1>12. PICK M : M = [r.message EXCEPT !.sender = 0, !.body = 0, !.reply = 0,
                          !.unread = FALSE, !.localRead = 0, !.edited = 0,
                          !.deleted = t, !.attachments = 0, !.failure = 0,
                          !.current = Later(t, r.message.current)]
  BY Zenon
<1>13. M \in Messages
  BY ZenonT(60), <1>1, <1>12, LaterType DEF Messages
<1>14. Scrubbed(M) /\ M.deleted = t /\ M.created = r.message.created
  BY ZenonT(60), <1>1, <1>12 DEF Messages, Scrubbed
<1>15. s = IF r.message.created = 0 THEN h ELSE [h EXCEPT !.message = M]
  BY Zenon, <1>2, <1>4, <1>6, <1>8, <1>9, <1>12 DEF redactMessage
<1>16. CASE r.message.created = 0
  BY Zenon, <1>3, <1>5, <1>7, <1>9, <1>10, <1>11, <1>15, <1>16 DEF MessageRedacted
<1>17. CASE r.message.created # 0
  <2>1. s = [h EXCEPT !.message = M]
    BY Zenon, <1>15, <1>17
  <2>2. s \in ProjectionRows /\ s.message = M
    BY Zenon, <1>9, <1>13, <2>1 DEF ProjectionRows
  <2>3. /\ s.versions = h.versions /\ s.reaction = h.reaction /\ s.receipt = h.receipt /\ s.delivery = h.delivery
        /\ s.attachment = h.attachment /\ s.tombstone = h.tombstone /\ s.conversation = h.conversation
        /\ s.participant = h.participant /\ s.typing = h.typing /\ s.command = h.command
    BY Zenon, <1>9, <2>1 DEF ProjectionRows
  <2> QED BY Zenon, <1>3, <1>5, <1>7, <1>10, <1>11, <1>14, <1>17, <2>2, <2>3 DEF MessageRedacted
<1> QED BY Zenon, <1>16, <1>17

\* The rows of m are those of r; its tombstones may be other than r's for x.
Marked(r, m, x) ==
    /\ m \in ProjectionRows
    /\ m.conversation = r.conversation /\ m.participant = r.participant /\ m.message = r.message
    /\ m.versions = r.versions /\ m.reaction = r.reaction /\ m.receipt = r.receipt /\ m.typing = r.typing
    /\ m.attachment = r.attachment /\ m.command = r.command /\ m.delivery = r.delivery
    /\ \A y \in Resources : y # x => m.tombstone[y] = r.tombstone[y]
    /\ ConversationHides(m.conversation, [m.tombstone EXCEPT !["conversation"] = r.tombstone["conversation"]])

LEMMA MarkTombstone ==
    ASSUME NEW r, RowsHide(r), r.conversation.shell # 0, NEW e, e.at \in Ranks, NEW x \in Resources,
           NEW m, m = upsertResourceTombstone(r, x, e)
    PROVE  Marked(r, m, x) /\ m.tombstone[x] # 0
<1>1. r \in ProjectionRows /\ r.tombstone \in Tombstones /\ e.at \in Nat /\ e.at # 0
  BY Zenon, RanksPositive DEF RowsHide, ProjectionRows
<1>2. PICK T : T = [r.tombstone EXCEPT ![x] = Later(r.tombstone[x], e.at)]
  BY Zenon
<1>3. r.tombstone[x] \in Nat
  BY Zenon, <1>1 DEF Tombstones
<1>4. T \in Tombstones /\ T[x] # 0 /\ \A y \in Resources : y # x => T[y] = r.tombstone[y]
  BY Zenon, <1>1, <1>2, <1>3, LaterType DEF Tombstones
<1>5. m = [r EXCEPT !.tombstone = T]
  BY <1>1, <1>2 DEF upsertResourceTombstone, ProjectionRows
<1>6. m \in ProjectionRows /\ m.tombstone = T
  BY Zenon, <1>1, <1>4, <1>5 DEF ProjectionRows
<1>7. /\ m.conversation = r.conversation /\ m.participant = r.participant /\ m.message = r.message
      /\ m.versions = r.versions /\ m.reaction = r.reaction /\ m.receipt = r.receipt /\ m.typing = r.typing
      /\ m.attachment = r.attachment /\ m.command = r.command /\ m.delivery = r.delivery
  BY Zenon, <1>1, <1>5 DEF ProjectionRows
<1>8. PICK U : U = [T EXCEPT !["conversation"] = r.tombstone["conversation"]]
  BY Zenon
<1>9. U["conversation"] = r.tombstone["conversation"]
  BY Zenon, <1>4, <1>8 DEF Tombstones, Resources
<1>10. ConversationHides(m.conversation, U)
  BY Zenon, <1>7, <1>9 DEF ConversationHides, RowsHide
<1> QED BY Zenon, <1>4, <1>6, <1>7, <1>8, <1>10 DEF Marked

LEMMA Unmarked ==
    ASSUME NEW r, RowsHide(r), NEW x
    PROVE  Marked(r, r, x)
<1>1. r \in ProjectionRows /\ r.tombstone \in Tombstones
  BY Zenon DEF RowsHide, ProjectionRows
<1>2. [r.tombstone EXCEPT !["conversation"] = r.tombstone["conversation"]] = r.tombstone
  BY <1>1 DEF Tombstones
<1> QED BY Zenon, <1>1, <1>2 DEF Marked, RowsHide

\* Redacting the message hides what a tombstone of the message asks for.
LEMMA RedactedMessageHides ==
    ASSUME NEW r, RowsHide(r), NEW m, Marked(r, m, "message"), NEW t \in Nat, t # 0,
           NEW s, s = redactMessage(m, t)
    PROVE  RowsHide(s) /\ s.tombstone = m.tombstone /\ s.conversation = r.conversation
<1>1. MessageRedacted(m, s, t) /\ m \in ProjectionRows
  BY Zenon, RedactMessage DEF Marked
<1>2. PICK T : T = m.tombstone
  BY Zenon
<1>3. /\ T["conversation"] = r.tombstone["conversation"] /\ T["participant"] = r.tombstone["participant"]
      /\ T["attachment"] = r.tombstone["attachment"]
  BY Zenon, <1>2 DEF Marked, Resources
<1>4. s \in ProjectionRows /\ s.tombstone = T /\ s.conversation = r.conversation
  BY Zenon, <1>1, <1>2 DEF MessageRedacted, Marked
<1>5. ConversationHides(s.conversation, T)
  <2>1. [m.tombstone EXCEPT !["conversation"] = r.tombstone["conversation"]] = m.tombstone
    BY <1>1, <1>2, <1>3 DEF ProjectionRows, Tombstones
  <2> QED BY Zenon, <1>2, <1>4, <2>1 DEF Marked
<1>6. ParticipantHides(s.participant, T)
  BY ZenonT(60), <1>1, <1>3 DEF MessageRedacted, Marked, RowsHide, ParticipantHides
<1>7. MessageHides(s.message, T)
  <2>1. CASE r.message.created = 0
    BY Zenon, <1>1, <2>1 DEF MessageRedacted, Marked, RowsHide, MessageHides, Scrubbed
  <2>2. CASE r.message.created # 0
    BY Zenon, <1>1, <2>2 DEF MessageRedacted, Marked, MessageHides, Scrubbed
  <2> QED BY Zenon, <2>1, <2>2
<1>8. VersionsHide(s.versions, T)
  <2>1. SameRanks(s.versions, r.versions) /\ HasLatest(r.versions)
    BY Zenon, <1>1 DEF MessageRedacted, Marked, RowsHide, VersionsHide
  <2> QED BY Zenon, <1>1, <2>1, SameLatest DEF MessageRedacted, VersionsHide
<1>9. ReactionHides(s.reaction, T) /\ ReceiptHides(s.receipt, T) /\ DeliveryHides(s.delivery, T)
  BY Zenon, <1>1, EmptyRows DEF MessageRedacted, ReactionHides, ReceiptHides, DeliveryHides
<1>10. TypingHides(s.typing, T) /\ CommandHides(s.command, T)
  BY ZenonT(60), <1>1, <1>3 DEF MessageRedacted, Marked, RowsHide, TypingHides, CommandHides
<1>11. AttachmentHides(s.attachment, T)
  <2>1. CASE r.attachment.at = 0
    BY Zenon, <1>1, <2>1 DEF MessageRedacted, Marked, RowsHide, AttachmentHides
  <2>2. CASE r.attachment.at # 0
    BY Zenon, <1>1, <2>2 DEF MessageRedacted, Marked, AttachmentHides
  <2> QED BY Zenon, <2>1, <2>2
<1> QED BY Zenon, <1>2, <1>4, <1>5, <1>6, <1>7, <1>8, <1>9, <1>10, <1>11 DEF RowsHide

LEMMA RedactedConversationHides ==
    ASSUME NEW r, RowsHide(r), r.conversation.shell # 0, NEW m, Marked(r, m, "conversation"),
           NEW t \in Nat, t # 0, NEW s, s = redactConversation(m, t)
    PROVE  RowsHide(s)
<1>1. /\ m \in ProjectionRows /\ m.tombstone["message"] \in Nat /\ m.tombstone["participant"] \in Nat
      /\ r.message.current \in Nat
  BY Zenon DEF Marked, RowsHide, ProjectionRows, Tombstones, Resources, Messages
<1>2. PICK u : u = Later(m.tombstone["message"], t)
  BY Zenon
<1>3. u \in Nat /\ u # 0
  BY Zenon, <1>1, <1>2, LaterType
<1>4. PICK b : b = redactMessage(m, u)
  BY Zenon
<1>5. MessageRedacted(m, b, u)
  BY Zenon, <1>1, <1>3, <1>4, RedactMessage
<1>6. b \in ProjectionRows
  BY Zenon, <1>5 DEF MessageRedacted
<1>7. /\ b.conversation \in Conversations /\ b.message \in Messages /\ b.participant \in Participants
      /\ b.command \in CommandRows
  BY Zenon, <1>6 DEF ProjectionRows
<1>8. PICK C : C = [b.conversation EXCEPT !.title = 0, !.preview = 0, !.unread = 0,
                                          !.messages = 0, !.attachments = 0, !.deleted = t]
  BY Zenon
<1>9. C \in Conversations /\ C.title = 0 /\ C.shell = b.conversation.shell
  BY Zenon, <1>7, <1>8 DEF Conversations
<1>10. PICK k : k = IF m.message.created = 0 THEN 0 ELSE Later(t, m.message.current)
  BY Zenon
<1>11. k \in Nat
  BY Zenon, <1>1, <1>10, LaterType DEF Marked
<1>12. PICK M : M = [b.message EXCEPT !.current = k]
  BY Zenon
<1>13. /\ M \in Messages /\ M.created = b.message.created /\ M.deleted = b.message.deleted
       /\ Scrubbed(b.message) => Scrubbed(M)
  BY ZenonT(60), <1>7, <1>11, <1>12 DEF Messages, Scrubbed
<1>14. PICK P : P = IF b.participant.at = 0 THEN b.participant
                    ELSE [b.participant EXCEPT !.name = 0, !.deleted = Later(m.tombstone["participant"], t)]
  BY Zenon
<1>15. /\ P \in Participants /\ (b.participant.at = 0 => P = b.participant)
       /\ b.participant.at # 0 => P.name = 0 /\ P.at # 0
  BY Zenon, <1>1, <1>7, <1>14, LaterType DEF Participants
<1>16. PICK K : K = [b.command EXCEPT !.failure = 0]
  BY Zenon
<1>17. K \in CommandRows /\ K.failure = 0
  BY Zenon, <1>7, <1>16 DEF CommandRows
<1>18. s = [b EXCEPT !.conversation = C, !.message = M, !.participant = P, !.typing = TypingRow, !.command = K]
  BY <1>2, <1>4, <1>6, <1>8, <1>10, <1>12, <1>14, <1>16 DEF redactConversation, ProjectionRows
<1>19. /\ s \in ProjectionRows /\ s.conversation = C /\ s.message = M /\ s.participant = P
       /\ s.typing = TypingRow /\ s.command = K
  BY ZenonT(60), <1>6, <1>9, <1>13, <1>15, <1>17, <1>18, EmptyRows DEF ProjectionRows
<1>20. /\ s.tombstone = b.tombstone /\ s.versions = b.versions /\ s.reaction = b.reaction
       /\ s.receipt = b.receipt /\ s.attachment = b.attachment /\ s.delivery = b.delivery
  BY Zenon, <1>6, <1>18 DEF ProjectionRows
<1>21. PICK T : T = s.tombstone
  BY Zenon
<1>22. ConversationHides(s.conversation, T)
  BY Zenon, <1>5, <1>9, <1>19 DEF ConversationHides, MessageRedacted, Marked
<1>23. ParticipantHides(s.participant, T)
  <2>1. b.participant.at = 0 => P.name = 0
    BY Zenon, <1>5, <1>15 DEF MessageRedacted, Marked, RowsHide, ParticipantHides
  <2> QED BY Zenon, <1>15, <1>19, <2>1 DEF ParticipantHides
<1>24. MessageHides(s.message, T)
  <2>1. CASE r.message.created = 0
    <3>1. b.message = r.message /\ Scrubbed(r.message) /\ M.created = 0
      BY Zenon, <1>5, <1>13, <2>1 DEF MessageRedacted, Marked, RowsHide, MessageHides
    <3> QED BY Zenon, <1>13, <1>19, <3>1 DEF MessageHides, Scrubbed
  <2>2. CASE r.message.created # 0
    BY Zenon, <1>3, <1>5, <1>13, <1>19, <2>2 DEF MessageRedacted, Marked, MessageHides, Scrubbed
  <2> QED BY Zenon, <2>1, <2>2
<1>25. VersionsHide(s.versions, T)
  <2>1. SameRanks(s.versions, r.versions) /\ HasLatest(r.versions)
    BY Zenon, <1>5, <1>20 DEF MessageRedacted, Marked, RowsHide, VersionsHide
  <2> QED BY Zenon, <1>5, <1>20, <2>1, SameLatest DEF MessageRedacted, VersionsHide
<1>26. ReactionHides(s.reaction, T) /\ ReceiptHides(s.receipt, T) /\ DeliveryHides(s.delivery, T)
  BY Zenon, <1>5, <1>20, EmptyRows DEF MessageRedacted, ReactionHides, ReceiptHides, DeliveryHides
<1>27. TypingHides(s.typing, T) /\ CommandHides(s.command, T)
  BY Zenon, <1>17, <1>19 DEF TypingHides, CommandHides
<1>28. AttachmentHides(s.attachment, T)
  <2>1. CASE r.attachment.at = 0
    BY Zenon, <1>5, <1>20, <2>1 DEF MessageRedacted, Marked, RowsHide, AttachmentHides
  <2>2. CASE r.attachment.at # 0
    BY Zenon, <1>5, <1>20, <2>2 DEF MessageRedacted, Marked, AttachmentHides
  <2> QED BY Zenon, <2>1, <2>2
<1> QED BY Zenon, <1>19, <1>21, <1>22, <1>23, <1>24, <1>25, <1>26, <1>27, <1>28 DEF RowsHide

LEMMA RedactedParticipantHides ==
    ASSUME NEW r, RowsHide(r), NEW m, Marked(r, m, "participant"), NEW t \in Nat,
           NEW s, s = redactParticipant(m, t)
    PROVE  RowsHide(s)
<1>1. /\ m \in ProjectionRows /\ m.participant \in Participants /\ m.versions \in SUBSET Versions
      /\ m.message \in Messages /\ m.reaction \in Reactions /\ m.tombstone \in Tombstones
  BY Zenon DEF Marked, ProjectionRows
<1>2. PICK P : P = IF m.participant.at = 0 THEN m.participant
                   ELSE [m.participant EXCEPT !.name = 0, !.deleted = t]
  BY Zenon
<1>3. P \in Participants /\ (m.participant.at = 0 => P = m.participant) /\ (m.participant.at # 0 => P.name = 0)
  BY Zenon, <1>1, <1>2 DEF Participants
<1>4. PICK V : V = {[v EXCEPT !.editor = 0] : v \in m.versions}
  BY Zenon
<1>5. V \in SUBSET Versions /\ SameRanks(V, m.versions) /\ EditorsBlank(V, m.versions)
  BY Zenon, <1>1, <1>4, PlainVersions
<1>6. PICK M : M = [m.message EXCEPT !.sender = 0]
  BY Zenon
<1>7. /\ M \in Messages /\ M.sender = 0 /\ M.created = m.message.created /\ M.deleted = m.message.deleted
      /\ M.body = m.message.body /\ M.reply = m.message.reply /\ M.unread = m.message.unread
      /\ M.failure = m.message.failure
  BY ZenonT(60), <1>1, <1>6 DEF Messages
<1>8. PICK R : R = IF m.reaction.emoji = 0 THEN m.reaction ELSE ReactionRow
  BY Zenon
<1>9. R \in Reactions /\ R.emoji = 0 /\ (m.reaction = ReactionRow => R = ReactionRow)
  BY Zenon, <1>1, <1>8, EmptyRows
<1>10. s = [m EXCEPT !.participant = P, !.versions = V, !.message = M, !.reaction = R,
                     !.receipt = NoRows.receipt, !.typing = TypingRow]
  BY <1>1, <1>2, <1>4, <1>6, <1>8 DEF redactParticipant, ProjectionRows
<1>11. /\ s \in ProjectionRows /\ s.participant = P /\ s.versions = V /\ s.message = M /\ s.reaction = R
       /\ s.receipt = NoRows.receipt /\ s.typing = TypingRow
  BY ZenonT(60), <1>1, <1>3, <1>5, <1>7, <1>9, <1>10, EmptyRows DEF ProjectionRows
<1>12. /\ s.tombstone = m.tombstone /\ s.conversation = m.conversation /\ s.attachment = m.attachment
       /\ s.command = m.command /\ s.delivery = m.delivery
  BY Zenon, <1>1, <1>10 DEF ProjectionRows
<1>13. PICK T : T = m.tombstone
  BY Zenon
<1>14. /\ T["conversation"] = r.tombstone["conversation"] /\ T["message"] = r.tombstone["message"]
       /\ T["attachment"] = r.tombstone["attachment"]
  BY Zenon, <1>13 DEF Marked, Resources
<1>15. OfMessage(T) <=> OfMessage(r.tombstone)
  BY Zenon, <1>14 DEF OfMessage
<1>16. ConversationHides(s.conversation, T)
  <2>1. [m.tombstone EXCEPT !["conversation"] = r.tombstone["conversation"]] = m.tombstone
    BY <1>1, <1>13, <1>14 DEF Tombstones
  <2> QED BY Zenon, <1>12, <1>13, <2>1 DEF Marked
<1>17. ParticipantHides(s.participant, T)
  BY Zenon, <1>3, <1>11 DEF Marked, RowsHide, ParticipantHides
<1>18. MessageHides(s.message, T)
  <2>1. m.message = r.message /\ MessageHides(r.message, r.tombstone)
    BY Zenon DEF Marked, RowsHide
  <2>2. Scrubbed(r.message) => Scrubbed(M)
    BY Zenon, <1>7, <2>1 DEF Scrubbed
  <2> QED BY Zenon, <1>7, <1>11, <1>15, <2>1, <2>2 DEF MessageHides
<1>19. VersionsHide(s.versions, T)
  <2>1. HasLatest(s.versions)
    BY Zenon, <1>5, <1>11, SameLatest DEF Marked, RowsHide, VersionsHide
  <2> QED BY ZenonT(60), <1>5, <1>11, <1>15, <2>1 DEF Marked, RowsHide, VersionsHide, EditorsBlank
<1>20. ReactionHides(s.reaction, T)
  BY Zenon, <1>9, <1>11, <1>15 DEF Marked, RowsHide, ReactionHides
<1>21. ReceiptHides(s.receipt, T) /\ TypingHides(s.typing, T)
  BY Zenon, <1>11 DEF ReceiptHides, TypingHides
<1>22. AttachmentHides(s.attachment, T)
  BY Zenon, <1>12, <1>14, <1>15 DEF Marked, RowsHide, AttachmentHides
<1>23. CommandHides(s.command, T) /\ DeliveryHides(s.delivery, T)
  BY Zenon, <1>12, <1>14, <1>15 DEF Marked, RowsHide, CommandHides, DeliveryHides
<1> QED BY Zenon, <1>11, <1>12, <1>13, <1>16, <1>17, <1>18, <1>19, <1>20, <1>21, <1>22, <1>23 DEF RowsHide

LEMMA RedactedAttachment ==
    ASSUME NEW a \in Attachments, NEW t \in Nat, NEW x,
           x = [a EXCEPT !.file = 0, !.expires = 0, !.deleted = t]
    PROVE  x \in Attachments /\ x.file = 0
  BY Zenon DEF Attachments

LEMMA RedactedAttachmentHides ==
    ASSUME NEW r, RowsHide(r), NEW m, Marked(r, m, "attachment"), NEW t \in Nat,
           NEW s, s = redactAttachment(m, t)
    PROVE  RowsHide(s) /\ s.tombstone = m.tombstone
<1>1. m \in ProjectionRows /\ m.attachment \in Attachments /\ m.tombstone \in Tombstones
  BY Zenon DEF Marked, ProjectionRows
<1>2. PICK T : T = m.tombstone
  BY Zenon
<1>3. /\ T["conversation"] = r.tombstone["conversation"] /\ T["message"] = r.tombstone["message"]
      /\ T["participant"] = r.tombstone["participant"]
  BY Zenon, <1>2 DEF Marked, Resources
<1>4. OfMessage(T) <=> OfMessage(r.tombstone)
  BY Zenon, <1>3 DEF OfMessage
<1>5. ConversationHides(m.conversation, T)
  <2>1. [m.tombstone EXCEPT !["conversation"] = r.tombstone["conversation"]] = m.tombstone
    BY <1>1, <1>2, <1>3 DEF Tombstones
  <2> QED BY Zenon, <1>2, <2>1 DEF Marked
<1>6. ParticipantHides(m.participant, T) /\ VersionsHide(m.versions, T)
  BY Zenon, <1>3, <1>4 DEF Marked, RowsHide, ParticipantHides, VersionsHide
<1>7. MessageHides(m.message, T)
  BY Zenon, <1>3, <1>4 DEF Marked, RowsHide, MessageHides
<1>8. ReactionHides(m.reaction, T) /\ ReceiptHides(m.receipt, T) /\ TypingHides(m.typing, T)
  BY Zenon, <1>3, <1>4 DEF Marked, RowsHide, ReactionHides, ReceiptHides, TypingHides
<1>9. CommandHides(m.command, T) /\ DeliveryHides(m.delivery, T)
  BY Zenon, <1>3, <1>4 DEF Marked, RowsHide, CommandHides, DeliveryHides
<1>10. CASE m.attachment.at = 0
  <2>1. s = m
    BY Zenon, <1>10 DEF redactAttachment
  <2>2. AttachmentHides(m.attachment, T)
    BY Zenon, <1>10 DEF Marked, RowsHide, AttachmentHides
  <2> QED BY Zenon, <1>1, <1>2, <1>5, <1>6, <1>7, <1>8, <1>9, <2>1, <2>2 DEF RowsHide
<1>11. CASE m.attachment.at # 0
  <2>1. PICK x : x = [m.attachment EXCEPT !.file = 0, !.expires = 0, !.deleted = t]
    BY Zenon
  <2>2. x \in Attachments /\ x.file = 0
    BY Zenon, <1>1, <2>1, RedactedAttachment
  <2>3. s = [m EXCEPT !.attachment = x]
    BY Zenon, <1>11, <2>1 DEF redactAttachment
  <2>4. s \in ProjectionRows /\ s.attachment = x /\ s.tombstone = T
    BY Zenon, <1>1, <1>2, <2>2, <2>3 DEF ProjectionRows
  <2>5. /\ s.conversation = m.conversation /\ s.participant = m.participant /\ s.message = m.message
        /\ s.versions = m.versions /\ s.reaction = m.reaction /\ s.receipt = m.receipt /\ s.typing = m.typing
        /\ s.command = m.command /\ s.delivery = m.delivery
    BY Zenon, <1>1, <2>3 DEF ProjectionRows
  <2>6. AttachmentHides(s.attachment, T)
    BY Zenon, <2>2, <2>4 DEF AttachmentHides
  <2> QED BY Zenon, <1>2, <1>5, <1>6, <1>7, <1>8, <1>9, <2>4, <2>5, <2>6 DEF RowsHide
<1> QED BY Zenon, <1>10, <1>11

LEMMA DeletionKinds ==
    /\ DOMAIN DeletionTarget = {"message.deleted", "conversation.tombstone", "participant.tombstone",
                                "attachment.tombstone"}
    /\ \A kind \in DOMAIN DeletionTarget : DeletionTarget[kind] \in Resources
  BY DEF DeletionTarget, Resources

LEMMA DeletionHides ==
    ASSUME NEW r, RowsHide(r), r.conversation.shell # 0, NEW e, e.at \in Ranks,
           e.kind \in DOMAIN DeletionTarget, NEW s, s = projectDeletionTombstone(r, e)
    PROVE  RowsHide(s)
<1>1. PICK x \in Resources : x = DeletionTarget[e.kind]
  BY Zenon, DeletionKinds
<1>2. PICK m : m = upsertResourceTombstone(r, x, e)
  BY Zenon
<1>3. Marked(r, m, x) /\ m.tombstone[x] # 0
  BY Zenon, <1>2, MarkTombstone
<1>4. PICK winner, scope : winner = m.tombstone[x] /\ scope = m.tombstone["conversation"]
  BY Zenon
<1>5. winner \in Nat /\ winner # 0 /\ scope \in Nat /\ m.tombstone["message"] \in Nat
  BY Zenon, <1>3, <1>4 DEF Marked, ProjectionRows, Tombstones, Resources
<1>6. Later(winner, scope) \in Nat /\ Later(winner, scope) # 0
  BY Zenon, <1>5, LaterType
<1>7. CASE x = "message"
  <2>1. s = redactMessage(m, Later(winner, scope))
    BY Zenon, <1>1, <1>2, <1>4, <1>7 DEF projectDeletionTombstone
  <2> QED BY Zenon, <1>3, <1>6, <1>7, <2>1, RedactedMessageHides
<1>8. CASE x = "conversation"
  <2>1. s = redactConversation(m, winner)
    BY Zenon, <1>1, <1>2, <1>4, <1>8 DEF projectDeletionTombstone
  <2> QED BY Zenon, <1>3, <1>5, <1>8, <2>1, RedactedConversationHides
<1>9. CASE x = "participant"
  <2>1. s = redactParticipant(m, Later(winner, scope))
    BY Zenon, <1>1, <1>2, <1>4, <1>9 DEF projectDeletionTombstone
  <2> QED BY Zenon, <1>3, <1>6, <1>9, <2>1, RedactedParticipantHides
<1>10. CASE x = "attachment"
  <2>1. PICK t : t = Later(Later(winner, IF r.attachment.at = 0 THEN 0 ELSE m.tombstone["message"]), scope)
    BY Zenon
  <2>2. t \in Nat
    BY Zenon, <1>5, <2>1, LaterType
  <2>3. s = redactAttachment(m, t)
    BY Zenon, <1>1, <1>2, <1>4, <1>10, <2>1 DEF projectDeletionTombstone
  <2> QED BY Zenon, <1>3, <1>10, <2>2, <2>3, RedactedAttachmentHides
<1> QED BY Zenon, <1>7, <1>8, <1>9, <1>10 DEF Resources

LEMMA AttachmentObserved ==
    ASSUME NEW r, RowsHide(r), NEW e, e.at \in Ranks, NEW s, s = projectAttachmentObserved(r, e)
    PROVE  RowsHide(s)
<1>1. r \in ProjectionRows /\ e.at \in Nat /\ e.at # 0
  BY Zenon, RanksPositive DEF RowsHide, ProjectionRows
<1>2. PICK redaction : redaction = Later(r.tombstone["attachment"], messageIsRedacted(r))
  BY Zenon
<1>3. r.tombstone["attachment"] \in Nat
  BY Zenon, <1>1 DEF ProjectionRows, Tombstones, Resources
<1>4. /\ redaction \in Nat
      /\ redaction = 0 => ~OfMessage(r.tombstone) /\ r.tombstone["attachment"] = 0
  BY Zenon, <1>1, <1>2, <1>3, LaterType, RedactedType
<1>5. PICK c : c = IF redaction = 0 THEN r ELSE redactAttachment(r, redaction)
  BY Zenon
<1>6. RowsHide(c) /\ c.tombstone = r.tombstone
  BY Zenon, <1>4, <1>5, Unmarked, RedactedAttachmentHides
<1>7. CASE s # c
  <2>1. PICK f : f = IF redaction = 0 THEN e.at ELSE 0
    BY Zenon
  <2>2. PICK x : x = [at |-> e.at, file |-> f, expires |-> e.at, deleted |-> redaction]
    BY Zenon
  <2>3. x \in Attachments /\ x.at = e.at /\ x.file = f
    BY Zenon, <1>1, <1>4, <2>1, <2>2 DEF Attachments
  <2>4. s = [c EXCEPT !.attachment = x]
    BY Zenon, <1>2, <1>5, <1>7, <2>1, <2>2 DEF projectAttachmentObserved
  <2>5. AttachmentHides(x, c.tombstone)
    BY Zenon, <1>1, <1>4, <1>6, <2>1, <2>3 DEF AttachmentHides
  <2> QED BY Zenon, <1>6, <2>3, <2>4, <2>5, WithAttachment
<1> QED BY Zenon, <1>6, <1>7

-----------------------------------------------------------------------------
(* The message *)

LEMMA LocalReadHides ==
    ASSUME NEW r, RowsHide(r), NEW s, s = reconcileMessageLocalRead(r)
    PROVE  RowsHide(s)
<1>1. r \in ProjectionRows /\ r.message \in Messages /\ r.receipt["read"] \in Nat
  BY Zenon DEF RowsHide, ProjectionRows, ReceiptRows
<1>2. CASE s # r
  <2>1. PICK x : x = [r.message EXCEPT !.localRead = r.receipt["read"], !.unread = FALSE]
    BY Zenon
  <2>2. x \in Messages /\ x.created = r.message.created /\ x.sender = r.message.sender
    BY ZenonT(60), <1>1, <2>1 DEF Messages
  <2>3. r.message.created # 0 /\ messageIsRedacted(r) = 0 /\ s = [r EXCEPT !.message = x]
    BY Zenon, <1>1, <1>2, <2>1 DEF reconcileMessageLocalRead, ProjectionRows
  <2>4. ~OfMessage(r.tombstone)
    BY Zenon, <1>1, <2>3, RedactedType
  <2>5. MessageHides(x, r.tombstone)
    BY Zenon, <2>2, <2>3, <2>4 DEF RowsHide, MessageHides
  <2> QED BY Zenon, <2>2, <2>3, <2>5, WithMessage
<1> QED BY Zenon, <1>2

\* A message that changes only in its delivery columns hides what it hid.
LEMMA DeliveryColumns ==
    ASSUME NEW r, RowsHide(r), NEW x \in Messages,
           x.created = r.message.created, x.sender = r.message.sender,
           x.body = r.message.body, x.reply = r.message.reply, x.unread = r.message.unread,
           x.deleted = r.message.deleted, OfMessage(r.tombstone) => x.failure = 0,
           r.message.created # 0
    PROVE  \A y : y = [r EXCEPT !.message = x] => RowsHide(y) /\ y.tombstone = r.tombstone
<1>1. MessageHides(x, r.tombstone)
  BY Zenon DEF RowsHide, MessageHides, Scrubbed
<1> QED BY ZenonT(60), <1>1, WithMessage

LEMMA DeliveryReconciled ==
    ASSUME NEW r, RowsHide(r), NEW s, s = reconcileMessageDelivery(r)
    PROVE  RowsHide(s) /\ s.tombstone = r.tombstone
<1>1. r \in ProjectionRows /\ r.message \in Messages /\ r.delivery.at \in Nat /\ r.delivery.failure \in Nat
  BY Zenon DEF RowsHide, ProjectionRows, DeliveryRows
<1>2. PICK f : f = IF messageIsRedacted(r) # 0 \/ r.message.deleted # 0 THEN 0 ELSE r.delivery.failure
  BY Zenon
<1>3. f \in Nat /\ (OfMessage(r.tombstone) => f = 0)
  BY Zenon, <1>1, <1>2, RedactedType
<1>4. CASE s # r /\ r.delivery.at <= r.message.delivery
  <2>1. PICK x : x = [r.message EXCEPT !.failure = 0]
    BY Zenon
  <2>2. r.message.created # 0 /\ s = [r EXCEPT !.message = x]
    BY <1>1, <1>4, <2>1 DEF reconcileMessageDelivery, ProjectionRows
  <2>3. /\ x \in Messages /\ x.created = r.message.created /\ x.sender = r.message.sender
        /\ x.body = r.message.body /\ x.reply = r.message.reply /\ x.unread = r.message.unread
        /\ x.deleted = r.message.deleted /\ x.failure = 0
    BY ZenonT(60), <1>1, <2>1 DEF Messages
  <2>4. \A y : y = [r EXCEPT !.message = x] => RowsHide(y) /\ y.tombstone = r.tombstone
    BY Zenon, <2>2, <2>3, DeliveryColumns
  <2> QED BY Zenon, <2>2, <2>4
<1>5. CASE s # r /\ ~(r.delivery.at <= r.message.delivery)
  <2>1. PICK x : x = [r.message EXCEPT !.status = r.delivery.at, !.failure = f, !.delivery = r.delivery.at]
    BY Zenon
  <2>2. r.message.created # 0 /\ s = [r EXCEPT !.message = x]
    BY Zenon, <1>1, <1>2, <1>5, <2>1 DEF reconcileMessageDelivery, ProjectionRows
  <2>3. /\ x \in Messages /\ x.created = r.message.created /\ x.sender = r.message.sender
        /\ x.body = r.message.body /\ x.reply = r.message.reply /\ x.unread = r.message.unread
        /\ x.deleted = r.message.deleted /\ x.failure = f
    BY ZenonT(60), <1>1, <1>3, <2>1 DEF Messages
  <2>4. \A y : y = [r EXCEPT !.message = x] => RowsHide(y) /\ y.tombstone = r.tombstone
    BY Zenon, <1>3, <2>2, <2>3, DeliveryColumns
  <2> QED BY Zenon, <2>2, <2>4
<1> QED BY Zenon, <1>4, <1>5

LEMMA DeliveryUpdated ==
    ASSUME NEW r, RowsHide(r), NEW e, e.at \in Ranks, NEW s, s = projectBridgeDeliveryUpdated(r, e)
    PROVE  RowsHide(s)
<1>1. r \in ProjectionRows /\ r.delivery \in DeliveryRows /\ e.at \in Nat
  BY Zenon, RanksPositive DEF RowsHide, ProjectionRows
<1>2. PICK q : q = IF e.at <= r.delivery.at
                   THEN IF messageIsRedacted(r) # 0 THEN [r EXCEPT !.delivery.failure = 0] ELSE r
                   ELSE [r EXCEPT !.delivery =
                           [at |-> e.at, failure |-> IF messageIsRedacted(r) # 0 THEN 0 ELSE e.at]]
  BY Zenon
<1>3. ASSUME NEW x \in DeliveryRows, OfMessage(r.tombstone) => x.failure = 0
      PROVE  RowsHide([r EXCEPT !.delivery = x])
  BY Zenon, <1>3, WithDelivery DEF DeliveryHides
<1>4. RowsHide(q)
  <2>1. CASE e.at <= r.delivery.at /\ messageIsRedacted(r) # 0
    <3>1. PICK x : x = [r.delivery EXCEPT !.failure = 0]
      BY Zenon
    <3>2. x \in DeliveryRows /\ x.failure = 0
      BY Zenon, <1>1, <3>1 DEF DeliveryRows
    <3>3. q = [r EXCEPT !.delivery = x]
      BY <1>1, <1>2, <2>1, <3>1 DEF ProjectionRows
    <3> QED BY Zenon, <1>3, <3>2, <3>3
  <2>2. CASE ~(e.at <= r.delivery.at)
    <3>1. PICK f : f = IF messageIsRedacted(r) # 0 THEN 0 ELSE e.at
      BY Zenon
    <3>2. PICK x : x = [at |-> e.at, failure |-> f]
      BY Zenon
    <3>3. x \in DeliveryRows /\ x.failure = f
      BY Zenon, <1>1, <3>1, <3>2 DEF DeliveryRows
    <3>4. OfMessage(r.tombstone) => f = 0
      BY Zenon, <1>1, <3>1, RedactedType
    <3>5. q = [r EXCEPT !.delivery = x]
      BY Zenon, <1>2, <2>2, <3>1, <3>2
    <3> QED BY Zenon, <1>3, <3>3, <3>4, <3>5
  <2>3. CASE e.at <= r.delivery.at /\ ~(messageIsRedacted(r) # 0)
    BY Zenon, <1>2, <2>3
  <2> QED BY Zenon, <2>1, <2>2, <2>3
<1>5. s = reconcileMessageDelivery(q)
  BY Zenon, <1>2 DEF projectBridgeDeliveryUpdated
<1> QED BY Zenon, <1>4, <1>5, DeliveryReconciled

LEMMA ReceiptChanged ==
    ASSUME NEW r, RowsHide(r), NEW e, e.at \in Ranks, NEW s, s = projectReceipt(r, e)
    PROVE  RowsHide(s)
<1>1. r \in ProjectionRows /\ r.receipt \in ReceiptRows /\ e.at \in Nat
  BY Zenon, RanksPositive DEF RowsHide, ProjectionRows
<1>2. PICK type \in {"read", "delivered"} : type = IF e.kind = "receipt.read" THEN "read" ELSE "delivered"
  BY Zenon
<1>3. CASE messageIsRedacted(r) # 0 \/ r.tombstone["participant"] # 0
  <2>1. r.receipt = NoRows.receipt
    BY Zenon, <1>1, <1>3, RedactedType DEF RowsHide, ReceiptHides
  <2>2. PICK x : x = [r.receipt EXCEPT ![type] = 0]
    BY Zenon
  <2>3. x \in ReceiptRows /\ \A y \in {"read", "delivered"} : x[y] = NoRows.receipt[y]
    BY Zenon, <1>1, <1>2, <2>1, <2>2, EmptyRows DEF ReceiptRows
  <2>4. x = NoRows.receipt
    BY <2>3, EmptyRows DEF ReceiptRows
  <2>5. s = [r EXCEPT !.receipt = x]
    BY <1>1, <1>2, <1>3, <2>2 DEF projectReceipt, ProjectionRows
  <2>6. ReceiptHides(x, r.tombstone)
    BY Zenon, <2>4 DEF ReceiptHides
  <2> QED BY Zenon, <2>3, <2>5, <2>6, WithReceipt
<1>4. CASE ~(messageIsRedacted(r) # 0 \/ r.tombstone["participant"] # 0) /\ e.at <= r.receipt[type]
  BY Zenon, <1>2, <1>4 DEF projectReceipt
<1>5. CASE ~(messageIsRedacted(r) # 0 \/ r.tombstone["participant"] # 0) /\ ~(e.at <= r.receipt[type])
  <2>1. PICK x : x = [r.receipt EXCEPT ![type] = e.at]
    BY Zenon
  <2>2. x \in ReceiptRows
    BY Zenon, <1>1, <1>2, <2>1 DEF ReceiptRows
  <2>3. PICK q : q = [r EXCEPT !.receipt = x]
    BY Zenon
  <2>4. ReceiptHides(x, r.tombstone)
    BY Zenon, <1>1, <1>5, RedactedType DEF ReceiptHides
  <2>5. RowsHide(q)
    BY Zenon, <2>2, <2>3, <2>4, WithReceipt
  <2>6. s = IF type = "read" THEN reconcileMessageLocalRead(q) ELSE q
    BY <1>1, <1>2, <1>5, <2>1, <2>3 DEF projectReceipt, ProjectionRows
  <2> QED BY Zenon, <2>5, <2>6, LocalReadHides
<1> QED BY Zenon, <1>3, <1>4, <1>5

LEMMA LatestOfAdded ==
    ASSUME NEW versions \in SUBSET Versions, HasLatest(versions), NEW v \in Versions
    PROVE  /\ HasLatest(versions \cup {v})
           /\ readLatest(versions \cup {v}) \in versions \cup {v}
<1>1. \A w \in Versions : w.at \in Nat
  BY Zenon DEF Versions
<1>2. \A w \in versions \cup {v} : w.at \in Nat
  BY Zenon, <1>1
<1>3. \E x \in versions \cup {v} : \A w \in versions \cup {v} : x.at >= w.at
  <2>1. CASE versions = {}
    BY <1>2, <2>1
  <2>2. CASE versions # {}
    <3>1. PICK x \in versions : \A w \in versions : x.at >= w.at
      BY Zenon, <2>2 DEF HasLatest
    <3>2. CASE x.at >= v.at
      BY Zenon, <3>1, <3>2
    <3>3. CASE ~(x.at >= v.at)
      <4>1. ASSUME NEW w \in versions \cup {v} PROVE v.at >= w.at
        BY <1>2, <3>1, <3>3, <4>1
      <4> QED BY Zenon, <4>1
    <3> QED BY Zenon, <3>2, <3>3
  <2> QED BY Zenon, <2>1, <2>2
<1> QED BY Zenon, <1>3 DEF HasLatest, readLatest

LEMMA VersionInserted ==
    ASSUME NEW r, RowsHide(r), NEW e, e.at \in Ranks, NEW kind \in {"created", "edited"},
           NEW editor \in Nat, r.tombstone["participant"] # 0 => editor = 0,
           NEW s, s = insertMessageVersion(r, e, kind, editor)
    PROVE  /\ RowsHide(s) /\ s.tombstone = r.tombstone /\ s.message = r.message
           /\ readLatest(s.versions) \in s.versions
<1>1. r \in ProjectionRows /\ r.versions \in SUBSET Versions /\ e.at \in Nat
  BY Zenon, RanksPositive DEF RowsHide, ProjectionRows
<1>2. PICK b, d : /\ b = (IF messageIsRedacted(r) # 0 THEN 0 ELSE e.at)
                  /\ d = (IF messageIsRedacted(r) # 0 THEN 0 ELSE editor)
  BY Zenon
<1>3. /\ b \in Nat /\ d \in Nat /\ (OfMessage(r.tombstone) => b = 0 /\ d = 0)
      /\ r.tombstone["participant"] # 0 => d = 0
  BY Zenon, <1>1, <1>2, RedactedType
<1>4. PICK v : v = [at |-> e.at, kind |-> kind, body |-> b, editor |-> d]
  BY Zenon
<1>5. v \in Versions /\ v.body = b /\ v.editor = d
  BY Zenon, <1>1, <1>3, <1>4 DEF Versions
<1>6. PICK V : V = r.versions \cup {v}
  BY Zenon
<1>7. s = [r EXCEPT !.versions = V]
  BY Zenon, <1>2, <1>4, <1>6 DEF insertMessageVersion
<1>8. V \in SUBSET Versions
  BY Zenon, <1>1, <1>5, <1>6
<1>9. HasLatest(V) /\ readLatest(V) \in V
  BY Zenon, <1>1, <1>5, <1>6, LatestOfAdded DEF RowsHide, VersionsHide
<1>10. VersionsHide(V, r.tombstone)
  BY Zenon, <1>3, <1>5, <1>6, <1>9 DEF RowsHide, VersionsHide
<1>11. RowsHide(s) /\ s.tombstone = r.tombstone /\ s.versions = V
  <2>1. \A y : y = [r EXCEPT !.versions = V] => RowsHide(y) /\ y.tombstone = r.tombstone /\ y.versions = V
    BY Zenon, <1>8, <1>10, WithVersions
  <2> QED BY Zenon, <1>7, <2>1
<1>12. s.message = r.message
  BY Zenon, <1>1, <1>7 DEF ProjectionRows
<1> QED BY Zenon, <1>9, <1>11, <1>12

LEMMA VersionApplied ==
    ASSUME NEW r, RowsHide(r), r.message.created # 0, NEW latest \in r.versions,
           NEW s, s = applyCurrentMessageVersion(r, latest)
    PROVE  RowsHide(s) /\ s.tombstone = r.tombstone /\ s.message.created # 0
<1>1. r \in ProjectionRows /\ r.message \in Messages /\ latest.at \in Nat /\ latest.body \in Nat
  BY Zenon DEF RowsHide, ProjectionRows, Versions
<1>2. PICK t : t = messageIsRedacted(r)
  BY Zenon
<1>3. t \in Nat /\ (t # 0 <=> OfMessage(r.tombstone))
  BY Zenon, <1>1, <1>2, RedactedType
<1>4. CASE t # 0
  <2>1. PICK q : q = redactMessage(r, t)
    BY Zenon
  <2>2. RowsHide(q) /\ q.tombstone = r.tombstone
    <3>1. Marked(r, r, "message")
      BY Zenon, Unmarked
    <3> QED BY Zenon, <1>3, <1>4, <2>1, <3>1, RedactedMessageHides
  <2>3. MessageRedacted(r, q, t)
    BY Zenon, <1>1, <1>3, <2>1, RedactMessage
  <2>4. q \in ProjectionRows /\ q.message \in Messages /\ q.message.created # 0
    BY Zenon, <2>3 DEF MessageRedacted, ProjectionRows
  <2>5. PICK k : k = IF latest.at > r.message.current /\ latest.at > t THEN latest.at ELSE q.message.current
    BY Zenon
  <2>6. k \in Nat
    BY Zenon, <1>1, <2>4, <2>5 DEF Messages
  <2>7. PICK x : x = [q.message EXCEPT !.current = k]
    BY Zenon
  <2>8. /\ x \in Messages /\ x.created = q.message.created /\ x.sender = q.message.sender
        /\ x.body = q.message.body /\ x.reply = q.message.reply /\ x.unread = q.message.unread
        /\ x.deleted = q.message.deleted /\ x.failure = q.message.failure
    BY ZenonT(60), <2>4, <2>6, <2>7 DEF Messages
  <2>9. s = [q EXCEPT !.message = x]
    BY <1>2, <1>4, <2>1, <2>4, <2>5, <2>7 DEF applyCurrentMessageVersion, ProjectionRows
  <2>10. MessageHides(x, q.tombstone)
    BY Zenon, <2>2, <2>8 DEF RowsHide, MessageHides, Scrubbed
  <2>11. \A y : y = [q EXCEPT !.message = x] => RowsHide(y) /\ y.tombstone = q.tombstone /\ y.message = x
    BY Zenon, <2>2, <2>8, <2>10, WithMessage
  <2> QED BY Zenon, <2>2, <2>4, <2>8, <2>9, <2>11
<1>5. CASE t = 0 /\ s # r
  <2>1. PICK d : d = IF latest.kind = "edited" THEN latest.at ELSE 0
    BY Zenon
  <2>2. d \in Nat
    BY Zenon, <1>1, <2>1
  <2>3. PICK x : x = [r.message EXCEPT !.body = latest.body, !.edited = d, !.current = latest.at]
    BY Zenon
  <2>4. x \in Messages /\ x.created = r.message.created /\ x.sender = r.message.sender
    BY ZenonT(60), <1>1, <2>2, <2>3 DEF Messages
  <2>5. s = [r EXCEPT !.message = x]
    BY Zenon, <1>1, <1>2, <1>5, <2>1, <2>3 DEF applyCurrentMessageVersion, ProjectionRows
  <2>6. MessageHides(x, r.tombstone)
    BY Zenon, <1>3, <1>5, <2>4 DEF RowsHide, MessageHides
  <2>7. \A y : y = [r EXCEPT !.message = x] => RowsHide(y) /\ y.tombstone = r.tombstone /\ y.message = x
    BY Zenon, <2>4, <2>6, WithMessage
  <2> QED BY Zenon, <2>4, <2>5, <2>7
<1> QED BY Zenon, <1>4, <1>5

LEMMA CreatedFieldsWon ==
    ASSUME NEW r, RowsHide(r), r.message.created # 0, NEW e, e.at \in Ranks,
           NEW s, s = reconcileWinningCreatedFields(r, e)
    PROVE  RowsHide(s)
<1>1. r \in ProjectionRows /\ r.message \in Messages /\ e.at \in Nat /\ e.at # 0 /\ r.message.status \in Nat
  BY Zenon, RanksPositive DEF RowsHide, ProjectionRows, Messages
<1>2. PICK t : t = messageIsRedacted(r)
  BY Zenon
<1>3. t \in Nat /\ (t # 0 <=> OfMessage(r.tombstone))
  BY Zenon, <1>1, <1>2, RedactedType
<1>4. PICK sender : sender = IF t # 0 \/ r.tombstone["participant"] # 0 THEN 0 ELSE e.at
  BY Zenon
<1>5. PICK reply : reply = IF t # 0 THEN 0 ELSE e.at
  BY Zenon
<1>6. PICK status : status = IF r.delivery.at = 0 THEN e.at ELSE r.message.status
  BY Zenon
<1>7. sender \in Nat /\ reply \in Nat /\ status \in Nat
  BY Zenon, <1>1, <1>4, <1>5, <1>6
<1>8. PICK x : x = [r.message EXCEPT !.created = e.at, !.sender = sender, !.reply = reply,
                                     !.unread = (t = 0), !.status = status]
  BY Zenon
<1>9. /\ x \in Messages /\ x.created = e.at /\ x.sender = sender /\ x.reply = reply
      /\ x.body = r.message.body /\ x.failure = r.message.failure /\ x.deleted = r.message.deleted
  BY ZenonT(60), <1>1, <1>7, <1>8 DEF Messages
<1>10. t # 0 => x.unread = FALSE
  BY Zenon, <1>1, <1>8 DEF Messages
<1>11. MessageHides(x, r.tombstone)
  BY Zenon, <1>1, <1>3, <1>4, <1>5, <1>9, <1>10 DEF RowsHide, MessageHides, Scrubbed
<1>12. CASE s # r
  <2>1. s = [r EXCEPT !.message = x]
    BY Zenon, <1>2, <1>4, <1>5, <1>6, <1>8, <1>12 DEF reconcileWinningCreatedFields
  <2> QED BY Zenon, <1>9, <1>11, <2>1, WithMessage
<1> QED BY Zenon, <1>12

LEMMA EmptyMessage ==
    /\ MessageRow \in Messages /\ MessageRow.failure = 0
  BY ZenonT(60) DEF MessageRow, Messages

LEMMA MessageInserted ==
    ASSUME NEW r, RowsHide(r), NEW e, e.at \in Ranks, NEW latest \in r.versions,
           NEW s, s = insertMessage(r, e, latest)
    PROVE  RowsHide(s)
<1>1. r \in ProjectionRows /\ e.at \in Nat /\ e.at # 0 /\ latest.at \in Nat /\ latest.body \in Nat
  BY Zenon, RanksPositive DEF RowsHide, ProjectionRows, Versions
<1>2. PICK t : t = messageIsRedacted(r)
  BY Zenon
<1>3. t \in Nat /\ (t # 0 <=> OfMessage(r.tombstone))
  BY Zenon, <1>1, <1>2, RedactedType
<1>4. PICK sender : sender = IF t # 0 \/ r.tombstone["participant"] # 0 THEN 0 ELSE e.at
  BY Zenon
<1>5. PICK reply : reply = IF t # 0 THEN 0 ELSE e.at
  BY Zenon
<1>6. PICK edited : edited = IF latest.kind = "edited" /\ t = 0 THEN latest.at ELSE 0
  BY Zenon
<1>7. PICK current : current = Later(t, latest.at)
  BY Zenon
<1>8. sender \in Nat /\ reply \in Nat /\ edited \in Nat /\ current \in Nat
  BY Zenon, <1>1, <1>3, <1>4, <1>5, <1>6, <1>7, LaterType
<1>9. PICK x : x = [MessageRow EXCEPT !.created = e.at, !.sender = sender, !.body = latest.body,
                        !.reply = reply, !.status = e.at, !.unread = (t = 0), !.current = current,
                        !.edited = edited, !.deleted = t]
  BY Zenon
<1>10. /\ x \in Messages /\ x.created = e.at /\ x.sender = sender /\ x.reply = reply
       /\ x.body = latest.body /\ x.failure = 0 /\ x.deleted = t
  BY ZenonT(60), <1>1, <1>3, <1>8, <1>9, EmptyMessage DEF Messages
<1>11. t # 0 => x.unread = FALSE
  BY Zenon, <1>9, EmptyMessage DEF Messages
<1>12. OfMessage(r.tombstone) => latest.body = 0
  BY Zenon DEF RowsHide, VersionsHide
<1>13. MessageHides(x, r.tombstone)
  BY Zenon, <1>1, <1>3, <1>4, <1>5, <1>10, <1>11, <1>12 DEF MessageHides, Scrubbed
<1>14. s = [r EXCEPT !.message = x]
  BY Zenon, <1>2, <1>4, <1>5, <1>6, <1>7, <1>9 DEF insertMessage
<1> QED BY Zenon, <1>10, <1>13, <1>14, WithMessage

LEMMA MessageCreated ==
    ASSUME NEW r, RowsHide(r), NEW e, e.at \in Ranks, NEW s, s = projectMessageCreated(r, e)
    PROVE  RowsHide(s)
<1>1. r \in ProjectionRows
  BY Zenon DEF RowsHide
<1>2. PICK v : v = insertMessageVersion(r, e, "created", 0)
  BY Zenon
<1>3. /\ RowsHide(v) /\ v.tombstone = r.tombstone /\ v.message = r.message
      /\ readLatest(v.versions) \in v.versions
  BY <1>2, VersionInserted
<1>4. PICK latest \in v.versions : latest = readLatest(v.versions)
  BY Zenon, <1>3
<1>5. PICK a : a = applyCurrentMessageVersion(v, latest)
  BY Zenon
<1>6. PICK p : p = IF r.message.created = 0 THEN insertMessage(v, e, latest)
                   ELSE reconcileWinningCreatedFields(a, e)
  BY Zenon
<1>8. RowsHide(p)
  <2>1. CASE r.message.created = 0
    BY Zenon, <1>3, <1>6, <2>1, MessageInserted
  <2>2. CASE r.message.created # 0
    <3>1. RowsHide(a) /\ a.message.created # 0
      BY Zenon, <1>3, <1>5, <2>2, VersionApplied
    <3> QED BY Zenon, <1>6, <2>2, <3>1, CreatedFieldsWon
  <2> QED BY Zenon, <2>1, <2>2
<1>9. PICK d : d = reconcileMessageDelivery(p)
  BY Zenon
<1>10. RowsHide(d)
  BY Zenon, <1>8, <1>9, DeliveryReconciled
<1>11. PICK t : t = messageIsRedacted(r)
  BY Zenon
<1>12. t \in Nat
  BY Zenon, <1>1, <1>11, RedactedType
<1>13. PICK q : q = IF t = 0 THEN d ELSE redactMessage(d, t)
  BY Zenon
<1>14. RowsHide(q)
  <2>1. Marked(d, d, "message")
    BY Zenon, <1>10, Unmarked
  <2>2. CASE t # 0
    BY Zenon, <1>10, <1>12, <1>13, <2>1, <2>2, RedactedMessageHides
  <2> QED BY Zenon, <1>10, <1>13, <2>2
<1>15. s = reconcileMessageLocalRead(q)
  BY Zenon, <1>2, <1>4, <1>5, <1>6, <1>9, <1>11, <1>13 DEF projectMessageCreated
<1> QED BY Zenon, <1>14, <1>15, LocalReadHides

LEMMA MessageEdited ==
    ASSUME NEW r, RowsHide(r), NEW e, e.at \in Ranks, NEW s, s = projectMessageEdited(r, e)
    PROVE  RowsHide(s)
<1>1. PICK editor : editor = IF r.tombstone["participant"] # 0 THEN 0 ELSE e.at
  BY Zenon
<1>2. editor \in Nat /\ (r.tombstone["participant"] # 0 => editor = 0)
  BY Zenon, <1>1, RanksPositive
<1>3. PICK v : v = insertMessageVersion(r, e, "edited", editor)
  BY Zenon
<1>4. /\ RowsHide(v) /\ v.message = r.message /\ readLatest(v.versions) \in v.versions
  BY <1>2, <1>3, VersionInserted
<1>5. CASE r.message.created = 0
  BY Zenon, <1>1, <1>3, <1>4, <1>5 DEF projectMessageEdited
<1>6. CASE r.message.created # 0
  <2>1. PICK a : a = applyCurrentMessageVersion(v, readLatest(v.versions))
    BY Zenon
  <2>2. RowsHide(a)
    BY Zenon, <1>4, <1>6, <2>1, VersionApplied
  <2>3. s = reconcileMessageLocalRead(a)
    BY Zenon, <1>1, <1>3, <1>6, <2>1 DEF projectMessageEdited
  <2> QED BY Zenon, <2>2, <2>3, LocalReadHides
<1> QED BY Zenon, <1>5, <1>6

-----------------------------------------------------------------------------
(* One event, the summaries, and the redaction pass *)

LEMMA EventHides ==
    ASSUME NEW r, RowsHide(r), NEW e, e.at \in Ranks, e.kind \in AllKinds, NEW s, s = projectEvent(r, e)
    PROVE  RowsHide(s)
<1>1. PICK q : q = ensureConversationShell(r, e)
  BY Zenon
<1>2. RowsHide(q) /\ q.conversation.shell # 0
  BY Zenon, <1>1, ShellHides
<1>3. CASE e.kind = "conversation.updated"
  <2>1. s = projectConversationUpdated(q, e)
    BY Zenon, <1>1, <1>3, DeletionKinds DEF projectEvent
  <2> QED BY Zenon, <1>2, <2>1, ConversationUpdated
<1>4. CASE e.kind = "participant.updated"
  <2>1. s = projectParticipantUpdated(q, e)
    BY Zenon, <1>1, <1>4, DeletionKinds DEF projectEvent
  <2> QED BY Zenon, <1>2, <2>1, ParticipantUpdated
<1>5. CASE e.kind = "message.created"
  <2>1. s = projectMessageCreated(q, e)
    BY Zenon, <1>1, <1>5, DeletionKinds DEF projectEvent
  <2> QED BY Zenon, <1>2, <2>1, MessageCreated
<1>6. CASE e.kind = "message.edited"
  <2>1. s = projectMessageEdited(q, e)
    BY Zenon, <1>1, <1>6, DeletionKinds DEF projectEvent
  <2> QED BY Zenon, <1>2, <2>1, MessageEdited
<1>7. CASE e.kind = "reaction.added"
  <2>1. s = projectReactionAdded(q, e)
    BY Zenon, <1>1, <1>7, DeletionKinds DEF projectEvent
  <2> QED BY Zenon, <1>2, <2>1, ReactionChanged
<1>8. CASE e.kind = "reaction.removed"
  <2>1. s = projectReactionRemoved(q, e)
    BY Zenon, <1>1, <1>8, DeletionKinds DEF projectEvent
  <2> QED BY Zenon, <1>2, <2>1, ReactionChanged
<1>9. CASE e.kind \in {"receipt.read", "receipt.delivered"}
  <2>1. s = projectReceipt(q, e)
    BY Zenon, <1>1, <1>9, DeletionKinds DEF projectEvent
  <2> QED BY Zenon, <1>2, <2>1, ReceiptChanged
<1>10. CASE e.kind \in {"typing.started", "typing.stopped"}
  <2>1. s = projectTyping(q, e)
    BY Zenon, <1>1, <1>10, DeletionKinds DEF projectEvent
  <2> QED BY Zenon, <1>2, <2>1, TypingChanged
<1>11. CASE e.kind = "attachment.observed"
  <2>1. s = projectAttachmentObserved(q, e)
    BY Zenon, <1>1, <1>11, DeletionKinds DEF projectEvent
  <2> QED BY Zenon, <1>2, <2>1, AttachmentObserved
<1>12. CASE e.kind = "command.updated"
  <2>1. s = projectCommandUpdated(q, e)
    BY Zenon, <1>1, <1>12, DeletionKinds DEF projectEvent
  <2> QED BY Zenon, <1>2, <2>1, CommandUpdated
<1>13. CASE e.kind = "bridge.delivery.updated"
  <2>1. s = projectBridgeDeliveryUpdated(q, e)
    BY Zenon, <1>1, <1>13, DeletionKinds DEF projectEvent
  <2> QED BY Zenon, <1>2, <2>1, DeliveryUpdated
<1>14. CASE e.kind = "replay.tombstone"
  <2>1. s = projectEventMarker(q, e)
    BY Zenon, <1>1, <1>14, DeletionKinds DEF projectEvent
  <2> QED BY Zenon, <1>2, <2>1, MarkerUpdated
<1>15. CASE e.kind \in DOMAIN DeletionTarget
  <2>1. s = projectDeletionTombstone(q, e)
    BY Zenon, <1>1, <1>15, DeletionKinds DEF projectEvent
  <2> QED BY Zenon, <1>2, <1>15, <2>1, DeletionHides
<1> QED BY Zenon, <1>3, <1>4, <1>5, <1>6, <1>7, <1>8, <1>9, <1>10, <1>11, <1>12, <1>13, <1>14, <1>15
     DEF AllKinds

Summarized(p, preview, activity, unread, messages, count) ==
    [p EXCEPT !.conversation =
        [@ EXCEPT !.preview = preview, !.activity = activity, !.unread = unread,
                  !.messages = messages, !.attachments = count]]

LEMMA SummariesHide ==
    ASSUME NEW r, RowsHide(r), NEW s, s = recomputeConversationSummaries(r)
    PROVE  RowsHide(s) /\ SummaryHides(s.conversation, s.tombstone)
<1>1. r \in ProjectionRows /\ r.message \in Messages /\ r.conversation \in Conversations
  BY Zenon DEF RowsHide, ProjectionRows
<1>2. /\ r.message.body \in Nat /\ r.message.created \in Nat /\ r.conversation.shell \in Nat
  BY Zenon, <1>1 DEF Messages, Conversations
<1> DEFINE live == r.message.created # 0 /\ r.message.deleted = 0
<1>3. PICK files : files = IF live /\ r.attachment.at # 0 /\ r.attachment.deleted = 0 THEN 1 ELSE 0
  BY Zenon
<1>4. files \in Nat
  BY <1>3
<1>5. PICK q : q = IF live THEN [r EXCEPT !.message.attachments = files] ELSE r
  BY Zenon
<1>6. RowsHide(q) /\ q.tombstone = r.tombstone /\ q.conversation = r.conversation
  <2>1. CASE live
    <3>1. PICK x : x = [r.message EXCEPT !.attachments = files]
      BY Zenon
    <3>2. /\ x \in Messages /\ x.created = r.message.created /\ x.sender = r.message.sender
          /\ x.body = r.message.body /\ x.reply = r.message.reply /\ x.unread = r.message.unread
          /\ x.deleted = r.message.deleted /\ x.failure = r.message.failure
      BY ZenonT(60), <1>1, <1>4, <3>1 DEF Messages
    <3>3. q = [r EXCEPT !.message = x]
      BY <1>1, <1>5, <2>1, <3>1 DEF ProjectionRows
    <3>4. MessageHides(x, r.tombstone)
      BY Zenon, <3>2 DEF RowsHide, MessageHides, Scrubbed
    <3>5. RowsHide(q) /\ q.tombstone = r.tombstone
      BY Zenon, <3>2, <3>3, <3>4, WithMessage
    <3>6. q.conversation = r.conversation
      BY Zenon, <1>1, <3>3 DEF ProjectionRows
    <3> QED BY Zenon, <3>5, <3>6
  <2> QED BY Zenon, <1>5, <2>1
<1>7. OfMessage(r.tombstone) => ~live
  BY Zenon DEF RowsHide, MessageHides
<1>8. ASSUME NEW p, RowsHide(p), p.tombstone = r.tombstone, p.conversation = r.conversation,
             NEW preview \in Nat, NEW activity \in Nat, NEW unread \in Nat, NEW messages \in Nat,
             OfMessage(r.tombstone) => preview = 0 /\ messages = 0,
             NEW count \in Nat,
             s = Summarized(p, preview, activity, unread, messages, count)
      PROVE  RowsHide(s) /\ SummaryHides(s.conversation, s.tombstone)
  <2>1. PICK x : x = [p.conversation EXCEPT !.preview = preview, !.activity = activity, !.unread = unread,
                                            !.messages = messages, !.attachments = count]
    BY Zenon
  <2>2. /\ x \in Conversations /\ x.title = p.conversation.title /\ x.shell = p.conversation.shell
        /\ x.preview = preview /\ x.messages = messages
    BY ZenonT(60), <1>1, <1>8, <2>1 DEF Conversations
  <2>3. s = [p EXCEPT !.conversation = x]
    BY Zenon, <1>8, <2>1 DEF Summarized
  <2>4. ConversationHides(x, p.tombstone) /\ SummaryHides(x, p.tombstone)
    BY Zenon, <1>8, <2>2 DEF RowsHide, ConversationHides, SummaryHides
  <2>5. \A y : y = [p EXCEPT !.conversation = x] =>
               RowsHide(y) /\ y.tombstone = p.tombstone /\ y.conversation = x
    BY Zenon, <1>8, <2>2, <2>4, WithConversation
  <2> QED BY Zenon, <2>3, <2>4, <2>5
<1>9. CASE r.conversation.deleted # 0
  <2>1. s = Summarized(r, 0, r.conversation.shell, 0, 0, 0)
    BY Zenon, <1>9 DEF recomputeConversationSummaries, Summarized
  <2> QED BY Zenon, <1>2, <1>8, <2>1
<1>10. CASE ~(r.conversation.deleted # 0)
  <2>1. PICK preview : preview = IF live THEN r.message.body ELSE 0
    BY Zenon
  <2>2. PICK activity : activity = IF live THEN r.message.created ELSE r.conversation.shell
    BY Zenon
  <2>3. PICK unread : unread = IF live /\ r.message.unread THEN 1 ELSE 0
    BY Zenon
  <2>4. PICK messages : messages = IF live THEN 1 ELSE 0
    BY Zenon
  <2>5. preview \in Nat /\ activity \in Nat /\ unread \in Nat /\ messages \in Nat
    BY <1>2, <2>1, <2>2, <2>3, <2>4
  <2>6. OfMessage(r.tombstone) => preview = 0 /\ messages = 0
    BY Zenon, <1>7, <2>1, <2>4
  <2>7. s = Summarized(q, preview, activity, unread, messages, files)
    BY Zenon, <1>3, <1>5, <1>10, <2>1, <2>2, <2>3, <2>4 DEF recomputeConversationSummaries, Summarized
  <2> HIDE DEF live
  <2> QED BY Zenon, <1>4, <1>6, <1>8, <2>5, <2>6, <2>7
<1> QED BY Zenon, <1>9, <1>10

LEMMA DatedType == \A d \in Nat : Dated(d) \in Nat /\ Dated(d) # 0
<1>1. RemovedAt \in Nat /\ RemovedAt # 0
  BY ProjectorConstants DEF RemovedAt
<1> QED BY Zenon, <1>1 DEF Dated

LEMMA MessageScrubbed ==
    ASSUME NEW m \in Messages, NEW t, MessageHides(m, t), NEW x, x = ScrubbedMessage(m)
    PROVE  x \in Messages /\ MessageHides(x, t) /\ Scrubbed(x)
<1>1. CASE m.created = 0
  BY Zenon, <1>1 DEF ScrubbedMessage, MessageHides
<1>2. CASE m.created # 0
  <2>1. PICK d : d = Dated(m.deleted)
    BY Zenon
  <2>2. d \in Nat /\ d # 0
    BY Zenon, <2>1, DatedType DEF Messages
  <2>3. PICK y : y = [m EXCEPT !.sender = 0, !.body = 0, !.reply = 0, !.unread = FALSE, !.localRead = 0,
                      !.edited = 0, !.deleted = d, !.attachments = 0, !.failure = 0]
    BY Zenon
  <2>4. y \in Messages
    BY ZenonT(60), <2>2, <2>3 DEF Messages
  <2>5. Scrubbed(y) /\ y.deleted = d
    BY ZenonT(60), <2>3 DEF Messages, Scrubbed
  <2>6. x = y
    BY Zenon, <1>2, <2>1, <2>3 DEF ScrubbedMessage
  <2> QED BY Zenon, <2>2, <2>4, <2>5, <2>6 DEF MessageHides, Scrubbed
<1> QED BY Zenon, <1>1, <1>2

LEMMA AttachmentScrubbed ==
    ASSUME NEW a \in Attachments, NEW t, AttachmentHides(a, t), NEW expires \in Nat,
           NEW x, x = ScrubbedAttachment(a, expires)
    PROVE  x \in Attachments /\ AttachmentHides(x, t) /\ x.file = 0
<1>1. CASE a.at = 0
  BY Zenon, <1>1 DEF ScrubbedAttachment, AttachmentHides
<1>2. CASE a.at # 0
  <2>1. PICK d \in Nat : d = Dated(a.deleted)
    BY Zenon, DatedType DEF Attachments
  <2>2. PICK y : y = [a EXCEPT !.file = 0, !.expires = expires, !.deleted = d]
    BY Zenon
  <2>3. y \in Attachments /\ y.file = 0
    BY Zenon, <2>2 DEF Attachments
  <2>4. x = y
    BY Zenon, <1>2, <2>1, <2>2 DEF ScrubbedAttachment
  <2> QED BY Zenon, <2>3, <2>4 DEF AttachmentHides
<1> QED BY Zenon, <1>1, <1>2

\* What the redaction pass leaves of the rows of a removed resource
Erases(r, x) ==
    /\ x = "message" =>
         /\ r.message.body = 0 /\ r.message.sender = 0
         /\ \A v \in r.versions : v.body = 0 /\ v.editor = 0
         /\ r.receipt = NoRows.receipt /\ r.attachment.file = 0
    /\ x = "conversation" =>
         /\ r.conversation.title = 0 /\ r.conversation.preview = 0
         /\ r.message.body = 0 /\ r.attachment.file = 0
    /\ x = "participant" => r.participant.name = 0 /\ r.message.sender = 0
    /\ x = "attachment" => r.attachment.file = 0

\* What was empty in r is empty in s.
Fades(r, s) ==
    /\ s.tombstone = r.tombstone
    /\ r.message.body = 0 => s.message.body = 0
    /\ r.message.sender = 0 => s.message.sender = 0
    /\ (\A v \in r.versions : v.body = 0 /\ v.editor = 0) => \A v \in s.versions : v.body = 0 /\ v.editor = 0
    /\ r.receipt = NoRows.receipt => s.receipt = NoRows.receipt
    /\ r.attachment.file = 0 => s.attachment.file = 0
    /\ r.conversation.title = 0 => s.conversation.title = 0
    /\ r.conversation.preview = 0 => s.conversation.preview = 0
    /\ r.conversation.messages = 0 => s.conversation.messages = 0
    /\ r.participant.name = 0 => s.participant.name = 0

LEMMA FadedStaysErased ==
    ASSUME NEW r, NEW s, Fades(r, s), NEW x, Erases(r, x)
    PROVE  Erases(s, x)
  BY Zenon DEF Fades, Erases

LEMMA ReapplyMessage ==
    ASSUME NEW r, RowsHide(r), NEW s, s = reapplyMessageRemoval(r)
    PROVE  RowsHide(s) /\ Erases(s, "message") /\ Fades(r, s)
<1>1. /\ r \in ProjectionRows /\ r.versions \in SUBSET Versions /\ r.attachment \in Attachments
      /\ r.message \in Messages /\ r.attachment.expires \in Nat
  BY Zenon DEF RowsHide, ProjectionRows, Attachments
<1>2. PICK V : V = {[v EXCEPT !.body = 0, !.editor = 0] : v \in r.versions}
  BY Zenon
<1>3. V \in SUBSET Versions /\ SameRanks(V, r.versions) /\ \A v \in V : v.body = 0 /\ v.editor = 0
  BY ZenonT(60), <1>1, <1>2, BlankVersions
<1>4. VersionsHide(V, r.tombstone)
  <2>1. HasLatest(V)
    BY Zenon, <1>3, SameLatest DEF RowsHide, VersionsHide
  <2> QED BY Zenon, <1>3, <2>1 DEF VersionsHide
<1>5. PICK A : A = ScrubbedAttachment(r.attachment, r.attachment.expires)
  BY Zenon
<1>6. A \in Attachments /\ AttachmentHides(A, r.tombstone) /\ A.file = 0
  <2>1. AttachmentHides(r.attachment, r.tombstone)
    BY Zenon DEF RowsHide
  <2>2. PICK k \in Nat : k = r.attachment.expires
    BY Zenon, <1>1
  <2>3. A = ScrubbedAttachment(r.attachment, k) /\ r.attachment \in Attachments
    BY Zenon, <1>1, <1>5, <2>2
  <2> QED BY Zenon, <2>1, <2>3, AttachmentScrubbed
<1>7. PICK M : M = ScrubbedMessage(r.message)
  BY Zenon
<1>8. M \in Messages /\ MessageHides(M, r.tombstone) /\ Scrubbed(M)
  BY Zenon, <1>1, <1>7, MessageScrubbed DEF RowsHide
<1>9. s = [r EXCEPT !.versions = V, !.reaction = ReactionRow, !.receipt = NoRows.receipt,
                    !.attachment = A, !.message = M]
  BY Zenon, <1>2, <1>5, <1>7 DEF reapplyMessageRemoval
<1>10. /\ s \in ProjectionRows /\ s.versions = V /\ s.reaction = ReactionRow /\ s.receipt = NoRows.receipt
       /\ s.attachment = A /\ s.message = M
  BY ZenonT(60), <1>1, <1>3, <1>6, <1>8, <1>9, EmptyRows DEF ProjectionRows
<1>11. /\ s.tombstone = r.tombstone /\ s.conversation = r.conversation /\ s.participant = r.participant
       /\ s.typing = r.typing /\ s.command = r.command /\ s.delivery = r.delivery
  BY Zenon, <1>1, <1>9 DEF ProjectionRows
<1>12. ReactionHides(s.reaction, r.tombstone) /\ ReceiptHides(s.receipt, r.tombstone)
  BY Zenon, <1>10, EmptyRows DEF ReactionHides, ReceiptHides
<1>13. RowsHide(s)
  BY Zenon, <1>4, <1>6, <1>8, <1>10, <1>11, <1>12 DEF RowsHide
<1>14. Erases(s, "message")
  BY Zenon, <1>3, <1>6, <1>8, <1>10 DEF Erases, Scrubbed
<1>15. Fades(r, s)
  BY Zenon, <1>3, <1>6, <1>8, <1>10, <1>11 DEF Fades, Scrubbed
<1> QED BY Zenon, <1>13, <1>14, <1>15

LEMMA ReapplyAttachment ==
    ASSUME NEW r, RowsHide(r), NEW s, s = reapplyAttachmentRemoval(r)
    PROVE  RowsHide(s) /\ Erases(s, "attachment") /\ Fades(r, s)
<1>1. r \in ProjectionRows /\ r.attachment \in Attachments
  BY Zenon DEF RowsHide, ProjectionRows
<1>2. PICK A : A = ScrubbedAttachment(r.attachment, 0)
  BY Zenon
<1>3. A \in Attachments /\ AttachmentHides(A, r.tombstone) /\ A.file = 0
  BY Zenon, <1>1, <1>2, AttachmentScrubbed DEF RowsHide
<1>4. s = [r EXCEPT !.attachment = A]
  BY Zenon, <1>2 DEF reapplyAttachmentRemoval
<1>5. RowsHide(s)
  BY Zenon, <1>3, <1>4, WithAttachment
<1>6. /\ s.tombstone = r.tombstone /\ s.conversation = r.conversation /\ s.participant = r.participant
      /\ s.message = r.message /\ s.versions = r.versions /\ s.receipt = r.receipt /\ s.attachment = A
  BY Zenon, <1>1, <1>4 DEF ProjectionRows
<1>7. Erases(s, "attachment")
  BY Zenon, <1>3, <1>6 DEF Erases
<1>8. Fades(r, s)
  BY Zenon, <1>3, <1>6 DEF Fades
<1> QED BY Zenon, <1>5, <1>7, <1>8

LEMMA ReapplyConversation ==
    ASSUME NEW r, RowsHide(r), NEW s, s = reapplyConversationRemoval(r)
    PROVE  RowsHide(s) /\ Erases(s, "conversation") /\ Fades(r, s)
<1>1. /\ r \in ProjectionRows /\ r.conversation \in Conversations /\ r.attachment \in Attachments
      /\ r.message \in Messages
  BY Zenon DEF RowsHide, ProjectionRows
<1>2. PICK d \in Nat : d = Dated(r.conversation.deleted)
  BY Zenon, <1>1, DatedType DEF Conversations
<1>3. PICK C : C = [r.conversation EXCEPT !.title = 0, !.preview = 0, !.unread = 0, !.messages = 0,
                                          !.attachments = 0, !.deleted = d]
  BY Zenon
<1>4. /\ C \in Conversations /\ C.title = 0 /\ C.preview = 0 /\ C.messages = 0
      /\ C.shell = r.conversation.shell
  BY Zenon, <1>1, <1>3 DEF Conversations
<1>5. ConversationHides(C, r.tombstone)
  BY Zenon, <1>4 DEF RowsHide, ConversationHides
<1>6. PICK A : A = ScrubbedAttachment(r.attachment, 0)
  BY Zenon
<1>7. A \in Attachments /\ AttachmentHides(A, r.tombstone) /\ A.file = 0
  BY Zenon, <1>1, <1>6, AttachmentScrubbed DEF RowsHide
<1>8. PICK M : M = ScrubbedMessage(r.message)
  BY Zenon
<1>9. M \in Messages /\ MessageHides(M, r.tombstone) /\ Scrubbed(M)
  BY Zenon, <1>1, <1>8, MessageScrubbed DEF RowsHide
<1>10. s = [r EXCEPT !.conversation = C, !.message = M, !.attachment = A]
  BY Zenon, <1>2, <1>3, <1>6, <1>8 DEF reapplyConversationRemoval
<1>11. s \in ProjectionRows /\ s.conversation = C /\ s.attachment = A /\ s.message = M
  BY Zenon, <1>1, <1>4, <1>7, <1>9, <1>10 DEF ProjectionRows
<1>12. /\ s.tombstone = r.tombstone /\ s.participant = r.participant /\ s.versions = r.versions
       /\ s.reaction = r.reaction /\ s.receipt = r.receipt /\ s.typing = r.typing
       /\ s.command = r.command /\ s.delivery = r.delivery
  BY Zenon, <1>1, <1>10 DEF ProjectionRows
<1>13. RowsHide(s)
  BY Zenon, <1>5, <1>7, <1>9, <1>11, <1>12 DEF RowsHide
<1>14. Erases(s, "conversation")
  BY Zenon, <1>4, <1>7, <1>9, <1>11 DEF Erases, Scrubbed
<1>15. Fades(r, s)
  BY Zenon, <1>4, <1>7, <1>9, <1>11, <1>12 DEF Fades, Scrubbed
<1> QED BY Zenon, <1>13, <1>14, <1>15

LEMMA ReapplyParticipant ==
    ASSUME NEW r, RowsHide(r), NEW s, s = reapplyParticipantRemoval(r)
    PROVE  RowsHide(s) /\ Erases(s, "participant") /\ Fades(r, s)
<1>1. r \in ProjectionRows /\ r.participant \in Participants /\ r.message \in Messages
  BY Zenon DEF RowsHide, ProjectionRows
<1>2. PICK d \in Nat : d = Dated(r.participant.deleted)
  BY Zenon, <1>1, DatedType DEF Participants
<1>3. PICK P : P = IF r.participant.at = 0 THEN r.participant
                   ELSE [r.participant EXCEPT !.name = 0, !.deleted = d]
  BY Zenon
<1>4. P \in Participants /\ P.name = 0
  BY Zenon, <1>1, <1>3 DEF Participants, RowsHide, ParticipantHides
<1>5. PICK M : M = [r.message EXCEPT !.sender = 0]
  BY Zenon
<1>6. /\ M \in Messages /\ M.sender = 0 /\ M.created = r.message.created /\ M.deleted = r.message.deleted
      /\ M.body = r.message.body /\ M.reply = r.message.reply /\ M.unread = r.message.unread
      /\ M.failure = r.message.failure
  BY ZenonT(60), <1>1, <1>5 DEF Messages
<1>7. MessageHides(M, r.tombstone)
  <2>1. MessageHides(r.message, r.tombstone)
    BY Zenon DEF RowsHide
  <2>2. Scrubbed(r.message) => Scrubbed(M)
    BY Zenon, <1>6 DEF Scrubbed
  <2> QED BY Zenon, <1>6, <2>1, <2>2 DEF MessageHides
<1>8. s = [r EXCEPT !.participant = P, !.message = M]
  BY <1>1, <1>2, <1>3, <1>5 DEF reapplyParticipantRemoval, ProjectionRows
<1>9. s \in ProjectionRows /\ s.participant = P /\ s.message = M
  BY Zenon, <1>1, <1>4, <1>6, <1>8 DEF ProjectionRows
<1>10. /\ s.tombstone = r.tombstone /\ s.conversation = r.conversation /\ s.versions = r.versions
       /\ s.reaction = r.reaction /\ s.receipt = r.receipt /\ s.typing = r.typing
       /\ s.attachment = r.attachment /\ s.command = r.command /\ s.delivery = r.delivery
  BY Zenon, <1>1, <1>8 DEF ProjectionRows
<1>11. ParticipantHides(s.participant, r.tombstone)
  BY Zenon, <1>4, <1>9 DEF ParticipantHides
<1>12. RowsHide(s)
  BY Zenon, <1>7, <1>9, <1>10, <1>11 DEF RowsHide
<1>13. Erases(s, "participant") /\ Fades(r, s)
  BY Zenon, <1>4, <1>6, <1>9, <1>10 DEF Erases, Fades
<1> QED BY Zenon, <1>12, <1>13

LEMMA PassHides ==
    ASSUME NEW r, RowsHide(r), NEW removals, NEW x \in Resources,
           NEW s, s = IF x \in removals THEN reapplyRemoval(r, x) ELSE r
    PROVE  RowsHide(s) /\ Fades(r, s) /\ (x \in removals => Erases(s, x))
<1>1. CASE x \notin removals
  BY Zenon, <1>1 DEF Fades
<1>2. CASE x = "message" /\ x \in removals
  <2>1. s = reapplyMessageRemoval(r)
    BY Zenon, <1>2 DEF reapplyRemoval
  <2> QED BY Zenon, <1>2, <2>1, ReapplyMessage
<1>3. CASE x = "attachment" /\ x \in removals
  <2>1. s = reapplyAttachmentRemoval(r)
    BY Zenon, <1>3 DEF reapplyRemoval
  <2> QED BY Zenon, <1>3, <2>1, ReapplyAttachment
<1>4. CASE x = "conversation" /\ x \in removals
  <2>1. s = reapplyConversationRemoval(r)
    BY Zenon, <1>4 DEF reapplyRemoval
  <2> QED BY Zenon, <1>4, <2>1, ReapplyConversation
<1>5. CASE x = "participant" /\ x \in removals
  <2>1. s = reapplyParticipantRemoval(r)
    BY Zenon, <1>5 DEF reapplyRemoval
  <2> QED BY Zenon, <1>5, <2>1, ReapplyParticipant
<1> QED BY Zenon, <1>1, <1>2, <1>3, <1>4, <1>5 DEF Resources

LEMMA RedactionPass ==
    ASSUME NEW r, RowsHide(r), SummaryHides(r.conversation, r.tombstone), NEW removals \in SUBSET Resources,
           NEW s, s = reapplyExternalRemovalRedactions(r, removals)
    PROVE  /\ RowsHide(s) /\ SummaryHides(s.conversation, s.tombstone)
           /\ \A x \in removals : Erases(s, x)
<1>1. PICK a : a = IF "message" \in removals THEN reapplyRemoval(r, "message") ELSE r
  BY Zenon
<1>2. PICK b : b = IF "attachment" \in removals THEN reapplyRemoval(a, "attachment") ELSE a
  BY Zenon
<1>3. PICK c : c = IF "conversation" \in removals THEN reapplyRemoval(b, "conversation") ELSE b
  BY Zenon
<1>4. s = IF "participant" \in removals THEN reapplyRemoval(c, "participant") ELSE c
  BY Zenon, <1>1, <1>2, <1>3 DEF reapplyExternalRemovalRedactions
<1>5. RowsHide(a) /\ Fades(r, a) /\ ("message" \in removals => Erases(a, "message"))
  BY Zenon, <1>1, PassHides DEF Resources
<1>6. RowsHide(b) /\ Fades(a, b) /\ ("attachment" \in removals => Erases(b, "attachment"))
  BY Zenon, <1>2, <1>5, PassHides DEF Resources
<1>7. RowsHide(c) /\ Fades(b, c) /\ ("conversation" \in removals => Erases(c, "conversation"))
  BY Zenon, <1>3, <1>6, PassHides DEF Resources
<1>8. RowsHide(s) /\ Fades(c, s) /\ ("participant" \in removals => Erases(s, "participant"))
  BY Zenon, <1>4, <1>7, PassHides DEF Resources
<1>9. "message" \in removals => Erases(s, "message")
  BY Zenon, <1>5, <1>6, <1>7, <1>8, FadedStaysErased
<1>10. "attachment" \in removals => Erases(s, "attachment")
  BY Zenon, <1>6, <1>7, <1>8, FadedStaysErased
<1>11. "conversation" \in removals => Erases(s, "conversation")
  BY Zenon, <1>7, <1>8, FadedStaysErased
<1>12. \A x \in removals : Erases(s, x)
  BY Zenon, <1>8, <1>9, <1>10, <1>11 DEF Resources
<1>13. SummaryHides(s.conversation, s.tombstone)
  BY Zenon, <1>5, <1>6, <1>7, <1>8 DEF Fades, SummaryHides
<1> QED BY Zenon, <1>8, <1>12, <1>13

-----------------------------------------------------------------------------
(* The invariant *)

LEMMA RemovalsErased == RemovalsHide <=> \A x \in reapplied \cap Resources : Erases(rows, x)
  BY Zenon DEF RemovalsHide, Erases, Resources

LEMMA ProjectorInitInv == ProjectorInit => ProjectorInv
<1> SUFFICES ASSUME ProjectorInit PROVE ProjectorInv
  BY Zenon
<1>1. /\ rows.conversation = ConversationRow /\ rows.participant = ParticipantRow
      /\ rows.message = MessageRow /\ rows.versions = {} /\ rows.reaction = ReactionRow
      /\ rows.receipt = NoRows.receipt /\ rows.typing = TypingRow /\ rows.attachment = AttachmentRow
      /\ rows.command = CommandRow /\ rows.delivery = DeliveryRow /\ rows.marker = 0
      /\ rows.tombstone = [resource \in Resources |-> 0]
  BY Zenon DEF ProjectorInit, NoRows
<1>2. ConversationRow \in Conversations /\ ParticipantRow \in Participants /\ AttachmentRow \in Attachments
  BY Zenon DEF ConversationRow, Conversations, ParticipantRow, Participants, AttachmentRow, Attachments
<1>3. CommandRow \in CommandRows /\ DeliveryRow \in DeliveryRows /\ rows.tombstone \in Tombstones
  <2>1. CommandRow \in CommandRows /\ DeliveryRow \in DeliveryRows
    BY Zenon DEF CommandRow, CommandRows, DeliveryRow, DeliveryRows
  <2>2. [resource \in Resources |-> 0] \in Tombstones
    BY DEF Tombstones
  <2> QED BY Zenon, <1>1, <2>1, <2>2
<1>4. rows \in ProjectionRows
  <2>1. NoRows.receipt = [type \in {"read", "delivered"} |-> 0]
    BY Zenon DEF NoRows
  <2>2. [type \in {"read", "delivered"} |-> 0] \in ReceiptRows /\ [resource \in Resources |-> 0] \in Tombstones
    BY Zenon, <1>1, <1>3, <2>1, EmptyRows
  <2> QED BY Zenon, <1>2, <1>3, <2>2, EmptyRows, EmptyMessage DEF ProjectorInit, NoRows, ProjectionRows
<1>5. \A x \in Resources : rows.tombstone[x] = 0
  BY Zenon, <1>1
<1>6. /\ ~OfMessage(rows.tombstone) /\ rows.tombstone["participant"] = 0
      /\ rows.tombstone["conversation"] = 0 /\ rows.tombstone["attachment"] = 0
  BY Zenon, <1>5 DEF OfMessage, Resources
<1>7. ParticipantRow.name = 0 /\ AttachmentRow.file = 0 /\ Scrubbed(MessageRow)
  BY Zenon DEF ParticipantRow, AttachmentRow, MessageRow, Scrubbed
<1>8. /\ ConversationHides(rows.conversation, rows.tombstone) /\ SummaryHides(rows.conversation, rows.tombstone)
      /\ ParticipantHides(rows.participant, rows.tombstone)
  BY Zenon, <1>1, <1>5, <1>6, <1>7 DEF ConversationHides, SummaryHides, ParticipantHides
<1>9. /\ MessageHides(rows.message, rows.tombstone) /\ VersionsHide(rows.versions, rows.tombstone)
  BY Zenon, <1>1, <1>6, <1>7 DEF MessageHides, VersionsHide, HasLatest
<1>10. /\ ReactionHides(rows.reaction, rows.tombstone) /\ ReceiptHides(rows.receipt, rows.tombstone)
       /\ TypingHides(rows.typing, rows.tombstone)
  BY Zenon, <1>6 DEF ReactionHides, ReceiptHides, TypingHides
<1>11. /\ AttachmentHides(rows.attachment, rows.tombstone) /\ CommandHides(rows.command, rows.tombstone)
       /\ DeliveryHides(rows.delivery, rows.tombstone)
  BY Zenon, <1>1, <1>6, <1>7 DEF AttachmentHides, CommandHides, DeliveryHides
<1>12. RowsHide(rows)
  BY Zenon, <1>4, <1>8, <1>9, <1>10, <1>11 DEF RowsHide
<1>13. authorities \subseteq Resources /\ RemovalsHide
  BY Zenon DEF ProjectorInit, RemovalsHide
<1> QED BY Zenon, <1>8, <1>12, <1>13 DEF ProjectorInv

LEMMA ProjectorNextInv == ProjectorInv /\ [ProjectorNext]_projectorVars => ProjectorInv'
<1> SUFFICES ASSUME ProjectorInv, [ProjectorNext]_projectorVars PROVE ProjectorInv'
  BY Zenon
<1>1. /\ RowsHide(rows) /\ SummaryHides(rows.conversation, rows.tombstone)
      /\ authorities \subseteq Resources
  BY Zenon DEF ProjectorInv
<1>2. ASSUME NEW kind \in Kinds, NEW n \in Ranks, applyPreparedBatch(kind, n) PROVE ProjectorInv'
  <2>1. PICK e : e = [kind |-> kind, at |-> n]
    BY Zenon
  <2>2. e.at \in Ranks /\ e.kind \in AllKinds /\ e.kind = kind
    BY Zenon, <2>1, ProjectorConstants
  <2>3. PICK q : q = projectEvent(rows, e)
    BY Zenon
  <2>4. RowsHide(q)
    BY Zenon, <1>1, <2>2, <2>3, EventHides
  <2>5. rows' = recomputeConversationSummaries(q)
    BY Zenon, <1>2, <2>1, <2>3 DEF applyPreparedBatch
  <2>6. RowsHide(rows') /\ SummaryHides(rows'.conversation, rows'.tombstone)
    BY Zenon, <2>4, <2>5, SummariesHide
  <2>7. authorities' \subseteq Resources
    BY Zenon, <1>1, <1>2, DeletionKinds DEF applyPreparedBatch
  <2>8. reapplied' = {}
    BY Zenon, <1>2 DEF applyPreparedBatch
  <2>9. RemovalsHide'
    BY Zenon, <2>8 DEF RemovalsHide
  <2> QED BY Zenon, <2>6, <2>7, <2>9 DEF ProjectorInv
<1>3. CASE reapplyRedactions
  <2>1. rows' = reapplyExternalRemovalRedactions(rows, authorities)
    BY Zenon, <1>3 DEF reapplyRedactions
  <2>2. /\ RowsHide(rows') /\ SummaryHides(rows'.conversation, rows'.tombstone)
        /\ \A x \in authorities : Erases(rows', x)
    BY Zenon, <1>1, <2>1, RedactionPass
  <2>3. reapplied' = authorities /\ authorities' = authorities
    BY Zenon, <1>3 DEF reapplyRedactions
  <2>4. RemovalsHide'
    BY Zenon, <2>2, <2>3, RemovalsErased DEF RemovalsHide, Erases
  <2> QED BY Zenon, <1>1, <2>2, <2>3, <2>4 DEF ProjectorInv
<1>4. ASSUME NEW resource \in Removable, recordRemovalAuthority(resource) PROVE ProjectorInv'
  <2>1. rows' = rows /\ reapplied' = reapplied /\ authorities' = authorities \cup {resource}
    BY Zenon, <1>4 DEF recordRemovalAuthority
  <2>2. resource \in Resources
    BY Zenon, ProjectorConstants
  <2>3. RemovalsHide'
    BY Zenon, <2>1 DEF ProjectorInv, RemovalsHide
  <2> QED BY Zenon, <1>1, <2>1, <2>2, <2>3 DEF ProjectorInv
<1>5. CASE UNCHANGED projectorVars
  <2>1. rows' = rows /\ authorities' = authorities /\ reapplied' = reapplied
    BY Zenon, <1>5 DEF projectorVars
  <2>2. RemovalsHide'
    BY Zenon, <2>1 DEF ProjectorInv, RemovalsHide
  <2> QED BY Zenon, <1>1, <2>1, <2>2 DEF ProjectorInv
<1> QED BY Zenon, <1>2, <1>3, <1>4, <1>5 DEF ProjectorNext

\* Whatever batches, redaction passes and removals arrive, in whatever order,
\* the rows keep their types and hide what their tombstones ask for.
THEOREM ProjectorInvariance == ProjectorSpec => []ProjectorInv
  BY ProjectorInitInv, ProjectorNextInv, PTL DEF ProjectorSpec

LEMMA HidesEnough == ProjectorInv => HiddenStaysHidden
<1> SUFFICES ASSUME ProjectorInv PROVE HiddenStaysHidden
  BY Zenon
<1>1. RowsHide(rows) /\ SummaryHides(rows.conversation, rows.tombstone) /\ RemovalsHide
  BY Zenon DEF ProjectorInv
<1>2. PICK T : T = rows.tombstone
  BY Zenon
<1>3. ASSUME OfMessage(T)
      PROVE  /\ \A v \in rows.versions : v.body = 0 /\ v.editor = 0
             /\ rows.message.body = 0 /\ rows.message.sender = 0
             /\ rows.message.reply = 0 /\ ~rows.message.unread
             /\ rows.conversation.preview = 0 /\ rows.conversation.messages = 0
             /\ rows.reaction = ReactionRow /\ rows.receipt = NoRows.receipt
             /\ rows.delivery.failure = 0 /\ rows.message.failure = 0
             /\ rows.attachment.file = 0
  <2>1. Scrubbed(rows.message)
    BY Zenon, <1>1, <1>2, <1>3 DEF RowsHide, MessageHides
  <2>2. \A v \in rows.versions : v.body = 0 /\ v.editor = 0
    BY Zenon, <1>1, <1>2, <1>3 DEF RowsHide, VersionsHide
  <2>3. rows.conversation.preview = 0 /\ rows.conversation.messages = 0
    BY Zenon, <1>1, <1>2, <1>3 DEF SummaryHides
  <2>4. rows.reaction = ReactionRow /\ rows.receipt = NoRows.receipt
    BY Zenon, <1>1, <1>2, <1>3 DEF RowsHide, ReactionHides, ReceiptHides
  <2>5. rows.delivery.failure = 0 /\ rows.attachment.file = 0
    BY Zenon, <1>1, <1>2, <1>3 DEF RowsHide, DeliveryHides, AttachmentHides
  <2> QED BY Zenon, <2>1, <2>2, <2>3, <2>4, <2>5 DEF Scrubbed
<1>4. ASSUME T["participant"] # 0
      PROVE  /\ rows.participant.name = 0 /\ rows.message.sender = 0
             /\ \A v \in rows.versions : v.editor = 0
             /\ rows.reaction.emoji = 0 /\ rows.receipt = NoRows.receipt
             /\ rows.typing = TypingRow
  <2>1. rows.participant.name = 0 /\ rows.message.sender = 0
    BY Zenon, <1>1, <1>2, <1>4 DEF RowsHide, ParticipantHides, MessageHides
  <2>2. \A v \in rows.versions : v.editor = 0
    BY Zenon, <1>1, <1>2, <1>4 DEF RowsHide, VersionsHide
  <2>3. rows.reaction.emoji = 0 /\ rows.receipt = NoRows.receipt /\ rows.typing = TypingRow
    BY Zenon, <1>1, <1>2, <1>4 DEF RowsHide, ReactionHides, ReceiptHides, TypingHides
  <2> QED BY Zenon, <2>1, <2>2, <2>3
<1>5. ASSUME T["conversation"] # 0
      PROVE  /\ rows.conversation.title = 0 /\ rows.participant.name = 0
             /\ rows.typing = TypingRow /\ rows.command.failure = 0
  <2>1. rows.conversation.title = 0 /\ rows.participant.name = 0
    BY Zenon, <1>1, <1>2, <1>5 DEF RowsHide, ConversationHides, ParticipantHides
  <2>2. rows.typing = TypingRow /\ rows.command.failure = 0
    BY Zenon, <1>1, <1>2, <1>5 DEF RowsHide, TypingHides, CommandHides
  <2> QED BY Zenon, <2>1, <2>2
<1>6. T["attachment"] # 0 => rows.attachment.file = 0
  BY Zenon, <1>1, <1>2 DEF RowsHide, AttachmentHides
<1>7. TombstonesHide
  BY Zenon, <1>2, <1>3, <1>4, <1>5, <1>6 DEF TombstonesHide, OfMessage
<1> QED BY Zenon, <1>1, <1>7 DEF HiddenStaysHidden

\* Nothing of a deleted resource comes back into a row, whichever of its own
\* and its children's events arrive after the tombstone, and the redaction
\* pass leaves nothing of a removed one (projector-deletion.ts and
\* #reapplyExternalRemovalRedactions).
THEOREM HiddenAlwaysHidden == ProjectorSpec => []HiddenStaysHidden
  BY ProjectorInvariance, HidesEnough, PTL

-----------------------------------------------------------------------------
(* The newest version of a message nobody removed.                         *)

\* What a message row shows of its versions, of the newest delivery update and
\* of the local read receipt.
Shown(m, versions, delivered, read) ==
    /\ m.created = 0 => \A v \in versions : v.kind # "created"
    /\ m.created # 0 =>
         /\ \E v \in versions : v.kind = "created" /\ v.at = m.created
         /\ \A v \in versions : v.kind = "created" => v.at <= m.created
         /\ \E v \in versions : v.at = m.current
         /\ \A v \in versions : v.at <= m.current
         /\ m.body = m.current
         /\ m.delivery = delivered
         /\ m.status = IF delivered # 0 THEN delivered ELSE m.created
         /\ read # 0 => m.unread = FALSE
         /\ m.unread = FALSE => m.localRead # 0

ShowsNewest(r) ==
    /\ ~OfMessage(r.tombstone)
    /\ \A v \in r.versions : v.body = v.at
    /\ Shown(r.message, r.versions, r.delivery.at, r.receipt["read"])

\* The inductive invariant
NewestInv ==
    authorities \cap {"message", "conversation"} = {} => ShowsNewest(rows)

\* The part of a message row that ShowsNewest reads.
SameMessage(n, m) ==
    /\ n.created = m.created /\ n.body = m.body /\ n.current = m.current
    /\ n.status = m.status /\ n.delivery = m.delivery /\ n.unread = m.unread
    /\ n.localRead = m.localRead

\* The rows ShowsNewest reads are left alone.
SameContent(r, s) ==
    /\ s.message = r.message /\ s.versions = r.versions /\ s.delivery = r.delivery
    /\ s.receipt = r.receipt /\ s.tombstone = r.tombstone

LEMMA NewestFrame ==
    ASSUME NEW r, ShowsNewest(r), NEW s, ~OfMessage(s.tombstone), s.versions = r.versions,
           s.delivery.at = r.delivery.at, s.receipt["read"] = r.receipt["read"],
           SameMessage(s.message, r.message)
    PROVE  ShowsNewest(s)
  BY Zenon DEF ShowsNewest, Shown, SameMessage

LEMMA ContentFrame ==
    ASSUME NEW r, ShowsNewest(r), NEW s, SameContent(r, s)
    PROVE  ShowsNewest(s)
  BY Zenon DEF ShowsNewest, SameContent

LEMMA ShellContent ==
    ASSUME NEW r \in ProjectionRows, NEW e, NEW s, s = ensureConversationShell(r, e)
    PROVE  SameContent(r, s)
  BY DEF ensureConversationShell, SameContent, ProjectionRows

\* The events of the other rows.
LEMMA OtherContent ==
    ASSUME NEW r \in ProjectionRows, NEW e
    PROVE  /\ SameContent(r, projectConversationUpdated(r, e))
           /\ SameContent(r, projectParticipantUpdated(r, e))
           /\ SameContent(r, projectReactionAdded(r, e))
           /\ SameContent(r, projectReactionRemoved(r, e))
           /\ SameContent(r, projectTyping(r, e))
           /\ SameContent(r, projectCommandUpdated(r, e))
           /\ SameContent(r, projectEventMarker(r, e))
           /\ SameContent(r, projectAttachmentObserved(r, e))
<1>1. SameContent(r, projectConversationUpdated(r, e))
  BY DEF projectConversationUpdated, SameContent, ProjectionRows
<1>2. SameContent(r, projectParticipantUpdated(r, e))
  BY DEF projectParticipantUpdated, SameContent, ProjectionRows
<1>3. SameContent(r, projectReactionAdded(r, e))
  BY DEF projectReactionAdded, SameContent, ProjectionRows
<1>4. SameContent(r, projectReactionRemoved(r, e))
  BY DEF projectReactionRemoved, SameContent, ProjectionRows
<1>5. SameContent(r, projectTyping(r, e))
  BY DEF projectTyping, SameContent, ProjectionRows
<1>6. SameContent(r, projectCommandUpdated(r, e))
  BY DEF projectCommandUpdated, SameContent, ProjectionRows
<1>7. SameContent(r, projectEventMarker(r, e))
  BY DEF projectEventMarker, SameContent, ProjectionRows
<1>8. SameContent(r, projectAttachmentObserved(r, e))
  BY DEF projectAttachmentObserved, redactAttachment, SameContent, ProjectionRows
<1> QED BY Zenon, <1>1, <1>2, <1>3, <1>4, <1>5, <1>6, <1>7, <1>8

\* The rows after a version was stored: the message has one more version, and
\* the latest of them is one of them.
VersionAdded(r, v, n, kind) ==
    /\ v \in ProjectionRows
    /\ v.message = r.message /\ v.delivery = r.delivery
    /\ v.receipt = r.receipt /\ v.tombstone = r.tombstone
    /\ \A w \in v.versions : w.at \in Nat /\ w.body = w.at
    /\ \A w \in v.versions : w \in r.versions \/ (w.at = n /\ w.kind = kind)
    /\ \A w \in r.versions : w \in v.versions
    /\ \E w \in v.versions : w.at = n /\ w.kind = kind
    /\ readLatest(v.versions) \in v.versions
    /\ \A w \in v.versions : w.at <= readLatest(v.versions).at

LEMMA NewVersion ==
    ASSUME NEW r, RowsHide(r), ShowsNewest(r), NEW e, e.at \in Ranks,
           NEW kind \in {"created", "edited"}, NEW editor \in Nat,
           NEW v, v = insertMessageVersion(r, e, kind, editor)
    PROVE  VersionAdded(r, v, e.at, kind)
<1>1. r \in ProjectionRows /\ r.versions \in SUBSET Versions /\ e.at \in Nat
  BY Zenon, RanksPositive DEF RowsHide, ProjectionRows
<1>2. messageIsRedacted(r) = 0
  BY Zenon, <1>1, RedactedType DEF ShowsNewest
<1>3. PICK w : w = [at |-> e.at, kind |-> kind, body |-> e.at, editor |-> editor]
  BY Zenon
<1>4. w \in Versions /\ w.at = e.at /\ w.body = e.at /\ w.kind = kind
  BY Zenon, <1>1, <1>3 DEF Versions
<1>5. PICK V : V = r.versions \cup {w}
  BY Zenon
<1>6. v = [r EXCEPT !.versions = V]
  BY Zenon, <1>2, <1>3, <1>5 DEF insertMessageVersion
<1>7. V \in SUBSET Versions /\ w \in V
  BY Zenon, <1>1, <1>4, <1>5
<1>8. /\ v \in ProjectionRows /\ v.versions = V
      /\ v.message = r.message /\ v.delivery = r.delivery
      /\ v.receipt = r.receipt /\ v.tombstone = r.tombstone
  BY Zenon, <1>1, <1>6, <1>7 DEF ProjectionRows
<1>9. HasLatest(V)
  BY Zenon, <1>1, <1>4, <1>5, LatestOfAdded DEF RowsHide, VersionsHide
<1>10. \A x \in V : x.at \in Nat /\ x.body = x.at
  BY Zenon, <1>1, <1>4, <1>5 DEF ShowsNewest, Versions
<1>11. readLatest(V) \in V /\ \A x \in V : readLatest(V).at >= x.at
  BY Zenon, <1>7, <1>9 DEF HasLatest, readLatest
<1>12. \A x \in V : x.at <= readLatest(V).at
  <2>1. ASSUME NEW x \in V PROVE x.at <= readLatest(V).at
    <3>1. x.at \in Nat /\ readLatest(V).at \in Nat /\ readLatest(V).at >= x.at
      BY Zenon, <1>10, <1>11
    <3> QED BY <3>1
  <2> QED BY Zenon, <2>1
<1> QED BY Zenon, <1>4, <1>5, <1>8, <1>10, <1>11, <1>12 DEF VersionAdded

\* The message shows the latest of the versions v has.
ShowsLatest(r, v, s) ==
    /\ s \in ProjectionRows
    /\ s.versions = v.versions /\ s.delivery = r.delivery
    /\ s.receipt = r.receipt /\ s.tombstone = r.tombstone
    /\ s.message.created = r.message.created /\ s.message.status = r.message.status
    /\ s.message.delivery = r.message.delivery /\ s.message.unread = r.message.unread
    /\ s.message.localRead = r.message.localRead
    /\ s.message.current = readLatest(v.versions).at
    /\ s.message.body = readLatest(v.versions).at

LEMMA CurrentVersion ==
    ASSUME NEW r, RowsHide(r), ShowsNewest(r), r.message.created # 0, NEW n \in Nat, NEW kind,
           NEW v, VersionAdded(r, v, n, kind),
           NEW s, s = applyCurrentMessageVersion(v, readLatest(v.versions))
    PROVE  ShowsLatest(r, v, s)
<1> DEFINE latest == readLatest(v.versions)
<1> HIDE DEF latest
<1>0. latest = readLatest(v.versions)
  BY Zenon DEF latest
<1>1. /\ v \in ProjectionRows /\ v.message = r.message /\ v.delivery = r.delivery
      /\ v.receipt = r.receipt /\ v.tombstone = r.tombstone
      /\ latest \in v.versions /\ latest.at \in Nat /\ latest.body = latest.at
  BY Zenon, <1>0 DEF VersionAdded
<1>2. v.message \in Messages /\ v.message.current \in Nat
  BY Zenon, <1>1 DEF ProjectionRows, Messages
<1>3. messageIsRedacted(v) = 0
  BY Zenon, <1>1, RedactedType DEF ShowsNewest
<1>4. PICK d : d = IF latest.kind = "edited" THEN latest.at ELSE 0
  BY Zenon
<1>5. PICK x : x = [v.message EXCEPT !.body = latest.body, !.edited = d, !.current = latest.at]
  BY Zenon
<1>6. /\ x \in Messages /\ x.created = v.message.created /\ x.status = v.message.status
      /\ x.delivery = v.message.delivery /\ x.unread = v.message.unread
      /\ x.localRead = v.message.localRead /\ x.current = latest.at /\ x.body = latest.body
  BY ZenonT(60), <1>1, <1>2, <1>4, <1>5 DEF Messages
<1>7. CASE latest.at > v.message.current
  <2>1. s = [v EXCEPT !.message = x]
    BY Zenon, <1>0, <1>1, <1>3, <1>4, <1>5, <1>7 DEF applyCurrentMessageVersion, ProjectionRows
  <2>2. /\ s \in ProjectionRows /\ s.message = x /\ s.versions = v.versions
        /\ s.delivery = v.delivery /\ s.receipt = v.receipt /\ s.tombstone = v.tombstone
    BY Zenon, <1>1, <1>6, <2>1 DEF ProjectionRows
  <2> QED BY Zenon, <1>0, <1>1, <1>6, <2>2 DEF ShowsLatest
<1>8. CASE ~(latest.at > v.message.current)
  <2>1. s = v
    BY Zenon, <1>0, <1>3, <1>8 DEF applyCurrentMessageVersion
  <2>2. PICK w \in v.versions : w.at = r.message.current
    BY Zenon DEF ShowsNewest, Shown, VersionAdded
  <2>3. r.message.current <= latest.at
    BY Zenon, <1>0, <2>2 DEF VersionAdded
  <2>4. latest.at = v.message.current
    BY <1>1, <1>2, <1>8, <2>3
  <2>5. v.message.body = v.message.current
    BY Zenon, <1>1 DEF ShowsNewest, Shown
  <2> QED BY Zenon, <1>0, <1>1, <2>1, <2>4, <2>5 DEF ShowsLatest
<1> QED BY Zenon, <1>7, <1>8

LEMMA LocalReadShows ==
    ASSUME NEW r \in ProjectionRows, ~OfMessage(r.tombstone), \A v \in r.versions : v.body = v.at,
           Shown(r.message, r.versions, r.delivery.at, 0),
           NEW s, s = reconcileMessageLocalRead(r)
    PROVE  ShowsNewest(s)
<1>1. r.message \in Messages /\ r.receipt["read"] \in Nat /\ messageIsRedacted(r) = 0
  BY Zenon, RedactedType DEF ProjectionRows, ReceiptRows
<1>2. CASE r.message.created = 0 \/ r.receipt["read"] = 0
  <2>1. s = r
    BY Zenon, <1>2 DEF reconcileMessageLocalRead
  <2> QED BY Zenon, <1>2, <2>1 DEF ShowsNewest, Shown
<1>3. CASE r.message.created # 0 /\ r.receipt["read"] # 0
  <2>1. PICK x : x = [r.message EXCEPT !.localRead = r.receipt["read"], !.unread = FALSE]
    BY Zenon
  <2>2. /\ x.created = r.message.created /\ x.body = r.message.body /\ x.current = r.message.current
        /\ x.status = r.message.status /\ x.delivery = r.message.delivery
        /\ x.unread = FALSE /\ x.localRead = r.receipt["read"]
    BY ZenonT(60), <1>1, <2>1 DEF Messages
  <2>3. s = [r EXCEPT !.message = x]
    BY Zenon, <1>1, <1>3, <2>1 DEF reconcileMessageLocalRead, ProjectionRows
  <2>4. /\ s.message = x /\ s.versions = r.versions /\ s.delivery = r.delivery
        /\ s.receipt = r.receipt /\ s.tombstone = r.tombstone
    BY Zenon, <2>3 DEF ProjectionRows
  <2> QED BY ZenonT(60), <1>3, <2>2, <2>4 DEF ShowsNewest, Shown
<1> QED BY Zenon, <1>2, <1>3

LEMMA DeliveryShows ==
    ASSUME NEW r \in ProjectionRows, ~OfMessage(r.tombstone), NEW read,
           Shown(r.message, r.versions, r.message.delivery, read),
           r.message.created # 0 => r.message.delivery <= r.delivery.at,
           NEW s, s = reconcileMessageDelivery(r)
    PROVE  /\ s \in ProjectionRows
           /\ s.versions = r.versions /\ s.delivery = r.delivery
           /\ s.receipt = r.receipt /\ s.tombstone = r.tombstone
           /\ Shown(s.message, s.versions, s.delivery.at, read)
<1>1. /\ r.message \in Messages /\ r.delivery \in DeliveryRows
      /\ r.message.delivery \in Nat /\ r.delivery.at \in Nat /\ messageIsRedacted(r) = 0
  BY Zenon, RedactedType DEF ProjectionRows, Messages, DeliveryRows
<1>2. CASE r.message.created = 0
  <2>1. s = r
    BY Zenon, <1>2 DEF reconcileMessageDelivery
  <2> QED BY Zenon, <1>2, <2>1 DEF Shown
<1>3. CASE r.message.created # 0 /\ r.delivery.at <= r.message.delivery
  <2>1. r.delivery.at = r.message.delivery
    BY <1>1, <1>3
  <2>2. s = r \/ s = [r EXCEPT !.message.failure = 0]
    BY Zenon, <1>3 DEF reconcileMessageDelivery
  <2>3. CASE s = r
    BY Zenon, <2>1, <2>3
  <2>4. CASE s = [r EXCEPT !.message.failure = 0]
    <3>1. PICK x : x = [r.message EXCEPT !.failure = 0]
      BY Zenon
    <3>2. x \in Messages /\ SameMessage(x, r.message)
      BY ZenonT(60), <1>1, <3>1 DEF Messages, SameMessage
    <3>3. s = [r EXCEPT !.message = x]
      BY <2>4, <3>1 DEF ProjectionRows
    <3>4. /\ s \in ProjectionRows /\ s.message = x /\ s.versions = r.versions
          /\ s.delivery = r.delivery /\ s.receipt = r.receipt /\ s.tombstone = r.tombstone
      BY Zenon, <3>2, <3>3 DEF ProjectionRows
    <3>5. Shown(x, r.versions, r.message.delivery, read)
      BY Zenon, <3>2 DEF Shown, SameMessage
    <3> QED BY Zenon, <2>1, <3>4, <3>5
  <2> QED BY Zenon, <2>2, <2>3, <2>4
<1>4. CASE r.message.created # 0 /\ ~(r.delivery.at <= r.message.delivery)
  <2>1. r.delivery.at # 0
    BY <1>1, <1>4
  <2>2. PICK f : f = IF messageIsRedacted(r) # 0 \/ r.message.deleted # 0 THEN 0 ELSE r.delivery.failure
    BY Zenon
  <2>3. f \in Nat
    BY Zenon, <1>1, <2>2 DEF DeliveryRows
  <2>4. PICK x : x = [r.message EXCEPT !.status = r.delivery.at, !.failure = f, !.delivery = r.delivery.at]
    BY Zenon
  <2>5. /\ x \in Messages /\ x.created = r.message.created /\ x.body = r.message.body
        /\ x.current = r.message.current /\ x.status = r.delivery.at
        /\ x.delivery = r.delivery.at /\ x.unread = r.message.unread
        /\ x.localRead = r.message.localRead
    BY ZenonT(60), <1>1, <2>3, <2>4 DEF Messages
  <2>6. s = [r EXCEPT !.message = x]
    BY Zenon, <1>1, <1>4, <2>1, <2>2, <2>4 DEF reconcileMessageDelivery, ProjectionRows
  <2>7. /\ s \in ProjectionRows /\ s.message = x /\ s.versions = r.versions
        /\ s.delivery = r.delivery /\ s.receipt = r.receipt /\ s.tombstone = r.tombstone
    BY Zenon, <2>5, <2>6 DEF ProjectionRows
  <2>8. Shown(x, r.versions, r.delivery.at, read)
    BY Zenon, <1>4, <2>1, <2>5 DEF Shown
  <2> QED BY Zenon, <2>7, <2>8
<1> QED BY Zenon, <1>2, <1>3, <1>4

LEMMA EditedShows ==
    ASSUME NEW r, RowsHide(r), ShowsNewest(r), NEW e, e.at \in Ranks,
           NEW s, s = projectMessageEdited(r, e)
    PROVE  ShowsNewest(s)
<1>1. PICK editor : editor = IF r.tombstone["participant"] # 0 THEN 0 ELSE e.at
  BY Zenon
<1>2. editor \in Nat /\ e.at \in Nat
  BY Zenon, <1>1, RanksPositive
<1>3. PICK v : v = insertMessageVersion(r, e, "edited", editor)
  BY Zenon
<1>4. VersionAdded(r, v, e.at, "edited")
  BY Zenon, <1>2, <1>3, NewVersion
<1>5. \A w \in v.versions : w.kind = "created" => w \in r.versions
  BY <1>4 DEF VersionAdded
<1>6. CASE r.message.created = 0
  <2>1. s = v
    BY Zenon, <1>1, <1>3, <1>6 DEF projectMessageEdited
  <2>2. \A w \in v.versions : w.kind # "created" /\ w.body = w.at
    BY Zenon, <1>4, <1>5, <1>6 DEF ShowsNewest, Shown, VersionAdded
  <2>3. v.message.created = 0 /\ ~OfMessage(v.tombstone)
    BY Zenon, <1>4, <1>6 DEF ShowsNewest, VersionAdded
  <2> QED BY Zenon, <2>1, <2>2, <2>3 DEF ShowsNewest, Shown
<1>7. CASE r.message.created # 0
  <2>1. PICK a : a = applyCurrentMessageVersion(v, readLatest(v.versions))
    BY Zenon
  <2>2. ShowsLatest(r, v, a)
    BY Zenon, <1>2, <1>4, <1>7, <2>1, CurrentVersion
  <2>3. PICK latest : latest = readLatest(v.versions)
    BY Zenon
  <2>4. s = reconcileMessageLocalRead(a)
    BY Zenon, <1>1, <1>3, <1>7, <2>1 DEF projectMessageEdited
  <2>5. latest \in v.versions /\ \A w \in v.versions : w.at <= latest.at /\ w.body = w.at
    BY Zenon, <1>4, <2>3 DEF VersionAdded
  <2>6. \E w \in v.versions : w.kind = "created" /\ w.at = r.message.created
    BY Zenon, <1>4, <1>7 DEF VersionAdded, ShowsNewest, Shown
  <2>7. \A w \in v.versions : w.kind = "created" => w.at <= r.message.created
    BY Zenon, <1>5, <1>7 DEF ShowsNewest, Shown
  <2>8. /\ r.message.delivery = r.delivery.at
        /\ r.message.status = IF r.delivery.at # 0 THEN r.delivery.at ELSE r.message.created
        /\ r.message.unread = FALSE => r.message.localRead # 0
    BY Zenon, <1>7 DEF ShowsNewest, Shown
  <2>9. Shown(a.message, a.versions, a.delivery.at, 0)
    BY Zenon, <1>7, <2>2, <2>3, <2>5, <2>6, <2>7, <2>8 DEF Shown, ShowsLatest
  <2>10. ~OfMessage(a.tombstone) /\ \A w \in a.versions : w.body = w.at
    BY Zenon, <2>2, <2>5 DEF ShowsNewest, ShowsLatest
  <2>11. a \in ProjectionRows
    BY Zenon, <2>2 DEF ShowsLatest
  <2> QED BY Zenon, <2>4, <2>9, <2>10, <2>11, LocalReadShows
<1> QED BY Zenon, <1>6, <1>7

\* The winner among the created versions is the newest of them.
LEMMA NewestCreated ==
    ASSUME NEW r, ShowsNewest(r), r.message.created # 0, r.message.created \in Nat, NEW n \in Nat,
           NEW v, VersionAdded(r, v, n, "created"),
           NEW C, C = {w \in v.versions : w.kind = "created"}
    PROVE  /\ readLatest(C) \in C
           /\ \A w \in C : w.at <= readLatest(C).at
           /\ readLatest(C).at = n \/ readLatest(C).at <= r.message.created
<1>1. /\ \A w \in C : w.at \in Nat /\ w \in v.versions /\ w.kind = "created"
      /\ \A w \in C : w \in r.versions \/ w.at = n
  BY Zenon DEF VersionAdded
<1>2. PICK o \in C : o.at = r.message.created
  BY Zenon DEF VersionAdded, ShowsNewest, Shown
<1>3. PICK x \in C : x.at = n
  BY Zenon DEF VersionAdded
<1>4. \A w \in C : w.at <= r.message.created \/ w.at = n
  BY Zenon, <1>1 DEF ShowsNewest, Shown
<1>5. \E y \in C : \A w \in C : y.at >= w.at
  <2>1. CASE n <= r.message.created
    <3>1. ASSUME NEW w \in C PROVE o.at >= w.at
      <4>1. w.at \in Nat /\ (w.at <= r.message.created \/ w.at = n)
        BY Zenon, <1>1, <1>4
      <4> QED BY <1>2, <2>1, <4>1
    <3> QED BY Zenon, <3>1
  <2>2. CASE ~(n <= r.message.created)
    <3>1. ASSUME NEW w \in C PROVE x.at >= w.at
      <4>1. w.at \in Nat /\ (w.at <= r.message.created \/ w.at = n)
        BY Zenon, <1>1, <1>4
      <4> QED BY <1>3, <2>2, <4>1
    <3> QED BY Zenon, <3>1
  <2> QED BY Zenon, <2>1, <2>2
<1>6. readLatest(C) \in C /\ \A w \in C : readLatest(C).at >= w.at
  BY Zenon, <1>5 DEF readLatest
<1>7. ASSUME NEW w \in C PROVE w.at <= readLatest(C).at
  <2>1. w.at \in Nat /\ readLatest(C).at \in Nat /\ readLatest(C).at >= w.at
    BY Zenon, <1>1, <1>6
  <2> QED BY <2>1
<1> QED BY Zenon, <1>4, <1>6, <1>7

\* The message row was written for the versions v has, and the delivery update
\* it knows of is the one of tuple `delivered'.
Placed(r, v, s, delivered) ==
    /\ s \in ProjectionRows
    /\ s.versions = v.versions /\ s.delivery = r.delivery
    /\ s.receipt = r.receipt /\ s.tombstone = r.tombstone
    /\ s.message.delivery = delivered
    /\ Shown(s.message, s.versions, delivered, 0)

LEMMA CreatedFieldsShow ==
    ASSUME NEW r, RowsHide(r), ShowsNewest(r), r.message.created # 0, NEW e, e.at \in Ranks,
           NEW v, VersionAdded(r, v, e.at, "created"), NEW a, ShowsLatest(r, v, a),
           NEW s, s = reconcileWinningCreatedFields(a, e)
    PROVE  Placed(r, v, s, r.delivery.at)
<1>1. /\ a \in ProjectionRows /\ a.message \in Messages /\ a.versions = v.versions
      /\ a.delivery = r.delivery /\ a.receipt = r.receipt /\ a.tombstone = r.tombstone
  BY Zenon DEF ShowsLatest, ProjectionRows
<1>2. e.at \in Nat /\ e.at # 0 /\ r.message.created \in Nat
  BY Zenon, RanksPositive DEF RowsHide, ProjectionRows, Messages
<1>3. messageIsRedacted(a) = 0
  BY Zenon, <1>1, RedactedType DEF ShowsNewest
<1>4. PICK C : C = {w \in a.versions : w.kind = "created"}
  BY Zenon
<1>5. C = {w \in v.versions : w.kind = "created"}
  BY Zenon, <1>1, <1>4
<1>6. PICK winner : winner = readLatest(C)
  BY Zenon
<1>7. /\ winner \in C /\ \A w \in C : w.at <= winner.at
      /\ winner.at = e.at \/ winner.at <= r.message.created
  BY Zenon, <1>2, <1>5, <1>6, NewestCreated
<1>8. \A w \in v.versions : w.kind = "created" => w.at <= winner.at
  BY Zenon, <1>5, <1>7
<1>9. /\ \E w \in v.versions : w.at = readLatest(v.versions).at
      /\ \A w \in v.versions : w.at <= readLatest(v.versions).at
  BY Zenon DEF VersionAdded
<1>10. /\ r.message.delivery = r.delivery.at
       /\ r.message.status = IF r.delivery.at # 0 THEN r.delivery.at ELSE r.message.created
       /\ r.message.unread = FALSE => r.message.localRead # 0
  BY Zenon DEF ShowsNewest, Shown
<1>11. CASE winner.at # e.at
  <2>1. s = a
    BY Zenon, <1>4, <1>6, <1>11 DEF reconcileWinningCreatedFields
  <2>2. ASSUME NEW w \in v.versions, w.kind = "created" PROVE w.at <= r.message.created
    <3>1. w.at \in Nat /\ winner.at \in Nat /\ w.at <= winner.at /\ winner.at <= r.message.created
      BY Zenon, <1>5, <1>7, <1>8, <1>11, <2>2 DEF VersionAdded
    <3> QED BY <1>2, <3>1
  <2>3. \E w \in v.versions : w.kind = "created" /\ w.at = r.message.created
    BY Zenon DEF VersionAdded, ShowsNewest, Shown
  <2>4. Shown(a.message, a.versions, a.delivery.at, 0)
    BY Zenon, <1>1, <1>9, <1>10, <2>2, <2>3 DEF Shown, ShowsLatest
  <2>5. a.message.delivery = a.delivery.at
    BY Zenon, <1>1, <1>10 DEF ShowsLatest
  <2> QED BY Zenon, <1>1, <2>1, <2>4, <2>5 DEF Placed
<1>12. CASE winner.at = e.at
  <2>1. PICK sender : sender = IF messageIsRedacted(a) # 0 \/ a.tombstone["participant"] # 0 THEN 0 ELSE e.at
    BY Zenon
  <2>2. PICK status : status = IF a.delivery.at = 0 THEN e.at ELSE a.message.status
    BY Zenon
  <2>3. sender \in Nat /\ status \in Nat
    BY Zenon, <1>1, <1>2, <2>1, <2>2 DEF Messages
  <2>4. PICK x : x = [a.message EXCEPT !.created = e.at, !.sender = sender, !.reply = e.at,
                                       !.unread = TRUE, !.status = status]
    BY Zenon
  <2>5. /\ x \in Messages /\ x.created = e.at /\ x.body = a.message.body
        /\ x.current = a.message.current /\ x.status = status /\ x.unread = TRUE
        /\ x.delivery = a.message.delivery
    BY ZenonT(60), <1>1, <1>2, <2>3, <2>4 DEF Messages
  <2>6. s = [a EXCEPT !.message = x]
    BY Zenon, <1>1, <1>3, <1>4, <1>6, <1>12, <2>1, <2>2, <2>4 DEF reconcileWinningCreatedFields, ProjectionRows
  <2>7. /\ s \in ProjectionRows /\ s.message = x /\ s.versions = a.versions
        /\ s.delivery = a.delivery /\ s.receipt = a.receipt /\ s.tombstone = a.tombstone
    BY Zenon, <1>1, <2>5, <2>6 DEF ProjectionRows
  <2>8. x.delivery = a.delivery.at
    BY Zenon, <1>1, <1>10, <2>5 DEF ShowsLatest
  <2>9. x.status = IF a.delivery.at # 0 THEN a.delivery.at ELSE x.created
    BY Zenon, <1>1, <1>10, <2>2, <2>5 DEF ShowsLatest
  <2>10. \E w \in v.versions : w.kind = "created" /\ w.at = e.at
    BY Zenon DEF VersionAdded
  <2>11. /\ x.current = readLatest(v.versions).at /\ x.body = x.current
    BY Zenon, <2>5 DEF ShowsLatest
  <2>12. Shown(x, v.versions, a.delivery.at, 0)
    BY Zenon, <1>2, <1>8, <1>9, <1>12, <2>5, <2>8, <2>9, <2>10, <2>11 DEF Shown
  <2> QED BY Zenon, <1>1, <2>7, <2>8, <2>12 DEF Placed
<1> QED BY Zenon, <1>11, <1>12

LEMMA InsertedShows ==
    ASSUME NEW r, RowsHide(r), ShowsNewest(r), r.message.created = 0, NEW e, e.at \in Ranks,
           NEW v, VersionAdded(r, v, e.at, "created"),
           NEW s, s = insertMessage(v, e, readLatest(v.versions))
    PROVE  Placed(r, v, s, 0)
<1> DEFINE latest == readLatest(v.versions)
<1> HIDE DEF latest
<1>0. latest = readLatest(v.versions)
  BY Zenon DEF latest
<1>1. /\ v \in ProjectionRows /\ v.delivery = r.delivery
      /\ v.receipt = r.receipt /\ v.tombstone = r.tombstone
      /\ latest \in v.versions /\ latest.at \in Nat /\ latest.body = latest.at
  BY Zenon, <1>0 DEF VersionAdded
<1>2. e.at \in Nat /\ e.at # 0
  BY Zenon, RanksPositive
<1>3. messageIsRedacted(v) = 0
  BY Zenon, <1>1, RedactedType DEF ShowsNewest
<1>4. PICK sender : sender = IF messageIsRedacted(v) # 0 \/ v.tombstone["participant"] # 0 THEN 0 ELSE e.at
  BY Zenon
<1>5. PICK edited : edited = IF latest.kind = "edited" /\ messageIsRedacted(v) = 0 THEN latest.at ELSE 0
  BY Zenon
<1>6. Later(0, latest.at) = latest.at
  BY <1>1 DEF Later
<1>7. sender \in Nat /\ edited \in Nat
  BY Zenon, <1>1, <1>2, <1>4, <1>5
<1>8. PICK x : x = [MessageRow EXCEPT !.created = e.at, !.sender = sender, !.body = latest.body,
                        !.reply = e.at, !.status = e.at, !.unread = TRUE, !.current = latest.at,
                        !.edited = edited, !.deleted = 0]
  BY Zenon
<1>9. MessageRow.delivery = 0
  BY ZenonT(60) DEF MessageRow
<1>10. /\ x \in Messages /\ x.created = e.at /\ x.body = latest.body /\ x.status = e.at
       /\ x.unread = TRUE /\ x.current = latest.at /\ x.delivery = 0
  BY ZenonT(60), <1>1, <1>2, <1>7, <1>8, <1>9, EmptyMessage DEF Messages
<1>11. s = [v EXCEPT !.message = x]
  BY Zenon, <1>0, <1>3, <1>4, <1>5, <1>6, <1>8 DEF insertMessage
<1>12. /\ s \in ProjectionRows /\ s.message = x /\ s.versions = v.versions
       /\ s.delivery = v.delivery /\ s.receipt = v.receipt /\ s.tombstone = v.tombstone
  BY Zenon, <1>1, <1>10, <1>11 DEF ProjectionRows
<1>13. \A w \in v.versions : w.kind = "created" => w.at <= e.at
  <2>1. ASSUME NEW w \in v.versions, w.kind = "created" PROVE w.at <= e.at
    <3>1. w.at = e.at
      BY Zenon, <2>1 DEF VersionAdded, ShowsNewest, Shown
    <3> QED BY <1>2, <3>1
  <2> QED BY Zenon, <2>1
<1>14. /\ \E w \in v.versions : w.kind = "created" /\ w.at = e.at
       /\ \A w \in v.versions : w.at <= latest.at
  BY Zenon, <1>0 DEF VersionAdded
<1>15. Shown(x, v.versions, 0, 0)
  BY Zenon, <1>1, <1>2, <1>10, <1>13, <1>14 DEF Shown
<1> QED BY Zenon, <1>1, <1>10, <1>12, <1>15 DEF Placed

LEMMA CreatedShows ==
    ASSUME NEW r, RowsHide(r), ShowsNewest(r), NEW e, e.at \in Ranks,
           NEW s, s = projectMessageCreated(r, e)
    PROVE  ShowsNewest(s)
<1>1. r \in ProjectionRows /\ e.at \in Nat /\ 0 \in Nat
  BY Zenon, RanksPositive DEF RowsHide
<1>2. messageIsRedacted(r) = 0
  BY Zenon, <1>1, RedactedType DEF ShowsNewest
<1>3. PICK v : v = insertMessageVersion(r, e, "created", 0)
  BY Zenon
<1>4. VersionAdded(r, v, e.at, "created")
  BY Zenon, <1>1, <1>3, NewVersion
<1>5. PICK a : a = applyCurrentMessageVersion(v, readLatest(v.versions))
  BY Zenon
<1>6. PICK p : p = IF r.message.created = 0 THEN insertMessage(v, e, readLatest(v.versions))
                   ELSE reconcileWinningCreatedFields(a, e)
  BY Zenon
<1>7. /\ p \in ProjectionRows
      /\ p.versions = v.versions /\ p.delivery = r.delivery
      /\ p.receipt = r.receipt /\ p.tombstone = r.tombstone
      /\ p.message.delivery <= p.delivery.at
      /\ Shown(p.message, p.versions, p.message.delivery, 0)
  <2>1. r.delivery.at \in Nat
    BY Zenon, <1>1 DEF ProjectionRows, DeliveryRows
  <2>2. CASE r.message.created = 0
    <3>1. p = insertMessage(v, e, readLatest(v.versions))
      BY Zenon, <1>6, <2>2
    <3>2. Placed(r, v, p, 0)
      BY Zenon, <1>4, <2>2, <3>1, InsertedShows
    <3>3. 0 <= r.delivery.at
      BY <2>1
    <3> QED BY Zenon, <3>2, <3>3 DEF Placed
  <2>3. CASE r.message.created # 0
    <3>1. p = reconcileWinningCreatedFields(a, e)
      BY Zenon, <1>6, <2>3
    <3>2. ShowsLatest(r, v, a)
      BY Zenon, <1>1, <1>4, <1>5, <2>3, CurrentVersion
    <3>3. Placed(r, v, p, r.delivery.at)
      BY Zenon, <1>4, <2>3, <3>1, <3>2, CreatedFieldsShow
    <3>4. r.delivery.at <= r.delivery.at
      BY <2>1
    <3> QED BY Zenon, <3>3, <3>4 DEF Placed
  <2> QED BY Zenon, <2>2, <2>3
<1>8. PICK d : d = reconcileMessageDelivery(p)
  BY Zenon
<1>9. ~OfMessage(p.tombstone)
  BY Zenon, <1>7 DEF ShowsNewest
<1>10. /\ d \in ProjectionRows
       /\ d.versions = p.versions /\ d.delivery = p.delivery
       /\ d.receipt = p.receipt /\ d.tombstone = p.tombstone
       /\ Shown(d.message, d.versions, d.delivery.at, 0)
  BY Zenon, <1>7, <1>8, <1>9, DeliveryShows
<1>11. s = reconcileMessageLocalRead(d)
  BY Zenon, <1>2, <1>3, <1>5, <1>6, <1>8 DEF projectMessageCreated
<1>12. ~OfMessage(d.tombstone) /\ \A w \in d.versions : w.body = w.at
  BY Zenon, <1>4, <1>7, <1>9, <1>10 DEF VersionAdded
<1> QED BY Zenon, <1>10, <1>11, <1>12, LocalReadShows

LEMMA DeliveryUpdateShows ==
    ASSUME NEW r, RowsHide(r), ShowsNewest(r), NEW e, e.at \in Ranks,
           NEW s, s = projectBridgeDeliveryUpdated(r, e)
    PROVE  ShowsNewest(s)
<1>1. r \in ProjectionRows /\ e.at \in Nat /\ r.delivery \in DeliveryRows /\ r.delivery.at \in Nat
  BY Zenon, RanksPositive DEF RowsHide, ProjectionRows, DeliveryRows
<1>2. messageIsRedacted(r) = 0 /\ ~OfMessage(r.tombstone)
  BY Zenon, <1>1, RedactedType DEF ShowsNewest
<1>3. PICK x : x = [at |-> e.at, failure |-> e.at]
  BY Zenon
<1>4. x \in DeliveryRows /\ x.at = e.at
  BY Zenon, <1>1, <1>3 DEF DeliveryRows
<1>5. PICK q : q = IF e.at <= r.delivery.at THEN r ELSE [r EXCEPT !.delivery = x]
  BY Zenon
<1>6. s = reconcileMessageDelivery(q)
  BY Zenon, <1>2, <1>3, <1>5 DEF projectBridgeDeliveryUpdated
<1>7. /\ q \in ProjectionRows /\ q.message = r.message /\ q.versions = r.versions
      /\ q.receipt = r.receipt /\ q.tombstone = r.tombstone
      /\ q.delivery = r.delivery \/ (q.delivery = x /\ ~(e.at <= r.delivery.at))
  BY Zenon, <1>1, <1>4, <1>5 DEF ProjectionRows
<1>8. r.message.created # 0 => r.message.delivery = r.delivery.at
  BY Zenon DEF ShowsNewest, Shown
<1>9. r.message.created # 0 => q.message.delivery <= q.delivery.at
  BY <1>1, <1>4, <1>7, <1>8
<1>10. Shown(q.message, q.versions, q.message.delivery, q.receipt["read"])
  BY Zenon, <1>7, <1>8 DEF ShowsNewest, Shown
<1>11. \A read, y : Shown(q.message, q.versions, q.message.delivery, read) /\ y = reconcileMessageDelivery(q) =>
          /\ y.versions = q.versions /\ y.delivery = q.delivery
          /\ y.receipt = q.receipt /\ y.tombstone = q.tombstone
          /\ Shown(y.message, y.versions, y.delivery.at, read)
  <2>1. ~OfMessage(q.tombstone) /\ (q.message.created # 0 => q.message.delivery <= q.delivery.at)
    BY Zenon, <1>2, <1>7, <1>9
  <2> QED BY Zenon, <1>7, <2>1, DeliveryShows
<1>12. /\ s.versions = q.versions /\ s.delivery = q.delivery
       /\ s.receipt = q.receipt /\ s.tombstone = q.tombstone
       /\ Shown(s.message, s.versions, s.delivery.at, q.receipt["read"])
  BY Zenon, <1>6, <1>10, <1>11
<1> QED BY Zenon, <1>2, <1>7, <1>12 DEF ShowsNewest

LEMMA ReceiptShows ==
    ASSUME NEW r, RowsHide(r), ShowsNewest(r), NEW e, e.at \in Ranks,
           NEW s, s = projectReceipt(r, e)
    PROVE  ShowsNewest(s)
<1>1. r \in ProjectionRows /\ r.receipt \in ReceiptRows /\ e.at \in Nat
  BY Zenon, RanksPositive DEF RowsHide, ProjectionRows
<1>2. messageIsRedacted(r) = 0 /\ ~OfMessage(r.tombstone)
  BY Zenon, <1>1, RedactedType DEF ShowsNewest
<1>3. PICK type \in {"read", "delivered"} : type = IF e.kind = "receipt.read" THEN "read" ELSE "delivered"
  BY Zenon
<1>4. Shown(r.message, r.versions, r.delivery.at, 0)
  BY Zenon DEF ShowsNewest, Shown
<1>5. ASSUME NEW q, NEW n \in Nat, q = [r EXCEPT !.receipt[type] = n]
      PROVE  /\ q \in ProjectionRows /\ q.message = r.message /\ q.versions = r.versions
             /\ q.delivery = r.delivery /\ q.tombstone = r.tombstone
             /\ type = "delivered" => q.receipt["read"] = r.receipt["read"]
             /\ q.receipt["read"] = 0 \/ q.receipt["read"] = r.receipt["read"] \/ n # 0
  <2>1. PICK x : x = [r.receipt EXCEPT ![type] = n]
    BY Zenon
  <2>2. /\ x \in ReceiptRows /\ (type = "delivered" => x["read"] = r.receipt["read"])
        /\ type = "read" => x["read"] = n
    BY Zenon, <1>1, <1>3, <2>1 DEF ReceiptRows
  <2>3. q = [r EXCEPT !.receipt = x]
    BY <1>1, <1>5, <2>1 DEF ProjectionRows
  <2>4. /\ q \in ProjectionRows /\ q.message = r.message /\ q.versions = r.versions
        /\ q.delivery = r.delivery /\ q.tombstone = r.tombstone /\ q.receipt = x
    BY Zenon, <1>1, <2>2, <2>3 DEF ProjectionRows
  <2> QED BY Zenon, <1>3, <2>2, <2>4
<1>6. CASE r.tombstone["participant"] # 0
  <2>1. s = [r EXCEPT !.receipt[type] = 0] /\ 0 \in Nat
    BY Zenon, <1>3, <1>6 DEF projectReceipt
  <2>2. /\ s.message = r.message /\ s.versions = r.versions
        /\ s.delivery = r.delivery /\ s.tombstone = r.tombstone
        /\ s.receipt["read"] = 0 \/ s.receipt["read"] = r.receipt["read"]
    BY Zenon, <1>5, <2>1
  <2> QED BY Zenon, <1>4, <2>2 DEF ShowsNewest
<1>7. CASE r.tombstone["participant"] = 0 /\ e.at <= r.receipt[type]
  BY Zenon, <1>2, <1>3, <1>7 DEF projectReceipt
<1>8. CASE r.tombstone["participant"] = 0 /\ ~(e.at <= r.receipt[type])
  <2>1. PICK q : q = [r EXCEPT !.receipt[type] = e.at]
    BY Zenon
  <2>2. /\ q \in ProjectionRows /\ q.message = r.message /\ q.versions = r.versions
        /\ q.delivery = r.delivery /\ q.tombstone = r.tombstone
        /\ type = "delivered" => q.receipt["read"] = r.receipt["read"]
    BY Zenon, <1>1, <1>5, <2>1
  <2>3. s = IF type = "read" THEN reconcileMessageLocalRead(q) ELSE q
    BY Zenon, <1>2, <1>3, <1>8, <2>1 DEF projectReceipt
  <2>4. CASE type = "read"
    <3>1. /\ ~OfMessage(q.tombstone) /\ \A v \in q.versions : v.body = v.at
          /\ Shown(q.message, q.versions, q.delivery.at, 0)
      BY Zenon, <1>2, <1>4, <2>2 DEF ShowsNewest
    <3>2. s = reconcileMessageLocalRead(q)
      BY Zenon, <2>3, <2>4
    <3> QED BY Zenon, <2>2, <3>1, <3>2, LocalReadShows
  <2>5. CASE type = "delivered"
    <3>1. s = q
      BY <2>3, <2>5
    <3> QED BY Zenon, <2>2, <2>5, <3>1 DEF ShowsNewest
  <2> QED BY Zenon, <1>3, <2>4, <2>5
<1> QED BY Zenon, <1>6, <1>7, <1>8

\* The deletion of the participant takes no version away.
LEMMA UnsignedShows ==
    ASSUME NEW r \in ProjectionRows, ShowsNewest(r), NEW t, NEW s, s = redactParticipant(r, t)
    PROVE  ShowsNewest(s)
<1>1. r.versions \in SUBSET Versions /\ r.message \in Messages
  BY Zenon DEF ProjectionRows
<1>2. PICK V : V = {[v EXCEPT !.editor = 0] : v \in r.versions}
  BY Zenon
<1>3. \A v \in Versions : /\ [v EXCEPT !.editor = 0].body = v.body
                          /\ [v EXCEPT !.editor = 0].kind = v.kind
                          /\ [v EXCEPT !.editor = 0].at = v.at
  BY Zenon DEF Versions
<1>4. /\ \A v \in V : \E w \in r.versions : v.at = w.at /\ v.kind = w.kind /\ v.body = w.body
      /\ \A w \in r.versions : \E v \in V : v.at = w.at /\ v.kind = w.kind
  <2>1. ASSUME NEW v \in V PROVE \E w \in r.versions : v.at = w.at /\ v.kind = w.kind /\ v.body = w.body
    <3>1. PICK w \in r.versions : v = [w EXCEPT !.editor = 0]
      BY Zenon, <1>2
    <3> QED BY Zenon, <1>1, <1>3, <3>1
  <2>2. ASSUME NEW w \in r.versions PROVE \E v \in V : v.at = w.at /\ v.kind = w.kind
    <3>1. [w EXCEPT !.editor = 0] \in V /\ w \in Versions
      BY Zenon, <1>1, <1>2
    <3> QED BY Zenon, <1>3, <3>1
  <2> QED BY Zenon, <2>1, <2>2
<1>5. PICK x : x = [r.message EXCEPT !.sender = 0]
  BY Zenon
<1>6. SameMessage(x, r.message)
  BY ZenonT(60), <1>1, <1>5 DEF Messages, SameMessage
<1>7. /\ s.message = x /\ s.versions = V /\ s.delivery = r.delivery
      /\ s.receipt = NoRows.receipt /\ s.tombstone = r.tombstone
  BY <1>2, <1>5 DEF redactParticipant, ProjectionRows
<1>8. s.receipt["read"] = 0
  BY Zenon, <1>7, EmptyRows
<1>9. \A v \in V : v.body = v.at
  BY ZenonT(60), <1>4 DEF ShowsNewest
<1>10. Shown(x, r.versions, r.delivery.at, 0)
  BY Zenon, <1>6 DEF ShowsNewest, Shown, SameMessage
<1>11. Shown(x, V, r.delivery.at, 0)
  <2>1. CASE x.created = 0
    BY ZenonT(60), <1>4, <1>10, <2>1 DEF Shown
  <2>2. CASE x.created # 0
    <3>1. \E v \in V : v.kind = "created" /\ v.at = x.created
      <4>1. PICK w \in r.versions : w.kind = "created" /\ w.at = x.created
        BY Zenon, <1>10, <2>2 DEF Shown
      <4>2. PICK v \in V : v.at = w.at /\ v.kind = w.kind
        BY Zenon, <1>4
      <4> QED BY <4>1, <4>2
    <3>2. \E v \in V : v.at = x.current
      <4>1. PICK w \in r.versions : w.at = x.current
        BY Zenon, <1>10, <2>2 DEF Shown
      <4>2. PICK v \in V : v.at = w.at
        BY Zenon, <1>4
      <4> QED BY <4>1, <4>2
    <3>3. ASSUME NEW v \in V
          PROVE  (v.kind = "created" => v.at <= x.created) /\ v.at <= x.current
      <4>1. PICK w \in r.versions : v.at = w.at /\ v.kind = w.kind
        BY Zenon, <1>4
      <4>2. (w.kind = "created" => w.at <= x.created) /\ w.at <= x.current
        BY Zenon, <1>10, <2>2 DEF Shown
      <4> QED BY <4>1, <4>2
    <3> QED BY Zenon, <1>10, <2>2, <3>1, <3>2, <3>3 DEF Shown
  <2> QED BY Zenon, <2>1, <2>2
<1> QED BY Zenon, <1>7, <1>8, <1>9, <1>11 DEF ShowsNewest

LEMMA DeletionShows ==
    ASSUME NEW r, RowsHide(r), r.conversation.shell # 0, ShowsNewest(r), NEW e, e.at \in Ranks,
           e.kind \in {"participant.tombstone", "attachment.tombstone"},
           NEW s, s = projectDeletionTombstone(r, e)
    PROVE  ShowsNewest(s)
<1>1. PICK x \in {"participant", "attachment"} : x = DeletionTarget[e.kind]
  BY DEF DeletionTarget
<1>2. PICK m : m = upsertResourceTombstone(r, x, e)
  BY Zenon
<1>3. Marked(r, m, x)
  BY Zenon, <1>1, <1>2, MarkTombstone DEF Resources
<1>4. /\ m \in ProjectionRows /\ m.message = r.message /\ m.versions = r.versions
      /\ m.delivery = r.delivery /\ m.receipt = r.receipt
      /\ m.tombstone["message"] = r.tombstone["message"]
      /\ m.tombstone["conversation"] = r.tombstone["conversation"]
  BY Zenon, <1>1, <1>3 DEF Marked, Resources
<1>5. ShowsNewest(m)
  BY Zenon, <1>4 DEF ShowsNewest, OfMessage
<1>6. CASE x = "participant"
  <2>1. \E t : s = redactParticipant(m, t)
    BY Zenon, <1>1, <1>2, <1>6 DEF projectDeletionTombstone
  <2> QED BY Zenon, <1>4, <1>5, <2>1, UnsignedShows
<1>7. CASE x = "attachment"
  <2>1. PICK t : s = redactAttachment(m, t)
    BY Zenon, <1>1, <1>2, <1>7 DEF projectDeletionTombstone
  <2>2. SameContent(m, s)
    BY <1>4, <2>1 DEF redactAttachment, SameContent, ProjectionRows
  <2> QED BY Zenon, <1>5, <2>2, ContentFrame
<1> QED BY Zenon, <1>1, <1>6, <1>7

LEMMA SummariesShow ==
    ASSUME NEW r \in ProjectionRows, ShowsNewest(r), NEW s, s = recomputeConversationSummaries(r)
    PROVE  ShowsNewest(s)
<1>1. r.message \in Messages
  BY Zenon DEF ProjectionRows
<1>2. /\ s.versions = r.versions /\ s.delivery = r.delivery
      /\ s.receipt = r.receipt /\ s.tombstone = r.tombstone
      /\ s.message = r.message \/ \E n : s.message = [r.message EXCEPT !.attachments = n]
  BY Zenon DEF recomputeConversationSummaries, ProjectionRows
<1>3. \A n : SameMessage([r.message EXCEPT !.attachments = n], r.message)
  BY ZenonT(60), <1>1 DEF Messages, SameMessage
<1>4. SameMessage(s.message, r.message)
  <2>1. CASE s.message = r.message
    BY <2>1 DEF SameMessage
  <2>2. CASE \E n : s.message = [r.message EXCEPT !.attachments = n]
    <3>1. PICK n : s.message = [r.message EXCEPT !.attachments = n]
      BY Zenon, <2>2
    <3> QED BY Zenon, <1>3, <3>1
  <2> QED BY Zenon, <1>2, <2>1, <2>2
<1>5. ~OfMessage(s.tombstone)
  BY Zenon, <1>2 DEF ShowsNewest
<1> QED BY Zenon, <1>2, <1>4, <1>5, NewestFrame

\* The redaction pass for the participant and the attachment.
LEMMA PassShows ==
    ASSUME NEW r, RowsHide(r), ShowsNewest(r), NEW removals,
           removals \cap {"message", "conversation"} = {},
           NEW s, s = reapplyExternalRemovalRedactions(r, removals)
    PROVE  ShowsNewest(s)
<1>1. "message" \notin removals /\ "conversation" \notin removals
  BY Zenon
<1>2. PICK b : b = IF "attachment" \in removals THEN reapplyRemoval(r, "attachment") ELSE r
  BY Zenon
<1>3. s = IF "participant" \in removals THEN reapplyRemoval(b, "participant") ELSE b
  BY Zenon, <1>1, <1>2 DEF reapplyExternalRemovalRedactions
<1>4. RowsHide(b)
  BY Zenon, <1>2, PassHides DEF Resources
<1>5. ShowsNewest(b)
  <2>1. CASE "attachment" \in removals
    <3>1. b = reapplyAttachmentRemoval(r) /\ r \in ProjectionRows
      BY Zenon, <1>2, <2>1 DEF reapplyRemoval, RowsHide
    <3>2. SameContent(r, b)
      BY <3>1 DEF reapplyAttachmentRemoval, SameContent, ProjectionRows
    <3> QED BY Zenon, <3>2, ContentFrame
  <2> QED BY Zenon, <1>2, <2>1
<1>6. CASE "participant" \in removals
  <2>1. s = reapplyParticipantRemoval(b) /\ b \in ProjectionRows /\ b.message \in Messages
    BY Zenon, <1>3, <1>4, <1>6 DEF reapplyRemoval, RowsHide, ProjectionRows
  <2>2. PICK x : x = [b.message EXCEPT !.sender = 0]
    BY Zenon
  <2>3. SameMessage(x, b.message)
    BY ZenonT(60), <2>1, <2>2 DEF Messages, SameMessage
  <2>4. /\ s.message = x /\ s.versions = b.versions /\ s.delivery = b.delivery
        /\ s.receipt = b.receipt /\ s.tombstone = b.tombstone
    BY <2>1, <2>2 DEF reapplyParticipantRemoval, ProjectionRows
  <2>5. ~OfMessage(s.tombstone)
    BY Zenon, <1>5, <2>4 DEF ShowsNewest
  <2> QED BY Zenon, <1>5, <2>3, <2>4, <2>5, NewestFrame
<1> QED BY Zenon, <1>3, <1>5, <1>6

LEMMA EventShows ==
    ASSUME NEW r, RowsHide(r), ShowsNewest(r), NEW e, e.at \in Ranks,
           e.kind \in AllKinds \ {"message.deleted", "conversation.tombstone"},
           NEW s, s = projectEvent(r, e)
    PROVE  ShowsNewest(s)
<1>1. PICK q : q = ensureConversationShell(r, e)
  BY Zenon
<1>2. RowsHide(q) /\ q.conversation.shell # 0 /\ q \in ProjectionRows
  BY Zenon, <1>1, ShellHides DEF RowsHide
<1>3. ShowsNewest(q)
  <2>1. r \in ProjectionRows
    BY Zenon DEF RowsHide
  <2> QED BY Zenon, <1>1, <2>1, ShellContent, ContentFrame
<1>4. \A y : SameContent(q, y) => ShowsNewest(y)
  BY Zenon, <1>3, ContentFrame
<1>5. CASE e.kind \in {"conversation.updated", "participant.updated", "reaction.added", "reaction.removed"}
  <2>1. \/ s = projectConversationUpdated(q, e) \/ s = projectParticipantUpdated(q, e)
        \/ s = projectReactionAdded(q, e) \/ s = projectReactionRemoved(q, e)
    BY Zenon, <1>1, <1>5, DeletionKinds DEF projectEvent
  <2> QED BY Zenon, <1>2, <1>4, <2>1, OtherContent
<1>6. CASE e.kind \in {"typing.started", "typing.stopped", "attachment.observed", "command.updated",
                       "replay.tombstone"}
  <2>1. \/ s = projectTyping(q, e) \/ s = projectAttachmentObserved(q, e)
        \/ s = projectCommandUpdated(q, e) \/ s = projectEventMarker(q, e)
    BY Zenon, <1>1, <1>6, DeletionKinds DEF projectEvent
  <2> QED BY Zenon, <1>2, <1>4, <2>1, OtherContent
<1>7. CASE e.kind = "message.created"
  <2>1. s = projectMessageCreated(q, e)
    BY Zenon, <1>1, <1>7, DeletionKinds DEF projectEvent
  <2> QED BY Zenon, <1>2, <1>3, <2>1, CreatedShows
<1>8. CASE e.kind = "message.edited"
  <2>1. s = projectMessageEdited(q, e)
    BY Zenon, <1>1, <1>8, DeletionKinds DEF projectEvent
  <2> QED BY Zenon, <1>2, <1>3, <2>1, EditedShows
<1>9. CASE e.kind \in {"receipt.read", "receipt.delivered"}
  <2>1. s = projectReceipt(q, e)
    BY Zenon, <1>1, <1>9, DeletionKinds DEF projectEvent
  <2> QED BY Zenon, <1>2, <1>3, <2>1, ReceiptShows
<1>10. CASE e.kind = "bridge.delivery.updated"
  <2>1. s = projectBridgeDeliveryUpdated(q, e)
    BY Zenon, <1>1, <1>10, DeletionKinds DEF projectEvent
  <2> QED BY Zenon, <1>2, <1>3, <2>1, DeliveryUpdateShows
<1>11. CASE e.kind \in {"participant.tombstone", "attachment.tombstone"}
  <2>1. s = projectDeletionTombstone(q, e)
    BY Zenon, <1>1, <1>11, DeletionKinds DEF projectEvent
  <2> QED BY Zenon, <1>2, <1>3, <1>11, <2>1, DeletionShows
<1> QED BY Zenon, <1>5, <1>6, <1>7, <1>8, <1>9, <1>10, <1>11, DeletionKinds DEF AllKinds

LEMMA NewestInitInv == ProjectorInit => NewestInv
<1> SUFFICES ASSUME ProjectorInit PROVE NewestInv
  BY Zenon
<1>1. rows = NoRows /\ rows.versions = {} /\ rows.message = MessageRow
      /\ rows.tombstone = [resource \in Resources |-> 0]
  BY Zenon DEF ProjectorInit, NoRows
<1>2. ~OfMessage(rows.tombstone)
  BY Zenon, <1>1 DEF OfMessage, Resources
<1>3. MessageRow.created = 0
  BY Zenon DEF MessageRow
<1> QED BY Zenon, <1>1, <1>2, <1>3 DEF NewestInv, ShowsNewest, Shown

LEMMA NewestNextInv == ProjectorInv /\ NewestInv /\ [ProjectorNext]_projectorVars => NewestInv'
<1> SUFFICES ASSUME ProjectorInv, NewestInv, [ProjectorNext]_projectorVars,
                    authorities' \cap {"message", "conversation"} = {}
             PROVE  ShowsNewest(rows')
  BY Zenon DEF NewestInv
<1>1. RowsHide(rows)
  BY Zenon DEF ProjectorInv
<1>2. ASSUME NEW kind \in Kinds, NEW n \in Ranks, applyPreparedBatch(kind, n) PROVE ShowsNewest(rows')
  <2>1. PICK e : e = [kind |-> kind, at |-> n]
    BY Zenon
  <2>2. e.at \in Ranks /\ e.kind \in AllKinds /\ e.kind = kind
    BY Zenon, <2>1, ProjectorConstants
  <2>3. authorities \subseteq authorities'
    BY Zenon, <1>2 DEF applyPreparedBatch
  <2>4. kind \in DOMAIN DeletionTarget => DeletionTarget[kind] \in authorities'
    BY Zenon, <1>2 DEF applyPreparedBatch
  <2>5. kind \notin {"message.deleted", "conversation.tombstone"}
    BY <2>4 DEF DeletionTarget
  <2>6. ShowsNewest(rows)
    BY Zenon, <2>3 DEF NewestInv
  <2>7. PICK q : q = projectEvent(rows, e)
    BY Zenon
  <2>8. RowsHide(q)
    BY Zenon, <1>1, <2>2, <2>7, EventHides
  <2>9. ShowsNewest(q)
    BY Zenon, <1>1, <2>2, <2>5, <2>6, <2>7, EventShows
  <2>10. rows' = recomputeConversationSummaries(q)
    BY Zenon, <1>2, <2>1, <2>7 DEF applyPreparedBatch
  <2> QED BY Zenon, <2>8, <2>9, <2>10, SummariesShow DEF RowsHide
<1>3. CASE reapplyRedactions
  <2>1. rows' = reapplyExternalRemovalRedactions(rows, authorities) /\ authorities' = authorities
    BY Zenon, <1>3 DEF reapplyRedactions
  <2>2. ShowsNewest(rows)
    BY Zenon, <2>1 DEF NewestInv
  <2>3. authorities \cap {"message", "conversation"} = {}
    BY Zenon, <2>1
  <2> QED BY Zenon, <1>1, <2>1, <2>2, <2>3, PassShows
<1>4. ASSUME NEW resource \in Removable, recordRemovalAuthority(resource) PROVE ShowsNewest(rows')
  <2>1. rows' = rows /\ authorities \subseteq authorities'
    BY Zenon, <1>4 DEF recordRemovalAuthority
  <2> QED BY Zenon, <2>1 DEF NewestInv
<1>5. CASE UNCHANGED projectorVars
  <2>1. rows' = rows /\ authorities' = authorities
    BY Zenon, <1>5 DEF projectorVars
  <2> QED BY Zenon, <2>1 DEF NewestInv
<1> QED BY Zenon, <1>2, <1>3, <1>4, <1>5 DEF ProjectorNext

LEMMA ShowsEnough == ProjectorInv /\ NewestInv => MessageShowsTheNewest
<1> SUFFICES ASSUME ProjectorInv, NewestInv, rows.message.created # 0,
                    {"message", "conversation"} \cap authorities = {}
             PROVE  LET m == rows.message
                        created == {v.at : v \in {w \in rows.versions : w.kind = "created"}}
                    IN  /\ m.body = readLatest(rows.versions).at
                        /\ \A at \in created : at <= m.created
                        /\ m.status = IF rows.delivery.at # 0 THEN rows.delivery.at ELSE m.created
                        /\ rows.receipt["read"] # 0 => ~m.unread
                        /\ ~m.unread => m.localRead # 0
  BY Zenon DEF MessageShowsTheNewest
<1>1. ShowsNewest(rows)
  BY Zenon DEF NewestInv
<1>2. Shown(rows.message, rows.versions, rows.delivery.at, rows.receipt["read"])
  BY Zenon, <1>1 DEF ShowsNewest
<1>3. rows \in ProjectionRows /\ rows.message.unread \in BOOLEAN /\ rows.message.current \in Nat
  BY Zenon DEF ProjectorInv, RowsHide, ProjectionRows, Messages
<1>4. \A v \in rows.versions : v.at \in Nat
  BY Zenon, <1>3 DEF ProjectionRows, Versions
<1>5. rows.message.body = readLatest(rows.versions).at
  <2>1. PICK o \in rows.versions : o.at = rows.message.current
    BY Zenon, <1>2 DEF Shown
  <2>2. \A v \in rows.versions : v.at <= rows.message.current
    BY Zenon, <1>2 DEF Shown
  <2>3. ASSUME NEW v \in rows.versions PROVE o.at >= v.at
    <3>1. v.at \in Nat /\ v.at <= rows.message.current
      BY Zenon, <1>4, <2>2
    <3> QED BY <1>3, <2>1, <3>1
  <2>4. PICK latest : latest = readLatest(rows.versions)
    BY Zenon
  <2>5. latest \in rows.versions /\ \A v \in rows.versions : latest.at >= v.at
    BY Zenon, <2>3, <2>4 DEF readLatest
  <2>6. latest.at \in Nat /\ latest.at <= rows.message.current /\ latest.at >= o.at
    BY Zenon, <1>4, <2>2, <2>5
  <2>7. latest.at = rows.message.current
    BY <1>3, <2>1, <2>6
  <2>8. rows.message.body = rows.message.current
    BY Zenon, <1>2 DEF Shown
  <2> QED BY Zenon, <2>4, <2>7, <2>8
<1>6. \A at \in {v.at : v \in {w \in rows.versions : w.kind = "created"}} : at <= rows.message.created
  BY Zenon, <1>2 DEF Shown
<1>7. /\ rows.message.status = IF rows.delivery.at # 0 THEN rows.delivery.at ELSE rows.message.created
      /\ rows.receipt["read"] # 0 => ~rows.message.unread
      /\ ~rows.message.unread => rows.message.localRead # 0
  BY Zenon, <1>2, <1>3 DEF Shown
<1> QED BY Zenon, <1>5, <1>6, <1>7

\* A message nobody removed shows its newest version, the newest delivery
\* status and the local read mark, whatever order its events, its versions and
\* the redaction passes of other resources come in (projectMessageCreated,
\* applyCurrentMessageVersion, reconcileWinningCreatedFields).
THEOREM NewestAlwaysShown == ProjectorSpec => []MessageShowsTheNewest
<1>1. ProjectorInit => ProjectorInv /\ NewestInv
  BY Zenon, ProjectorInitInv, NewestInitInv
<1>2. (ProjectorInv /\ NewestInv) /\ [ProjectorNext]_projectorVars => (ProjectorInv /\ NewestInv)'
  BY ProjectorNextInv, NewestNextInv
<1>3. ProjectorInv /\ NewestInv => MessageShowsTheNewest
  BY Zenon, ShowsEnough
<1> QED BY <1>1, <1>2, <1>3, PTL DEF ProjectorSpec
=============================================================================
