--------------------------- MODULE AccountGrants ---------------------------
(***************************************************************************)
(* The delegated account grants of one tenant in D1 (`account_grants` with *)
(* `account_grant_chats`), the epoch fence that the triggers of migration  *)
(* 0025 keep for each of them, the idempotency records of the directory    *)
(* mutations, and the completion of a group creation, which grants access  *)
(* to the new chat from rows it read in an earlier statement.  A D1 batch  *)
(* is one transaction, hence one action.  One identity and one account     *)
(* stand for the rest of a grant's unique key.                             *)
(***************************************************************************)
EXTENDS Naturals, FiniteSets

CONSTANTS
    Grants,       \* account grant ids
    Members,      \* membership ids
    Ops,          \* operation scopes
    Chats,        \* conversation ids of the account
    MutationKeys, \* idempotency keys of the directory mutations
    None,         \* no row
    MaxEpoch      \* bound: directory changes stop once a head reaches it

ASSUME ChatsAssumption == IsFiniteSet(Chats)
ASSUME MaxEpochAssumption == MaxEpoch \in Nat

VARIABLES
    grants,       \* the rows by id, None when there is no row
    heads,        \* outbound_authority_heads of the grants; 0 is no row
    recorded,     \* directory_mutations: the request recorded under a key
    group         \* what finishGroupCreationOperation has read, or None

grantVars == <<grants, heads, recorded, group>>

Scopes == {"all_chats", "selected_chats"}
GrantRow == [status: {"active", "revoked"}, member: Members, op: Ops,
             scope: Scopes, chats: SUBSET Chats, epoch: Nat]
\* A request of the grant routes; the chats are those of validateChatScope
Request == [type: {"create"}, id: Grants, member: Members, op: Ops, chats: SUBSET Chats]
             \cup [type: {"update"}, id: Grants, op: Ops, chats: SUBSET Chats]
             \cup [type: {"revoke"}, id: Grants]
Completion == [member: Members, op: Ops, chat: Chats, id: Grants,
               seen: {"none", "active", "revoked"}]

ASSUME NoneAssumption == None \notin GrantRow /\ None \notin Completion

Existing == {g \in Grants : grants[g] # None}
\* The row of the unique key (member, op), as a set of at most one id
Keyed(m, op) == {g \in Existing : grants[g].member = m /\ grants[g].op = op}
\* What a row lets its member reach
Allowed(row) == IF row = None \/ row.status = "revoked" THEN {}
                ELSE IF row.scope = "all_chats" THEN Chats ELSE row.chats

ChatScope(chats) == IF chats = {} THEN "all_chats" ELSE "selected_chats"

\* Cap on the exploration: grants are edited while every head is below it
Bounded == \A g \in Grants : heads[g] < MaxEpoch

-----------------------------------------------------------------------------
(* The epoch fence.  A statement on the grant row fires the insert or the  *)
(* update trigger, and each chat row deleted or inserted fires a chat      *)
(* trigger; every one advances the head and copies it into the row.        *)

Max2(a, b) == IF a >= b THEN a ELSE b

\* The columns the update trigger compares; a revocation always writes revoked_at
RowChanges(g, row) ==
    \/ grants[g] = None
    \/ row.status = "revoked"
    \/ row.status # grants[g].status
    \/ row.op # grants[g].op
    \/ row.scope # grants[g].scope

\* Faulty variant: an unused id starts again at epoch one
HeadAfterRestarting(g, row, chatRows) ==
    (IF ~RowChanges(g, row) THEN heads[g]
     ELSE IF grants[g] = None THEN 1 ELSE Max2(heads[g] + 1, row.epoch)) + chatRows

HeadAfter(g, row, chatRows) ==
    (IF RowChanges(g, row) THEN Max2(heads[g] + 1, row.epoch) ELSE heads[g]) + chatRows

\* The row as the triggers leave it; chatRows counts the chat rows deleted and
\* inserted
Fenced(g, row, chatRows) ==
    IF RowChanges(g, row) \/ chatRows > 0
      THEN [row EXCEPT !.epoch = HeadAfter(g, row, chatRows)]
      ELSE row

Write(g, row, chatRows) ==
    /\ grants' = [grants EXCEPT ![g] = Fenced(g, row, chatRows)]
    /\ heads' = [heads EXCEPT ![g] = HeadAfter(g, row, chatRows)]

\* UPDATE account_grants SET authorization_epoch = authorization_epoch + 1 on
\* the rows S, as the triggers of the other directory tables do
Advanced(S) ==
    /\ grants' = [g \in Grants |-> IF g \notin S \cap Existing THEN grants[g]
                    ELSE [grants[g] EXCEPT !.epoch = Max2(heads[g], @ + 1)]]
    /\ heads' = [g \in Grants |-> IF g \notin S \cap Existing THEN heads[g]
                    ELSE Max2(heads[g], grants[g].epoch + 1)]

-----------------------------------------------------------------------------
(* The mutations of control-directory/grants.ts.  Each batch first records *)
(* the request under its key: another request under the same key aborts    *)
(* the batch, the same request under the same key runs it again.           *)

Record(k, request) ==
    /\ recorded[k] \in {None, request}
    /\ recorded' = [recorded EXCEPT ![k] = request]

NewRow(m, op, chats) ==
    [status |-> "active", member |-> m, op |-> op, scope |-> ChatScope(chats),
     chats |-> chats, epoch |-> 1]

\* createAccountGrant: a new row, or the existing row of the key made active
\* with the requested chats.  id is what the request resolved before its batch.
Create(id, m, op, chats) ==
    \/ /\ Keyed(m, op) = {} /\ id \notin Existing
       /\ Write(id, NewRow(m, op, chats), Cardinality(chats))
    \/ /\ Keyed(m, op) = {id}
       /\ LET row == grants[id]
              new == [row EXCEPT !.status = "active", !.scope = ChatScope(chats), !.chats = chats]
          IN Write(id, new, Cardinality(row.chats) + Cardinality(chats))
    \* the id was resolved before another request inserted the key: the upsert
    \* reaches the other row, and a chat row of the absent id aborts the batch
    \/ \E g \in Keyed(m, op) :
         /\ id \notin Existing /\ chats = {}
         /\ LET row == grants[g]
                new == [row EXCEPT !.status = "active", !.scope = "all_chats"]
            IN Write(g, new, 0)

\* updateAccountGrant: replace the scope and the chats, and make the row active
Update(id, op, chats) ==
    /\ id \in Existing
    /\ Keyed(grants[id].member, op) \subseteq {id}
    /\ LET row == grants[id]
           new == [row EXCEPT !.status = "active", !.op = op, !.scope = ChatScope(chats),
                              !.chats = chats]
       IN Write(id, new, Cardinality(row.chats) + Cardinality(chats))

\* revokeAccountGrant: revoked_at changes every time, the chats stay
Revoke(id) ==
    id \in Existing /\ Write(id, [grants[id] EXCEPT !.status = "revoked"], 0)

CreateAccountGrant(k, id, m, op, chats) ==
    /\ Bounded
    /\ Record(k, [type |-> "create", id |-> id, member |-> m, op |-> op, chats |-> chats])
    /\ Create(id, m, op, chats)
    /\ UNCHANGED group

UpdateAccountGrant(k, id, op, chats) ==
    /\ Bounded
    /\ Record(k, [type |-> "update", id |-> id, op |-> op, chats |-> chats])
    /\ Update(id, op, chats)
    /\ UNCHANGED group

RevokeAccountGrant(k, id) ==
    /\ Bounded
    /\ Record(k, [type |-> "revoke", id |-> id])
    /\ Revoke(id)
    /\ UNCHANGED group

\* An operator deletes a row; its id may be inserted again later
DeleteAccountGrant(id) ==
    /\ Bounded /\ id \in Existing
    /\ grants' = [grants EXCEPT ![id] = None]
    /\ heads' = [heads EXCEPT ![id] = Max2(@ + 1, grants[id].epoch + 1)]
    /\ UNCHANGED <<recorded, group>>

-----------------------------------------------------------------------------
(* finishGroupCreationOperation: the SELECT of the member's grant, then    *)
(* the batch, which other requests may precede.  The read and the send     *)
(* scope are granted alike; one of them is modelled at a time.             *)

ReadExistingGrant(m, op, ch, fresh) ==
    /\ group = None /\ fresh \notin Existing
    /\ group' = [member |-> m, op |-> op, chat |-> ch,
                 id |-> IF Keyed(m, op) = {} THEN fresh ELSE CHOOSE g \in Keyed(m, op) : TRUE,
                 seen |-> IF Keyed(m, op) = {} THEN "none"
                          ELSE grants[CHOOSE g \in Keyed(m, op) : TRUE].status]
    /\ UNCHANGED <<grants, heads, recorded>>

\* The chat rows the batch keeps: all of them unless the grant was read revoked
KeptChats(row) == IF group.seen = "revoked" THEN {} ELSE row.chats

\* Faulty variant: the chat row of the new group is not inserted
ReopenedWithoutChat(row) ==
    [row EXCEPT !.status = "active",
                !.scope = IF row.status = "revoked" THEN "selected_chats" ELSE @,
                !.chats = KeptChats(row)]

\* What the upsert makes of a row: the CASE narrows a grant it finds revoked
Reopened(row) ==
    [row EXCEPT !.status = "active",
                !.scope = IF row.status = "revoked" THEN "selected_chats" ELSE @,
                !.chats = KeptChats(row) \cup {group.chat}]

FinishGroupCreation ==
    /\ Bounded /\ group # None
    /\ \/ /\ Keyed(group.member, group.op) = {} /\ group.id \notin Existing
          /\ Write(group.id, [NewRow(group.member, group.op, {group.chat}) EXCEPT !.scope = "selected_chats"], 1)
       \/ /\ Keyed(group.member, group.op) = {group.id}
          /\ LET row == grants[group.id]
                 new == Reopened(row)
             IN Write(group.id, new, Cardinality(row.chats \ KeptChats(row))
                                       + Cardinality({group.chat} \ KeptChats(row)))
    /\ group' = None
    /\ UNCHANGED recorded

\* The batch fails: D1 is unavailable, a key or an id it read is taken by
\* another row, or the statement of the other scope fails
GroupCompletionFails ==
    /\ group # None
    /\ group' = None
    /\ UNCHANGED <<grants, heads, recorded>>

-----------------------------------------------------------------------------
GrantInit ==
    /\ grants = [g \in Grants |-> None]
    /\ heads = [g \in Grants |-> 0]
    /\ recorded = [k \in MutationKeys |-> None]
    /\ group = None

GrantNext ==
    \/ \E k \in MutationKeys, id \in Grants, op \in Ops, chats \in SUBSET Chats :
         \/ \E m \in Members : CreateAccountGrant(k, id, m, op, chats)
         \/ UpdateAccountGrant(k, id, op, chats)
    \/ \E k \in MutationKeys, id \in Grants : RevokeAccountGrant(k, id)
    \/ \E id \in Grants : DeleteAccountGrant(id)
    \/ \E m \in Members, op \in Ops, ch \in Chats, fresh \in Grants :
         ReadExistingGrant(m, op, ch, fresh)
    \/ FinishGroupCreation \/ GroupCompletionFails

GrantSpec == GrantInit /\ [][GrantNext]_grantVars

-----------------------------------------------------------------------------
GrantTypeOK ==
    /\ grants \in [Grants -> GrantRow \cup {None}]
    /\ heads \in [Grants -> Nat]
    /\ recorded \in [MutationKeys -> Request \cup {None}]
    /\ group \in Completion \cup {None}

\* The epoch of every grant is the epoch its head remembers (migration 0025),
\* so no statement can leave a row behind its fence.
EpochAtHead == \A g \in Existing : grants[g].epoch = heads[g] /\ heads[g] >= 1

\* At most one grant exists for a member and an operation scope, whichever of
\* the routes and the group completion wrote it.
OneGrantPerKey ==
    \A g1, g2 \in Existing : g1 # g2 =>
        grants[g1].member # grants[g2].member \/ grants[g1].op # grants[g2].op

\* A selected-chats grant names at least one chat: neither a mutation nor the
\* chat rows cleared by a group completion can leave one that allows nothing.
SelectedNamesChats ==
    \A g \in Existing : grants[g].scope = "selected_chats" => grants[g].chats # {}

\* The rows say one thing for each member and scope, and a selection is never
\* empty, whichever mutation or completion wrote them from rows it read before.
GrantRowsAreSound == OneGrantPerKey /\ SelectedNamesChats

\* Whatever a grant allows changes only together with its epoch, and an epoch
\* never comes back, even for an id that was deleted and inserted again.
FenceAdvances ==
    [][\A g \in Grants :
         /\ heads'[g] >= heads[g]
         /\ grants'[g] # grants[g] => heads'[g] > heads[g]]_grantVars

\* Repeating a directory mutation under the same idempotency key changes no
\* grant ("repeating the same idempotency key is harmless").  It does not hold:
\* the repeat runs the same statements again, after whatever came in between.
RepeatIsHarmless ==
    [][\A k \in MutationKeys, op \in Ops, chats \in SUBSET Chats, id \in Grants :
         recorded[k] # None /\ (\/ UpdateAccountGrant(k, id, op, chats)
                                 \/ \E m \in Members : CreateAccountGrant(k, id, m, op, chats)) =>
           \A g \in Grants : Allowed(grants'[g]) = Allowed(grants[g])]_grantVars

\* A grant that was revoked when a group completion reuses it allows the chat
\* of the new group and nothing else.  It does not hold: the chats of the grant
\* are removed only if the completion's SELECT already saw it revoked.
ReusedAfterRemovingRows ==
    [][\A g \in Existing :
         grants[g].status = "revoked" /\ FinishGroupCreation /\ grants'[g] # grants[g] =>
           grants'[g].scope = "selected_chats" /\ grants'[g].chats = {group.chat}]_grantVars
=============================================================================
