---------------------------- MODULE AccessProofs ----------------------------
(***************************************************************************)
(* Proofs about who may send and who is told.                              *)
(*                                                                         *)
(* AccountGrants and OutboundAuthority, for any grants, members, chats and *)
(* keys: the epoch of every grant stays at its head, whatever a grant      *)
(* allows changes only with its epoch, the rows say one thing for a member *)
(* and scope, and no provider claim follows an interruption of the         *)
(* authority it was reserved with.                                         *)
(*                                                                         *)
(* Realtime, for any sockets, batches, rebuilds and lengths of feed: the   *)
(* browser's position never passes a change it was not told of, and        *)
(* nothing is broadcast after the revocation.                              *)
(***************************************************************************)
EXTENDS OutboundAuthority, Realtime, FiniteSetTheorems, TLAPS

-----------------------------------------------------------------------------
(* The effect of one statement on the grant rows and their heads *)

\* What a transaction may do to the grants and their fence
GrantsStep ==
    /\ grants' \in [Grants -> GrantRow \cup {None}] /\ heads' \in [Grants -> Nat]
    /\ EpochAtHead'
    /\ \A g \in Grants : heads'[g] >= heads[g]
    /\ \A g \in Grants : heads'[g] = heads[g] => grants'[g] = grants[g]

\* The number of chat rows is a natural number.
LEMMA ChatRows == \A S \in SUBSET Chats : Cardinality(S) \in Nat
BY Zenon, ChatsAssumption, FS_Subset, FS_CardinalityType

\* A set of chats with no rows is empty.
LEMMA NoChatRows == \A S \in SUBSET Chats : Cardinality(S) = 0 => S = {}
BY Zenon, ChatsAssumption, FS_Subset, FS_EmptySet

\* One statement on one row, with the chat rows it deletes and inserts, keeps
\* the epoch of the row at its head and never changes the row without advancing it.
LEMMA WriteStep ==
    ASSUME GrantTypeOK, EpochAtHead, NEW g \in Grants, NEW row \in GrantRow, NEW n \in Nat,
           Write(g, row, n),
           grants[g] = None => row.epoch = 1,
           grants[g] # None => row.epoch = grants[g].epoch /\ row.member = grants[g].member,
           n = 0 /\ grants[g] # None => row.chats = grants[g].chats
    PROVE  GrantsStep
<1>1. PICK h : h = HeadAfter(g, row, n)
  BY Zenon
<1>2. heads[g] \in Nat /\ row.epoch \in Nat
  BY Zenon DEF GrantTypeOK, GrantRow
<1>3. (grants[g] # None => row.epoch = heads[g]) /\ row.epoch <= heads[g] + 1
  BY <1>2 DEF EpochAtHead, Existing
<1>4. h = (IF RowChanges(g, row) THEN heads[g] + 1 ELSE heads[g]) + n
  BY Zenon, <1>1, <1>2, <1>3 DEF HeadAfter, Max2
<1>5. h \in Nat /\ h >= heads[g] /\ (h = heads[g] => ~RowChanges(g, row) /\ n = 0)
      /\ (RowChanges(g, row) \/ n > 0 => h >= 1)
  BY <1>2, <1>4
<1>6. PICK new : new = Fenced(g, row, n)
  BY Zenon
<1>7. new \in GrantRow /\ (RowChanges(g, row) \/ n > 0 => new.epoch = h)
      /\ (~(RowChanges(g, row) \/ n > 0) => new = row)
  BY Zenon, <1>1, <1>5, <1>6 DEF Fenced, GrantRow
<1>8. grants' = [grants EXCEPT ![g] = new] /\ heads' = [heads EXCEPT ![g] = h]
  BY Zenon, <1>1, <1>6 DEF Write
<1>9. ~RowChanges(g, row) /\ n = 0 => grants[g] # None /\ row = grants[g]
  <2>1. grants[g] \in GrantRow \cup {None}
    BY Zenon DEF GrantTypeOK
  <2> QED BY <2>1 DEF RowChanges, GrantRow
<1>10. new.epoch = h /\ h >= 1
  <2>1. CASE RowChanges(g, row) \/ n > 0
    BY Zenon, <1>5, <1>7, <2>1
  <2>2. CASE ~(RowChanges(g, row) \/ n > 0)
    <3>1. n = 0 /\ ~RowChanges(g, row) /\ grants[g] # None
      BY <1>9, <2>2
    <3>2. new = row /\ h = heads[g]
      BY <1>2, <1>4, <1>7, <3>1
    <3> QED BY Zenon, <1>3, <3>1, <3>2 DEF EpochAtHead, Existing
  <2> QED BY Zenon, <2>1, <2>2
<1>11. h = heads[g] => new = grants[g]
  BY <1>5, <1>7, <1>9
<1> QED BY <1>5, <1>7, <1>8, <1>10, <1>11 DEF GrantsStep, GrantTypeOK, EpochAtHead, Existing

\* createAccountGrant's batch keeps the fence.
LEMMA CreateStep ==
    ASSUME GrantTypeOK, EpochAtHead, NEW id \in Grants, NEW m \in Members, NEW op \in Ops,
           NEW chats \in SUBSET Chats, Create(id, m, op, chats)
    PROVE  GrantsStep
<1>1. PICK scope \in Scopes : scope = ChatScope(chats)
  BY Zenon DEF ChatScope, Scopes
<1>2. CASE Keyed(m, op) = {} /\ id \notin Existing /\ Write(id, NewRow(m, op, chats), Cardinality(chats))
  <2>1. PICK row : row = NewRow(m, op, chats)
    BY Zenon
  <2>2. row \in GrantRow /\ row.epoch = 1
    BY Zenon, <1>1, <2>1 DEF NewRow, GrantRow
  <2>3. grants[id] = None
    BY Zenon, <1>2 DEF Existing
  <2>4. PICK n \in Nat : n = Cardinality(chats)
    BY Zenon, ChatRows
  <2> QED BY Zenon, <1>2, <2>1, <2>2, <2>3, <2>4, WriteStep
<1>3. CASE /\ Keyed(m, op) = {id}
           /\ Write(id, [grants[id] EXCEPT !.status = "active", !.scope = ChatScope(chats), !.chats = chats],
                    Cardinality(grants[id].chats) + Cardinality(chats))
  <2>1. PICK row : row = grants[id]
    BY Zenon
  <2>2. row \in GrantRow /\ row # None /\ row.op = op
    BY Zenon, <1>3, <2>1 DEF Keyed, Existing, GrantTypeOK
  <2>3. PICK new : new = [row EXCEPT !.status = "active", !.scope = scope, !.chats = chats]
    BY Zenon
  <2>4. new \in GrantRow /\ new.epoch = row.epoch /\ new.member = row.member /\ new.chats = chats
    BY ZenonT(60), <2>2, <2>3 DEF GrantRow
  <2>5. row.chats \in SUBSET Chats
    BY Zenon, <2>2 DEF GrantRow
  <2>6. PICK n \in Nat : n = Cardinality(row.chats) + Cardinality(chats)
    BY <2>5, ChatRows
  <2>7. n = 0 => Cardinality(row.chats) = 0 /\ Cardinality(chats) = 0
    BY <2>5, <2>6, ChatRows
  <2>8. n = 0 => chats = row.chats
    BY Zenon, <2>5, <2>7, NoChatRows
  <2>9. Write(id, new, n)
    BY Zenon, <1>1, <1>3, <2>1, <2>3, <2>6
  <2> QED BY Zenon, <2>1, <2>2, <2>4, <2>8, <2>9, WriteStep
<1>4. ASSUME NEW g \in Keyed(m, op),
             Write(g, [grants[g] EXCEPT !.status = "active", !.scope = "all_chats"], 0)
      PROVE  GrantsStep
  <2>1. PICK row : row = grants[g]
    BY Zenon
  <2>2. g \in Grants /\ row \in GrantRow /\ row # None
    BY Zenon, <2>1 DEF Keyed, Existing, GrantTypeOK
  <2>3. PICK new : new = [row EXCEPT !.status = "active", !.scope = "all_chats"]
    BY Zenon
  <2>4. new \in GrantRow /\ new.epoch = row.epoch /\ new.member = row.member /\ new.chats = row.chats
    BY ZenonT(60), <2>2, <2>3 DEF GrantRow, Scopes
  <2>5. Write(g, new, 0)
    BY Zenon, <1>4, <2>1, <2>3
  <2> QED BY Zenon, <2>1, <2>2, <2>4, <2>5, WriteStep
<1> QED BY ZenonT(60), <1>2, <1>3, <1>4 DEF Create

\* updateAccountGrant's batch keeps the fence.
LEMMA UpdateStep ==
    ASSUME GrantTypeOK, EpochAtHead, NEW id \in Grants, NEW op \in Ops,
           NEW chats \in SUBSET Chats, Update(id, op, chats)
    PROVE  GrantsStep
<1>1. PICK scope \in Scopes : scope = ChatScope(chats)
  BY Zenon DEF ChatScope, Scopes
<1>2. PICK row : row = grants[id]
  BY Zenon
<1>3. row \in GrantRow /\ row # None
  BY Zenon, <1>2 DEF Update, Existing, GrantTypeOK
<1>4. PICK new : new = [row EXCEPT !.status = "active", !.op = op, !.scope = scope, !.chats = chats]
  BY Zenon
<1>5. new \in GrantRow /\ new.epoch = row.epoch /\ new.member = row.member /\ new.chats = chats
  BY ZenonT(60), <1>3, <1>4 DEF GrantRow
<1>6. row.chats \in SUBSET Chats
  BY Zenon, <1>3 DEF GrantRow
<1>7. PICK n \in Nat : n = Cardinality(row.chats) + Cardinality(chats)
  BY <1>6, ChatRows
<1>8. n = 0 => Cardinality(row.chats) = 0 /\ Cardinality(chats) = 0
  BY <1>6, <1>7, ChatRows
<1>9. n = 0 => chats = row.chats
  BY Zenon, <1>6, <1>8, NoChatRows
<1>10. Write(id, new, n)
  BY Zenon, <1>1, <1>2, <1>4, <1>7 DEF Update
<1> QED BY Zenon, <1>2, <1>3, <1>5, <1>9, <1>10, WriteStep

\* revokeAccountGrant's batch keeps the fence.
LEMMA RevokeStep ==
    ASSUME GrantTypeOK, EpochAtHead, NEW id \in Grants, Revoke(id)
    PROVE  GrantsStep
<1>1. PICK row : row = grants[id]
  BY Zenon
<1>2. row \in GrantRow /\ row # None
  BY Zenon, <1>1 DEF Revoke, Existing, GrantTypeOK
<1>3. PICK new : new = [row EXCEPT !.status = "revoked"]
  BY ZenonT(60)
<1>4. new \in GrantRow /\ new.epoch = row.epoch /\ new.member = row.member /\ new.chats = row.chats
  BY Zenon, <1>2, <1>3 DEF GrantRow
<1>5. Write(id, new, 0)
  BY Zenon, <1>1, <1>3 DEF Revoke
<1> QED BY Zenon, <1>1, <1>2, <1>4, <1>5, WriteStep

\* Deleting a grant keeps the fence: the head outlives the row.
LEMMA DeleteStep ==
    ASSUME GrantTypeOK, EpochAtHead, NEW id \in Grants, DeleteAccountGrant(id)
    PROVE  GrantsStep
<1>1. PICK h : h = Max2(heads[id] + 1, grants[id].epoch + 1)
  BY Zenon
<1>2. grants[id] \in GrantRow /\ grants[id].epoch = heads[id] /\ heads[id] \in Nat
  BY Zenon DEF DeleteAccountGrant, GrantTypeOK, EpochAtHead, Existing
<1>3. h = heads[id] + 1
  BY Zenon, <1>1, <1>2 DEF Max2
<1>4. grants' = [grants EXCEPT ![id] = None] /\ heads' = [heads EXCEPT ![id] = h]
  BY Zenon, <1>1 DEF DeleteAccountGrant, GrantTypeOK
<1> QED BY <1>2, <1>3, <1>4 DEF GrantsStep, GrantTypeOK, EpochAtHead, Existing

\* The batch of a group completion keeps the fence, whatever it read before.
LEMMA FinishStep ==
    ASSUME GrantTypeOK, EpochAtHead, FinishGroupCreation
    PROVE  GrantsStep
<1>1. group \in Completion
  BY Zenon DEF FinishGroupCreation, GrantTypeOK
<1>2. PICK id \in Grants, m \in Members, op \in Ops, ch \in Chats :
        id = group.id /\ m = group.member /\ op = group.op /\ ch = group.chat
  BY Zenon, <1>1 DEF Completion
<1>3. CASE /\ Keyed(m, op) = {} /\ id \notin Existing
           /\ Write(id, [NewRow(m, op, {ch}) EXCEPT !.scope = "selected_chats"], 1)
  <2>1. PICK row : row = [NewRow(m, op, {ch}) EXCEPT !.scope = "selected_chats"]
    BY ZenonT(60)
  <2>2. row \in GrantRow /\ row.epoch = 1
    BY Zenon, <2>1 DEF NewRow, GrantRow, Scopes
  <2>3. grants[id] = None
    BY Zenon, <1>3 DEF Existing
  <2> QED BY ZenonT(60), <1>3, <2>1, <2>2, <2>3, WriteStep
<1>4. ASSUME NEW row, row = grants[id], id \in Existing,
             Write(id, Reopened(row), Cardinality(row.chats \ KeptChats(row))
                                        + Cardinality({group.chat} \ KeptChats(row)))
      PROVE  GrantsStep
  <2>1. row \in GrantRow /\ row # None
    BY Zenon, <1>4 DEF Existing, GrantTypeOK
  <2>2. PICK kept : kept = KeptChats(row) /\ kept \subseteq row.chats /\ kept \in SUBSET Chats
    <3>1. row.chats \in SUBSET Chats
      BY Zenon, <2>1 DEF GrantRow
    <3>2. KeptChats(row) \subseteq row.chats
      BY Zenon DEF KeptChats
    <3> QED BY Zenon, <3>1, <3>2
  <2>3. PICK new : new = Reopened(row)
    BY Zenon
  <2>4. new \in GrantRow /\ new.epoch = row.epoch /\ new.member = row.member
        /\ new.chats = kept \cup {ch}
    BY ZenonT(60), <1>2, <2>1, <2>2, <2>3 DEF Reopened, GrantRow, Scopes
  <2>5. row.chats \ kept \in SUBSET Chats /\ {ch} \ kept \in SUBSET Chats
    BY Zenon, <2>1 DEF GrantRow
  <2>6. PICK n \in Nat : n = Cardinality(row.chats \ kept) + Cardinality({ch} \ kept)
    BY <2>5, ChatRows
  <2>7. n = 0 => Cardinality(row.chats \ kept) = 0 /\ Cardinality({ch} \ kept) = 0
    BY <2>5, <2>6, ChatRows
  <2>8. n = 0 => row.chats \ kept = {} /\ {ch} \ kept = {}
    BY Zenon, <2>5, <2>7, NoChatRows
  <2>9. n = 0 => new.chats = row.chats
    BY Zenon, <2>2, <2>4, <2>8
  <2>10. Write(id, new, n)
    BY Zenon, <1>2, <1>4, <2>2, <2>3, <2>6
  <2> QED BY ZenonT(60), <1>4, <2>1, <2>4, <2>9, <2>10, WriteStep
<1> QED BY Zenon, <1>2, <1>3, <1>4 DEF FinishGroupCreation, Keyed

\* The triggers of the other tables advance the rows and their heads together.
LEMMA AdvancedStep ==
    ASSUME GrantTypeOK, EpochAtHead, NEW S, Advanced(S)
    PROVE  GrantsStep /\ \A g \in S \cap Existing : heads'[g] > heads[g]
<1>1. ASSUME NEW g \in S \cap Existing
      PROVE  /\ g \in Grants /\ grants'[g] \in GrantRow /\ heads'[g] \in Nat
             /\ grants'[g].epoch = heads'[g] /\ heads'[g] = heads[g] + 1
  <2>1. g \in Grants /\ grants[g] \in GrantRow /\ grants[g].epoch = heads[g] /\ heads[g] \in Nat
    BY Zenon DEF GrantTypeOK, EpochAtHead, Existing
  <2>2. heads'[g] = Max2(heads[g], grants[g].epoch + 1)
        /\ grants'[g] = [grants[g] EXCEPT !.epoch = Max2(heads[g], grants[g].epoch + 1)]
    BY Zenon, <2>1 DEF Advanced
  <2>3. Max2(heads[g], grants[g].epoch + 1) = heads[g] + 1
    BY <2>1 DEF Max2
  <2> QED BY <2>1, <2>2, <2>3 DEF GrantRow
<1>2. ASSUME NEW g \in Grants, g \notin S \cap Existing
      PROVE  grants'[g] = grants[g] /\ heads'[g] = heads[g]
  BY Zenon, <1>2 DEF Advanced
<1>3. DOMAIN grants' = Grants /\ DOMAIN heads' = Grants
      /\ grants' = [g \in Grants |-> grants'[g]] /\ heads' = [g \in Grants |-> heads'[g]]
  BY Zenon DEF Advanced
<1>4. grants' \in [Grants -> GrantRow \cup {None}] /\ heads' \in [Grants -> Nat]
  BY Zenon, <1>1, <1>2, <1>3 DEF GrantTypeOK
<1>5. EpochAtHead'
  BY <1>1, <1>2 DEF EpochAtHead, Existing, GrantTypeOK
<1>6. \A g \in Grants : heads'[g] >= heads[g] /\ (heads'[g] = heads[g] => grants'[g] = grants[g])
  BY <1>1, <1>2 DEF GrantTypeOK
<1>7. \A g \in S \cap Existing : heads'[g] > heads[g]
  BY <1>1 DEF GrantTypeOK
<1> QED BY Zenon, <1>4, <1>5, <1>6, <1>7 DEF GrantsStep

\* What a group completion reads names a grant id and a status.
LEMMA ReadGroupType ==
    ASSUME GrantTypeOK, NEW m \in Members, NEW op \in Ops, NEW ch \in Chats, NEW fresh \in Grants,
           ReadExistingGrant(m, op, ch, fresh)
    PROVE  group' \in Completion
<1>1. Keyed(m, op) = {} \/ (CHOOSE g \in Keyed(m, op) : TRUE) \in Keyed(m, op)
  BY Zenon
<1>2. PICK id, seen : group' = [member |-> m, op |-> op, chat |-> ch, id |-> id, seen |-> seen]
                      /\ id \in Grants /\ seen \in {"none", "active", "revoked"}
  <2>1. CASE Keyed(m, op) = {}
    BY <2>1, Zenon DEF ReadExistingGrant
  <2>2. CASE Keyed(m, op) # {}
    <3>1. PICK g : g = CHOOSE x \in Keyed(m, op) : TRUE
      BY Zenon
    <3>2. g \in Grants /\ grants[g] \in GrantRow
      BY Zenon, <1>1, <2>2, <3>1 DEF Keyed, Existing, GrantTypeOK
    <3>3. grants[g].status \in {"active", "revoked"}
      BY Zenon, <3>2 DEF GrantRow
    <3> QED BY <2>2, <3>1, <3>2, <3>3, Zenon DEF ReadExistingGrant
  <2> QED BY Zenon, <2>1, <2>2
<1> QED BY Zenon, <1>2 DEF Completion

\* A step that leaves the grants alone keeps the fence.
LEMMA SameGrantsStep ==
    ASSUME GrantTypeOK, EpochAtHead, UNCHANGED <<grants, heads>>
    PROVE  GrantsStep
BY DEF GrantsStep, GrantTypeOK, EpochAtHead, Existing

-----------------------------------------------------------------------------
(* The theorems *)

\* A request recorded under its key keeps the type of the records.
LEMMA RecordType ==
    ASSUME GrantTypeOK, NEW k \in MutationKeys, NEW r \in Request, Record(k, r)
    PROVE  recorded' \in [MutationKeys -> Request \cup {None}]
BY Zenon DEF Record, GrantTypeOK

\* Every step of the grants keeps their types and the fence.
LEMMA GrantNextStep ==
    ASSUME GrantTypeOK, EpochAtHead, GrantNext
    PROVE  GrantTypeOK' /\ GrantsStep
<1>1. ASSUME NEW k \in MutationKeys, NEW r \in Request, Record(k, r), GrantsStep, group' = group
      PROVE  GrantTypeOK'
  BY Zenon, <1>1, RecordType DEF GrantTypeOK, GrantsStep
<1>2. ASSUME NEW k \in MutationKeys, NEW id \in Grants, NEW op \in Ops, NEW chats \in SUBSET Chats,
             NEW m \in Members, CreateAccountGrant(k, id, m, op, chats)
      PROVE  GrantTypeOK' /\ GrantsStep
  <2>1. PICK r : r = [type |-> "create", id |-> id, member |-> m, op |-> op, chats |-> chats]
    BY Zenon
  <2>2. r \in Request
    BY Zenon, <2>1 DEF Request
  <2>3. GrantsStep
    BY Zenon, <1>2, CreateStep DEF CreateAccountGrant
  <2> QED BY Zenon, <1>1, <1>2, <2>1, <2>2, <2>3 DEF CreateAccountGrant
<1>3. ASSUME NEW k \in MutationKeys, NEW id \in Grants, NEW op \in Ops, NEW chats \in SUBSET Chats,
             UpdateAccountGrant(k, id, op, chats)
      PROVE  GrantTypeOK' /\ GrantsStep
  <2>1. PICK r : r = [type |-> "update", id |-> id, op |-> op, chats |-> chats]
    BY Zenon
  <2>2. r \in Request
    BY Zenon, <2>1 DEF Request
  <2>3. GrantsStep
    BY Zenon, <1>3, UpdateStep DEF UpdateAccountGrant
  <2> QED BY Zenon, <1>1, <1>3, <2>1, <2>2, <2>3 DEF UpdateAccountGrant
<1>4. ASSUME NEW k \in MutationKeys, NEW id \in Grants, RevokeAccountGrant(k, id)
      PROVE  GrantTypeOK' /\ GrantsStep
  <2>1. PICK r : r = [type |-> "revoke", id |-> id]
    BY Zenon
  <2>2. r \in Request
    BY Zenon, <2>1 DEF Request
  <2>3. GrantsStep
    BY Zenon, <1>4, RevokeStep DEF RevokeAccountGrant
  <2> QED BY Zenon, <1>1, <1>4, <2>1, <2>2, <2>3 DEF RevokeAccountGrant
<1>5. ASSUME NEW id \in Grants, DeleteAccountGrant(id)
      PROVE  GrantTypeOK' /\ GrantsStep
  <2>1. GrantsStep
    BY Zenon, <1>5, DeleteStep
  <2> QED BY Zenon, <1>5, <2>1 DEF DeleteAccountGrant, GrantTypeOK, GrantsStep
<1>6. ASSUME NEW m \in Members, NEW op \in Ops, NEW ch \in Chats, NEW fresh \in Grants,
             ReadExistingGrant(m, op, ch, fresh)
      PROVE  GrantTypeOK' /\ GrantsStep
  <2>1. UNCHANGED <<grants, heads, recorded>> /\ group' \in Completion
    BY <1>6, ReadGroupType, Zenon DEF ReadExistingGrant
  <2>2. GrantsStep
    BY Zenon, <2>1, SameGrantsStep
  <2> QED BY Zenon, <2>1, <2>2 DEF GrantTypeOK
<1>7. CASE FinishGroupCreation
  <2>1. GrantsStep
    BY Zenon, <1>7, FinishStep
  <2> QED BY Zenon, <1>7, <2>1 DEF FinishGroupCreation, GrantTypeOK, GrantsStep
<1>8. CASE GroupCompletionFails
  <2>1. UNCHANGED <<grants, heads, recorded>> /\ group' = None
    BY Zenon, <1>8 DEF GroupCompletionFails
  <2>2. GrantsStep
    BY Zenon, <2>1, SameGrantsStep
  <2> QED BY Zenon, <2>1, <2>2 DEF GrantTypeOK
<1> QED BY Zenon, <1>2, <1>3, <1>4, <1>5, <1>6, <1>7, <1>8 DEF GrantNext

\* The grants keep their types and every epoch stays at its head.
THEOREM GrantInvariance == GrantSpec => [](GrantTypeOK /\ EpochAtHead)
<1>1. GrantInit => GrantTypeOK /\ EpochAtHead
  BY DEF GrantInit, GrantTypeOK, EpochAtHead, Existing
<1>2. GrantTypeOK /\ EpochAtHead /\ [GrantNext]_grantVars => (GrantTypeOK /\ EpochAtHead)'
  <2> SUFFICES ASSUME GrantTypeOK, EpochAtHead, [GrantNext]_grantVars
               PROVE  (GrantTypeOK /\ EpochAtHead)'
    BY Zenon
  <2>1. CASE GrantNext
    BY Zenon, <2>1, GrantNextStep DEF GrantsStep
  <2>2. CASE UNCHANGED grantVars
    BY Zenon, <2>2 DEF grantVars, GrantTypeOK, EpochAtHead, Existing
  <2> QED BY Zenon, <2>1, <2>2
<1> QED BY <1>1, <1>2, PTL DEF GrantSpec

\* No route, operator or group completion changes what a grant allows without
\* advancing its epoch, and an epoch never comes back.
THEOREM FenceAlwaysAdvances == GrantSpec => FenceAdvances
<1>1. ASSUME GrantTypeOK, EpochAtHead, GrantNext
      PROVE  \A g \in Grants : heads'[g] >= heads[g] /\ (grants'[g] # grants[g] => heads'[g] > heads[g])
  <2>1. GrantsStep
    BY Zenon, <1>1, GrantNextStep
  <2>2. \A g \in Grants : heads[g] \in Nat /\ heads'[g] \in Nat
    BY Zenon, <1>1, <2>1 DEF GrantTypeOK, GrantsStep
  <2> QED BY <2>1, <2>2 DEF GrantsStep
<1>2. GrantTypeOK /\ EpochAtHead /\ [GrantNext]_grantVars =>
        [\A g \in Grants :
           /\ heads'[g] >= heads[g]
           /\ grants'[g] # grants[g] => heads'[g] > heads[g]]_grantVars
  BY Zenon, <1>1
<1> QED BY <1>2, GrantInvariance, PTL DEF GrantSpec, FenceAdvances

-----------------------------------------------------------------------------
(* The rows *)

\* A statement leaves the rows sound when no other row has the key it writes
\* and a selection it writes names a chat; the triggers touch only the epoch.
LEMMA RowWriteSound ==
    ASSUME GrantTypeOK, GrantRowsAreSound, NEW g \in Grants, NEW row \in GrantRow, NEW n,
           Write(g, row, n), Keyed(row.member, row.op) \subseteq {g},
           row.scope = "selected_chats" => row.chats # {}
    PROVE  GrantRowsAreSound'
<1>1. PICK new : new = Fenced(g, row, n)
  BY Zenon
<1>2. /\ new.member = row.member /\ new.op = row.op /\ new.scope = row.scope
      /\ new.chats = row.chats
  BY Zenon, <1>1 DEF Fenced, GrantRow
<1>3. grants'[g] = new /\ \A h \in Grants : h # g => grants'[h] = grants[h]
  BY Zenon, <1>1 DEF Write, GrantTypeOK
<1>4. \A h \in Existing' : h # g => h \in Existing /\ grants'[h] = grants[h]
  BY Zenon, <1>3 DEF Existing
<1>5. \A h \in Existing : h # g => grants[h].member # row.member \/ grants[h].op # row.op
  BY Zenon DEF Keyed
<1>6. OneGrantPerKey'
  BY <1>2, <1>3, <1>4, <1>5 DEF OneGrantPerKey, GrantRowsAreSound
<1>7. SelectedNamesChats'
  BY Zenon, <1>2, <1>3, <1>4 DEF SelectedNamesChats, GrantRowsAreSound
<1> QED BY Zenon, <1>6, <1>7 DEF GrantRowsAreSound

\* A row that exists is the only one of its key.
LEMMA OnlyRowOfItsKey ==
    ASSUME GrantTypeOK, GrantRowsAreSound, NEW g \in Existing
    PROVE  /\ g \in Grants /\ grants[g] \in GrantRow
           /\ Keyed(grants[g].member, grants[g].op) \subseteq {g}
           /\ grants[g].scope = "selected_chats" => grants[g].chats # {}
BY Zenon DEF GrantRowsAreSound, OneGrantPerKey, SelectedNamesChats, Keyed, Existing, GrantTypeOK

\* A requested selection names a chat.
LEMMA RequestedScope ==
    ASSUME NEW chats
    PROVE  ChatScope(chats) \in Scopes /\ (ChatScope(chats) = "selected_chats" => chats # {})
BY Zenon DEF ChatScope, Scopes

(* Inserting a grant with its chats leaves every key with one live row. *)
LEMMA CreateKeepsRows ==
    ASSUME GrantTypeOK, GrantRowsAreSound, NEW id \in Grants, NEW m \in Members, NEW op \in Ops,
           NEW chats \in SUBSET Chats, Create(id, m, op, chats)
    PROVE  GrantRowsAreSound'
<1>1. PICK scope \in Scopes : scope = ChatScope(chats) /\ (scope = "selected_chats" => chats # {})
  BY Zenon, RequestedScope
<1>2. CASE Keyed(m, op) = {} /\ id \notin Existing /\ Write(id, NewRow(m, op, chats), Cardinality(chats))
  <2>1. PICK row : row = NewRow(m, op, chats)
    BY Zenon
  <2>2. row \in GrantRow /\ row.member = m /\ row.op = op /\ row.scope = scope /\ row.chats = chats
    BY Zenon, <1>1, <2>1 DEF NewRow, GrantRow
  <2> QED BY Zenon, <1>1, <1>2, <2>1, <2>2, RowWriteSound
<1>3. ASSUME NEW g \in Keyed(m, op), NEW s \in Scopes, NEW c \in SUBSET Chats, NEW n,
             s = "selected_chats" => c # {},
             Write(g, [grants[g] EXCEPT !.status = "active", !.scope = s, !.chats = c], n)
      PROVE  GrantRowsAreSound'
  <2>1. PICK row : row = grants[g]
    BY Zenon
  <2>2. g \in Existing /\ row.member = m /\ row.op = op
    BY Zenon, <2>1 DEF Keyed
  <2>3. g \in Grants /\ row \in GrantRow /\ Keyed(m, op) \subseteq {g}
    BY Zenon, <2>1, <2>2, OnlyRowOfItsKey
  <2>4. PICK new : new = [row EXCEPT !.status = "active", !.scope = s, !.chats = c]
    BY Zenon
  <2>5. new \in GrantRow /\ new.member = m /\ new.op = op /\ new.scope = s /\ new.chats = c
    BY <2>2, <2>3, <2>4, Zenon DEF GrantRow
  <2> QED BY <1>3, <2>1, <2>3, <2>4, <2>5, RowWriteSound, Zenon
<1>4. CASE /\ Keyed(m, op) = {id}
           /\ Write(id, [grants[id] EXCEPT !.status = "active", !.scope = ChatScope(chats), !.chats = chats],
                    Cardinality(grants[id].chats) + Cardinality(chats))
  BY Zenon, <1>1, <1>3, <1>4
<1>5. ASSUME NEW g \in Keyed(m, op),
             Write(g, [grants[g] EXCEPT !.status = "active", !.scope = "all_chats"], 0)
      PROVE  GrantRowsAreSound'
  <2>1. PICK row : row = grants[g]
    BY Zenon
  <2>2. g \in Existing /\ row.member = m /\ row.op = op
    BY Zenon, <2>1 DEF Keyed
  <2>3. g \in Grants /\ row \in GrantRow /\ Keyed(m, op) \subseteq {g}
    BY Zenon, <2>1, <2>2, OnlyRowOfItsKey
  <2>4. PICK new : new = [row EXCEPT !.status = "active", !.scope = "all_chats"]
    BY Zenon
  <2>5. new \in GrantRow /\ new.member = m /\ new.op = op /\ new.scope = "all_chats"
    BY <2>2, <2>3, <2>4, Zenon DEF GrantRow, Scopes
  <2> QED BY <1>5, <2>1, <2>3, <2>4, <2>5, RowWriteSound, Zenon
<1> QED BY ZenonT(60), <1>2, <1>4, <1>5 DEF Create

(* An UPDATE of a live grant keeps its key and names chats when it selects. *)
LEMMA UpdateKeepsRows ==
    ASSUME GrantTypeOK, GrantRowsAreSound, NEW id \in Grants, NEW op \in Ops,
           NEW chats \in SUBSET Chats, Update(id, op, chats)
    PROVE  GrantRowsAreSound'
<1>1. PICK scope \in Scopes : scope = ChatScope(chats) /\ (scope = "selected_chats" => chats # {})
  BY Zenon, RequestedScope
<1>2. PICK row : row = grants[id]
  BY Zenon
<1>3. row \in GrantRow /\ Keyed(row.member, op) \subseteq {id}
  BY Zenon, <1>2 DEF Update, Existing, GrantTypeOK
<1>4. PICK new : new = [row EXCEPT !.status = "active", !.op = op, !.scope = scope, !.chats = chats]
  BY Zenon
<1>5. /\ new \in GrantRow /\ new.member = row.member /\ new.op = op /\ new.scope = scope
      /\ new.chats = chats
  BY ZenonT(60), <1>3, <1>4 DEF GrantRow
<1>6. PICK n : Write(id, new, n)
  BY Zenon, <1>1, <1>2, <1>4 DEF Update
<1> QED BY Zenon, <1>1, <1>3, <1>5, <1>6, RowWriteSound

(* Revoking a grant changes the status of one row and nothing else. *)
LEMMA RevokeKeepsRows ==
    ASSUME GrantTypeOK, GrantRowsAreSound, NEW id \in Grants, Revoke(id)
    PROVE  GrantRowsAreSound'
<1>1. PICK row : row = grants[id]
  BY Zenon
<1>2. /\ row \in GrantRow /\ Keyed(row.member, row.op) \subseteq {id}
      /\ row.scope = "selected_chats" => row.chats # {}
  BY Zenon, <1>1, OnlyRowOfItsKey DEF Revoke
<1>3. PICK new : new = [row EXCEPT !.status = "revoked"]
  BY ZenonT(60)
<1>4. /\ new \in GrantRow /\ new.member = row.member /\ new.op = row.op /\ new.scope = row.scope
      /\ new.chats = row.chats
  BY Zenon, <1>2, <1>3 DEF GrantRow
<1>5. Write(id, new, 0)
  BY Zenon, <1>1, <1>3 DEF Revoke
<1> QED BY Zenon, <1>2, <1>4, <1>5, RowWriteSound

\* The batch of a group completion: the chat row it inserts is in the selection
\* it narrows to, whatever happened to the grant since it was read.
LEMMA FinishKeepsRows ==
    ASSUME GrantTypeOK, GrantRowsAreSound, FinishGroupCreation
    PROVE  GrantRowsAreSound'
<1>1. group \in Completion
  BY Zenon DEF FinishGroupCreation, GrantTypeOK
<1>2. PICK id \in Grants, m \in Members, op \in Ops, ch \in Chats :
        id = group.id /\ m = group.member /\ op = group.op /\ ch = group.chat
  BY Zenon, <1>1 DEF Completion
<1>3. CASE /\ Keyed(m, op) = {}
           /\ Write(id, [NewRow(m, op, {ch}) EXCEPT !.scope = "selected_chats"], 1)
  <2>1. PICK row : row = [NewRow(m, op, {ch}) EXCEPT !.scope = "selected_chats"]
    BY ZenonT(60)
  <2>2. row \in GrantRow /\ row.member = m /\ row.op = op /\ row.chats = {ch}
    BY Zenon, <2>1 DEF NewRow, GrantRow, Scopes
  <2>3. Write(id, row, 1)
    BY ZenonT(60), <1>3, <2>1
  <2>4. Keyed(row.member, row.op) \subseteq {id} /\ row.chats # {}
    BY Zenon, <1>3, <2>2
  <2> QED BY Zenon, <2>2, <2>3, <2>4, RowWriteSound
<1>4. ASSUME NEW row, row = grants[id], Keyed(m, op) = {id}, NEW n, Write(id, Reopened(row), n)
      PROVE  GrantRowsAreSound'
  <2>1. id \in Existing /\ row.member = m /\ row.op = op /\ row \in GrantRow
    BY Zenon, <1>4 DEF Keyed, Existing, GrantTypeOK
  <2>2. KeptChats(row) \in SUBSET Chats
    BY Zenon, <2>1 DEF KeptChats, GrantRow
  <2>3. PICK new : new = Reopened(row)
    BY Zenon
  <2>4. new \in GrantRow /\ new.member = m /\ new.op = op /\ new.chats = KeptChats(row) \cup {ch}
    BY ZenonT(60), <1>2, <2>1, <2>2, <2>3 DEF Reopened, GrantRow, Scopes
  <2>5. Keyed(new.member, new.op) \subseteq {id} /\ new.chats # {}
    BY Zenon, <1>4, <2>4
  <2> QED BY Zenon, <1>4, <2>3, <2>4, <2>5, RowWriteSound
<1>5. CASE Keyed(group.member, group.op) = {} /\ group.id \notin Existing
           /\ Write(group.id, [NewRow(group.member, group.op, {group.chat}) EXCEPT !.scope = "selected_chats"], 1)
  BY Zenon, <1>2, <1>3, <1>5
<1>6. CASE /\ Keyed(group.member, group.op) = {group.id}
           /\ \E n : Write(group.id, Reopened(grants[group.id]), n)
  BY Zenon, <1>2, <1>4, <1>6
<1> QED BY Zenon, <1>5, <1>6 DEF FinishGroupCreation

\* Deleting a row, and a step that leaves the rows alone.
LEMMA DeleteKeepsRows ==
    ASSUME GrantTypeOK, GrantRowsAreSound, NEW id \in Grants, DeleteAccountGrant(id)
    PROVE  GrantRowsAreSound'
<1>1. \A h \in Existing' : h \in Existing /\ grants'[h] = grants[h]
  BY Zenon DEF DeleteAccountGrant, Existing, GrantTypeOK
<1> QED BY <1>1 DEF GrantRowsAreSound, OneGrantPerKey, SelectedNamesChats

(* A step that writes no grant row leaves the rows sound. *)
LEMMA SameRowsSound ==
    ASSUME GrantRowsAreSound, UNCHANGED grants
    PROVE  GrantRowsAreSound'
BY DEF GrantRowsAreSound, OneGrantPerKey, SelectedNamesChats, Existing

\* A member has one grant for a scope, and a selection names a chat, whichever
\* route, operator or group completion wrote the rows, also from rows it read
\* before another one changed them (grants.ts, finishGroupCreationOperation).
THEOREM GrantRowsAlwaysSound == GrantSpec => []GrantRowsAreSound
<1>1. GrantInit => GrantRowsAreSound
  BY DEF GrantInit, GrantRowsAreSound, OneGrantPerKey, SelectedNamesChats, Existing
<1>2. GrantTypeOK /\ GrantRowsAreSound /\ [GrantNext]_grantVars => GrantRowsAreSound'
  <2> SUFFICES ASSUME GrantTypeOK, GrantRowsAreSound, [GrantNext]_grantVars
               PROVE  GrantRowsAreSound'
    BY Zenon
  <2>1. ASSUME NEW k \in MutationKeys, NEW id \in Grants, NEW op \in Ops, NEW chats \in SUBSET Chats,
               (\E m \in Members : CreateAccountGrant(k, id, m, op, chats))
                 \/ UpdateAccountGrant(k, id, op, chats)
        PROVE  GrantRowsAreSound'
    BY <2>1, CreateKeepsRows, UpdateKeepsRows, Zenon DEF CreateAccountGrant, UpdateAccountGrant
  <2>2. ASSUME NEW k \in MutationKeys, NEW id \in Grants, RevokeAccountGrant(k, id)
        PROVE  GrantRowsAreSound'
    BY Zenon, <2>2, RevokeKeepsRows DEF RevokeAccountGrant
  <2>3. ASSUME NEW id \in Grants, DeleteAccountGrant(id) PROVE GrantRowsAreSound'
    BY Zenon, <2>3, DeleteKeepsRows
  <2>4. ASSUME NEW m \in Members, NEW op \in Ops, NEW ch \in Chats, NEW fresh \in Grants,
               ReadExistingGrant(m, op, ch, fresh)
        PROVE  GrantRowsAreSound'
    BY Zenon, <2>4, SameRowsSound DEF ReadExistingGrant
  <2>5. CASE FinishGroupCreation
    BY Zenon, <2>5, FinishKeepsRows
  <2>6. CASE GroupCompletionFails \/ UNCHANGED grantVars
    BY Zenon, <2>6, SameRowsSound DEF GroupCompletionFails, grantVars
  <2> QED BY <2>1, <2>2, <2>3, <2>4, <2>5, <2>6, Zenon DEF GrantNext
<1> QED BY <1>1, <1>2, GrantInvariance, PTL DEF GrantSpec

-----------------------------------------------------------------------------
(* The authority of outbound commands *)

\* The rows of the identity scopes are counted by a natural number.
LEMMA ScopeRows == \A S \in SUBSET IdentityScopes : Cardinality(S) \in Nat
BY Zenon, ScopesAssumption, FS_Subset, FS_CardinalityType

\* replaceIdentityGrants advances a member's grants once per row deleted or inserted.
LEMMA IdentityStep ==
    ASSUME TypeOK, EpochAtHead, NEW m \in Members, NEW scopes \in SUBSET IdentityScopes,
           ReplaceIdentityGrants(m, scopes)
    PROVE  /\ GrantsStep /\ identity' \in [Members -> SUBSET IdentityScopes]
           /\ \A g \in Existing : heads'[g] = heads[g] => identity'[grants[g].member] = identity[grants[g].member]
<1>1. identity[m] \in SUBSET IdentityScopes
  BY Zenon DEF TypeOK
<1>2. PICK n \in Nat : n = Cardinality(identity[m]) + Cardinality(scopes)
  BY <1>1, ScopeRows
<1>3. n = 0 => Cardinality(identity[m]) = 0 /\ Cardinality(scopes) = 0
  BY <1>1, <1>2, ScopeRows
<1>4. n = 0 => identity[m] = scopes
  BY Zenon, <1>1, <1>3, ScopesAssumption, FS_Subset, FS_EmptySet
<1>5. /\ grants' = [g \in Grants |-> IF g \notin GrantsOf(m) \/ n = 0 THEN grants[g]
                      ELSE [grants[g] EXCEPT !.epoch = heads[g] + n]]
      /\ heads' = [g \in Grants |-> IF g \notin GrantsOf(m) THEN heads[g] ELSE heads[g] + n]
      /\ identity' = [identity EXCEPT ![m] = scopes]
  BY Zenon, <1>2 DEF ReplaceIdentityGrants
<1>6. ASSUME NEW g \in GrantsOf(m)
      PROVE  /\ g \in Grants /\ grants'[g] \in GrantRow /\ heads'[g] \in Nat
             /\ grants'[g].epoch = heads'[g] /\ heads'[g] = heads[g] + n
             /\ heads'[g] >= 1 /\ (n = 0 => grants'[g] = grants[g])
  <2>1. g \in Grants /\ grants[g] \in GrantRow /\ grants[g].epoch = heads[g] /\ heads[g] \in Nat /\ heads[g] >= 1
    BY Zenon DEF TypeOK, GrantTypeOK, EpochAtHead, Existing, GrantsOf
  <2>2. heads'[g] = heads[g] + n
        /\ grants'[g] = IF n = 0 THEN grants[g] ELSE [grants[g] EXCEPT !.epoch = heads[g] + n]
    BY Zenon, <1>5, <2>1
  <2> QED BY <2>1, <2>2 DEF GrantRow
<1>7. ASSUME NEW g \in Grants, g \notin GrantsOf(m)
      PROVE  grants'[g] = grants[g] /\ heads'[g] = heads[g]
  BY Zenon, <1>5, <1>7
<1>8. grants' = [g \in Grants |-> grants'[g]] /\ heads' = [g \in Grants |-> heads'[g]]
  BY Zenon, <1>5
<1>9. grants' \in [Grants -> GrantRow \cup {None}] /\ heads' \in [Grants -> Nat]
  BY Zenon, <1>6, <1>7, <1>8 DEF TypeOK, GrantTypeOK
<1>10. EpochAtHead'
  BY Zenon, <1>6, <1>7 DEF EpochAtHead, Existing, TypeOK, GrantTypeOK
<1>11. \A g \in Grants : heads'[g] >= heads[g] /\ (heads'[g] = heads[g] => grants'[g] = grants[g])
  BY <1>6, <1>7 DEF TypeOK, GrantTypeOK
<1>12. GrantsStep
  BY Zenon, <1>9, <1>10, <1>11 DEF GrantsStep
<1>13. ASSUME NEW g \in Existing, heads'[g] = heads[g]
       PROVE  identity'[grants[g].member] = identity[grants[g].member]
  <2>1. g \in Grants /\ grants[g] \in GrantRow /\ grants[g].member \in Members /\ heads[g] \in Nat
    BY Zenon DEF TypeOK, GrantTypeOK, Existing, GrantRow
  <2>2. CASE grants[g].member = m
    <3>1. g \in GrantsOf(m)
      BY Zenon, <2>1, <2>2 DEF GrantsOf
    <3>2. n = 0
      BY <1>6, <1>13, <2>1, <3>1
    <3> QED BY Zenon, <1>4, <1>5, <2>2, <3>2 DEF TypeOK
  <2>3. CASE grants[g].member # m
    BY Zenon, <1>5, <2>1, <2>3 DEF TypeOK
  <2> QED BY Zenon, <2>2, <2>3
<1> QED BY ZenonT(60), <1>5, <1>12, <1>13 DEF TypeOK

-----------------------------------------------------------------------------
(* The effect of a directory change on everything an authority rests on *)

\* What a transaction may do to the memberships and their fence
MembersStep ==
    /\ members' \in [Members -> MemberRow] /\ MemberEpochAtHead'
    /\ \A m \in Members : members'[m].head >= members[m].head
    /\ \A m \in Members : members'[m].head = members[m].head => members'[m] = members[m]

\* Whatever an authority rests on changes only with the head of that authority
FenceStep ==
    /\ GrantsStep /\ MembersStep
    /\ recorded' = recorded /\ group' \in Completion \cup {None}
    /\ identity' \in [Members -> SUBSET IdentityScopes]
    /\ active' \subseteq Parts /\ connection' \in ConnectionStatus
    /\ \A m \in Members : members'[m].head = members[m].head => ("tenant" \in active' <=> "tenant" \in active)
    /\ \A g \in Existing : heads'[g] = heads[g] =>
         /\ active' = active
         /\ members'[grants[g].member].status = members[grants[g].member].status
         /\ members'[grants[g].member].principal = members[grants[g].member].principal
         /\ identity'[grants[g].member] = identity[grants[g].member]
    /\ UNCHANGED <<held, intents, claims>>

\* The trigger on a membership that changed leaves its epoch at its new head.
LEMMA MemberFencedRow ==
    ASSUME NEW row \in MemberRow, row.epoch = row.head, NEW x, x = MemberFenced(row)
    PROVE  x \in MemberRow /\ x.epoch = x.head /\ x.head = row.head + 1
<1>1. row.head \in Nat /\ row.epoch \in Nat
  BY Zenon DEF MemberRow
<1>2. PICK h \in Nat : h = Max2(row.head + 1, row.epoch) /\ h = row.head + 1
  BY <1>1 DEF Max2
<1>3. x = [row EXCEPT !.head = h, !.epoch = h]
  BY Zenon, <1>2 DEF MemberFenced
<1>4. x \in MemberRow /\ x.epoch = h /\ x.head = h
  BY ZenonT(60), <1>3 DEF MemberRow
<1> QED BY Zenon, <1>2, <1>4

\* So does the trigger on a membership that another trigger advanced.
LEMMA MemberAdvancedRow ==
    ASSUME NEW row \in MemberRow, row.epoch = row.head, NEW x, x = MemberAdvanced(row)
    PROVE  x \in MemberRow /\ x.epoch = x.head /\ x.head = row.head + 1
<1>1. row.head \in Nat /\ row.epoch \in Nat
  BY Zenon DEF MemberRow
<1>2. PICK h \in Nat : h = Max2(row.head, row.epoch + 1) /\ h = row.head + 1
  BY <1>1 DEF Max2
<1>3. x = [row EXCEPT !.head = h, !.epoch = h]
  BY Zenon, <1>2 DEF MemberAdvanced
<1>4. x \in MemberRow /\ x.epoch = h /\ x.head = h
  BY ZenonT(60), <1>3 DEF MemberRow
<1> QED BY Zenon, <1>2, <1>4

\* Replacing one membership by a row with an advanced head
LEMMA OneMember ==
    ASSUME TypeOK, MemberEpochAtHead, NEW m \in Members, NEW x \in MemberRow,
           x.epoch = x.head, x.head = members[m].head + 1,
           members' = [members EXCEPT ![m] = x]
    PROVE  MembersStep
<1>1. members[m].head \in Nat
  BY Zenon DEF TypeOK, MemberRow
<1> QED BY <1>1 DEF TypeOK, MemberEpochAtHead, MembersStep, MemberRow

\* A change of one membership reaches all its grants.
LEMMA MemberChange ==
    ASSUME TypeOK, EpochAtHead, MemberEpochAtHead, NEW m \in Members, MembersStep,
           members'[m].head # members[m].head,
           \A o \in Members : o # m => members'[o] = members[o],
           Advanced(GrantsOf(m)),
           UNCHANGED <<recorded, group, identity, active, connection, held, intents, claims>>
    PROVE  FenceStep
<1>1. GrantTypeOK
  BY Zenon DEF TypeOK
<1>2. GrantsStep /\ \A g \in GrantsOf(m) \cap Existing : heads'[g] > heads[g]
  BY Zenon, <1>1, AdvancedStep
<1>3. ASSUME NEW g \in Existing, heads'[g] = heads[g]
      PROVE  members'[grants[g].member] = members[grants[g].member]
  <2>1. g \in Grants /\ grants[g] \in GrantRow /\ grants[g].member \in Members /\ heads[g] \in Nat
    BY Zenon, <1>1 DEF GrantTypeOK, Existing, GrantRow
  <2>2. g \notin GrantsOf(m)
    BY <1>2, <1>3, <2>1
  <2>3. grants[g].member # m
    BY Zenon, <2>2 DEF GrantsOf
  <2> QED BY Zenon, <2>1, <2>3
<1> QED BY Zenon, <1>1, <1>2, <1>3 DEF FenceStep, TypeOK, GrantTypeOK

\* setMembershipStatus keeps the fence.
LEMMA StatusStep ==
    ASSUME TypeOK, EpochAtHead, MemberEpochAtHead, NEW m \in Members,
           NEW s \in {"active", "disabled", "revoked"}, SetMembershipStatus(m, s)
    PROVE  FenceStep
<1>1. members[m] \in MemberRow /\ members[m].epoch = members[m].head /\ members[m].head \in Nat
  BY Zenon DEF TypeOK, MemberEpochAtHead, MemberRow
<1>2. CASE s # members[m].status \/ s = "revoked"
  <2>1. PICK row : row = [members[m] EXCEPT !.status = s]
    BY ZenonT(60)
  <2>2. row \in MemberRow /\ row.epoch = row.head /\ row.head = members[m].head
    BY Zenon, <1>1, <2>1 DEF MemberRow
  <2>3. PICK x : x = MemberFenced(row)
    BY Zenon
  <2>4. x \in MemberRow /\ x.epoch = x.head /\ x.head = members[m].head + 1
    BY <2>2, <2>3, MemberFencedRow
  <2>5. members' = [members EXCEPT ![m] = x]
    BY Zenon, <1>2, <2>1, <2>3 DEF SetMembershipStatus
  <2>6. MembersStep
    BY ZenonT(60), <2>4, <2>5, OneMember
  <2>7. members'[m].head # members[m].head /\ \A o \in Members : o # m => members'[o] = members[o]
    BY <1>1, <2>4, <2>5 DEF TypeOK
  <2> QED BY Zenon, <1>2, <2>6, <2>7, MemberChange DEF SetMembershipStatus
<1>3. CASE ~(s # members[m].status \/ s = "revoked")
  <2>1. UNCHANGED <<grants, heads, members, recorded, group, identity, active, connection, held, intents, claims>>
    BY Zenon, <1>3 DEF SetMembershipStatus
  <2>2. GrantsStep
    BY <2>1 DEF GrantsStep, TypeOK, GrantTypeOK, EpochAtHead, Existing
  <2>3. MembersStep
    BY <2>1 DEF MembersStep, TypeOK, MemberEpochAtHead, MemberRow
  <2> QED BY Zenon, <2>1, <2>2, <2>3 DEF FenceStep, TypeOK, GrantTypeOK
<1> QED BY Zenon, <1>2, <1>3

\* A change of role keeps the fence.
LEMMA RoleStep ==
    ASSUME TypeOK, EpochAtHead, MemberEpochAtHead, NEW m \in Members,
           NEW r \in {"admin", "member"}, SetRole(m, r)
    PROVE  FenceStep
<1>1. members[m] \in MemberRow /\ members[m].epoch = members[m].head /\ members[m].head \in Nat
  BY Zenon DEF TypeOK, MemberEpochAtHead, MemberRow
<1>2. PICK row : row = [members[m] EXCEPT !.role = r]
  BY ZenonT(60)
<1>3. row \in MemberRow /\ row.epoch = row.head /\ row.head = members[m].head
  BY Zenon, <1>1, <1>2 DEF MemberRow
<1>4. PICK x : x = MemberFenced(row)
  BY Zenon
<1>5. x \in MemberRow /\ x.epoch = x.head /\ x.head = members[m].head + 1
  BY <1>3, <1>4, MemberFencedRow
<1>6. members' = [members EXCEPT ![m] = x]
  BY Zenon, <1>2, <1>4 DEF SetRole
<1>7. MembersStep
  BY ZenonT(60), <1>5, <1>6, OneMember
<1>8. members'[m].head # members[m].head /\ \A o \in Members : o # m => members'[o] = members[o]
  BY <1>1, <1>5, <1>6 DEF TypeOK
<1> QED BY Zenon, <1>7, <1>8, MemberChange DEF SetRole

\* A change of the principal keeps the fence.
LEMMA PrincipalStep ==
    ASSUME TypeOK, EpochAtHead, MemberEpochAtHead, NEW m \in Members,
           NEW s \in {"active", "revoked"}, SetPrincipal(m, s)
    PROVE  FenceStep
<1>1. members[m] \in MemberRow /\ members[m].epoch = members[m].head /\ members[m].head \in Nat
  BY Zenon DEF TypeOK, MemberEpochAtHead, MemberRow
<1>2. PICK row : row = [members[m] EXCEPT !.principal = s]
  BY ZenonT(60)
<1>3. row \in MemberRow /\ row.epoch = row.head /\ row.head = members[m].head
  BY Zenon, <1>1, <1>2 DEF MemberRow
<1>4. PICK x : x = MemberAdvanced(row)
  BY Zenon
<1>5. x \in MemberRow /\ x.epoch = x.head /\ x.head = members[m].head + 1
  BY <1>3, <1>4, MemberAdvancedRow
<1>6. members' = [members EXCEPT ![m] = x]
  BY Zenon, <1>2, <1>4 DEF SetPrincipal
<1>7. MembersStep
  BY ZenonT(60), <1>5, <1>6, OneMember
<1>8. members'[m].head # members[m].head /\ \A o \in Members : o # m => members'[o] = members[o]
  BY <1>1, <1>5, <1>6 DEF TypeOK
<1> QED BY Zenon, <1>7, <1>8, MemberChange DEF SetPrincipal

\* The triggers of the tenant advance every membership.
LEMMA AllMembers ==
    ASSUME TypeOK, MemberEpochAtHead,
           members' = [m \in Members |-> MemberAdvanced(members[m])]
    PROVE  MembersStep /\ \A m \in Members : members'[m].head # members[m].head
<1>1. ASSUME NEW m \in Members
      PROVE  /\ members'[m] \in MemberRow /\ members'[m].epoch = members'[m].head
             /\ members'[m].head = members[m].head + 1 /\ members[m].head \in Nat
  <2>1. members[m] \in MemberRow /\ members[m].epoch = members[m].head /\ members[m].head \in Nat
    BY Zenon DEF TypeOK, MemberEpochAtHead, MemberRow
  <2>2. PICK row : row = members[m]
    BY Zenon
  <2>3. members'[m] = MemberAdvanced(row)
    BY Zenon, <2>2
  <2> QED BY Zenon, <2>1, <2>2, <2>3, MemberAdvancedRow
<1>2. members' = [m \in Members |-> members'[m]]
  BY Zenon
<1>3. members' \in [Members -> MemberRow]
  BY Zenon, <1>1, <1>2
<1>4. \A m \in Members : members'[m].head >= members[m].head /\ members'[m].head # members[m].head
  BY <1>1
<1> QED BY Zenon, <1>1, <1>3, <1>4 DEF MembersStep, MemberEpochAtHead

\* Enabling or disabling the tenant, the identity or the account keeps the fence.
LEMMA ActiveStep ==
    ASSUME TypeOK, EpochAtHead, MemberEpochAtHead, NEW p \in Parts, SetActive(p)
    PROVE  FenceStep
<1>1. GrantTypeOK /\ Advanced(Existing)
  BY Zenon DEF TypeOK, SetActive
<1>2. PICK S : S = Existing
  BY Zenon
<1>3. GrantsStep /\ \A g \in Existing : heads'[g] > heads[g]
  BY Zenon, <1>1, <1>2, AdvancedStep
<1>4. \A g \in Existing : heads'[g] # heads[g]
  <2>1. \A g \in Existing : heads[g] \in Nat /\ heads'[g] \in Nat
    BY Zenon, <1>3 DEF GrantsStep, TypeOK, GrantTypeOK, Existing
  <2> QED BY <1>3, <2>1
<1>5. MembersStep /\ (p = "tenant" => \A m \in Members : members'[m].head # members[m].head)
  <2>1. CASE p = "tenant"
    BY Zenon, <2>1, AllMembers DEF SetActive
  <2>2. CASE p # "tenant"
    <3>1. members' = members
      BY Zenon, <2>2 DEF SetActive
    <3> QED BY <2>2, <3>1 DEF MembersStep, TypeOK, MemberEpochAtHead, MemberRow
  <2> QED BY Zenon, <2>1, <2>2
<1>6. active' \subseteq Parts /\ (p # "tenant" => ("tenant" \in active' <=> "tenant" \in active))
  BY Zenon DEF SetActive, TypeOK
<1> QED BY Zenon, <1>3, <1>4, <1>5, <1>6 DEF FenceStep, SetActive, TypeOK, GrantTypeOK

\* So does a change of the connection.
LEMMA ConnectionStep ==
    ASSUME TypeOK, EpochAtHead, MemberEpochAtHead, NEW s \in ConnectionStatus, SetConnection(s)
    PROVE  FenceStep
<1>1. GrantTypeOK /\ Advanced(Existing)
  BY Zenon DEF TypeOK, SetConnection
<1>2. GrantsStep
  BY Zenon, <1>1, AdvancedStep
<1>3. members' = members /\ identity' = identity /\ active' = active /\ connection' = s
      /\ UNCHANGED <<recorded, group, held, intents, claims>>
  BY Zenon DEF SetConnection
<1>4. MembersStep
  BY <1>3 DEF MembersStep, TypeOK, MemberEpochAtHead, MemberRow
<1> QED BY Zenon, <1>2, <1>3, <1>4 DEF FenceStep, TypeOK, GrantTypeOK

\* A change of the grants alone keeps the fence.
LEMMA GrantsOnly ==
    ASSUME TypeOK, MemberEpochAtHead, GrantsStep, recorded' = recorded,
           group' \in Completion \cup {None},
           UNCHANGED <<members, identity, active, connection, held, intents, claims>>
    PROVE  FenceStep
<1>1. MembersStep
  BY DEF MembersStep, TypeOK, MemberEpochAtHead, MemberRow
<1> QED BY Zenon, <1>1 DEF FenceStep, TypeOK

\* Every change of the directory keeps the fence.
LEMMA DirectoryStep ==
    ASSUME TypeOK, EpochAtHead, MemberEpochAtHead, DirectoryNext
    PROVE  FenceStep
<1>0. GrantTypeOK /\ group \in Completion \cup {None}
  BY Zenon DEF TypeOK, GrantTypeOK
<1>1. CASE GrantChange
  <2>1. GrantsStep
    <3>1. CASE \E id \in Grants, op \in Ops, chats \in SUBSET Chats, m \in Members : Create(id, m, op, chats)
      BY Zenon, <1>0, <3>1, CreateStep
    <3>2. CASE \E id \in Grants, op \in Ops, chats \in SUBSET Chats : Update(id, op, chats)
      BY Zenon, <1>0, <3>2, UpdateStep
    <3>3. CASE \E id \in Grants : Revoke(id)
      BY Zenon, <1>0, <3>3, RevokeStep
    <3> QED BY Zenon, <1>1, <3>1, <3>2, <3>3 DEF GrantChange
  <2> QED BY Zenon, <1>0, <1>1, <2>1, GrantsOnly DEF GrantChange
<1>2. CASE GrantDeletion
  <2>1. PICK id \in Grants : DeleteAccountGrant(id)
    BY Zenon, <1>2 DEF GrantDeletion
  <2>2. GrantsStep
    BY Zenon, <1>0, <2>1, DeleteStep
  <2>3. recorded' = recorded /\ group' = group
    BY Zenon, <2>1 DEF DeleteAccountGrant
  <2> QED BY Zenon, <1>0, <1>2, <2>2, <2>3, GrantsOnly DEF GrantDeletion
<1>3. CASE GroupCompletion
  <2>1. CASE \E m \in Members, op \in Ops, ch \in Chats, fresh \in Grants : ReadExistingGrant(m, op, ch, fresh)
    <3>1. PICK m \in Members, op \in Ops, ch \in Chats, fresh \in Grants : ReadExistingGrant(m, op, ch, fresh)
      BY Zenon, <2>1
    <3>2. UNCHANGED <<grants, heads, recorded>>
      BY Zenon, <3>1 DEF ReadExistingGrant
    <3>5. group' \in Completion
      BY Zenon, <1>0, <3>1, ReadGroupType
    <3>6. GrantsStep
      BY Zenon, <1>0, <3>2, SameGrantsStep
    <3> QED BY Zenon, <1>3, <3>2, <3>5, <3>6, GrantsOnly DEF GroupCompletion
  <2>2. CASE FinishGroupCreation
    <3>1. GrantsStep
      BY Zenon, <1>0, <2>2, FinishStep
    <3>2. recorded' = recorded /\ group' = None
      BY Zenon, <2>2 DEF FinishGroupCreation
    <3> QED BY Zenon, <1>3, <3>1, <3>2, GrantsOnly DEF GroupCompletion
  <2>3. CASE GroupCompletionFails
    <3>1. UNCHANGED <<grants, heads, recorded>> /\ group' = None
      BY Zenon, <2>3 DEF GroupCompletionFails
    <3>2. GrantsStep
      BY Zenon, <1>0, <3>1, SameGrantsStep
    <3> QED BY Zenon, <1>3, <3>1, <3>2, GrantsOnly DEF GroupCompletion
  <2> QED BY Zenon, <1>3, <2>1, <2>2, <2>3 DEF GroupCompletion
<1>4. CASE \E m \in Members, r \in {"admin", "member"} : SetRole(m, r)
  BY Zenon, <1>4, RoleStep
<1>5. CASE \E m \in Members, s \in {"active", "revoked"} : SetPrincipal(m, s)
  BY Zenon, <1>5, PrincipalStep
<1>6. CASE \E m \in Members, s \in {"active", "disabled", "revoked"} : SetMembershipStatus(m, s)
  BY Zenon, <1>6, StatusStep
<1>7. CASE \E m \in Members, scopes \in SUBSET IdentityScopes : ReplaceIdentityGrants(m, scopes)
  <2>1. PICK m \in Members, scopes \in SUBSET IdentityScopes : ReplaceIdentityGrants(m, scopes)
    BY Zenon, <1>7
  <2>2. /\ GrantsStep /\ identity' \in [Members -> SUBSET IdentityScopes]
        /\ \A g \in Existing : heads'[g] = heads[g] => identity'[grants[g].member] = identity[grants[g].member]
    BY Zenon, <2>1, IdentityStep
  <2>3. UNCHANGED <<recorded, group, members, active, connection, held, intents, claims>>
    BY Zenon, <2>1 DEF ReplaceIdentityGrants
  <2>4. MembersStep
    BY <2>3 DEF MembersStep, TypeOK, MemberEpochAtHead, MemberRow
  <2> QED BY Zenon, <1>0, <2>2, <2>3, <2>4 DEF FenceStep, TypeOK
<1>8. CASE \E p \in Parts : SetActive(p)
  BY Zenon, <1>8, ActiveStep
<1>9. CASE \E s \in ConnectionStatus : SetConnection(s)
  BY Zenon, <1>9, ConnectionStep
<1> QED BY Zenon, <1>1, <1>2, <1>3, <1>4, <1>5, <1>6, <1>7, <1>8, <1>9 DEF DirectoryNext

-----------------------------------------------------------------------------
(* The reservations *)

\* The head a capability is compared with
HeadOf(cap) == IF cap.kind = "account_grant" THEN heads[cap.id] ELSE members[cap.id].head

\* A reservation was made at or below the head of its authority; it lies below
\* it for good once the authority was interrupted, and until then it is entitled
IntentInv ==
    \A k \in Keys : intents[k] # None =>
        /\ intents[k].tuple.cap.epoch <= HeadOf(intents[k].tuple.cap)
        /\ k \notin lapsed => Entitled(intents[k].tuple)
        /\ k \in lapsed => intents[k].tuple.cap.epoch < HeadOf(intents[k].tuple.cap)

\* Only an existing reservation lapses
LapsedKnown == \A k \in lapsed : intents[k] # None

AuthorityInv == TypeOK /\ EpochAtHead /\ MemberEpochAtHead /\ IntentInv /\ LapsedKnown

\* A capability names a grant or a member, and its head is a number.
LEMMA HeadType ==
    ASSUME TypeOK, NEW t \in Tuple
    PROVE  /\ HeadOf(t.cap) \in Nat /\ t.cap.epoch \in Nat /\ t.member \in Members
           /\ \/ t.cap.kind = "account_grant" /\ t.cap.id \in Grants
              \/ t.cap.kind = "owner_admin" /\ t.cap.id \in Members
<1>1. t.cap \in Capability /\ t.member \in Members
  BY Zenon DEF Tuple
<1>2. /\ t.cap.epoch \in Nat
      /\ \/ t.cap.kind = "account_grant" /\ t.cap.id \in Grants
         \/ t.cap.kind = "owner_admin" /\ t.cap.id \in Members
  <2>1. PICK c : c = t.cap
    BY Zenon
  <2>2. CASE c \in [kind: {"account_grant"}, id: Grants, epoch: Nat]
    <3>1. c.epoch \in Nat /\ c.kind = "account_grant" /\ c.id \in Grants
      BY Zenon, <2>2
    <3> QED BY Zenon, <2>1, <3>1
  <2>3. CASE c \in [kind: {"owner_admin"}, id: Members, epoch: Nat]
    <3>1. c.epoch \in Nat /\ c.kind = "owner_admin" /\ c.id \in Members
      BY Zenon, <2>3
    <3> QED BY Zenon, <2>1, <3>1
  <2> QED BY Zenon, <1>1, <2>1, <2>2, <2>3 DEF Capability
<1>3. (t.cap.id \in Grants => heads[t.cap.id] \in Nat) /\ (t.cap.id \in Members => members[t.cap.id].head \in Nat)
  BY Zenon DEF TypeOK, GrantTypeOK, MemberRow
<1> QED BY Zenon, <1>1, <1>2, <1>3 DEF HeadOf

\* The epoch an entitled authority has now is its head.
LEMMA CurrentIsHead ==
    ASSUME TypeOK, EpochAtHead, MemberEpochAtHead, NEW t \in Tuple, Entitled(t)
    PROVE  CurrentEpoch(t.cap) = HeadOf(t.cap)
<1>1. t.cap.kind = "account_grant" => t.cap.id \in Existing
  BY Zenon DEF Entitled, GrantAllows
<1>2. t.cap.kind = "account_grant" \/ (t.cap.kind = "owner_admin" /\ t.cap.id \in Members)
  BY Zenon, HeadType
<1> QED BY Zenon, <1>1, <1>2 DEF CurrentEpoch, HeadOf, EpochAtHead, MemberEpochAtHead

\* A directory change that takes an authority away advances its head.
LEMMA TupleStep ==
    ASSUME TypeOK, FenceStep, NEW t \in Tuple
    PROVE  /\ HeadOf(t.cap)' \in Nat /\ HeadOf(t.cap)' >= HeadOf(t.cap)
           /\ Entitled(t) /\ HeadOf(t.cap)' = HeadOf(t.cap) => Entitled(t)'
<1>1. CASE t.cap.kind = "account_grant" /\ t.cap.id \in Grants
  <2>1. PICK g \in Grants : g = t.cap.id
    BY Zenon, <1>1
  <2>2. HeadOf(t.cap) = heads[g] /\ HeadOf(t.cap)' = heads'[g]
    BY Zenon, <1>1, <2>1 DEF HeadOf
  <2>3. heads'[g] \in Nat /\ heads'[g] >= heads[g] /\ (heads'[g] = heads[g] => grants'[g] = grants[g])
    BY Zenon DEF FenceStep, GrantsStep
  <2>4. ASSUME Entitled(t), heads'[g] = heads[g]
        PROVE  Entitled(t)'
    <3>1. /\ g \in Existing /\ grants[g].member = t.member /\ active = Parts
          /\ MemberActive(t.member) /\ GrantAllows(g, t.member, t.chat)
      BY Zenon, <1>1, <2>1, <2>4 DEF Entitled, GrantAllows
    <3>2. /\ active' = active /\ identity'[t.member] = identity[t.member] /\ grants'[g] = grants[g]
          /\ members'[t.member].status = members[t.member].status
          /\ members'[t.member].principal = members[t.member].principal
      BY <2>3, <2>4, <3>1 DEF FenceStep
    <3>3. MemberActive(t.member)'
      BY Zenon, <3>1, <3>2 DEF MemberActive
    <3>4. GrantAllows(g, t.member, t.chat)'
      BY Zenon, <3>1, <3>2 DEF GrantAllows, Existing
    <3> QED BY Zenon, <1>1, <2>1, <3>1, <3>2, <3>3, <3>4 DEF Entitled
  <2> QED BY Zenon, <2>2, <2>3, <2>4
<1>2. CASE t.cap.kind = "owner_admin" /\ t.cap.id \in Members
  <2>1. PICK m \in Members : m = t.cap.id
    BY Zenon, <1>2
  <2>2. HeadOf(t.cap) = members[m].head /\ HeadOf(t.cap)' = members'[m].head
    BY Zenon, <1>2, <2>1 DEF HeadOf
  <2>3. members'[m].head \in Nat /\ members'[m].head >= members[m].head
        /\ (members'[m].head = members[m].head =>
              members'[m] = members[m] /\ ("tenant" \in active' <=> "tenant" \in active))
    BY Zenon DEF FenceStep, MembersStep, MemberRow
  <2>4. ASSUME Entitled(t), members'[m].head = members[m].head
        PROVE  Entitled(t)'
    BY Zenon, <1>2, <2>1, <2>3, <2>4 DEF Entitled, MemberActive
  <2> QED BY Zenon, <2>2, <2>3, <2>4
<1> QED BY Zenon, <1>1, <1>2, HeadType

\* What the history variable records of one reservation.
LEMMA LapsingOf ==
    ASSUME Lapsing, NEW k \in Keys, NEW t, intents'[k] # None, t = intents'[k].tuple
    PROVE  k \in lapsed' <=> k \in lapsed \/ ~Entitled(t)'
<1>1. lapsed' = lapsed \cup {j \in Keys : intents'[j] # None /\ ~Entitled(intents[j].tuple)'}
  BY Zenon DEF Lapsing
<1>2. Entitled(intents[k].tuple)' <=> Entitled(t)'
  BY Zenon DEF Entitled, MemberActive, GrantAllows, Existing
<1> QED BY Zenon, <1>1, <1>2

\* The initial state satisfies the invariant.
LEMMA AuthorityInit == Init => AuthorityInv
<1> SUFFICES ASSUME Init PROVE AuthorityInv
  BY Zenon
<1>1. GrantTypeOK /\ Existing = {}
  BY ZenonT(60) DEF Init, GrantInit, GrantTypeOK, Existing
<1>2. members \in [Members -> MemberRow] /\ MemberEpochAtHead
  <2> DEFINE S == {[status |-> "active", role |-> r, principal |-> "active", epoch |-> 1,
                    head |-> 1] : r \in {"admin", "member"}}
  <2>1. \A x \in S : x \in MemberRow /\ x.epoch = x.head
    BY DEF MemberRow
  <2>2. members \in [Members -> S]
    BY Zenon DEF Init
  <2> QED BY Zenon, <2>1, <2>2 DEF MemberEpochAtHead
<1>3. identity \in [Members -> SUBSET IdentityScopes]
  BY Zenon, SendAssumption DEF Init
<1>4. TypeOK
  BY Zenon, <1>1, <1>2, <1>3 DEF Init, TypeOK, ConnectionStatus
<1> QED BY Zenon, <1>1, <1>2, <1>4 DEF Init, AuthorityInv, EpochAtHead, IntentInv, LapsedKnown

\* A change of the directory preserves the invariant.
LEMMA DirectoryInv ==
    ASSUME AuthorityInv, DirectoryNext, Lapsing
    PROVE  AuthorityInv'
<1>1. TypeOK /\ EpochAtHead /\ MemberEpochAtHead
  BY Zenon DEF AuthorityInv
<1>2. FenceStep
  BY Zenon, <1>1, DirectoryStep
<1>3. intents' = intents /\ held' = held /\ claims' = claims
  BY Zenon, <1>2 DEF FenceStep
<1>4. lapsed' \subseteq Keys /\ \A k \in lapsed' : k \in lapsed \/ intents'[k] # None
  BY Zenon, <1>1 DEF Lapsing, TypeOK
<1>5. TypeOK'
  BY <1>1, <1>2, <1>3, <1>4 DEF FenceStep, GrantsStep, MembersStep, TypeOK, GrantTypeOK
<1>6. LapsedKnown'
  BY Zenon, <1>3, <1>4 DEF AuthorityInv, LapsedKnown
<1>7. ASSUME NEW k \in Keys, intents'[k] # None
      PROVE  /\ (intents[k].tuple.cap.epoch <= HeadOf(intents[k].tuple.cap))'
             /\ (k \notin lapsed => Entitled(intents[k].tuple))'
             /\ (k \in lapsed => intents[k].tuple.cap.epoch < HeadOf(intents[k].tuple.cap))'
  <2>1. PICK t : t = intents[k].tuple
    BY Zenon
  <2>2. intents[k] \in Intent
    BY Zenon, <1>1, <1>3, <1>7 DEF TypeOK
  <2>3. t \in Tuple
    BY Zenon, <2>1, <2>2 DEF Intent
  <2>4. /\ t.cap.epoch <= HeadOf(t.cap) /\ (k \notin lapsed => Entitled(t))
        /\ (k \in lapsed => t.cap.epoch < HeadOf(t.cap))
    BY Zenon, <1>3, <1>7, <2>1 DEF AuthorityInv, IntentInv
  <2>5. HeadOf(t.cap)' \in Nat /\ HeadOf(t.cap)' >= HeadOf(t.cap) /\ (Entitled(t) /\ HeadOf(t.cap)' = HeadOf(t.cap) => Entitled(t)')
    BY Zenon, <1>1, <1>2, <2>3, TupleStep
  <2>6. t = intents'[k].tuple
    BY Zenon, <1>3, <2>1
  <2>7. k \in lapsed' <=> k \in lapsed \/ ~Entitled(t)'
    BY Zenon, <1>7, <2>6, LapsingOf
  <2>8. HeadOf(t.cap) \in Nat /\ t.cap.epoch \in Nat
    BY Zenon, <1>1, <2>3, HeadType
  <2>9. /\ t.cap.epoch <= HeadOf(t.cap)' /\ (k \notin lapsed' => Entitled(t)')
         /\ (k \in lapsed' => t.cap.epoch < HeadOf(t.cap)')
    BY <2>4, <2>5, <2>7, <2>8
  <2>10. (Entitled(intents[k].tuple)' <=> Entitled(t)') /\ HeadOf(intents[k].tuple.cap)' = HeadOf(t.cap)'
    BY Zenon, <2>6 DEF Entitled, MemberActive, GrantAllows, Existing, HeadOf
  <2> QED BY Zenon, <2>6, <2>9, <2>10
<1>8. IntentInv'
  BY Zenon, <1>7 DEF IntentInv
<1> QED BY Zenon, <1>2, <1>5, <1>6, <1>8 DEF AuthorityInv, FenceStep, GrantsStep, MembersStep

\* With the directory unchanged, what an authority is worth is unchanged.
LEMMA SameDirectory ==
    ASSUME UNCHANGED directory, NEW t
    PROVE  HeadOf(t.cap)' = HeadOf(t.cap) /\ (Entitled(t)' <=> Entitled(t))
BY DEF directory, HeadOf, Entitled, MemberActive, GrantAllows, Existing

\* The types of what the requests write
RequestType ==
    /\ held' \in [Keys -> Tuple \cup {None}] /\ intents' \in [Keys -> Intent \cup {None}]
    /\ claims' \in [Keys -> {None, "claimed", "uncertain"}]

\* A request that keeps the reservations, or adds one that is entitled and
\* current, or changes the status of one, preserves the invariant.
LEMMA RequestInv ==
    ASSUME AuthorityInv, UNCHANGED <<directory, recorded>>, RequestType, Lapsing,
           \A k \in Keys : intents[k] # None => intents'[k] # None /\ intents'[k].tuple = intents[k].tuple,
           \A k \in Keys : intents[k] = None /\ intents'[k] # None => Authorised(intents'[k].tuple)
    PROVE  AuthorityInv'
<1>1. TypeOK /\ EpochAtHead /\ MemberEpochAtHead
  BY Zenon DEF AuthorityInv
<1>2. lapsed' \subseteq Keys /\ \A k \in lapsed' : k \in lapsed \/ intents'[k] # None
  BY Zenon, <1>1 DEF Lapsing, TypeOK
<1>3. TypeOK'
  BY Zenon, <1>1, <1>2 DEF TypeOK, GrantTypeOK, RequestType, directory
<1>4. EpochAtHead' /\ MemberEpochAtHead'
  BY Zenon, <1>1 DEF EpochAtHead, MemberEpochAtHead, Existing, directory
<1>5. LapsedKnown'
  BY Zenon, <1>1, <1>2 DEF AuthorityInv, LapsedKnown, TypeOK
<1>6. ASSUME NEW k \in Keys, intents'[k] # None
      PROVE  /\ (intents[k].tuple.cap.epoch <= HeadOf(intents[k].tuple.cap))'
             /\ (k \notin lapsed => Entitled(intents[k].tuple))'
             /\ (k \in lapsed => intents[k].tuple.cap.epoch < HeadOf(intents[k].tuple.cap))'
  <2>1. PICK t : t = intents'[k].tuple
    BY Zenon
  <2>2. intents'[k] \in Intent
    BY Zenon, <1>6 DEF RequestType
  <2>3. t \in Tuple
    BY Zenon, <2>1, <2>2 DEF Intent
  <2>4. /\ t.cap.epoch <= HeadOf(t.cap) /\ (k \notin lapsed => Entitled(t))
        /\ (k \in lapsed => t.cap.epoch < HeadOf(t.cap))
    <3>1. CASE intents[k] # None
      <4>1. t = intents[k].tuple
        BY Zenon, <2>1, <3>1
      <4> QED BY Zenon, <3>1, <4>1 DEF AuthorityInv, IntentInv
    <3>2. CASE intents[k] = None
      <4>1. Authorised(t) /\ k \notin lapsed
        BY Zenon, <1>6, <2>1, <3>2 DEF AuthorityInv, LapsedKnown
      <4>2. Entitled(t) /\ CurrentEpoch(t.cap) = t.cap.epoch
        BY Zenon, <4>1 DEF Authorised
      <4>3. t.cap.epoch = HeadOf(t.cap) /\ HeadOf(t.cap) \in Nat
        BY Zenon, <1>1, <2>3, <4>2, CurrentIsHead, HeadType
      <4> QED BY <4>1, <4>2, <4>3
    <3> QED BY Zenon, <3>1, <3>2
  <2>5. HeadOf(t.cap)' = HeadOf(t.cap) /\ (Entitled(t)' <=> Entitled(t))
    BY Zenon, SameDirectory
  <2>6. k \in lapsed' <=> k \in lapsed \/ ~Entitled(t)'
    BY Zenon, <1>6, <2>1, LapsingOf
  <2>7. k \in lapsed' <=> k \in lapsed \/ ~Entitled(t)
    BY Zenon, <2>5, <2>6
  <2>8. k \in lapsed' => k \in lapsed
    BY Zenon, <2>4, <2>7
  <2>9. /\ t.cap.epoch <= HeadOf(t.cap)' /\ (k \notin lapsed' => Entitled(t)')
        /\ (k \in lapsed' => t.cap.epoch < HeadOf(t.cap)')
    BY Zenon, <2>4, <2>5, <2>7, <2>8
  <2>10. (Entitled(intents[k].tuple)' <=> Entitled(t)') /\ HeadOf(intents[k].tuple.cap)' = HeadOf(t.cap)'
    BY Zenon, <2>1 DEF Entitled, MemberActive, GrantAllows, Existing, HeadOf
  <2> QED BY Zenon, <2>1, <2>9, <2>10
<1>7. IntentInv'
  BY Zenon, <1>6 DEF IntentInv
<1> QED BY Zenon, <1>3, <1>4, <1>5, <1>7 DEF AuthorityInv

\* The requests that leave the reservations alone preserve the invariant.
LEMMA SameIntents ==
    ASSUME AuthorityInv, UNCHANGED <<directory, recorded, intents>>, Lapsing,
           held' \in [Keys -> Tuple \cup {None}],
           claims' \in [Keys -> {None, "claimed", "uncertain"}]
    PROVE  AuthorityInv'
<1>1. RequestType
  BY Zenon DEF RequestType, AuthorityInv, TypeOK
<1> QED BY Zenon, <1>1, RequestInv

\* readAcceptanceCapability holds a tuple of the right type.
LEMMA ReadType ==
    ASSUME TypeOK, NEW k \in Keys, NEW m \in Members, NEW ch \in Chats, ReadCapability(k, m, ch)
    PROVE  held' \in [Keys -> Tuple \cup {None}]
<1>1. ASSUME NEW cap \in Capability, Hold(k, m, ch, cap)
      PROVE  held' \in [Keys -> Tuple \cup {None}]
  <2>1. PICK t : t = [member |-> m, chat |-> ch, cap |-> cap]
    BY ZenonT(60)
  <2>2. t \in Tuple
    BY Zenon, <2>1 DEF Tuple
  <2>3. held' = [held EXCEPT ![k] = t]
    BY Zenon, <1>1, <2>1 DEF Hold
  <2> QED BY Zenon, <2>2, <2>3 DEF TypeOK
<1>2. CASE Hold(k, m, ch, [kind |-> "owner_admin", id |-> m, epoch |-> members[m].epoch])
  <2>1. PICK e \in Nat : e = members[m].epoch
    BY Zenon DEF TypeOK, MemberRow
  <2>2. PICK cap : cap = [kind |-> "owner_admin", id |-> m, epoch |-> e]
    BY ZenonT(60)
  <2>3. cap \in Capability
    BY Zenon, <2>2 DEF Capability
  <2> QED BY ZenonT(60), <1>1, <1>2, <2>1, <2>2, <2>3
<1>3. ASSUME NEW g \in Existing, Hold(k, m, ch, [kind |-> "account_grant", id |-> g, epoch |-> grants[g].epoch])
      PROVE  held' \in [Keys -> Tuple \cup {None}]
  <2>1. g \in Grants /\ grants[g] \in GrantRow
    BY Zenon DEF Existing, TypeOK, GrantTypeOK
  <2>2. PICK e \in Nat : e = grants[g].epoch
    BY Zenon, <2>1 DEF GrantRow
  <2>3. PICK cap : cap = [kind |-> "account_grant", id |-> g, epoch |-> e]
    BY ZenonT(60)
  <2>4. cap \in Capability
    BY Zenon, <2>1, <2>3 DEF Capability
  <2> QED BY Zenon, <1>1, <1>3, <2>2, <2>3, <2>4
<1> QED BY ZenonT(60), <1>2, <1>3 DEF ReadCapability

\* reserveOutboundAcceptance adds only a reservation that is entitled and current.
LEMMA ReserveInv ==
    ASSUME AuthorityInv, NEW k \in Keys, ReserveOutboundAcceptance(k), Lapsing
    PROVE  AuthorityInv'
<1>1. TypeOK
  BY Zenon DEF AuthorityInv
<1>2. UNCHANGED <<directory, recorded, claims>> /\ held' \in [Keys -> Tuple \cup {None}]
  BY Zenon, <1>1 DEF ReserveOutboundAcceptance, TypeOK
<1>3. CASE intents[k] = None /\ Authorised(held[k])
  <2>1. PICK t : t = held[k]
    BY Zenon
  <2>2. t \in Tuple /\ Authorised(t)
    BY Zenon, <1>1, <1>3, <2>1 DEF ReserveOutboundAcceptance, TypeOK
  <2>3. PICK i : i = [status |-> "reserved", tuple |-> t]
    BY ZenonT(60)
  <2>4. i \in Intent /\ i.tuple = t
    BY Zenon, <2>2, <2>3 DEF Intent
  <2>5. intents' = [intents EXCEPT ![k] = i]
    BY Zenon, <1>3, <2>1, <2>3 DEF ReserveOutboundAcceptance
  <2>6. RequestType
    BY Zenon, <1>1, <1>2, <2>4, <2>5 DEF RequestType, TypeOK
  <2>7. \A j \in Keys : intents[j] # None => intents'[j] # None /\ intents'[j].tuple = intents[j].tuple
    BY Zenon, <1>1, <1>3, <2>5 DEF TypeOK
  <2>8. \A j \in Keys : intents[j] = None /\ intents'[j] # None => Authorised(intents'[j].tuple)
    <3>1. \A j \in Keys : intents[j] = None /\ intents'[j] # None => intents'[j].tuple = t
      BY Zenon, <1>1, <2>4, <2>5 DEF TypeOK
    <3> QED BY Zenon, <2>2, <3>1
  <2> QED BY ZenonT(60), <1>2, <2>6, <2>7, <2>8, RequestInv
<1>4. CASE ~(intents[k] = None /\ Authorised(held[k]))
  <2>1. intents' = intents
    BY Zenon, <1>4 DEF ReserveOutboundAcceptance
  <2> QED BY Zenon, <1>1, <1>2, <2>1, SameIntents DEF TypeOK
<1> QED BY Zenon, <1>3, <1>4

\* A reservation that changes its status keeps its tuple.
LEMMA SettleInv ==
    ASSUME AuthorityInv, NEW k \in Keys, intents[k] # None, NEW st \in {"committed", "uncertain"},
           intents' = [intents EXCEPT ![k].status = st],
           UNCHANGED <<directory, recorded, held, claims>>, Lapsing
    PROVE  AuthorityInv'
<1>1. TypeOK
  BY Zenon DEF AuthorityInv
<1>2. intents[k] \in Intent
  BY Zenon, <1>1 DEF TypeOK
<1>3. PICK i : i = [intents[k] EXCEPT !.status = st]
  BY ZenonT(60)
<1>4. i \in Intent /\ i.tuple = intents[k].tuple /\ i # None
  BY Zenon, <1>2, <1>3, AbsentAssumption DEF Intent
<1>5. intents' = [intents EXCEPT ![k] = i]
  BY Zenon, <1>3
<1>6. RequestType
  BY <1>1, <1>4, <1>5 DEF RequestType, TypeOK
<1>7. \A j \in Keys : intents[j] # None => intents'[j] # None /\ intents'[j].tuple = intents[j].tuple
  BY Zenon, <1>1, <1>4, <1>5 DEF TypeOK
<1>8. \A j \in Keys : intents[j] = None => intents'[j] = None
  BY Zenon, <1>1, <1>5 DEF TypeOK
<1> QED BY Zenon, <1>6, <1>7, <1>8, RequestInv

\* Every step preserves the invariant.
LEMMA AuthorityNext == AuthorityInv /\ [Next]_vars => AuthorityInv'
<1> SUFFICES ASSUME AuthorityInv, [Next]_vars PROVE AuthorityInv'
  BY Zenon
<1>1. CASE DirectoryNext /\ Lapsing
  BY Zenon, <1>1, DirectoryInv
<1>2. ASSUME NEW k \in Keys, Lapsing,
             \/ \E m \in Members, ch \in Chats : ReadCapability(k, m, ch)
             \/ ReserveOutboundAcceptance(k) \/ FinalizeOutboundAcceptance(k)
             \/ MarkOutboundAcceptanceUncertain(k)
             \/ ClaimOutboundDispatch(k) \/ MarkOutboundDispatchClaimUncertain(k)
      PROVE  AuthorityInv'
  <2>0. TypeOK /\ held \in [Keys -> Tuple \cup {None}] /\ claims \in [Keys -> {None, "claimed", "uncertain"}]
    BY Zenon DEF AuthorityInv, TypeOK
  <2>1. CASE \E m \in Members, ch \in Chats : ReadCapability(k, m, ch)
    <3>1. PICK m \in Members, ch \in Chats : ReadCapability(k, m, ch)
      BY Zenon, <2>1
    <3>2. held' \in [Keys -> Tuple \cup {None}]
      BY Zenon, <2>0, <3>1, ReadType
    <3>3. UNCHANGED <<directory, recorded, intents, claims>>
      BY ZenonT(60), <3>1 DEF ReadCapability
    <3> QED BY Zenon, <1>2, <2>0, <3>2, <3>3, SameIntents
  <2>2. CASE ReserveOutboundAcceptance(k)
    BY Zenon, <1>2, <2>2, ReserveInv
  <2>3. CASE FinalizeOutboundAcceptance(k)
    BY ZenonT(60), <1>2, <2>3, SettleInv DEF FinalizeOutboundAcceptance
  <2>4. CASE MarkOutboundAcceptanceUncertain(k)
    BY ZenonT(60), <1>2, <2>4, SettleInv DEF MarkOutboundAcceptanceUncertain
  <2>5. CASE ClaimOutboundDispatch(k)
    <3>1. UNCHANGED <<directory, recorded, held, intents>>
          /\ claims' \in [Keys -> {None, "claimed", "uncertain"}]
      BY <2>0, <2>5 DEF ClaimOutboundDispatch
    <3> QED BY Zenon, <1>2, <2>0, <3>1, SameIntents
  <2>6. CASE MarkOutboundDispatchClaimUncertain(k)
    <3>1. UNCHANGED <<directory, recorded, held, intents>>
          /\ claims' \in [Keys -> {None, "claimed", "uncertain"}]
      BY Zenon, <2>0, <2>6 DEF MarkOutboundDispatchClaimUncertain
    <3> QED BY Zenon, <1>2, <2>0, <3>1, SameIntents
  <2> QED BY Zenon, <1>2, <2>1, <2>2, <2>3, <2>4, <2>5, <2>6
<1>3. CASE UNCHANGED vars
  <2>1. UNCHANGED <<directory, recorded, held, intents, claims, lapsed>>
    BY Zenon, <1>3 DEF vars, directory, grantVars
  <2>2. TypeOK' /\ EpochAtHead' /\ MemberEpochAtHead' /\ LapsedKnown'
    BY ZenonT(60), <2>1 DEF AuthorityInv, TypeOK, GrantTypeOK, EpochAtHead, MemberEpochAtHead, LapsedKnown, Existing, directory
  <2>3. IntentInv'
    <3>1. ASSUME NEW k \in Keys, intents'[k] # None
          PROVE  /\ (intents[k].tuple.cap.epoch <= HeadOf(intents[k].tuple.cap))'
                 /\ (k \notin lapsed => Entitled(intents[k].tuple))'
                 /\ (k \in lapsed => intents[k].tuple.cap.epoch < HeadOf(intents[k].tuple.cap))'
      <4>1. PICK t : t = intents[k].tuple /\ t = intents'[k].tuple
        BY Zenon, <2>1
      <4>2. /\ t.cap.epoch <= HeadOf(t.cap) /\ (k \notin lapsed => Entitled(t))
            /\ (k \in lapsed => t.cap.epoch < HeadOf(t.cap))
        BY Zenon, <2>1, <3>1, <4>1 DEF AuthorityInv, IntentInv
      <4>3. HeadOf(t.cap)' = HeadOf(t.cap) /\ (Entitled(t)' <=> Entitled(t))
        BY Zenon, <2>1, SameDirectory
      <4>4. (Entitled(intents[k].tuple)' <=> Entitled(t)') /\ HeadOf(intents[k].tuple.cap)' = HeadOf(t.cap)'
        BY <4>1 DEF Entitled, MemberActive, GrantAllows, Existing, HeadOf
      <4> QED BY Zenon, <2>1, <4>1, <4>2, <4>3, <4>4
    <3> QED BY Zenon, <3>1 DEF IntentInv
  <2> QED BY Zenon, <2>2, <2>3 DEF AuthorityInv
<1> QED BY Zenon, <1>1, <1>2, <1>3 DEF Next, RequestNext

-----------------------------------------------------------------------------
(* The theorems *)

\* The invariant holds in every reachable state, whatever the constants are.
THEOREM AuthorityInvariance == Spec => []AuthorityInv
BY AuthorityInit, AuthorityNext, PTL DEF Spec

\* The directory, the reservations and the claims keep their types.
THEOREM AuthorityTypeCorrect == Spec => []TypeOK
<1>1. AuthorityInv => TypeOK
  BY Zenon DEF AuthorityInv
<1> QED BY <1>1, AuthorityInvariance, PTL

\* Every grant's epoch is the one its head remembers, whichever trigger of
\* migration 0025 wrote it.
THEOREM GrantEpochAtHead == Spec => []EpochAtHead
<1>1. AuthorityInv => EpochAtHead
  BY Zenon DEF AuthorityInv
<1> QED BY <1>1, AuthorityInvariance, PTL

\* So is every membership's epoch.
THEOREM MembershipEpochAtHead == Spec => []MemberEpochAtHead
<1>1. AuthorityInv => MemberEpochAtHead
  BY Zenon DEF AuthorityInv
<1> QED BY <1>1, AuthorityInvariance, PTL

\* claimOutboundDispatch never claims the provider for a command whose authority
\* was interrupted after it was reserved, even if the authority was restored.
THEOREM ClaimsFollowUnbrokenAuthority == Spec => NoClaimAfterLapse
<1>1. ASSUME AuthorityInv, [Next]_vars, NEW k \in Keys, claims[k] = None, claims'[k] # None
      PROVE  k \notin lapsed
  <2>1. TypeOK /\ EpochAtHead /\ MemberEpochAtHead
    BY Zenon, <1>1 DEF AuthorityInv
  <2>2. claims' # claims
    BY Zenon, <1>1
  <2>3. RequestNext
    <3>1. ~UNCHANGED vars
      BY Zenon, <2>2 DEF vars
    <3>2. ~DirectoryNext
      BY ZenonT(60), <2>1, <2>2, DirectoryStep DEF FenceStep
    <3> QED BY Zenon, <1>1, <3>1, <3>2 DEF Next
  <2>4. PICK j \in Keys : ClaimOutboundDispatch(j) \/ MarkOutboundDispatchClaimUncertain(j)
    BY ZenonT(60), <2>2, <2>3 DEF RequestNext, ReadCapability, ReserveOutboundAcceptance,
                      FinalizeOutboundAcceptance, MarkOutboundAcceptanceUncertain
  <2>5. ClaimOutboundDispatch(k)
    <3>1. j = k
      BY ZenonT(60), <1>1, <2>1, <2>4 DEF ClaimOutboundDispatch, MarkOutboundDispatchClaimUncertain, TypeOK
    <3>2. ~MarkOutboundDispatchClaimUncertain(k)
      BY Zenon, AbsentAssumption, <1>1, <2>1 DEF MarkOutboundDispatchClaimUncertain, TypeOK
    <3> QED BY Zenon, <2>4, <3>1, <3>2
  <2>6. PICK t : t = intents[k].tuple
    BY Zenon
  <2>7. intents[k] # None /\ Authorised(t)
    BY Zenon, <2>5, <2>6 DEF ClaimOutboundDispatch
  <2>8. intents[k] \in Intent
    BY Zenon, <2>1, <2>7 DEF TypeOK
  <2>9. t \in Tuple
    BY Zenon, <2>6, <2>8 DEF Intent
  <2>10. Entitled(t) /\ CurrentEpoch(t.cap) = t.cap.epoch
    BY Zenon, <2>7 DEF Authorised
  <2>11. t.cap.epoch = HeadOf(t.cap) /\ HeadOf(t.cap) \in Nat
    BY Zenon, <2>1, <2>9, <2>10, CurrentIsHead, HeadType
  <2>12. k \in lapsed => t.cap.epoch < HeadOf(t.cap)
    BY ZenonT(60), <1>1, <2>6, <2>7 DEF AuthorityInv, IntentInv
  <2> QED BY <2>11, <2>12
<1>2. AuthorityInv /\ [Next]_vars => [\A k \in Keys : claims[k] = None /\ claims'[k] # None => k \notin lapsed]_vars
  BY Zenon, <1>1
<1> QED BY <1>2, AuthorityInvariance, PTL DEF Spec, NoClaimAfterLapse

-----------------------------------------------------------------------------
(* The inductive invariant of the realtime notifications                     *)

\* Only NoPosition is in no generation.
PositionRow == {p \in [generation : Nat, sequence : Nat] : p.generation = 0 => p.sequence = 0}

FrameTypes == {"connected", "projection.changes", "reset_required", "close"}

Frame == {f \in [type : FrameTypes, generation : Nat, from : Nat, to : Nat] :
             f.generation = 0 => f.to = 0}

SlotStates == {"free", "ticket", "consumed", "reading", "open", "closed"}

Replays == {"none", "changes", "generation_changed", "history_unavailable", "replay_too_large"}

SlotRow == [state : SlotStates, resume : PositionRow, position : PositionRow, replay : Replays,
            others : SUBSET Slots, wire : Seq(Frame)]

ApplierRow == [phase : {"idle", "committed", "validated"}, position : PositionRow,
               sockets : SUBSET Slots, granted : BOOLEAN]

FeedRow == [generation : Nat \ {0}, state : {"ready", "rebuilding"}, latest : Nat, floor : Nat]

BrowserRow == [slot : Slots \cup {"none"}, position : PositionRow]

ToldRow == [generation : Nat, sequences : SUBSET Nat]

RealtimeShape ==
    /\ feed \in FeedRow
    /\ granted \in BOOLEAN
    /\ slots \in [Slots -> SlotRow]
    /\ appliers \in [Appliers -> ApplierRow]
    /\ browser \in BrowserRow
    /\ told \in ToldRow

\* A frame other than "connected".
Plain(f) == f.type # "connected"

\* "connected" comes first, and tells a browser that has a position nothing new.
ConnectedFirst(wire, p) ==
    \A i \in 1..Len(wire) :
        wire[i].type = "connected" =>
            i = 1 /\ (p = NoPosition \/ Position(wire[i].generation, wire[i].to) = p)

\* What waits to be accepted resumes from the position the browser still has.
SlotSound(x, p) ==
    /\ x.state \in {"ticket", "consumed", "reading"} => x.resume = p /\ x.wire = <<>>
    /\ ConnectedFirst(x.wire, p)

BrowserSound == \A s \in Slots : browser.slot = s => SlotSound(slots[s], browser.position)

\* A batch whose sockets were found valid was committed under the grant.
ApplierSound(x) ==
    /\ x.phase = "committed" /\ ~x.granted => ~granted
    /\ x.phase = "validated" => x.granted

RealtimeInv ==
    /\ RealtimeShape
    /\ BrowserSound
    /\ PositionsWereTold
    /\ \A a \in Appliers : ApplierSound(appliers[a])

-----------------------------------------------------------------------------
(* Positions, frames and wires                                               *)

LEMMA NatFacts == 0 \in Nat /\ 1 \in Nat /\ \A n \in Nat : n + 1 \in Nat /\ n + 1 # 0
OBVIOUS

LEMMA FramesTyped ==
    /\ NoPosition \in PositionRow
    /\ \A g \in Nat \ {0}, n \in Nat : Position(g, n) \in PositionRow /\ ResetRequired(g, n) \in Frame
    /\ \A p \in PositionRow : Connected(p) \in Frame
    /\ \A p \in PositionRow, n \in Nat : ChangesFrame(p.generation, n, p.sequence) \in Frame
    /\ Close \in Frame
<1>1. NoPosition \in PositionRow
  BY Zenon, NatFacts DEF NoPosition, PositionRow
<1>2. \A g \in Nat \ {0}, n \in Nat : Position(g, n) \in PositionRow /\ ResetRequired(g, n) \in Frame
  <2> TAKE g \in Nat \ {0}, n \in Nat
  <2>1. g \in Nat /\ g # 0 /\ 0 \in Nat
    BY Zenon, NatFacts
  <2>2. Position(g, n) \in PositionRow
    BY Zenon, <2>1 DEF Position, PositionRow
  <2>3. ResetRequired(g, n) \in Frame
    BY Zenon, <2>1 DEF ResetRequired, Frame, FrameTypes
  <2> QED BY Zenon, <2>2, <2>3
<1>3. \A p \in PositionRow : Connected(p) \in Frame
  BY Zenon, NatFacts DEF Connected, Frame, FrameTypes, PositionRow
<1>4. \A p \in PositionRow, n \in Nat : ChangesFrame(p.generation, n, p.sequence) \in Frame
  BY Zenon DEF ChangesFrame, Frame, FrameTypes, PositionRow
<1>5. Close \in Frame
  BY Zenon, NatFacts DEF Close, Frame, FrameTypes
<1> QED BY Zenon, <1>1, <1>2, <1>3, <1>4, <1>5

LEMMA PlainFrames ==
    Plain(Close) /\ \A g, a, b : Plain(ChangesFrame(g, a, b)) /\ Plain(ResetRequired(g, a))
BY Zenon DEF Plain, Close, ChangesFrame, ResetRequired

\* A frame sent later is not the first.
LEMMA WireGrows ==
    ASSUME NEW w \in Seq(Frame), NEW f \in Frame, Plain(f), NEW p, ConnectedFirst(w, p)
    PROVE  /\ w \o <<f>> \in Seq(Frame) /\ Append(w, f) = w \o <<f>>
           /\ ConnectedFirst(w \o <<f>>, p)
<1>1. <<f>> \in Seq(Frame) /\ Len(<<f>>) = 1 /\ <<f>>[1] = f /\ Len(w) \in Nat
  OBVIOUS
<1>2. w \o <<f>> \in Seq(Frame) /\ Append(w, f) = w \o <<f>>
  BY <1>1
<1>3. ConnectedFirst(w \o <<f>>, p)
  <2> SUFFICES ASSUME NEW i \in 1..Len(w \o <<f>>), (w \o <<f>>)[i].type = "connected"
               PROVE  /\ i = 1
                      /\ \/ p = NoPosition
                         \/ Position((w \o <<f>>)[i].generation, (w \o <<f>>)[i].to) = p
    BY Zenon DEF ConnectedFirst
  <2>1. \/ i \in 1..Len(w) /\ (w \o <<f>>)[i] = w[i]
        \/ (w \o <<f>>)[i] = f
    BY <1>1
  <2>2. i \in 1..Len(w) /\ (w \o <<f>>)[i] = w[i]
    BY Zenon, <2>1 DEF Plain
  <2> QED BY Zenon, <2>2 DEF ConnectedFirst
<1> QED BY Zenon, <1>2, <1>3

\* After the first frame no "connected" remains.
LEMMA WireShrinks ==
    ASSUME NEW w \in Seq(Frame), w # <<>>, NEW p, ConnectedFirst(w, p), NEW q
    PROVE  /\ Tail(w) \in Seq(Frame) /\ Head(w) \in Frame
           /\ ConnectedFirst(Tail(w), q)
           /\ Head(w).type = "connected" =>
                 p = NoPosition \/ Position(Head(w).generation, Head(w).to) = p
<1>1. /\ Tail(w) \in Seq(Frame) /\ Len(Tail(w)) = Len(w) - 1 /\ Len(w) \in Nat /\ Len(w) # 0
      /\ Head(w) = w[1] /\ w[1] \in Frame /\ \A i \in 1..Len(Tail(w)) : Tail(w)[i] = w[i + 1]
  OBVIOUS
<1>2. 1 \in 1..Len(w)
  BY <1>1
<1>3. ConnectedFirst(Tail(w), q)
  <2> SUFFICES ASSUME NEW i \in 1..Len(Tail(w)), Tail(w)[i].type = "connected"
               PROVE  FALSE
    BY Zenon DEF ConnectedFirst
  <2>1. i + 1 \in 1..Len(w) /\ i + 1 # 1
    BY <1>1
  <2>2. w[i + 1].type = "connected"
    BY Zenon, <1>1
  <2> QED BY Zenon, <2>1, <2>2 DEF ConnectedFirst
<1>4. Head(w).type = "connected" => p = NoPosition \/ Position(Head(w).generation, Head(w).to) = p
  BY Zenon, <1>1, <1>2 DEF ConnectedFirst
<1> QED BY Zenon, <1>1, <1>3, <1>4

LEMMA EmptyWire == <<>> \in Seq(Frame) /\ \A p : ConnectedFirst(<<>>, p)
<1>1. <<>> \in Seq(Frame) /\ 1..Len(<<>>) = {}
  OBVIOUS
<1> QED BY Zenon, <1>1 DEF ConnectedFirst

\* The first frame of a socket that was accepted.
LEMMA FirstFrame ==
    ASSUME NEW q \in PositionRow, NEW p, p = NoPosition \/ q = p
    PROVE  <<Connected(q)>> \in Seq(Frame) /\ ConnectedFirst(<<Connected(q)>>, p)
<1> DEFINE c == Connected(q)
<1>1. c \in Frame
  BY Zenon, FramesTyped
<1>2. Position(c.generation, c.to) = q
  <2>1. c.generation = q.generation /\ c.to = q.sequence
    BY Zenon DEF Connected
  <2> QED BY <2>1 DEF Position, PositionRow
<1> HIDE DEF c
<1>3. <<c>> \in Seq(Frame) /\ \A i \in 1..Len(<<c>>) : i = 1 /\ <<c>>[i] = c
  BY <1>1
<1>4. ConnectedFirst(<<c>>, p)
  BY Zenon, <1>2, <1>3 DEF ConnectedFirst
<1> QED BY Zenon, <1>3, <1>4 DEF c
-----------------------------------------------------------------------------
(* Slots and sockets                                                         *)

\* What a slot may hold while the browser has its position.
SlotGood(s, x) == x \in SlotRow /\ (browser.slot = s => SlotSound(x, browser.position))

LEMMA FreeIsGood == FreeSlot \in SlotRow /\ \A p : SlotSound(FreeSlot, p)
<1>1. FreeSlot \in SlotRow
  BY Zenon, EmptyWire, FramesTyped DEF FreeSlot, SlotRow, SlotStates, Replays
<1>2. FreeSlot.state = "free" /\ FreeSlot.wire = <<>>
  BY Zenon DEF FreeSlot
<1> QED BY Zenon, <1>1, <1>2, EmptyWire DEF SlotSound

LEMMA ClosedIsGood ==
    ASSUME NEW s, NEW x, SlotGood(s, x)
    PROVE  SlotGood(s, ClosedSocket(x, s))
<1>1. CASE browser.slot # s
  BY Zenon, <1>1, FreeIsGood DEF ClosedSocket, SlotGood
<1>2. CASE browser.slot = s
  <2>1. x.wire \in Seq(Frame) /\ ConnectedFirst(x.wire, browser.position)
    BY Zenon, <1>2 DEF SlotGood, SlotRow, SlotSound
  <2>2. PICK w : w = Append(x.wire, Close)
    BY Zenon
  <2>3. w \in Seq(Frame) /\ ConnectedFirst(w, browser.position)
    BY Zenon, <2>1, <2>2, WireGrows, FramesTyped, PlainFrames
  <2>4. PICK y : y = [x EXCEPT !.state = "closed", !.wire = w]
    BY Zenon
  <2>5. y \in SlotRow /\ y.state = "closed" /\ y.wire = w
    BY Zenon, <2>3, <2>4 DEF SlotGood, SlotRow, SlotStates
  <2>6. ClosedSocket(x, s) = y
    BY Zenon, <1>2, <2>2, <2>4 DEF ClosedSocket
  <2> QED BY Zenon, <2>3, <2>5, <2>6 DEF SlotGood, SlotSound
<1> QED BY Zenon, <1>1, <1>2

LEMMA SentIsGood ==
    ASSUME NEW s, NEW x, SlotGood(s, x), x.state = "open", NEW f \in Frame, Plain(f)
    PROVE  SlotGood(s, SendFrames(x, s, <<f>>))
<1>1. CASE browser.slot # s
  BY Zenon, <1>1 DEF SendFrames, SlotGood
<1>2. CASE browser.slot = s
  <2>1. x.wire \in Seq(Frame) /\ ConnectedFirst(x.wire, browser.position)
    BY Zenon, <1>2 DEF SlotGood, SlotRow, SlotSound
  <2>2. PICK w : w = x.wire \o <<f>>
    BY Zenon
  <2>3. w \in Seq(Frame) /\ ConnectedFirst(w, browser.position)
    BY Zenon, <2>1, <2>2, WireGrows
  <2>4. PICK y : y = [x EXCEPT !.wire = w]
    BY Zenon
  <2>5. y \in SlotRow /\ y.state = "open" /\ y.wire = w
    BY Zenon, <2>3, <2>4 DEF SlotGood, SlotRow
  <2>6. SendFrames(x, s, <<f>>) = y
    BY Zenon, <1>2, <2>2, <2>4 DEF SendFrames
  <2> QED BY Zenon, <2>3, <2>5, <2>6 DEF SlotGood, SlotSound
<1> QED BY Zenon, <1>1, <1>2

\* A socket that is accepted with the frames it is first sent.
LEMMA AcceptedIsGood ==
    ASSUME NEW s, NEW x \in SlotRow, x.wire = <<>>, x.state = "open",
           NEW w \in Seq(Frame), ConnectedFirst(w, browser.position)
    PROVE  SlotGood(s, SendFrames(x, s, w))
<1>1. CASE browser.slot # s
  BY Zenon, <1>1 DEF SendFrames, SlotGood
<1>2. CASE browser.slot = s
  <2>1. x.wire \o w = w
    OBVIOUS
  <2>2. PICK y : y = [x EXCEPT !.wire = w]
    BY Zenon
  <2>3. y \in SlotRow /\ y.state = "open" /\ y.wire = w
    BY Zenon, <2>2 DEF SlotRow
  <2>4. SendFrames(x, s, w) = y
    BY Zenon, <1>2, <2>1, <2>2 DEF SendFrames
  <2> QED BY Zenon, <2>3, <2>4 DEF SlotGood, SlotSound
<1> QED BY Zenon, <1>1, <1>2

LEMMA SlotsAreGood ==
    ASSUME RealtimeInv, NEW s \in Slots
    PROVE  SlotGood(s, slots[s])
BY Zenon DEF RealtimeInv, RealtimeShape, BrowserSound, SlotGood

\* A step that leaves the browser's position alone.
LEMMA PositionStays ==
    ASSUME RealtimeInv, UNCHANGED told, feed' \in FeedRow, granted' \in BOOLEAN,
           appliers' \in [Appliers -> ApplierRow], \A a \in Appliers : ApplierSound(appliers[a])',
           browser' \in BrowserRow, browser'.position = browser.position,
           browser'.slot \in {browser.slot, "none"}, slots' \in [Slots -> SlotRow],
           \A s \in Slots : browser'.slot = s => SlotSound(slots'[s], browser.position)
    PROVE  RealtimeInv'
<1>1. RealtimeShape'
  BY Zenon DEF RealtimeInv, RealtimeShape
<1>2. BrowserSound'
  BY Zenon DEF BrowserSound, SlotSound, ConnectedFirst
<1>3. PositionsWereTold'
  BY Zenon DEF RealtimeInv, PositionsWereTold
<1> QED BY Zenon, <1>1, <1>2, <1>3 DEF RealtimeInv

LEMMA AppliersStay ==
    ASSUME RealtimeInv, UNCHANGED <<appliers, granted>>
    PROVE  /\ granted' \in BOOLEAN /\ appliers' \in [Appliers -> ApplierRow]
           /\ \A a \in Appliers : ApplierSound(appliers[a])'
BY Zenon DEF RealtimeInv, RealtimeShape, ApplierSound

\* A step that only works on sockets.
LEMMA SocketStep ==
    ASSUME RealtimeInv, UNCHANGED <<told, browser>>, feed' \in FeedRow, granted' \in BOOLEAN,
           appliers' \in [Appliers -> ApplierRow], \A a \in Appliers : ApplierSound(appliers[a])',
           slots' \in [Slots -> SlotRow], \A s \in Slots : SlotGood(s, slots'[s])
    PROVE  RealtimeInv'
<1>1. browser' \in BrowserRow
  BY Zenon DEF RealtimeInv, RealtimeShape
<1> QED BY Zenon, <1>1, PositionStays DEF SlotGood

\* Some sockets are closed.
LEMMA ClosingIsGood ==
    ASSUME RealtimeInv, NEW C,
           slots' = [s \in Slots |-> IF s \in C THEN ClosedSocket(slots[s], s) ELSE slots[s]]
    PROVE  slots' \in [Slots -> SlotRow] /\ \A s \in Slots : SlotGood(s, slots'[s])
<1>1. \A s \in Slots : slots'[s] = slots[s] \/ slots'[s] = ClosedSocket(slots[s], s)
  BY Zenon
<1>2. \A s \in Slots : SlotGood(s, slots'[s])
  BY Zenon, <1>1, SlotsAreGood, ClosedIsGood
<1>3. \A s \in Slots : slots'[s] \in SlotRow
  BY Zenon, <1>2 DEF SlotGood
<1> QED BY Zenon, <1>2, <1>3
-----------------------------------------------------------------------------
(* Tickets and upgrades                                                      *)

LEMMA FeedStays ==
    ASSUME RealtimeInv
    PROVE  /\ feed \in FeedRow /\ browser \in BrowserRow /\ slots \in [Slots -> SlotRow]
           /\ browser.position \in PositionRow
           /\ Position(feed.generation, feed.latest) \in PositionRow
<1>1. feed \in FeedRow /\ browser \in BrowserRow /\ slots \in [Slots -> SlotRow]
  BY Zenon DEF RealtimeInv, RealtimeShape
<1>2. browser.position \in PositionRow /\ feed.generation \in Nat \ {0} /\ feed.latest \in Nat
  BY Zenon, <1>1 DEF FeedRow, BrowserRow
<1> QED BY Zenon, <1>1, <1>2, FramesTyped

LEMMA TicketKeepsInv ==
    ASSUME RealtimeInv, NEW s \in Slots, createRealtimeTicket(s)
    PROVE  RealtimeInv'
<1>1. PICK x : x = issueRealtimeTicket(browser.position)
  BY Zenon
<1>2. x \in SlotRow /\ x.resume = browser.position /\ x.wire = <<>>
  <2>1. FreeSlot.wire = <<>>
    BY Zenon DEF FreeSlot
  <2> QED BY Zenon, <1>1, <2>1, FreeIsGood, FeedStays DEF issueRealtimeTicket, SlotRow, SlotStates
<1>3. slots' = [slots EXCEPT ![s] = x] /\ browser' = [browser EXCEPT !.slot = s]
  BY Zenon, <1>1 DEF createRealtimeTicket
<1>4. slots' \in [Slots -> SlotRow] /\ slots'[s] = x
  BY Zenon, <1>2, <1>3, FeedStays
<1>5. browser' \in BrowserRow /\ browser'.slot = s /\ browser'.position = browser.position
  BY Zenon, <1>3, FeedStays DEF BrowserRow
<1>6. UNCHANGED <<feed, granted, appliers, told>>
  BY Zenon DEF createRealtimeTicket
<1>7. RealtimeShape' /\ \A a \in Appliers : ApplierSound(appliers[a])'
  BY Zenon, <1>4, <1>5, <1>6, AppliersStay, FeedStays DEF RealtimeInv, RealtimeShape
<1>8. SlotSound(x, browser.position)
  BY Zenon, <1>2, EmptyWire DEF SlotSound
<1>9. BrowserSound'
  BY Zenon, <1>4, <1>5, <1>8 DEF BrowserSound, SlotSound, ConnectedFirst
<1>10. PositionsWereTold'
  BY Zenon, <1>5, <1>6 DEF RealtimeInv, PositionsWereTold
<1> QED BY Zenon, <1>7, <1>9, <1>10 DEF RealtimeInv

\* The browser is told that its socket is gone.
LEMMA LeavingKeepsInv ==
    ASSUME RealtimeInv, UNCHANGED <<feed, granted, appliers, told>>, NEW s \in Slots, NEW x \in SlotRow,
           slots' = [slots EXCEPT ![s] = x],
           browser' = IF browser.slot = s THEN [browser EXCEPT !.slot = "none"] ELSE browser
    PROVE  RealtimeInv'
<1>1. slots' \in [Slots -> SlotRow] /\ \A r \in Slots : r # s => slots'[r] = slots[r]
  BY Zenon, FeedStays
<1>2. browser' \in BrowserRow /\ browser'.position = browser.position
  BY Zenon, FeedStays DEF BrowserRow
<1>3. browser'.slot \in {browser.slot, "none"} /\ browser'.slot # s
  BY Zenon, FeedStays, RealtimeConstants DEF BrowserRow
<1>4. \A r \in Slots : browser'.slot = r => SlotSound(slots'[r], browser.position)
  BY Zenon, <1>1, <1>3, SlotsAreGood, RealtimeConstants DEF SlotGood
<1>5. feed' \in FeedRow
  BY Zenon, FeedStays
<1> QED BY Zenon, <1>1, <1>2, <1>3, <1>4, <1>5, AppliersStay, PositionStays

LEMMA RefusedKeepsInv ==
    ASSUME RealtimeInv, UNCHANGED <<feed, granted, appliers, told>>, NEW s \in Slots, Refused(s)
    PROVE  RealtimeInv'
BY Zenon, LeavingKeepsInv, FreeIsGood DEF Refused

\* A step on one slot.
LEMMA OneSlotKeepsInv ==
    ASSUME RealtimeInv, UNCHANGED <<feed, granted, appliers, told, browser>>, NEW s \in Slots, NEW x,
           SlotGood(s, x), slots' = [slots EXCEPT ![s] = x]
    PROVE  RealtimeInv'
<1>1. x \in SlotRow /\ slots' \in [Slots -> SlotRow]
  BY Zenon, FeedStays DEF SlotGood
<1>2. \A r \in Slots : slots'[r] = slots[r] \/ (r = s /\ slots'[r] = x)
  BY Zenon, FeedStays
<1>3. \A r \in Slots : SlotGood(r, slots'[r])
  BY Zenon, <1>2, SlotsAreGood
<1>4. feed' \in FeedRow
  BY Zenon, FeedStays
<1> QED BY Zenon, <1>1, <1>3, <1>4, AppliersStay, SocketStep

LEMMA ConsumeKeepsInv ==
    ASSUME RealtimeInv, NEW s \in Slots, consumeRealtimeTicket(s)
    PROVE  RealtimeInv'
<1>1. CASE granted
  <2>1. PICK x : x = [slots[s] EXCEPT !.state = "consumed"]
    BY Zenon
  <2>2. slots' = [slots EXCEPT ![s] = x] /\ UNCHANGED <<feed, granted, appliers, told, browser>>
    BY <1>1, <2>1 DEF consumeRealtimeTicket
  <2>3. slots[s] \in SlotRow /\ slots[s].state = "ticket" /\ SlotGood(s, slots[s])
    BY Zenon, SlotsAreGood DEF consumeRealtimeTicket, SlotGood
  <2>4. x \in SlotRow /\ x.resume = slots[s].resume /\ x.wire = slots[s].wire
    BY Zenon, <2>1, <2>3 DEF SlotRow, SlotStates
  <2>5. SlotGood(s, x)
    BY Zenon, <2>3, <2>4 DEF SlotGood, SlotSound
  <2> QED BY Zenon, <2>2, <2>5, OneSlotKeepsInv
<1>2. CASE ~granted
  BY Zenon, <1>2, RefusedKeepsInv DEF consumeRealtimeTicket
<1> QED BY Zenon, <1>1, <1>2

LEMMA FreshKeepsInv ==
    ASSUME RealtimeInv, NEW s \in Slots, acceptFresh(s)
    PROVE  RealtimeInv'
<1>1. PICK q : q = Position(feed.generation, feed.latest)
  BY Zenon
<1>2. q \in PositionRow
  BY Zenon, <1>1, FeedStays
<1>3. UNCHANGED <<feed, granted, appliers, told>>
  BY Zenon DEF acceptFresh
<1>4. PICK x : x = [slots[s] EXCEPT !.state = "open", !.position = q]
  BY Zenon
<1>5. CASE slots' = [slots EXCEPT ![s] = SendFrames(x, s, <<Connected(q)>>)] /\ UNCHANGED browser
  <2>1. slots[s] \in SlotRow /\ slots[s].state = "consumed" /\ slots[s].resume = NoPosition
        /\ SlotGood(s, slots[s])
    BY Zenon, SlotsAreGood DEF acceptFresh, SlotGood
  <2>2. x \in SlotRow /\ x.state = "open" /\ x.wire = slots[s].wire
    BY Zenon, <1>2, <1>4, <2>1 DEF SlotRow, SlotStates
  <2>3. SlotGood(s, SendFrames(x, s, <<Connected(q)>>))
    <3>1. CASE browser.slot # s
      BY Zenon, <2>2, <3>1 DEF SendFrames, SlotGood
    <3>2. CASE browser.slot = s
      <4>1. slots[s].wire = <<>> /\ browser.position = NoPosition
        BY Zenon, <2>1, <3>2 DEF SlotGood, SlotSound
      <4>2. <<Connected(q)>> \in Seq(Frame) /\ ConnectedFirst(<<Connected(q)>>, browser.position)
        BY Zenon, <1>2, <4>1, FirstFrame
      <4> QED BY Zenon, <2>2, <4>1, <4>2, AcceptedIsGood
    <3> QED BY Zenon, <3>1, <3>2
  <2> QED BY Zenon, <1>3, <1>5, <2>3, OneSlotKeepsInv
<1>6. CASE Refused(s)
  BY Zenon, <1>3, <1>6, RefusedKeepsInv
<1> QED BY Zenon, <1>1, <1>4, <1>5, <1>6, FeedStays DEF acceptFresh

LEMMA ReadKeepsInv ==
    ASSUME RealtimeInv, NEW s \in Slots, readReplay(s)
    PROVE  RealtimeInv'
<1>1. CASE feed.state = "ready"
  <2>1. PICK q, a, o : /\ q = Position(feed.generation, feed.latest) /\ a = replayAction(slots[s].resume)
                       /\ o = OpenSockets
    BY Zenon
  <2>2. PICK x : x = [slots[s] EXCEPT !.state = "reading", !.replay = a, !.others = o, !.position = q]
    BY Zenon
  <2>3. slots' = [slots EXCEPT ![s] = x] /\ UNCHANGED <<feed, granted, appliers, told, browser>>
    BY Zenon, <1>1, <2>1, <2>2 DEF readReplay
  <2>4. slots[s] \in SlotRow /\ slots[s].state = "consumed" /\ SlotGood(s, slots[s])
    BY Zenon, SlotsAreGood DEF readReplay, SlotGood
  <2>5. q \in PositionRow /\ a \in Replays /\ o \subseteq Slots
    BY Zenon, <2>1, FeedStays DEF replayAction, Replays, OpenSockets
  <2>6. x \in SlotRow /\ x.resume = slots[s].resume /\ x.wire = slots[s].wire
    BY Zenon, <2>2, <2>4, <2>5 DEF SlotRow, SlotStates
  <2>7. SlotGood(s, x)
    BY Zenon, <2>4, <2>6 DEF SlotGood, SlotSound
  <2> QED BY Zenon, <2>3, <2>7, OneSlotKeepsInv
<1>2. CASE feed.state # "ready"
  BY Zenon, <1>2, RefusedKeepsInv DEF readReplay
<1> QED BY Zenon, <1>1, <1>2

\* The frames of a resumed socket: its position, then what it missed.
LEMMA ResumedFrames ==
    ASSUME NEW x \in SlotRow
    PROVE  /\ <<Connected(x.resume)>> \o ReplayFrames(x) \in Seq(Frame)
           /\ ConnectedFirst(<<Connected(x.resume)>> \o ReplayFrames(x), x.resume)
<1>1. PICK w : w = <<Connected(x.resume)>>
  BY Zenon
<1>2. x.resume \in PositionRow /\ x.position \in PositionRow
  BY Zenon DEF SlotRow
<1>3. w \in Seq(Frame) /\ ConnectedFirst(w, x.resume)
  BY Zenon, <1>1, <1>2, FirstFrame
<1>4. CASE ReplayFrames(x) = <<>>
  <2>1. w \o <<>> = w
    BY <1>3
  <2> QED BY Zenon, <1>1, <1>3, <1>4, <2>1
<1>5. ASSUME NEW f \in Frame, Plain(f), ReplayFrames(x) = <<f>>
      PROVE  w \o ReplayFrames(x) \in Seq(Frame) /\ ConnectedFirst(w \o ReplayFrames(x), x.resume)
  BY Zenon, <1>3, <1>5, WireGrows
<1>6. x.resume.sequence + 1 \in Nat
  BY Zenon, <1>2, NatFacts DEF PositionRow
<1>7. PICK f, g : /\ f = ChangesFrame(x.position.generation, x.resume.sequence + 1, x.position.sequence)
                  /\ g = ResetRequired(x.position.generation, x.position.sequence)
  BY Zenon
<1>8. f \in Frame /\ g \in Frame
  <2>1. g.generation = 0 => g.to = 0
    BY Zenon, <1>2, <1>7 DEF ResetRequired, PositionRow
  <2>2. g \in [type : FrameTypes, generation : Nat, from : Nat, to : Nat]
    BY Zenon, <1>2, <1>7, NatFacts DEF ResetRequired, PositionRow, FrameTypes
  <2> QED BY Zenon, <1>2, <1>6, <1>7, <2>1, <2>2, FramesTyped DEF Frame
<1>9. Plain(f) /\ Plain(g)
  BY Zenon, <1>7, PlainFrames
<1>10. ReplayFrames(x) = <<>> \/ ReplayFrames(x) = <<f>> \/ ReplayFrames(x) = <<g>>
  BY Zenon, <1>7 DEF ReplayFrames
<1> QED BY Zenon, <1>1, <1>4, <1>5, <1>8, <1>9, <1>10

LEMMA ResumeKeepsInv ==
    ASSUME RealtimeInv, NEW s \in Slots, acceptResumed(s)
    PROVE  RealtimeInv'
<1>1. PICK x : x = slots[s]
  BY Zenon
<1>2. x \in SlotRow /\ x.state = "reading" /\ SlotGood(s, x)
  BY Zenon, <1>1, SlotsAreGood DEF acceptResumed, SlotGood
<1>3. PICK w, o : /\ w = <<Connected(x.resume)>> \o ReplayFrames(x)
                  /\ o = [x EXCEPT !.state = "open", !.replay = "none", !.others = {}]
  BY Zenon
<1>4. o \in SlotRow /\ o.state = "open" /\ o.wire = x.wire
  BY Zenon, <1>2, <1>3 DEF SlotRow, SlotStates, Replays
<1>5. SlotGood(s, SendFrames(o, s, w))
  <2>1. CASE browser.slot # s
    BY Zenon, <1>4, <2>1 DEF SendFrames, SlotGood
  <2>2. CASE browser.slot = s
    <3>1. x.wire = <<>> /\ browser.position = x.resume
      BY Zenon, <1>2, <2>2 DEF SlotGood, SlotSound
    <3>2. w \in Seq(Frame) /\ ConnectedFirst(w, browser.position)
      BY Zenon, <1>2, <1>3, <3>1, ResumedFrames
    <3> QED BY Zenon, <1>4, <3>1, <3>2, AcceptedIsGood
  <2> QED BY Zenon, <2>1, <2>2
<1>6. PICK C, admitted :
        /\ admitted \in BOOLEAN
        /\ slots' = [r \in Slots |-> IF r = s THEN IF admitted THEN SendFrames(o, s, w) ELSE FreeSlot
                                     ELSE IF r \in C THEN ClosedSocket(slots[r], r) ELSE slots[r]]
        /\ browser' = IF admitted \/ browser.slot # s THEN browser ELSE [browser EXCEPT !.slot = "none"]
  <2>1. PICK valid \in SUBSET x.others :
          LET admitted == Cardinality(valid) < MaxSockets
          IN  /\ slots' = [r \in Slots |->
                    IF r = s THEN IF admitted THEN SendFrames(o, s, w) ELSE FreeSlot
                    ELSE IF r \in (x.others \ valid) \cap OpenSockets
                      THEN ClosedSocket(slots[r], r) ELSE slots[r]]
              /\ browser' = IF admitted \/ browser.slot # s THEN browser
                              ELSE [browser EXCEPT !.slot = "none"]
    BY Zenon, <1>1, <1>3 DEF acceptResumed
  <2>2. (Cardinality(valid) < MaxSockets) \in BOOLEAN
    OBVIOUS
  <2> WITNESS (x.others \ valid) \cap OpenSockets, Cardinality(valid) < MaxSockets
  <2> QED BY Zenon, <2>1, <2>2
<1>7. UNCHANGED <<feed, granted, appliers, told>>
  BY Zenon DEF acceptResumed
<1>8. \A r \in Slots : SlotGood(r, slots'[r]) \/ (r = s /\ ~admitted /\ slots'[r] = FreeSlot)
  <2>1. \A r \in Slots : \/ slots'[r] = slots[r]
                         \/ slots'[r] = ClosedSocket(slots[r], r)
                         \/ r = s /\ admitted /\ slots'[r] = SendFrames(o, s, w)
                         \/ r = s /\ ~admitted /\ slots'[r] = FreeSlot
    BY Zenon, <1>6
  <2> QED BY Zenon, <2>1, <1>5, SlotsAreGood, ClosedIsGood
<1>9. slots' \in [Slots -> SlotRow]
  <2>1. \A r \in Slots : slots'[r] \in SlotRow
    BY Zenon, <1>8, FreeIsGood DEF SlotGood
  <2> QED BY Zenon, <2>1, <1>6
<1>10. /\ browser' \in BrowserRow /\ browser'.position = browser.position
       /\ browser'.slot \in {browser.slot, "none"} /\ (browser'.slot = s => admitted)
  <2>1. CASE admitted \/ browser.slot # s
    BY Zenon, <1>6, <2>1, FeedStays
  <2>2. CASE ~(admitted \/ browser.slot # s)
    <3>1. browser' = [browser EXCEPT !.slot = "none"]
      BY Zenon, <1>6, <2>2
    <3> QED BY Zenon, <3>1, FeedStays, RealtimeConstants DEF BrowserRow
  <2> QED BY Zenon, <2>1, <2>2
<1>11. \A r \in Slots : browser'.slot = r => SlotSound(slots'[r], browser.position)
  <2> SUFFICES ASSUME NEW r \in Slots, browser'.slot = r PROVE SlotSound(slots'[r], browser.position)
    BY Zenon
  <2>1. browser.slot = r
    BY Zenon, <1>10, RealtimeConstants
  <2>2. SlotGood(r, slots'[r])
    BY Zenon, <1>8, <1>10
  <2> QED BY Zenon, <2>1, <2>2 DEF SlotGood
<1>12. feed' \in FeedRow
  BY Zenon, <1>7, FeedStays
<1> QED BY Zenon, <1>7, <1>9, <1>10, <1>11, <1>12, AppliersStay, PositionStays

-----------------------------------------------------------------------------
(* The feed, broadcasts and alarms                                           *)

LEMMA FeedKeepsInv ==
    ASSUME RealtimeInv, UNCHANGED <<slots, browser, told>>, feed' \in FeedRow, granted' \in BOOLEAN,
           appliers' \in [Appliers -> ApplierRow], \A a \in Appliers : ApplierSound(appliers[a])'
    PROVE  RealtimeInv'
<1>1. slots' \in [Slots -> SlotRow] /\ \A s \in Slots : SlotGood(s, slots'[s])
  BY Zenon, SlotsAreGood, FeedStays
<1> QED BY Zenon, <1>1, SocketStep

LEMMA TrimKeepsInv ==
    ASSUME RealtimeInv, trimProjectionChanges \/ rebuildCompletes
    PROVE  RealtimeInv'
<1>1. feed' \in FeedRow
  <2>1. CASE trimProjectionChanges
    <3>1. PICK n : n = feed.floor + 1
      BY Zenon
    <3>2. n \in Nat
      BY Zenon, <3>1, FeedStays, NatFacts DEF FeedRow
    <3>3. feed' = [feed EXCEPT !.floor = n]
      BY Zenon, <2>1, <3>1 DEF trimProjectionChanges
    <3> QED BY Zenon, <3>2, <3>3, FeedStays DEF FeedRow
  <2>2. CASE rebuildCompletes
    <3>1. PICK latest \in Nat, floor \in 0..feed.latest :
            feed' = [feed EXCEPT !.state = "ready", !.latest = latest, !.floor = floor]
      BY Zenon, <2>2 DEF rebuildCompletes
    <3>2. floor \in Nat
      BY FeedStays DEF FeedRow
    <3> QED BY Zenon, <3>1, <3>2, FeedStays DEF FeedRow
  <2> QED BY Zenon, <2>1, <2>2
<1>2. UNCHANGED <<slots, browser, told, granted, appliers>>
  BY Zenon DEF trimProjectionChanges, rebuildCompletes
<1> QED BY Zenon, <1>1, <1>2, AppliersStay, FeedKeepsInv

LEMMA RevokeKeepsInv ==
    ASSUME RealtimeInv, revokeGrant
    PROVE  RealtimeInv'
<1>1. UNCHANGED <<slots, browser, told, feed, appliers>> /\ granted' = FALSE
  BY Zenon DEF revokeGrant
<1>2. appliers' \in [Appliers -> ApplierRow] /\ \A a \in Appliers : ApplierSound(appliers[a])'
  BY Zenon, <1>1 DEF RealtimeInv, RealtimeShape, ApplierSound
<1>3. feed' \in FeedRow /\ granted' \in BOOLEAN
  BY Zenon, <1>1, FeedStays
<1> QED BY Zenon, <1>1, <1>2, <1>3, FeedKeepsInv

LEMMA IdleIsSound == IdleApplier \in ApplierRow /\ IdleApplier.phase = "idle"
BY Zenon, FramesTyped DEF IdleApplier, ApplierRow

\* A step of one batch.
LEMMA OneApplier ==
    ASSUME RealtimeInv, UNCHANGED granted, NEW a \in Appliers, NEW x \in ApplierRow, ApplierSound(x),
           appliers' = [appliers EXCEPT ![a] = x]
    PROVE  /\ granted' \in BOOLEAN /\ appliers' \in [Appliers -> ApplierRow]
           /\ \A b \in Appliers : ApplierSound(appliers[b])'
<1>1. appliers \in [Appliers -> ApplierRow] /\ granted' \in BOOLEAN
  BY Zenon DEF RealtimeInv, RealtimeShape
<1>2. appliers' \in [Appliers -> ApplierRow]
  BY Zenon, <1>1
<1>3. \A b \in Appliers : ApplierSound(appliers'[b])
  BY Zenon, <1>1 DEF RealtimeInv
<1> QED BY Zenon, <1>1, <1>2, <1>3 DEF ApplierSound

LEMMA ChangeKeepsInv ==
    ASSUME RealtimeInv, NEW a \in Appliers, applyChange(a)
    PROVE  RealtimeInv'
<1>1. feed \in FeedRow /\ granted \in BOOLEAN
  BY Zenon DEF RealtimeInv, RealtimeShape
<1>2. PICK n, k : n = feed.latest + 1 /\ k = IF n - feed.floor > MaxChanges THEN feed.floor + 1 ELSE feed.floor
  BY Zenon
<1>3. n \in Nat /\ k \in Nat
  BY Zenon, <1>1, <1>2, NatFacts DEF FeedRow
<1>4. feed' = [feed EXCEPT !.latest = n, !.floor = k]
  BY Zenon, <1>2 DEF applyChange
<1>5. feed' \in FeedRow
  BY Zenon, <1>1, <1>3, <1>4 DEF FeedRow
<1>6. PICK y : y = [phase |-> "committed", position |-> Position(feed.generation, n),
                    sockets |-> OpenSockets, granted |-> granted]
  BY Zenon
<1>7. y \in ApplierRow /\ y.phase = "committed" /\ y.granted = granted
  <2>1. Position(feed.generation, n) \in PositionRow /\ OpenSockets \subseteq Slots
    BY Zenon, <1>1, <1>3, FramesTyped DEF FeedRow, OpenSockets
  <2> QED BY Zenon, <1>1, <1>6, <2>1 DEF ApplierRow
<1>8. ApplierSound(y) /\ ApplierSound(IdleApplier)
  BY Zenon, <1>7, IdleIsSound DEF ApplierSound
<1>9. PICK x : x = AwaitBroadcast(y)
  BY Zenon
<1>10. x \in ApplierRow /\ ApplierSound(x)
  BY Zenon, <1>7, <1>8, <1>9, IdleIsSound DEF AwaitBroadcast
<1>11. appliers' = [appliers EXCEPT ![a] = x] /\ UNCHANGED <<granted, slots, browser, told>>
  BY Zenon, <1>2, <1>6, <1>9 DEF applyChange
<1> QED BY Zenon, <1>5, <1>10, <1>11, OneApplier, FeedKeepsInv

LEMMA RevalidateKeepsInv ==
    ASSUME RealtimeInv, NEW a \in Appliers, revalidateRealtimeSockets(a)
    PROVE  RealtimeInv'
<1>1. PICK x : x = appliers[a]
  BY Zenon
<1>2. x \in ApplierRow /\ x.phase = "committed" /\ ApplierSound(x) /\ granted \in BOOLEAN
  BY Zenon, <1>1 DEF RealtimeInv, RealtimeShape, revalidateRealtimeSockets
<1>3. PICK valid \in SUBSET x.sockets :
        /\ Revalidated(x.sockets, valid)
        /\ appliers' = [appliers EXCEPT ![a] =
                AwaitBroadcast([x EXCEPT !.phase = "validated", !.sockets = valid])]
        /\ slots' = [s \in Slots |-> IF s \in (x.sockets \ valid) \cap OpenSockets
                                      THEN ClosedSocket(slots[s], s) ELSE slots[s]]
  BY Zenon, <1>1 DEF revalidateRealtimeSockets
<1>4. PICK y : y = [x EXCEPT !.phase = "validated", !.sockets = valid]
  BY Zenon
<1>5. y \in ApplierRow /\ y.phase = "validated" /\ y.sockets = valid /\ y.granted = x.granted
  BY Zenon, <1>2, <1>4 DEF ApplierRow
<1>6. valid # {} => granted
  BY Zenon, <1>3 DEF Revalidated
<1>7. granted => x.granted
  BY Zenon, <1>2 DEF ApplierSound
<1>8. PICK z : z = AwaitBroadcast(y)
  BY Zenon
<1>9. z \in ApplierRow /\ ApplierSound(z)
  <2>1. CASE valid = {}
    BY Zenon, <1>5, <1>8, <2>1, IdleIsSound DEF AwaitBroadcast, ApplierSound
  <2>2. CASE valid # {}
    BY Zenon, <1>5, <1>6, <1>7, <1>8, <2>2 DEF AwaitBroadcast, ApplierSound
  <2> QED BY Zenon, <2>1, <2>2
<1>10. appliers' = [appliers EXCEPT ![a] = z] /\ UNCHANGED <<granted, browser, told, feed>>
  BY Zenon, <1>3, <1>4, <1>8 DEF revalidateRealtimeSockets
<1>11. slots' \in [Slots -> SlotRow] /\ \A s \in Slots : SlotGood(s, slots'[s])
  BY Zenon, <1>3, ClosingIsGood
<1>12. feed' \in FeedRow
  BY Zenon, <1>10, FeedStays
<1> QED BY Zenon, <1>9, <1>10, <1>11, <1>12, OneApplier, SocketStep

LEMMA BroadcastKeepsInv ==
    ASSUME RealtimeInv, NEW a \in Appliers, broadcastRealtimeChanges(a)
    PROVE  RealtimeInv'
<1>1. PICK p, n : p = appliers[a].position /\ n = appliers[a].sockets
  BY Zenon
<1>2. p \in PositionRow
  BY Zenon, <1>1 DEF RealtimeInv, RealtimeShape, ApplierRow
<1>3. PICK f : f = ChangesFrame(p.generation, p.sequence, p.sequence)
  BY Zenon
<1>4. f \in Frame /\ Plain(f)
  BY Zenon, <1>2, <1>3, FramesTyped, PlainFrames DEF PositionRow
<1>5. slots' = [s \in Slots |-> IF s \in n /\ Receives(s, p)
                                 THEN SendFrames([slots[s] EXCEPT !.position = p], s, <<f>>)
                                 ELSE slots[s]]
  BY Zenon, <1>1, <1>3 DEF broadcastRealtimeChanges
<1>6. \A s \in Slots : SlotGood(s, slots'[s])
  <2> SUFFICES ASSUME NEW s \in Slots, s \in n, Receives(s, p) PROVE SlotGood(s, slots'[s])
    BY Zenon, <1>5, SlotsAreGood
  <2>1. PICK y : y = [slots[s] EXCEPT !.position = p]
    BY Zenon
  <2>2. slots[s] \in SlotRow /\ slots[s].state = "open" /\ SlotGood(s, slots[s])
    BY Zenon, SlotsAreGood DEF Receives, SlotGood
  <2>3. y \in SlotRow /\ y.state = "open" /\ y.wire = slots[s].wire
    BY Zenon, <1>2, <2>1, <2>2 DEF SlotRow
  <2>4. SlotGood(s, y)
    BY Zenon, <2>2, <2>3 DEF SlotGood, SlotSound
  <2>5. slots'[s] = SendFrames(y, s, <<f>>)
    BY Zenon, <1>5, <2>1
  <2> QED BY Zenon, <1>4, <2>3, <2>4, <2>5, SentIsGood
<1>7. slots' \in [Slots -> SlotRow]
  <2>1. \A s \in Slots : slots'[s] \in SlotRow
    BY Zenon, <1>6 DEF SlotGood
  <2> QED BY Zenon, <1>5, <2>1
<1>8. appliers' = [appliers EXCEPT ![a] = IdleApplier] /\ UNCHANGED <<granted, browser, told, feed>>
  BY Zenon DEF broadcastRealtimeChanges
<1>9. feed' \in FeedRow /\ ApplierSound(IdleApplier)
  BY Zenon, <1>8, FeedStays, IdleIsSound DEF ApplierSound
<1> QED BY Zenon, <1>6, <1>7, <1>8, <1>9, IdleIsSound, OneApplier, SocketStep

LEMMA RebuildKeepsInv ==
    ASSUME RealtimeInv, resetRealtimeSocketsForRebuild
    PROVE  RealtimeInv'
<1>1. PICK g : g = feed.generation + 1
  BY Zenon
<1>2. g \in Nat \ {0}
  BY Zenon, <1>1, FeedStays, NatFacts DEF FeedRow
<1>3. feed' = [feed EXCEPT !.state = "rebuilding", !.generation = g]
  BY Zenon, <1>1 DEF resetRealtimeSocketsForRebuild
<1>4. feed' \in FeedRow
  BY Zenon, <1>2, <1>3, FeedStays DEF FeedRow
<1>5. PICK f : f = ResetRequired(g, 0)
  BY Zenon
<1>6. f \in Frame /\ Plain(f)
  BY Zenon, <1>2, <1>5, FramesTyped, PlainFrames, NatFacts
<1>7. slots' = [s \in Slots |-> IF s \in OpenSockets
                                 THEN ClosedSocket(SendFrames(slots[s], s, <<f>>), s) ELSE slots[s]]
  BY Zenon, <1>1, <1>5 DEF resetRealtimeSocketsForRebuild
<1>8. \A s \in Slots : SlotGood(s, slots'[s])
  <2> SUFFICES ASSUME NEW s \in Slots, s \in OpenSockets PROVE SlotGood(s, slots'[s])
    BY Zenon, <1>7, SlotsAreGood
  <2>1. slots[s].state = "open"
    BY Zenon DEF OpenSockets
  <2>2. SlotGood(s, SendFrames(slots[s], s, <<f>>))
    BY Zenon, <1>6, <2>1, SlotsAreGood, SentIsGood
  <2> QED BY Zenon, <1>7, <2>2, ClosedIsGood
<1>9. slots' \in [Slots -> SlotRow]
  <2>1. \A s \in Slots : slots'[s] \in SlotRow
    BY Zenon, <1>8 DEF SlotGood
  <2> QED BY Zenon, <1>7, <2>1
<1>10. UNCHANGED <<granted, appliers, browser, told>>
  BY Zenon DEF resetRealtimeSocketsForRebuild
<1> QED BY Zenon, <1>4, <1>8, <1>9, <1>10, AppliersStay, SocketStep

LEMMA AlarmKeepsInv ==
    ASSUME RealtimeInv, alarm \/ alarmCloses
    PROVE  RealtimeInv'
<1>1. UNCHANGED <<feed, granted, appliers, browser, told>>
  BY Zenon DEF alarm, alarmCloses
<1>2. feed' \in FeedRow
  BY Zenon, <1>1, FeedStays
<1>3. CASE alarm
  <2>1. UNCHANGED slots
    BY Zenon, <1>3 DEF alarm
  <2> QED BY Zenon, <1>1, <1>2, <2>1, AppliersStay, FeedKeepsInv
<1>4. CASE alarmCloses
  <2>1. PICK remaining :
          slots' = [s \in Slots |-> IF s \in (lease.sockets \ remaining) \cap OpenSockets
                                     THEN ClosedSocket(slots[s], s) ELSE slots[s]]
    BY Zenon, <1>4 DEF alarmCloses
  <2>2. slots' \in [Slots -> SlotRow] /\ \A s \in Slots : SlotGood(s, slots'[s])
    BY Zenon, <2>1, ClosingIsGood
  <2> QED BY Zenon, <1>1, <1>2, <2>2, AppliersStay, SocketStep
<1> QED BY Zenon, <1>3, <1>4
-----------------------------------------------------------------------------
(* The browser                                                               *)

\* The browser lets go of its socket.
LEMMA AbandonKeepsInv ==
    ASSUME RealtimeInv, UNCHANGED <<feed, granted, appliers, told>>, NEW s \in Slots, browser.slot = s,
           slots' = AbandonedSocket(s), browser' = [browser EXCEPT !.slot = "none"]
    PROVE  RealtimeInv'
<1>1. PICK y : y = [slots[s] EXCEPT !.wire = <<>>]
  BY Zenon
<1>2. y \in SlotRow
  <2>1. slots[s] \in SlotRow
    BY Zenon, FeedStays
  <2> QED BY Zenon, <1>1, <2>1, EmptyWire DEF SlotRow
<1>3. PICK x : x = IF slots[s].state \in {"closed", "ticket"} THEN FreeSlot ELSE y
  BY Zenon
<1>4. x \in SlotRow
  BY Zenon, <1>2, <1>3, FreeIsGood
<1>5. slots' = [slots EXCEPT ![s] = x]
  BY <1>1, <1>3 DEF AbandonedSocket
<1>6. browser' = IF browser.slot = s THEN [browser EXCEPT !.slot = "none"] ELSE browser
  BY Zenon
<1> QED BY Zenon, <1>4, <1>5, <1>6, LeavingKeepsInv

\* The browser takes a frame, and its position is q afterwards.
LEMMA FrameTaken ==
    ASSUME RealtimeInv, UNCHANGED <<feed, granted, appliers>>, NEW s \in Slots, browser.slot = s,
           slots[s].wire # <<>>, slots' = TakeFrame(s), NEW q \in PositionRow,
           browser' = [browser EXCEPT !.position = q], PositionsWereTold', told' \in ToldRow
    PROVE  RealtimeInv'
<1>1. PICK w : w = slots[s].wire
  BY Zenon
<1>2. slots[s] \in SlotRow /\ SlotSound(slots[s], browser.position)
  BY Zenon, SlotsAreGood DEF SlotGood
<1>3. w \in Seq(Frame) /\ ConnectedFirst(w, browser.position) /\ w # <<>>
  BY Zenon, <1>1, <1>2 DEF SlotRow, SlotSound
<1>4. Tail(w) \in Seq(Frame) /\ ConnectedFirst(Tail(w), q)
  BY Zenon, <1>3, WireShrinks
<1>5. PICK t, x : t = Tail(w) /\ x = [slots[s] EXCEPT !.wire = t]
  BY Zenon
<1>6. slots' = [slots EXCEPT ![s] = x]
  BY <1>1, <1>5 DEF TakeFrame
<1>7. x \in SlotRow /\ x.state = slots[s].state /\ x.wire = t
  BY Zenon, <1>2, <1>4, <1>5 DEF SlotRow
<1>8. x.state \notin {"ticket", "consumed", "reading"}
  BY Zenon, <1>1, <1>2, <1>3, <1>7 DEF SlotSound
<1>9. SlotSound(x, q)
  BY Zenon, <1>4, <1>5, <1>7, <1>8 DEF SlotSound
<1>10. slots' \in [Slots -> SlotRow] /\ slots'[s] = x
  BY Zenon, <1>6, <1>7, FeedStays
<1>11. browser' \in BrowserRow /\ browser'.slot = s /\ browser'.position = q
  BY Zenon, FeedStays DEF BrowserRow
<1>12. BrowserSound'
  <2>1. \A r \in Slots : browser'.slot = r => SlotSound(slots'[r], browser'.position)
    BY Zenon, <1>9, <1>10, <1>11
  <2> QED BY Zenon, <2>1 DEF BrowserSound
<1>13. RealtimeShape' /\ \A a \in Appliers : ApplierSound(appliers[a])'
  BY Zenon, <1>10, <1>11, FeedStays, AppliersStay DEF RealtimeShape
<1> QED BY Zenon, <1>12, <1>13 DEF RealtimeInv

LEMMA ConnectedIsTold ==
    ASSUME RealtimeInv, NEW s \in Slots, NEW f \in Frame, handleConnected(s, f),
           browser.position = NoPosition \/ Position(f.generation, f.to) = browser.position
    PROVE  /\ PositionsWereTold' /\ told' \in ToldRow
           /\ \E q \in PositionRow : browser' = [browser EXCEPT !.position = q]
<1>1. PICK p : p = Position(f.generation, f.to)
  BY Zenon
<1>2. p \in PositionRow
  BY Zenon, <1>1 DEF Frame, Position, PositionRow
<1>3. CASE browser.position = NoPosition
  <2>1. /\ browser' = [browser EXCEPT !.position = p]
        /\ told' = [generation |-> p.generation, sequences |-> 1..p.sequence]
    BY Zenon, <1>1, <1>3 DEF handleConnected
  <2>2. browser'.position = p /\ told'.generation = p.generation /\ told'.sequences = 1..p.sequence
    BY Zenon, <2>1, FeedStays DEF BrowserRow
  <2>3. told' \in ToldRow
    <3>1. p.generation \in Nat /\ 1..p.sequence \subseteq Nat
      BY <1>2 DEF PositionRow
    <3> QED BY Zenon, <2>1, <3>1 DEF ToldRow
  <2> QED BY Zenon, <1>2, <2>1, <2>2, <2>3 DEF PositionsWereTold
<1>4. CASE browser.position # NoPosition
  <2>1. p = browser.position
    BY Zenon, <1>1, <1>4
  <2>2. ~Behind(p, p)
    BY <1>2 DEF Behind, PositionRow
  <2>3. /\ browser' = [browser EXCEPT !.position = IF Behind(browser.position, p) THEN p ELSE browser.position]
        /\ UNCHANGED told
    BY Zenon, <1>1, <1>4 DEF handleConnected
  <2>4. browser' = [browser EXCEPT !.position = p]
    BY Zenon, <2>1, <2>3
  <2>5. browser'.position = browser.position
    BY Zenon, <2>1, <2>4, FeedStays DEF BrowserRow
  <2> QED BY Zenon, <1>2, <2>3, <2>4, <2>5 DEF RealtimeInv, RealtimeShape, PositionsWereTold
<1> QED BY Zenon, <1>3, <1>4

LEMMA ResetIsTold ==
    ASSUME RealtimeInv, NEW s \in Slots, NEW f \in Frame, handleReset(s, f)
    PROVE  /\ PositionsWereTold' /\ told' \in ToldRow
           /\ \E q \in PositionRow : browser' = [browser EXCEPT !.position = q]
<1>1. PICK p : p = Position(f.generation, f.to)
  BY Zenon
<1>2. p \in PositionRow /\ p.generation = f.generation /\ p.sequence = f.to
  BY Zenon, <1>1 DEF Frame, Position, PositionRow
<1>3. /\ browser' = [browser EXCEPT !.position = p]
      /\ told'.generation = f.generation /\ told'.sequences = 1..f.to
  BY Zenon, <1>1 DEF handleReset
<1>4. browser'.position = p
  BY Zenon, <1>3, FeedStays DEF BrowserRow
<1>5. told' \in ToldRow
  <2>1. f.generation \in Nat /\ 1..f.to \subseteq Nat
    BY DEF Frame
  <2>2. told' = [generation |-> f.generation, sequences |-> 1..f.to]
    BY Zenon DEF handleReset
  <2> QED BY Zenon, <2>1, <2>2 DEF ToldRow
<1> QED BY Zenon, <1>2, <1>3, <1>4, <1>5 DEF PositionsWereTold

\* A frame of changes that is not dropped and leaves no gap.
LEMMA ChangesAreTold ==
    ASSUME RealtimeInv, NEW s \in Slots, NEW f \in Frame,
           browser.position.generation # 0 => f.generation = browser.position.generation,
           ~(f.to <= browser.position.sequence), ~(f.from > browser.position.sequence + 1),
           browser' = [browser EXCEPT !.position = Position(f.generation, f.to)],
           told' = Told(f.generation, f.from..f.to)
    PROVE  /\ PositionsWereTold' /\ told' \in ToldRow
           /\ \E q \in PositionRow : browser' = [browser EXCEPT !.position = q]
<1>1. PICK p, k : p = Position(f.generation, f.to) /\ k = browser.position
  BY Zenon
<1>2. p \in PositionRow /\ p.generation = f.generation /\ p.sequence = f.to
  BY Zenon, <1>1 DEF Frame, Position, PositionRow
<1>3. browser'.position = p
  BY Zenon, <1>1, FeedStays DEF BrowserRow
<1>4. k \in PositionRow /\ k.sequence \in Nat /\ (k.generation = 0 => k.sequence = 0)
  BY Zenon, <1>1, FeedStays DEF PositionRow
<1>5. f.from \in Nat /\ f.to \in Nat
  BY Zenon DEF Frame
<1>6. 1..f.to \subseteq 1..k.sequence \cup f.from..f.to
  BY <1>1, <1>4, <1>5
<1>7. PICK m : m = f.from..f.to
  BY Zenon
<1>8. told \in ToldRow /\ m \subseteq Nat /\ f.generation \in Nat
  <2>1. m \subseteq Nat /\ f.generation \in Nat
    BY <1>5, <1>7 DEF Frame
  <2> QED BY Zenon, <2>1 DEF RealtimeInv, RealtimeShape
<1>9. /\ told' \in ToldRow /\ told'.generation = f.generation /\ m \subseteq told'.sequences
      /\ told.generation = f.generation => told.sequences \subseteq told'.sequences
  <2>1. CASE told.generation = f.generation
    <3>1. PICK u : u = told.sequences \cup m
      BY Zenon
    <3>2. told' = [told EXCEPT !.sequences = u]
      BY Zenon, <1>7, <2>1, <3>1 DEF Told
    <3>3. told' \in ToldRow /\ told'.generation = told.generation /\ told'.sequences = u
      BY Zenon, <1>8, <3>1, <3>2 DEF ToldRow
    <3> QED BY Zenon, <2>1, <3>1, <3>3
  <2>2. CASE told.generation # f.generation
    <3>1. PICK g, t : g = f.generation /\ t = [generation |-> g, sequences |-> m]
      BY Zenon
    <3>2. told' = t
      BY Zenon, <1>7, <2>2, <3>1 DEF Told
    <3>3. t \in ToldRow /\ t.generation = g /\ t.sequences = m
      BY ONLY Zenon, <1>8, <3>1 DEF ToldRow
    <3> QED BY Zenon, <2>2, <3>1, <3>2, <3>3
  <2> QED BY Zenon, <2>1, <2>2
<1>10. 1..f.to \subseteq told'.sequences
  <2>1. CASE k.generation = 0
    <3>1. 1..k.sequence = {}
      BY <1>4, <2>1
    <3> QED BY Zenon, <1>6, <1>7, <1>9, <3>1
  <2>2. CASE k.generation # 0
    <3>1. k # NoPosition
      BY <2>2 DEF NoPosition
    <3>2. told.generation = f.generation /\ 1..k.sequence \subseteq told.sequences
      BY Zenon, <1>1, <2>2, <3>1 DEF RealtimeInv, PositionsWereTold
    <3> QED BY Zenon, <1>6, <1>7, <1>9, <3>2
  <2> QED BY Zenon, <2>1, <2>2
<1> QED BY Zenon, <1>1, <1>2, <1>3, <1>9, <1>10 DEF PositionsWereTold

LEMMA MessageKeepsInv ==
    ASSUME RealtimeInv, NEW s \in Slots, handleMessage(s)
    PROVE  RealtimeInv'
<1>1. PICK w, f : w = slots[s].wire /\ f = Head(w)
  BY Zenon
<1>2. browser.slot = s /\ w # <<>> /\ UNCHANGED <<feed, granted, appliers>>
  BY Zenon, <1>1 DEF handleMessage
<1>3. slots[s] \in SlotRow /\ SlotSound(slots[s], browser.position)
  BY Zenon, <1>2, SlotsAreGood DEF SlotGood
<1>4. w \in Seq(Frame) /\ ConnectedFirst(w, browser.position)
  BY Zenon, <1>1, <1>3 DEF SlotRow, SlotSound
<1>5. /\ f \in Frame
      /\ f.type = "connected" =>
            browser.position = NoPosition \/ Position(f.generation, f.to) = browser.position
  BY Zenon, <1>1, <1>2, <1>4, WireShrinks
<1>6. CASE handleConnected(s, f)
  <2>1. slots' = TakeFrame(s) /\ f.type = "connected"
    BY Zenon, <1>6 DEF handleConnected
  <2>2. PositionsWereTold' /\ told' \in ToldRow /\ \E q \in PositionRow : browser' = [browser EXCEPT !.position = q]
    BY Zenon, <1>5, <1>6, <2>1, ConnectedIsTold
  <2> QED BY Zenon, <1>1, <1>2, <2>1, <2>2, FrameTaken
<1>7. CASE handleReset(s, f)
  <2>1. slots' = TakeFrame(s)
    BY Zenon, <1>7 DEF handleReset
  <2>2. PositionsWereTold' /\ told' \in ToldRow /\ \E q \in PositionRow : browser' = [browser EXCEPT !.position = q]
    BY Zenon, <1>5, <1>7, ResetIsTold
  <2> QED BY Zenon, <1>1, <1>2, <2>1, <2>2, FrameTaken
<1>8. CASE handleClose(s, f)
  <2>1. /\ slots' = [slots EXCEPT ![s] = FreeSlot] /\ UNCHANGED told
        /\ browser' = IF browser.slot = s THEN [browser EXCEPT !.slot = "none"] ELSE browser
    BY Zenon, <1>2, <1>8 DEF handleClose
  <2> QED BY Zenon, <1>2, <2>1, FreeIsGood, LeavingKeepsInv
<1>9. CASE handleChanges(s, f)
  <2>1. CASE \/ browser.position.generation # 0 /\ f.generation # browser.position.generation
             \/ f.to <= browser.position.sequence
    <3>1. slots' = TakeFrame(s) /\ UNCHANGED <<browser, told>>
      BY Zenon, <1>9, <2>1 DEF handleChanges
    <3>2. browser' = [browser EXCEPT !.position = browser.position]
      BY <3>1, FeedStays DEF BrowserRow
    <3>3. PositionsWereTold' /\ told' \in ToldRow
      BY Zenon, <3>1 DEF RealtimeInv, RealtimeShape, PositionsWereTold
    <3> QED BY Zenon, <1>1, <1>2, <3>1, <3>2, <3>3, FeedStays, FrameTaken
  <2>2. CASE /\ ~(\/ browser.position.generation # 0 /\ f.generation # browser.position.generation
                  \/ f.to <= browser.position.sequence)
             /\ f.from > browser.position.sequence + 1
    <3>1. slots' = AbandonedSocket(s) /\ browser' = [browser EXCEPT !.slot = "none"] /\ UNCHANGED told
      BY Zenon, <1>9, <2>2 DEF handleChanges
    <3> QED BY Zenon, <1>2, <3>1, AbandonKeepsInv
  <2>3. CASE /\ ~(\/ browser.position.generation # 0 /\ f.generation # browser.position.generation
                  \/ f.to <= browser.position.sequence)
             /\ ~(f.from > browser.position.sequence + 1)
    <3>1. /\ slots' = TakeFrame(s)
          /\ browser' = [browser EXCEPT !.position = Position(f.generation, f.to)]
          /\ told' = Told(f.generation, f.from..f.to)
      BY Zenon, <1>9, <2>3 DEF handleChanges
    <3>2. PositionsWereTold' /\ told' \in ToldRow /\ \E q \in PositionRow : browser' = [browser EXCEPT !.position = q]
      BY Zenon, <1>5, <2>3, <3>1, ChangesAreTold
    <3> QED BY Zenon, <1>1, <1>2, <3>1, <3>2, FrameTaken
  <2> QED BY Zenon, <2>1, <2>2, <2>3
<1> QED BY Zenon, <1>1, <1>6, <1>7, <1>8, <1>9 DEF handleMessage

LEMMA RealtimeStepKeepsInv ==
    ASSUME RealtimeInv, [RealtimeNext]_realtimeVars
    PROVE  RealtimeInv'
<1>1. ASSUME NEW s \in Slots, slotSteps(s) PROVE RealtimeInv'
  <2>1. CASE webSocketClose(s)
    <3>1. slots' = [slots EXCEPT ![s] = FreeSlot] /\ UNCHANGED <<feed, granted, appliers, told, browser>>
      BY Zenon, <2>1 DEF webSocketClose
    <3>2. SlotGood(s, FreeSlot)
      BY Zenon, FreeIsGood DEF SlotGood
    <3> QED BY Zenon, <3>1, <3>2, OneSlotKeepsInv
  <2>2. CASE scheduleLease(s)
    BY Zenon, <2>2, AbandonKeepsInv DEF scheduleLease
  <2> QED BY Zenon, <1>1, <2>1, <2>2, ConsumeKeepsInv, FreshKeepsInv, ReadKeepsInv, ResumeKeepsInv,
          MessageKeepsInv DEF slotSteps
<1>2. ASSUME NEW s \in Slots, connectionDrops(s) PROVE RealtimeInv'
  BY Zenon, <1>2, AbandonKeepsInv DEF connectionDrops
<1>3. ASSUME NEW s \in Slots, ticketExpires(s) PROVE RealtimeInv'
  BY Zenon, <1>3, RefusedKeepsInv DEF ticketExpires
<1>4. ASSUME NEW a \in Appliers, applierSteps(a) PROVE RealtimeInv'
  BY Zenon, <1>4, RevalidateKeepsInv, BroadcastKeepsInv DEF applierSteps
<1>5. ASSUME UNCHANGED realtimeVars PROVE RealtimeInv'
  <2>1. UNCHANGED <<slots, browser, told, feed, granted, appliers>>
    BY Zenon, <1>5 DEF realtimeVars
  <2>2. feed' \in FeedRow
    BY Zenon, <2>1, FeedStays
  <2> QED BY Zenon, <2>1, <2>2, AppliersStay, FeedKeepsInv
<1> QED BY Zenon, <1>1, <1>2, <1>3, <1>4, <1>5, TicketKeepsInv, ChangeKeepsInv, TrimKeepsInv,
        RebuildKeepsInv, RevokeKeepsInv, AlarmKeepsInv DEF RealtimeNext

LEMMA RealtimeInitSound ==
    ASSUME RealtimeInit
    PROVE  RealtimeInv
<1>1. feed \in FeedRow /\ browser \in BrowserRow /\ told \in ToldRow
  <2>1. 1 \in Nat \ {0} /\ 0 \in Nat
    OBVIOUS
  <2>2. feed \in FeedRow
    BY Zenon, <2>1 DEF RealtimeInit, FeedRow
  <2>3. told \in ToldRow
    BY Zenon, <2>1 DEF RealtimeInit, ToldRow
  <2>4. browser \in BrowserRow
    BY Zenon, FramesTyped DEF RealtimeInit, BrowserRow
  <2> QED BY Zenon, <2>2, <2>3, <2>4
<1>2. RealtimeShape
  BY Zenon, <1>1, FreeIsGood, IdleIsSound DEF RealtimeInit, RealtimeShape
<1>3. BrowserSound
  BY Zenon, FreeIsGood DEF RealtimeInit, BrowserSound
<1>4. PositionsWereTold
  BY Zenon DEF RealtimeInit, PositionsWereTold
<1>5. \A a \in Appliers : ApplierSound(appliers[a])
  BY Zenon, IdleIsSound DEF RealtimeInit, ApplierSound
<1> QED BY Zenon, <1>2, <1>3, <1>4, <1>5 DEF RealtimeInv

\* The inductive invariant of Realtime: frames on the wire never carry the
\* browser past its position without telling its listeners, and only batches
\* committed under the grant are ready to be broadcast.
THEOREM RealtimeInvariance == RealtimeSpec => []RealtimeInv
<1>1. RealtimeInit => RealtimeInv
  BY Zenon, RealtimeInitSound
<1>2. RealtimeInv /\ [RealtimeNext]_realtimeVars => RealtimeInv'
  BY Zenon, RealtimeStepKeepsInv
<1> QED BY <1>1, <1>2, PTL DEF RealtimeSpec

\* The stored position of the browser never passes a change its listeners were
\* not told of (handleChanges, handleConnected, handleReset), for any number of
\* sockets, batches, rebuilds and broken connections.
THEOREM PositionsWereAlwaysTold == RealtimeSpec => []PositionsWereTold
<1>1. RealtimeInv => PositionsWereTold
  BY Zenon DEF RealtimeInv
<1> QED BY <1>1, RealtimeInvariance, PTL

\* No change that was committed after the revocation is broadcast (applyBatch).
THEOREM NeverBroadcastAfterRevocation == RealtimeSpec => NoBroadcastAfterRevocation
<1>1. RealtimeInv =>
        [\A a \in Appliers :
           broadcastRealtimeChanges(a) /\ slots' # slots => appliers[a].granted]_realtimeVars
  BY Zenon DEF RealtimeInv, ApplierSound, broadcastRealtimeChanges
<1> QED BY <1>1, RealtimeInvariance, PTL DEF NoBroadcastAfterRevocation
=============================================================================
