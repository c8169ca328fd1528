------------------------- MODULE OutboundAuthority -------------------------
(***************************************************************************)
(* The send authority of one tenant in D1: on top of the delegated grants  *)
(* (AccountGrants), the memberships with the epoch of their owner/admin    *)
(* authority, the directory rows whose triggers advance those epochs, the  *)
(* acceptance reservations (`outbound_acceptance_intents`) and the         *)
(* provider claims (`outbound_dispatch_claims`).  A request reads a        *)
(* capability in one statement and reserves with it in another; `held`     *)
(* is what it carries between the two.  One identity, one account and one  *)
(* connection stand for the owner of the chats.                            *)
(***************************************************************************)
EXTENDS AccountGrants

CONSTANTS
    Keys,            \* idempotency keys of acceptance requests
    IdentityScopes   \* operation scopes of identity_grants

ASSUME SendAssumption == "message.send" \in Ops \cap IdentityScopes
ASSUME ScopesAssumption == IsFiniteSet(IdentityScopes)

VARIABLES
    members,      \* memberships, each with its principal
    identity,     \* identity_grants: the scopes a membership has on the identity
    active,       \* which of the tenant, the identity and the account are active
    connection,   \* connections.status
    held,         \* the tuple with the capability a request has read
    intents,      \* outbound_acceptance_intents by idempotency key
    claims,       \* outbound_dispatch_claims by the key of their reservation
    lapsed        \* history: intents whose authority was interrupted since

directory == <<grants, heads, group, members, identity, active, connection>>
vars == <<grantVars, members, identity, active, connection, held, intents, claims, lapsed>>

Parts == {"tenant", "identity", "account"}
ConnectionStatus == {"connected", "syncing", "attention_required", "disconnected"}
Usable == {"connected", "syncing"}
\* revoked_at follows the status; head is the membership's outbound_authority_heads row
MemberRow == [status: {"active", "disabled", "revoked"}, role: {"admin", "member"},
              principal: {"active", "revoked"}, epoch: Nat, head: Nat]
Capability == [kind: {"account_grant"}, id: Grants, epoch: Nat]
                \cup [kind: {"owner_admin"}, id: Members, epoch: Nat]
Tuple == [member: Members, chat: Chats, cap: Capability]
Intent == [status: {"reserved", "committed", "uncertain"}, tuple: Tuple]

ASSUME AbsentAssumption == None \notin Intent \cup {"claimed", "uncertain"}

DirectoryBounded == Bounded /\ \A m \in Members : members[m].head < MaxEpoch

-----------------------------------------------------------------------------
(* What a capability is worth now *)

GrantAllows(g, m, ch) ==
    /\ g \in Existing
    /\ grants[g].member = m /\ grants[g].op = "message.send" /\ grants[g].status = "active"
    /\ grants[g].scope = "all_chats" \/ ch \in grants[g].chats
    /\ "message.send" \in identity[m]

MemberActive(m) ==
    "tenant" \in active /\ members[m].status = "active" /\ members[m].principal = "active"

\* The authority itself, whatever its epoch; an owner's or admin's is that of
\* the membership, the identity and the account are only looked up
Entitled(t) ==
    /\ MemberActive(t.member)
    /\ \/ /\ t.cap.kind = "account_grant" /\ active = Parts
          /\ GrantAllows(t.cap.id, t.member, t.chat)
       \/ t.cap.kind = "owner_admin" /\ t.cap.id = t.member /\ members[t.member].role = "admin"

CurrentEpoch(cap) ==
    IF cap.kind = "account_grant" THEN grants[cap.id].epoch ELSE members[cap.id].epoch

\* Faulty variant: whatever was read stays good while the authority lasts
AuthorisedWhenEntitled(t) == active = Parts /\ Entitled(t)

\* The condition of both INSERT ... SELECT statements
Authorised(t) == active = Parts /\ Entitled(t) /\ CurrentEpoch(t.cap) = t.cap.epoch

-----------------------------------------------------------------------------
(* Changes of the directory and what the triggers of migration 0025 make   *)
(* of them                                                                 *)

GrantsOf(m) == {g \in Existing : grants[g].member = m}

\* outbound_membership_epoch_update when the membership itself changed
MemberFenced(row) ==
    [row EXCEPT !.head = Max2(@ + 1, row.epoch), !.epoch = Max2(row.head + 1, row.epoch)]

\* the same trigger when another trigger advanced authority_epoch
MemberAdvanced(row) ==
    [row EXCEPT !.head = Max2(@, row.epoch + 1), !.epoch = Max2(row.head, row.epoch + 1)]

\* setMembershipStatus; revoking again changes revoked_at
SetMembershipStatus(m, s) ==
    /\ DirectoryBounded
    /\ IF s # members[m].status \/ s = "revoked"
         THEN /\ members' = [members EXCEPT ![m] = MemberFenced([@ EXCEPT !.status = s])]
              /\ Advanced(GrantsOf(m))
         ELSE UNCHANGED <<members, grants, heads>>
    /\ UNCHANGED <<recorded, group, identity, active, connection, held, intents, claims>>

\* An operator promotes or demotes a membership
SetRole(m, r) ==
    /\ DirectoryBounded /\ r # members[m].role
    /\ members' = [members EXCEPT ![m] = MemberFenced([@ EXCEPT !.role = r])]
    /\ Advanced(GrantsOf(m))
    /\ UNCHANGED <<recorded, group, identity, active, connection, held, intents, claims>>

\* An operator revokes or restores the principal of a membership
SetPrincipal(m, s) ==
    /\ DirectoryBounded /\ s # members[m].principal
    /\ members' = [members EXCEPT ![m] = MemberAdvanced([@ EXCEPT !.principal = s])]
    /\ Advanced(GrantsOf(m))
    /\ UNCHANGED <<recorded, group, identity, active, connection, held, intents, claims>>

\* An operator enables or disables the tenant, the identity or the account
SetActive(p) ==
    /\ DirectoryBounded
    /\ active' = IF p \in active THEN active \ {p} ELSE active \cup {p}
    /\ members' = IF p = "tenant" THEN [m \in Members |-> MemberAdvanced(members[m])] ELSE members
    /\ Advanced(Existing)
    /\ UNCHANGED <<recorded, group, identity, connection, held, intents, claims>>

\* The connection is lost, synchronised again or re-linked
SetConnection(s) ==
    /\ DirectoryBounded /\ s # connection
    /\ connection' = s
    /\ Advanced(Existing)
    /\ UNCHANGED <<recorded, group, members, identity, active, held, intents, claims>>

\* replaceIdentityGrants: every row deleted and every row inserted fires a trigger
ReplaceIdentityGrants(m, scopes) ==
    /\ DirectoryBounded
    /\ identity' = [identity EXCEPT ![m] = scopes]
    /\ LET n == Cardinality(identity[m]) + Cardinality(scopes)
       IN /\ grants' = [g \in Grants |-> IF g \notin GrantsOf(m) \/ n = 0 THEN grants[g]
                          ELSE [grants[g] EXCEPT !.epoch = heads[g] + n]]
          /\ heads' = [g \in Grants |-> IF g \notin GrantsOf(m) THEN heads[g] ELSE heads[g] + n]
    /\ UNCHANGED <<recorded, group, members, active, connection, held, intents, claims>>

\* The grant mutations of AccountGrants, each under an idempotency key of its own
GrantChange ==
    /\ DirectoryBounded
    /\ \/ \E id \in Grants, op \in Ops, chats \in SUBSET Chats :
            (\E m \in Members : Create(id, m, op, chats)) \/ Update(id, op, chats)
       \/ \E id \in Grants : Revoke(id)
    /\ UNCHANGED <<recorded, group, members, identity, active, connection, held, intents, claims>>

GrantDeletion ==
    /\ \E id \in Grants : DeleteAccountGrant(id)
    /\ UNCHANGED <<members, identity, active, connection, held, intents, claims>>

GroupCompletion ==
    /\ \/ \E m \in Members, op \in Ops, ch \in Chats, fresh \in Grants :
            ReadExistingGrant(m, op, ch, fresh)
       \/ FinishGroupCreation \/ GroupCompletionFails
    /\ UNCHANGED <<members, identity, active, connection, held, intents, claims>>

DirectoryNext ==
    \/ GrantChange \/ GrantDeletion \/ GroupCompletion
    \/ \E m \in Members :
         \/ \E r \in {"admin", "member"} : SetRole(m, r)
         \/ \E s \in {"active", "revoked"} : SetPrincipal(m, s)
         \/ \E s \in {"active", "disabled", "revoked"} : SetMembershipStatus(m, s)
         \/ \E scopes \in SUBSET IdentityScopes : ReplaceIdentityGrants(m, scopes)
    \/ \E p \in Parts : SetActive(p)
    \/ \E s \in ConnectionStatus : SetConnection(s)

-----------------------------------------------------------------------------
(* The requests *)

Hold(k, m, ch, cap) == held' = [held EXCEPT ![k] = [member |-> m, chat |-> ch, cap |-> cap]]

\* readAcceptanceCapability, for a key without a reservation: the session of the
\* request, read before, says whether the membership's epoch or a grant's is read
ReadCapability(k, m, ch) ==
    /\ intents[k] = None /\ held[k] = None
    /\ \/ Hold(k, m, ch, [kind |-> "owner_admin", id |-> m, epoch |-> members[m].epoch])
       \/ /\ "account" \in active
          /\ \E g \in Existing :
               /\ GrantAllows(g, m, ch)
               /\ Hold(k, m, ch, [kind |-> "account_grant", id |-> g, epoch |-> grants[g].epoch])
    /\ UNCHANGED <<directory, recorded, intents, claims>>

\* reserveOutboundAcceptance: the conditional INSERT, or a denial
ReserveOutboundAcceptance(k) ==
    /\ held[k] # None
    /\ intents' = IF intents[k] = None /\ Authorised(held[k])
                    THEN [intents EXCEPT ![k] = [status |-> "reserved", tuple |-> held[k]]]
                    ELSE intents
    /\ held' = [held EXCEPT ![k] = None]
    /\ UNCHANGED <<directory, recorded, claims>>

\* finalizeOutboundAcceptance: only the tuple is compared, not the authority
FinalizeOutboundAcceptance(k) ==
    /\ intents[k] # None /\ intents[k].status = "reserved"
    /\ intents' = [intents EXCEPT ![k].status = "committed"]
    /\ UNCHANGED <<directory, recorded, held, claims>>

MarkOutboundAcceptanceUncertain(k) ==
    /\ intents[k] # None /\ intents[k].status = "reserved"
    /\ intents' = [intents EXCEPT ![k].status = "uncertain"]
    /\ UNCHANGED <<directory, recorded, held, claims>>

\* claimOutboundDispatch: the conditional INSERT; a denial and a replay of an
\* existing claim change nothing
ClaimOutboundDispatch(k) ==
    /\ intents[k] # None /\ intents[k].status = "committed" /\ claims[k] = None
    /\ connection \in Usable /\ Authorised(intents[k].tuple)
    /\ claims' = [claims EXCEPT ![k] = "claimed"]
    /\ UNCHANGED <<directory, recorded, held, intents>>

MarkOutboundDispatchClaimUncertain(k) ==
    /\ claims[k] = "claimed"
    /\ claims' = [claims EXCEPT ![k] = "uncertain"]
    /\ UNCHANGED <<directory, recorded, held, intents>>

RequestNext ==
    \E k \in Keys :
       \/ \E m \in Members, ch \in Chats : ReadCapability(k, m, ch)
       \/ ReserveOutboundAcceptance(k) \/ FinalizeOutboundAcceptance(k)
       \/ MarkOutboundAcceptanceUncertain(k)
       \/ ClaimOutboundDispatch(k) \/ MarkOutboundDispatchClaimUncertain(k)

-----------------------------------------------------------------------------
\* A membership exists from the start: its head and its epoch are one
Init ==
    /\ GrantInit
    /\ members \in [Members -> {[status |-> "active", role |-> r, principal |-> "active",
                                 epoch |-> 1, head |-> 1] : r \in {"admin", "member"}}]
    /\ identity = [m \in Members |-> {"message.send"}]
    /\ active = Parts
    /\ connection = "connected"
    /\ held = [k \in Keys |-> None]
    /\ intents = [k \in Keys |-> None]
    /\ claims = [k \in Keys |-> None]
    /\ lapsed = {}

\* The history variable: an intent lapses when its authority is interrupted
Lapsing == lapsed' = lapsed \cup {k \in Keys : intents'[k] # None /\ ~Entitled(intents[k].tuple)'}

Next == (DirectoryNext \/ RequestNext) /\ Lapsing

Spec == Init /\ [][Next]_vars

-----------------------------------------------------------------------------
TypeOK ==
    /\ GrantTypeOK
    /\ members \in [Members -> MemberRow]
    /\ identity \in [Members -> SUBSET IdentityScopes]
    /\ active \subseteq Parts /\ connection \in ConnectionStatus
    /\ held \in [Keys -> Tuple \cup {None}]
    /\ intents \in [Keys -> Intent \cup {None}]
    /\ claims \in [Keys -> {None, "claimed", "uncertain"}]
    /\ lapsed \subseteq Keys

\* The epoch of every membership is the one its head remembers.
MemberEpochAtHead == \A m \in Members : members[m].epoch = members[m].head

\* The provider boundary is claimed only under the authority the acceptance was
\* reserved with: if it was interrupted in between, even for a moment and even
\* if it was restored, claimOutboundDispatch denies.
NoClaimAfterLapse ==
    [][\A k \in Keys : claims[k] = None /\ claims'[k] # None => k \notin lapsed]_vars

\* "Reconnection can make a waiting command eligible": an acceptance committed
\* while the connection is down, whose authority is current, can be claimed once
\* the connection is usable again.  It does not hold: the change of status moves
\* the epoch that the acceptance reserved.
ReconnectionMakesEligible ==
    [][\A k \in Keys :
         /\ connection \notin Usable /\ connection' \in Usable
         /\ intents[k] # None /\ intents[k].status = "committed" /\ Authorised(intents[k].tuple)
         => Authorised(intents[k].tuple)']_vars
=============================================================================
