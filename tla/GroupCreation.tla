---------------------------- MODULE GroupCreation ----------------------------
(***************************************************************************)
(* Group creation and its reconciliation (worker/groups/service.ts and     *)
(* repository.ts).                                                         *)
(*                                                                         *)
(* The request that inserts the operation's row asks the gateway, once.    *)
(* When no usable answer comes, the handler looks for the group: a         *)
(* provider event, then one refresh.  A repeated request does the same for *)
(* a row that has been pending for longer than the dispatch lease, or that *)
(* could not be written after the provider had confirmed.  The two         *)
(* look-ups are one step here: each may find the group only once the       *)
(* provider has made it, so the pair finds what its last look-up finds.    *)
(*                                                                         *)
(* Left out: the participants and the name (the evidence names the right   *)
(* group or it does not), and which grants the creator receives (module    *)
(* AccountGrants).                                                         *)
(***************************************************************************)
EXTENDS PrivateAuthority

CONSTANTS GroupKeys, GroupHandlers, NoGroup

ASSUME GroupsAreOperations == GroupKeys \subseteq PrivateOps

VARIABLES
    creations,      \* group_creation_operations, by idempotency key
    accessGiven,    \* group_creation_access_grants
    groupCalls      \* createGroup, suspended at an await

creationVars == <<creations, accessGiven, groupCalls>>

CreationStatuses == {"absent", "pending", "created", "failed", "human_action_required"}
CreationCodes == {"none", "authorization_revoked", "provider_rejected", "evidence_unresolved",
                  "response_mismatch", "persistence_uncertain", "reservation_missing"}
NoCreation == [status |-> "absent", code |-> "none", lapsed |-> FALSE]
IdleGroupCall == [at |-> "idle", key |-> NoGroup, wanted |-> NoIntent,
                  status |-> "pending", code |-> "none"]

CreationTypeOK ==
    /\ creations \in [GroupKeys -> [status : CreationStatuses, code : CreationCodes,
                                    lapsed : BOOLEAN]]
    /\ accessGiven \subseteq GroupKeys
    /\ groupCalls \in [GroupHandlers ->
         [at : {"idle", "reserving", "waiting", "reconciling", "completing", "finishing"},
          key : GroupKeys \cup {NoGroup}, wanted : Authorities,
          status : CreationStatuses, code : CreationCodes]]

CreationInit ==
    /\ creations = [k \in GroupKeys |-> NoCreation]
    /\ accessGiven = {}
    /\ groupCalls = [h \in GroupHandlers |-> IdleGroupCall]

groupReturns(h) == groupCalls' = [groupCalls EXCEPT ![h] = IdleGroupCall]
groupGoes(h, at) == groupCalls' = [groupCalls EXCEPT ![h].at = at]
groupEnds(h, status, code) ==
    groupCalls' = [groupCalls EXCEPT ![h] =
        [groupCalls[h] EXCEPT !.at = "finishing", !.status = status, !.code = code]]

\* recoveryProviderInput: the reservation the dispatcher saved, if it is for
\* the session the replay sees
Recoverable(k) ==
    /\ intents[k] # NoIntent
    /\ intents[k].generation = standing.generation

\* Faulty variant: a repeated request takes a lapsed dispatch over
createAgainAfterLease(k) ==
    creations[k].status = "absent" \/ (creations[k].status = "pending" /\ creations[k].lapsed)

\* beginGroupCreationOperation: whoever inserts the row
GroupOwner(k) == creations[k].status = "absent"

\* A row that a repeated request reconciles instead of returning it
Unsettled(k) ==
    \/ creations[k].status = "pending" /\ creations[k].lapsed
    \/ creations[k].code = "persistence_uncertain"

\* createGroup up to the first provider call.  Scope, route, the account's
\* group capability and the caller's are read first; a request that lacks one
\* is answered without a row
createGroup(h, k) ==
    /\ groupCalls[h].at = "idle"
    /\ standing.usable /\ standing.granted
    /\ IF GroupOwner(k)
       THEN /\ creations' = [creations EXCEPT ![k] = [NoCreation EXCEPT !.status = "pending"]]
            /\ groupCalls' = [groupCalls EXCEPT ![h] =
                 [IdleGroupCall EXCEPT !.at = "reserving", !.key = k, !.wanted = Standing]]
       ELSE /\ Unsettled(k)
            /\ groupCalls' = [groupCalls EXCEPT ![h] =
                 IF Recoverable(k)
                 THEN [IdleGroupCall EXCEPT !.at = "reconciling", !.key = k]
                 ELSE [IdleGroupCall EXCEPT !.at = "finishing", !.key = k,
                         !.status = "human_action_required", !.code = "reservation_missing"]]
            /\ UNCHANGED creations
    /\ UNCHANGED accessGiven
    /\ UNCHANGED authorityVars

\* A denied reservation throws and leaves the row pending
reserveGroup(h) ==
    LET k == groupCalls[h].key IN
    /\ groupCalls[h].at = "reserving"
    /\ reservePrivateAuthority(k, groupCalls[h].wanted)
    /\ IF intents'[k] = groupCalls[h].wanted
       THEN askGateway(k) /\ groupGoes(h, "waiting")
       ELSE groupReturns(h) /\ UNCHANGED gateway
    /\ UNCHANGED <<creations, accessGiven, standing>>

groupAnswered(h) ==
    LET k == groupCalls[h].key IN
    /\ groupCalls[h].at = "waiting"
    /\ \E answer \in Heard(k) :
         \/ answer = "done" /\ groupGoes(h, "completing")
         \/ answer = "done" /\ groupEnds(h, "human_action_required", "response_mismatch")
         \/ answer = "revoked" /\ groupEnds(h, "failed", "authorization_revoked")
         \/ answer = "rejected" /\ groupEnds(h, "failed", "provider_rejected")
         \/ answer = "unavailable" /\ groupGoes(h, "reconciling")
    /\ UNCHANGED <<creations, accessGiven>>
    /\ UNCHANGED authorityVars

\* Faulty variant: a group is identified by its name alone
anyGroupOfThatName(k) == TRUE

\* Evidence of the operation's own group exists only if the provider made it
Identified(k) == gateway[k].at = "acted"

reconcileAfterCreate(h) ==
    LET k == groupCalls[h].key IN
    /\ groupCalls[h].at = "reconciling"
    /\ \/ Identified(k) /\ groupGoes(h, "completing")
       \/ groupEnds(h, "human_action_required", "evidence_unresolved")
    /\ UNCHANGED <<creations, accessGiven>>
    /\ UNCHANGED authorityVars

\* The update of the row has no condition on its status
finishGroupCreationOperation(k, status, code) ==
    creations' = [creations EXCEPT ![k] = [@ EXCEPT !.status = status, !.code = code,
                                             !.lapsed = FALSE]]

\* completeCreated: the row, the creator's grants and the webhook evaluations
\* in one batch
completeCreated(h) ==
    LET k == groupCalls[h].key IN
    /\ groupCalls[h].at = "completing"
    /\ finishGroupCreationOperation(k, "created", "none")
    /\ accessGiven' = accessGiven \cup {k}
    /\ groupReturns(h)
    /\ UNCHANGED authorityVars

\* completeCreatedWithRecovery: the batch failed
completionFails(h) ==
    /\ groupCalls[h].at = "completing"
    /\ groupEnds(h, "human_action_required", "persistence_uncertain")
    /\ UNCHANGED <<creations, accessGiven>>
    /\ UNCHANGED authorityVars

\* completeUnresolved, or a failed row
completeUnresolved(h) ==
    /\ groupCalls[h].at = "finishing"
    /\ finishGroupCreationOperation(groupCalls[h].key, groupCalls[h].status, groupCalls[h].code)
    /\ groupReturns(h)
    /\ UNCHANGED accessGiven
    /\ UNCHANGED authorityVars

\* GROUP_DISPATCH_LEASE_MS have passed since the row was written
dispatchLapses(k) ==
    /\ creations[k].status = "pending" /\ ~creations[k].lapsed
    /\ creations' = [creations EXCEPT ![k].lapsed = TRUE]
    /\ UNCHANGED <<accessGiven, groupCalls>>
    /\ UNCHANGED authorityVars

groupCallDies(h) ==
    /\ groupCalls[h].at # "idle"
    /\ groupReturns(h)
    /\ UNCHANGED <<creations, accessGiven>>
    /\ UNCHANGED authorityVars

CreationNext ==
    \/ AuthorityNext /\ UNCHANGED creationVars
    \/ \E k \in GroupKeys : gatewayActs(k) /\ UNCHANGED creationVars
    \/ \E k \in GroupKeys : dispatchLapses(k)
    \/ \E h \in GroupHandlers :
         \/ \E k \in GroupKeys : createGroup(h, k)
         \/ reserveGroup(h)
         \/ groupAnswered(h)
         \/ reconcileAfterCreate(h)
         \/ completeCreated(h)
         \/ completionFails(h)
         \/ completeUnresolved(h)
         \/ groupCallDies(h)

-----------------------------------------------------------------------------

Creating(k) == {h \in GroupHandlers : groupCalls[h].key = k
                  /\ groupCalls[h].at \in {"reserving", "waiting"}}

\* "A delayed or ambiguous result performs bounded checks, never a blind create
\* retry" (T11): repeated requests, lapsed leases and lost answers never make a
\* second request to create the group.
NoBlindCreateRetry ==
    \A k \in GroupKeys :
        /\ \A g, h \in Creating(k) : g = h
        /\ \A h \in Creating(k) : (groupCalls[h].at = "waiting") <=> (gateway[k].at # "idle")

\* "Positive identification grants the creator read/send access only to the new
\* group" (T11): a row says created, and access is given, only for a group the
\* provider made; a row that says authority was revoked was never acted on.
CreatedGroupsAreReal ==
    \A k \in GroupKeys :
        /\ creations[k].status = "created" => gateway[k].at = "acted" /\ k \in accessGiven
        /\ k \in accessGiven => gateway[k].at = "acted"
        /\ creations[k].code = "authorization_revoked" => gateway[k].at = "refused"

\* A created group stays created: does not hold, since the update that ends the
\* slower of two handlers of the same key has no condition on the status
CreatedGroupsStayCreated ==
    [][\A k \in GroupKeys : creations[k].status = "created" => creations'[k].status = "created"]_creations
=============================================================================
