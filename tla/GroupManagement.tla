--------------------------- MODULE GroupManagement ---------------------------
(***************************************************************************)
(* Changing an existing group (worker/groups/management-service.ts and     *)
(* management-repository.ts): its name, its members.                       *)
(*                                                                         *)
(* The group's row carries a revision and a claim: the operation that may  *)
(* change it now, for thirty seconds.  A request names the revision it     *)
(* expects; it claims the row, reserves its authority, asks the gateway,   *)
(* and records the provider's answer only if the answer shows the change,  *)
(* the row is still at the expected revision and the claim is still its    *)
(* own.  A repeated request for a row that has been pending too long looks *)
(* for evidence without claiming.                                          *)
(*                                                                         *)
(* The provider has a revision of its own and does not compare it with the *)
(* expected one.  Rename and add stand for the three kinds: removing is    *)
(* adding with the comparison of members turned round.  As in module       *)
(* GroupCreation, the event and the refresh are one look-up.               *)
(***************************************************************************)
EXTENDS PrivateAuthority

CONSTANTS Renames, Additions, ManageHandlers, NoChange

Changes == Renames \cup Additions

ASSUME ChangesAreOperations == Changes \subseteq PrivateOps
ASSUME ChangesApart == NoChange \notin Changes /\ Renames \cap Additions = {}

VARIABLES
    managed,        \* group_management_groups, one row
    changes,        \* group_management_operations
    provider,       \* the group as the provider has it
    outcome,        \* the observation in the gateway's answer to a change
    manageCalls     \* runManagement, suspended at an await

manageVars == <<managed, changes, provider, outcome, manageCalls>>

ChangeStatuses == {"absent", "pending", "succeeded", "failed", "human_action_required"}
ChangeCodes == {"none", "revoked", "conflict", "rejected", "invalid", "unresolved", "uncertain"}
Revisions == 0 .. 2

\* A group: the change that gave it its name, and the members added
Groups == [revision : 0 .. 2, name : Renames \cup {NoChange}, members : SUBSET Additions]
FirstGroup == [revision |-> 0, name |-> NoChange, members |-> {}]

NoManagement == [status |-> "absent", code |-> "none", expected |-> 0, lapsed |-> FALSE]
IdleManageCall == [at |-> "idle", change |-> NoChange, generation |-> 0, members |-> {},
                   data |-> FirstGroup, owner |-> FALSE, status |-> "pending", code |-> "none"]

ManageTypeOK ==
    /\ managed \in [group : Groups, active : Changes \cup {NoChange}, lapsed : BOOLEAN]
    /\ changes \in [Changes -> [status : ChangeStatuses, code : ChangeCodes,
                                expected : Revisions, lapsed : BOOLEAN]]
    /\ provider \in Groups
    /\ outcome \in [Changes -> Groups]
    /\ manageCalls \in [ManageHandlers ->
         [at : {"idle", "claiming", "reserving", "waiting", "reconciling", "completing", "finishing"},
          change : Changes \cup {NoChange}, generation : 0 .. MaxGeneration,
          members : SUBSET Additions, data : Groups, owner : BOOLEAN,
          status : ChangeStatuses, code : ChangeCodes]]

\* seedStateFromCreation: the row as the group's creation left it
ManageInit ==
    /\ managed = [group |-> FirstGroup, active |-> NoChange, lapsed |-> FALSE]
    /\ changes = [o \in Changes |-> NoManagement]
    /\ provider = FirstGroup
    /\ outcome = [o \in Changes |-> FirstGroup]
    /\ manageCalls = [h \in ManageHandlers |-> IdleManageCall]

manageReturns(h) == manageCalls' = [manageCalls EXCEPT ![h] = IdleManageCall]
manageEnds(h, status, code) ==
    manageCalls' = [manageCalls EXCEPT ![h].at = "finishing", ![h].status = status,
                                       ![h].code = code, ![h].data = FirstGroup]

\* What the provider's group becomes
Applied(o) ==
    [revision |-> provider.revision + 1,
     name |-> IF o \in Renames THEN o ELSE provider.name,
     members |-> provider.members \cup ({o} \cap Additions)]

manageActs(o) ==
    /\ gatewayActs(o)
    /\ provider' = Applied(o)
    /\ outcome' = [outcome EXCEPT ![o] = Applied(o)]
    /\ UNCHANGED <<managed, changes, manageCalls>>

\* beginGroupManagementOperation: the row is inserted unless the change is a
\* no-op; the handler keeps the members it read with it
beginGroupManagementOperation(h, o, expected) ==
    /\ changes[o].status = "absent"
    /\ o # managed.group.name /\ o \notin managed.group.members
    /\ changes' = [changes EXCEPT ![o] = [NoManagement EXCEPT !.status = "pending",
                                            !.expected = expected]]
    /\ manageCalls' = [manageCalls EXCEPT ![h] =
         [IdleManageCall EXCEPT !.at = "claiming", !.change = o, !.owner = TRUE,
            !.generation = standing.generation, !.members = managed.group.members]]

\* claimGroupManagementOperation
Claimable(o) ==
    /\ managed.group.revision = changes[o].expected
    /\ managed.active = NoChange \/ managed.lapsed

takeClaim(o) == managed' = [managed EXCEPT !.active = o, !.lapsed = FALSE]

\* runManagement, first request: the caller's authority for the group has been
\* read.  Every revision up to the present one may be named
runManagement(h, o) ==
    /\ manageCalls[h].at = "idle"
    /\ standing.usable /\ standing.granted
    /\ \E expected \in 0 .. managed.group.revision :
         beginGroupManagementOperation(h, o, expected)
    /\ UNCHANGED <<managed, provider, outcome>>
    /\ UNCHANGED authorityVars

\* runManagement, repeated request: an uncertain row is claimed again and
\* reconciled; a pending one whose lease has passed is reconciled unclaimed
replayManagement(h, o) ==
    /\ manageCalls[h].at = "idle"
    /\ standing.usable /\ standing.granted
    /\ \/ changes[o].code = "uncertain" /\ Claimable(o) /\ takeClaim(o)
       \/ changes[o].status = "pending" /\ changes[o].lapsed /\ UNCHANGED managed
    /\ manageCalls' = [manageCalls EXCEPT ![h] =
         [IdleManageCall EXCEPT !.at = "reconciling", !.change = o,
            !.generation = standing.generation, !.members = managed.group.members]]
    /\ UNCHANGED <<changes, provider, outcome>>
    /\ UNCHANGED authorityVars

\* dispatchManagement: the authority is read again, then the row is claimed
dispatchManagement(h) ==
    LET o == manageCalls[h].change IN
    /\ manageCalls[h].at = "claiming"
    /\ \/ ~standing.granted /\ manageEnds(h, "human_action_required", "revoked") /\ UNCHANGED managed
       \/ /\ standing.granted /\ Claimable(o) /\ takeClaim(o)
          /\ manageCalls' = [manageCalls EXCEPT ![h].at = "reserving"]
       \/ /\ standing.granted /\ ~Claimable(o)
          /\ manageEnds(h, "human_action_required", "conflict")
          /\ UNCHANGED managed
    /\ UNCHANGED <<changes, provider, outcome>>
    /\ UNCHANGED authorityVars

\* dispatchProvider: the capability, its reservation, then the gateway
reserveChange(h) ==
    LET o == manageCalls[h].change
        wanted == [epoch |-> standing.epoch, generation |-> manageCalls[h].generation] IN
    /\ manageCalls[h].at = "reserving"
    /\ reservePrivateAuthority(o, wanted)
    /\ IF intents'[o] = wanted
       THEN /\ askGateway(o)
            /\ manageCalls' = [manageCalls EXCEPT ![h].at = "waiting"]
       ELSE manageEnds(h, "human_action_required", "revoked") /\ UNCHANGED gateway
    /\ UNCHANGED <<managed, changes, provider, outcome, standing>>

manageAnswered(h) ==
    LET o == manageCalls[h].change IN
    /\ manageCalls[h].at = "waiting"
    /\ \E answer \in Heard(o) :
         \/ /\ answer = "done"
            /\ manageCalls' = [manageCalls EXCEPT ![h].at = "completing", ![h].data = outcome[o]]
         \/ answer = "revoked" /\ manageEnds(h, "human_action_required", "revoked")
         \/ answer = "rejected" /\ manageEnds(h, "failed", "rejected")
         \/ /\ answer = "unavailable"
            /\ manageCalls' = [manageCalls EXCEPT ![h].at = "reconciling", ![h].owner = FALSE]
    /\ UNCHANGED <<managed, changes, provider, outcome>>
    /\ UNCHANGED authorityVars

\* reconcileManagementOperation: the authority, the saved reservation, and the
\* provider's present view of the group, if it can be had
reconcileManagementOperation(h) ==
    LET o == manageCalls[h].change IN
    /\ manageCalls[h].at = "reconciling"
    /\ IF ~standing.granted THEN manageEnds(h, "human_action_required", "revoked")
       ELSE IF intents[o] = NoIntent THEN manageEnds(h, "human_action_required", "unresolved")
       ELSE IF intents[o].generation # manageCalls[h].generation
            THEN manageEnds(h, "human_action_required", "revoked")
       ELSE \/ manageCalls' = [manageCalls EXCEPT ![h].at = "completing", ![h].data = provider]
            \/ manageEnds(h, "human_action_required", "unresolved")
    /\ UNCHANGED <<managed, changes, provider, outcome>>
    /\ UNCHANGED authorityVars

\* validateManagedGroup: the answer's revision is past the expected one and
\* the group is the one the handler knew, with the change
validateManagedGroup(h) ==
    LET o == manageCalls[h].change
        data == manageCalls[h].data IN
    /\ data.revision > changes[o].expected
    /\ IF o \in Renames
       THEN data.name = o /\ data.members = manageCalls[h].members
       ELSE o \in data.members /\ manageCalls[h].members \subseteq data.members

\* Faulty variant: a group that nobody claims any more may be written
claimedOrFree(h) == managed.active \in {manageCalls[h].change, NoChange}

\* finishGroupManagementOperation: the update of the group's row
FinishFence(h) ==
    /\ managed.group.revision = changes[manageCalls[h].change].expected
    /\ managed.active = manageCalls[h].change

\* completeManaged, and finishGroupManagementOperation on success.  Both
\* updates are in one batch; the operation's row must be unsettled
completeManaged(h) ==
    LET o == manageCalls[h].change IN
    /\ manageCalls[h].at = "completing"
    /\ validateManagedGroup(h)
    /\ standing.granted
    /\ FinishFence(h)
    /\ managed' = [group |-> manageCalls[h].data, active |-> NoChange, lapsed |-> FALSE]
    /\ changes' = [changes EXCEPT ![o] =
         IF @.status \in {"pending", "human_action_required"}
         THEN [@ EXCEPT !.status = "succeeded", !.code = "none", !.lapsed = FALSE] ELSE @]
    /\ manageReturns(h)
    /\ UNCHANGED <<provider, outcome>>
    /\ UNCHANGED authorityVars

\* completeManaged otherwise: the evidence does not show the change, the
\* authority is gone, or the batch was refused
completionRefused(h) ==
    /\ manageCalls[h].at = "completing"
    /\ \/ /\ ~validateManagedGroup(h)
          /\ manageEnds(h, "human_action_required",
                        IF manageCalls[h].owner THEN "invalid" ELSE "unresolved")
       \/ validateManagedGroup(h) /\ ~standing.granted /\ manageEnds(h, "human_action_required", "revoked")
       \/ /\ validateManagedGroup(h)
          /\ manageEnds(h, "human_action_required", "uncertain")
    /\ UNCHANGED <<managed, changes, provider, outcome>>
    /\ UNCHANGED authorityVars

releaseOwn(o) ==
    managed' = IF managed.active = o
               THEN [managed EXCEPT !.active = NoChange, !.lapsed = FALSE] ELSE managed

\* completeFailure: the claim is released if it is the operation's own, and
\* the row is written if it is still pending
completeFailure(h) ==
    LET o == manageCalls[h].change IN
    /\ manageCalls[h].at = "finishing"
    /\ releaseOwn(o)
    /\ changes' = [changes EXCEPT ![o] =
         IF @.status = "pending"
         THEN [@ EXCEPT !.status = manageCalls[h].status, !.code = manageCalls[h].code,
                        !.lapsed = FALSE]
         ELSE @]
    /\ manageReturns(h)
    /\ UNCHANGED <<provider, outcome>>
    /\ UNCHANGED authorityVars

\* Thirty seconds pass: for the claim, for a pending row
claimLapses ==
    /\ managed.active # NoChange /\ ~managed.lapsed
    /\ managed' = [managed EXCEPT !.lapsed = TRUE]
    /\ UNCHANGED <<changes, provider, outcome, manageCalls>>
    /\ UNCHANGED authorityVars

changeLapses(o) ==
    /\ changes[o].status = "pending" /\ ~changes[o].lapsed
    /\ changes' = [changes EXCEPT ![o].lapsed = TRUE]
    /\ UNCHANGED <<managed, provider, outcome, manageCalls>>
    /\ UNCHANGED authorityVars

manageCallDies(h) ==
    /\ manageCalls[h].at # "idle"
    /\ manageReturns(h)
    /\ UNCHANGED <<managed, changes, provider, outcome>>
    /\ UNCHANGED authorityVars

ManageNext ==
    \/ AuthorityNext /\ UNCHANGED manageVars
    \/ claimLapses
    \/ \E o \in Changes : manageActs(o) \/ changeLapses(o)
    \/ \E h \in ManageHandlers :
         \/ \E o \in Changes : runManagement(h, o) \/ replayManagement(h, o)
         \/ dispatchManagement(h)
         \/ reserveChange(h)
         \/ manageAnswered(h)
         \/ reconcileManagementOperation(h)
         \/ completeManaged(h)
         \/ completionRefused(h)
         \/ completeFailure(h)
         \/ manageCallDies(h)

-----------------------------------------------------------------------------

\* "Leave no false success" (T12): an operation is reported succeeded only if
\* the provider made its change, and the group's row showed it.
SucceededChangesAreReal ==
    \A o \in Changes :
        changes[o].status = "succeeded" => gateway[o].at = "acted" /\ managed.group.revision > changes[o].expected

\* "Duplicate responses and delayed events converge on one group revision"
\* (T12): two operations never succeed from the same revision, and a change
\* that was acknowledged is not undone by a slower handler whose claim had
\* lapsed.
AcknowledgedChangesLast ==
    /\ managed.group.revision <= provider.revision
    /\ \A o \in Additions : changes[o].status = "succeeded" => o \in managed.group.members
    /\ \A o, p \in Changes :
          changes[o].status = "succeeded" /\ changes[p].status = "succeeded" /\ o # p
              => changes[o].expected # changes[p].expected

\* The group is never locked by an operation that succeeded or failed: the
\* batch that ends an operation releases its claim.  (A dispatcher that was
\* slower than the lease may still claim for an operation which a repeated
\* request has sent to a human.)
ClaimsAreLive ==
    managed.active # NoChange =>
        changes[managed.active].status \in {"pending", "human_action_required"}
=============================================================================
