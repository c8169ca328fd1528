-------------------------- MODULE PrivateAuthority --------------------------
(***************************************************************************)
(* The authority behind every private operation: opening a direct chat,    *)
(* sending a read receipt, creating and managing a group.                  *)
(*                                                                         *)
(* A handler reads the caller's capability (a grant, or an owner's or      *)
(* administrator's membership, with its epoch), reserves it for one        *)
(* durable operation, and asks the gateway.  The gateway claims the        *)
(* reservation in the control directory before it touches the provider:    *)
(* the claim row is inserted at most once, and only while the capability   *)
(* and the session the reservation was made under are still the current    *)
(* ones.  The worker waits thirty seconds for the answer; the gateway may  *)
(* act after the worker has stopped waiting.                               *)
(***************************************************************************)
EXTENDS Naturals

CONSTANTS
    PrivateOps,     \* the operations of the four services
    MaxEpoch,       \* bound: how often a capability may change
    MaxGeneration   \* bound: how often the connection's row may change

VARIABLES
    standing,       \* the capability and the connection as they are now
    intents,        \* receipt_, contact_ and group_authority_intents
    gateway         \* what became of the request of an operation

authorityVars == <<standing, intents, gateway>>

Authorities == [epoch : 0 .. MaxEpoch, generation : 0 .. MaxGeneration]
NoIntent == [epoch |-> 0, generation |-> 0]

GatewayStates == {"idle", "asked", "claimed", "acted", "refused", "gaveUp"}

\* `under` is what stood when the claim row was inserted
NoRequest == [at |-> "idle", under |-> NoIntent]

AuthorityTypeOK ==
    /\ standing \in [granted : BOOLEAN, usable : BOOLEAN,
                     epoch : 1 .. MaxEpoch, generation : 1 .. MaxGeneration]
    /\ intents \in [PrivateOps -> Authorities]
    /\ gateway \in [PrivateOps -> [at : GatewayStates, under : Authorities]]

AuthorityInit ==
    /\ standing = [granted |-> TRUE, usable |-> TRUE, epoch |-> 1, generation |-> 1]
    /\ intents = [o \in PrivateOps |-> NoIntent]
    /\ gateway = [o \in PrivateOps |-> NoRequest]

Standing == [epoch |-> standing.epoch, generation |-> standing.generation]

\* Faulty variant: any active grant of the operation's scope will do
anyActiveGrant(epoch) == standing.granted

authorityPredicate(epoch) == standing.granted /\ standing.epoch = epoch

\* INSERT .. SELECT .. ON CONFLICT DO NOTHING, then the row is read back: the
\* reservation holds if the row there, old or new, is the one asked for
reservePrivateAuthority(o, wanted) ==
    intents' = [intents EXCEPT ![o] =
        IF @ = NoIntent /\ authorityPredicate(wanted.epoch)
           /\ standing.generation = wanted.generation
        THEN wanted ELSE @]

askGateway(o) == gateway' = [gateway EXCEPT ![o].at = "asked"]

\* The gateway claims before the provider is called
claimPrivateAuthority(o) ==
    /\ gateway[o].at = "asked"
    /\ gateway' = [gateway EXCEPT ![o] =
         IF /\ intents[o] # NoIntent
            /\ authorityPredicate(intents[o].epoch)
            /\ standing.generation = intents[o].generation
            /\ standing.usable
         THEN [at |-> "claimed", under |-> Standing]
         ELSE [@ EXCEPT !.at = "refused"]]
    /\ UNCHANGED <<standing, intents>>

\* The provider does what was asked
gatewayActs(o) ==
    /\ gateway[o].at = "claimed"
    /\ gateway' = [gateway EXCEPT ![o].at = "acted"]
    /\ UNCHANGED <<standing, intents>>

\* The provider refuses, or the answer to the claim was lost and the gateway
\* does not dare to act
gatewayGivesUp(o) ==
    /\ gateway[o].at = "claimed"
    /\ gateway' = [gateway EXCEPT ![o].at = "gaveUp"]
    /\ UNCHANGED <<standing, intents>>

\* What the worker may be told: nothing in time, at every stage, and an answer
\* it cannot read ("rejected") even when the provider has acted
Heard(o) ==
    [idle    |-> {"unavailable"},
     asked   |-> {"unavailable"},
     claimed |-> {"unavailable"},
     acted   |-> {"done", "rejected", "unavailable"},
     refused |-> {"revoked", "unavailable"},
     gaveUp  |-> {"rejected", "unavailable"}][gateway[o].at]

\* A revocation, or a new grant: the triggers of the control directory advance
\* the epoch with either
revoke ==
    /\ standing.epoch < MaxEpoch
    /\ standing' = [standing EXCEPT !.granted = ~@, !.epoch = @ + 1]
    /\ UNCHANGED <<intents, gateway>>

\* The connection's row is written: its updated_at is the session generation
connectionChanges ==
    /\ standing.generation < MaxGeneration
    /\ \E usable \in BOOLEAN :
         standing' = [standing EXCEPT !.usable = usable, !.generation = @ + 1]
    /\ UNCHANGED <<intents, gateway>>

\* The services add gatewayActs, each with its own effect at the provider
AuthorityNext ==
    \/ revoke
    \/ connectionChanges
    \/ \E o \in PrivateOps : \/ claimPrivateAuthority(o)
                             \/ gatewayGivesUp(o)

-----------------------------------------------------------------------------

\* The provider is touched only under the very capability and session that the
\* handler read when it admitted the request: a grant that was revoked and
\* given again, or a connection that was linked again in between, does not
\* revive the operation (authorityPredicate and the session_generation columns
\* of the claim).
ClaimsRunUnderTheirGrant ==
    \A o \in PrivateOps :
        gateway[o].at \in {"claimed", "acted", "gaveUp"} => gateway[o].under = intents[o]
=============================================================================
