----------------------------- MODULE DirectChats -----------------------------
(***************************************************************************)
(* Contact resolution and one-to-one chats (worker/contacts).              *)
(*                                                                         *)
(* A contact is a candidate row with a revision.  Opening a chat with it   *)
(* names the revision the caller saw, asks the provider who the contact is *)
(* now, and writes one operation row.  The row is unique both by the       *)
(* caller's idempotency key and by the conversation, whose id is a         *)
(* function of the contact: there is one operation per contact, ever, and  *)
(* only the request that inserted it asks the gateway.                     *)
(*                                                                         *)
(* Left out: the texts of names and numbers, the candidate's revision (a   *)
(* request that names another one is answered at once), the read scopes of *)
(* search.                                                                 *)
(***************************************************************************)
EXTENDS PrivateAuthority

CONSTANTS
    Contacts, ChatKeys, ChatHandlers,
    NoContact, NoKey

ASSUME ContactsAreOperations == Contacts \subseteq PrivateOps

VARIABLES
    candidates,     \* contact_resolution_candidates: the contacts found so far
    chats,          \* direct_chat_creation_operations, one row per contact
    chatCalls       \* createDirectChat, suspended at an await

chatVars == <<candidates, chats, chatCalls>>

ChatStatuses == {"absent", "pending", "created", "already_exists", "uncertain", "failed"}
ChatFailures == {"none", "authorization_revoked", "provider_rejected",
                 "provider_unavailable", "provider_recipient_mismatch"}
NoChat == [status |-> "absent", key |-> NoKey, failure |-> "none"]
IdleChatCall == [at |-> "idle", contact |-> NoContact, key |-> NoKey, wanted |-> NoIntent]

ChatTypeOK ==
    /\ candidates \subseteq Contacts
    /\ chats \in [Contacts -> [status : ChatStatuses, key : ChatKeys \cup {NoKey},
                               failure : ChatFailures]]
    /\ chatCalls \in [ChatHandlers ->
         [at : {"idle", "resolving", "reserving", "waiting"},
          contact : Contacts \cup {NoContact}, key : ChatKeys \cup {NoKey},
          wanted : Authorities]]

ChatInit ==
    /\ candidates = {}
    /\ chats = [c \in Contacts |-> NoChat]
    /\ chatCalls = [h \in ChatHandlers |-> IdleChatCall]

Opened(c) == chats[c].status \in {"created", "already_exists"}

\* The answer of a call: the handler is free for another request
returns(h) == chatCalls' = [chatCalls EXCEPT ![h] = IdleChatCall]

\* ensureRoute
ChatRoute == standing.usable

upsertContactCandidate(c) == candidates' = candidates \cup {c}

\* searchContacts and resolveContact: one provider call, then the upsert
searchContacts(c) ==
    /\ ChatRoute
    /\ c \notin candidates
    /\ upsertContactCandidate(c)
    /\ UNCHANGED <<chats, chatCalls>>
    /\ UNCHANGED authorityVars

\* createDirectChat up to the provider's resolve: the candidate is the one the
\* caller saw, the route is usable, the caller holds a capability and no chat
\* is open with the contact yet; otherwise the call returns at once
createDirectChat(h, c, k) ==
    /\ chatCalls[h].at = "idle"
    /\ c \in candidates
    /\ ChatRoute
    /\ standing.granted
    /\ ~Opened(c)
    /\ chatCalls' = [chatCalls EXCEPT ![h] =
         [at |-> "resolving", contact |-> c, key |-> k, wanted |-> Standing]]
    /\ UNCHANGED <<candidates, chats>>
    /\ UNCHANGED authorityVars

\* The provider does not know the contact, or it is somebody else by now
resolveFails(h) ==
    /\ chatCalls[h].at = "resolving"
    /\ returns(h)
    /\ UNCHANGED <<candidates, chats>>
    /\ UNCHANGED authorityVars

KeyTaken(k) == \E c \in Contacts : chats[c].key = k

\* beginDirectChatOperation: the row is inserted unless the key or the
\* conversation is taken; a lost race reads the winner's row, exactly as the
\* read before the insert would have done
dispatchOwner(c, k) == ~KeyTaken(k) /\ chats[c] = NoChat

beginDirectChatOperation(h) ==
    LET c == chatCalls[h].contact
        k == chatCalls[h].key
    IN  /\ chatCalls[h].at = "resolving"
        /\ upsertContactCandidate(c)
        /\ IF dispatchOwner(c, k)
           THEN /\ chats' = [chats EXCEPT ![c] = [NoChat EXCEPT !.status = "pending", !.key = k]]
                /\ chatCalls' = [chatCalls EXCEPT ![h].at = "reserving"]
           ELSE /\ returns(h)
                /\ UNCHANGED chats
        /\ UNCHANGED authorityVars

\* UPDATE .. WHERE status = 'pending'
finishDirectChatOperation(c, status, failure) ==
    chats' = [chats EXCEPT ![c] =
        IF @.status = "pending" THEN [@ EXCEPT !.status = status, !.failure = failure] ELSE @]

\* The reservation, and the request to the gateway that follows it at once
reserveChat(h) ==
    LET c == chatCalls[h].contact IN
    /\ chatCalls[h].at = "reserving"
    /\ reservePrivateAuthority(c, chatCalls[h].wanted)
    /\ IF intents'[c] = chatCalls[h].wanted
       THEN /\ askGateway(c)
            /\ chatCalls' = [chatCalls EXCEPT ![h].at = "waiting"]
            /\ UNCHANGED chats
       ELSE /\ finishDirectChatOperation(c, "failed", "authorization_revoked")
            /\ returns(h)
            /\ UNCHANGED gateway
    /\ UNCHANGED <<candidates, standing>>

\* A denied claim is a 403, which the adapter reads as an expired session
FailedAs(answer) ==
    IF answer = "rejected" THEN "failed" ELSE "uncertain"

chatRefused(h) ==
    LET c == chatCalls[h].contact IN
    /\ chatCalls[h].at = "waiting"
    /\ \E answer \in Heard(c) \ {"done"} :
         finishDirectChatOperation(c, FailedAs(answer),
             IF answer = "rejected" THEN "provider_rejected" ELSE "provider_unavailable")
    /\ returns(h)
    /\ UNCHANGED candidates
    /\ UNCHANGED authorityVars

\* The provider's chat is with the contact, or with somebody else
chatOpened(h) ==
    LET c == chatCalls[h].contact IN
    /\ chatCalls[h].at = "waiting"
    /\ "done" \in Heard(c)
    /\ \/ /\ \E status \in {"created", "already_exists"} :
               finishDirectChatOperation(c, status, "none")
          /\ upsertContactCandidate(c)
       \/ /\ finishDirectChatOperation(c, "failed", "provider_recipient_mismatch")
          /\ UNCHANGED candidates
    /\ returns(h)
    /\ UNCHANGED authorityVars

\* The isolate is lost at an await, or a statement of the control directory fails
chatCallDies(h) ==
    /\ chatCalls[h].at # "idle"
    /\ returns(h)
    /\ UNCHANGED <<candidates, chats>>
    /\ UNCHANGED authorityVars

ChatNext ==
    \/ AuthorityNext /\ UNCHANGED chatVars
    \/ \E c \in Contacts : gatewayActs(c) /\ UNCHANGED chatVars
    \/ \E c \in Contacts : searchContacts(c)
    \/ \E h \in ChatHandlers :
         \/ \E c \in Contacts, k \in ChatKeys : createDirectChat(h, c, k)
         \/ resolveFails(h)
         \/ beginDirectChatOperation(h)
         \/ reserveChat(h)
         \/ chatRefused(h)
         \/ chatOpened(h)
         \/ chatCallDies(h)

-----------------------------------------------------------------------------

Dispatching(c) == {h \in ChatHandlers : chatCalls[h].contact = c
                     /\ chatCalls[h].at \in {"reserving", "waiting"}}

\* However many requests, keys and retries there are, one request alone takes
\* a contact to the provider, and its row is pending until that request is
\* over (beginDirectChatOperation, finishDirectChatOperation).
OneDispatchPerContact ==
    \A c \in Contacts :
        /\ \A g, h \in Dispatching(c) : g = h
        /\ Dispatching(c) # {} => chats[c].status = "pending"
        /\ Dispatching(c) # {} =>
             (gateway[c].at = "idle") = (\E h \in Dispatching(c) : chatCalls[h].at # "waiting")

\* A chat is reported open only after the provider has opened it; a chat whose
\* row says that authority was missing never reached the gateway.
ReportedChatsAreReal ==
    \A c \in Contacts :
        /\ Opened(c) => gateway[c].at = "acted"
        /\ chats[c].failure = "authorization_revoked" => gateway[c].at = "idle"
=============================================================================
