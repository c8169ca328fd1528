---------------------------- MODULE PrivateProofs ----------------------------
(***************************************************************************)
(* Proofs about the four services over PrivateAuthority, for any contacts, *)
(* receipts, groups, changes and handlers, and any number of revocations   *)
(* and relinkings: the provider is touched only under the grant a request  *)
(* was admitted with, it is asked at most once, a row reports what the     *)
(* provider did, and the changes of a group converge on one revision.      *)
(***************************************************************************)
EXTENDS MCPrivate, TLAPS

-----------------------------------------------------------------------------
(* The authority *)

Authority == [epoch : Nat, generation : Nat]

AuthorityShape ==
    /\ standing \in [granted : BOOLEAN, usable : BOOLEAN, epoch : Nat \ {0},
                     generation : Nat \ {0}]
    /\ intents \in [PrivateOps -> Authority]
    /\ gateway \in [PrivateOps -> [at : GatewayStates, under : Authority]]

\* A request that was claimed had a reservation.
ReservedFirst ==
    \A o \in PrivateOps :
        gateway[o].at \in {"claimed", "acted", "gaveUp"} => intents[o] # NoIntent

AuthorityInv == AuthorityShape /\ ReservedFirst /\ ClaimsRunUnderTheirGrant

\* What the gateway does with the requests it has: it takes none back, it
\* starts none by itself, and what became of a request is final.
Settles ==
    \A o \in PrivateOps :
        /\ gateway'[o].at = "idle" <=> gateway[o].at = "idle"
        /\ gateway[o].at \in {"acted", "refused", "gaveUp"} => gateway'[o].at = gateway[o].at

\* A handler asks for one operation.
Asks(o) ==
    /\ gateway[o].at = "idle" /\ gateway'[o].at = "asked"
    /\ \A p \in PrivateOps : p # o => gateway'[p] = gateway[p]

\* Nothing about the authority changes.
LEMMA AuthorityStays ==
    ASSUME AuthorityInv, UNCHANGED authorityVars
    PROVE  AuthorityInv' /\ Settles
BY Zenon DEF AuthorityInv, authorityVars, AuthorityShape, ReservedFirst, ClaimsRunUnderTheirGrant, Settles

\* The gateway moves one request on.
LEMMA GatewayMoves ==
    ASSUME AuthorityInv, UNCHANGED <<standing, intents>>, NEW o \in PrivateOps,
           NEW r \in [at : GatewayStates, under : Authority],
           gateway' = [gateway EXCEPT ![o] = r],
           gateway[o].at \in {"asked", "claimed"}, r.at \notin {"idle", "asked"},
           r.at \in {"claimed", "acted", "gaveUp"} =>
               r.under = intents[o] /\ intents[o] # NoIntent
    PROVE  AuthorityInv' /\ Settles
<1>1. gateway'[o] = r /\ \A p \in PrivateOps : p # o => gateway'[p] = gateway[p]
  BY Zenon DEF AuthorityInv, AuthorityShape
<1>2. AuthorityShape'
  BY Zenon DEF AuthorityInv, AuthorityShape
<1>3. ReservedFirst' /\ ClaimsRunUnderTheirGrant'
  BY <1>1 DEF AuthorityInv, ReservedFirst, ClaimsRunUnderTheirGrant
<1>4. Settles
  BY Zenon, <1>1 DEF Settles
<1> QED BY Zenon, <1>2, <1>3, <1>4 DEF AuthorityInv

\* The provider does what was asked.
LEMMA GatewayActs ==
    ASSUME AuthorityInv, NEW o \in PrivateOps, gatewayActs(o)
    PROVE  /\ AuthorityInv' /\ Settles /\ UNCHANGED <<standing, intents>>
           /\ gateway[o].at = "claimed" /\ gateway'[o].at = "acted"
<1>1. PICK r : r = [gateway[o] EXCEPT !.at = "acted"]
  BY Zenon
<1>2. /\ gateway[o].at = "claimed" /\ gateway' = [gateway EXCEPT ![o] = r]
      /\ UNCHANGED <<standing, intents>>
  BY Zenon, <1>1 DEF gatewayActs
<1>3. r \in [at : GatewayStates, under : Authority] /\ r.at = "acted" /\ r.under = gateway[o].under
  BY <1>1 DEF AuthorityInv, AuthorityShape, GatewayStates
<1>4. r.under = intents[o] /\ intents[o] # NoIntent
  BY Zenon, <1>2, <1>3 DEF AuthorityInv, ReservedFirst, ClaimsRunUnderTheirGrant
<1>5. gateway'[o] = r
  BY Zenon, <1>2 DEF AuthorityInv, AuthorityShape
<1> QED BY Zenon, <1>2, <1>3, <1>4, <1>5, GatewayMoves

\* Revocations, relinkings, claims and refusals.
LEMMA AuthoritySteps ==
    ASSUME AuthorityInv, AuthorityNext
    PROVE  AuthorityInv' /\ Settles /\ intents' = intents
<1>1. CASE revoke \/ connectionChanges
  <2>1. UNCHANGED <<intents, gateway>>
    BY Zenon, <1>1 DEF revoke, connectionChanges
  <2>2. standing' \in [granted : BOOLEAN, usable : BOOLEAN, epoch : Nat \ {0},
                       generation : Nat \ {0}]
    <3>1. standing \in [granted : BOOLEAN, usable : BOOLEAN, epoch : Nat \ {0},
                        generation : Nat \ {0}]
      BY Zenon DEF AuthorityInv, AuthorityShape
    <3>2. CASE revoke
      <4>1. PICK g, e : g = ~standing.granted /\ e = standing.epoch + 1
        BY Zenon
      <4>2. g \in BOOLEAN /\ e \in Nat \ {0}
        BY <3>1, <4>1
      <4>3. standing' = [standing EXCEPT !.granted = g, !.epoch = e]
        BY <3>2, <4>1, Zenon DEF revoke
      <4> QED BY Zenon, <3>1, <4>2, <4>3
    <3>3. CASE connectionChanges
      <4>1. PICK u \in BOOLEAN :
              standing' = [standing EXCEPT !.usable = u, !.generation = standing.generation + 1]
        BY <3>3, Zenon DEF connectionChanges
      <4>2. PICK n : n = standing.generation + 1
        BY Zenon
      <4>3. n \in Nat \ {0}
        BY <3>1, <4>2
      <4>4. standing' = [standing EXCEPT !.usable = u, !.generation = n]
        BY <4>1, <4>2, Zenon
      <4> QED BY Zenon, <3>1, <4>3, <4>4
    <3> QED BY Zenon, <1>1, <3>2, <3>3
  <2>3. AuthorityShape'
    BY Zenon, <2>1, <2>2 DEF AuthorityInv, AuthorityShape
  <2>4. ReservedFirst' /\ ClaimsRunUnderTheirGrant'
    BY Zenon, <2>1 DEF AuthorityInv, ReservedFirst, ClaimsRunUnderTheirGrant
  <2>5. Settles
    BY Zenon, <2>1 DEF Settles
  <2> QED BY Zenon, <2>1, <2>3, <2>4, <2>5 DEF AuthorityInv
<1>2. ASSUME NEW o \in PrivateOps, claimPrivateAuthority(o)
      PROVE  AuthorityInv' /\ Settles /\ intents' = intents
  <2>1. gateway[o].at = "asked" /\ UNCHANGED <<standing, intents>>
    BY Zenon, <1>2 DEF claimPrivateAuthority
  <2>2. CASE gateway' = [gateway EXCEPT ![o] = [@ EXCEPT !.at = "refused"]]
    <3>1. PICK r : r = [gateway[o] EXCEPT !.at = "refused"]
      BY Zenon
    <3>2. r \in [at : GatewayStates, under : Authority] /\ r.at = "refused"
      BY Zenon, <3>1 DEF AuthorityInv, AuthorityShape, GatewayStates
    <3>3. gateway' = [gateway EXCEPT ![o] = r]
      BY Zenon, <2>2, <3>1
    <3> QED BY Zenon, <2>1, <3>2, <3>3, GatewayMoves
  <2>3. CASE /\ intents[o] # NoIntent
             /\ authorityPredicate(intents[o].epoch)
             /\ standing.generation = intents[o].generation
             /\ gateway' = [gateway EXCEPT ![o] = [at |-> "claimed", under |-> Standing]]
    <3>1. PICK r : r = [at |-> "claimed", under |-> Standing]
      BY Zenon
    <3>2. Standing \in Authority /\ intents[o] \in Authority
      BY Zenon DEF Standing, AuthorityInv, AuthorityShape, Authority
    <3>3. Standing.epoch = intents[o].epoch /\ Standing.generation = intents[o].generation
      BY Zenon, <2>3 DEF Standing, authorityPredicate
    <3>4. Standing = intents[o]
      BY <3>2, <3>3 DEF Authority
    <3>5. /\ r \in [at : GatewayStates, under : Authority] /\ r.at = "claimed"
          /\ r.under = intents[o]
      BY Zenon, <3>1, <3>2, <3>4 DEF GatewayStates
    <3>6. gateway' = [gateway EXCEPT ![o] = r]
      BY Zenon, <2>3, <3>1
    <3> QED BY Zenon, <2>1, <2>3, <3>5, <3>6, GatewayMoves
  <2> QED BY Zenon, <1>2, <2>2, <2>3 DEF claimPrivateAuthority
<1>3. ASSUME NEW o \in PrivateOps, gatewayGivesUp(o)
      PROVE  AuthorityInv' /\ Settles /\ intents' = intents
  <2>1. PICK r : r = [gateway[o] EXCEPT !.at = "gaveUp"]
    BY Zenon
  <2>2. /\ gateway[o].at = "claimed" /\ gateway' = [gateway EXCEPT ![o] = r]
        /\ UNCHANGED <<standing, intents>>
    BY Zenon, <1>3, <2>1 DEF gatewayGivesUp
  <2>3. r \in [at : GatewayStates, under : Authority] /\ r.at = "gaveUp" /\ r.under = gateway[o].under
    BY <2>1 DEF AuthorityInv, AuthorityShape, GatewayStates
  <2>4. r.under = intents[o] /\ intents[o] # NoIntent
    BY Zenon, <2>2, <2>3 DEF AuthorityInv, ReservedFirst, ClaimsRunUnderTheirGrant
  <2> QED BY Zenon, <2>2, <2>3, <2>4, GatewayMoves
<1> QED BY Zenon, <1>1, <1>2, <1>3 DEF AuthorityNext

\* A reservation never replaces one.
LEMMA Reserving ==
    ASSUME AuthorityInv, NEW o \in PrivateOps, NEW wanted \in Authority,
           reservePrivateAuthority(o, wanted), UNCHANGED standing,
           UNCHANGED gateway \/ (gateway[o].at = "idle" /\ askGateway(o))
    PROVE  AuthorityInv' /\ (UNCHANGED gateway \/ Asks(o))
<1>1. intents' \in [PrivateOps -> Authority]
      /\ \A p \in PrivateOps : intents[p] # NoIntent => intents'[p] = intents[p]
  BY Zenon DEF AuthorityInv, AuthorityShape, reservePrivateAuthority
<1>2. CASE UNCHANGED gateway
  BY <1>1, <1>2 DEF AuthorityInv, AuthorityShape, ReservedFirst, ClaimsRunUnderTheirGrant
<1>3. CASE gateway[o].at = "idle" /\ askGateway(o)
  <2>1. Asks(o) /\ gateway' \in [PrivateOps -> [at : GatewayStates, under : Authority]]
    BY <1>3 DEF Asks, askGateway, AuthorityInv, AuthorityShape, GatewayStates
  <2>2. AuthorityInv'
    BY ZenonT(60), <1>1, <2>1 DEF Asks, AuthorityInv, AuthorityShape, ReservedFirst, ClaimsRunUnderTheirGrant
  <2> QED BY Zenon, <2>1, <2>2
<1> QED BY Zenon, <1>2, <1>3

\* A request is made under the reservation there is.
LEMMA Asking ==
    ASSUME AuthorityInv, NEW o \in PrivateOps, UNCHANGED <<standing, intents>>,
           gateway[o].at = "idle", askGateway(o)
    PROVE  AuthorityInv' /\ Asks(o)
<1>1. Asks(o) /\ gateway' \in [PrivateOps -> [at : GatewayStates, under : Authority]]
  BY DEF Asks, askGateway, AuthorityInv, AuthorityShape, GatewayStates
<1> QED BY ZenonT(60), <1>1 DEF Asks, AuthorityInv, AuthorityShape, ReservedFirst, ClaimsRunUnderTheirGrant

\* The present capability and session can be reserved.
LEMMA StandingType ==
    ASSUME AuthorityInv
    PROVE  Standing \in Authority
BY Zenon DEF Standing, AuthorityInv, AuthorityShape, Authority

\* What an answer tells of the request.
LEMMA HeardDone ==
    ASSUME AuthorityInv, NEW o \in PrivateOps
    PROVE  /\ "done" \in Heard(o) => gateway[o].at = "acted"
           /\ "revoked" \in Heard(o) => gateway[o].at = "refused"
           /\ "rejected" \in Heard(o) => gateway[o].at \in {"acted", "gaveUp"}
           /\ Heard(o) \subseteq {"done", "revoked", "rejected", "unavailable"}
<1>1. gateway[o].at \in GatewayStates
  BY Zenon DEF AuthorityInv, AuthorityShape
<1> QED BY <1>1 DEF GatewayStates, Heard

-----------------------------------------------------------------------------
(* Direct chats *)

ChatCallRow == [at : {"idle", "resolving", "reserving", "waiting"},
                contact : Contacts \cup {NoContact}, key : ChatKeys \cup {NoKey},
                wanted : Authority]

ChatShape ==
    /\ chats \in [Contacts -> [status : ChatStatuses, key : ChatKeys \cup {NoKey},
                               failure : ChatFailures]]
    /\ chatCalls \in [ChatHandlers -> ChatCallRow]
    /\ \A h \in ChatHandlers : chatCalls[h].at # "idle" => chatCalls[h].contact \in Contacts

\* A contact without a row was never taken to the gateway, and a row without an
\* outcome has no failure.
ChatRowSound(c) ==
    /\ chats[c].status = "absent" => gateway[c].at = "idle"
    /\ chats[c].status = "pending" => chats[c].failure = "none"

\* A handler that dispatches has the pending row of its contact, and it alone
\* has asked or will ask.
ChatCallSound(h) ==
    chatCalls[h].at \in {"reserving", "waiting"} =>
        /\ chats[chatCalls[h].contact].status = "pending"
        /\ gateway[chatCalls[h].contact].at = "idle" <=> chatCalls[h].at = "reserving"

ChatCallsApart ==
    \A g, h \in ChatHandlers :
        /\ chatCalls[g].at \in {"reserving", "waiting"}
        /\ chatCalls[h].at \in {"reserving", "waiting"}
        /\ chatCalls[g].contact = chatCalls[h].contact
        => g = h

ChatInv ==
    /\ ChatShape
    /\ \A c \in Contacts : ChatRowSound(c)
    /\ \A h \in ChatHandlers : ChatCallSound(h)
    /\ ChatCallsApart
    /\ ReportedChatsAreReal

\* The gateway works on, and no row and no handler moves.
LEMMA ChatsWait ==
    ASSUME ChatInv, Settles, UNCHANGED <<chats, chatCalls>>
    PROVE  ChatInv'
<1>1. \A c \in Contacts : c \in PrivateOps
  BY Zenon, ContactsAreOperations
<1>2. ChatShape' /\ ChatCallsApart'
  BY Zenon DEF ChatInv, ChatShape, ChatCallsApart
<1>3. \A c \in Contacts : ChatRowSound(c)'
  BY Zenon, <1>1 DEF ChatInv, ChatRowSound, Settles
<1>4. \A h \in ChatHandlers : ChatCallSound(h)'
  BY <1>1 DEF ChatInv, ChatShape, ChatCallSound, Settles
<1>5. ReportedChatsAreReal'
  BY Zenon, <1>1 DEF ChatInv, ReportedChatsAreReal, Opened, Settles
<1> QED BY Zenon, <1>2, <1>3, <1>4, <1>5 DEF ChatInv

\* A handler takes a step that neither writes a row nor asks the gateway, and
\* after which it does not dispatch.
LEMMA ChatCallSteps ==
    ASSUME ChatInv, UNCHANGED <<gateway, chats>>, NEW h \in ChatHandlers, NEW x \in ChatCallRow,
           chatCalls' = [chatCalls EXCEPT ![h] = x], x.at \in {"idle", "resolving"},
           x.at # "idle" => x.contact \in Contacts
    PROVE  ChatInv'
<1>1. chatCalls'[h] = x /\ \A g \in ChatHandlers : g # h => chatCalls'[g] = chatCalls[g]
  BY Zenon DEF ChatInv, ChatShape
<1>2. ChatShape'
  BY Zenon, <1>1 DEF ChatInv, ChatShape
<1>3. \A c \in Contacts : ChatRowSound(c)'
  BY Zenon DEF ChatInv, ChatRowSound
<1>4. \A g \in ChatHandlers : ChatCallSound(g)'
  BY <1>1 DEF ChatInv, ChatCallSound
<1>5. ChatCallsApart'
  BY <1>1 DEF ChatInv, ChatCallsApart
<1>6. ReportedChatsAreReal'
  BY Zenon DEF ChatInv, ReportedChatsAreReal, Opened
<1> QED BY Zenon, <1>2, <1>3, <1>4, <1>5, <1>6 DEF ChatInv

\* The record of an idle handler.
LEMMA IdleChat == IdleChatCall \in ChatCallRow /\ IdleChatCall.at = "idle"
BY Zenon DEF IdleChatCall, ChatCallRow, NoIntent, Authority

\* A handler returns.
LEMMA ChatReturns ==
    ASSUME ChatInv, UNCHANGED <<gateway, chats>>, NEW h \in ChatHandlers, returns(h)
    PROVE  ChatInv'
BY Zenon, ChatCallSteps, IdleChat DEF returns

\* The handler of a contact ends its row and returns.
LEMMA ChatFinishes ==
    ASSUME ChatInv, UNCHANGED gateway, NEW h \in ChatHandlers,
           chatCalls[h].at \in {"reserving", "waiting"},
           NEW status \in {"created", "already_exists", "uncertain", "failed"},
           NEW failure \in ChatFailures,
           finishDirectChatOperation(chatCalls[h].contact, status, failure), returns(h),
           status \in {"created", "already_exists"} => gateway[chatCalls[h].contact].at = "acted",
           failure = "authorization_revoked" => gateway[chatCalls[h].contact].at = "idle"
    PROVE  ChatInv'
<1>1. PICK c : c = chatCalls[h].contact
  BY Zenon
<1>2. c \in Contacts /\ chats[c].status = "pending"
  BY Zenon, <1>1 DEF ChatInv, ChatShape, ChatCallSound
<1>3. PICK r : r = [chats[c] EXCEPT !.status = status, !.failure = failure]
  BY Zenon
<1>4. /\ r \in [status : ChatStatuses, key : ChatKeys \cup {NoKey}, failure : ChatFailures]
      /\ r.status = status /\ r.failure = failure
  BY Zenon, <1>2, <1>3 DEF ChatInv, ChatShape, ChatStatuses
<1>5. chats' = [chats EXCEPT ![c] = r]
  BY Zenon, <1>1, <1>2, <1>3 DEF finishDirectChatOperation
<1>6. chats'[c] = r /\ \A d \in Contacts : d # c => chats'[d] = chats[d]
  BY Zenon, <1>2, <1>5 DEF ChatInv, ChatShape
<1>7. /\ chatCalls'[h].at = "idle" /\ \A g \in ChatHandlers : g # h => chatCalls'[g] = chatCalls[g]
      /\ chatCalls' \in [ChatHandlers -> ChatCallRow]
  BY Zenon, IdleChat DEF ChatInv, ChatShape, returns
<1>8. ChatShape'
  BY Zenon, <1>4, <1>5, <1>7 DEF ChatInv, ChatShape
<1>9. \A d \in Contacts : ChatRowSound(d)'
  BY <1>4, <1>6 DEF ChatInv, ChatRowSound
<1>10. \A g \in ChatHandlers : ChatCallSound(g)'
  <2> SUFFICES ASSUME NEW g \in ChatHandlers, chatCalls'[g].at \in {"reserving", "waiting"}
               PROVE  ChatCallSound(g)'
    BY Zenon DEF ChatCallSound
  <2>1. g # h /\ chatCalls'[g] = chatCalls[g]
    BY Zenon, <1>7
  <2>2. chatCalls[g].contact # c /\ chatCalls[g].contact \in Contacts
    BY Zenon, <1>1, <2>1 DEF ChatInv, ChatShape, ChatCallsApart
  <2> QED BY <1>6, <2>1, <2>2 DEF ChatInv, ChatCallSound
<1>11. ChatCallsApart'
  BY <1>7 DEF ChatInv, ChatCallsApart
<1>12. ReportedChatsAreReal'
  BY Zenon, <1>1, <1>4, <1>6 DEF ChatInv, ReportedChatsAreReal, Opened
<1> QED BY Zenon, <1>8, <1>9, <1>10, <1>11, <1>12 DEF ChatInv

\* The request that inserts the row of a contact will dispatch it.
LEMMA ChatBegins ==
    ASSUME ChatInv, UNCHANGED gateway, NEW h \in ChatHandlers, chatCalls[h].at = "resolving",
           NEW c \in Contacts, chats[c].status = "absent",
           NEW r \in [status : ChatStatuses, key : ChatKeys \cup {NoKey}, failure : ChatFailures],
           r.status = "pending", r.failure = "none", chats' = [chats EXCEPT ![c] = r],
           NEW x \in ChatCallRow, x.at = "reserving", x.contact = c,
           chatCalls' = [chatCalls EXCEPT ![h] = x]
    PROVE  ChatInv'
<1>1. chats'[c] = r /\ \A d \in Contacts : d # c => chats'[d] = chats[d]
  BY Zenon DEF ChatInv, ChatShape
<1>2. /\ chatCalls'[h] = x /\ \A g \in ChatHandlers : g # h => chatCalls'[g] = chatCalls[g]
      /\ chatCalls' \in [ChatHandlers -> ChatCallRow]
  BY Zenon DEF ChatInv, ChatShape
<1>3. gateway[c].at = "idle"
  BY Zenon DEF ChatInv, ChatRowSound
<1>4. \A g \in ChatHandlers : chatCalls[g].at \in {"reserving", "waiting"} =>
                                   chatCalls[g].contact # c /\ chatCalls[g].contact \in Contacts
  BY Zenon DEF ChatInv, ChatShape, ChatCallSound
<1>5. ChatShape'
  BY Zenon, <1>2 DEF ChatInv, ChatShape
<1>6. \A d \in Contacts : ChatRowSound(d)'
  BY <1>1 DEF ChatInv, ChatRowSound
<1>7. \A g \in ChatHandlers : ChatCallSound(g)'
  <2>1. ChatCallSound(h)'
    BY <1>1, <1>2, <1>3 DEF ChatCallSound
  <2>2. ASSUME NEW g \in ChatHandlers, g # h PROVE ChatCallSound(g)'
    BY <1>1, <1>2, <1>4, <2>2 DEF ChatInv, ChatCallSound
  <2> QED BY Zenon, <2>1, <2>2
<1>8. ChatCallsApart'
  BY <1>2, <1>4 DEF ChatInv, ChatCallsApart
<1>9. ReportedChatsAreReal'
  BY <1>1 DEF ChatInv, ReportedChatsAreReal, Opened
<1> QED BY Zenon, <1>5, <1>6, <1>7, <1>8, <1>9 DEF ChatInv

\* The dispatching handler asks the gateway.
LEMMA ChatAsks ==
    ASSUME ChatInv, UNCHANGED chats, NEW h \in ChatHandlers, chatCalls[h].at = "reserving",
           chatCalls' = [chatCalls EXCEPT ![h].at = "waiting"], Asks(chatCalls[h].contact)
    PROVE  ChatInv'
<1>1. PICK c : c = chatCalls[h].contact
  BY Zenon
<1>2. c \in Contacts /\ chats[c].status = "pending" /\ chats[c].failure = "none"
  BY Zenon, <1>1 DEF ChatInv, ChatShape, ChatCallSound, ChatRowSound
<1>3. /\ gateway[c].at = "idle" /\ gateway'[c].at = "asked"
      /\ \A d \in Contacts : d # c => gateway'[d] = gateway[d]
  BY Zenon, <1>1, ContactsAreOperations DEF Asks
<1>4. PICK x : x = [chatCalls[h] EXCEPT !.at = "waiting"]
  BY Zenon
<1>5. x \in ChatCallRow /\ x.at = "waiting" /\ x.contact = c
  BY <1>1, <1>4 DEF ChatInv, ChatShape, ChatCallRow
<1>6. /\ chatCalls'[h] = x /\ \A g \in ChatHandlers : g # h => chatCalls'[g] = chatCalls[g]
      /\ chatCalls' \in [ChatHandlers -> ChatCallRow]
  BY Zenon, <1>4, <1>5 DEF ChatInv, ChatShape
<1>7. \A g \in ChatHandlers : g # h /\ chatCalls[g].at \in {"reserving", "waiting"} =>
                                  chatCalls[g].contact # c /\ chatCalls[g].contact \in Contacts
  BY Zenon, <1>1 DEF ChatInv, ChatShape, ChatCallsApart
<1>8. ChatShape'
  BY Zenon, <1>2, <1>5, <1>6 DEF ChatInv, ChatShape
<1>9. \A d \in Contacts : ChatRowSound(d)'
  BY Zenon, <1>2, <1>3 DEF ChatInv, ChatRowSound
<1>10. \A g \in ChatHandlers : ChatCallSound(g)'
  <2>1. ChatCallSound(h)'
    BY Zenon, <1>2, <1>3, <1>5, <1>6 DEF ChatCallSound
  <2>2. ASSUME NEW g \in ChatHandlers, g # h PROVE ChatCallSound(g)'
    BY <1>3, <1>6, <1>7, <2>2 DEF ChatInv, ChatCallSound
  <2> QED BY Zenon, <2>1, <2>2
<1>11. ChatCallsApart'
  BY <1>5, <1>6, <1>7 DEF ChatInv, ChatCallsApart
<1>12. ReportedChatsAreReal'
  BY Zenon, <1>2, <1>3 DEF ChatInv, ReportedChatsAreReal, Opened
<1> QED BY Zenon, <1>8, <1>9, <1>10, <1>11, <1>12 DEF ChatInv

\* Every step of the service preserves what holds of it.
LEMMA ChatSteps ==
    ASSUME AuthorityInv, ChatInv, ChatNext
    PROVE  AuthorityInv' /\ ChatInv'
<1>1. CASE AuthorityNext /\ UNCHANGED chatVars
  BY Zenon, <1>1, AuthoritySteps, ChatsWait DEF chatVars
<1>2. ASSUME NEW c \in Contacts, gatewayActs(c), UNCHANGED chatVars
      PROVE  AuthorityInv' /\ ChatInv'
  <2>1. c \in PrivateOps
    BY Zenon, ContactsAreOperations
  <2> QED BY Zenon, <1>2, <2>1, GatewayActs, ChatsWait DEF chatVars
<1>3. ASSUME NEW c \in Contacts, searchContacts(c) PROVE AuthorityInv' /\ ChatInv'
  BY Zenon, <1>3, AuthorityStays, ChatsWait DEF searchContacts
<1>4. ASSUME NEW h \in ChatHandlers, NEW c \in Contacts, NEW k \in ChatKeys, createDirectChat(h, c, k)
      PROVE  AuthorityInv' /\ ChatInv'
  <2>1. UNCHANGED authorityVars /\ UNCHANGED <<gateway, chats>>
    BY Zenon, <1>4 DEF createDirectChat, authorityVars
  <2>2. PICK x : x = [at |-> "resolving", contact |-> c, key |-> k, wanted |-> Standing]
    BY Zenon
  <2>3. x \in ChatCallRow /\ x.at = "resolving" /\ x.contact = c
    BY Zenon, <2>2, StandingType DEF ChatCallRow
  <2>4. chatCalls' = [chatCalls EXCEPT ![h] = x]
    BY Zenon, <1>4, <2>2 DEF createDirectChat
  <2> QED BY Zenon, <2>1, <2>3, <2>4, AuthorityStays, ChatCallSteps
<1>5. ASSUME NEW h \in ChatHandlers, resolveFails(h) \/ chatCallDies(h)
      PROVE  AuthorityInv' /\ ChatInv'
  <2>1. UNCHANGED authorityVars /\ UNCHANGED <<gateway, chats>> /\ returns(h)
    BY Zenon, <1>5 DEF resolveFails, chatCallDies, authorityVars
  <2> QED BY Zenon, <2>1, AuthorityStays, ChatReturns
<1>6. ASSUME NEW h \in ChatHandlers, beginDirectChatOperation(h) PROVE AuthorityInv' /\ ChatInv'
  <2>1. UNCHANGED authorityVars /\ UNCHANGED gateway /\ chatCalls[h].at = "resolving"
    BY Zenon, <1>6 DEF beginDirectChatOperation, authorityVars
  <2>2. CASE dispatchOwner(chatCalls[h].contact, chatCalls[h].key)
    <3>1. PICK c, k : c = chatCalls[h].contact /\ k = chatCalls[h].key
      BY Zenon
    <3>2. c \in Contacts /\ k \in ChatKeys \cup {NoKey} /\ chats[c].status = "absent"
      BY <2>1, <2>2, <3>1 DEF ChatInv, ChatShape, ChatCallRow, dispatchOwner, NoChat
    <3>3. PICK r : r = [NoChat EXCEPT !.status = "pending", !.key = k]
      BY Zenon
    <3>4. /\ r \in [status : ChatStatuses, key : ChatKeys \cup {NoKey}, failure : ChatFailures]
          /\ r.status = "pending" /\ r.failure = "none"
      BY Zenon, <3>2, <3>3 DEF NoChat, ChatStatuses, ChatFailures
    <3>5. PICK x : x = [chatCalls[h] EXCEPT !.at = "reserving"]
      BY Zenon
    <3>6. x \in ChatCallRow /\ x.at = "reserving" /\ x.contact = c
      BY <3>1, <3>5 DEF ChatInv, ChatShape, ChatCallRow
    <3>7. chats' = [chats EXCEPT ![c] = r] /\ chatCalls' = [chatCalls EXCEPT ![h] = x]
      BY Zenon, <1>6, <2>2, <3>1, <3>3, <3>5 DEF beginDirectChatOperation
    <3>8. ChatInv'
      BY Zenon, <2>1, <3>2, <3>4, <3>6, <3>7, ChatBegins
    <3> QED BY Zenon, <2>1, <3>8, AuthorityStays
  <2>3. CASE ~dispatchOwner(chatCalls[h].contact, chatCalls[h].key)
    BY Zenon, <1>6, <2>1, <2>3, AuthorityStays, ChatReturns DEF beginDirectChatOperation
  <2> QED BY Zenon, <2>2, <2>3
<1>7. ASSUME NEW h \in ChatHandlers, reserveChat(h) PROVE AuthorityInv' /\ ChatInv'
  <2>1. PICK c, w : c = chatCalls[h].contact /\ w = chatCalls[h].wanted
    BY Zenon
  <2>2. /\ chatCalls[h].at = "reserving" /\ c \in Contacts /\ c \in PrivateOps /\ w \in Authority
        /\ gateway[c].at = "idle" /\ reservePrivateAuthority(c, w) /\ UNCHANGED standing
    BY Zenon, <1>7, <2>1, ContactsAreOperations
       DEF reserveChat, ChatInv, ChatShape, ChatCallRow, ChatCallSound
  <2>3. CASE /\ askGateway(c) /\ UNCHANGED chats
             /\ chatCalls' = [chatCalls EXCEPT ![h].at = "waiting"]
    <3>1. AuthorityInv' /\ (UNCHANGED gateway \/ Asks(c))
      BY Zenon, <2>2, <2>3, Reserving
    <3>2. Asks(c)
      BY <2>2, <2>3, <3>1 DEF askGateway, AuthorityInv, AuthorityShape
    <3> QED BY Zenon, <2>1, <2>2, <2>3, <3>1, <3>2, ChatAsks
  <2>4. CASE /\ finishDirectChatOperation(c, "failed", "authorization_revoked")
             /\ returns(h) /\ UNCHANGED gateway
    <3>1. AuthorityInv'
      BY Zenon, <2>2, <2>4, Reserving
    <3> QED BY Zenon, <2>1, <2>2, <2>4, <3>1, ChatFinishes DEF ChatFailures
  <2> QED BY Zenon, <1>7, <2>1, <2>3, <2>4 DEF reserveChat
<1>8. ASSUME NEW h \in ChatHandlers, chatRefused(h) PROVE AuthorityInv' /\ ChatInv'
  <2>1. UNCHANGED authorityVars /\ UNCHANGED gateway /\ chatCalls[h].at = "waiting" /\ returns(h)
    BY Zenon, <1>8 DEF chatRefused, authorityVars
  <2>2. PICK status \in {"failed", "uncertain"}, failure \in {"provider_rejected", "provider_unavailable"} :
           finishDirectChatOperation(chatCalls[h].contact, status, failure)
    BY Zenon, <1>8 DEF chatRefused, FailedAs
  <2> QED BY Zenon, <2>1, <2>2, AuthorityStays, ChatFinishes DEF ChatFailures
<1>9. ASSUME NEW h \in ChatHandlers, chatOpened(h) PROVE AuthorityInv' /\ ChatInv'
  <2>1. UNCHANGED authorityVars /\ UNCHANGED gateway /\ chatCalls[h].at = "waiting" /\ returns(h)
    BY Zenon, <1>9 DEF chatOpened, authorityVars
  <2>2. chatCalls[h].contact \in Contacts
    BY Zenon, <2>1 DEF ChatInv, ChatShape
  <2>3. gateway[chatCalls[h].contact].at = "acted"
    BY Zenon, <1>9, <2>2, HeardDone, ContactsAreOperations DEF chatOpened
  <2>4. CASE \E status \in {"created", "already_exists"} :
               finishDirectChatOperation(chatCalls[h].contact, status, "none")
    BY Zenon, <2>1, <2>3, <2>4, AuthorityStays, ChatFinishes DEF ChatFailures
  <2>5. CASE finishDirectChatOperation(chatCalls[h].contact, "failed", "provider_recipient_mismatch")
    BY Zenon, <2>1, <2>5, AuthorityStays, ChatFinishes DEF ChatFailures
  <2> QED BY Zenon, <1>9, <2>4, <2>5 DEF chatOpened
<1> QED BY Zenon, <1>1, <1>2, <1>3, <1>4, <1>5, <1>6, <1>7, <1>8, <1>9 DEF ChatNext

\* The properties of the service follow.
LEMMA ChatFacts ==
    ASSUME ChatInv
    PROVE  OneDispatchPerContact /\ ReportedChatsAreReal
<1>1. ASSUME NEW c \in Contacts, NEW g \in Dispatching(c), NEW h \in Dispatching(c) PROVE g = h
  BY Zenon DEF Dispatching, ChatInv, ChatCallsApart
<1>2. ASSUME NEW c \in Contacts, NEW h \in Dispatching(c)
      PROVE  /\ chats[c].status = "pending"
             /\ gateway[c].at = "idle" <=> chatCalls[h].at # "waiting"
  BY DEF Dispatching, ChatInv, ChatCallSound
<1>3. OneDispatchPerContact
  BY Zenon, <1>1, <1>2 DEF OneDispatchPerContact
<1> QED BY Zenon, <1>3 DEF ChatInv

-----------------------------------------------------------------------------
(* Read receipts *)

ReceiptCallRow ==
    [at : {"idle", "resolved", "rejecting", "claiming", "reserving", "routing", "waiting"},
     op : ReceiptRequests \cup {NoReceipt}, wanted : Authority, code : ReceiptRefusals]

ReceiptShape ==
    /\ receipts \in [ReceiptRequests -> ReceiptStatuses]
    /\ refusal \in [ReceiptRequests -> ReceiptRefusals]
    /\ receiptCalls \in [ReceiptHandlers -> ReceiptCallRow]
    /\ \A h \in ReceiptHandlers : receiptCalls[h].at # "idle" => receiptCalls[h].op \in ReceiptRequests

SendSteps == {"claiming", "reserving", "routing", "waiting"}

\* What a repeated request may write over a dispatching row.
Overruled == {"stale_message", "missing_capability"}

ReceiptRowSound(r) ==
    /\ receipts[r] = "absent" => gateway[r].at = "idle"
    /\ receipts[r] \in {"accepted", "observed"} => gateway[r].at = "acted"
    /\ receipts[r] = "rejected" =>
          gateway[r].at \in {"idle", "refused", "gaveUp"} \/ refusal[r] \in Overruled

\* The handler that inserted the row asks for it, unless the row was rejected;
\* it is rejected under that handler only by a repeated request.
ReceiptCallSound(h) ==
    /\ receiptCalls[h].at \in SendSteps =>
          /\ receipts[receiptCalls[h].op] # "absent"
          /\ receipts[receiptCalls[h].op] = "rejected" => refusal[receiptCalls[h].op] \in Overruled
          /\ gateway[receiptCalls[h].op].at = "idle" <=> receiptCalls[h].at # "waiting"
    /\ receiptCalls[h].at = "resolved" => receiptCalls[h].code \in {"none", "stale_message"}
    /\ receiptCalls[h].at = "rejecting" => receiptCalls[h].code \in Overruled

ReceiptCallsApart ==
    \A g, h \in ReceiptHandlers :
        /\ receiptCalls[g].at \in SendSteps /\ receiptCalls[h].at \in SendSteps
        /\ receiptCalls[g].op = receiptCalls[h].op
        => g = h

ReceiptInv ==
    /\ ReceiptShape
    /\ \A r \in ReceiptRequests : ReceiptRowSound(r)
    /\ \A h \in ReceiptHandlers : ReceiptCallSound(h)
    /\ ReceiptCallsApart

\* The gateway works on, and no row and no handler moves.
LEMMA ReceiptsWait ==
    ASSUME ReceiptInv, Settles, UNCHANGED <<receipts, refusal, receiptCalls>>
    PROVE  ReceiptInv'
<1>1. \A r \in ReceiptRequests : r \in PrivateOps
  BY Zenon, ReceiptsAreOperations
<1>2. ReceiptShape' /\ ReceiptCallsApart'
  BY Zenon DEF ReceiptInv, ReceiptShape, ReceiptCallsApart
<1>3. \A r \in ReceiptRequests : ReceiptRowSound(r)'
  BY Zenon, <1>1 DEF ReceiptInv, ReceiptRowSound, Settles
<1>4. \A h \in ReceiptHandlers : ReceiptCallSound(h)'
  BY <1>1 DEF ReceiptInv, ReceiptShape, ReceiptCallSound, Settles, SendSteps
<1> QED BY Zenon, <1>2, <1>3, <1>4 DEF ReceiptInv

\* A handler that does not send takes a step, and may insert the row.
LEMMA ReceiptCallSteps ==
    ASSUME ReceiptInv, UNCHANGED <<gateway, refusal>>, NEW h \in ReceiptHandlers,
           NEW x \in ReceiptCallRow, receiptCalls' = [receiptCalls EXCEPT ![h] = x],
           receipts' \in [ReceiptRequests -> ReceiptStatuses],
           \A r \in ReceiptRequests :
               receipts'[r] = receipts[r] \/ (receipts[r] = "absent" /\ receipts'[r] = "requested"),
           x.at \in {"idle", "resolved", "rejecting"},
           x.at # "idle" => x.op \in ReceiptRequests,
           x.at = "resolved" => x.code \in {"none", "stale_message"},
           x.at = "rejecting" => x.code \in Overruled
    PROVE  ReceiptInv'
<1>1. receiptCalls'[h] = x /\ \A g \in ReceiptHandlers : g # h => receiptCalls'[g] = receiptCalls[g]
  BY Zenon DEF ReceiptInv, ReceiptShape
<1>2. ReceiptShape'
  BY Zenon, <1>1 DEF ReceiptInv, ReceiptShape
<1>3. \A r \in ReceiptRequests : ReceiptRowSound(r)'
  BY Zenon DEF ReceiptInv, ReceiptRowSound
<1>4. \A g \in ReceiptHandlers : ReceiptCallSound(g)'
  <2>1. ReceiptCallSound(h)'
    BY Zenon, <1>1 DEF ReceiptCallSound, SendSteps
  <2>2. ASSUME NEW g \in ReceiptHandlers, g # h PROVE ReceiptCallSound(g)'
    BY <1>1, <2>2 DEF ReceiptInv, ReceiptShape, ReceiptCallSound, SendSteps
  <2> QED BY Zenon, <2>1, <2>2
<1>5. ReceiptCallsApart'
  BY <1>1 DEF ReceiptInv, ReceiptCallsApart, SendSteps
<1> QED BY Zenon, <1>2, <1>3, <1>4, <1>5 DEF ReceiptInv

\* The record of an idle handler.
LEMMA IdleReceipt == IdleReceiptCall \in ReceiptCallRow /\ IdleReceiptCall.at = "idle"
BY Zenon DEF IdleReceiptCall, ReceiptCallRow, NoIntent, Authority, ReceiptRefusals

\* A handler returns.
LEMMA ReceiptReturns ==
    ASSUME ReceiptInv, UNCHANGED <<gateway, receipts, refusal>>, NEW h \in ReceiptHandlers,
           receiptReturns(h)
    PROVE  ReceiptInv'
<1>1. receipts' \in [ReceiptRequests -> ReceiptStatuses]
  BY Zenon DEF ReceiptInv, ReceiptShape
<1> QED BY Zenon, <1>1, ReceiptCallSteps, IdleReceipt DEF receiptReturns

\* Other handlers work on other receipts than the one that is sent.
LEMMA OtherReceipts ==
    ASSUME ReceiptInv, NEW h \in ReceiptHandlers, receiptCalls[h].at \in SendSteps,
           NEW g \in ReceiptHandlers, g # h, receiptCalls[g].at \in SendSteps
    PROVE  receiptCalls[g].op # receiptCalls[h].op /\ receiptCalls[g].op \in ReceiptRequests
BY Zenon DEF ReceiptInv, ReceiptShape, ReceiptCallsApart, SendSteps

\* A handler that sends goes on, before the gateway is asked.
LEMMA ReceiptProceeds ==
    ASSUME ReceiptInv, UNCHANGED <<gateway, refusal>>, NEW h \in ReceiptHandlers,
           receiptCalls[h].at \in {"claiming", "reserving"}, NEW at \in {"reserving", "routing"},
           receiptCalls' = [receiptCalls EXCEPT ![h].at = at],
           \/ receipts' = receipts
           \/ /\ receipts[receiptCalls[h].op] = "requested"
              /\ receipts' = [receipts EXCEPT ![receiptCalls[h].op] = "dispatching"]
    PROVE  ReceiptInv'
<1>1. PICK r : r = receiptCalls[h].op
  BY Zenon
<1>2. r \in ReceiptRequests
  BY Zenon, <1>1 DEF ReceiptInv, ReceiptShape
<1>3. PICK x : x = [receiptCalls[h] EXCEPT !.at = at]
  BY Zenon
<1>4. x \in ReceiptCallRow /\ x.at = at /\ x.op = r
  BY <1>1, <1>3 DEF ReceiptInv, ReceiptShape, ReceiptCallRow
<1>5. /\ receiptCalls'[h] = x /\ \A g \in ReceiptHandlers : g # h => receiptCalls'[g] = receiptCalls[g]
      /\ receiptCalls' \in [ReceiptHandlers -> ReceiptCallRow]
  BY Zenon, <1>3, <1>4 DEF ReceiptInv, ReceiptShape
<1>6. /\ receipts' \in [ReceiptRequests -> ReceiptStatuses]
      /\ receipts'[r] = receipts[r] \/ (receipts[r] = "requested" /\ receipts'[r] = "dispatching")
      /\ \A s \in ReceiptRequests : s # r => receipts'[s] = receipts[s]
  BY Zenon, <1>1, <1>2 DEF ReceiptInv, ReceiptShape, ReceiptStatuses
<1>7. ReceiptShape'
  BY Zenon, <1>2, <1>4, <1>5, <1>6 DEF ReceiptInv, ReceiptShape
<1>8. \A s \in ReceiptRequests : ReceiptRowSound(s)'
  BY <1>2, <1>6 DEF ReceiptInv, ReceiptRowSound
<1>9. \A g \in ReceiptHandlers : ReceiptCallSound(g)'
  <2>1. ReceiptCallSound(h)
    BY Zenon DEF ReceiptInv
  <2>2. ReceiptCallSound(h)'
    BY <1>1, <1>4, <1>5, <1>6, <2>1 DEF ReceiptCallSound, SendSteps
  <2>3. ASSUME NEW g \in ReceiptHandlers, g # h PROVE ReceiptCallSound(g)'
    <3>1. ReceiptCallSound(g) /\ receiptCalls'[g] = receiptCalls[g]
      BY Zenon, <1>5, <2>3 DEF ReceiptInv
    <3>2. receiptCalls[g].at \in SendSteps => receipts'[receiptCalls[g].op] = receipts[receiptCalls[g].op]
      BY <1>1, <1>6, <2>3, OtherReceipts DEF SendSteps
    <3> QED BY ZenonT(60), <3>1, <3>2 DEF ReceiptCallSound
  <2> QED BY Zenon, <2>2, <2>3
<1>10. ReceiptCallsApart'
  BY <1>1, <1>4, <1>5 DEF ReceiptInv, ReceiptCallsApart, SendSteps
<1> QED BY Zenon, <1>7, <1>8, <1>9, <1>10 DEF ReceiptInv

\* The request that inserts the row will send it.
LEMMA ReceiptBegins ==
    ASSUME ReceiptInv, UNCHANGED <<gateway, refusal>>, NEW h \in ReceiptHandlers,
           NEW r \in ReceiptRequests, receipts[r] = "absent",
           receipts' = [receipts EXCEPT ![r] = "requested"],
           NEW x \in ReceiptCallRow, x.at = "claiming", x.op = r,
           receiptCalls' = [receiptCalls EXCEPT ![h] = x]
    PROVE  ReceiptInv'
<1>1. /\ receiptCalls'[h] = x /\ \A g \in ReceiptHandlers : g # h => receiptCalls'[g] = receiptCalls[g]
      /\ receiptCalls' \in [ReceiptHandlers -> ReceiptCallRow]
  BY Zenon DEF ReceiptInv, ReceiptShape
<1>2. /\ receipts' \in [ReceiptRequests -> ReceiptStatuses] /\ receipts'[r] = "requested"
      /\ \A s \in ReceiptRequests : s # r => receipts'[s] = receipts[s]
  BY Zenon DEF ReceiptInv, ReceiptShape, ReceiptStatuses
<1>3. gateway[r].at = "idle"
  BY Zenon DEF ReceiptInv, ReceiptRowSound
<1>4. ASSUME NEW g \in ReceiptHandlers, receiptCalls[g].at \in SendSteps
      PROVE  receiptCalls[g].op # r /\ receiptCalls[g].op \in ReceiptRequests
  BY Zenon, <1>4 DEF ReceiptInv, ReceiptShape, ReceiptCallSound, SendSteps
<1>5. ReceiptShape'
  BY Zenon, <1>1, <1>2 DEF ReceiptInv, ReceiptShape
<1>6. \A s \in ReceiptRequests : ReceiptRowSound(s)'
  BY Zenon, <1>2 DEF ReceiptInv, ReceiptRowSound
<1>7. \A g \in ReceiptHandlers : ReceiptCallSound(g)'
  <2>1. ReceiptCallSound(h)'
    BY Zenon, <1>1, <1>2, <1>3 DEF ReceiptCallSound, SendSteps
  <2>2. ASSUME NEW g \in ReceiptHandlers, g # h PROVE ReceiptCallSound(g)'
    <3>1. ReceiptCallSound(g) /\ receiptCalls'[g] = receiptCalls[g]
      BY Zenon, <1>1, <2>2 DEF ReceiptInv
    <3>2. receiptCalls[g].at \in SendSteps => receipts'[receiptCalls[g].op] = receipts[receiptCalls[g].op]
      BY Zenon, <1>2, <1>4
    <3> QED BY Zenon, <3>1, <3>2 DEF ReceiptCallSound
  <2> QED BY Zenon, <2>1, <2>2
<1>8. ReceiptCallsApart'
  BY <1>1, <1>4 DEF ReceiptInv, ReceiptCallsApart, SendSteps
<1> QED BY Zenon, <1>5, <1>6, <1>7, <1>8 DEF ReceiptInv

\* The sending handler asks the gateway.
LEMMA ReceiptAsks ==
    ASSUME ReceiptInv, UNCHANGED <<receipts, refusal>>, NEW h \in ReceiptHandlers,
           receiptCalls[h].at = "routing", Asks(receiptCalls[h].op),
           receiptCalls' = [receiptCalls EXCEPT ![h].at = "waiting"]
    PROVE  ReceiptInv'
<1>1. PICK r : r = receiptCalls[h].op
  BY Zenon
<1>2. /\ r \in ReceiptRequests /\ receipts[r] # "absent"
      /\ receipts[r] = "rejected" => refusal[r] \in Overruled
  BY Zenon, <1>1 DEF ReceiptInv, ReceiptShape, ReceiptCallSound, SendSteps
<1>3. /\ gateway[r].at = "idle" /\ gateway'[r].at = "asked"
      /\ \A s \in ReceiptRequests : s # r => gateway'[s] = gateway[s]
  BY Zenon, <1>1, ReceiptsAreOperations DEF Asks
<1>4. PICK x : x = [receiptCalls[h] EXCEPT !.at = "waiting"]
  BY Zenon
<1>5. x \in ReceiptCallRow /\ x.at = "waiting" /\ x.op = r
  BY Zenon, <1>1, <1>4 DEF ReceiptInv, ReceiptShape, ReceiptCallRow
<1>6. /\ receiptCalls'[h] = x /\ \A g \in ReceiptHandlers : g # h => receiptCalls'[g] = receiptCalls[g]
      /\ receiptCalls' \in [ReceiptHandlers -> ReceiptCallRow]
  BY Zenon, <1>4, <1>5 DEF ReceiptInv, ReceiptShape
<1>7. ReceiptShape'
  BY Zenon, <1>2, <1>5, <1>6 DEF ReceiptInv, ReceiptShape
<1>8. \A s \in ReceiptRequests : ReceiptRowSound(s)'
  BY Zenon, <1>2, <1>3 DEF ReceiptInv, ReceiptRowSound
<1>9. \A g \in ReceiptHandlers : ReceiptCallSound(g)'
  <2>1. ReceiptCallSound(h)'
    BY Zenon, <1>2, <1>3, <1>5, <1>6 DEF ReceiptCallSound, SendSteps
  <2>2. ASSUME NEW g \in ReceiptHandlers, g # h PROVE ReceiptCallSound(g)'
    <3>1. ReceiptCallSound(g) /\ receiptCalls'[g] = receiptCalls[g]
      BY Zenon, <1>6, <2>2 DEF ReceiptInv
    <3>2. receiptCalls[g].at \in SendSteps => gateway'[receiptCalls[g].op] = gateway[receiptCalls[g].op]
      BY Zenon, <1>1, <1>3, <2>2, OtherReceipts DEF SendSteps
    <3> QED BY Zenon, <3>1, <3>2 DEF ReceiptCallSound
  <2> QED BY Zenon, <2>1, <2>2
<1>10. ReceiptCallsApart'
  BY <1>1, <1>5, <1>6 DEF ReceiptInv, ReceiptCallsApart, SendSteps
<1> QED BY Zenon, <1>7, <1>8, <1>9, <1>10 DEF ReceiptInv

\* The row of a handler that sends, or overrules, is ended and the handler
\* returns.
LEMMA ReceiptEnds ==
    ASSUME ReceiptInv, UNCHANGED gateway, NEW h \in ReceiptHandlers,
           NEW status \in {"accepted", "observed", "unknown", "rejected"},
           NEW code \in ReceiptRefusals, receiptCalls[h].at # "idle",
           updateReceiptOperation(receiptCalls[h].op, status, code), receiptReturns(h),
           status \in {"accepted", "observed"} => gateway[receiptCalls[h].op].at = "acted",
           status = "rejected" =>
               \/ code \in Overruled
               \/ /\ receiptCalls[h].at \in SendSteps
                  /\ gateway[receiptCalls[h].op].at \in {"idle", "refused", "gaveUp"}
    PROVE  ReceiptInv'
<1>1. PICK r : r = receiptCalls[h].op
  BY Zenon
<1>2. r \in ReceiptRequests
  BY Zenon, <1>1 DEF ReceiptInv, ReceiptShape
<1>3. /\ receiptCalls'[h].at = "idle"
      /\ \A g \in ReceiptHandlers : g # h => receiptCalls'[g] = receiptCalls[g]
      /\ receiptCalls' \in [ReceiptHandlers -> ReceiptCallRow]
  BY Zenon, IdleReceipt DEF ReceiptInv, ReceiptShape, receiptReturns
<1>4. CASE UNCHANGED <<receipts, refusal>>
  BY Zenon, <1>4, ReceiptReturns
<1>5. CASE /\ receipts[r] \in {"requested", "dispatching"}
           /\ receipts' = [receipts EXCEPT ![r] = status] /\ refusal' = [refusal EXCEPT ![r] = code]
  <2>1. /\ receipts' \in [ReceiptRequests -> ReceiptStatuses] /\ receipts'[r] = status
        /\ refusal' \in [ReceiptRequests -> ReceiptRefusals] /\ refusal'[r] = code
        /\ \A s \in ReceiptRequests : s # r => receipts'[s] = receipts[s] /\ refusal'[s] = refusal[s]
    BY Zenon, <1>2, <1>5 DEF ReceiptInv, ReceiptShape, ReceiptStatuses
  <2>2. ReceiptShape'
    BY Zenon, <1>3, <2>1 DEF ReceiptInv, ReceiptShape
  <2>3. \A s \in ReceiptRequests : ReceiptRowSound(s)'
    BY <1>1, <2>1 DEF ReceiptInv, ReceiptRowSound
  <2>4. \A g \in ReceiptHandlers : ReceiptCallSound(g)'
    <3>1. ReceiptCallSound(h)'
      BY Zenon, <1>3 DEF ReceiptCallSound, SendSteps
    <3>2. ASSUME NEW g \in ReceiptHandlers, g # h PROVE ReceiptCallSound(g)'
      <4>1. ReceiptCallSound(g) /\ receiptCalls'[g] = receiptCalls[g]
        BY Zenon, <1>3, <3>2 DEF ReceiptInv
      <4>2. receiptCalls[g].at \in SendSteps => receiptCalls[g].op \in ReceiptRequests
        BY Zenon DEF ReceiptInv, ReceiptShape, SendSteps
      <4>3. CASE receiptCalls[g].op # r
        BY <2>1, <4>1, <4>2, <4>3 DEF ReceiptCallSound
      <4>4. CASE receiptCalls[g].op = r /\ receiptCalls[g].at \in SendSteps
        <5>1. receiptCalls[h].at \notin SendSteps
          BY Zenon, <1>1, <3>2, <4>4, OtherReceipts
        <5> QED BY Zenon, <2>1, <4>1, <4>4, <5>1 DEF ReceiptCallSound
      <4>5. CASE receiptCalls[g].at \notin SendSteps
        BY Zenon, <4>1, <4>5 DEF ReceiptCallSound
      <4> QED BY Zenon, <4>3, <4>4, <4>5
    <3> QED BY Zenon, <3>1, <3>2
  <2>5. ReceiptCallsApart'
    BY <1>3 DEF ReceiptInv, ReceiptCallsApart, SendSteps
  <2> QED BY Zenon, <2>2, <2>3, <2>4, <2>5 DEF ReceiptInv
<1> QED BY Zenon, <1>1, <1>4, <1>5 DEF updateReceiptOperation

\* The steps that decide whether a request becomes a receipt to send.
LEMMA ReceiptAdmissions ==
    ASSUME AuthorityInv, ReceiptInv, NEW h \in ReceiptHandlers,
           \/ \E r \in ReceiptRequests : requestReadReceipt(h, r)
           \/ rejectOperation(h)
           \/ receiptDenied(h)
           \/ createReceipt(h)
           \/ receiptCallDies(h)
    PROVE  ReceiptInv'
<1>1. receipts \in [ReceiptRequests -> ReceiptStatuses] /\ receiptCalls[h] \in ReceiptCallRow
  BY Zenon DEF ReceiptInv, ReceiptShape
<1>2. ASSUME NEW r \in ReceiptRequests, requestReadReceipt(h, r) PROVE ReceiptInv'
  <2>1. PICK x : x = [IdleReceiptCall EXCEPT !.op = r, !.at = "resolved",
                        !.code = IF readable[r] THEN "none" ELSE "stale_message"]
    BY Zenon
  <2>2. /\ x \in ReceiptCallRow /\ x.at = "resolved" /\ x.op = r
        /\ x.code \in {"none", "stale_message"}
    BY Zenon, <2>1 DEF IdleReceiptCall, ReceiptCallRow, NoIntent, Authority, ReceiptRefusals
  <2>3. receiptCalls' = [receiptCalls EXCEPT ![h] = x] /\ UNCHANGED <<gateway, receipts, refusal>>
    BY Zenon, <1>2, <2>1 DEF requestReadReceipt, authorityVars
  <2> QED BY Zenon, <1>1, <2>2, <2>3, ReceiptCallSteps
<1>3. ASSUME rejectOperation(h) \/ createReceipt(h)
      PROVE  /\ UNCHANGED <<gateway, refusal>> /\ receiptCalls[h].at = "resolved"
             /\ receiptCalls[h].op \in ReceiptRequests
             /\ receiptCalls[h].code \in {"none", "stale_message"}
             /\ receipts' \in [ReceiptRequests -> ReceiptStatuses]
             /\ \A r \in ReceiptRequests : \/ receipts'[r] = receipts[r]
                                           \/ receipts[r] = "absent" /\ receipts'[r] = "requested"
  <2>1. /\ createOrReadReceiptOperation(receiptCalls[h].op) /\ UNCHANGED gateway
        /\ receiptCalls[h].at = "resolved"
    BY Zenon, <1>3 DEF rejectOperation, createReceipt, authorityVars
  <2> QED BY Zenon, <1>1, <2>1 DEF createOrReadReceiptOperation, ReceiptInv, ReceiptShape, ReceiptCallSound,
                            ReceiptStatuses
<1>4. ASSUME rejectOperation(h) PROVE ReceiptInv'
  <2>1. PICK x : x = [receiptCalls[h] EXCEPT !.at = "rejecting",
                        !.code = IF @ = "none" THEN "missing_capability" ELSE @]
    BY Zenon
  <2>2. /\ x \in ReceiptCallRow /\ x.at = "rejecting" /\ x.op = receiptCalls[h].op
        /\ x.code \in Overruled
    BY Zenon, <1>1, <1>3, <1>4, <2>1 DEF ReceiptCallRow, Overruled, ReceiptRefusals
  <2>3. CASE receiptCalls' = [receiptCalls EXCEPT ![h] = x]
    BY Zenon, <1>3, <1>4, <2>2, <2>3, ReceiptCallSteps
  <2>4. CASE receiptReturns(h)
    BY Zenon, <1>3, <1>4, <2>4, ReceiptCallSteps, IdleReceipt DEF receiptReturns
  <2> QED BY Zenon, <1>4, <2>1, <2>3, <2>4 DEF rejectOperation
<1>5. ASSUME receiptDenied(h) \/ receiptCallDies(h) PROVE ReceiptInv'
  BY Zenon, <1>5, ReceiptReturns DEF receiptDenied, receiptCallDies, authorityVars
<1>6. ASSUME createReceipt(h) PROVE ReceiptInv'
  <2>1. PICK r, x : r = receiptCalls[h].op
                    /\ x = [receiptCalls[h] EXCEPT !.at = "claiming", !.wanted = Standing]
    BY Zenon
  <2>2. x \in ReceiptCallRow /\ x.at = "claiming" /\ x.op = r
    BY Zenon, <1>1, <2>1, StandingType DEF ReceiptCallRow
  <2>3. CASE inserted(r) /\ receiptCalls' = [receiptCalls EXCEPT ![h] = x]
    <3>1. receipts[r] = "absent" /\ receipts' = [receipts EXCEPT ![r] = "requested"]
      BY Zenon, <1>6, <2>1, <2>3 DEF createReceipt, createOrReadReceiptOperation, inserted
    <3> QED BY ZenonT(60), <1>3, <1>6, <2>1, <2>2, <2>3, <3>1, ReceiptBegins
  <2>4. CASE receiptReturns(h)
    BY Zenon, <1>3, <1>6, <2>4, ReceiptCallSteps, IdleReceipt DEF receiptReturns
  <2> QED BY Zenon, <1>6, <2>1, <2>3, <2>4 DEF createReceipt
<1> QED BY Zenon, <1>2, <1>4, <1>5, <1>6

\* What the worker makes of an answer.
LEMMA ReceiptResults ==
    ASSUME AuthorityInv, NEW r \in ReceiptRequests, NEW answer \in Heard(r),
           NEW result \in AdapterResult(answer)
                          \cup (IF gateway[r].at = "gaveUp" THEN Rejection ELSE {})
    PROVE  /\ result.status \in {"accepted", "observed", "unknown", "rejected"}
           /\ result.code \in ReceiptRefusals
           /\ result.status \in {"accepted", "observed"} => gateway[r].at = "acted"
           /\ result.status = "rejected" => gateway[r].at \in {"refused", "gaveUp"}
<1>1. /\ answer \in {"done", "revoked", "rejected", "unavailable"}
      /\ answer = "done" => gateway[r].at = "acted"
      /\ answer = "revoked" => gateway[r].at = "refused"
  BY Zenon, HeardDone, ReceiptsAreOperations
<1>2. CASE result \in AdapterResult(answer)
  BY <1>1, <1>2 DEF AdapterResult, ReceiptRefusals
<1>3. CASE gateway[r].at = "gaveUp" /\ result \in Rejection
  BY <1>3 DEF Rejection, ReceiptRefusals
<1> QED BY Zenon, <1>2, <1>3

\* Every step of the service preserves what holds of it.
LEMMA ReceiptSteps ==
    ASSUME AuthorityInv, ReceiptInv, ReceiptNext
    PROVE  AuthorityInv' /\ ReceiptInv'
<1>1. CASE AuthorityNext /\ UNCHANGED receiptVars
  BY Zenon, <1>1, AuthoritySteps, ReceiptsWait DEF receiptVars
<1>2. ASSUME NEW r \in ReceiptRequests, gatewayActs(r), UNCHANGED receiptVars
      PROVE  AuthorityInv' /\ ReceiptInv'
  <2>1. r \in PrivateOps
    BY Zenon, ReceiptsAreOperations
  <2> QED BY Zenon, <1>2, <2>1, GatewayActs, ReceiptsWait DEF receiptVars
<1>3. ASSUME \/ \E r \in ReceiptRequests : messageDeleted(r)
             \/ capabilityLost
      PROVE  AuthorityInv' /\ ReceiptInv'
  <2>1. UNCHANGED authorityVars /\ UNCHANGED <<receipts, refusal, receiptCalls>>
    BY Zenon, <1>3 DEF messageDeleted, capabilityLost
  <2> QED BY Zenon, <2>1, AuthorityStays, ReceiptsWait
<1>4. ASSUME NEW h \in ReceiptHandlers,
             \/ \E r \in ReceiptRequests : requestReadReceipt(h, r)
             \/ rejectOperation(h)
             \/ receiptDenied(h)
             \/ createReceipt(h)
             \/ receiptCallDies(h)
      PROVE  AuthorityInv' /\ ReceiptInv'
  <2>1. UNCHANGED authorityVars
    BY Zenon, <1>4 DEF requestReadReceipt, rejectOperation, receiptDenied, createReceipt, receiptCallDies
  <2> QED BY Zenon, <1>4, <2>1, AuthorityStays, ReceiptAdmissions
<1>5. ASSUME NEW h \in ReceiptHandlers, recordRejection(h) PROVE AuthorityInv' /\ ReceiptInv'
  <2>1. UNCHANGED authorityVars /\ UNCHANGED gateway
    BY Zenon, <1>5 DEF recordRejection, authorityVars
  <2>2. /\ receiptCalls[h].at # "idle" /\ receiptCalls[h].code \in Overruled
        /\ receiptCalls[h].code \in ReceiptRefusals
        /\ updateReceiptOperation(receiptCalls[h].op, "rejected", receiptCalls[h].code)
        /\ receiptReturns(h)
    BY Zenon, <1>5 DEF recordRejection, ReceiptInv, ReceiptShape, ReceiptCallRow, ReceiptCallSound
  <2> QED BY Zenon, <2>1, <2>2, AuthorityStays, ReceiptEnds
<1>6. ASSUME NEW h \in ReceiptHandlers, claimReceiptOperation(h) PROVE AuthorityInv' /\ ReceiptInv'
  <2>1. /\ UNCHANGED authorityVars /\ UNCHANGED <<gateway, refusal>>
        /\ receiptCalls[h].at = "claiming"
    BY Zenon, <1>6 DEF claimReceiptOperation, authorityVars
  <2>2. CASE receipts[receiptCalls[h].op] = "requested"
    BY Zenon, <1>6, <2>1, <2>2, AuthorityStays, ReceiptProceeds DEF claimReceiptOperation, receiptGoes
  <2>3. CASE receipts[receiptCalls[h].op] # "requested"
    BY Zenon, <1>6, <2>1, <2>3, AuthorityStays, ReceiptReturns DEF claimReceiptOperation
  <2> QED BY Zenon, <2>2, <2>3
<1>7. ASSUME NEW h \in ReceiptHandlers, reserveReceipt(h) PROVE AuthorityInv' /\ ReceiptInv'
  <2>1. PICK r, w : r = receiptCalls[h].op /\ w = receiptCalls[h].wanted
    BY Zenon
  <2>2. /\ receiptCalls[h].at = "reserving" /\ r \in PrivateOps /\ w \in Authority
        /\ gateway[r].at = "idle" /\ reservePrivateAuthority(r, w) /\ UNCHANGED <<standing, gateway>>
    BY Zenon, <1>7, <2>1, ReceiptsAreOperations
       DEF reserveReceipt, ReceiptInv, ReceiptShape, ReceiptCallRow, ReceiptCallSound, SendSteps
  <2>3. AuthorityInv'
    BY Zenon, <2>2, Reserving
  <2>4. CASE receiptGoes(h, "routing") /\ UNCHANGED <<receipts, refusal>>
    BY Zenon, <2>2, <2>3, <2>4, ReceiptProceeds DEF receiptGoes
  <2>5. CASE updateReceiptOperation(r, "rejected", "authorization_revoked") /\ receiptReturns(h)
    BY Zenon, <2>1, <2>2, <2>3, <2>5, ReceiptEnds DEF ReceiptRefusals, SendSteps
  <2> QED BY Zenon, <1>7, <2>1, <2>4, <2>5 DEF reserveReceipt
<1>8. ASSUME NEW h \in ReceiptHandlers, dispatchReceipt(h) PROVE AuthorityInv' /\ ReceiptInv'
  <2>1. PICK r : r = receiptCalls[h].op
    BY Zenon
  <2>2. /\ receiptCalls[h].at = "routing" /\ r \in PrivateOps
        /\ gateway[r].at = "idle" /\ UNCHANGED <<standing, intents>>
    BY Zenon, <1>8, <2>1, ReceiptsAreOperations
       DEF dispatchReceipt, ReceiptInv, ReceiptShape, ReceiptCallSound, SendSteps
  <2>3. CASE askGateway(r) /\ receiptGoes(h, "waiting") /\ UNCHANGED <<receipts, refusal>>
    BY Zenon, <2>1, <2>2, <2>3, Asking, ReceiptAsks DEF receiptGoes
  <2>4. CASE /\ \E code \in {"missing_capability", "connection_unavailable"} :
                    updateReceiptOperation(r, "rejected", code)
             /\ receiptReturns(h) /\ UNCHANGED gateway
    <3>1. PICK code \in {"missing_capability", "connection_unavailable"} :
             updateReceiptOperation(r, "rejected", code)
      BY Zenon, <2>4
    <3>2. AuthorityInv'
      BY Zenon, <2>2, <2>4, AuthorityStays DEF authorityVars
    <3>3. code \in ReceiptRefusals /\ receiptCalls[h].at \in SendSteps
      BY Zenon, <2>2 DEF ReceiptRefusals, SendSteps
    <3>4. ReceiptInv'
      BY Zenon, <2>1, <2>2, <2>4, <3>1, <3>3, ReceiptEnds
    <3> QED BY Zenon, <3>2, <3>4
  <2> QED BY Zenon, <1>8, <2>1, <2>3, <2>4 DEF dispatchReceipt
<1>9. ASSUME NEW h \in ReceiptHandlers, receiptAnswered(h) PROVE AuthorityInv' /\ ReceiptInv'
  <2>1. PICK r : r = receiptCalls[h].op
    BY Zenon
  <2>2. /\ UNCHANGED authorityVars /\ UNCHANGED gateway /\ receiptCalls[h].at = "waiting"
        /\ receiptReturns(h) /\ r \in ReceiptRequests
    BY Zenon, <1>9, <2>1 DEF receiptAnswered, authorityVars, ReceiptInv, ReceiptShape
  <2>3. PICK answer \in Heard(r) :
           \E result \in AdapterResult(answer)
                         \cup (IF gateway[r].at = "gaveUp" THEN Rejection ELSE {}) :
               updateReceiptOperation(r, result.status, result.code)
    BY Zenon, <1>9, <2>1 DEF receiptAnswered
  <2>4. PICK result \in AdapterResult(answer)
                        \cup (IF gateway[r].at = "gaveUp" THEN Rejection ELSE {}) :
           updateReceiptOperation(r, result.status, result.code)
    BY Zenon, <2>3
  <2>5. PICK status, code : status = result.status /\ code = result.code
    BY Zenon
  <2>6. /\ status \in {"accepted", "observed", "unknown", "rejected"} /\ code \in ReceiptRefusals
        /\ status \in {"accepted", "observed"} => gateway[r].at = "acted"
        /\ status = "rejected" => gateway[r].at \in {"refused", "gaveUp"}
        /\ updateReceiptOperation(r, status, code)
    BY Zenon, <2>2, <2>4, <2>5, ReceiptResults
  <2>7. receiptCalls[h].at \in SendSteps
    BY Zenon, <2>2 DEF SendSteps
  <2>8. ReceiptInv'
    BY Zenon, <2>1, <2>2, <2>6, <2>7, ReceiptEnds
  <2> QED BY Zenon, <2>2, <2>8, AuthorityStays
<1> QED BY Zenon, <1>1, <1>2, <1>3, <1>4, <1>5, <1>6, <1>7, <1>8, <1>9 DEF ReceiptNext

\* The properties of the service follow.
LEMMA ReceiptFacts ==
    ASSUME ReceiptInv
    PROVE  ReceiptsAreSentOnce /\ RefusedReceiptsStayUnsent
<1>1. ASSUME NEW r \in ReceiptRequests, NEW g \in Sending(r), NEW h \in Sending(r) PROVE g = h
  BY Zenon DEF Sending, ReceiptInv, ReceiptCallsApart, SendSteps
<1>2. ASSUME NEW r \in ReceiptRequests
      PROVE  ReceiptRowSound(r)
  BY Zenon DEF ReceiptInv
<1> QED BY Zenon, <1>1, <1>2 DEF ReceiptsAreSentOnce, RefusedReceiptsStayUnsent, ReceiptRowSound, Overruled

-----------------------------------------------------------------------------
(* Group creation *)

CreationRow == [status : CreationStatuses, code : CreationCodes, lapsed : BOOLEAN]
GroupCallRow ==
    [at : {"idle", "reserving", "waiting", "reconciling", "completing", "finishing"},
     key : GroupKeys \cup {NoGroup}, wanted : Authority,
     status : CreationStatuses, code : CreationCodes]

CreationShape ==
    /\ creations \in [GroupKeys -> CreationRow]
    /\ accessGiven \subseteq GroupKeys
    /\ groupCalls \in [GroupHandlers -> GroupCallRow]
    /\ \A h \in GroupHandlers : groupCalls[h].at # "idle" => groupCalls[h].key \in GroupKeys

CreationRowSound(k) ==
    /\ creations[k].status = "absent" => gateway[k].at = "idle"
    /\ creations[k].status = "created" => gateway[k].at = "acted" /\ k \in accessGiven
    /\ k \in accessGiven => gateway[k].at = "acted"
    /\ creations[k].code = "authorization_revoked" => gateway[k].at = "refused"

\* The handler that inserted the row asks, once; a handler that completes has
\* seen the group, and one that ends the row knows why.
GroupCallSound(h) ==
    /\ groupCalls[h].at \in {"reserving", "waiting"} =>
          /\ creations[groupCalls[h].key].status # "absent"
          /\ gateway[groupCalls[h].key].at = "idle" <=> groupCalls[h].at = "reserving"
    /\ groupCalls[h].at = "completing" => gateway[groupCalls[h].key].at = "acted"
    /\ groupCalls[h].at = "finishing" =>
          /\ groupCalls[h].status \in {"failed", "human_action_required"}
          /\ groupCalls[h].code = "authorization_revoked" => gateway[groupCalls[h].key].at = "refused"

GroupCallsApart ==
    \A g, h \in GroupHandlers :
        /\ groupCalls[g].at \in {"reserving", "waiting"}
        /\ groupCalls[h].at \in {"reserving", "waiting"}
        /\ groupCalls[g].key = groupCalls[h].key
        => g = h

CreationInv ==
    /\ CreationShape
    /\ \A k \in GroupKeys : CreationRowSound(k)
    /\ \A h \in GroupHandlers : GroupCallSound(h)
    /\ GroupCallsApart

\* The gateway works on, and no row and no handler moves.
LEMMA CreationsWait ==
    ASSUME CreationInv, Settles, UNCHANGED creationVars
    PROVE  CreationInv'
<1>1. \A k \in GroupKeys : k \in PrivateOps
  BY Zenon, GroupsAreOperations
<1>2. CreationShape' /\ GroupCallsApart'
  BY Zenon DEF CreationInv, CreationShape, GroupCallsApart, creationVars
<1>3. \A k \in GroupKeys : CreationRowSound(k)'
  BY Zenon, <1>1 DEF CreationInv, CreationRowSound, Settles, creationVars
<1>4. \A h \in GroupHandlers : GroupCallSound(h)'
  BY <1>1 DEF CreationInv, CreationShape, GroupCallSound, Settles, creationVars
<1> QED BY Zenon, <1>2, <1>3, <1>4 DEF CreationInv

\* A handler goes on without asking and without writing.
LEMMA GroupCallSteps ==
    ASSUME CreationInv, UNCHANGED <<gateway, creations, accessGiven>>, NEW h \in GroupHandlers,
           NEW x \in GroupCallRow, groupCalls' = [groupCalls EXCEPT ![h] = x],
           x.at \in {"idle", "reconciling", "completing", "finishing"},
           x.at # "idle" => x.key \in GroupKeys,
           x.at = "completing" => gateway[x.key].at = "acted",
           x.at = "finishing" =>
               /\ x.status \in {"failed", "human_action_required"}
               /\ x.code = "authorization_revoked" => gateway[x.key].at = "refused"
    PROVE  CreationInv'
<1>1. groupCalls'[h] = x /\ \A g \in GroupHandlers : g # h => groupCalls'[g] = groupCalls[g]
  BY Zenon DEF CreationInv, CreationShape
<1>2. CreationShape'
  BY Zenon, <1>1 DEF CreationInv, CreationShape
<1>3. \A k \in GroupKeys : CreationRowSound(k)'
  BY Zenon DEF CreationInv, CreationRowSound
<1>4. \A g \in GroupHandlers : GroupCallSound(g)'
  <2>1. GroupCallSound(h)'
    BY Zenon, <1>1 DEF GroupCallSound
  <2>2. ASSUME NEW g \in GroupHandlers, g # h PROVE GroupCallSound(g)'
    BY <1>1, <2>2 DEF CreationInv, GroupCallSound
  <2> QED BY Zenon, <2>1, <2>2
<1>5. GroupCallsApart'
  BY <1>1 DEF CreationInv, GroupCallsApart
<1> QED BY Zenon, <1>2, <1>3, <1>4, <1>5 DEF CreationInv

\* The record of an idle handler.
LEMMA IdleGroup == IdleGroupCall \in GroupCallRow /\ IdleGroupCall.at = "idle"
BY Zenon DEF IdleGroupCall, GroupCallRow, NoIntent, Authority, CreationStatuses, CreationCodes

\* A handler returns.
LEMMA GroupReturns ==
    ASSUME CreationInv, UNCHANGED <<gateway, creations, accessGiven>>, NEW h \in GroupHandlers,
           groupReturns(h)
    PROVE  CreationInv'
BY Zenon, GroupCallSteps, IdleGroup DEF groupReturns

\* A handler moves on with what it has.
LEMMA GroupGoes ==
    ASSUME CreationInv, UNCHANGED <<gateway, creations, accessGiven>>, NEW h \in GroupHandlers,
           groupCalls[h].at # "idle", NEW at \in {"reconciling", "completing"}, groupGoes(h, at),
           at = "completing" => gateway[groupCalls[h].key].at = "acted"
    PROVE  CreationInv'
<1>1. PICK x : x = [groupCalls[h] EXCEPT !.at = at]
  BY Zenon
<1>2. x \in GroupCallRow /\ x.at = at /\ x.key = groupCalls[h].key /\ x.key \in GroupKeys
  BY <1>1 DEF CreationInv, CreationShape, GroupCallRow
<1>3. groupCalls' = [groupCalls EXCEPT ![h] = x]
  BY Zenon, <1>1 DEF groupGoes
<1> QED BY Zenon, <1>2, <1>3, GroupCallSteps

\* A handler has found out how the operation ends.
LEMMA GroupEnds ==
    ASSUME CreationInv, UNCHANGED <<gateway, creations, accessGiven>>, NEW h \in GroupHandlers,
           groupCalls[h].at # "idle", NEW status \in {"failed", "human_action_required"},
           NEW code \in CreationCodes, groupEnds(h, status, code),
           code = "authorization_revoked" => gateway[groupCalls[h].key].at = "refused"
    PROVE  CreationInv'
<1>1. PICK x : x = [groupCalls[h] EXCEPT !.at = "finishing", !.status = status, !.code = code]
  BY Zenon
<1>2. /\ x \in GroupCallRow /\ x.at = "finishing" /\ x.key = groupCalls[h].key
      /\ x.key \in GroupKeys /\ x.status = status /\ x.code = code
  <2>1. groupCalls[h] \in GroupCallRow /\ groupCalls[h].key \in GroupKeys
    BY Zenon DEF CreationInv, CreationShape
  <2>2. status \in CreationStatuses
    BY Zenon DEF CreationStatuses
  <2> QED BY Zenon, <1>1, <2>1, <2>2 DEF GroupCallRow
<1>3. groupCalls' = [groupCalls EXCEPT ![h] = x]
  BY <1>1, Zenon DEF groupEnds
<1> QED BY Zenon, <1>2, <1>3, GroupCallSteps

\* The row of a key is written, and the handler that wrote it, if one did, has
\* returned.
LEMMA CreationWritten ==
    ASSUME CreationInv, UNCHANGED gateway, NEW k \in GroupKeys, NEW r \in CreationRow,
           creations' = [creations EXCEPT ![k] = r],
           accessGiven' \in {accessGiven, accessGiven \cup {k}},
           UNCHANGED groupCalls \/ \E h \in GroupHandlers : groupReturns(h),
           r.status # "absent",
           r.status = "created" => k \in accessGiven',
           k \in accessGiven' => gateway[k].at = "acted",
           r.code = "authorization_revoked" => gateway[k].at = "refused"
    PROVE  CreationInv'
<1>1. creations'[k] = r /\ \A j \in GroupKeys : j # k => creations'[j] = creations[j]
  BY Zenon DEF CreationInv, CreationShape
<1>2. /\ groupCalls' \in [GroupHandlers -> GroupCallRow]
      /\ \A g \in GroupHandlers : groupCalls'[g] = groupCalls[g] \/ groupCalls'[g].at = "idle"
  BY Zenon, IdleGroup DEF CreationInv, CreationShape, groupReturns
<1>3. CreationShape'
  BY Zenon, <1>2 DEF CreationInv, CreationShape
<1>4. \A j \in GroupKeys : CreationRowSound(j)'
  <2>1. CreationRowSound(k)'
    BY Zenon, <1>1 DEF CreationRowSound
  <2>2. ASSUME NEW j \in GroupKeys, j # k PROVE CreationRowSound(j)'
    <3>1. CreationRowSound(j) /\ creations'[j] = creations[j] /\ (j \in accessGiven' <=> j \in accessGiven)
      BY Zenon, <1>1, <2>2 DEF CreationInv
    <3> QED BY Zenon, <3>1 DEF CreationRowSound
  <2> QED BY Zenon, <2>1, <2>2
<1>5. \A g \in GroupHandlers : GroupCallSound(g)'
  <2> SUFFICES ASSUME NEW g \in GroupHandlers PROVE GroupCallSound(g)'
    BY Zenon
  <2>1. CASE groupCalls'[g].at = "idle"
    BY Zenon, <2>1 DEF GroupCallSound
  <2>2. CASE groupCalls'[g] = groupCalls[g] /\ groupCalls[g].at # "idle"
    <3>1. GroupCallSound(g) /\ groupCalls[g].key \in GroupKeys
      BY Zenon, <2>2 DEF CreationInv, CreationShape
    <3>2. creations[groupCalls[g].key].status # "absent" =>
              creations'[groupCalls[g].key].status # "absent"
      BY Zenon, <1>1, <3>1
    <3> QED BY Zenon, <2>2, <3>1, <3>2 DEF GroupCallSound
  <2> QED BY Zenon, <1>2, <2>1, <2>2
<1>6. GroupCallsApart'
  BY Zenon, <1>2 DEF CreationInv, GroupCallsApart
<1> QED BY Zenon, <1>3, <1>4, <1>5, <1>6 DEF CreationInv

\* The request that inserts the row will ask.
LEMMA GroupBegins ==
    ASSUME CreationInv, UNCHANGED <<gateway, accessGiven>>, NEW h \in GroupHandlers,
           NEW k \in GroupKeys, GroupOwner(k), NEW r \in CreationRow,
           r.status = "pending", r.code = "none", creations' = [creations EXCEPT ![k] = r],
           NEW x \in GroupCallRow, x.at = "reserving", x.key = k,
           groupCalls' = [groupCalls EXCEPT ![h] = x]
    PROVE  CreationInv'
<1>1. creations'[k] = r /\ \A j \in GroupKeys : j # k => creations'[j] = creations[j]
  BY Zenon DEF CreationInv, CreationShape
<1>2. /\ groupCalls'[h] = x /\ \A g \in GroupHandlers : g # h => groupCalls'[g] = groupCalls[g]
      /\ groupCalls' \in [GroupHandlers -> GroupCallRow]
  BY Zenon DEF CreationInv, CreationShape
<1>3. gateway[k].at = "idle" /\ k \notin accessGiven
  BY Zenon DEF GroupOwner, CreationInv, CreationRowSound
<1>4. ASSUME NEW g \in GroupHandlers, groupCalls[g].at \in {"reserving", "waiting"}
      PROVE  groupCalls[g].key # k /\ groupCalls[g].key \in GroupKeys
  BY <1>4 DEF GroupOwner, CreationInv, CreationShape, GroupCallSound
<1>5. CreationShape'
  BY Zenon, <1>2 DEF CreationInv, CreationShape
<1>6. \A j \in GroupKeys : CreationRowSound(j)'
  BY <1>1, <1>3 DEF CreationInv, CreationRowSound
<1>7. \A g \in GroupHandlers : GroupCallSound(g)'
  <2>1. GroupCallSound(h)'
    BY Zenon, <1>1, <1>2, <1>3 DEF GroupCallSound
  <2>2. ASSUME NEW g \in GroupHandlers, g # h PROVE GroupCallSound(g)'
    <3>1. GroupCallSound(g) /\ groupCalls'[g] = groupCalls[g]
      BY Zenon, <1>2, <2>2 DEF CreationInv
    <3>2. groupCalls[g].at \in {"reserving", "waiting"} =>
              creations'[groupCalls[g].key] = creations[groupCalls[g].key]
      BY Zenon, <1>1, <1>4
    <3> QED BY <3>1, <3>2 DEF GroupCallSound
  <2> QED BY Zenon, <2>1, <2>2
<1>8. GroupCallsApart'
  BY <1>2, <1>4 DEF CreationInv, GroupCallsApart
<1> QED BY Zenon, <1>5, <1>6, <1>7, <1>8 DEF CreationInv

\* The creating handler asks the gateway.
LEMMA GroupAsks ==
    ASSUME CreationInv, UNCHANGED <<creations, accessGiven>>, NEW h \in GroupHandlers,
           groupCalls[h].at = "reserving", groupGoes(h, "waiting"), Asks(groupCalls[h].key)
    PROVE  CreationInv'
<1>1. PICK k : k = groupCalls[h].key
  BY Zenon
<1>2. k \in GroupKeys /\ creations[k].status # "absent" /\ gateway[k].at = "idle"
  BY Zenon, <1>1 DEF CreationInv, CreationShape, GroupCallSound
<1>3. /\ gateway'[k].at = "asked" /\ \A j \in GroupKeys : j # k => gateway'[j] = gateway[j]
  BY Zenon, <1>1, GroupsAreOperations DEF Asks
<1>4. PICK x : x = [groupCalls[h] EXCEPT !.at = "waiting"]
  BY Zenon
<1>5. x \in GroupCallRow /\ x.at = "waiting" /\ x.key = k
  BY Zenon, <1>1, <1>4 DEF CreationInv, CreationShape, GroupCallRow
<1>6. /\ groupCalls'[h] = x /\ \A g \in GroupHandlers : g # h => groupCalls'[g] = groupCalls[g]
      /\ groupCalls' \in [GroupHandlers -> GroupCallRow]
  BY Zenon, <1>4, <1>5 DEF CreationInv, CreationShape, groupGoes
<1>7. CreationShape'
  BY Zenon, <1>2, <1>5, <1>6 DEF CreationInv, CreationShape
<1>8. \A j \in GroupKeys : CreationRowSound(j)'
  BY <1>2, <1>3 DEF CreationInv, CreationRowSound
<1>9. \A g \in GroupHandlers : GroupCallSound(g)'
  <2>1. GroupCallSound(h)'
    BY Zenon, <1>2, <1>3, <1>5, <1>6 DEF GroupCallSound
  <2>2. ASSUME NEW g \in GroupHandlers, g # h PROVE GroupCallSound(g)'
    <3>1. /\ GroupCallSound(g) /\ groupCalls'[g] = groupCalls[g]
          /\ groupCalls[g].at # "idle" => groupCalls[g].key \in GroupKeys
      BY Zenon, <1>6, <2>2 DEF CreationInv, CreationShape
    <3>2. groupCalls[g].at \in {"reserving", "waiting"} => groupCalls[g].key # k
      BY Zenon, <1>1, <2>2 DEF CreationInv, GroupCallsApart
    <3>3. CASE groupCalls[g].key = k
      BY Zenon, <1>2, <3>1, <3>2, <3>3 DEF GroupCallSound
    <3>4. CASE groupCalls[g].key # k /\ groupCalls[g].at # "idle"
      <4>1. gateway'[groupCalls[g].key] = gateway[groupCalls[g].key]
        BY Zenon, <1>3, <3>1, <3>4
      <4> QED BY Zenon, <3>1, <4>1 DEF GroupCallSound
    <3>5. CASE groupCalls[g].at = "idle"
      BY Zenon, <3>1, <3>5 DEF GroupCallSound
    <3> QED BY Zenon, <3>3, <3>4, <3>5
  <2> QED BY Zenon, <2>1, <2>2
<1>10. GroupCallsApart'
  BY <1>1, <1>5, <1>6 DEF CreationInv, GroupCallsApart
<1> QED BY Zenon, <1>7, <1>8, <1>9, <1>10 DEF CreationInv

\* A request inserts the row, or takes up what is unsettled.
LEMMA CreationRequests ==
    ASSUME AuthorityInv, CreationInv, NEW h \in GroupHandlers, NEW k \in GroupKeys, createGroup(h, k)
    PROVE  CreationInv'
<1>1. UNCHANGED <<gateway, accessGiven>>
  BY Zenon DEF createGroup, authorityVars
<1>2. CASE GroupOwner(k)
  <2>1. PICK r, x :
           /\ r = [NoCreation EXCEPT !.status = "pending"]
           /\ x = [IdleGroupCall EXCEPT !.at = "reserving", !.key = k, !.wanted = Standing]
    BY Zenon
  <2>2. r \in CreationRow /\ r.status = "pending" /\ r.code = "none"
    BY Zenon, <2>1 DEF NoCreation, CreationRow, CreationStatuses, CreationCodes
  <2>3. x \in GroupCallRow /\ x.at = "reserving" /\ x.key = k
    BY Zenon, <2>1, StandingType DEF IdleGroupCall, GroupCallRow, CreationStatuses, CreationCodes
  <2>4. creations' = [creations EXCEPT ![k] = r] /\ groupCalls' = [groupCalls EXCEPT ![h] = x]
    BY Zenon, <1>2, <2>1 DEF createGroup
  <2> QED BY Zenon, <1>1, <1>2, <2>2, <2>3, <2>4, GroupBegins
<1>3. CASE ~GroupOwner(k)
  <2>1. PICK x, y :
           /\ x = [IdleGroupCall EXCEPT !.at = "reconciling", !.key = k]
           /\ y = [IdleGroupCall EXCEPT !.at = "finishing", !.key = k,
                     !.status = "human_action_required", !.code = "reservation_missing"]
    BY Zenon
  <2>2. x \in GroupCallRow /\ x.at = "reconciling" /\ x.key = k
    BY Zenon, <2>1 DEF IdleGroupCall, GroupCallRow, NoIntent, Authority, CreationStatuses, CreationCodes
  <2>3. /\ y \in GroupCallRow /\ y.at = "finishing" /\ y.key = k
        /\ y.status = "human_action_required" /\ y.code = "reservation_missing"
    BY Zenon, <2>1 DEF IdleGroupCall, GroupCallRow, NoIntent, Authority, CreationStatuses, CreationCodes
  <2>4. /\ UNCHANGED creations
        /\ \/ groupCalls' = [groupCalls EXCEPT ![h] = x]
           \/ groupCalls' = [groupCalls EXCEPT ![h] = y]
    BY Zenon, <1>3, <2>1 DEF createGroup
  <2>5. CASE groupCalls' = [groupCalls EXCEPT ![h] = x]
    BY Zenon, <1>1, <2>2, <2>4, <2>5, GroupCallSteps
  <2>6. CASE groupCalls' = [groupCalls EXCEPT ![h] = y]
    BY Zenon, <1>1, <2>3, <2>4, <2>6, GroupCallSteps
  <2> QED BY Zenon, <2>4, <2>5, <2>6
<1> QED BY Zenon, <1>2, <1>3

\* The steps of a handler between its request and the end of the row.
LEMMA CreationProgress ==
    ASSUME AuthorityInv, CreationInv, NEW h \in GroupHandlers,
           \/ groupAnswered(h)
           \/ reconcileAfterCreate(h)
           \/ completionFails(h)
           \/ groupCallDies(h)
    PROVE  CreationInv'
<1>1. UNCHANGED <<gateway, creations, accessGiven>> /\ groupCalls[h].at # "idle"
  BY Zenon DEF groupAnswered, reconcileAfterCreate, completionFails, groupCallDies, authorityVars
<1>2. groupCalls[h].key \in GroupKeys /\ groupCalls[h].key \in PrivateOps
  BY Zenon, <1>1, GroupsAreOperations DEF CreationInv, CreationShape
<1>3. ASSUME groupAnswered(h) PROVE CreationInv'
  <2>1. PICK answer \in Heard(groupCalls[h].key) :
           \/ answer = "done" /\ groupGoes(h, "completing")
           \/ answer = "done" /\ groupEnds(h, "human_action_required", "response_mismatch")
           \/ answer = "revoked" /\ groupEnds(h, "failed", "authorization_revoked")
           \/ answer = "rejected" /\ groupEnds(h, "failed", "provider_rejected")
           \/ answer = "unavailable" /\ groupGoes(h, "reconciling")
    BY Zenon, <1>3 DEF groupAnswered
  <2>2. /\ answer = "done" => gateway[groupCalls[h].key].at = "acted"
        /\ answer = "revoked" => gateway[groupCalls[h].key].at = "refused"
    BY <1>2, HeardDone
  <2>3. CASE answer = "done" /\ groupGoes(h, "completing")
    BY Zenon, <1>1, <2>2, <2>3, GroupGoes
  <2>4. CASE groupEnds(h, "human_action_required", "response_mismatch")
    BY Zenon, <1>1, <2>4, GroupEnds DEF CreationCodes
  <2>5. CASE answer = "revoked" /\ groupEnds(h, "failed", "authorization_revoked")
    BY Zenon, <1>1, <2>2, <2>5, GroupEnds DEF CreationCodes
  <2>6. CASE groupEnds(h, "failed", "provider_rejected")
    BY Zenon, <1>1, <2>6, GroupEnds DEF CreationCodes
  <2>7. CASE groupGoes(h, "reconciling")
    BY Zenon, <1>1, <2>7, GroupGoes
  <2> QED BY Zenon, <2>1, <2>3, <2>4, <2>5, <2>6, <2>7
<1>4. ASSUME reconcileAfterCreate(h) PROVE CreationInv'
  <2>1. CASE Identified(groupCalls[h].key) /\ groupGoes(h, "completing")
    BY Zenon, <1>1, <2>1, GroupGoes DEF Identified
  <2>2. CASE groupEnds(h, "human_action_required", "evidence_unresolved")
    BY Zenon, <1>1, <2>2, GroupEnds DEF CreationCodes
  <2> QED BY Zenon, <1>4, <2>1, <2>2 DEF reconcileAfterCreate
<1>5. ASSUME completionFails(h) PROVE CreationInv'
  BY Zenon, <1>1, <1>5, GroupEnds DEF completionFails, CreationCodes
<1>6. ASSUME groupCallDies(h) PROVE CreationInv'
  BY Zenon, <1>1, <1>6, GroupReturns DEF groupCallDies
<1> QED BY Zenon, <1>3, <1>4, <1>5, <1>6

\* The steps that write the row of an operation.
LEMMA CreationWrites ==
    ASSUME AuthorityInv, CreationInv,
           \/ \E h \in GroupHandlers : completeCreated(h) \/ completeUnresolved(h)
           \/ \E k \in GroupKeys : dispatchLapses(k)
    PROVE  CreationInv'
<1>1. ASSUME NEW h \in GroupHandlers, completeCreated(h) PROVE CreationInv'
  <2>1. PICK k : k = groupCalls[h].key
    BY Zenon
  <2>2. PICK r : r = [creations[k] EXCEPT !.status = "created", !.code = "none", !.lapsed = FALSE]
    BY Zenon
  <2>3. k \in GroupKeys /\ gateway[k].at = "acted"
    BY Zenon, <1>1, <2>1 DEF completeCreated, CreationInv, CreationShape, GroupCallSound
  <2>4. r \in CreationRow /\ r.status = "created" /\ r.code = "none"
    BY ZenonT(60), <2>2, <2>3 DEF CreationInv, CreationShape, CreationRow, CreationStatuses, CreationCodes
  <2>5. /\ creations' = [creations EXCEPT ![k] = r] /\ accessGiven' = accessGiven \cup {k}
        /\ groupReturns(h) /\ UNCHANGED gateway
    BY Zenon, <1>1, <2>1, <2>2 DEF completeCreated, finishGroupCreationOperation, authorityVars
  <2> QED BY Zenon, <2>3, <2>4, <2>5, CreationWritten
<1>2. ASSUME NEW h \in GroupHandlers, completeUnresolved(h) PROVE CreationInv'
  <2>1. PICK k, s, c : k = groupCalls[h].key /\ s = groupCalls[h].status /\ c = groupCalls[h].code
    BY Zenon
  <2>2. PICK r : r = [creations[k] EXCEPT !.status = s, !.code = c, !.lapsed = FALSE]
    BY Zenon
  <2>3. /\ k \in GroupKeys /\ s \in {"failed", "human_action_required"} /\ c \in CreationCodes
        /\ c = "authorization_revoked" => gateway[k].at = "refused"
    BY Zenon, <1>2, <2>1 DEF completeUnresolved, CreationInv, CreationShape, GroupCallRow, GroupCallSound
  <2>4. r \in CreationRow /\ r.status = s /\ r.code = c
    BY ZenonT(60), <2>2, <2>3 DEF CreationInv, CreationShape, CreationRow, CreationStatuses
  <2>5. /\ creations' = [creations EXCEPT ![k] = r] /\ accessGiven' = accessGiven
        /\ groupReturns(h) /\ UNCHANGED gateway
    BY Zenon, <1>2, <2>1, <2>2 DEF completeUnresolved, finishGroupCreationOperation, authorityVars
  <2>6. k \in accessGiven => gateway[k].at = "acted"
    BY Zenon, <2>3 DEF CreationInv, CreationRowSound
  <2> QED BY Zenon, <2>3, <2>4, <2>5, <2>6, CreationWritten
<1>3. ASSUME NEW k \in GroupKeys, dispatchLapses(k) PROVE CreationInv'
  <2>1. PICK r : r = [creations[k] EXCEPT !.lapsed = TRUE]
    BY Zenon
  <2>2. /\ r \in CreationRow /\ r.status = "pending" /\ r.code = creations[k].code
    <3>1. creations[k] \in CreationRow /\ creations[k].status = "pending"
      BY Zenon, <1>3 DEF dispatchLapses, CreationInv, CreationShape
    <3> QED BY Zenon, <2>1, <3>1 DEF CreationRow
  <2>3. /\ creations' = [creations EXCEPT ![k] = r] /\ accessGiven' = accessGiven
        /\ UNCHANGED <<groupCalls, gateway>>
    <3>1. creations' = [creations EXCEPT ![k] = r]
      BY <1>3, <2>1, Zenon DEF dispatchLapses
    <3> QED BY Zenon, <1>3, <3>1 DEF dispatchLapses, authorityVars
  <2>4. /\ k \in accessGiven => gateway[k].at = "acted"
        /\ r.code = "authorization_revoked" => gateway[k].at = "refused"
    BY Zenon, <2>2 DEF CreationInv, CreationRowSound
  <2> QED BY Zenon, <2>2, <2>3, <2>4, CreationWritten
<1> QED BY Zenon, <1>1, <1>2, <1>3

\* Every step of the service preserves what holds of it.
LEMMA CreationSteps ==
    ASSUME AuthorityInv, CreationInv, CreationNext
    PROVE  AuthorityInv' /\ CreationInv'
<1>1. CASE AuthorityNext /\ UNCHANGED creationVars
  BY Zenon, <1>1, AuthoritySteps, CreationsWait
<1>2. ASSUME NEW k \in GroupKeys, gatewayActs(k), UNCHANGED creationVars
      PROVE  AuthorityInv' /\ CreationInv'
  <2>1. k \in PrivateOps
    BY Zenon, GroupsAreOperations
  <2> QED BY Zenon, <1>2, <2>1, GatewayActs, CreationsWait
<1>3. ASSUME \/ \E h \in GroupHandlers : completeCreated(h) \/ completeUnresolved(h)
             \/ \E k \in GroupKeys : dispatchLapses(k)
      PROVE  AuthorityInv' /\ CreationInv'
  <2>1. UNCHANGED authorityVars
    BY Zenon, <1>3 DEF completeCreated, completeUnresolved, dispatchLapses
  <2> QED BY Zenon, <1>3, <2>1, AuthorityStays, CreationWrites
<1>4. ASSUME NEW h \in GroupHandlers, NEW k \in GroupKeys, createGroup(h, k)
      PROVE  AuthorityInv' /\ CreationInv'
  <2>1. UNCHANGED authorityVars
    BY Zenon, <1>4 DEF createGroup
  <2> QED BY Zenon, <1>4, <2>1, AuthorityStays, CreationRequests
<1>5. ASSUME NEW h \in GroupHandlers,
             \/ groupAnswered(h)
             \/ reconcileAfterCreate(h)
             \/ completionFails(h)
             \/ groupCallDies(h)
      PROVE  AuthorityInv' /\ CreationInv'
  <2>1. UNCHANGED authorityVars
    BY Zenon, <1>5 DEF groupAnswered, reconcileAfterCreate, completionFails, groupCallDies
  <2> QED BY Zenon, <1>5, <2>1, AuthorityStays, CreationProgress
<1>6. ASSUME NEW h \in GroupHandlers, reserveGroup(h) PROVE AuthorityInv' /\ CreationInv'
  <2>1. PICK k, w : k = groupCalls[h].key /\ w = groupCalls[h].wanted
    BY Zenon
  <2>2. /\ groupCalls[h].at = "reserving" /\ k \in PrivateOps /\ w \in Authority
        /\ gateway[k].at = "idle" /\ reservePrivateAuthority(k, w)
        /\ UNCHANGED <<creations, accessGiven, standing>>
    BY Zenon, <1>6, <2>1, GroupsAreOperations
       DEF reserveGroup, CreationInv, CreationShape, GroupCallRow, GroupCallSound
  <2>3. CASE askGateway(k) /\ groupGoes(h, "waiting")
    <3>1. AuthorityInv' /\ (UNCHANGED gateway \/ Asks(k))
      BY Zenon, <2>2, <2>3, Reserving
    <3>2. Asks(k)
      BY <2>2, <2>3, <3>1 DEF askGateway, AuthorityInv, AuthorityShape
    <3> QED BY Zenon, <2>1, <2>2, <2>3, <3>1, <3>2, GroupAsks
  <2>4. CASE groupReturns(h) /\ UNCHANGED gateway
    <3>1. AuthorityInv'
      BY Zenon, <2>2, <2>4, Reserving
    <3> QED BY Zenon, <2>2, <2>4, <3>1, GroupReturns
  <2> QED BY Zenon, <1>6, <2>1, <2>3, <2>4 DEF reserveGroup
<1> QED BY Zenon, <1>1, <1>2, <1>3, <1>4, <1>5, <1>6 DEF CreationNext

\* The properties of the service follow.
LEMMA CreationFacts ==
    ASSUME AuthorityInv, CreationInv
    PROVE  NoBlindCreateRetry /\ CreatedGroupsAreReal
<1>1. ASSUME NEW k \in GroupKeys, NEW g \in Creating(k), NEW h \in Creating(k) PROVE g = h
  BY Zenon DEF Creating, CreationInv, GroupCallsApart
<1>2. ASSUME NEW k \in GroupKeys, NEW h \in Creating(k)
      PROVE  groupCalls[h].at = "waiting" <=> gateway[k].at # "idle"
  BY DEF Creating, CreationInv, GroupCallSound
<1>3. NoBlindCreateRetry
  BY Zenon, <1>1, <1>2 DEF NoBlindCreateRetry
<1>4. CreatedGroupsAreReal
  BY Zenon DEF CreationInv, CreationRowSound, CreatedGroupsAreReal
<1> QED BY Zenon, <1>3, <1>4

-----------------------------------------------------------------------------
(* Group management *)

GroupView == [revision : Nat, name : Renames \cup {NoChange}, members : SUBSET Additions]
ManagedRow == [group : GroupView, active : Changes \cup {NoChange}, lapsed : BOOLEAN]
ChangeRow == [status : ChangeStatuses, code : ChangeCodes, expected : Nat, lapsed : BOOLEAN]
ManageCallRow ==
    [at : {"idle", "claiming", "reserving", "waiting", "reconciling", "completing", "finishing"},
     change : Changes \cup {NoChange}, generation : Nat, members : SUBSET Additions,
     data : GroupView, owner : BOOLEAN, status : ChangeStatuses, code : ChangeCodes]

ManageShape ==
    /\ managed \in ManagedRow
    /\ changes \in [Changes -> ChangeRow]
    /\ provider \in GroupView
    /\ outcome \in [Changes -> GroupView]
    /\ manageCalls \in [ManageHandlers -> ManageCallRow]
    /\ \A h \in ManageHandlers : manageCalls[h].at # "idle" => manageCalls[h].change \in Changes

\* A view of the group is one the provider has, or had: it is not ahead of the
\* provider, and shows only changes that were made.
Seen(g) ==
    /\ g.revision <= provider.revision
    /\ g.name \in Renames => gateway[g.name].at = "acted"
    /\ \A m \in g.members : gateway[m].at = "acted"

ViewsSound ==
    /\ Seen(provider)
    /\ Seen(managed.group)
    /\ \A o \in Changes : Seen(outcome[o])
    /\ \A h \in ManageHandlers : Seen(manageCalls[h].data)

ChangeSound(o) ==
    /\ changes[o].status = "absent" => gateway[o].at = "idle"
    /\ changes[o].status = "failed" => gateway[o].at # "idle"
    /\ changes[o].code = "uncertain" => changes[o].status = "human_action_required"
    /\ changes[o].expected <= managed.group.revision
    /\ changes[o].status = "succeeded" =>
          /\ gateway[o].at = "acted"
          /\ managed.group.revision > changes[o].expected
          /\ o \in Additions => o \in managed.group.members

\* While the group is at the revision a handler's operation expects, the
\* handler knows its members.
ManageCallSound(h) ==
    LET call == manageCalls[h] IN
    /\ call.at # "idle" =>
          /\ changes[call.change].status # "absent"
          /\ managed.group.revision = changes[call.change].expected =>
                call.members = managed.group.members
    /\ call.at \in {"claiming", "reserving"} => gateway[call.change].at = "idle"
    /\ call.at = "finishing" =>
          /\ call.status \in {"failed", "human_action_required"}
          /\ call.status = "failed" => gateway[call.change].at # "idle"
          /\ call.code = "uncertain" => call.status = "human_action_required"

ManageCallsApart ==
    \A g, h \in ManageHandlers :
        /\ manageCalls[g].at \in {"claiming", "reserving"}
        /\ manageCalls[h].at \in {"claiming", "reserving"}
        /\ manageCalls[g].change = manageCalls[h].change
        => g = h

SuccessesApart ==
    \A o, p \in Changes :
        changes[o].status = "succeeded" /\ changes[p].status = "succeeded" /\ o # p
            => changes[o].expected # changes[p].expected

ManageInv ==
    /\ ManageShape
    /\ ViewsSound
    /\ \A o \in Changes : ChangeSound(o)
    /\ \A h \in ManageHandlers : ManageCallSound(h)
    /\ ManageCallsApart
    /\ SuccessesApart
    /\ ClaimsAreLive

\* The gateway works on, and the provider with it.
LEMMA ManagementWaits ==
    ASSUME ManageInv, Settles, UNCHANGED <<managed, changes, manageCalls>>,
           \/ UNCHANGED <<provider, outcome>>
           \/ /\ provider' \in GroupView /\ outcome' \in [Changes -> GroupView]
              /\ provider.revision <= provider'.revision
              /\ Seen(provider)' /\ \A o \in Changes : Seen(outcome[o])'
    PROVE  ManageInv'
<1>1. \A o \in Changes : o \in PrivateOps
  BY Zenon, ChangesAreOperations
<1>2. /\ ManageShape' /\ ManageCallsApart' /\ SuccessesApart' /\ ClaimsAreLive'
  BY Zenon DEF ManageInv, ManageShape, ManageCallsApart, SuccessesApart, ClaimsAreLive
<1>3. \A o \in Changes : gateway[o].at = "acted" => gateway'[o].at = "acted"
  BY Zenon, <1>1 DEF Settles
<1>4. provider.revision \in Nat /\ provider'.revision \in Nat /\ provider.revision <= provider'.revision
  BY DEF ManageInv, ManageShape, GroupView
<1>5. ASSUME NEW g \in GroupView, Seen(g) PROVE Seen(g)'
  <2>1. g.revision \in Nat /\ g.members \subseteq Changes
    BY Zenon DEF GroupView, Changes
  <2>2. g.name \in Renames => g.name \in Changes
    BY Zenon DEF Changes
  <2> QED BY <1>3, <1>4, <1>5, <2>1, <2>2 DEF Seen
<1>6. Seen(managed.group)'
  <2>1. PICK g : g = managed.group
    BY Zenon
  <2>2. g \in GroupView /\ Seen(g)
    BY Zenon, <2>1 DEF ManageInv, ViewsSound, ManageShape, ManagedRow
  <2>3. g = managed'.group
    BY Zenon, <2>1
  <2> QED BY Zenon, <1>5, <2>2, <2>3
<1>7. ASSUME NEW h \in ManageHandlers PROVE Seen(manageCalls[h].data)'
  <2>1. PICK g : g = manageCalls[h].data
    BY Zenon
  <2>2. g \in GroupView /\ Seen(g)
    BY Zenon, <2>1 DEF ManageInv, ViewsSound, ManageShape, ManageCallRow
  <2>3. g = manageCalls'[h].data
    BY Zenon, <2>1
  <2> QED BY Zenon, <1>5, <2>2, <2>3
<1>8. Seen(provider)' /\ \A o \in Changes : Seen(outcome[o])'
  <2>1. CASE UNCHANGED <<provider, outcome>>
    <3>1. Seen(provider)'
      <4>1. PICK g : g = provider
        BY Zenon
      <4>2. g \in GroupView /\ Seen(g) /\ g = provider'
        BY Zenon, <2>1, <4>1 DEF ManageInv, ViewsSound, ManageShape
      <4> QED BY Zenon, <1>5, <4>2
    <3>2. ASSUME NEW o \in Changes PROVE Seen(outcome[o])'
      <4>1. PICK g : g = outcome[o]
        BY Zenon
      <4>2. g \in GroupView /\ Seen(g) /\ g = outcome'[o]
        BY Zenon, <2>1, <4>1 DEF ManageInv, ViewsSound, ManageShape
      <4> QED BY Zenon, <1>5, <4>2
    <3> QED BY Zenon, <3>1, <3>2
  <2> QED BY Zenon, <2>1
<1>9. ViewsSound'
  BY Zenon, <1>6, <1>7, <1>8 DEF ViewsSound
<1>10. \A o \in Changes : ChangeSound(o)'
  BY Zenon, <1>1 DEF ManageInv, ChangeSound, Settles
<1>11. \A h \in ManageHandlers : ManageCallSound(h)'
  BY <1>1 DEF ManageInv, ManageShape, ManageCallSound, Settles
<1> QED BY Zenon, <1>2, <1>9, <1>10, <1>11 DEF ManageInv

\* The provider makes a change.
LEMMA ManageActs ==
    ASSUME AuthorityInv, ManageInv, NEW o \in Changes, manageActs(o)
    PROVE  AuthorityInv' /\ ManageInv'
<1>1. /\ AuthorityInv' /\ Settles /\ gateway'[o].at = "acted"
  BY Zenon, GatewayActs, ChangesAreOperations DEF manageActs
<1>2. \A p \in Changes : gateway[p].at = "acted" => gateway'[p].at = "acted"
  BY Zenon, <1>1, ChangesAreOperations DEF Settles
<1>3. PICK g, p : g = Applied(o) /\ p = provider
  BY Zenon
<1>4. /\ p \in GroupView /\ p.revision \in Nat /\ p.members \subseteq Additions
      /\ p.name \in Renames \cup {NoChange} /\ Seen(p)
  BY Zenon, <1>3 DEF ManageInv, ManageShape, GroupView, ViewsSound
<1>5. /\ g.revision = p.revision + 1
      /\ g.name = (IF o \in Renames THEN o ELSE p.name)
      /\ g.members = p.members \cup ({o} \cap Additions)
      /\ g \in GroupView
  BY <1>3, <1>4 DEF Applied, GroupView
<1>6. provider' = g /\ outcome' = [outcome EXCEPT ![o] = g] /\ UNCHANGED <<managed, changes, manageCalls>>
  BY Zenon, <1>3 DEF manageActs
<1>7. outcome' \in [Changes -> GroupView] /\ outcome'[o] = g
      /\ \A q \in Changes : q # o => outcome'[q] = outcome[q]
  BY Zenon, <1>5, <1>6 DEF ManageInv, ManageShape
<1>8. Seen(g)'
  <2>1. g.revision <= provider'.revision
    BY <1>4, <1>5, <1>6
  <2>2. g.name \in Renames => gateway'[g.name].at = "acted"
    BY Zenon, <1>1, <1>2, <1>4, <1>5 DEF Seen, Changes
  <2>3. \A m \in g.members : gateway'[m].at = "acted"
    BY Zenon, <1>1, <1>2, <1>4, <1>5 DEF Seen, Changes
  <2> QED BY Zenon, <2>1, <2>2, <2>3 DEF Seen
<1>9. ASSUME NEW q \in Changes PROVE Seen(outcome[q])'
  <2>1. CASE q = o
    BY Zenon, <1>7, <1>8, <2>1
  <2>2. CASE q # o
    <3>1. PICK v : v = outcome[q]
      BY Zenon
    <3>2. /\ v \in GroupView /\ v.revision \in Nat /\ v.members \subseteq Additions /\ Seen(v)
          /\ v = outcome'[q]
      BY Zenon, <1>7, <2>2, <3>1 DEF ManageInv, ManageShape, GroupView, ViewsSound
    <3>3. v.revision <= provider'.revision
      BY <1>3, <1>4, <1>5, <1>6, <3>2 DEF Seen
    <3>4. v.name \in Renames => gateway'[v.name].at = "acted"
      BY Zenon, <1>2, <3>2 DEF Seen, Changes
    <3>5. \A m \in v.members : gateway'[m].at = "acted"
      BY Zenon, <1>2, <3>2 DEF Seen, Changes
    <3>6. Seen(v)'
      BY Zenon, <3>3, <3>4, <3>5 DEF Seen
    <3> QED BY Zenon, <3>2, <3>6
  <2> QED BY Zenon, <2>1, <2>2
<1>10. provider.revision <= provider'.revision /\ Seen(provider)' /\ provider' \in GroupView
  BY <1>3, <1>4, <1>5, <1>6, <1>8
<1>11. ManageInv'
  BY Zenon, <1>1, <1>6, <1>7, <1>9, <1>10, ManagementWaits
<1> QED BY Zenon, <1>1, <1>11

\* A view the provider had stays one while the provider does not change.
LEMMA ViewsCarry ==
    ASSUME ViewsSound, UNCHANGED <<provider, gateway, outcome>>, Seen(managed'.group),
           \A h \in ManageHandlers : Seen(manageCalls'[h].data)
    PROVE  ViewsSound'
<1>1. Seen(provider)'
  BY Zenon DEF ViewsSound, Seen
<1>2. Seen(managed.group)'
  BY Zenon DEF Seen
<1>3. \A o \in Changes : Seen(outcome[o])'
  BY Zenon DEF ViewsSound, Seen
<1>4. \A h \in ManageHandlers : Seen(manageCalls[h].data)'
  BY Zenon DEF Seen
<1> QED BY Zenon, <1>1, <1>2, <1>3, <1>4 DEF ViewsSound

\* A handler takes a step, and may take the claim with it; no row of an
\* operation is written.
LEMMA ManageCallSteps ==
    ASSUME ManageInv, UNCHANGED <<gateway, changes, provider, outcome>>,
           managed' \in ManagedRow, managed'.group = managed.group, ClaimsAreLive',
           NEW h \in ManageHandlers, NEW x \in ManageCallRow,
           manageCalls' = [manageCalls EXCEPT ![h] = x],
           x.at \in {"idle", "reserving", "reconciling", "completing", "finishing"},
           x.at = "reserving" =>
               manageCalls[h].at = "claiming" /\ x.change = manageCalls[h].change,
           x.at # "idle" =>
               /\ x.change \in Changes /\ changes[x.change].status # "absent"
               /\ managed.group.revision = changes[x.change].expected =>
                     x.members = managed.group.members,
           x.at = "finishing" =>
               /\ x.status \in {"failed", "human_action_required"}
               /\ x.status = "failed" => gateway[x.change].at # "idle"
               /\ x.code = "uncertain" => x.status = "human_action_required",
           Seen(x.data)
    PROVE  ManageInv'
<1>1. manageCalls'[h] = x /\ \A g \in ManageHandlers : g # h => manageCalls'[g] = manageCalls[g]
  BY Zenon DEF ManageInv, ManageShape
<1>2. ManageShape'
  BY Zenon, <1>1 DEF ManageInv, ManageShape
<1>3. ViewsSound'
  <2>1. \A g \in ManageHandlers : Seen(manageCalls'[g].data)
    BY Zenon, <1>1 DEF ManageInv, ViewsSound
  <2>2. Seen(managed'.group)
    BY Zenon DEF ManageInv, ViewsSound
  <2> QED BY Zenon, <2>1, <2>2, ViewsCarry DEF ManageInv
<1>4. \A o \in Changes : ChangeSound(o)'
  <2> SUFFICES ASSUME NEW o \in Changes PROVE ChangeSound(o)'
    BY Zenon
  <2>1. ChangeSound(o)
    BY Zenon DEF ManageInv
  <2> QED BY Zenon, <2>1 DEF ChangeSound
<1>5. \A g \in ManageHandlers : ManageCallSound(g)'
  <2>1. ManageCallSound(h)'
    <3>1. x.at = "reserving" => gateway[x.change].at = "idle"
      BY Zenon DEF ManageInv, ManageCallSound
    <3> QED BY Zenon, <1>1, <3>1 DEF ManageCallSound
  <2>2. ASSUME NEW g \in ManageHandlers, g # h PROVE ManageCallSound(g)'
    BY <1>1, <2>2 DEF ManageInv, ManageCallSound
  <2> QED BY Zenon, <2>1, <2>2
<1>6. ManageCallsApart'
  BY <1>1 DEF ManageInv, ManageCallsApart
<1>7. SuccessesApart'
  BY Zenon DEF ManageInv, SuccessesApart
<1> QED BY Zenon, <1>2, <1>3, <1>4, <1>5, <1>6, <1>7 DEF ManageInv

\* The group before any change is a view the provider had.
LEMMA FirstSeen ==
    ASSUME ManageInv
    PROVE  FirstGroup \in GroupView /\ Seen(FirstGroup)
<1>1. provider.revision \in Nat
  BY Zenon DEF ManageInv, ManageShape, GroupView
<1> QED BY <1>1, ChangesApart DEF FirstGroup, GroupView, Seen, Changes

\* The record of an idle handler.
LEMMA IdleManage ==
    ASSUME ManageInv
    PROVE  /\ IdleManageCall \in ManageCallRow /\ IdleManageCall.at = "idle"
           /\ Seen(IdleManageCall.data)
<1>1. IdleManageCall.data = FirstGroup /\ IdleManageCall.at = "idle"
  BY Zenon DEF IdleManageCall
<1>2. IdleManageCall \in ManageCallRow
  BY Zenon, FirstSeen DEF IdleManageCall, ManageCallRow, ChangeStatuses, ChangeCodes
<1> QED BY Zenon, <1>1, <1>2, FirstSeen

\* The claim is as it was.
LEMMA ClaimStays ==
    ASSUME ManageInv, UNCHANGED <<managed, changes>>
    PROVE  managed' \in ManagedRow /\ managed'.group = managed.group /\ ClaimsAreLive'
BY Zenon DEF ManageInv, ManageShape, ClaimsAreLive

\* A handler returns.
LEMMA ManageReturns ==
    ASSUME ManageInv, UNCHANGED <<gateway, managed, changes, provider, outcome>>,
           NEW h \in ManageHandlers, manageReturns(h)
    PROVE  ManageInv'
BY Zenon, ClaimStays, IdleManage, ManageCallSteps DEF manageReturns

\* A handler has found out how the operation ends.
LEMMA ManageEnds ==
    ASSUME ManageInv, UNCHANGED <<gateway, managed, changes, provider, outcome>>,
           NEW h \in ManageHandlers, manageCalls[h].at # "idle",
           NEW status \in {"failed", "human_action_required"}, NEW code \in ChangeCodes,
           manageEnds(h, status, code),
           status = "failed" => code # "uncertain" /\ gateway[manageCalls[h].change].at # "idle"
    PROVE  ManageInv'
<1>1. PICK x : x = [manageCalls[h] EXCEPT !.at = "finishing", !.status = status, !.code = code,
                                          !.data = FirstGroup]
  BY Zenon
<1>2. /\ x \in ManageCallRow /\ x.at = "finishing" /\ x.change = manageCalls[h].change
      /\ x.members = manageCalls[h].members /\ x.status = status /\ x.code = code
      /\ x.data = FirstGroup
  BY ZenonT(60), <1>1, FirstSeen DEF ManageInv, ManageShape, ManageCallRow, ChangeStatuses
<1>3. manageCalls' = [manageCalls EXCEPT ![h] = x]
  BY Zenon, <1>1 DEF manageEnds
<1>4. /\ x.change \in Changes /\ changes[x.change].status # "absent"
      /\ managed.group.revision = changes[x.change].expected => x.members = managed.group.members
  BY <1>2 DEF ManageInv, ManageShape, ManageCallSound
<1>5. Seen(x.data)
  BY Zenon, <1>2, FirstSeen
<1> QED BY Zenon, <1>2, <1>3, <1>4, <1>5, ClaimStays, ManageCallSteps

\* A handler goes on with the same operation, and what it has seen.
LEMMA ManageGoes ==
    ASSUME ManageInv, UNCHANGED <<gateway, changes, provider, outcome>>,
           managed' \in ManagedRow, managed'.group = managed.group, ClaimsAreLive',
           NEW h \in ManageHandlers, manageCalls[h].at # "idle", NEW x \in ManageCallRow,
           manageCalls' = [manageCalls EXCEPT ![h] = x],
           x.at \in {"reserving", "reconciling", "completing"},
           x.at = "reserving" => manageCalls[h].at = "claiming",
           x.change = manageCalls[h].change, x.members = manageCalls[h].members, Seen(x.data)
    PROVE  ManageInv'
<1>1. /\ x.change \in Changes /\ changes[x.change].status # "absent"
      /\ managed.group.revision = changes[x.change].expected => x.members = managed.group.members
  BY DEF ManageInv, ManageShape, ManageCallSound
<1> QED BY Zenon, <1>1, ManageCallSteps

\* Leases lapse.
LEMMA ManageLapses ==
    ASSUME ManageInv, claimLapses \/ \E o \in Changes : changeLapses(o)
    PROVE  ManageInv'
<1>1. UNCHANGED <<gateway, provider, outcome, manageCalls>>
  BY Zenon DEF claimLapses, changeLapses, authorityVars
<1>2. /\ managed' \in ManagedRow /\ managed'.group = managed.group
      /\ managed'.active = managed.active
  <2>1. CASE claimLapses
    BY Zenon, <2>1 DEF claimLapses, ManageInv, ManageShape, ManagedRow
  <2>2. CASE UNCHANGED managed
    BY Zenon, <2>2 DEF ManageInv, ManageShape
  <2> QED BY Zenon, <2>1, <2>2 DEF changeLapses
<1>3. /\ changes' \in [Changes -> ChangeRow]
      /\ \A p \in Changes : /\ changes'[p].status = changes[p].status
                            /\ changes'[p].code = changes[p].code
                            /\ changes'[p].expected = changes[p].expected
  <2>1. CASE claimLapses
    BY Zenon, <2>1 DEF claimLapses, ManageInv, ManageShape
  <2>2. ASSUME NEW o \in Changes, changeLapses(o)
        PROVE  /\ changes' \in [Changes -> ChangeRow]
               /\ \A p \in Changes : /\ changes'[p].status = changes[p].status
                                     /\ changes'[p].code = changes[p].code
                                     /\ changes'[p].expected = changes[p].expected
    <3>1. PICK r : r = [changes[o] EXCEPT !.lapsed = TRUE]
      BY Zenon
    <3>2. /\ r \in ChangeRow /\ r.status = changes[o].status /\ r.code = changes[o].code
          /\ r.expected = changes[o].expected
      BY Zenon, <3>1 DEF ManageInv, ManageShape, ChangeRow
    <3>3. changes' = [changes EXCEPT ![o] = r]
      BY Zenon, <2>2, <3>1 DEF changeLapses
    <3> QED BY Zenon, <3>2, <3>3 DEF ManageInv, ManageShape
  <2> QED BY Zenon, <2>1, <2>2
<1>4. ManageShape'
  BY Zenon, <1>1, <1>2, <1>3 DEF ManageInv, ManageShape
<1>5. ViewsSound'
  BY Zenon, <1>1, <1>2 DEF ManageInv, ViewsSound, Seen
<1>6. \A o \in Changes : ChangeSound(o)'
  BY <1>1, <1>2, <1>3 DEF ManageInv, ChangeSound
<1>7. \A g \in ManageHandlers : ManageCallSound(g)'
  <2> SUFFICES ASSUME NEW g \in ManageHandlers PROVE ManageCallSound(g)'
    BY Zenon
  <2>1. ManageCallSound(g) /\ (manageCalls[g].at # "idle" => manageCalls[g].change \in Changes)
    BY Zenon DEF ManageInv, ManageShape
  <2> QED BY Zenon, <1>1, <1>2, <1>3, <2>1 DEF ManageCallSound
<1>8. ManageCallsApart' /\ SuccessesApart'
  BY <1>1, <1>3 DEF ManageInv, ManageCallsApart, SuccessesApart
<1>9. ClaimsAreLive'
  <2>1. managed.active # NoChange => managed.active \in Changes
    BY Zenon DEF ManageInv, ManageShape, ManagedRow
  <2> QED BY <1>2, <1>3, <2>1 DEF ManageInv, ClaimsAreLive
<1> QED BY Zenon, <1>4, <1>5, <1>6, <1>7, <1>8, <1>9 DEF ManageInv

\* The request that inserts the row of a change will dispatch it.
LEMMA ManageBegins ==
    ASSUME AuthorityInv, ManageInv, NEW h \in ManageHandlers, NEW o \in Changes, runManagement(h, o)
    PROVE  ManageInv'
<1>1. UNCHANGED <<gateway, managed, provider, outcome>>
  BY Zenon DEF runManagement, authorityVars
<1>2. managed.group \in GroupView /\ managed.group.revision \in Nat /\ managed.group.members \subseteq Additions
  BY Zenon DEF ManageInv, ManageShape, ManagedRow, GroupView
<1>3. PICK e \in 0 .. managed.group.revision : beginGroupManagementOperation(h, o, e)
  BY Zenon DEF runManagement
<1>4. e \in Nat /\ e <= managed.group.revision
  BY <1>2, <1>3
<1>5. PICK r, x :
         /\ r = [NoManagement EXCEPT !.status = "pending", !.expected = e]
         /\ x = [IdleManageCall EXCEPT !.at = "claiming", !.change = o, !.owner = TRUE,
                   !.generation = standing.generation, !.members = managed.group.members]
  BY Zenon
<1>6. r \in ChangeRow /\ r.status = "pending" /\ r.code = "none" /\ r.expected = e
  BY Zenon, <1>4, <1>5 DEF NoManagement, ChangeRow, ChangeStatuses, ChangeCodes
<1>7. standing.generation \in Nat
  BY Zenon DEF AuthorityInv, AuthorityShape
<1>8. /\ x \in ManageCallRow /\ x.at = "claiming" /\ x.change = o
      /\ x.members = managed.group.members /\ x.data = FirstGroup
  BY Zenon, <1>2, <1>5, <1>7, FirstSeen DEF IdleManageCall, ManageCallRow, ChangeStatuses, ChangeCodes
<1>9. /\ changes[o].status = "absent" /\ changes' = [changes EXCEPT ![o] = r]
      /\ manageCalls' = [manageCalls EXCEPT ![h] = x]
  BY Zenon, <1>3, <1>5 DEF beginGroupManagementOperation
<1>10. /\ changes' \in [Changes -> ChangeRow] /\ changes'[o] = r
       /\ \A p \in Changes : p # o => changes'[p] = changes[p]
  BY Zenon, <1>6, <1>9 DEF ManageInv, ManageShape
<1>11. /\ manageCalls'[h] = x /\ \A g \in ManageHandlers : g # h => manageCalls'[g] = manageCalls[g]
       /\ manageCalls' \in [ManageHandlers -> ManageCallRow]
  BY Zenon, <1>8, <1>9 DEF ManageInv, ManageShape
<1>12. gateway[o].at = "idle"
  BY Zenon, <1>9 DEF ManageInv, ChangeSound
<1>13. ASSUME NEW g \in ManageHandlers, manageCalls[g].at # "idle"
       PROVE  manageCalls[g].change # o /\ manageCalls[g].change \in Changes
  BY Zenon, <1>9, <1>13 DEF ManageInv, ManageShape, ManageCallSound
<1>14. ManageShape'
  BY Zenon, <1>1, <1>8, <1>10, <1>11 DEF ManageInv, ManageShape
<1>15. ViewsSound'
  <2>1. \A g \in ManageHandlers : Seen(manageCalls'[g].data)
    BY Zenon, <1>8, <1>11, FirstSeen DEF ManageInv, ViewsSound
  <2>2. Seen(managed'.group)
    BY Zenon, <1>1 DEF ManageInv, ViewsSound
  <2> QED BY Zenon, <1>1, <2>1, <2>2, ViewsCarry DEF ManageInv
<1>16. \A p \in Changes : ChangeSound(p)'
  BY <1>1, <1>4, <1>6, <1>10 DEF ManageInv, ChangeSound
<1>17. \A g \in ManageHandlers : ManageCallSound(g)'
  <2>1. ManageCallSound(h)'
    BY Zenon, <1>1, <1>6, <1>8, <1>10, <1>11, <1>12 DEF ManageCallSound
  <2>2. ASSUME NEW g \in ManageHandlers, g # h PROVE ManageCallSound(g)'
    <3>1. /\ ManageCallSound(g) /\ manageCalls'[g] = manageCalls[g]
          /\ manageCalls[g].at # "idle" => changes'[manageCalls[g].change] = changes[manageCalls[g].change]
      BY Zenon, <1>10, <1>11, <1>13, <2>2 DEF ManageInv
    <3> QED BY Zenon, <1>1, <3>1 DEF ManageCallSound
  <2> QED BY Zenon, <2>1, <2>2
<1>18. ManageCallsApart'
  BY <1>8, <1>11, <1>13 DEF ManageInv, ManageCallsApart
<1>19. SuccessesApart'
  BY <1>6, <1>10 DEF ManageInv, SuccessesApart
<1>20. ClaimsAreLive'
  BY Zenon, <1>1, <1>6, <1>9, <1>10 DEF ManageInv, ManageShape, ManagedRow, ClaimsAreLive
<1> QED BY Zenon, <1>14, <1>15, <1>16, <1>17, <1>18, <1>19, <1>20 DEF ManageInv

\* The dispatching handler asks the gateway.
LEMMA ManageAsks ==
    ASSUME ManageInv, UNCHANGED <<managed, changes, provider, outcome>>, NEW h \in ManageHandlers,
           manageCalls[h].at = "reserving", Asks(manageCalls[h].change),
           manageCalls' = [manageCalls EXCEPT ![h].at = "waiting"]
    PROVE  ManageInv'
<1>1. PICK o : o = manageCalls[h].change
  BY Zenon
<1>2. o \in Changes /\ changes[o].status # "absent" /\ gateway[o].at = "idle"
  BY Zenon, <1>1 DEF ManageInv, ManageShape, ManageCallSound
<1>3. gateway'[o].at = "asked" /\ \A p \in Changes : p # o => gateway'[p] = gateway[p]
  BY Zenon, <1>1, ChangesAreOperations DEF Asks
<1>4. \A p \in Changes : gateway[p].at = "acted" => gateway'[p].at = "acted"
  BY Zenon, <1>2, <1>3
<1>5. PICK x : x = [manageCalls[h] EXCEPT !.at = "waiting"]
  BY Zenon
<1>6. /\ x \in ManageCallRow /\ x.at = "waiting" /\ x.change = o /\ x.data = manageCalls[h].data
      /\ x.members = manageCalls[h].members
  BY <1>1, <1>5 DEF ManageInv, ManageShape, ManageCallRow
<1>7. /\ manageCalls'[h] = x /\ \A g \in ManageHandlers : g # h => manageCalls'[g] = manageCalls[g]
      /\ manageCalls' \in [ManageHandlers -> ManageCallRow]
  BY Zenon, <1>5, <1>6 DEF ManageInv, ManageShape
<1>8. ManageShape'
  BY Zenon, <1>2, <1>6, <1>7 DEF ManageInv, ManageShape
<1>9. ViewsSound'
  <2>1. ASSUME NEW g \in GroupView, Seen(g) PROVE Seen(g)'
    BY Zenon, <1>4, <2>1 DEF Seen, GroupView, Changes
  <2>2. Seen(provider)'
    <3>1. PICK g : g = provider
      BY Zenon
    <3>2. g \in GroupView /\ Seen(g) /\ g = provider'
      BY Zenon, <3>1 DEF ManageInv, ManageShape, ViewsSound
    <3> QED BY Zenon, <2>1, <3>2 DEF Seen
  <2>3. Seen(managed.group)'
    <3>1. PICK g : g = managed.group
      BY Zenon
    <3>2. g \in GroupView /\ Seen(g) /\ g = managed'.group
      BY Zenon, <3>1 DEF ManageInv, ManageShape, ManagedRow, ViewsSound
    <3> QED BY Zenon, <2>1, <3>2 DEF Seen
  <2>4. ASSUME NEW p \in Changes PROVE Seen(outcome[p])'
    <3>1. PICK g : g = outcome[p]
      BY Zenon
    <3>2. g \in GroupView /\ Seen(g) /\ g = outcome'[p]
      BY Zenon, <3>1 DEF ManageInv, ManageShape, ViewsSound
    <3> QED BY Zenon, <2>1, <3>2 DEF Seen
  <2>5. ASSUME NEW k \in ManageHandlers PROVE Seen(manageCalls[k].data)'
    <3>1. PICK g : g = manageCalls[k].data
      BY Zenon
    <3>2. g \in GroupView /\ Seen(g) /\ g = manageCalls'[k].data
      BY Zenon, <1>6, <1>7, <3>1 DEF ManageInv, ManageShape, ManageCallRow, ViewsSound
    <3> QED BY Zenon, <2>1, <3>2 DEF Seen
  <2> QED BY Zenon, <2>2, <2>3, <2>4, <2>5 DEF ViewsSound
<1>10. \A p \in Changes : ChangeSound(p)'
  BY <1>2, <1>3 DEF ManageInv, ChangeSound
<1>11. \A g \in ManageHandlers : ManageCallSound(g)'
  <2>1. ManageCallSound(h)'
    BY <1>1, <1>6, <1>7 DEF ManageInv, ManageCallSound
  <2>2. ASSUME NEW g \in ManageHandlers, g # h PROVE ManageCallSound(g)'
    <3>1. /\ ManageCallSound(g) /\ manageCalls'[g] = manageCalls[g]
          /\ manageCalls[g].at # "idle" => manageCalls[g].change \in Changes
      BY Zenon, <1>7, <2>2 DEF ManageInv, ManageShape
    <3>2. manageCalls[g].at \in {"claiming", "reserving"} => manageCalls[g].change # o
      BY Zenon, <1>1, <2>2 DEF ManageInv, ManageCallsApart
    <3>3. manageCalls[g].at # "idle" =>
            /\ manageCalls[g].change # o => gateway'[manageCalls[g].change] = gateway[manageCalls[g].change]
            /\ manageCalls[g].change = o => gateway'[manageCalls[g].change].at # "idle"
      BY Zenon, <1>3, <3>1
    <3> QED BY Zenon, <3>1, <3>2, <3>3 DEF ManageCallSound
  <2> QED BY Zenon, <2>1, <2>2
<1>12. ManageCallsApart' /\ SuccessesApart' /\ ClaimsAreLive'
  BY <1>6, <1>7 DEF ManageInv, ManageCallsApart, SuccessesApart, ClaimsAreLive
<1> QED BY Zenon, <1>8, <1>9, <1>10, <1>11, <1>12 DEF ManageInv

\* The operation ends without success: the claim is released if it is its own.
LEMMA ManageFails ==
    ASSUME ManageInv, NEW h \in ManageHandlers, completeFailure(h)
    PROVE  ManageInv'
<1>1. PICK o, s, c : o = manageCalls[h].change /\ s = manageCalls[h].status /\ c = manageCalls[h].code
  BY Zenon
<1>2. /\ o \in Changes /\ s \in {"failed", "human_action_required"} /\ c \in ChangeCodes
      /\ s = "failed" => gateway[o].at # "idle"
      /\ c = "uncertain" => s = "human_action_required"
  BY Zenon, <1>1 DEF completeFailure, ManageInv, ManageShape, ManageCallRow, ManageCallSound
<1>3. UNCHANGED <<gateway, provider, outcome>> /\ manageReturns(h) /\ releaseOwn(o)
  BY Zenon, <1>1 DEF completeFailure, authorityVars
<1>4. /\ managed' \in ManagedRow /\ managed'.group = managed.group
      /\ managed'.active # NoChange => managed'.active = managed.active /\ managed.active # o
  BY Zenon, <1>3 DEF releaseOwn, ManageInv, ManageShape, ManagedRow
<1>5. /\ manageCalls'[h] = IdleManageCall
      /\ \A g \in ManageHandlers : g # h => manageCalls'[g] = manageCalls[g]
      /\ manageCalls' \in [ManageHandlers -> ManageCallRow]
  BY Zenon, <1>3, IdleManage DEF ManageInv, ManageShape, manageReturns
<1>6. PICK r : r = IF changes[o].status = "pending"
                   THEN [changes[o] EXCEPT !.status = s, !.code = c, !.lapsed = FALSE]
                   ELSE changes[o]
  BY Zenon
<1>7. changes' = [changes EXCEPT ![o] = r]
  BY Zenon, <1>1, <1>6 DEF completeFailure
<1>8. /\ r \in ChangeRow /\ r.expected = changes[o].expected
      /\ \/ r = changes[o]
         \/ changes[o].status = "pending" /\ r.status = s /\ r.code = c
  BY Zenon, <1>2, <1>6 DEF ManageInv, ManageShape, ChangeRow, ChangeStatuses
<1>9. /\ changes' \in [Changes -> ChangeRow] /\ changes'[o] = r
      /\ \A p \in Changes : p # o => changes'[p] = changes[p]
  BY Zenon, <1>2, <1>7, <1>8 DEF ManageInv, ManageShape
<1>10. ManageShape'
  BY Zenon, <1>3, <1>4, <1>5, <1>9, IdleManage DEF ManageInv, ManageShape
<1>11. ViewsSound'
  <2>1. \A g \in ManageHandlers : Seen(manageCalls'[g].data)
    BY Zenon, <1>5, IdleManage DEF ManageInv, ViewsSound
  <2>2. Seen(managed'.group)
    BY Zenon, <1>3, <1>4 DEF ManageInv, ViewsSound
  <2> QED BY Zenon, <1>3, <1>4, <2>1, <2>2, ViewsCarry DEF ManageInv
<1>12. \A p \in Changes : ChangeSound(p)'
  <2>1. ChangeSound(o)'
    <3>1. ChangeSound(o)
      BY Zenon, <1>2 DEF ManageInv
    <3> QED BY Zenon, <1>2, <1>3, <1>4, <1>8, <1>9, <3>1 DEF ChangeSound
  <2>2. ASSUME NEW p \in Changes, p # o PROVE ChangeSound(p)'
    BY Zenon, <1>3, <1>4, <1>9, <2>2 DEF ManageInv, ChangeSound
  <2> QED BY Zenon, <2>1, <2>2
<1>13. \A g \in ManageHandlers : ManageCallSound(g)'
  <2>1. ManageCallSound(h)'
    BY Zenon, <1>5, IdleManage DEF ManageCallSound
  <2>2. ASSUME NEW g \in ManageHandlers, g # h PROVE ManageCallSound(g)'
    <3>1. /\ ManageCallSound(g) /\ manageCalls'[g] = manageCalls[g]
          /\ manageCalls[g].at # "idle" => manageCalls[g].change \in Changes
      BY Zenon, <1>5, <2>2 DEF ManageInv, ManageShape
    <3>2. manageCalls[g].at # "idle" =>
            /\ changes'[manageCalls[g].change].expected = changes[manageCalls[g].change].expected
            /\ changes[manageCalls[g].change].status # "absent" =>
                  changes'[manageCalls[g].change].status # "absent"
      BY Zenon, <1>2, <1>8, <1>9, <3>1
    <3> QED BY Zenon, <1>3, <1>4, <3>1, <3>2 DEF ManageCallSound
  <2> QED BY Zenon, <2>1, <2>2
<1>14. ManageCallsApart'
  BY Zenon, <1>5, IdleManage DEF ManageInv, ManageCallsApart
<1>15. SuccessesApart'
  BY <1>2, <1>8, <1>9 DEF ManageInv, SuccessesApart
<1>16. ClaimsAreLive'
  BY Zenon, <1>4, <1>9 DEF ManageInv, ManageShape, ManagedRow, ClaimsAreLive
<1> QED BY Zenon, <1>10, <1>11, <1>12, <1>13, <1>14, <1>15, <1>16 DEF ManageInv

\* The operation succeeds: the group's row and its own in one batch.
LEMMA ManageSucceeds ==
    ASSUME ManageInv, NEW h \in ManageHandlers, completeManaged(h)
    PROVE  ManageInv'
<1>1. PICK o, d, m : o = manageCalls[h].change /\ d = manageCalls[h].data /\ m = manageCalls[h].members
  BY Zenon
<1>2. /\ o \in Changes /\ d \in GroupView /\ Seen(d)
      /\ managed.group.revision = changes[o].expected /\ m = managed.group.members
  BY Zenon, <1>1 DEF completeManaged, FinishFence, ManageInv, ManageShape, ManageCallRow, ManageCallSound,
              ViewsSound
<1>3. /\ d.revision > managed.group.revision /\ m \subseteq d.members
      /\ o \in Renames => d.name = o
      /\ o \in Additions => o \in d.members
  <2>1. validateManagedGroup(h)
    BY Zenon DEF completeManaged
  <2>2. o \in Additions => o \notin Renames
    BY Zenon, ChangesApart
  <2> QED BY Zenon, <1>1, <1>2, <2>1, <2>2 DEF validateManagedGroup, Changes
<1>4. gateway[o].at = "acted"
  BY Zenon, <1>2, <1>3 DEF Seen, Changes
<1>5. /\ UNCHANGED <<gateway, provider, outcome>> /\ manageReturns(h)
      /\ managed' = [group |-> d, active |-> NoChange, lapsed |-> FALSE]
  BY Zenon, <1>1 DEF completeManaged, authorityVars
<1>6. /\ managed' \in ManagedRow /\ managed'.group = d /\ managed'.active = NoChange
      /\ d.revision \in Nat /\ managed.group.revision \in Nat
  BY Zenon, <1>2, <1>5 DEF ManagedRow, GroupView, ManageInv, ManageShape
<1>7. /\ manageCalls'[h] = IdleManageCall
      /\ \A g \in ManageHandlers : g # h => manageCalls'[g] = manageCalls[g]
      /\ manageCalls' \in [ManageHandlers -> ManageCallRow]
  BY Zenon, <1>5, IdleManage DEF ManageInv, ManageShape, manageReturns
<1>8. PICK r : r = IF changes[o].status \in {"pending", "human_action_required"}
                   THEN [changes[o] EXCEPT !.status = "succeeded", !.code = "none", !.lapsed = FALSE]
                   ELSE changes[o]
  BY Zenon
<1>9. changes' = [changes EXCEPT ![o] = r]
  BY Zenon, <1>1, <1>8 DEF completeManaged
<1>10. /\ r \in ChangeRow /\ r.expected = changes[o].expected
       /\ r = changes[o] \/ (r.status = "succeeded" /\ r.code = "none")
  BY ZenonT(60), <1>2, <1>8 DEF ManageInv, ManageShape, ChangeRow, ChangeStatuses, ChangeCodes
<1>11. /\ changes' \in [Changes -> ChangeRow] /\ changes'[o] = r
       /\ \A p \in Changes : p # o => changes'[p] = changes[p]
  BY Zenon, <1>2, <1>9, <1>10 DEF ManageInv, ManageShape
<1>12. \A p \in Changes : changes'[p].expected = changes[p].expected /\ changes[p].expected \in Nat
                          /\ changes[p].expected <= managed.group.revision
  BY Zenon, <1>10, <1>11 DEF ManageInv, ManageShape, ChangeRow, ChangeSound
<1>13. \A p \in Changes : changes[p].status = "succeeded" => changes[p].expected < managed.group.revision
  BY Zenon, <1>6, <1>12 DEF ManageInv, ChangeSound
<1>14. ManageShape'
  BY Zenon, <1>5, <1>6, <1>7, <1>11, IdleManage DEF ManageInv, ManageShape
<1>15. ViewsSound'
  <2>1. \A g \in ManageHandlers : Seen(manageCalls'[g].data)
    BY Zenon, <1>7, IdleManage DEF ManageInv, ViewsSound
  <2>2. Seen(managed'.group)
    BY Zenon, <1>2, <1>6 DEF ManageInv, ViewsSound
  <2> QED BY Zenon, <1>5, <2>1, <2>2, ViewsCarry DEF ManageInv
<1>16. \A p \in Changes : ChangeSound(p)'
  <2> SUFFICES ASSUME NEW p \in Changes PROVE ChangeSound(p)'
    BY Zenon
  <2>1. ChangeSound(p)
    BY Zenon DEF ManageInv
  <2>2. /\ changes'[p].expected < managed'.group.revision
        /\ changes'[p].expected <= managed'.group.revision
        /\ managed'.group.revision > changes'[p].expected
    BY <1>3, <1>6, <1>12
  <2>3. managed.group.members \subseteq managed'.group.members
    BY Zenon, <1>2, <1>3, <1>6
  <2>4. CASE p # o
    BY Zenon, <1>5, <1>11, <2>1, <2>2, <2>3, <2>4 DEF ChangeSound
  <2>5. CASE p = o
    BY <1>3, <1>4, <1>5, <1>6, <1>10, <1>11, <2>1, <2>2, <2>3, <2>5 DEF ChangeSound
  <2> QED BY Zenon, <2>4, <2>5
<1>17. \A g \in ManageHandlers : ManageCallSound(g)'
  <2>1. ManageCallSound(h)'
    BY Zenon, <1>7, IdleManage DEF ManageCallSound
  <2>2. ASSUME NEW g \in ManageHandlers, g # h PROVE ManageCallSound(g)'
    <3>1. /\ ManageCallSound(g) /\ manageCalls'[g] = manageCalls[g]
          /\ manageCalls[g].at # "idle" => manageCalls[g].change \in Changes
      BY Zenon, <1>7, <2>2 DEF ManageInv, ManageShape
    <3>2. manageCalls[g].at # "idle" =>
            /\ changes'[manageCalls[g].change].expected # managed'.group.revision
            /\ changes[manageCalls[g].change].status # "absent" =>
                  changes'[manageCalls[g].change].status # "absent"
      BY <1>3, <1>6, <1>10, <1>11, <1>12, <3>1
    <3>3. UNCHANGED gateway
      BY Zenon, <1>5
    <3>4. CASE manageCalls[g].at = "idle"
      BY Zenon, <3>1, <3>4 DEF ManageCallSound
    <3>5. CASE manageCalls[g].at # "idle"
      BY Zenon, <3>1, <3>2, <3>3, <3>5 DEF ManageCallSound
    <3> QED BY Zenon, <3>4, <3>5
  <2> QED BY Zenon, <2>1, <2>2
<1>18. ManageCallsApart'
  BY Zenon, <1>7, IdleManage DEF ManageInv, ManageCallsApart
<1>19. SuccessesApart'
  <2> SUFFICES ASSUME NEW p \in Changes, NEW q \in Changes, p # q,
                      changes'[p].status = "succeeded", changes'[q].status = "succeeded"
               PROVE  changes'[p].expected # changes'[q].expected
    BY Zenon DEF SuccessesApart
  <2>1. CASE p # o /\ q # o
    BY Zenon, <1>11, <2>1 DEF ManageInv, SuccessesApart
  <2>2. CASE p = o
    BY <1>2, <1>6, <1>10, <1>11, <1>12, <1>13, <2>2
  <2>3. CASE q = o
    BY <1>2, <1>6, <1>10, <1>11, <1>12, <1>13, <2>3
  <2> QED BY Zenon, <2>1, <2>2, <2>3
<1>20. ClaimsAreLive'
  BY Zenon, <1>6 DEF ClaimsAreLive
<1> QED BY Zenon, <1>14, <1>15, <1>16, <1>17, <1>18, <1>19, <1>20 DEF ManageInv

\* The steps of a handler that write no row of an operation and ask nothing.
LEMMA ManageProgress ==
    ASSUME AuthorityInv, ManageInv, NEW h \in ManageHandlers,
           \/ dispatchManagement(h)
           \/ manageAnswered(h)
           \/ reconcileManagementOperation(h)
           \/ completionRefused(h)
           \/ manageCallDies(h)
    PROVE  ManageInv'
<1>1. UNCHANGED <<gateway, changes, provider, outcome>> /\ manageCalls[h].at # "idle"
  BY Zenon DEF dispatchManagement, manageAnswered, reconcileManagementOperation, completionRefused,
         manageCallDies, authorityVars
<1>2. /\ manageCalls[h] \in ManageCallRow /\ manageCalls[h].change \in Changes
      /\ manageCalls[h].change \in PrivateOps
  BY Zenon, <1>1, ChangesAreOperations DEF ManageInv, ManageShape
<1>3. ASSUME UNCHANGED managed, NEW code \in ChangeCodes,
             manageEnds(h, "human_action_required", code)
      PROVE  ManageInv'
  BY Zenon, <1>1, <1>3, ManageEnds
<1>4. ASSUME dispatchManagement(h) PROVE ManageInv'
  <2>1. CASE /\ UNCHANGED managed
             /\ \E code \in {"revoked", "conflict"} : manageEnds(h, "human_action_required", code)
    BY Zenon, <1>3, <2>1 DEF ChangeCodes
  <2>2. CASE /\ takeClaim(manageCalls[h].change)
             /\ manageCalls' = [manageCalls EXCEPT ![h].at = "reserving"]
    <3>1. PICK x : x = [manageCalls[h] EXCEPT !.at = "reserving"]
      BY Zenon
    <3>2. /\ x \in ManageCallRow /\ x.at = "reserving" /\ x.change = manageCalls[h].change
          /\ x.members = manageCalls[h].members /\ x.data = manageCalls[h].data
      BY Zenon, <1>2, <3>1 DEF ManageCallRow
    <3>3. manageCalls' = [manageCalls EXCEPT ![h] = x] /\ manageCalls[h].at = "claiming"
      BY Zenon, <1>4, <2>2, <3>1 DEF dispatchManagement
    <3>4. Seen(x.data)
      BY Zenon, <3>2 DEF ManageInv, ViewsSound
    <3>5. /\ managed' \in ManagedRow /\ managed'.group = managed.group
          /\ managed'.active = manageCalls[h].change
      BY Zenon, <1>2, <2>2 DEF takeClaim, ManageInv, ManageShape, ManagedRow
    <3>6. changes[manageCalls[h].change].status \in {"pending", "human_action_required"}
      <4>1. /\ gateway[manageCalls[h].change].at = "idle"
            /\ changes[manageCalls[h].change].status # "absent"
            /\ ChangeSound(manageCalls[h].change)
            /\ changes[manageCalls[h].change].status \in ChangeStatuses
        BY Zenon, <1>2, <3>3 DEF ManageInv, ManageShape, ChangeRow, ManageCallSound
      <4> QED BY Zenon, <4>1 DEF ChangeSound, ChangeStatuses
    <3>7. ClaimsAreLive'
      BY Zenon, <1>1, <3>5, <3>6 DEF ClaimsAreLive
    <3> QED BY Zenon, <1>1, <3>2, <3>3, <3>4, <3>5, <3>7, ManageGoes
  <2> QED BY Zenon, <1>4, <2>1, <2>2 DEF dispatchManagement
<1>5. ASSUME UNCHANGED managed, NEW d \in GroupView, Seen(d),
             manageCalls' = [manageCalls EXCEPT ![h].at = "completing", ![h].data = d]
      PROVE  ManageInv'
  <2>1. PICK x : x = [manageCalls[h] EXCEPT !.at = "completing", !.data = d]
    BY Zenon
  <2>2. /\ x \in ManageCallRow /\ x.at = "completing" /\ x.change = manageCalls[h].change
        /\ x.members = manageCalls[h].members /\ x.data = d
    BY Zenon, <1>2, <2>1 DEF ManageCallRow
  <2>3. manageCalls' = [manageCalls EXCEPT ![h] = x]
    BY Zenon, <1>5, <2>1
  <2>4. managed' \in ManagedRow /\ managed'.group = managed.group /\ ClaimsAreLive'
    BY Zenon, <1>1, <1>5, ClaimStays
  <2>5. Seen(x.data)
    BY Zenon, <1>5, <2>2
  <2> QED BY Zenon, <1>1, <2>2, <2>3, <2>4, <2>5, ManageGoes
<1>6. ASSUME manageAnswered(h) PROVE ManageInv'
  <2>1. UNCHANGED managed
    BY Zenon, <1>6 DEF manageAnswered
  <2>2. CASE /\ manageCalls' = [manageCalls EXCEPT ![h].at = "completing",
                                                   ![h].data = outcome[manageCalls[h].change]]
    <3>1. PICK d : d = outcome[manageCalls[h].change]
      BY Zenon
    <3>2. d \in GroupView /\ Seen(d)
      BY Zenon, <1>2, <3>1 DEF ManageInv, ManageShape, ViewsSound
    <3>3. manageCalls' = [manageCalls EXCEPT ![h].at = "completing", ![h].data = d]
      BY Zenon, <2>2, <3>1
    <3> QED BY Zenon, <1>5, <2>1, <3>2, <3>3
  <2>3. CASE manageEnds(h, "human_action_required", "revoked")
    BY Zenon, <1>3, <2>1, <2>3 DEF ChangeCodes
  <2>4. CASE "rejected" \in Heard(manageCalls[h].change) /\ manageEnds(h, "failed", "rejected")
    <3>1. gateway[manageCalls[h].change].at # "idle"
      BY Zenon, <1>2, <2>4, HeardDone
    <3> QED BY Zenon, <1>1, <2>1, <2>4, <3>1, ManageEnds DEF ChangeCodes
  <2>5. CASE manageCalls' = [manageCalls EXCEPT ![h].at = "reconciling", ![h].owner = FALSE]
    <3>1. PICK x : x = [manageCalls[h] EXCEPT !.at = "reconciling", !.owner = FALSE]
      BY Zenon
    <3>2. /\ x \in ManageCallRow /\ x.at = "reconciling" /\ x.change = manageCalls[h].change
          /\ x.members = manageCalls[h].members /\ x.data = manageCalls[h].data
      BY Zenon, <1>2, <3>1 DEF ManageCallRow
    <3>3. manageCalls' = [manageCalls EXCEPT ![h] = x]
      BY Zenon, <2>5, <3>1
    <3>4. managed' \in ManagedRow /\ managed'.group = managed.group /\ ClaimsAreLive'
      BY Zenon, <1>1, <2>1, ClaimStays
    <3>5. Seen(x.data)
      BY Zenon, <3>2 DEF ManageInv, ViewsSound
    <3> QED BY Zenon, <1>1, <3>2, <3>3, <3>4, <3>5, ManageGoes
  <2> QED BY Zenon, <1>6, <2>2, <2>3, <2>4, <2>5 DEF manageAnswered
<1>7. ASSUME reconcileManagementOperation(h) PROVE ManageInv'
  <2>1. UNCHANGED managed
    BY Zenon, <1>7 DEF reconcileManagementOperation
  <2>2. CASE \E code \in {"revoked", "unresolved"} : manageEnds(h, "human_action_required", code)
    BY Zenon, <1>3, <2>1, <2>2 DEF ChangeCodes
  <2>3. CASE manageCalls' = [manageCalls EXCEPT ![h].at = "completing", ![h].data = provider]
    <3>1. PICK d : d = provider
      BY Zenon
    <3>2. d \in GroupView /\ Seen(d)
      BY Zenon, <3>1 DEF ManageInv, ManageShape, ViewsSound
    <3>3. manageCalls' = [manageCalls EXCEPT ![h].at = "completing", ![h].data = d]
      BY Zenon, <2>3, <3>1
    <3> QED BY Zenon, <1>5, <2>1, <3>2, <3>3
  <2> QED BY Zenon, <1>7, <2>2, <2>3 DEF reconcileManagementOperation
<1>8. ASSUME completionRefused(h) PROVE ManageInv'
  <2>1. UNCHANGED managed
    BY Zenon, <1>8 DEF completionRefused
  <2>2. \E code \in {"invalid", "unresolved", "revoked", "uncertain"} :
            manageEnds(h, "human_action_required", code)
    BY Zenon, <1>8 DEF completionRefused
  <2> QED BY Zenon, <1>3, <2>1, <2>2 DEF ChangeCodes
<1>9. ASSUME manageCallDies(h) PROVE ManageInv'
  BY Zenon, <1>1, <1>9, ManageReturns DEF manageCallDies
<1> QED BY Zenon, <1>4, <1>6, <1>7, <1>8, <1>9

\* A repeated request looks for evidence.
LEMMA ManageReplays ==
    ASSUME AuthorityInv, ManageInv, NEW h \in ManageHandlers, NEW o \in Changes,
           replayManagement(h, o)
    PROVE  ManageInv'
<1>1. UNCHANGED <<gateway, changes, provider, outcome>>
  BY Zenon DEF replayManagement, authorityVars
<1>2. PICK x : x = [IdleManageCall EXCEPT !.at = "reconciling", !.change = o,
                      !.generation = standing.generation, !.members = managed.group.members]
  BY Zenon
<1>3. standing.generation \in Nat /\ managed.group.members \subseteq Additions
  BY Zenon DEF AuthorityInv, AuthorityShape, ManageInv, ManageShape, ManagedRow, GroupView
<1>4. /\ x \in ManageCallRow /\ x.at = "reconciling" /\ x.change = o
      /\ x.members = managed.group.members /\ x.data = FirstGroup
  BY Zenon, <1>2, <1>3, FirstSeen DEF IdleManageCall, ManageCallRow, ChangeStatuses, ChangeCodes
<1>5. manageCalls' = [manageCalls EXCEPT ![h] = x]
  BY Zenon, <1>2 DEF replayManagement
<1>6. Seen(x.data)
  BY Zenon, <1>4, FirstSeen
<1>7. /\ changes[o].status \in {"pending", "human_action_required"}
      /\ managed' \in ManagedRow /\ managed'.group = managed.group /\ ClaimsAreLive'
  <2>1. CASE changes[o].code = "uncertain" /\ takeClaim(o)
    <3>1. changes[o].status = "human_action_required"
      BY Zenon, <2>1 DEF ManageInv, ChangeSound
    <3>2. managed' \in ManagedRow /\ managed'.group = managed.group /\ managed'.active = o
      BY Zenon, <2>1 DEF takeClaim, ManageInv, ManageShape, ManagedRow
    <3> QED BY Zenon, <1>1, <3>1, <3>2 DEF ClaimsAreLive
  <2>2. CASE changes[o].status = "pending" /\ UNCHANGED managed
    BY Zenon, <1>1, <2>2, ClaimStays
  <2> QED BY Zenon, <2>1, <2>2 DEF replayManagement
<1> QED BY Zenon, <1>1, <1>4, <1>5, <1>6, <1>7, ManageCallSteps

\* Every step of the service preserves what holds of it.
LEMMA ManageSteps ==
    ASSUME AuthorityInv, ManageInv, ManageNext
    PROVE  AuthorityInv' /\ ManageInv'
<1>1. CASE AuthorityNext /\ UNCHANGED manageVars
  BY Zenon, <1>1, AuthoritySteps, ManagementWaits DEF manageVars
<1>2. ASSUME claimLapses \/ \E o \in Changes : changeLapses(o)
      PROVE  AuthorityInv' /\ ManageInv'
  <2>1. UNCHANGED authorityVars
    BY Zenon, <1>2 DEF claimLapses, changeLapses
  <2> QED BY Zenon, <1>2, <2>1, AuthorityStays, ManageLapses
<1>3. ASSUME NEW o \in Changes, manageActs(o) PROVE AuthorityInv' /\ ManageInv'
  BY Zenon, <1>3, ManageActs
<1>4. ASSUME NEW h \in ManageHandlers, NEW o \in Changes,
             runManagement(h, o) \/ replayManagement(h, o)
      PROVE  AuthorityInv' /\ ManageInv'
  <2>1. UNCHANGED authorityVars
    BY Zenon, <1>4 DEF runManagement, replayManagement
  <2> QED BY Zenon, <1>4, <2>1, AuthorityStays, ManageBegins, ManageReplays
<1>5. ASSUME NEW h \in ManageHandlers,
             \/ dispatchManagement(h)
             \/ manageAnswered(h)
             \/ reconcileManagementOperation(h)
             \/ completionRefused(h)
             \/ manageCallDies(h)
      PROVE  AuthorityInv' /\ ManageInv'
  <2>1. UNCHANGED authorityVars
    BY Zenon, <1>5 DEF dispatchManagement, manageAnswered, reconcileManagementOperation, completionRefused,
                manageCallDies
  <2> QED BY Zenon, <1>5, <2>1, AuthorityStays, ManageProgress
<1>6. ASSUME NEW h \in ManageHandlers, completeManaged(h) \/ completeFailure(h)
      PROVE  AuthorityInv' /\ ManageInv'
  <2>1. UNCHANGED authorityVars
    BY Zenon, <1>6 DEF completeManaged, completeFailure
  <2> QED BY Zenon, <1>6, <2>1, AuthorityStays, ManageSucceeds, ManageFails
<1>7. ASSUME NEW h \in ManageHandlers, reserveChange(h) PROVE AuthorityInv' /\ ManageInv'
  <2>1. PICK o, w : /\ o = manageCalls[h].change
                    /\ w = [epoch |-> standing.epoch, generation |-> manageCalls[h].generation]
    BY Zenon
  <2>2. /\ manageCalls[h].at = "reserving" /\ o \in PrivateOps /\ gateway[o].at = "idle"
        /\ UNCHANGED <<managed, changes, provider, outcome, standing>>
    BY Zenon, <1>7, <2>1, ChangesAreOperations DEF reserveChange, ManageInv, ManageShape, ManageCallSound
  <2>3. w \in Authority
    BY Zenon, <2>1 DEF AuthorityInv, AuthorityShape, Authority, ManageInv, ManageShape, ManageCallRow
  <2>4. reservePrivateAuthority(o, w)
    BY Zenon, <1>7, <2>1 DEF reserveChange
  <2>5. CASE askGateway(o) /\ manageCalls' = [manageCalls EXCEPT ![h].at = "waiting"]
    <3>1. AuthorityInv' /\ (UNCHANGED gateway \/ Asks(o))
      BY Zenon, <2>2, <2>3, <2>4, <2>5, Reserving
    <3>2. Asks(o)
      BY <2>2, <2>5, <3>1 DEF askGateway, AuthorityInv, AuthorityShape
    <3> QED BY Zenon, <2>1, <2>2, <2>5, <3>1, <3>2, ManageAsks
  <2>6. CASE manageEnds(h, "human_action_required", "revoked") /\ UNCHANGED gateway
    <3>1. AuthorityInv'
      BY Zenon, <2>2, <2>3, <2>4, <2>6, Reserving
    <3>2. ManageInv'
      BY Zenon, <2>2, <2>6, ManageEnds DEF ChangeCodes
    <3> QED BY Zenon, <3>1, <3>2
  <2> QED BY Zenon, <1>7, <2>1, <2>5, <2>6 DEF reserveChange
<1> QED BY Zenon, <1>1, <1>2, <1>3, <1>4, <1>5, <1>6, <1>7 DEF ManageNext

\* The properties of the service follow.
LEMMA ManageFacts ==
    ASSUME ManageInv
    PROVE  SucceededChangesAreReal /\ AcknowledgedChangesLast /\ ClaimsAreLive
<1>1. SucceededChangesAreReal
  BY Zenon DEF ManageInv, ChangeSound, SucceededChangesAreReal
<1>2. managed.group.revision <= provider.revision
  BY Zenon DEF ManageInv, ViewsSound, Seen
<1>3. \A o \in Additions : changes[o].status = "succeeded" => o \in managed.group.members
  BY Zenon DEF ManageInv, ChangeSound, Changes
<1>4. AcknowledgedChangesLast
  BY Zenon, <1>2, <1>3 DEF ManageInv, SuccessesApart, AcknowledgedChangesLast
<1> QED BY Zenon, <1>1, <1>4 DEF ManageInv

-----------------------------------------------------------------------------
(* The four services *)

\* A service that does not run is as it was.
PrivateInv ==
    /\ AuthorityInv
    /\ part \in Parts
    /\ IF part = "chats" THEN ChatInv ELSE ChatInit
    /\ IF part = "receipts" THEN ReceiptInv ELSE ReceiptInit
    /\ IF part = "creation" THEN CreationInv ELSE CreationInit
    /\ IF part = "management" THEN ManageInv ELSE ManageInit

\* Every service starts sound.
LEMMA ServicesStart ==
    ASSUME AuthorityInit
    PROVE  /\ AuthorityInv
           /\ ChatInit => ChatInv
           /\ ReceiptInit => ReceiptInv
           /\ CreationInit => CreationInv
           /\ ManageInit => ManageInv
<1>1. \A o \in PrivateOps : gateway[o].at = "idle"
  BY Zenon DEF AuthorityInit, NoRequest
<1>2. AuthorityInv
  BY <1>1 DEF AuthorityInit, AuthorityInv, AuthorityShape, ReservedFirst, ClaimsRunUnderTheirGrant,
              Authority, NoIntent, NoRequest, GatewayStates
<1>3. ASSUME ChatInit PROVE ChatInv
  <2>1. /\ \A c \in Contacts : chats[c] = NoChat /\ gateway[c].at = "idle"
        /\ \A h \in ChatHandlers : chatCalls[h] = IdleChatCall
    BY Zenon, <1>1, <1>3, ContactsAreOperations DEF ChatInit
  <2>2. ChatShape
    BY Zenon, <1>3, <2>1, IdleChat DEF ChatInit, ChatShape, NoChat, ChatStatuses, ChatFailures
  <2>3. /\ \A c \in Contacts : ChatRowSound(c)
        /\ \A h \in ChatHandlers : ChatCallSound(h)
        /\ ChatCallsApart
    BY <2>1, IdleChat DEF ChatRowSound, ChatCallSound, ChatCallsApart, NoChat
  <2>4. ReportedChatsAreReal
    BY <2>1 DEF ReportedChatsAreReal, Opened, NoChat
  <2> QED BY Zenon, <2>2, <2>3, <2>4 DEF ChatInv
<1>4. ASSUME ReceiptInit PROVE ReceiptInv
  <2>1. /\ \A r \in ReceiptRequests : receipts[r] = "absent" /\ gateway[r].at = "idle"
        /\ \A h \in ReceiptHandlers : receiptCalls[h] = IdleReceiptCall
    BY Zenon, <1>1, <1>4, ReceiptsAreOperations DEF ReceiptInit
  <2>2. ReceiptShape
    BY Zenon, <1>4, <2>1, IdleReceipt DEF ReceiptInit, ReceiptShape, ReceiptStatuses, ReceiptRefusals
  <2> QED BY Zenon, <2>1, <2>2, IdleReceipt
          DEF ReceiptInv, ReceiptRowSound, ReceiptCallSound, ReceiptCallsApart, SendSteps
<1>5. ASSUME CreationInit PROVE CreationInv
  <2>1. /\ \A k \in GroupKeys : creations[k] = NoCreation /\ gateway[k].at = "idle"
        /\ \A h \in GroupHandlers : groupCalls[h] = IdleGroupCall
        /\ accessGiven = {}
    BY Zenon, <1>1, <1>5, GroupsAreOperations DEF CreationInit
  <2>2. NoCreation \in CreationRow
    BY Zenon DEF NoCreation, CreationRow, CreationStatuses, CreationCodes
  <2>3. CreationShape
    BY Zenon, <1>5, <2>1, <2>2, IdleGroup DEF CreationInit, CreationShape
  <2> QED BY <2>1, <2>3, IdleGroup
          DEF CreationInv, CreationRowSound, GroupCallSound, GroupCallsApart, NoCreation
<1>6. ASSUME ManageInit PROVE ManageInv
  <2>1. /\ \A o \in Changes : /\ changes[o] = NoManagement /\ gateway[o].at = "idle"
                              /\ outcome[o] = FirstGroup
        /\ \A h \in ManageHandlers : manageCalls[h] = IdleManageCall
        /\ managed.group = FirstGroup /\ managed.active = NoChange /\ provider = FirstGroup
    BY Zenon, <1>1, <1>6, ChangesAreOperations DEF ManageInit
  <2>2. FirstGroup \in GroupView /\ NoManagement \in ChangeRow
    BY Zenon DEF FirstGroup, GroupView, NoManagement, ChangeRow, ChangeStatuses, ChangeCodes
  <2>3. /\ IdleManageCall \in ManageCallRow /\ IdleManageCall.at = "idle"
        /\ IdleManageCall.data = FirstGroup
    BY Zenon, <2>2 DEF IdleManageCall, ManageCallRow, ChangeStatuses, ChangeCodes
  <2>4. ManageShape
    BY Zenon, <1>6, <2>1, <2>2, <2>3 DEF ManageInit, ManageShape, ManagedRow
  <2>5. Seen(FirstGroup)
    BY <2>1, ChangesApart DEF Seen, FirstGroup, Changes
  <2>6. ViewsSound
    BY Zenon, <2>1, <2>3, <2>5 DEF ViewsSound, Seen
  <2>7. \A o \in Changes : ChangeSound(o)
    <3>1. /\ NoManagement.status = "absent" /\ NoManagement.code = "none"
          /\ NoManagement.expected = 0 /\ FirstGroup.revision = 0
      BY Zenon DEF NoManagement, FirstGroup
    <3>2. \A o \in Changes : /\ changes[o].status = "absent" /\ changes[o].code = "none"
                             /\ changes[o].expected <= managed.group.revision
                             /\ gateway[o].at = "idle"
      BY <2>1, <3>1
    <3> QED BY Zenon, <3>2 DEF ChangeSound
  <2>8. \A h \in ManageHandlers : ManageCallSound(h)
    BY Zenon, <2>1, <2>3 DEF ManageCallSound
  <2>9. ManageCallsApart /\ SuccessesApart /\ ClaimsAreLive
    BY <2>1, <2>3 DEF ManageCallsApart, SuccessesApart, ClaimsAreLive, NoManagement
  <2> QED BY Zenon, <2>4, <2>6, <2>7, <2>8, <2>9 DEF ManageInv
<1> QED BY Zenon, <1>2, <1>3, <1>4, <1>5, <1>6

\* A service that does not run has nothing to report.
LEMMA ServicesAtRest ==
    /\ ChatInit => OneDispatchPerContact /\ ReportedChatsAreReal
    /\ ReceiptInit => ReceiptsAreSentOnce /\ RefusedReceiptsStayUnsent
    /\ CreationInit => NoBlindCreateRetry /\ CreatedGroupsAreReal
    /\ ManageInit => SucceededChangesAreReal /\ AcknowledgedChangesLast /\ ClaimsAreLive
<1>1. ASSUME ChatInit PROVE OneDispatchPerContact /\ ReportedChatsAreReal
  <2>1. \A c \in Contacts : Dispatching(c) = {} /\ chats[c] = NoChat
    BY Zenon, <1>1, IdleChat DEF ChatInit, Dispatching
  <2>2. OneDispatchPerContact
    BY Zenon, <2>1 DEF OneDispatchPerContact
  <2>3. \A c \in Contacts : chats[c].status = "absent" /\ chats[c].failure = "none"
    BY <2>1 DEF NoChat
  <2>4. ReportedChatsAreReal
    BY Zenon, <2>3 DEF ReportedChatsAreReal, Opened
  <2> QED BY Zenon, <2>2, <2>4
<1>2. ASSUME ReceiptInit PROVE ReceiptsAreSentOnce /\ RefusedReceiptsStayUnsent
  <2>1. \A r \in ReceiptRequests : Sending(r) = {} /\ receipts[r] = "absent"
    BY Zenon, <1>2, IdleReceipt DEF ReceiptInit, Sending
  <2> QED BY Zenon, <2>1 DEF ReceiptsAreSentOnce, RefusedReceiptsStayUnsent
<1>3. ASSUME CreationInit PROVE NoBlindCreateRetry /\ CreatedGroupsAreReal
  <2>1. \A k \in GroupKeys : Creating(k) = {} /\ creations[k] = NoCreation /\ k \notin accessGiven
    BY Zenon, <1>3, IdleGroup DEF CreationInit, Creating
  <2> QED BY <2>1 DEF NoBlindCreateRetry, CreatedGroupsAreReal, NoCreation
<1>4. ASSUME ManageInit PROVE SucceededChangesAreReal /\ AcknowledgedChangesLast /\ ClaimsAreLive
  <2>1. /\ \A o \in Changes : changes[o].status = "absent"
        /\ managed.group.revision = 0 /\ provider.revision = 0 /\ managed.active = NoChange
    BY Zenon, <1>4 DEF ManageInit, NoManagement, FirstGroup
  <2> QED BY <2>1 DEF SucceededChangesAreReal, AcknowledgedChangesLast, ClaimsAreLive, Changes
<1> QED BY Zenon, <1>1, <1>2, <1>3, <1>4

\* What holds of the services in every reachable state: see the invariants of
\* the authority and of each service above.
THEOREM PrivateInvariance == Spec => []PrivateInv
<1>1. Init => PrivateInv
  BY Zenon, ServicesStart DEF Init, PrivateInv
<1>2. PrivateInv /\ [Next]_vars => PrivateInv'
  <2> SUFFICES ASSUME PrivateInv, [Next]_vars PROVE PrivateInv'
    BY Zenon
  <2>1. CASE UNCHANGED vars
    <3>1. AuthorityInv'
      BY Zenon, <2>1, AuthorityStays DEF PrivateInv, vars
    <3>2. Settles
      BY Zenon, <2>1, AuthorityStays DEF PrivateInv, vars
    <3>3. /\ ChatInv => ChatInv'
          /\ ReceiptInv => ReceiptInv'
          /\ CreationInv => CreationInv'
          /\ ManageInv => ManageInv'
      BY Zenon, <2>1, <3>2, ChatsWait, ReceiptsWait, CreationsWait, ManagementWaits
         DEF vars, chatVars, receiptVars, creationVars, manageVars
    <3>4. /\ ChatInit => ChatInit'
          /\ ReceiptInit => ReceiptInit'
          /\ CreationInit => CreationInit'
          /\ ManageInit => ManageInit'
      BY Zenon, <2>1 DEF vars, chatVars, receiptVars, creationVars, manageVars,
                  ChatInit, ReceiptInit, CreationInit, ManageInit
    <3>5. part' = part
      BY Zenon, <2>1 DEF vars
    <3> QED BY Zenon, <3>1, <3>3, <3>4, <3>5 DEF PrivateInv
  <2>2. CASE Next
    <3>1. part' = part
      BY Zenon, <2>2 DEF Next
    <3>2. /\ UNCHANGED chatVars => (ChatInit => ChatInit')
          /\ UNCHANGED receiptVars => (ReceiptInit => ReceiptInit')
          /\ UNCHANGED creationVars => (CreationInit => CreationInit')
          /\ UNCHANGED manageVars => (ManageInit => ManageInit')
      BY Zenon DEF chatVars, receiptVars, creationVars, manageVars,
             ChatInit, ReceiptInit, CreationInit, ManageInit
    <3>3. CASE part = "chats" /\ ChatNext /\ UNCHANGED <<receiptVars, creationVars, manageVars>>
      BY Zenon, <3>1, <3>2, <3>3, ChatSteps DEF PrivateInv
    <3>4. CASE part = "receipts" /\ ReceiptNext /\ UNCHANGED <<chatVars, creationVars, manageVars>>
      BY Zenon, <3>1, <3>2, <3>4, ReceiptSteps DEF PrivateInv
    <3>5. CASE part = "creation" /\ CreationNext /\ UNCHANGED <<chatVars, receiptVars, manageVars>>
      BY Zenon, <3>1, <3>2, <3>5, CreationSteps DEF PrivateInv
    <3>6. CASE part = "management" /\ ManageNext /\ UNCHANGED <<chatVars, receiptVars, creationVars>>
      BY Zenon, <3>1, <3>2, <3>6, ManageSteps DEF PrivateInv
    <3> QED BY Zenon, <2>2, <3>3, <3>4, <3>5, <3>6 DEF Next
  <2> QED BY Zenon, <2>1, <2>2
<1> QED BY <1>1, <1>2, PTL DEF Spec

\* The provider is touched only under the capability and the session that the
\* request was admitted with (claimPrivateAuthority).
THEOREM ClaimsAlwaysRunUnderTheirGrant == Spec => []ClaimsRunUnderTheirGrant
<1>1. PrivateInv => ClaimsRunUnderTheirGrant
  BY Zenon DEF PrivateInv, AuthorityInv
<1> QED BY <1>1, PrivateInvariance, PTL

\* Nothing is asked of the provider twice, whatever is repeated, lapses or is
\* lost (beginDirectChatOperation, createOrReadReceiptOperation,
\* beginGroupCreationOperation).
THEOREM AlwaysAskedAtMostOnce == Spec => []AskedAtMostOnce
<1>1. PrivateInv => AskedAtMostOnce
  BY Zenon, ChatFacts, ReceiptFacts, CreationFacts, ServicesAtRest DEF PrivateInv, AskedAtMostOnce
<1> QED BY <1>1, PrivateInvariance, PTL

\* A row reports what the provider did, or did not do (the statements that
\* finish the operations of the four services).
THEOREM ReportsAreAlwaysTrue == Spec => []ReportsAreTrue
<1>1. PrivateInv => ReportsAreTrue
  BY Zenon, ChatFacts, ReceiptFacts, CreationFacts, ManageFacts, ServicesAtRest DEF PrivateInv, ReportsAreTrue
<1> QED BY <1>1, PrivateInvariance, PTL

\* The changes of a group converge on one revision, and its claim never
\* outlives the operation that holds it (completeManaged, finishManaged).
THEOREM ChangesAlwaysConverge == Spec => []ChangesConverge
<1>1. PrivateInv => ChangesConverge
  BY Zenon, ManageFacts, ServicesAtRest DEF PrivateInv, ChangesConverge
<1> QED BY <1>1, PrivateInvariance, PTL
=============================================================================
