------------------------------ MODULE MCPrivate ------------------------------
(* The four services over PrivateAuthority, each on an authority of its own:  *)
(* `part` says which one runs.                                                *)
EXTENDS DirectChats, Receipts, GroupCreation, GroupManagement, TLC

VARIABLE part

Parts == {"chats", "receipts", "creation", "management"}

vars == <<authorityVars, chatVars, receiptVars, creationVars, manageVars, part>>

Init ==
    /\ AuthorityInit
    /\ ChatInit
    /\ ReceiptInit
    /\ CreationInit
    /\ ManageInit
    /\ part \in Parts

Next ==
    /\ UNCHANGED part
    /\ \/ part = "chats" /\ ChatNext /\ UNCHANGED <<receiptVars, creationVars, manageVars>>
       \/ part = "receipts" /\ ReceiptNext /\ UNCHANGED <<chatVars, creationVars, manageVars>>
       \/ part = "creation" /\ CreationNext /\ UNCHANGED <<chatVars, receiptVars, manageVars>>
       \/ part = "management" /\ ManageNext /\ UNCHANGED <<chatVars, receiptVars, creationVars>>

Spec == Init /\ [][Next]_vars

\* Nothing is asked of the provider twice: one request opens a chat, sends a
\* receipt or creates a group, whatever is repeated, lapses or is lost
\* (beginDirectChatOperation, createOrReadReceiptOperation,
\* beginGroupCreationOperation).
AskedAtMostOnce == OneDispatchPerContact /\ ReceiptsAreSentOnce /\ NoBlindCreateRetry

\* What a row reports is what the provider did, or did not do (the finish
\* statements of the four services).
ReportsAreTrue ==
    /\ ReportedChatsAreReal
    /\ RefusedReceiptsStayUnsent
    /\ CreatedGroupsAreReal
    /\ SucceededChangesAreReal

\* Changes of a group converge on one revision, and its claim never outlives
\* the operation that holds it (completeManaged, finishManaged).
ChangesConverge == AcknowledgedChangesLast /\ ClaimsAreLive

\* The same two handlers serve every service
Symmetry == Permutations(ChatHandlers) \cup Permutations(ChatKeys)

\* Bound: how many revocations and relinkings one behaviour has, together
StandingBound == standing.epoch + standing.generation <= IF part = "management" THEN 3 ELSE 4
=============================================================================
