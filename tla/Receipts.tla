------------------------------- MODULE Receipts -------------------------------
(***************************************************************************)
(* Explicit read receipts (worker/receipts).                               *)
(*                                                                         *)
(* The id of an operation is a digest of the request, so a repeated        *)
(* request finds the row of the first.  The request that inserted the row  *)
(* claims it (requested -> dispatching), reserves its authority, looks at  *)
(* the route once more and asks the gateway.  A request for a message that *)
(* is gone, or for an account whose receipt capability is gone, records    *)
(* the operation as rejected instead, whoever inserted it.                 *)
(*                                                                         *)
(* Left out: the evidence lists and stages beside the status, the reads.   *)
(***************************************************************************)
EXTENDS PrivateAuthority

CONSTANTS ReceiptRequests, ReceiptHandlers, NoReceipt

ASSUME ReceiptsAreOperations == ReceiptRequests \subseteq PrivateOps

VARIABLES
    receipts,       \* receipt_operations: the status of the row
    refusal,        \* its failure_code
    readable,       \* the message still has a Matrix event
    capable,        \* the account has fresh receipt.read evidence
    receiptCalls    \* requestReadReceipt, suspended at an await

receiptVars == <<receipts, refusal, readable, capable, receiptCalls>>

ReceiptStatuses == {"absent", "requested", "dispatching", "accepted", "observed",
                    "unknown", "rejected"}
ReceiptRefusals == {"none", "stale_message", "missing_capability", "authorization_revoked",
                    "connection_unavailable", "provider_rejected", "provider_unavailable"}
IdleReceiptCall == [at |-> "idle", op |-> NoReceipt, wanted |-> NoIntent, code |-> "none"]

ReceiptTypeOK ==
    /\ receipts \in [ReceiptRequests -> ReceiptStatuses]
    /\ refusal \in [ReceiptRequests -> ReceiptRefusals]
    /\ readable \in [ReceiptRequests -> BOOLEAN]
    /\ capable \in BOOLEAN
    /\ receiptCalls \in [ReceiptHandlers ->
         [at : {"idle", "resolved", "rejecting", "claiming", "reserving", "routing", "waiting"},
          op : ReceiptRequests \cup {NoReceipt}, wanted : Authorities, code : ReceiptRefusals]]

ReceiptInit ==
    /\ receipts = [r \in ReceiptRequests |-> "absent"]
    /\ refusal = [r \in ReceiptRequests |-> "none"]
    /\ readable = [r \in ReceiptRequests |-> TRUE]
    /\ capable = TRUE
    /\ receiptCalls = [h \in ReceiptHandlers |-> IdleReceiptCall]

receiptReturns(h) == receiptCalls' = [receiptCalls EXCEPT ![h] = IdleReceiptCall]
receiptGoes(h, at) == receiptCalls' = [receiptCalls EXCEPT ![h].at = at]

\* UPDATE .. WHERE status IN ('requested', 'dispatching')
updateReceiptOperation(r, status, code) ==
    IF receipts[r] \in {"requested", "dispatching"}
    THEN /\ receipts' = [receipts EXCEPT ![r] = status]
         /\ refusal' = [refusal EXCEPT ![r] = code]
    ELSE UNCHANGED <<receipts, refusal>>

\* INSERT OR IGNORE
createOrReadReceiptOperation(r) ==
    /\ receipts' = [receipts EXCEPT ![r] = IF @ = "absent" THEN "requested" ELSE @]
    /\ UNCHANGED refusal

\* The projection resolves the message; the rest of the handler works with
\* what it said then
requestReadReceipt(h, r) ==
    /\ receiptCalls[h].at = "idle"
    /\ receiptCalls' = [receiptCalls EXCEPT ![h] =
         [IdleReceiptCall EXCEPT !.op = r, !.at = "resolved",
            !.code = IF readable[r] THEN "none" ELSE "stale_message"]]
    /\ UNCHANGED <<receipts, refusal, readable, capable>>
    /\ UNCHANGED authorityVars

\* readRoute and routeFor
ReceiptRoute == standing.usable

\* rejectOperation, first half: the row is inserted unless it exists.  A row
\* that is settled is returned; a dispatching row reads as requested
rejectOperation(h) ==
    LET r == receiptCalls[h].op IN
    /\ receiptCalls[h].at = "resolved"
    /\ receiptCalls[h].code = "none" => ReceiptRoute /\ ~capable
    /\ createOrReadReceiptOperation(r)
    /\ IF receipts[r] \in {"absent", "requested", "dispatching"}
       THEN receiptCalls' = [receiptCalls EXCEPT ![h].at = "rejecting",
              ![h].code = IF @ = "none" THEN "missing_capability" ELSE @]
       ELSE receiptReturns(h)
    /\ UNCHANGED <<readable, capable>>
    /\ UNCHANGED authorityVars

\* rejectOperation, second half
recordRejection(h) ==
    /\ receiptCalls[h].at = "rejecting"
    /\ updateReceiptOperation(receiptCalls[h].op, "rejected", receiptCalls[h].code)
    /\ receiptReturns(h)
    /\ UNCHANGED <<readable, capable>>
    /\ UNCHANGED authorityVars

\* No route or no capability: the call is answered and nothing is recorded
receiptDenied(h) ==
    /\ receiptCalls[h].at = "resolved"
    /\ receiptCalls[h].code = "none"
    /\ ~ReceiptRoute \/ (capable /\ ~standing.granted)
    /\ receiptReturns(h)
    /\ UNCHANGED <<receipts, refusal, readable, capable>>
    /\ UNCHANGED authorityVars

inserted(r) == receipts[r] = "absent"

createReceipt(h) ==
    LET r == receiptCalls[h].op IN
    /\ receiptCalls[h].at = "resolved"
    /\ receiptCalls[h].code = "none"
    /\ ReceiptRoute /\ capable /\ standing.granted
    /\ createOrReadReceiptOperation(r)
    /\ IF inserted(r)
       THEN receiptCalls' = [receiptCalls EXCEPT ![h].at = "claiming", ![h].wanted = Standing]
       ELSE receiptReturns(h)
    /\ UNCHANGED <<readable, capable>>
    /\ UNCHANGED authorityVars

\* UPDATE .. SET status = 'dispatching' WHERE status = 'requested'
claimReceiptOperation(h) ==
    LET r == receiptCalls[h].op IN
    /\ receiptCalls[h].at = "claiming"
    /\ IF receipts[r] = "requested"
       THEN /\ receipts' = [receipts EXCEPT ![r] = "dispatching"]
            /\ receiptGoes(h, "reserving")
       ELSE /\ receiptReturns(h)
            /\ UNCHANGED receipts
    /\ UNCHANGED <<refusal, readable, capable>>
    /\ UNCHANGED authorityVars

reserveReceipt(h) ==
    LET r == receiptCalls[h].op IN
    /\ receiptCalls[h].at = "reserving"
    /\ reservePrivateAuthority(r, receiptCalls[h].wanted)
    /\ IF intents'[r] = receiptCalls[h].wanted
       THEN /\ receiptGoes(h, "routing")
            /\ UNCHANGED <<receipts, refusal>>
       ELSE /\ updateReceiptOperation(r, "rejected", "authorization_revoked")
            /\ receiptReturns(h)
    /\ UNCHANGED <<readable, capable, standing, gateway>>

\* The route is read a second time; then the gateway is asked
dispatchReceipt(h) ==
    LET r == receiptCalls[h].op IN
    /\ receiptCalls[h].at = "routing"
    /\ IF ReceiptRoute /\ capable
       THEN /\ askGateway(r)
            /\ receiptGoes(h, "waiting")
            /\ UNCHANGED <<receipts, refusal>>
       ELSE /\ updateReceiptOperation(r, "rejected",
                 IF ReceiptRoute THEN "missing_capability" ELSE "connection_unavailable")
            /\ receiptReturns(h)
            /\ UNCHANGED gateway
    /\ UNCHANGED <<readable, capable, standing, intents>>

\* adapterFailure, or what the gateway reported.  A body the worker cannot
\* read is a protocol error: its outcome is unknown, like a timeout's
AdapterResult(answer) ==
    CASE answer = "done" -> {[status |-> "accepted", code |-> "none"],
                             [status |-> "observed", code |-> "none"],
                             [status |-> "unknown", code |-> "provider_unavailable"]}
      [] answer = "revoked" -> {[status |-> "rejected", code |-> "authorization_revoked"]}
      [] OTHER -> {[status |-> "unknown", code |-> "provider_unavailable"]}

Rejection == {[status |-> "rejected", code |-> "provider_rejected"]}

receiptAnswered(h) ==
    LET r == receiptCalls[h].op IN
    /\ receiptCalls[h].at = "waiting"
    /\ \E answer \in Heard(r) :
         \E result \in AdapterResult(answer)
                       \cup (IF gateway[r].at = "gaveUp" THEN Rejection ELSE {}) :
             updateReceiptOperation(r, result.status, result.code)
    /\ receiptReturns(h)
    /\ UNCHANGED <<readable, capable>>
    /\ UNCHANGED authorityVars

receiptCallDies(h) ==
    /\ receiptCalls[h].at # "idle"
    /\ receiptReturns(h)
    /\ UNCHANGED <<receipts, refusal, readable, capable>>
    /\ UNCHANGED authorityVars

\* The projection deletes or redacts the message
messageDeleted(r) ==
    /\ readable[r]
    /\ readable' = [readable EXCEPT ![r] = FALSE]
    /\ UNCHANGED <<receipts, refusal, capable, receiptCalls>>
    /\ UNCHANGED authorityVars

\* The provider's capability record goes stale
capabilityLost ==
    /\ capable
    /\ capable' = FALSE
    /\ UNCHANGED <<receipts, refusal, readable, receiptCalls>>
    /\ UNCHANGED authorityVars

ReceiptNext ==
    \/ AuthorityNext /\ UNCHANGED receiptVars
    \/ \E r \in ReceiptRequests : gatewayActs(r) /\ UNCHANGED receiptVars
    \/ \E r \in ReceiptRequests : messageDeleted(r)
    \/ capabilityLost
    \/ \E h \in ReceiptHandlers :
         \/ \E r \in ReceiptRequests : requestReadReceipt(h, r)
         \/ rejectOperation(h)
         \/ recordRejection(h)
         \/ receiptDenied(h)
         \/ createReceipt(h)
         \/ claimReceiptOperation(h)
         \/ reserveReceipt(h)
         \/ dispatchReceipt(h)
         \/ receiptAnswered(h)
         \/ receiptCallDies(h)

-----------------------------------------------------------------------------

Sending(r) == {h \in ReceiptHandlers : receiptCalls[h].op = r
                 /\ receiptCalls[h].at \in {"claiming", "reserving", "routing", "waiting"}}

\* A receipt is asked of the gateway by one request, however often it is
\* repeated (createOrReadReceiptOperation), and reported as accepted or
\* observed only if the provider was reached (T18: "explicit results without
\* false success").
ReceiptsAreSentOnce ==
    \A r \in ReceiptRequests :
        /\ \A g, h \in Sending(r) : g = h
        /\ receipts[r] \in {"accepted", "observed"} => gateway[r].at = "acted"

\* A receipt that was refused before the gateway was asked stays unsent, unless
\* a repeated request refused it while the first was already on its way: such a
\* request reads the dispatching row as requested (mapOperation) and may
\* overwrite it with stale_message or missing_capability.
RefusedReceiptsStayUnsent ==
    \A r \in ReceiptRequests :
        receipts[r] = "rejected" =>
            \/ gateway[r].at \in {"idle", "refused", "gaveUp"}
            \/ refusal[r] \in {"stale_message", "missing_capability"}

\* What RefusedReceiptsStayUnsent excepts: a rejected receipt may have been sent
RejectedReceiptsWereNotSent ==
    \A r \in ReceiptRequests : receipts[r] = "rejected" => gateway[r].at # "acted"
=============================================================================
