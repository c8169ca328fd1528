---------------------------- MODULE OutboundRows ----------------------------
(***************************************************************************)
(* One row of the outbound ledger of a tenant's Durable Object: the        *)
(* `outbound_dispatches` row of a command joined with the status of its    *)
(* `commands` row.  Every operator maps a row to the row that one method   *)
(* of TenantProjectionDO leaves behind; OutboundLedger turns them into     *)
(* actions.  Times are clock ticks starting at 1; NoTime is SQL NULL.      *)
(***************************************************************************)
EXTENDS Naturals

CONSTANTS
    Commands,       \* command ids; a command id is a digest of its request
    NoCommand,      \* "no parent": the row is not a resend
    EvidenceIds,    \* evidence ids an adapter may attach to a report
    ConfirmTicks,   \* the four hours after which a saved command needs a human
    LeaseTicks      \* the thirty seconds of a dispatch lease

ASSUME NoCommandAssumption == NoCommand \notin Commands
ASSUME TicksAssumption == ConfirmTicks \in Nat \ {0} /\ LeaseTicks \in Nat \ {0}

NoTime == 0

DispatchStatus == {"absent", "pending", "waiting_for_connection",
                   "confirmation_required", "delivery_uncertain",
                   "wakeup_failed", "dispatching", "dispatched", "cancelled"}
\* "cleared" is a commands row that a rebuild deleted and has not restored yet
CommandStatus == {"cleared", "accepted", "waiting_for_connection",
                  "confirmation_required", "delivery_uncertain",
                  "submitted_to_matrix", "matrix_confirmed", "bridged",
                  "delivered", "cancelled", "failed"}
Stage == {"unknown", "confirmed", "accepted", "delivered"}
Source == {"matrix", "bridge", "provider", "refresh"}
EvidenceStatus == {"confirmed", "accepted", "delivered", "uncertain"}
Decision == {"none", "confirm", "cancel"}
HumanAction == {"none", "cancel", "continue", "resend"}

Evidence == [source: Source, status: EvidenceStatus, id: EvidenceIds]

Row == [st: DispatchStatus, cmd: CommandStatus, created: Nat, due: Nat,
        decision: Decision, lease: Nat, paused: BOOLEAN, action: HumanAction,
        matrix: Stage, bridge: Stage, provider: Stage,
        resendOf: Commands \cup {NoCommand}, seen: SUBSET (Source \X EvidenceIds)]

\* commandStatusForDispatch: the command status a saved dispatch status implies
CommandStatusForDispatch(st) == IF st = "pending" THEN "accepted" ELSE st

SavedRow(t, st, due, parent) ==
    [st |-> st, cmd |-> CommandStatusForDispatch(st), created |-> t, due |-> due,
     decision |-> "none", lease |-> NoTime, paused |-> FALSE, action |-> "none",
     matrix |-> "unknown", bridge |-> "unknown", provider |-> "unknown",
     resendOf |-> parent, seen |-> {}]

AbsentRow == [SavedRow(NoTime, "pending", NoTime, NoCommand)
                EXCEPT !.st = "absent", !.cmd = "cleared"]

\* The row acceptTextReply and the resend branch of decideOutbound insert: the
\* caller stamps it t and found the connection available or not.
NewRow(t, available, parent) ==
    IF available THEN SavedRow(t, "pending", NoTime, parent)
    ELSE SavedRow(t, "waiting_for_connection", t + ConfirmTicks, parent)

-----------------------------------------------------------------------------
(* transitionOutboundLifecycle: one deterministic step of a saved command. *)

OriginalDue(r) == IF r.due # NoTime THEN r.due ELSE r.created + ConfirmTicks

MoveTo(r, st, due) ==
    [r EXCEPT !.st = st, !.cmd = CommandStatusForDispatch(st), !.due = due]

Transitionable == {"pending", "waiting_for_connection",
                   "confirmation_required", "cancelled"}

\* Faulty variant: a restored connection makes even aged work eligible
UndecidedIgnoringAge(r, t, available) ==
    IF r.st = "confirmation_required" THEN r
    ELSE MoveTo(r, IF available THEN "pending"
                   ELSE IF t >= OriginalDue(r) THEN "confirmation_required"
                   ELSE "waiting_for_connection", OriginalDue(r))

Undecided(r, t, available) ==
    CASE r.st = "confirmation_required" -> MoveTo(r, r.st, OriginalDue(r))
      [] r.st = "pending" /\ available -> MoveTo(r, "pending", r.due)
      [] r.st # "confirmation_required" /\ ~(r.st = "pending" /\ available) ->
           MoveTo(r, IF t >= OriginalDue(r) THEN "confirmation_required"
                     ELSE IF available THEN "pending"
                     ELSE "waiting_for_connection", OriginalDue(r))

Lifecycle(r, t, available) ==
    IF r.st \notin Transitionable THEN r
    ELSE IF r.decision = "cancel" \/ r.st = "cancelled"
           THEN MoveTo(r, "cancelled", r.due)
    ELSE IF r.decision = "confirm"
           THEN IF available THEN MoveTo(r, "pending", r.due)
                ELSE MoveTo(r, "waiting_for_connection", OriginalDue(r))
    ELSE Undecided(r, t, available)

-----------------------------------------------------------------------------
(* The dispatch lease. *)

CmdUnless(r, kept, status) == IF r.cmd \in kept THEN r.cmd ELSE status

Uncertain(r, kept) ==
    [r EXCEPT !.st = "delivery_uncertain", !.paused = TRUE, !.lease = NoTime,
              !.cmd = CmdUnless(r, kept, "delivery_uncertain")]

LeaseExpired(r, t) == r.lease = NoTime \/ r.lease <= t

\* claimOutboundDispatch: a live lease is returned unchanged, an expired one
\* turns the command uncertain, and only saved eligible work is leased
Claim(r, t) ==
    IF r.st = "dispatching"
      THEN IF LeaseExpired(r, t) THEN Uncertain(r, {}) ELSE r
    ELSE IF r.st \in {"pending", "wakeup_failed"}
      THEN [r EXCEPT !.st = "dispatching", !.lease = t + LeaseTicks]
    ELSE r

\* failOutboundDispatch: the adapter refused before any provider I/O
Fail(r) == [r EXCEPT !.st = "cancelled", !.lease = NoTime,
                     !.cmd = CmdUnless(r, {"cancelled", "delivered"}, "failed")]

\* Faulty variant: the alarm queues work whose lease ran out again
AlarmRequeues(r, t, available) ==
    IF r.st = "waiting_for_connection" THEN Lifecycle(r, t, available)
    ELSE IF r.st = "dispatching" /\ r.lease # NoTime /\ r.lease <= t
      THEN [r EXCEPT !.st = "pending", !.lease = NoTime]
    ELSE r

\* One row of #processOutboundAlarm
AlarmStep(r, t, available) ==
    IF r.st = "waiting_for_connection" THEN Lifecycle(r, t, available)
    ELSE IF r.st = "dispatching" /\ r.lease # NoTime /\ r.lease <= t
      THEN Uncertain(r, {"cancelled", "delivered"})
    ELSE r

-----------------------------------------------------------------------------
(* reconcileOutbound: apply a piece of trusted evidence, then one lifecycle *)
(* step computed from the row as it was before the evidence.                *)

Rank == [unknown |-> 0, confirmed |-> 1, accepted |-> 2, delivered |-> 3]
StageOf(e) == IF e.status = "uncertain" THEN "unknown" ELSE e.status
Strongest(new, old) == IF Rank[new] >= Rank[old] THEN new ELSE old

Staged(r, e) ==
    LET s == [r EXCEPT !.seen = @ \cup {<<e.source, e.id>>}]
    IN  CASE e.source = "matrix" -> [s EXCEPT !.matrix = Strongest(StageOf(e), @)]
          [] e.source = "bridge" -> [s EXCEPT !.bridge = Strongest(StageOf(e), @)]
          [] e.source \in {"provider", "refresh"} ->
               [s EXCEPT !.provider = Strongest(StageOf(e), @)]

\* Faulty variant: settling a dispatch leaves its chat paused
DispatchedStillPaused(r, kept, status) ==
    LET s == [r EXCEPT !.cmd = CmdUnless(r, kept, status)]
    IN  IF r.st = "cancelled" THEN s
        ELSE [s EXCEPT !.st = "dispatched", !.lease = NoTime]

Dispatched(r, kept, status) ==
    LET s == [r EXCEPT !.cmd = CmdUnless(r, kept, status)]
    IN  IF r.st = "cancelled" THEN s
        ELSE [s EXCEPT !.st = "dispatched", !.paused = FALSE, !.lease = NoTime]

Acknowledgement(e) == e.source \in {"matrix", "bridge"}
                      /\ e.status \in {"confirmed", "accepted"}

Acknowledged(r, e) ==
    IF e.source = "bridge"
      THEN Dispatched(r, {"cancelled", "delivered", "bridged"}, "bridged")
      ELSE Dispatched(r, {"cancelled", "delivered", "matrix_confirmed", "bridged"},
                      IF e.status = "confirmed" THEN "matrix_confirmed"
                      ELSE "submitted_to_matrix")

\* Faulty variant: doubt overwrites the status of a delivered command
DoubtedOverDelivery(r, e) ==
    LET s == [r EXCEPT !.cmd = CmdUnless(r, {"cancelled"}, "delivery_uncertain")]
    IN  IF r.st \in {"cancelled", "dispatched"} THEN s
        ELSE [s EXCEPT !.st = "delivery_uncertain", !.paused = TRUE]

\* An "uncertain" report touches the command even when the dispatch is closed;
\* a weak provider report does not, and leaves the lease column alone.
Doubted(r, e) ==
    LET open == r.st \notin {"cancelled", "dispatched"}
        s == [r EXCEPT !.cmd = CmdUnless(r, {"cancelled", "delivered"},
                                         "delivery_uncertain")]
        u == [s EXCEPT !.st = "delivery_uncertain", !.paused = TRUE]
    IN  IF r.action = "continue" THEN r
        ELSE IF e.status = "uncertain"
               THEN IF open THEN [u EXCEPT !.lease = NoTime] ELSE s
        ELSE IF open THEN u ELSE r

ApplyEvidence(r, e) ==
    LET s == Staged(r, e)
    IN  IF <<e.source, e.id>> \in r.seen THEN r
        ELSE IF e.status = "delivered" THEN Dispatched(s, {"cancelled"}, "delivered")
        ELSE IF Acknowledgement(e) THEN Acknowledged(s, e)
        ELSE Doubted(s, e)

\* The lifecycle result of row `old`, written over `new` under the guards
\* "WHERE status = <old status>" of both UPDATEs
WriteBack(new, old, t, available) ==
    LET x == Lifecycle(old, t, available)
    IN  [new EXCEPT !.st = IF new.st = old.st THEN x.st ELSE @,
                    !.due = IF new.st = old.st THEN x.due ELSE @,
                    !.cmd = IF new.cmd = old.cmd THEN x.cmd ELSE @]

Reconcile(r, t, available) == WriteBack(r, r, t, available)
ReconcileEvidence(r, e, t, available) == WriteBack(ApplyEvidence(r, e), r, t, available)

-----------------------------------------------------------------------------
(* decideOutbound *)

\* Faulty variant: cancelling updates the dispatch row only
ActOnDispatchOnly(r, action) ==
    [r EXCEPT !.st = IF action = "cancel" THEN "cancelled" ELSE @,
              !.paused = FALSE, !.lease = NoTime, !.action = action]

\* The branch for a delivery_uncertain command: cancel, continue or resend
Act(r, action) ==
    [r EXCEPT !.st = IF action = "cancel" THEN "cancelled" ELSE @,
              !.cmd = IF action = "cancel" THEN "cancelled" ELSE @,
              !.paused = FALSE, !.lease = NoTime, !.action = action]

\* When a confirmation or a cancellation of saved work is accepted
MayDecide(r, d, t) ==
    \/ d = "confirm" /\ \/ r.st = "confirmation_required"
                        \/ r.st = "waiting_for_connection" /\ r.due # NoTime /\ t >= r.due
    \/ d = "cancel" /\ r.st \in {"waiting_for_connection", "confirmation_required", "pending"}

Decide(r, d, t, available) == Lifecycle([r EXCEPT !.decision = d], t, available)

-----------------------------------------------------------------------------
(* completeRebuild: the command view recomputed from the surviving dispatch *)
(* row, then the removal fence of the restored rows.                        *)

RestoredCommandStatus(r) ==
    CASE r.st \in {"waiting_for_connection", "confirmation_required",
                   "cancelled", "delivery_uncertain"} -> r.st
      [] r.st \in {"pending", "wakeup_failed", "dispatching"} -> "accepted"
      [] r.st = "absent" -> "cleared"
      [] r.st = "dispatched" ->
           IF r.provider = "delivered" THEN "delivered"
           ELSE IF r.bridge # "unknown" THEN "bridged"
           ELSE IF r.matrix = "confirmed" THEN "matrix_confirmed"
           ELSE IF r.matrix = "accepted" THEN "submitted_to_matrix"
           ELSE "accepted"

Restore(r) == IF r.cmd # "cleared" THEN r
              ELSE [r EXCEPT !.cmd = RestoredCommandStatus(r)]

\* fenceRestoredOutboundWork for a row whose message is removed
Fence(r) ==
    LET unsent == {"pending", "waiting_for_connection", "confirmation_required",
                   "wakeup_failed"}
    IN  [r EXCEPT
           !.st = IF @ \in unsent THEN "cancelled"
                  ELSE IF @ = "dispatching" THEN "delivery_uncertain" ELSE @,
           !.paused = @ \/ r.st \in {"dispatching", "delivery_uncertain"},
           !.lease = IF r.st \in unsent \cup {"dispatching", "delivery_uncertain"}
                       THEN NoTime ELSE @,
           !.cmd = IF @ \in {"accepted", "waiting_for_connection",
                             "confirmation_required", "submitted_to_matrix"}
                     THEN "cancelled" ELSE @]
=============================================================================
