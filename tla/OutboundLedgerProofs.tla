------------------------ MODULE OutboundLedgerProofs ------------------------
(***************************************************************************)
(* Proofs about OutboundLedger, for any number of commands, any clock and  *)
(* any deadlines.  The row operators are shown once to keep the type of a  *)
(* row and the row invariant; the actions then preserve the invariant of   *)
(* the ledger one by one.                                                  *)
(***************************************************************************)
EXTENDS OutboundLedger, WellFoundedInduction, TLAPS

-----------------------------------------------------------------------------
(* The row invariant: what holds of every row, removed or not *)

Sent == {"dispatching", "delivery_uncertain", "dispatched", "cancelled"}

\* The deadline is anchored to the acceptance
RowDue(r) ==
    /\ r.due \in {NoTime, r.created + ConfirmTicks}
    /\ r.st \in {"waiting_for_connection", "confirmation_required"} => r.due # NoTime

\* A row pauses its chat while its outcome is in doubt
RowPause(r) ==
    /\ r.paused => r.st = "delivery_uncertain"
    /\ r.st = "delivery_uncertain" /\ ~r.paused => r.action \in {"continue", "resend"}

\* A recorded cancellation holds
RowCancel(r) == r.decision = "cancel" => r.st = "cancelled"

\* A dispatch is settled by an acknowledgement or a delivery, and a recorded
\* delivery settles it
RowEvidence(r) ==
    /\ r.matrix # "delivered" /\ r.bridge # "delivered"
    /\ r.st = "dispatched" => r.provider = "delivered" \/ r.bridge # "unknown"
                                \/ r.matrix # "unknown"
    /\ r.provider = "delivered" => r.st \in {"dispatched", "cancelled"}

RowInv(r) == /\ RowDue(r) /\ RowPause(r) /\ RowCancel(r) /\ RowEvidence(r)
             /\ r.st # "wakeup_failed" /\ (r.cmd = "failed" => r.st = "cancelled")

\* What one method may do to a row it finds
RowStep(r, s) ==
    /\ r.st \in Sent => s.st \in Sent
    /\ r.st \in {"dispatched", "cancelled"} => s.st = r.st
    /\ r.st = "delivery_uncertain" => s.st # "dispatching"
    /\ r.st = "dispatching" /\ s.st = "dispatching" => s.lease = r.lease
    /\ r.st # "absent" \/ s.st = "absent" => s.resendOf = r.resendOf
    /\ r.st \in Sent => s.decision = r.decision

\* The command view of a row while the projection is ready and the message is
\* not removed
RowView(r) ==
    /\ r.st \in {"waiting_for_connection", "confirmation_required"} => r.cmd = r.st
    /\ r.st \in {"pending", "dispatching"} => r.cmd = "accepted"
    /\ r.st = "delivery_uncertain" => r.cmd = "delivery_uncertain"
    /\ r.st = "cancelled" => r.cmd \in {"cancelled", "failed"}
    /\ r.st = "dispatched" => r.cmd \in {"submitted_to_matrix", "matrix_confirmed",
                                          "bridged", "delivered", "delivery_uncertain"}
    /\ r.st = "dispatched" /\ r.provider = "delivered" => r.cmd = "delivered"

\* What every method does to a row it finds; only failOutboundDispatch fails it
Preserves(r, s) == /\ s \in Row /\ RowInv(s) /\ RowStep(r, s)
                   /\ RowView(r) => RowView(s)
Keeps(r, s) == Preserves(r, s) /\ (s.cmd = "failed" => r.cmd = "failed")

-----------------------------------------------------------------------------
(* What the row operators return *)

\* commandStatusForDispatch maps every status that transitionOutboundLifecycle
\* may return to a command status.
LEMMA CommandStatusType ==
    \A st \in Transitionable : CommandStatusForDispatch(st) \in CommandStatus
BY Zenon DEF Transitionable, CommandStatusForDispatch, CommandStatus

\* A row saved by acceptTextReply or by a resend has every column in range.
LEMMA NewRowType ==
    ASSUME NEW t \in Nat, NEW available \in BOOLEAN, NEW p \in Commands \cup {NoCommand}
    PROVE  NewRow(t, available, p) \in Row
BY TicksAssumption DEF NewRow, SavedRow, Row, CommandStatusForDispatch, CommandStatus,
   DispatchStatus, Decision, HumanAction, Stage, NoTime

\* The row of a command that was never saved is a row.
LEMMA AbsentRowType == AbsentRow \in Row
BY ZenonT(60) DEF AbsentRow, SavedRow, Row, CommandStatusForDispatch, CommandStatus,
   DispatchStatus, Decision, HumanAction, Stage, NoTime

\* transitionOutboundLifecycle keeps every column in range.
LEMMA LifecycleType ==
    ASSUME NEW r \in Row, NEW t \in Nat, NEW available \in BOOLEAN
    PROVE  Lifecycle(r, t, available) \in Row
<1>1. \A st \in Transitionable, due \in Nat : MoveTo(r, st, due) \in Row
  BY ZenonT(60), CommandStatusType DEF MoveTo, Row, Transitionable, DispatchStatus
<1>2. OriginalDue(r) \in Nat
  BY TicksAssumption DEF OriginalDue, Row
<1>3. Undecided(r, t, available) \in Row
  BY <1>1, <1>2 DEF Undecided, Transitionable, Row
<1>4. r.due \in Nat
  BY Zenon DEF Row
<1>5. /\ MoveTo(r, "cancelled", r.due) \in Row /\ MoveTo(r, "pending", r.due) \in Row
      /\ MoveTo(r, "waiting_for_connection", OriginalDue(r)) \in Row
  BY Zenon, <1>1, <1>2, <1>4 DEF Transitionable
<1> QED BY Zenon, <1>3, <1>5 DEF Lifecycle

\* The row a command is saved with satisfies the row invariant and its view.
LEMMA NewRowInv ==
    ASSUME NEW t \in Nat \ {0}, NEW available \in BOOLEAN, NEW p \in Commands \cup {NoCommand}
    PROVE  RowInv(NewRow(t, available, p)) /\ RowView(NewRow(t, available, p))
<1>1. ASSUME NEW st, NEW due, NEW x, x = SavedRow(t, st, due, p),
             \/ st = "pending" /\ due = NoTime
             \/ st = "waiting_for_connection" /\ due = t + ConfirmTicks
      PROVE  RowInv(x) /\ RowView(x)
  <2>1. /\ x.st = st /\ x.due = due /\ x.created = t /\ x.decision = "none"
        /\ x.paused = FALSE /\ x.matrix = "unknown" /\ x.bridge = "unknown"
        /\ x.provider = "unknown" /\ x.cmd = CommandStatusForDispatch(st)
    BY Zenon, <1>1 DEF SavedRow
  <2>2. x.cmd \in {"accepted", "waiting_for_connection"} /\ (st = "pending" <=> x.cmd = "accepted")
    BY Zenon, <1>1, <2>1 DEF CommandStatusForDispatch
  <2>3. RowDue(x)
    BY <1>1, <2>1, TicksAssumption DEF RowDue, NoTime
  <2>4. RowPause(x) /\ RowCancel(x) /\ RowEvidence(x)
    BY Zenon, <1>1, <2>1 DEF RowPause, RowCancel, RowEvidence
  <2>5. RowView(x)
    BY Zenon, <1>1, <2>1, <2>2 DEF RowView
  <2> QED BY Zenon, <1>1, <2>1, <2>2, <2>3, <2>4, <2>5 DEF RowInv
<1> QED BY Zenon, <1>1 DEF NewRow

\* One lifecycle step changes only the status, the view and the deadline, leaves
\* work that left the ledger alone, and keeps the row invariant and the view.
LEMMA LifecycleRow ==
    ASSUME NEW r \in Row, NEW t \in Nat, NEW available \in BOOLEAN,
           NEW x, x = Lifecycle(r, t, available)
    PROVE  /\ x.paused = r.paused /\ x.action = r.action /\ x.decision = r.decision
           /\ x.matrix = r.matrix /\ x.bridge = r.bridge /\ x.provider = r.provider
           /\ x.lease = r.lease /\ x.resendOf = r.resendOf /\ x.created = r.created
           /\ r.st \notin Transitionable => x = r
           /\ r.st \in Transitionable =>
                /\ x.st \in Transitionable /\ x.cmd = CommandStatusForDispatch(x.st)
                /\ r.st = "cancelled" \/ r.decision = "cancel" => x.st = "cancelled"
                /\ RowDue(r) => RowDue(x)
<1>1. OriginalDue(r) \in Nat \ {0} /\ (RowDue(r) => OriginalDue(r) = r.created + ConfirmTicks)
  BY TicksAssumption DEF OriginalDue, Row, RowDue, NoTime
<1>2. CASE r.st \notin Transitionable
  <2>1. x = r
    BY Zenon, <1>2 DEF Lifecycle
  <2> QED BY Zenon, <1>2, <2>1 DEF Row
<1>3. CASE r.st \in Transitionable
  <2>1. \E st \in Transitionable, due \in {r.due, OriginalDue(r)} :
          /\ x = MoveTo(r, st, due)
          /\ r.st = "cancelled" \/ r.decision = "cancel" => st = "cancelled"
          /\ st \in {"waiting_for_connection", "confirmation_required"} => due = OriginalDue(r)
    BY Zenon, <1>3 DEF Lifecycle, Undecided, Transitionable, Row
  <2>2. PICK st \in Transitionable, due \in {r.due, OriginalDue(r)} :
          /\ x = MoveTo(r, st, due)
          /\ r.st = "cancelled" \/ r.decision = "cancel" => st = "cancelled"
          /\ st \in {"waiting_for_connection", "confirmation_required"} => due = OriginalDue(r)
    BY Zenon, <2>1
  <2>3. x.st = st /\ x.cmd = CommandStatusForDispatch(st) /\ x.due = due
        /\ x.paused = r.paused /\ x.action = r.action /\ x.decision = r.decision
        /\ x.matrix = r.matrix /\ x.bridge = r.bridge /\ x.provider = r.provider
        /\ x.lease = r.lease /\ x.resendOf = r.resendOf /\ x.created = r.created
    BY <2>2 DEF MoveTo, Row
  <2>4. RowDue(r) => RowDue(x)
    BY Zenon, <2>2, <2>3, <1>1 DEF RowDue, NoTime
  <2> QED BY Zenon, <1>3, <2>2, <2>3, <2>4
<1> QED BY Zenon, <1>2, <1>3

\* One lifecycle step of a row, with or without a recorded decision, keeps it.
LEMMA LifecycleKeeps ==
    ASSUME NEW r \in Row, NEW t \in Nat, NEW available \in BOOLEAN, RowInv(r)
    PROVE  Keeps(r, Lifecycle(r, t, available))
<1> DEFINE x == Lifecycle(r, t, available)
<1>1. x \in Row
  BY Zenon, LifecycleType
<1>2. CASE r.st \notin Transitionable
  BY <1>1, <1>2, LifecycleRow DEF Keeps, Preserves, RowStep
<1>3. CASE r.st \in Transitionable
  <2>1. /\ x.st \in Transitionable /\ x.cmd = CommandStatusForDispatch(x.st)
        /\ r.st = "cancelled" \/ r.decision = "cancel" => x.st = "cancelled"
        /\ RowDue(x)
        /\ x.paused = r.paused /\ x.action = r.action /\ x.decision = r.decision
        /\ x.matrix = r.matrix /\ x.bridge = r.bridge /\ x.provider = r.provider
        /\ x.lease = r.lease /\ x.resendOf = r.resendOf
    BY <1>3, LifecycleRow DEF RowInv
  <2>2. RowPause(x) /\ RowCancel(x) /\ RowEvidence(x)
    BY Zenon, <1>3, <2>1 DEF RowInv, RowPause, RowCancel, RowEvidence, Transitionable
  <2>3. RowStep(r, x)
    BY Zenon, <1>3, <2>1 DEF RowStep, Sent, Transitionable
  <2>4. RowView(x)
    BY Zenon, <2>1 DEF RowView, Transitionable, CommandStatusForDispatch
  <2>5. x.cmd # "failed"
    BY Zenon, <2>1 DEF Transitionable, CommandStatusForDispatch
  <2> QED BY Zenon, <1>1, <2>1, <2>2, <2>3, <2>4, <2>5 DEF Keeps, Preserves, RowInv, Transitionable
<1> QED BY Zenon, <1>2, <1>3

\* Marking a row uncertain keeps every column in range.
LEMMA UncertainType ==
    ASSUME NEW r \in Row, NEW kept
    PROVE  Uncertain(r, kept) \in Row
<1>1. CmdUnless(r, kept, "delivery_uncertain") \in CommandStatus
  BY Zenon DEF CmdUnless, CommandStatus, Row
<1> QED BY ZenonT(60), <1>1 DEF Uncertain, Row, DispatchStatus, NoTime

\* claimOutboundDispatch keeps a row.
LEMMA ClaimKeeps ==
    ASSUME NEW r \in Row, NEW t \in Nat, RowInv(r)
    PROVE  Keeps(r, Claim(r, t))
<1>1. Claim(r, t) \in Row
  <2>1. Uncertain(r, {}) \in Row
    BY Zenon, UncertainType
  <2>2. [r EXCEPT !.st = "dispatching", !.lease = t + LeaseTicks] \in Row
    <3>1. t + LeaseTicks \in Nat
      BY TicksAssumption
    <3> QED BY ZenonT(60), <3>1 DEF Row, DispatchStatus
  <2> QED BY Zenon, <2>1, <2>2 DEF Claim
<1>2. RowInv(Claim(r, t))
  BY DEF Claim, Uncertain, CmdUnless, RowInv, RowDue, RowPause, RowCancel, RowEvidence, Row
<1>3. RowStep(r, Claim(r, t))
  BY Zenon DEF Claim, Uncertain, RowStep, Sent, Row
<1>4. RowView(r) => RowView(Claim(r, t))
  BY DEF Claim, Uncertain, CmdUnless, RowView, RowInv, Row
<1>5. Claim(r, t).cmd = "failed" => r.cmd = "failed"
  BY Zenon DEF Claim, Uncertain, CmdUnless, Row
<1> QED BY Zenon, <1>1, <1>2, <1>3, <1>4, <1>5 DEF Keeps, Preserves

\* failOutboundDispatch keeps a leased row.
LEMMA FailKeeps ==
    ASSUME NEW r \in Row, RowInv(r), r.st = "dispatching"
    PROVE  Preserves(r, Fail(r))
<1>1. Fail(r) \in Row
  BY ZenonT(60) DEF Fail, CmdUnless, Row, DispatchStatus, CommandStatus, NoTime
<1>2. RowInv(Fail(r))
  BY Zenon DEF Fail, RowInv, RowDue, RowPause, RowCancel, RowEvidence, Row
<1>3. RowStep(r, Fail(r))
  BY Zenon DEF Fail, RowStep, Sent, Row
<1>4. RowView(r) => RowView(Fail(r))
  BY Zenon DEF Fail, CmdUnless, RowView, Row
<1> QED BY Zenon, <1>1, <1>2, <1>3, <1>4 DEF Preserves

\* One row of the alarm handler keeps a row.
LEMMA AlarmStepKeeps ==
    ASSUME NEW r \in Row, NEW t \in Nat, NEW available \in BOOLEAN, RowInv(r)
    PROVE  Keeps(r, AlarmStep(r, t, available))
<1>1. CASE r.st = "waiting_for_connection"
  BY Zenon, <1>1, LifecycleKeeps DEF AlarmStep
<1>2. CASE r.st = "dispatching" /\ r.lease # NoTime /\ r.lease <= t
  <2> DEFINE s == Uncertain(r, {"cancelled", "delivered"})
  <2>1. s \in Row
    BY Zenon, UncertainType
  <2>2. RowInv(s)
    BY Zenon, <1>2 DEF Uncertain, CmdUnless, RowInv, RowDue, RowPause, RowCancel, RowEvidence, Row
  <2>3. RowStep(r, s)
    BY Zenon, <1>2 DEF Uncertain, RowStep, Sent, Row
  <2>4. RowView(r) => RowView(s)
    BY Zenon, <1>2 DEF Uncertain, CmdUnless, RowView, Row
  <2>5. s.cmd = "failed" => r.cmd = "failed"
    BY Zenon DEF Uncertain, CmdUnless, Row
  <2> QED BY Zenon, <1>2, <2>1, <2>2, <2>3, <2>4, <2>5 DEF Keeps, Preserves, AlarmStep
<1>3. CASE r.st # "waiting_for_connection" /\ ~(r.st = "dispatching" /\ r.lease # NoTime /\ r.lease <= t)
  BY Zenon, <1>3 DEF AlarmStep, Keeps, Preserves, RowStep
<1> QED BY Zenon, <1>1, <1>2, <1>3

\* The three actions on an uncertain command keep its row.
LEMMA ActKeeps ==
    ASSUME NEW r \in Row, NEW a \in {"cancel", "continue", "resend"}, RowInv(r),
           r.st = "delivery_uncertain"
    PROVE  Keeps(r, Act(r, a))
<1>1. Act(r, a) \in Row
  <2>1. (IF a = "cancel" THEN "cancelled" ELSE r.st) \in DispatchStatus
    BY Zenon DEF Row, DispatchStatus
  <2>2. (IF a = "cancel" THEN "cancelled" ELSE r.cmd) \in CommandStatus
    BY DEF Row, CommandStatus
  <2> QED BY ZenonT(60), <2>1, <2>2 DEF Act, Row, HumanAction, NoTime
<1>2. RowInv(Act(r, a))
  BY DEF Act, RowInv, RowDue, RowPause, RowCancel, RowEvidence, Row
<1>3. RowStep(r, Act(r, a))
  BY Zenon DEF Act, RowStep, Sent, Row
<1>4. RowView(r) => RowView(Act(r, a))
  BY DEF Act, RowView, Row
<1>5. Act(r, a).cmd = "failed" => r.cmd = "failed"
  BY Zenon DEF Act, Row
<1> QED BY Zenon, <1>1, <1>2, <1>3, <1>4, <1>5 DEF Keeps, Preserves

\* A human decision on saved work keeps its row.
LEMMA DecideKeeps ==
    ASSUME NEW r \in Row, NEW d \in {"confirm", "cancel"}, NEW t \in Nat,
           NEW available \in BOOLEAN, RowInv(r), MayDecide(r, d, t)
    PROVE  Keeps(r, Decide(r, d, t, available))
<1> DEFINE q == [r EXCEPT !.decision = d]
           x == Decide(r, d, t, available)
<1>1. r.st \in {"pending", "waiting_for_connection", "confirmation_required"}
  BY Zenon DEF MayDecide
<1>2. /\ q \in Row /\ q.st = r.st /\ q.decision = d /\ q.paused = r.paused
      /\ q.action = r.action /\ q.matrix = r.matrix /\ q.bridge = r.bridge
      /\ q.provider = r.provider /\ q.lease = r.lease /\ q.resendOf = r.resendOf
      /\ q.created = r.created /\ q.due = r.due
  BY DEF Row, Decision
<1>3. x = Lifecycle(q, t, available)
  BY Zenon DEF Decide
<1> HIDE DEF q, x
<1>4. x \in Row
  BY Zenon, <1>2, <1>3, LifecycleType
<1>5. RowDue(q)
  BY Zenon, <1>2 DEF RowInv, RowDue
<1>6. /\ x.st \in Transitionable /\ x.cmd = CommandStatusForDispatch(x.st)
      /\ d = "cancel" => x.st = "cancelled"
      /\ RowDue(x)
      /\ x.paused = r.paused /\ x.action = r.action /\ x.decision = d
      /\ x.matrix = r.matrix /\ x.bridge = r.bridge /\ x.provider = r.provider
      /\ x.lease = r.lease /\ x.resendOf = r.resendOf
  BY <1>1, <1>2, <1>3, <1>5, LifecycleRow DEF Transitionable
<1>7. RowPause(x) /\ RowCancel(x) /\ RowEvidence(x)
  BY Zenon, <1>1, <1>6 DEF RowInv, RowPause, RowCancel, RowEvidence, Transitionable
<1>8. RowStep(r, x)
  BY Zenon, <1>1, <1>6 DEF RowStep, Sent
<1>9. RowView(x)
  BY Zenon, <1>6 DEF RowView, Transitionable, CommandStatusForDispatch
<1>10. x.cmd # "failed"
  BY Zenon, <1>6 DEF Transitionable, CommandStatusForDispatch
<1> QED BY Zenon, <1>4, <1>6, <1>7, <1>8, <1>9, <1>10 DEF Keeps, Preserves, RowInv, x, Transitionable

\* A poll is one lifecycle step under the guards of its UPDATEs, which hold.
LEMMA ReconcileKeeps ==
    ASSUME NEW r \in Row, NEW t \in Nat, NEW available \in BOOLEAN, RowInv(r)
    PROVE  Keeps(r, Reconcile(r, t, available))
<1> DEFINE x == Lifecycle(r, t, available)
           y == Reconcile(r, t, available)
<1>1. Keeps(r, x)
  BY Zenon, LifecycleKeeps
<1>2. y = [r EXCEPT !.st = x.st, !.due = x.due, !.cmd = x.cmd]
  BY Zenon DEF Reconcile, WriteBack
<1>3. y \in Row
  BY ZenonT(60), <1>1, <1>2 DEF Keeps, Preserves, Row
<1>4. /\ x.paused = r.paused /\ x.action = r.action /\ x.decision = r.decision
      /\ x.matrix = r.matrix /\ x.bridge = r.bridge /\ x.provider = r.provider
      /\ x.lease = r.lease /\ x.resendOf = r.resendOf
  BY LifecycleRow
<1>5. x.created = r.created
  BY LifecycleRow
<1>6. /\ y.st = x.st /\ y.due = x.due /\ y.cmd = x.cmd /\ y.paused = x.paused
      /\ y.action = x.action /\ y.decision = x.decision /\ y.matrix = x.matrix
      /\ y.bridge = x.bridge /\ y.provider = x.provider /\ y.lease = x.lease
      /\ y.resendOf = x.resendOf /\ y.created = x.created
  BY <1>2, <1>4, <1>5 DEF Row
<1> HIDE DEF x, y
<1>7. RowInv(y)
  BY <1>1, <1>6 DEF Keeps, Preserves, RowInv, RowDue, RowPause, RowCancel, RowEvidence
<1>8. RowStep(r, y)
  BY Zenon, <1>1, <1>6 DEF Keeps, Preserves, RowStep
<1>9. RowView(r) => RowView(y)
  BY <1>1, <1>6 DEF Keeps, Preserves, RowView
<1>10. y.cmd = "failed" => r.cmd = "failed"
  BY Zenon, <1>1, <1>6 DEF Keeps
<1> QED BY Zenon, <1>3, <1>7, <1>8, <1>9, <1>10 DEF Keeps, Preserves, y

\* The stronger of two stages is one of them, is not weaker than the old one, and
\* is not "unknown" when the new one is not.
LEMMA StrongestStage ==
    ASSUME NEW new \in Stage, NEW old \in Stage
    PROVE  /\ Strongest(new, old) \in {new, old}
           /\ new # "unknown" \/ old # "unknown" => Strongest(new, old) # "unknown"
           /\ old = "delivered" => Strongest(new, old) = "delivered"
           /\ new = "delivered" => Strongest(new, old) = "delivered"
BY DEF Strongest, Rank, Stage

\* Recording a piece of evidence changes only the evidence columns.
LEMMA StagedRow ==
    ASSUME NEW r \in Row, NEW e \in Evidence, NEW s, s = Staged(r, e),
           ~(e.source \in {"matrix", "bridge"} /\ e.status = "delivered")
    PROVE  /\ s \in Row
           /\ s.st = r.st /\ s.cmd = r.cmd /\ s.created = r.created /\ s.due = r.due
           /\ s.decision = r.decision /\ s.lease = r.lease /\ s.paused = r.paused
           /\ s.action = r.action /\ s.resendOf = r.resendOf
           /\ r.matrix # "delivered" => s.matrix # "delivered"
           /\ r.bridge # "delivered" => s.bridge # "delivered"
           /\ r.matrix # "unknown" => s.matrix # "unknown"
           /\ r.bridge # "unknown" => s.bridge # "unknown"
           /\ r.provider = "delivered" => s.provider = "delivered"
           /\ s.provider = "delivered" => r.provider = "delivered" \/ e.status = "delivered"
           /\ e.status = "delivered" => s.provider = "delivered"
           /\ Acknowledgement(e) => s.bridge # "unknown" \/ s.matrix # "unknown"
<1> DEFINE g == StageOf(e)
           q == [r EXCEPT !.seen = @ \cup {<<e.source, e.id>>}]
<1>1. g \in Stage /\ (g = "delivered" <=> e.status = "delivered")
      /\ (g = "unknown" <=> e.status = "uncertain")
  BY Zenon DEF StageOf, Evidence, EvidenceStatus, Stage
<1>2. /\ q \in Row /\ q.st = r.st /\ q.cmd = r.cmd /\ q.created = r.created /\ q.due = r.due
      /\ q.decision = r.decision /\ q.lease = r.lease /\ q.paused = r.paused
      /\ q.action = r.action /\ q.resendOf = r.resendOf /\ q.matrix = r.matrix
      /\ q.bridge = r.bridge /\ q.provider = r.provider
  BY DEF Row, Evidence
<1>3. CASE e.source = "matrix"
  <2>1. s = [q EXCEPT !.matrix = Strongest(g, q.matrix)]
    BY Zenon, <1>3 DEF Staged
  <2>2. /\ Strongest(g, q.matrix) \in Stage
        /\ g # "unknown" \/ q.matrix # "unknown" => Strongest(g, q.matrix) # "unknown"
        /\ Strongest(g, q.matrix) \in {g, q.matrix}
    BY <1>1, <1>2, StrongestStage DEF Row
  <2> HIDE DEF q, g
  <2>3. s \in Row /\ s.matrix = Strongest(g, q.matrix)
        /\ s.st = r.st /\ s.cmd = r.cmd /\ s.created = r.created /\ s.due = r.due
        /\ s.decision = r.decision /\ s.lease = r.lease /\ s.paused = r.paused
        /\ s.action = r.action /\ s.resendOf = r.resendOf
        /\ s.bridge = r.bridge /\ s.provider = r.provider
    BY <1>2, <2>1, <2>2 DEF Row
  <2> QED BY <1>1, <1>2, <1>3, <2>2, <2>3 DEF Acknowledgement
<1>4. CASE e.source = "bridge"
  <2>1. s = [q EXCEPT !.bridge = Strongest(g, q.bridge)]
    BY Zenon, <1>4 DEF Staged
  <2>2. /\ Strongest(g, q.bridge) \in Stage
        /\ g # "unknown" \/ q.bridge # "unknown" => Strongest(g, q.bridge) # "unknown"
        /\ Strongest(g, q.bridge) \in {g, q.bridge}
    BY <1>1, <1>2, StrongestStage DEF Row
  <2> HIDE DEF q, g
  <2>3. s \in Row /\ s.bridge = Strongest(g, q.bridge)
        /\ s.st = r.st /\ s.cmd = r.cmd /\ s.created = r.created /\ s.due = r.due
        /\ s.decision = r.decision /\ s.lease = r.lease /\ s.paused = r.paused
        /\ s.action = r.action /\ s.resendOf = r.resendOf
        /\ s.matrix = r.matrix /\ s.provider = r.provider
    BY <1>2, <2>1, <2>2 DEF Row
  <2> QED BY <1>1, <1>2, <1>4, <2>2, <2>3 DEF Acknowledgement
<1>5. CASE e.source \in {"provider", "refresh"}
  <2>1. s = [q EXCEPT !.provider = Strongest(g, q.provider)]
    BY Zenon, <1>5 DEF Staged
  <2>2. /\ Strongest(g, q.provider) \in Stage
        /\ g = "delivered" \/ q.provider = "delivered" => Strongest(g, q.provider) = "delivered"
        /\ Strongest(g, q.provider) \in {g, q.provider}
    BY <1>1, <1>2, StrongestStage DEF Row
  <2> HIDE DEF q, g
  <2>3. s \in Row /\ s.provider = Strongest(g, q.provider)
        /\ s.st = r.st /\ s.cmd = r.cmd /\ s.created = r.created /\ s.due = r.due
        /\ s.decision = r.decision /\ s.lease = r.lease /\ s.paused = r.paused
        /\ s.action = r.action /\ s.resendOf = r.resendOf
        /\ s.matrix = r.matrix /\ s.bridge = r.bridge
    BY <1>2, <2>1, <2>2 DEF Row
  <2> QED BY <1>1, <1>2, <1>5, <2>2, <2>3 DEF Acknowledgement
<1> QED BY Zenon, <1>3, <1>4, <1>5 DEF Evidence, Source

Updated(r, st, l) ==
    [r EXCEPT !.st = st, !.paused = (st = "delivery_uncertain"), !.lease = l]

\* Writing the status, the pause and the lease of a row changes nothing else.
LEMMA RowUpdate ==
    ASSUME NEW r \in Row, NEW st \in DispatchStatus, NEW l \in Nat,
           NEW x, x = Updated(r, st, l)
    PROVE  /\ x \in Row
           /\ x.st = st /\ (x.paused <=> st = "delivery_uncertain") /\ x.cmd = r.cmd
           /\ x.created = r.created /\ x.due = r.due /\ x.decision = r.decision
           /\ x.action = r.action /\ x.resendOf = r.resendOf /\ x.matrix = r.matrix
           /\ x.bridge = r.bridge /\ x.provider = r.provider
<1>1. x \in Row
  BY ZenonT(60) DEF Row, Updated
<1>2. /\ x.st = st /\ (x.paused <=> st = "delivery_uncertain") /\ x.cmd = r.cmd
      /\ x.created = r.created /\ x.due = r.due /\ x.decision = r.decision
      /\ x.action = r.action /\ x.resendOf = r.resendOf /\ x.matrix = r.matrix
      /\ x.bridge = r.bridge /\ x.provider = r.provider
  BY ZenonT(60) DEF Row, Updated
<1> QED BY Zenon, <1>1, <1>2

\* Settling a sent row keeps it, when the evidence that settles it is recorded.
\* The view needs that the kept statuses cover what may not be overwritten.
LEMMA DispatchedRow ==
    ASSUME NEW s \in Row, NEW kept, NEW status \in CommandStatus, s.st \in Sent,
           NEW d, d = Dispatched(s, kept, status)
    PROVE  /\ d \in Row
           /\ d.st = IF s.st = "cancelled" THEN "cancelled" ELSE "dispatched"
           /\ d.cmd = IF s.cmd \in kept THEN s.cmd ELSE status
           /\ s.st # "cancelled" => ~d.paused
           /\ s.st = "cancelled" => (d.paused <=> s.paused)
           /\ d.created = s.created /\ d.due = s.due /\ d.decision = s.decision
           /\ d.action = s.action /\ d.resendOf = s.resendOf /\ d.matrix = s.matrix
           /\ d.bridge = s.bridge /\ d.provider = s.provider
<1> DEFINE q == [s EXCEPT !.cmd = CmdUnless(s, kept, status)]
<1>1. CmdUnless(s, kept, status) \in CommandStatus
      /\ CmdUnless(s, kept, status) = IF s.cmd \in kept THEN s.cmd ELSE status
  BY Zenon DEF CmdUnless, Row
<1>2. /\ q \in Row /\ q.st = s.st /\ q.cmd = CmdUnless(s, kept, status) /\ q.paused = s.paused
      /\ q.created = s.created /\ q.due = s.due /\ q.decision = s.decision
      /\ q.action = s.action /\ q.resendOf = s.resendOf /\ q.matrix = s.matrix
      /\ q.bridge = s.bridge /\ q.provider = s.provider
  BY <1>1 DEF Row
<1>3. d = IF s.st = "cancelled" THEN q
          ELSE [q EXCEPT !.st = "dispatched", !.paused = FALSE, !.lease = NoTime]
  BY Zenon DEF Dispatched
<1> HIDE DEF q
<1>4. CASE s.st = "cancelled"
  BY Zenon, <1>1, <1>2, <1>3, <1>4
<1>5. CASE s.st # "cancelled"
  <2>1. d = Updated(q, "dispatched", NoTime)
    BY ZenonT(60), <1>3, <1>5 DEF Updated
  <2>2. "dispatched" \in DispatchStatus /\ NoTime \in Nat /\ q \in Row
    BY Zenon, <1>2 DEF DispatchStatus, NoTime
  <2>3. /\ d \in Row /\ d.st = "dispatched" /\ d.cmd = q.cmd /\ ~d.paused
        /\ d.created = q.created /\ d.due = q.due /\ d.decision = q.decision
        /\ d.action = q.action /\ d.resendOf = q.resendOf /\ d.matrix = q.matrix
        /\ d.bridge = q.bridge /\ d.provider = q.provider
    BY <2>1, <2>2, RowUpdate
  <2> QED BY <1>1, <1>2, <1>5, <2>3
<1> QED BY Zenon, <1>4, <1>5

\* A doubtful report marks an open row uncertain, unless a human continued it.
LEMMA DoubtedRow ==
    ASSUME NEW s \in Row, NEW e \in Evidence, s.st \in Sent, NEW d, d = Doubted(s, e)
    PROVE  /\ d \in Row
           /\ d.created = s.created /\ d.due = s.due /\ d.decision = s.decision
           /\ d.action = s.action /\ d.resendOf = s.resendOf /\ d.matrix = s.matrix
           /\ d.bridge = s.bridge /\ d.provider = s.provider
           /\ \/ d = s
              \/ /\ s.st \in {"dispatched", "cancelled"} /\ d.st = s.st /\ (d.paused <=> s.paused)
                 /\ d.cmd = CmdUnless(s, {"cancelled", "delivered"}, "delivery_uncertain")
              \/ /\ s.st \in {"dispatching", "delivery_uncertain"}
                 /\ d.st = "delivery_uncertain" /\ d.paused
                 /\ d.cmd = CmdUnless(s, {"cancelled", "delivered"}, "delivery_uncertain")
<1> DEFINE c == CmdUnless(s, {"cancelled", "delivered"}, "delivery_uncertain")
           q == [s EXCEPT !.cmd = c]
           u == [q EXCEPT !.st = "delivery_uncertain", !.paused = TRUE]
<1>1. c \in CommandStatus
  BY Zenon DEF CmdUnless, Row, CommandStatus
<1>2. /\ q \in Row /\ q.st = s.st /\ q.cmd = c /\ q.paused = s.paused
      /\ q.created = s.created /\ q.due = s.due /\ q.decision = s.decision
      /\ q.action = s.action /\ q.resendOf = s.resendOf /\ q.matrix = s.matrix
      /\ q.bridge = s.bridge /\ q.provider = s.provider
  BY <1>1 DEF Row
<1>3. CASE d = s
  BY Zenon, <1>3
<1>4. CASE d = q /\ s.st \in {"dispatched", "cancelled"}
  BY Zenon, <1>2, <1>4
<1>5. CASE d \in {u, [u EXCEPT !.lease = NoTime]} /\ s.st \in {"dispatching", "delivery_uncertain"}
  <2> HIDE DEF q, c
  <2>1. q \in Row /\ q.lease \in Nat /\ NoTime \in Nat /\ "delivery_uncertain" \in DispatchStatus
    BY Zenon, <1>2 DEF Row, NoTime, DispatchStatus
  <2>2. \E l \in Nat : d = Updated(q, "delivery_uncertain", l)
    <3>1. CASE d = u
      <4>1. d = [q EXCEPT !.st = "delivery_uncertain", !.paused = TRUE, !.lease = q.lease]
        BY ZenonT(60), <3>1, <2>1 DEF Row
      <4> QED BY ZenonT(60), <2>1, <4>1 DEF Updated
    <3>2. CASE d = [u EXCEPT !.lease = NoTime]
      BY ZenonT(60), <3>2, <2>1 DEF Updated
    <3> QED BY Zenon, <1>5, <3>1, <3>2
  <2>3. PICK l \in Nat : d = Updated(q, "delivery_uncertain", l)
    BY Zenon, <2>2
  <2>4. /\ d \in Row /\ d.st = "delivery_uncertain" /\ d.cmd = q.cmd /\ d.paused
        /\ d.created = q.created /\ d.due = q.due /\ d.decision = q.decision
        /\ d.action = q.action /\ d.resendOf = q.resendOf /\ d.matrix = q.matrix
        /\ d.bridge = q.bridge /\ d.provider = q.provider
    BY <2>1, <2>3, RowUpdate
  <2> QED BY <1>2, <1>5, <2>4 DEF c
<1>6. \/ d = s
      \/ d = q /\ s.st \in {"dispatched", "cancelled"}
      \/ d \in {u, [u EXCEPT !.lease = NoTime]} /\ s.st \in {"dispatching", "delivery_uncertain"}
  <2>1. s.st \notin {"cancelled", "dispatched"} => s.st \in {"dispatching", "delivery_uncertain"}
    BY Zenon DEF Sent
  <2>2. d = IF s.action = "continue" THEN s
            ELSE IF e.status = "uncertain"
                   THEN IF s.st \notin {"cancelled", "dispatched"}
                          THEN [u EXCEPT !.lease = NoTime] ELSE q
            ELSE IF s.st \notin {"cancelled", "dispatched"} THEN u ELSE s
    BY Zenon DEF Doubted
  <2> HIDE DEF u, q
  <2> QED BY Zenon, <2>1, <2>2
<1> QED BY Zenon, <1>3, <1>4, <1>5, <1>6

\* A piece of evidence about a dispatched command keeps its row; a command that
\* failed before any provider I/O is reported on no more.
LEMMA ApplyEvidenceKeeps ==
    ASSUME NEW r \in Row, NEW e \in Evidence, RowInv(r), r.st \in Sent, r.cmd # "failed",
           ~(e.source \in {"matrix", "bridge"} /\ e.status = "delivered"),
           NEW a, a = ApplyEvidence(r, e)
    PROVE  Keeps(r, a) /\ a.due = r.due /\ a.created = r.created
<1>1. CASE <<e.source, e.id>> \in r.seen
  BY Zenon, <1>1 DEF ApplyEvidence, Keeps, Preserves, RowStep, Row
<1>2. CASE <<e.source, e.id>> \notin r.seen
  <2>1. PICK s : s = Staged(r, e)
    BY Zenon
  <2>2. /\ s \in Row /\ s.st = r.st /\ s.cmd = r.cmd /\ s.created = r.created
        /\ s.due = r.due /\ s.decision = r.decision /\ s.lease = r.lease
        /\ s.paused = r.paused /\ s.action = r.action /\ s.resendOf = r.resendOf
        /\ r.matrix # "delivered" => s.matrix # "delivered"
        /\ r.bridge # "delivered" => s.bridge # "delivered"
        /\ r.matrix # "unknown" => s.matrix # "unknown"
        /\ r.bridge # "unknown" => s.bridge # "unknown"
        /\ r.provider = "delivered" => s.provider = "delivered"
        /\ s.provider = "delivered" => r.provider = "delivered" \/ e.status = "delivered"
        /\ e.status = "delivered" => s.provider = "delivered"
        /\ Acknowledgement(e) => s.bridge # "unknown" \/ s.matrix # "unknown"
    BY <2>1, StagedRow
  <2>3. CASE e.status = "delivered"
    <3>1. a = Dispatched(s, {"cancelled"}, "delivered")
      BY Zenon, <1>2, <2>1, <2>3 DEF ApplyEvidence
    <3>2. /\ a \in Row
          /\ a.st = IF s.st = "cancelled" THEN "cancelled" ELSE "dispatched"
          /\ a.cmd = IF s.cmd \in {"cancelled"} THEN s.cmd ELSE "delivered"
          /\ s.st # "cancelled" => ~a.paused
          /\ s.st = "cancelled" => (a.paused <=> s.paused)
          /\ a.created = s.created /\ a.due = s.due /\ a.decision = s.decision
          /\ a.action = s.action /\ a.resendOf = s.resendOf /\ a.matrix = s.matrix
          /\ a.bridge = s.bridge /\ a.provider = s.provider
      BY <2>2, <3>1, DispatchedRow DEF CommandStatus
    <3>3. RowInv(a)
      BY <2>2, <2>3, <3>2 DEF RowInv, RowDue, RowPause, RowCancel, RowEvidence, Sent
    <3>4. RowStep(r, a)
      BY <2>2, <3>2 DEF RowStep, Sent
    <3>5. RowView(r) => RowView(a)
      BY <2>2, <3>2 DEF RowView, Sent
    <3> QED BY Zenon, <2>2, <3>2, <3>3, <3>4, <3>5 DEF Keeps, Preserves
  <2>4. CASE e.status # "delivered" /\ Acknowledgement(e)
    <3>1. a = Acknowledged(s, e)
      BY Zenon, <1>2, <2>1, <2>4 DEF ApplyEvidence
    <3>2. PICK kept, status :
            /\ a = Dispatched(s, kept, status)
            /\ {"cancelled", "delivered"} \subseteq kept
            /\ kept \subseteq {"cancelled", "delivered", "matrix_confirmed", "bridged"}
            /\ status \in {"bridged", "matrix_confirmed", "submitted_to_matrix"}
      BY <3>1 DEF Acknowledged
    <3>3. /\ a \in Row
          /\ a.st = IF s.st = "cancelled" THEN "cancelled" ELSE "dispatched"
          /\ a.cmd = IF s.cmd \in kept THEN s.cmd ELSE status
          /\ s.st # "cancelled" => ~a.paused
          /\ s.st = "cancelled" => (a.paused <=> s.paused)
          /\ a.created = s.created /\ a.due = s.due /\ a.decision = s.decision
          /\ a.action = s.action /\ a.resendOf = s.resendOf /\ a.matrix = s.matrix
          /\ a.bridge = s.bridge /\ a.provider = s.provider
      BY <2>2, <3>2, DispatchedRow DEF CommandStatus
    <3>4. RowInv(a)
      BY <2>2, <2>4, <3>2, <3>3 DEF RowInv, RowDue, RowPause, RowCancel, RowEvidence, Sent
    <3>5. RowStep(r, a)
      BY <2>2, <3>3 DEF RowStep, Sent
    <3>6. RowView(r) => RowView(a)
      BY <2>2, <2>4, <3>2, <3>3 DEF RowView, RowInv, RowEvidence, Sent
    <3>7. a.cmd = "failed" => r.cmd = "failed"
      BY Zenon, <2>2, <3>2, <3>3
    <3> QED BY <2>2, <3>3, <3>4, <3>5, <3>6, <3>7 DEF Keeps, Preserves
  <2>5. CASE e.status # "delivered" /\ ~Acknowledgement(e)
    <3>1. a = Doubted(s, e)
      BY Zenon, <1>2, <2>1, <2>5 DEF ApplyEvidence
    <3>2. /\ a \in Row
          /\ a.created = s.created /\ a.due = s.due /\ a.decision = s.decision
          /\ a.action = s.action /\ a.resendOf = s.resendOf /\ a.matrix = s.matrix
          /\ a.bridge = s.bridge /\ a.provider = s.provider
          /\ \/ a = s
             \/ /\ s.st \in {"dispatched", "cancelled"} /\ a.st = s.st /\ (a.paused <=> s.paused)
                /\ a.cmd = CmdUnless(s, {"cancelled", "delivered"}, "delivery_uncertain")
             \/ /\ s.st \in {"dispatching", "delivery_uncertain"}
                /\ a.st = "delivery_uncertain" /\ a.paused
                /\ a.cmd = CmdUnless(s, {"cancelled", "delivered"}, "delivery_uncertain")
      BY <2>2, <3>1, DoubtedRow
    <3>3. RowInv(a)
      BY <2>2, <2>5, <3>2 DEF RowInv, RowDue, RowPause, RowCancel, RowEvidence, CmdUnless
    <3>4. RowStep(r, a)
      BY <2>2, <3>2 DEF RowStep, Sent
    <3>5. RowView(r) => RowView(a)
      BY <2>2, <2>5, <3>2 DEF RowView, CmdUnless, RowInv, RowEvidence
    <3>6. a.cmd = "failed" => r.cmd = "failed"
      BY <2>2, <3>2 DEF CmdUnless
    <3> QED BY <2>2, <3>2, <3>3, <3>4, <3>5, <3>6 DEF Keeps, Preserves
  <2> QED BY Zenon, <2>3, <2>4, <2>5
<1> QED BY Zenon, <1>1, <1>2

\* reconcileOutbound with evidence about a dispatched command keeps its row: the
\* lifecycle write-back finds nothing to do, or a cancelled row.
LEMMA ReconcileEvidenceKeeps ==
    ASSUME NEW r \in Row, NEW e \in Evidence, RowInv(r), r.st \in Sent, r.cmd # "failed",
           ~(e.source \in {"matrix", "bridge"} /\ e.status = "delivered"),
           NEW t \in Nat, NEW available \in BOOLEAN
    PROVE  Keeps(r, ReconcileEvidence(r, e, t, available))
<1>1. PICK a : a = ApplyEvidence(r, e)
  BY Zenon
<1>2. Keeps(r, a) /\ a \in Row /\ a.due = r.due /\ a.created = r.created
  BY Zenon, <1>1, ApplyEvidenceKeeps DEF Keeps, Preserves
<1>3. PICK x : x = Lifecycle(r, t, available)
  BY Zenon
<1>4. /\ x \in Row /\ Keeps(r, x)
      /\ r.st \notin Transitionable => x = r
      /\ r.st = "cancelled" => x.st = "cancelled" /\ x.cmd = "cancelled"
  BY <1>3, LifecycleKeeps, LifecycleRow DEF Keeps, Preserves, Transitionable, CommandStatusForDispatch
<1>5. PICK y : y = ReconcileEvidence(r, e, t, available)
  BY Zenon
<1>6. y = [a EXCEPT !.st = IF a.st = r.st THEN x.st ELSE a.st,
                    !.due = IF a.st = r.st THEN x.due ELSE a.due,
                    !.cmd = IF a.cmd = r.cmd THEN x.cmd ELSE a.cmd]
  BY Zenon, <1>1, <1>3, <1>5 DEF ReconcileEvidence, WriteBack
<1>7. CASE r.st # "cancelled"
  <2>1. x = r
    BY Zenon, <1>4, <1>7 DEF Sent, Transitionable
  <2>2. y = a
    <3>1. y = [a EXCEPT !.st = a.st, !.due = a.due, !.cmd = a.cmd]
      BY ZenonT(60), <1>2, <1>6, <2>1
    <3> QED BY ZenonT(60), <1>2, <3>1 DEF Row
  <2> QED BY Zenon, <1>2, <1>5, <2>2
<1>8. CASE r.st = "cancelled"
  <2>1. a.st = "cancelled"
    BY Zenon, <1>2, <1>8 DEF Keeps, Preserves, RowStep
  <2>2. \E c \in {"cancelled", a.cmd} : y = [a EXCEPT !.st = x.st, !.due = x.due, !.cmd = c]
    BY ZenonT(60), <1>4, <1>6, <1>8, <2>1
  <2>3. PICK c \in {"cancelled", a.cmd} : y = [a EXCEPT !.st = x.st, !.due = x.due, !.cmd = c]
    BY ZenonT(60), <2>2
  <2>4. c \in CommandStatus /\ x.st = "cancelled" /\ x.st \in DispatchStatus /\ x.due \in Nat
    BY <1>2, <1>4, <1>8 DEF Row, CommandStatus
  <2>5. y \in Row
    BY ZenonT(60), <1>2, <2>3, <2>4 DEF Row
  <2>6. /\ y.st = "cancelled" /\ y.due = x.due /\ y.cmd = c /\ (y.paused <=> a.paused)
        /\ y.created = a.created /\ y.decision = a.decision /\ y.action = a.action
        /\ y.matrix = a.matrix /\ y.bridge = a.bridge /\ y.provider = a.provider
        /\ y.resendOf = a.resendOf
    BY Zenon, <1>2, <2>3, <2>4 DEF Row
  <2>7. RowDue(y)
    <3>1. RowDue(x) /\ x.created = r.created
      BY <1>3, <1>4, LifecycleRow DEF Keeps, Preserves, RowInv
    <3> QED BY Zenon, <1>2, <2>6, <3>1 DEF RowDue
  <2>8. RowInv(y)
    BY Zenon, <1>2, <2>1, <2>6, <2>7 DEF Keeps, Preserves, RowInv, RowPause, RowCancel, RowEvidence
  <2>9. RowStep(r, y)
    BY <1>2, <1>8, <2>6 DEF Keeps, Preserves, RowStep, Sent
  <2>10. RowView(r) => RowView(y)
    BY Zenon, <1>2, <2>1, <2>3, <2>6 DEF Keeps, Preserves, RowView
  <2>11. y.cmd = "failed" => r.cmd = "failed"
    BY Zenon, <1>2, <2>6 DEF Keeps
  <2> QED BY Zenon, <1>5, <2>5, <2>8, <2>9, <2>10, <2>11 DEF Keeps, Preserves
<1> QED BY Zenon, <1>7, <1>8

\* The row restored by completeRebuild keeps the ledger columns, and a cleared
\* view is recomputed from them.
LEMMA RestoreRow ==
    ASSUME NEW r \in Row, RowInv(r), NEW x, x = Restore(r)
    PROVE  /\ x \in Row /\ RowInv(x) /\ RowStep(r, x)
           /\ r.cmd = "cleared" => RowView(x)
           /\ x.cmd = "failed" => r.cmd = "failed"
<1>1. CASE r.cmd # "cleared"
  BY Zenon, <1>1 DEF Restore, RowStep
<1>2. CASE r.cmd = "cleared"
  <2>1. PICK c : c = RestoredCommandStatus(r)
    BY Zenon
  <2>2. /\ c \in CommandStatus /\ c # "failed"
        /\ r.st \in {"waiting_for_connection", "confirmation_required", "cancelled",
                      "delivery_uncertain"} => c = r.st
        /\ r.st \in {"pending", "dispatching"} => c = "accepted"
        /\ r.st = "dispatched" => c \in {"submitted_to_matrix", "matrix_confirmed",
                                         "bridged", "delivered"}
        /\ r.st = "dispatched" /\ r.provider = "delivered" => c = "delivered"
    BY <2>1 DEF RestoredCommandStatus, Row, DispatchStatus, CommandStatus, Stage, RowInv, RowEvidence
  <2>3. x = [r EXCEPT !.cmd = c]
    BY Zenon, <1>2, <2>1 DEF Restore
  <2>4. x \in Row
    BY <2>2, <2>3 DEF Row
  <2>5. RowInv(x)
    BY <2>2, <2>3 DEF RowInv, RowDue, RowPause, RowCancel, RowEvidence, Row
  <2>6. RowStep(r, x)
    BY Zenon, <2>3 DEF RowStep, Row
  <2>7. RowView(x) /\ x.cmd # "failed"
    BY Zenon, <2>2, <2>3 DEF RowView, Row
  <2> QED BY Zenon, <1>2, <2>4, <2>5, <2>6, <2>7
<1> QED BY Zenon, <1>1, <1>2

\* The removal fence of a restored row keeps the row invariant.
LEMMA FenceRow ==
    ASSUME NEW r \in Row, RowInv(r), NEW x, x = Fence(r)
    PROVE  /\ x \in Row /\ RowInv(x) /\ RowStep(r, x)
           /\ x.cmd = "failed" => r.cmd = "failed"
<1> DEFINE unsent == {"pending", "waiting_for_connection", "confirmation_required", "wakeup_failed"}
           st == IF r.st \in unsent THEN "cancelled"
                 ELSE IF r.st = "dispatching" THEN "delivery_uncertain" ELSE r.st
           cmd == IF r.cmd \in {"accepted", "waiting_for_connection", "confirmation_required",
                                "submitted_to_matrix"} THEN "cancelled" ELSE r.cmd
           lease == IF r.st \in unsent \cup {"dispatching", "delivery_uncertain"} THEN NoTime
                    ELSE r.lease
           paused == r.paused \/ r.st \in {"dispatching", "delivery_uncertain"}
<1>1. x = [r EXCEPT !.st = st, !.paused = paused, !.lease = lease, !.cmd = cmd]
  BY Zenon DEF Fence
<1>2. st \in DispatchStatus /\ cmd \in CommandStatus /\ lease \in Nat
  BY DEF Row, DispatchStatus, CommandStatus, NoTime
<1>3. paused \in BOOLEAN
  BY Zenon
<1>4. /\ r.st \in Sent => st \in Sent
      /\ r.st \in {"dispatched", "cancelled"} => st = r.st
      /\ st \notin {"waiting_for_connection", "confirmation_required", "dispatching", "wakeup_failed"}
      /\ st = "dispatched" => r.st = "dispatched"
      /\ st = "delivery_uncertain" <=> r.st \in {"dispatching", "delivery_uncertain"}
      /\ r.st \in {"cancelled", "delivery_uncertain"} => st = r.st
  BY Zenon DEF Sent
<1>5. cmd = "failed" => r.cmd = "failed"
  BY Zenon
<1>6. paused <=> st = "delivery_uncertain"
  BY Zenon, <1>4 DEF RowInv, RowPause
<1> HIDE DEF st, cmd, lease, paused
<1>7. x \in Row
  BY ZenonT(60), <1>1, <1>2, <1>3 DEF Row
<1>8. /\ x.st = st /\ x.cmd = cmd /\ (x.paused <=> paused) /\ x.created = r.created
      /\ x.due = r.due /\ x.decision = r.decision /\ x.action = r.action /\ x.matrix = r.matrix
      /\ x.bridge = r.bridge /\ x.provider = r.provider /\ x.resendOf = r.resendOf
  BY <1>1 DEF Row
<1>9. RowInv(x)
  BY <1>4, <1>5, <1>6, <1>8 DEF RowInv, RowDue, RowPause, RowCancel, RowEvidence
<1>10. RowStep(r, x)
  BY Zenon, <1>4, <1>8 DEF RowStep, Sent
<1> QED BY Zenon, <1>5, <1>7, <1>8, <1>9, <1>10

-----------------------------------------------------------------------------
(* The ledger *)


\* A nonempty set of clock ticks has its minimum among its elements.
LEMMA MinOfTicks ==
    ASSUME NEW S, S \subseteq Nat, S # {}
    PROVE  Min(S) \in S
<1> DEFINE R == {p \in Nat \X Nat : p[1] < p[2]}
<1>1. IsWellFoundedOn(R, Nat)
  BY NatLessThanWellFounded, Zenon DEF OpToRel
<1>2. PICK x \in S : \A y \in S : <<y, x>> \notin R
  <2> HIDE DEF R
  <2> QED BY ZenonT(60), <1>1, WFMin
<1>3. \A y \in S : x =< y
  <2> SUFFICES ASSUME NEW y \in S PROVE x =< y
    BY Zenon
  <2>1. x \in Nat /\ y \in Nat /\ <<y, x>> \in Nat \X Nat
    BY Zenon
  <2>2. <<y, x>>[1] = y /\ <<y, x>>[2] = x
    BY Zenon
  <2>3. ~(y < x)
    BY Zenon, <1>2, <2>1, <2>2
  <2> QED BY <2>1, <2>3
<1> QED BY ZenonT(60), <1>3 DEF Min

\* The alarm is set to a clock tick.
LEMMA NextOutboundAlarmType ==
    ASSUME NEW rs \in [Commands -> Row], now \in Nat
    PROVE  NextOutboundAlarm(rs) \in Nat
<1> DEFINE ahead == {d \in {Deadline(rs[c]) : c \in
                          {c \in Commands : /\ rs[c].st \in {"waiting_for_connection",
                                                             "pending", "dispatching"}
                                            /\ rs[c].decision = "none"}} : d > now}
<1>1. \A r \in Row : Deadline(r) \in Nat
  BY Zenon DEF Deadline, Row
<1>2. ahead \subseteq Nat
  BY Zenon, <1>1
<1>3. NextOutboundAlarm(rs) = IF ahead = {} THEN NoTime ELSE Min(ahead)
  BY Zenon DEF NextOutboundAlarm
<1> HIDE DEF ahead
<1>4. ahead # {} => Min(ahead) \in ahead
  BY ZenonT(60), <1>2, MinOfTicks
<1>5. CASE ahead = {}
  BY <1>3, <1>5 DEF NoTime
<1>6. CASE ahead # {}
  BY ZenonT(60), <1>2, <1>3, <1>4, <1>6
<1> QED BY Zenon, <1>5, <1>6

-----------------------------------------------------------------------------
(* The state invariant *)

RowsInv == \A c \in Commands : RowInv(rows[c])

\* A handler that may still report has taken the lease, and neither failed nor
\* was cancelled before it
CallersInv ==
    \A c \in callers : /\ rows[c].st \in Sent /\ rows[c].cmd # "failed"
                       /\ rows[c].decision # "cancel"

\* The command view: right while ready, deleted while not; a rebuild fences only
\* removed messages
ViewInv ==
    /\ Ready => \A c \in Commands \ removed : RowView(rows[c])
    /\ ~Ready => \A c \in Commands : rows[c].cmd = "cleared"
    /\ meta.fence \subseteq removed \cup {NoCommand}

Inv == TypeOK /\ RowsInv /\ CallersInv /\ ViewInv /\ ResendOnlyAfterDoubt

\* What a step of the system may do to the rows
LedgerStep == \A c \in Commands : RowStep(rows[c], rows'[c])

\* The part of the invariant about the rows
RowsOK == rows \in [Commands -> Row] /\ RowsInv /\ CallersInv /\ ViewInv /\ ResendOnlyAfterDoubt

\* A method that rewrites one row of a ready projection and preserves it, and
\* whose caller is known, preserves the invariant of the rows.
LEMMA OneRowStep ==
    ASSUME Inv, NEW c \in Commands, NEW s, Preserves(rows[c], s),
           rows' = [rows EXCEPT ![c] = s], Ready, meta' = meta, removed' = removed,
           callers' \subseteq callers \cup {c},
           c \in callers' => s.st \in Sent /\ s.cmd # "failed" /\ s.decision # "cancel",
           rows[c].st = "absent" /\ s.st # "absent" => s.resendOf = NoCommand
    PROVE  RowsOK' /\ LedgerStep
<1>1. rows' \in [Commands -> Row] /\ \A d \in Commands : rows'[d] = IF d = c THEN s ELSE rows[d]
  BY Zenon DEF Inv, TypeOK, Preserves
<1>2. RowsInv'
  BY Zenon, <1>1 DEF Inv, RowsInv, Preserves
<1>3. CallersInv'
  BY <1>1 DEF Inv, CallersInv, TypeOK
<1>4. ViewInv'
  BY Zenon, <1>1 DEF Inv, ViewInv, Preserves, Ready
<1>5. LedgerStep
  BY Zenon, <1>1 DEF LedgerStep, RowStep, Preserves
<1>6. ResendOnlyAfterDoubt'
  <2> SUFFICES ASSUME NEW d \in Commands, rows'[d].resendOf # NoCommand
               PROVE  rows'[rows'[d].resendOf].st \in {"delivery_uncertain", "dispatched", "cancelled"}
    BY Zenon DEF ResendOnlyAfterDoubt
  <2>1. rows[d] \in Row
    BY Zenon DEF Inv, TypeOK
  <2>2. rows'[d].resendOf = rows[d].resendOf
    BY Zenon, <1>1 DEF Preserves, RowStep
  <2>3. rows[d].resendOf \in Commands
    BY Zenon, <2>1, <2>2 DEF Row
  <2>4. rows[rows[d].resendOf].st \in {"delivery_uncertain", "dispatched", "cancelled"}
    BY Zenon, <2>2 DEF Inv, ResendOnlyAfterDoubt
  <2> QED BY <1>5, <2>2, <2>3, <2>4 DEF LedgerStep, RowStep, Sent
<1> QED BY Zenon, <1>1, <1>2, <1>3, <1>4, <1>5, <1>6 DEF RowsOK

\* A step that leaves the rows, the callers, the removals and the projection
\* state alone preserves the invariant of the rows.
LEMMA SameRowsStep ==
    ASSUME Inv, UNCHANGED <<rows, meta>>, callers' \subseteq callers, removed \subseteq removed'
    PROVE  RowsOK' /\ LedgerStep
<1>1. rows' \in [Commands -> Row] /\ RowsInv' /\ ResendOnlyAfterDoubt'
  BY Zenon DEF Inv, TypeOK, RowsInv, ResendOnlyAfterDoubt
<1>2. CallersInv'
  BY Zenon DEF Inv, CallersInv
<1>3. ViewInv'
  BY Zenon DEF Inv, ViewInv, Ready
<1>4. LedgerStep
  BY Zenon DEF LedgerStep, RowStep
<1> QED BY Zenon, <1>1, <1>2, <1>3, <1>4 DEF RowsOK

\* The type of the variables other than the rows
RestType == /\ keys \subseteq ActionKeys /\ removed \subseteq Commands /\ claimers \subseteq Commands
            /\ callers \subseteq Commands /\ alarm \in Nat /\ now \in Nat \ {0}
            /\ sweep \in [at: Nat, todo: SUBSET Commands]
            /\ meta \in [state: {"ready", "rebuilding", "rebuild_failed"}, rebuilds: Nat,
                         fence: SUBSET (Commands \cup {NoCommand})]

\* acceptTextReply saves a new row or returns the saved one.
LEMMA AcceptStep ==
    ASSUME Inv, NEW c \in Commands, AcceptTextReply(c) \/ ReplayTextReply(c)
    PROVE  RowsOK' /\ RestType' /\ LedgerStep
<1>1. CASE AcceptTextReply(c)
  <2>1. PICK t \in Stamps, available \in BOOLEAN :
          /\ rows' = [rows EXCEPT ![c] = NewRow(t, available, NoCommand)]
          /\ claimers' = IF available THEN claimers \cup {c} ELSE claimers
          /\ alarm' \in {alarm, NextOutboundAlarm(rows')}
    BY ZenonT(60), <1>1 DEF AcceptTextReply, ScheduleCombinedAlarm
  <2>2. t \in Nat \ {0}
    BY DEF Stamps, Inv, TypeOK
  <2>3. PICK s : s = NewRow(t, available, NoCommand)
    BY Zenon
  <2>4. s \in Row /\ RowInv(s) /\ RowView(s) /\ s.resendOf = NoCommand
    BY <2>2, <2>3, NewRowType, NewRowInv DEF NewRow, SavedRow
  <2>5. Preserves(rows[c], s)
    <3>1. rows[c].st = "absent"
      BY Zenon, <1>1 DEF AcceptTextReply
    <3>2. s.st \in {"pending", "waiting_for_connection"}
      BY Zenon, <2>3 DEF NewRow, SavedRow
    <3>3. RowStep(rows[c], s)
      BY Zenon, <3>1, <3>2 DEF RowStep, Sent
    <3> QED BY Zenon, <2>4, <3>3 DEF Preserves
  <2>6. callers' = callers /\ meta' = meta /\ removed' = removed /\ Ready
        /\ rows[c].st = "absent" /\ UNCHANGED <<keys, sweep, now>>
    BY Zenon, <1>1 DEF AcceptTextReply
  <2>7. c \notin callers
    BY Zenon, <2>6 DEF Inv, CallersInv, Sent
  <2>8. RowsOK' /\ LedgerStep
    BY ZenonT(60), <2>1, <2>3, <2>4, <2>5, <2>6, <2>7, OneRowStep
  <2>9. RestType'
    <3>1. rows' \in [Commands -> Row] /\ now \in Nat
      BY Zenon, <2>8 DEF RowsOK, Inv, TypeOK
    <3>2. PICK rs \in [Commands -> Row] : rs = rows'
      BY Zenon, <3>1
    <3>3. NextOutboundAlarm(rs) \in Nat
      BY Zenon, <3>1, NextOutboundAlarmType
    <3>4. alarm \in Nat
      BY Zenon DEF Inv, TypeOK
    <3>5. alarm' \in {alarm, NextOutboundAlarm(rs)}
      BY Zenon, <2>1, <3>2
    <3>6. alarm' \in Nat
      BY Zenon, <3>3, <3>4, <3>5
    <3> QED BY Zenon, <2>1, <2>6, <3>6 DEF RestType, Inv, TypeOK
  <2> QED BY Zenon, <2>8, <2>9
<1>2. CASE ReplayTextReply(c)
  <2>1. RowsOK' /\ LedgerStep
    BY Zenon, <1>2, SameRowsStep DEF ReplayTextReply
  <2>2. RestType'
    BY Zenon, <1>2, NextOutboundAlarmType DEF ReplayTextReply, ScheduleCombinedAlarm, RestType, Inv, TypeOK
  <2> QED BY Zenon, <2>1, <2>2
<1> QED BY Zenon, <1>1, <1>2

\* Claiming a dispatch, losing the claim, failing it, and losing the caller.
LEMMA DispatchStep ==
    ASSUME Inv, NEW c \in Commands,
           \/ ClaimOutboundDispatch(c) \/ ClaimLost(c)
           \/ FailOutboundDispatch(c) \/ CallerLost(c)
    PROVE  RowsOK' /\ RestType' /\ LedgerStep
<1>0. rows[c] \in Row /\ RowInv(rows[c])
  BY Zenon DEF Inv, TypeOK, RowsInv
<1>1. CASE ClaimOutboundDispatch(c)
  <2>1. PICK t \in Stamps :
          /\ rows' = [rows EXCEPT ![c] = Claim(rows[c], t)]
          /\ callers' = IF rows'[c].st = "dispatching" THEN callers \cup {c} ELSE callers
    BY ZenonT(60), <1>1 DEF ClaimOutboundDispatch
  <2>2. t \in Nat
    BY DEF Stamps
  <2>3. PICK s : s = Claim(rows[c], t)
    BY Zenon
  <2>4. Keeps(rows[c], s)
    BY Zenon, <1>0, <2>2, <2>3, ClaimKeeps
  <2>5. rows'[c] = s
    BY Zenon, <2>1, <2>3 DEF Inv, TypeOK
  <2>6. c \in callers' => s.st \in Sent /\ s.cmd # "failed" /\ s.decision # "cancel"
    <3>1. CASE s.st = "dispatching"
      BY Zenon, <2>4, <3>1 DEF Keeps, Preserves, RowInv, RowCancel, Sent
    <3>2. CASE s.st # "dispatching"
      BY Zenon, <2>1, <2>4, <2>5, <3>2 DEF Keeps, Preserves, RowStep, Inv, CallersInv
    <3> QED BY Zenon, <3>1, <3>2
  <2>7. rows[c].st = "absent" => s.st = "absent"
    BY Zenon, <2>3 DEF Claim
  <2>8. UNCHANGED <<keys, removed, alarm, sweep, meta, now>> /\ Ready
        /\ claimers' = claimers \ {c}
    BY Zenon, <1>1 DEF ClaimOutboundDispatch
  <2>9. RowsOK' /\ LedgerStep
    BY ZenonT(60), <2>1, <2>3, <2>4, <2>6, <2>7, <2>8, OneRowStep DEF Keeps
  <2> QED BY Zenon, <2>1, <2>8, <2>9 DEF RestType, Inv, TypeOK
<1>2. CASE ClaimLost(c)
  <2>1. RowsOK' /\ LedgerStep
    BY Zenon, <1>2, SameRowsStep DEF ClaimLost
  <2> QED BY Zenon, <1>2, <2>1 DEF ClaimLost, RestType, Inv, TypeOK
<1>3. CASE FailOutboundDispatch(c)
  <2>1. /\ rows' = [rows EXCEPT ![c] = Fail(rows[c])] /\ callers' = callers \ {c}
        /\ UNCHANGED <<keys, removed, claimers, alarm, sweep, meta, now>> /\ Ready
        /\ rows[c].st = "dispatching"
    BY Zenon, <1>3 DEF FailOutboundDispatch
  <2>2. Preserves(rows[c], Fail(rows[c]))
    BY Zenon, <1>0, <2>1, FailKeeps
  <2>3. RowsOK' /\ LedgerStep
    BY ZenonT(60), <2>1, <2>2, OneRowStep
  <2> QED BY Zenon, <2>1, <2>3 DEF RestType, Inv, TypeOK
<1>4. CASE CallerLost(c)
  <2>1. RowsOK' /\ LedgerStep
    BY Zenon, <1>4, SameRowsStep DEF CallerLost
  <2> QED BY Zenon, <1>4, <2>1 DEF CallerLost, RestType, Inv, TypeOK
<1> QED BY Zenon, <1>1, <1>2, <1>3, <1>4

\* Evidence about a dispatched command, and a poll.
LEMMA ReconcileStep ==
    ASSUME Inv, NEW c \in Commands,
           PollCommand(c) \/ \E e \in Reports : ReportEvidence(c, e)
    PROVE  RowsOK' /\ RestType' /\ LedgerStep
<1>0. rows[c] \in Row /\ RowInv(rows[c])
  BY Zenon DEF Inv, TypeOK, RowsInv
<1>1. \E s : /\ Keeps(rows[c], s) /\ rows' = [rows EXCEPT ![c] = s] /\ rows[c].st # "absent"
             /\ Ready /\ UNCHANGED <<keys, removed, claimers, callers, alarm, sweep, meta, now>>
  <2>1. CASE PollCommand(c)
    <3>1. PICK t \in Stamps, available \in BOOLEAN :
            rows' = [rows EXCEPT ![c] = Reconcile(rows[c], t, available)]
      BY ZenonT(60), <2>1 DEF PollCommand
    <3>2. Keeps(rows[c], Reconcile(rows[c], t, available))
      BY <1>0, ReconcileKeeps DEF Stamps
    <3> QED BY ZenonT(60), <2>1, <3>1, <3>2 DEF PollCommand
  <2>2. CASE \E e \in Reports : ReportEvidence(c, e)
    <3>1. PICK e \in Reports, t \in Stamps, available \in BOOLEAN :
            /\ rows' = [rows EXCEPT ![c] = ReconcileEvidence(rows[c], e, t, available)]
            /\ ~(e.source \in {"matrix", "bridge"} /\ e.status = "delivered")
            /\ Ready /\ c \in callers
            /\ UNCHANGED <<keys, removed, claimers, callers, alarm, sweep, meta, now>>
      BY ZenonT(60), <2>2 DEF ReportEvidence
    <3>2. e \in Evidence /\ t \in Nat
      BY ReportsAssumption DEF Stamps
    <3>3. rows[c].st \in Sent /\ rows[c].cmd # "failed"
      BY Zenon, <3>1 DEF Inv, CallersInv
    <3>4. Keeps(rows[c], ReconcileEvidence(rows[c], e, t, available))
      BY Zenon, <1>0, <3>1, <3>2, <3>3, ReconcileEvidenceKeeps
    <3> QED BY ZenonT(60), <3>1, <3>3, <3>4 DEF Sent
  <2> QED BY Zenon, <2>1, <2>2
<1>2. PICK s : /\ Keeps(rows[c], s) /\ rows' = [rows EXCEPT ![c] = s] /\ rows[c].st # "absent"
               /\ Ready /\ UNCHANGED <<keys, removed, claimers, callers, alarm, sweep, meta, now>>
  BY ZenonT(60), <1>1
<1>3. c \in callers' => s.st \in Sent /\ s.cmd # "failed" /\ s.decision # "cancel"
  BY Zenon, <1>2 DEF Keeps, Preserves, RowStep, Inv, CallersInv
<1>4. RowsOK' /\ LedgerStep
  BY ZenonT(60), <1>2, <1>3, OneRowStep DEF Keeps
<1> QED BY Zenon, <1>2, <1>4 DEF RestType, Inv, TypeOK

\* Human decisions: confirming or cancelling saved work, acting on an uncertain
\* command without a new dispatch.
LEMMA DecideStep ==
    ASSUME Inv, NEW c \in Commands, NEW k \in ActionKeys,
           \/ \E d \in {"confirm", "cancel"} : DecideOutbound(c, d, k)
           \/ \E a \in {"cancel", "continue"} : ActOnUncertain(c, a, k)
    PROVE  RowsOK' /\ RestType' /\ LedgerStep
<1>0. rows[c] \in Row /\ RowInv(rows[c])
  BY Zenon DEF Inv, TypeOK, RowsInv
<1>1. CASE \E d \in {"confirm", "cancel"} : DecideOutbound(c, d, k)
  <2>1. PICK d \in {"confirm", "cancel"} : DecideOutbound(c, d, k)
    BY Zenon, <1>1
  <2>2. PICK t \in Stamps, available \in BOOLEAN :
          /\ MayDecide(rows[c], d, t)
          /\ rows' = [rows EXCEPT ![c] = Decide(rows[c], d, t, available)]
    BY ZenonT(60), <2>1 DEF DecideOutbound
  <2>3. Keeps(rows[c], Decide(rows[c], d, t, available))
    BY <1>0, <2>2, DecideKeeps DEF Stamps
  <2>4. rows[c].st \notin Sent /\ rows[c].st # "absent"
    BY Zenon, <2>2 DEF MayDecide, Sent
  <2>5. /\ Ready /\ UNCHANGED <<removed, callers, alarm, sweep, meta, now>>
        /\ keys' = keys \cup {k} /\ claimers' \subseteq claimers \cup {c}
    BY Zenon, <2>1 DEF DecideOutbound
  <2>6. c \notin callers'
    BY Zenon, <2>4, <2>5 DEF Inv, CallersInv
  <2>7. RowsOK' /\ LedgerStep
    BY ZenonT(60), <2>2, <2>3, <2>4, <2>5, <2>6, OneRowStep DEF Keeps
  <2> QED BY Zenon, <2>5, <2>7 DEF RestType, Inv, TypeOK
<1>2. CASE \E a \in {"cancel", "continue"} : ActOnUncertain(c, a, k)
  <2>1. PICK a \in {"cancel", "continue"} : ActOnUncertain(c, a, k)
    BY Zenon, <1>2
  <2>2. /\ rows' = [rows EXCEPT ![c] = Act(rows[c], a)] /\ rows[c].st = "delivery_uncertain"
        /\ Ready /\ keys' = keys \cup {k}
        /\ UNCHANGED <<removed, claimers, callers, alarm, sweep, meta, now>>
    BY Zenon, <2>1 DEF ActOnUncertain
  <2>3. PICK s : s = Act(rows[c], a)
    BY Zenon
  <2>4. Keeps(rows[c], s)
    BY Zenon, <1>0, <2>2, <2>3, ActKeeps
  <2>5. c \in callers' => s.st \in Sent /\ s.cmd # "failed" /\ s.decision # "cancel"
    BY Zenon, <2>2, <2>4 DEF Keeps, Preserves, RowStep, Inv, CallersInv
  <2>6. RowsOK' /\ LedgerStep
    BY ZenonT(60), <2>2, <2>3, <2>4, <2>5, OneRowStep DEF Keeps
  <2> QED BY Zenon, <2>2, <2>6 DEF RestType, Inv, TypeOK
<1> QED BY Zenon, <1>1, <1>2

\* An acknowledged resend rewrites the uncertain row and saves a new one.
LEMMA ResendStep ==
    ASSUME Inv, NEW c \in Commands, NEW new \in Commands, NEW k \in ActionKeys,
           ResendUncertain(c, new, k)
    PROVE  RowsOK' /\ RestType' /\ LedgerStep
<1>1. PICK t \in Stamps, available \in BOOLEAN :
        rows' = [rows EXCEPT ![c] = Act(rows[c], "resend"), ![new] = NewRow(t, available, c)]
  BY ZenonT(60) DEF ResendUncertain
<1>2. /\ new # c /\ rows[new].st = "absent" /\ rows[c].st = "delivery_uncertain" /\ Ready
      /\ keys' = keys \cup {k} /\ UNCHANGED <<removed, claimers, callers, alarm, sweep, meta, now>>
  BY Zenon DEF ResendUncertain
<1>3. PICK s : s = Act(rows[c], "resend")
  BY Zenon
<1>4. PICK n : n = NewRow(t, available, c)
  BY Zenon
<1>5. Keeps(rows[c], s)
  BY Zenon, <1>2, <1>3, ActKeeps DEF Inv, TypeOK, RowsInv
<1>6. t \in Nat \ {0}
  BY DEF Stamps, Inv, TypeOK
<1>7. n \in Row /\ RowInv(n) /\ RowView(n) /\ n.resendOf = c
  BY ZenonT(60), <1>4, <1>6, NewRowType, NewRowInv DEF NewRow, SavedRow
<1>8. /\ rows' \in [Commands -> Row]
      /\ \A d \in Commands : rows'[d] = IF d = new THEN n ELSE IF d = c THEN s ELSE rows[d]
  BY Zenon, <1>1, <1>2, <1>3, <1>4, <1>5, <1>7 DEF Inv, TypeOK, Keeps, Preserves
<1>9. RowsInv'
  BY ZenonT(60), <1>5, <1>7, <1>8 DEF Inv, RowsInv, Keeps, Preserves
<1>10. LedgerStep
  <2>1. RowStep(rows[new], n)
    BY ZenonT(60), <1>2, <1>4 DEF RowStep, Sent, NewRow, SavedRow
  <2>2. \A d \in Commands : RowStep(rows[d], rows[d])
    BY Zenon DEF RowStep
  <2> QED BY Zenon, <1>5, <1>8, <2>1, <2>2 DEF LedgerStep, Keeps, Preserves
<1>11. CallersInv'
  <2>1. new \notin callers
    BY ZenonT(60), <1>2 DEF Inv, CallersInv, Sent
  <2> QED BY <1>2, <1>5, <1>8, <2>1 DEF Inv, CallersInv, TypeOK, Keeps, Preserves, RowStep
<1>12. ViewInv'
  BY ZenonT(60), <1>2, <1>5, <1>7, <1>8 DEF Inv, ViewInv, Ready, Keeps, Preserves
<1>13. ResendOnlyAfterDoubt'
  <2> SUFFICES ASSUME NEW d \in Commands, rows'[d].resendOf # NoCommand
               PROVE  rows'[rows'[d].resendOf].st \in {"delivery_uncertain", "dispatched", "cancelled"}
    BY Zenon DEF ResendOnlyAfterDoubt
  <2>1. CASE d = new
    BY ZenonT(60), <1>2, <1>7, <1>8, <1>10, <2>1 DEF LedgerStep, RowStep, Sent
  <2>2. CASE d # new
    <3>1. rows'[d].resendOf = rows[d].resendOf
      BY ZenonT(60), <1>2, <1>5, <1>8, <2>2 DEF Keeps, Preserves, RowStep
    <3>2. rows[d].resendOf \in Commands
      BY Zenon, <3>1 DEF Inv, TypeOK, Row
    <3>3. rows[rows[d].resendOf].st \in {"delivery_uncertain", "dispatched", "cancelled"}
      BY Zenon, <3>1 DEF Inv, ResendOnlyAfterDoubt
    <3> QED BY <1>10, <3>1, <3>2, <3>3 DEF LedgerStep, RowStep, Sent
  <2> QED BY Zenon, <2>1, <2>2
<1> QED BY Zenon, <1>2, <1>8, <1>9, <1>10, <1>11, <1>12, <1>13 DEF RowsOK, RestType, Inv, TypeOK

\* The alarm handler: its start, one row, its end and its retry.
LEMMA AlarmHandlerStep ==
    ASSUME Inv, AlarmStart \/ AlarmFinish \/ AlarmRetry \/ \E c \in Commands : AlarmRow(c)
    PROVE  RowsOK' /\ RestType' /\ LedgerStep
<1>1. CASE AlarmStart \/ AlarmFinish \/ AlarmRetry
  <2>1. RowsOK' /\ LedgerStep
    BY ZenonT(60), <1>1, SameRowsStep DEF AlarmStart, AlarmFinish, AlarmRetry
  <2>2. rows \in [Commands -> Row] /\ now \in Nat
    BY Zenon DEF Inv, TypeOK
  <2>3. NextOutboundAlarm(rows) \in Nat
    BY Zenon, <2>2, NextOutboundAlarmType
  <2>4. UNCHANGED <<rows, keys, removed, claimers, callers, meta, now>>
    BY Zenon, <1>1 DEF AlarmStart, AlarmFinish, AlarmRetry
  <2>5. alarm' \in Nat
    BY <1>1, <2>3, <2>4 DEF AlarmStart, AlarmFinish, AlarmRetry, ScheduleCombinedAlarm, NoTime, Inv, TypeOK
  <2>6. sweep' \in [at: Nat, todo: SUBSET Commands]
    BY <1>1, <2>2 DEF AlarmStart, AlarmFinish, AlarmRetry, Idle, NoTime, Inv, TypeOK
  <2> QED BY Zenon, <2>1, <2>4, <2>5, <2>6 DEF RestType, Inv, TypeOK
<1>2. ASSUME NEW c \in Commands, AlarmRow(c)
      PROVE  RowsOK' /\ RestType' /\ LedgerStep
  <2>1. PICK available \in BOOLEAN :
          rows' = [rows EXCEPT ![c] = IF rows[c].cmd = "cleared" THEN rows[c]
                                      ELSE AlarmStep(rows[c], sweep.at, available)]
    BY ZenonT(60), <1>2 DEF AlarmRow
  <2>2. /\ UNCHANGED <<keys, removed, claimers, callers, alarm, meta, now>>
        /\ sweep' = [sweep EXCEPT !.todo = @ \ {c}]
    BY Zenon, <1>2 DEF AlarmRow
  <2>3. RestType'
    BY Zenon, <2>2 DEF RestType, Inv, TypeOK
  <2>4. CASE rows[c].cmd = "cleared"
    <3>1. rows' = rows
      BY Zenon, <2>1, <2>4 DEF Inv, TypeOK
    <3> QED BY Zenon, <2>2, <2>3, <3>1, SameRowsStep
  <2>5. CASE rows[c].cmd # "cleared"
    <3>1. Ready
      BY Zenon, <2>5 DEF Inv, ViewInv
    <3>2. PICK s : s = AlarmStep(rows[c], sweep.at, available)
      BY Zenon
    <3>3. Keeps(rows[c], s)
      BY Zenon, <3>2, AlarmStepKeeps DEF Inv, TypeOK, RowsInv
    <3>4. c \in callers' => s.st \in Sent /\ s.cmd # "failed" /\ s.decision # "cancel"
      BY Zenon, <2>2, <3>3 DEF Keeps, Preserves, RowStep, Inv, CallersInv
    <3>5. rows[c].st = "absent" => s.st = "absent"
      BY Zenon, <3>2 DEF AlarmStep
    <3>6. RowsOK' /\ LedgerStep
      BY ZenonT(60), <2>1, <2>2, <2>5, <3>1, <3>2, <3>3, <3>4, <3>5, OneRowStep DEF Keeps
    <3> QED BY Zenon, <2>3, <3>6
  <2> QED BY Zenon, <2>4, <2>5
<1> QED BY Zenon, <1>1, <1>2

\* A rebuild clears the command view and recomputes it; a removal and the clock
\* leave the rows alone.
LEMMA RebuildStep ==
    ASSUME Inv, \/ BeginRebuild \/ LoadRestoreAuthority \/ CompleteRebuild \/ AbortRebuild
                \/ Tick \/ \E c \in Commands : Remove(c)
    PROVE  RowsOK' /\ RestType' /\ LedgerStep
<1>1. CASE Tick \/ \E c \in Commands : Remove(c)
  <2>1. RowsOK' /\ LedgerStep
    BY ZenonT(60), <1>1, SameRowsStep DEF Tick, Remove
  <2> QED BY <1>1, <2>1 DEF Tick, Remove, RestType, Inv, TypeOK
<1>2. CASE BeginRebuild
  <2>1. /\ rows' = [c \in Commands |-> [rows[c] EXCEPT !.cmd = "cleared"]]
        /\ meta' = [state |-> "rebuilding", rebuilds |-> meta.rebuilds + 1, fence |-> NotLoaded]
        /\ UNCHANGED <<keys, removed, claimers, callers, alarm, sweep, now>>
    BY Zenon, <1>2 DEF BeginRebuild
  <2>2. \A c \in Commands : rows'[c] \in Row /\ RowInv(rows'[c]) /\ RowStep(rows[c], rows'[c])
                             /\ rows'[c].cmd = "cleared" /\ rows'[c].st = rows[c].st
                             /\ rows'[c].decision = rows[c].decision
                             /\ rows'[c].resendOf = rows[c].resendOf
    <3> SUFFICES ASSUME NEW r \in Row, RowInv(r), NEW x, x = [r EXCEPT !.cmd = "cleared"]
                 PROVE  /\ x \in Row /\ RowInv(x) /\ RowStep(r, x) /\ x.cmd = "cleared"
                        /\ x.st = r.st /\ x.decision = r.decision /\ x.resendOf = r.resendOf
      BY <2>1 DEF Inv, TypeOK, RowsInv
    <3>1. x \in Row
      BY DEF Row, CommandStatus
    <3>2. RowInv(x)
      BY Zenon DEF RowInv, RowDue, RowPause, RowCancel, RowEvidence, Row
    <3> QED BY Zenon, <3>1, <3>2 DEF RowStep, Row
  <2>3. rows' \in [Commands -> Row] /\ RowsInv' /\ LedgerStep
    BY Zenon, <2>1, <2>2 DEF RowsInv, LedgerStep
  <2>4. CallersInv'
    BY <2>1, <2>2 DEF Inv, CallersInv, TypeOK
  <2>5. ViewInv'
    BY Zenon, <2>1, <2>2 DEF ViewInv, Ready, NotLoaded
  <2>6. ResendOnlyAfterDoubt'
    <3> SUFFICES ASSUME NEW d \in Commands, rows'[d].resendOf # NoCommand
                 PROVE  rows'[rows'[d].resendOf].st \in {"delivery_uncertain", "dispatched", "cancelled"}
      BY Zenon DEF ResendOnlyAfterDoubt
    <3>1. PICK e : e = rows[d].resendOf
      BY Zenon
    <3>2. rows'[d].resendOf = e /\ e # NoCommand
      BY Zenon, <2>2, <3>1
    <3>3. e \in Commands
      BY <3>1, <3>2 DEF Inv, TypeOK, Row
    <3>4. rows[e].st \in {"delivery_uncertain", "dispatched", "cancelled"}
      BY Zenon, <3>1, <3>2 DEF Inv, ResendOnlyAfterDoubt
    <3> QED BY Zenon, <2>2, <3>2, <3>3, <3>4
  <2> QED BY <2>1, <2>3, <2>4, <2>5, <2>6 DEF RowsOK, RestType, Inv, TypeOK, NotLoaded
<1>3. CASE LoadRestoreAuthority \/ AbortRebuild
  <2>1. /\ UNCHANGED <<rows, keys, removed, claimers, callers, alarm, sweep, now>>
        /\ meta'.fence \in {removed, NotLoaded} /\ ~Ready /\ ~Ready'
        /\ meta' \in [state: {"ready", "rebuilding", "rebuild_failed"}, rebuilds: Nat,
                      fence: SUBSET (Commands \cup {NoCommand})]
    BY ZenonT(60), <1>3 DEF LoadRestoreAuthority, AbortRebuild, Ready, Inv, TypeOK, NotLoaded
  <2>2. ViewInv'
    BY Zenon, <2>1 DEF Inv, ViewInv, NotLoaded
  <2>3. rows' \in [Commands -> Row] /\ RowsInv' /\ CallersInv' /\ ResendOnlyAfterDoubt' /\ LedgerStep
    BY Zenon, <2>1 DEF Inv, TypeOK, RowsInv, CallersInv, ResendOnlyAfterDoubt, LedgerStep, RowStep
  <2> QED BY Zenon, <2>1, <2>2, <2>3 DEF RowsOK, RestType, Inv, TypeOK
<1>4. CASE CompleteRebuild
  <2>1. /\ rows' = [c \in Commands |-> IF c \in meta.fence THEN Fence(Restore(rows[c]))
                                        ELSE Restore(rows[c])]
        /\ meta' = [meta EXCEPT !.state = "ready", !.fence = NotLoaded] /\ ~Ready
        /\ UNCHANGED <<keys, removed, claimers, callers, alarm, sweep, now>>
    BY Zenon, <1>4 DEF CompleteRebuild, Ready
  <2>2. ASSUME NEW c \in Commands
        PROVE  /\ rows'[c] \in Row /\ RowInv(rows'[c]) /\ RowStep(rows[c], rows'[c])
               /\ rows'[c].cmd # "failed"
               /\ c \notin meta.fence => RowView(rows'[c])
               /\ rows'[c].resendOf = rows[c].resendOf
    <3>1. rows[c] \in Row /\ RowInv(rows[c]) /\ rows[c].cmd = "cleared"
      BY Zenon, <2>1 DEF Inv, TypeOK, RowsInv, ViewInv
    <3>2. PICK x : x = Restore(rows[c])
      BY Zenon
    <3>3. x \in Row /\ RowInv(x) /\ RowStep(rows[c], x) /\ RowView(x) /\ x.cmd # "failed"
      BY Zenon, <3>1, <3>2, RestoreRow
    <3>4. PICK y : y = Fence(x)
      BY Zenon
    <3>5. y \in Row /\ RowInv(y) /\ RowStep(x, y) /\ y.cmd # "failed"
      BY Zenon, <3>3, <3>4, FenceRow
    <3>6. RowStep(rows[c], y)
      <4>1. x.st = rows[c].st /\ x.lease = rows[c].lease /\ x.resendOf = rows[c].resendOf
            /\ x.decision = rows[c].decision
        BY Zenon, <3>1, <3>2 DEF Restore, Row
      <4> QED BY Zenon, <3>5, <4>1 DEF RowStep
    <3>7. rows'[c] = IF c \in meta.fence THEN y ELSE x
      BY Zenon, <2>1, <3>2, <3>4
    <3>8. x.resendOf = rows[c].resendOf /\ y.resendOf = rows[c].resendOf
      BY Zenon, <3>1, <3>2, <3>3, <3>4 DEF Restore, Fence, Row
    <3> QED BY Zenon, <3>3, <3>5, <3>6, <3>7, <3>8
  <2>3. rows' = [c \in Commands |-> rows'[c]]
    BY <2>1, Zenon
  <2>4. rows' \in [Commands -> Row] /\ RowsInv' /\ LedgerStep
    BY Zenon, <2>2, <2>3 DEF RowsInv, LedgerStep
  <2>5. UNCHANGED <<removed, callers>> /\ Ready' /\ meta'.fence = {NoCommand}
    BY Zenon, <2>1 DEF Ready, Inv, TypeOK, NotLoaded
  <2>6. CallersInv'
    BY <2>2, <2>5 DEF Inv, CallersInv, TypeOK, RowStep
  <2>7. ViewInv'
    <3>1. \A c \in Commands \ removed : c \notin meta.fence
      BY ZenonT(60), NoCommandAssumption DEF Inv, ViewInv
    <3> QED BY Zenon, <2>2, <2>5, <3>1 DEF ViewInv
  <2>8. ResendOnlyAfterDoubt'
    <3> SUFFICES ASSUME NEW d \in Commands, rows'[d].resendOf # NoCommand
                 PROVE  rows'[rows'[d].resendOf].st \in {"delivery_uncertain", "dispatched", "cancelled"}
      BY Zenon DEF ResendOnlyAfterDoubt
    <3>1. rows'[d].resendOf = rows[d].resendOf
      BY Zenon, <2>2
    <3>2. rows[d].resendOf \in Commands
      BY ZenonT(60), <3>1 DEF Inv, TypeOK, Row
    <3>3. rows[rows[d].resendOf].st \in {"delivery_uncertain", "dispatched", "cancelled"}
      BY Zenon, <3>1 DEF Inv, ResendOnlyAfterDoubt
    <3> QED BY <2>2, <3>1, <3>2, <3>3 DEF RowStep, Sent
  <2>9. RestType'
    BY ZenonT(60), <2>1, NoCommandAssumption DEF RestType, Inv, TypeOK, NotLoaded
  <2> QED BY Zenon, <2>4, <2>6, <2>7, <2>8, <2>9 DEF RowsOK
<1> QED BY Zenon, <1>1, <1>2, <1>3, <1>4

-----------------------------------------------------------------------------
(* The theorems *)

\* A new object satisfies the invariant.
LEMMA InitInv == Init => Inv
<1> SUFFICES ASSUME Init PROVE Inv
  BY Zenon
<1>1. \A c \in Commands : rows[c] = AbsentRow
  BY ZenonT(60) DEF Init
<1>2. AbsentRow.st = "absent" /\ AbsentRow.cmd = "cleared" /\ AbsentRow.decision = "none"
      /\ AbsentRow.resendOf = NoCommand
  BY Zenon DEF AbsentRow, SavedRow
<1>3. RowInv(AbsentRow)
  BY Zenon DEF AbsentRow, SavedRow, RowInv, RowDue, RowPause, RowCancel, RowEvidence, NoTime
<1>4. RowView(AbsentRow)
  BY Zenon, <1>2 DEF RowView
<1>5. TypeOK
  BY AbsentRowType DEF Init, TypeOK, NoTime, Idle, NotLoaded
<1>6. ViewInv
  BY Zenon, <1>1, <1>4 DEF Init, ViewInv, Ready, NotLoaded
<1>7. RowsInv /\ CallersInv /\ ResendOnlyAfterDoubt
  BY Zenon, <1>1, <1>2, <1>3 DEF Init, RowsInv, CallersInv, ResendOnlyAfterDoubt
<1> QED BY Zenon, <1>5, <1>6, <1>7 DEF Inv

\* Every step preserves the invariant and moves every row as RowStep allows.
LEMMA NextInv == Inv /\ [Next]_vars => Inv' /\ LedgerStep
<1> SUFFICES ASSUME Inv, [Next]_vars PROVE Inv' /\ LedgerStep
  BY Zenon
<1>1. RowsOK' /\ RestType' /\ LedgerStep
  <2>1. CASE UNCHANGED vars
    <3>1. RowsOK' /\ LedgerStep
      BY Zenon, <2>1, SameRowsStep DEF vars
    <3> QED BY Zenon, <2>1, <3>1 DEF vars, RestType, Inv, TypeOK
  <2>2. CASE AlarmStart \/ AlarmFinish \/ AlarmRetry
    BY Zenon, <2>2, AlarmHandlerStep
  <2>3. CASE BeginRebuild \/ LoadRestoreAuthority \/ CompleteRebuild \/ AbortRebuild \/ Tick
    BY Zenon, <2>3, RebuildStep
  <2>4. ASSUME NEW c \in Commands, AcceptTextReply(c) \/ ReplayTextReply(c)
        PROVE  RowsOK' /\ RestType' /\ LedgerStep
    BY Zenon, <2>4, AcceptStep
  <2>5. ASSUME NEW c \in Commands,
               \/ ClaimOutboundDispatch(c) \/ ClaimLost(c)
               \/ FailOutboundDispatch(c) \/ CallerLost(c)
        PROVE  RowsOK' /\ RestType' /\ LedgerStep
    BY Zenon, <2>5, DispatchStep
  <2>6. ASSUME NEW c \in Commands, PollCommand(c) \/ \E e \in Reports : ReportEvidence(c, e)
        PROVE  RowsOK' /\ RestType' /\ LedgerStep
    BY Zenon, <2>6, ReconcileStep
  <2>7. ASSUME NEW c \in Commands, AlarmRow(c)
        PROVE  RowsOK' /\ RestType' /\ LedgerStep
    BY Zenon, <2>7, AlarmHandlerStep
  <2>8. ASSUME NEW c \in Commands, Remove(c)
        PROVE  RowsOK' /\ RestType' /\ LedgerStep
    BY Zenon, <2>8, RebuildStep
  <2>9. ASSUME NEW c \in Commands, NEW k \in ActionKeys,
               \/ \E d \in {"confirm", "cancel"} : DecideOutbound(c, d, k)
               \/ \E a \in {"cancel", "continue"} : ActOnUncertain(c, a, k)
        PROVE  RowsOK' /\ RestType' /\ LedgerStep
    BY Zenon, <2>9, DecideStep
  <2>10. ASSUME NEW c \in Commands, NEW new \in Commands, NEW k \in ActionKeys,
                ResendUncertain(c, new, k)
         PROVE  RowsOK' /\ RestType' /\ LedgerStep
    BY Zenon, <2>10, ResendStep
  <2> QED BY <2>1, <2>2, <2>3, <2>4, <2>5, <2>6, <2>7, <2>8, <2>9, <2>10 DEF Next
<1>2. TypeOK'
  BY Zenon, <1>1 DEF RowsOK, RestType, TypeOK
<1> QED BY Zenon, <1>1, <1>2 DEF RowsOK, Inv

\* The invariant holds in every reachable state.
THEOREM Invariance == Spec => []Inv
BY InitInv, NextInv, PTL DEF Spec

\* Every column of every row, the alarm, the clock and the rebuild state keep
\* their types through every method of the object.
THEOREM TypeCorrect == Spec => []TypeOK
<1>1. Inv => TypeOK
  BY Zenon DEF Inv
<1> QED BY <1>1, Invariance, PTL

\* The four-hour deadline of transitionOutboundLifecycle never moves.
THEOREM DeadlineStaysAnchored == Spec => []DueAnchored
<1>1. Inv => DueAnchored
  BY Zenon DEF Inv, RowsInv, RowInv, RowDue, DueAnchored, Saved
<1> QED BY <1>1, Invariance, PTL

\* chat_paused follows the doubt about a command's outcome.
THEOREM PauseFollowsDoubt == Spec => []PauseTracksDoubt
<1>1. Inv => PauseTracksDoubt
  BY ZenonT(60) DEF Inv, RowsInv, RowInv, RowPause, PauseTracksDoubt
<1> QED BY <1>1, Invariance, PTL

\* The command view agrees with the dispatch row it stands for.
THEOREM ViewAlwaysAgrees == Spec => []ViewAgrees
<1>1. Inv => ViewAgrees
  <2> SUFFICES ASSUME Inv, NEW c \in Commands, Saved(c), rows[c].cmd # "cleared", c \notin removed
               PROVE  CASE rows[c].st \in Unsent -> rows[c].cmd = CommandStatusForDispatch(rows[c].st)
                        [] rows[c].st = "dispatching" -> rows[c].cmd = "accepted"
                        [] rows[c].st = "delivery_uncertain" -> rows[c].cmd = "delivery_uncertain"
                        [] rows[c].st = "cancelled" -> rows[c].cmd \in {"cancelled", "failed"}
                        [] rows[c].st = "dispatched" ->
                             rows[c].cmd \in {"submitted_to_matrix", "matrix_confirmed", "bridged",
                                              "delivered", "delivery_uncertain"}
    BY ZenonT(60) DEF ViewAgrees
  <2>1. RowView(rows[c]) /\ rows[c].st \in DispatchStatus /\ rows[c].st # "absent"
        /\ rows[c].st # "wakeup_failed"
    BY Zenon DEF Inv, ViewInv, TypeOK, Row, RowsInv, RowInv, Saved
  <2> QED BY ZenonT(60), <2>1 DEF RowView, DispatchStatus, Unsent, CommandStatusForDispatch
<1> QED BY <1>1, Invariance, PTL

\* Recorded delivery evidence is what the command shows.
THEOREM DeliveryAlwaysShown == Spec => []DeliveryEvidenceShown
<1>1. Inv => DeliveryEvidenceShown
  BY Zenon DEF Inv, ViewInv, RowView, DeliveryEvidenceShown
<1> QED BY <1>1, Invariance, PTL

\* A command cancelled before its claim is never handed to the adapter.
THEOREM CancelledNeverSent == Spec => []CancelledIsNeverSent
<1>1. Inv => CancelledIsNeverSent
  BY ZenonT(60) DEF Inv, RowsInv, RowInv, RowCancel, CallersInv, CancelledIsNeverSent
<1> QED BY <1>1, Invariance, PTL

\* Only a command whose outcome was in doubt has a resend.
THEOREM ResendsFollowDoubt == Spec => []ResendOnlyAfterDoubt
<1>1. Inv => ResendOnlyAfterDoubt
  BY Zenon DEF Inv
<1> QED BY <1>1, Invariance, PTL

\* No method makes work that may have reached the provider eligible again.
THEOREM NeverEligibleTwice == Spec => NeverEligibleAgain
<1>1. Inv /\ [Next]_vars =>
        [\A c \in Commands :
           /\ rows[c].st \in {"dispatching", "delivery_uncertain", "dispatched", "cancelled"}
                => rows'[c].st \notin Unsent
           /\ rows[c].st \in {"dispatched", "cancelled"} => rows'[c].st = rows[c].st
           /\ rows[c].st = "delivery_uncertain" => rows'[c].st # "dispatching"
           /\ rows[c].st = "dispatching" /\ rows'[c].st = "dispatching"
                => rows'[c].lease = rows[c].lease]_vars
  BY ZenonT(60), NextInv DEF LedgerStep, RowStep, Sent, Unsent
<1> QED BY <1>1, Invariance, PTL DEF Spec, NeverEligibleAgain

-----------------------------------------------------------------------------
(* Late dispatches *)

\* The clock reading of a running alarm handler is at most Lag ticks old.
SweepFresh == sweep # Idle => now <= sweep.at + Lag

LEMMA SweepStaysFresh == Inv /\ SweepFresh /\ [Next]_vars => SweepFresh'
<1> SUFFICES ASSUME Inv, SweepFresh, [Next]_vars PROVE SweepFresh'
  BY Zenon
<1>1. sweep \in [at: Nat, todo: SUBSET Commands] /\ now \in Nat
  BY Zenon DEF Inv, TypeOK
<1>2. CASE UNCHANGED <<sweep, now>>
  BY Zenon, <1>2 DEF SweepFresh
<1>3. CASE AlarmStart
  <2>1. sweep'.at = now /\ now' = now
    BY Zenon, <1>3 DEF AlarmStart
  <2> QED BY <1>1, <2>1, LagAssumption DEF SweepFresh
<1>4. CASE \E c \in Commands : AlarmRow(c)
  <2>1. PICK c \in Commands : AlarmRow(c)
    BY Zenon, <1>4
  <2>2. sweep # Idle /\ sweep' = [sweep EXCEPT !.todo = @ \ {c}] /\ now' = now
    BY Zenon, <2>1 DEF AlarmRow
  <2>3. sweep'.at = sweep.at
    BY Zenon, <1>1, <2>2
  <2> QED BY Zenon, <2>2, <2>3 DEF SweepFresh
<1>5. CASE AlarmFinish \/ AlarmRetry
  BY Zenon, <1>5 DEF AlarmFinish, AlarmRetry, SweepFresh
<1>6. CASE Tick
  <2>1. sweep' = sweep /\ now' = now + 1 /\ (sweep # Idle => now < sweep.at + Lag)
    BY Zenon, <1>6 DEF Tick
  <2>2. sweep.at \in Nat
    BY Zenon, <1>1
  <2> QED BY <1>1, <2>1, <2>2, LagAssumption DEF SweepFresh
<1>7. CASE \E c \in Commands :
             \/ AcceptTextReply(c) \/ ReplayTextReply(c) \/ ClaimOutboundDispatch(c) \/ ClaimLost(c)
             \/ FailOutboundDispatch(c) \/ CallerLost(c) \/ PollCommand(c) \/ Remove(c)
             \/ \E e \in Reports : ReportEvidence(c, e)
  BY Zenon, <1>2, <1>7
     DEF AcceptTextReply, ReplayTextReply, ClaimOutboundDispatch, ClaimLost, FailOutboundDispatch,
         CallerLost, PollCommand, Remove, ReportEvidence
<1>8. CASE \E c \in Commands, k \in ActionKeys :
             \/ \E d \in {"confirm", "cancel"} : DecideOutbound(c, d, k)
             \/ \E a \in {"cancel", "continue"} : ActOnUncertain(c, a, k)
             \/ \E new \in Commands : ResendUncertain(c, new, k)
  BY Zenon, <1>2, <1>8 DEF DecideOutbound, ActOnUncertain, ResendUncertain
<1>9. CASE BeginRebuild \/ LoadRestoreAuthority \/ CompleteRebuild \/ AbortRebuild
  BY Zenon, <1>2, <1>9 DEF BeginRebuild, LoadRestoreAuthority, CompleteRebuild, AbortRebuild
<1>10. CASE UNCHANGED vars
  BY Zenon, <1>2, <1>10 DEF vars
<1> QED BY Zenon, <1>3, <1>4, <1>5, <1>6, <1>7, <1>8, <1>9, <1>10 DEF Next

Aging == {"waiting_for_connection", "confirmation_required"}

\* A lifecycle step of aged work makes it eligible only when it was confirmed.
LEMMA AgedLifecycle ==
    ASSUME NEW r \in Row, RowInv(r), r.st \in Aging, NEW t \in Nat, t >= r.created + ConfirmTicks,
           NEW available \in BOOLEAN, NEW x, x = Lifecycle(r, t, available), x.st = "pending"
    PROVE  x.decision = "confirm"
<1>1. r.due = r.created + ConfirmTicks /\ t >= OriginalDue(r)
  BY DEF RowInv, RowDue, Aging, OriginalDue
<1>2. x.decision = r.decision
  BY Zenon, LifecycleRow
<1>3. \A st, due : MoveTo(r, st, due).st = st
  BY Zenon DEF MoveTo, Row
<1>4. CASE r.decision \notin {"confirm", "cancel"}
  <2>1. x = Undecided(r, t, available)
    BY Zenon, <1>4 DEF Lifecycle, Aging, Transitionable
  <2>2. x.st = "confirmation_required"
    BY Zenon, <1>1, <1>3, <2>1 DEF Undecided, Aging
  <2> QED BY Zenon, <2>2
<1>5. CASE r.decision = "cancel"
  BY Zenon, <1>3, <1>5 DEF Lifecycle, Aging, Transitionable
<1> QED BY Zenon, <1>2, <1>4, <1>5

\* The stamp of a call about aged work is past its deadline.
LEMMA AgedStamp ==
    ASSUME Inv, NEW c \in Commands, now >= rows[c].created + ConfirmTicks + Lag
    PROVE  /\ \A t \in Stamps : t \in Nat /\ t >= rows[c].created + ConfirmTicks
           /\ SweepFresh /\ sweep # Idle => sweep.at \in Nat /\ sweep.at >= rows[c].created + ConfirmTicks
<1>1. rows[c].created \in Nat /\ now \in Nat /\ sweep.at \in Nat
  BY Zenon DEF Inv, TypeOK, Row
<1>2. \A t \in Stamps : t \in Nat /\ t >= rows[c].created + ConfirmTicks
  BY <1>1, LagAssumption, TicksAssumption DEF Stamps
<1>3. SweepFresh /\ sweep # Idle => sweep.at \in Nat /\ sweep.at >= rows[c].created + ConfirmTicks
  BY <1>1, LagAssumption, TicksAssumption DEF SweepFresh
<1> QED BY Zenon, <1>2, <1>3

LEMMA LateStep ==
    ASSUME Inv, SweepFresh, [Next]_vars, NEW c \in Commands, rows[c].st \in Aging,
           now >= rows[c].created + ConfirmTicks + Lag, rows'[c].st = "pending"
    PROVE  rows'[c].decision = "confirm"
<1>1. rows \in [Commands -> Row] /\ rows[c] \in Row /\ RowInv(rows[c])
  BY Zenon DEF Inv, TypeOK, RowsInv
<1>2. rows'[c].st # rows[c].st /\ rows[c].st \notin Sent /\ rows[c].st \notin {"absent", "pending", "wakeup_failed"}
  BY Zenon DEF Aging, Sent
<1>3. ASSUME NEW d \in Commands, NEW s, rows' = [rows EXCEPT ![d] = s] PROVE d = c /\ rows'[c] = s
  BY Zenon, <1>1, <1>2, <1>3
<1>4. ASSUME NEW d \in Commands, AcceptTextReply(d) PROVE FALSE
  BY Zenon, <1>2, <1>3, <1>4 DEF AcceptTextReply
<1>5. ASSUME NEW d \in Commands, ClaimOutboundDispatch(d) PROVE FALSE
  <2>1. PICK t \in Stamps : rows' = [rows EXCEPT ![d] = Claim(rows[d], t)]
    BY Zenon, <1>5 DEF ClaimOutboundDispatch
  <2>2. d = c /\ rows'[c] = Claim(rows[c], t)
    BY Zenon, <1>3, <2>1
  <2> QED BY Zenon, <1>2, <2>2 DEF Claim, Sent
<1>6. ASSUME NEW d \in Commands, FailOutboundDispatch(d) PROVE FALSE
  BY Zenon, <1>2, <1>3, <1>6 DEF FailOutboundDispatch, Sent
<1>7. ASSUME NEW d \in Commands, NEW e \in Reports, ReportEvidence(d, e) PROVE FALSE
  <2>1. d \in callers /\ \E s : rows' = [rows EXCEPT ![d] = s]
    BY Zenon, <1>7 DEF ReportEvidence
  <2> QED BY Zenon, <1>2, <1>3, <2>1 DEF Inv, CallersInv
<1>8. ASSUME NEW d \in Commands, PollCommand(d) PROVE rows'[c].decision = "confirm"
  <2>1. PICK t \in Stamps, available \in BOOLEAN : rows' = [rows EXCEPT ![d] = Reconcile(rows[d], t, available)]
    BY Zenon, <1>8 DEF PollCommand
  <2>2. rows'[c] = Reconcile(rows[c], t, available)
    BY Zenon, <1>3, <2>1
  <2>3. PICK x : x = Lifecycle(rows[c], t, available)
    BY Zenon
  <2>4. rows'[c] = [rows[c] EXCEPT !.st = x.st, !.due = x.due, !.cmd = x.cmd]
    BY Zenon, <2>2, <2>3 DEF Reconcile, WriteBack
  <2>5. rows'[c].st = x.st /\ rows'[c].decision = rows[c].decision
    BY Zenon, <1>1, <2>4 DEF Row
  <2>6. t \in Nat /\ t >= rows[c].created + ConfirmTicks
    BY Zenon, AgedStamp
  <2>7. rows[c] \in Row /\ RowInv(rows[c]) /\ rows[c].st \in Aging
    BY Zenon, <1>1
  <2>8. x.st = "pending" => x.decision = "confirm"
    BY <2>3, <2>6, <2>7, AgedLifecycle
  <2>9. x.decision = rows[c].decision
    BY <2>3, <2>6, <2>7, LifecycleRow
  <2> QED BY Zenon, <2>5, <2>8, <2>9
<1>9. ASSUME NEW d \in Commands, AlarmRow(d) PROVE rows'[c].decision = "confirm"
  <2>1. PICK available \in BOOLEAN :
          rows' = [rows EXCEPT ![d] = IF rows[d].cmd = "cleared" THEN rows[d]
                                      ELSE AlarmStep(rows[d], sweep.at, available)]
    BY Zenon, <1>9 DEF AlarmRow
  <2>2. rows'[c] = AlarmStep(rows[c], sweep.at, available)
    BY Zenon, <1>2, <1>3, <2>1
  <2>3. sweep # Idle
    BY Zenon, <1>9 DEF AlarmRow
  <2>4. sweep.at \in Nat /\ sweep.at >= rows[c].created + ConfirmTicks
    BY Zenon, <2>3, AgedStamp
  <2>5. rows'[c] = Lifecycle(rows[c], sweep.at, available)
    BY Zenon, <1>2, <2>2 DEF AlarmStep, Sent
  <2> QED BY Zenon, <1>1, <2>4, <2>5, AgedLifecycle
<1>10. ASSUME NEW d \in Commands, NEW k \in ActionKeys, NEW a \in {"confirm", "cancel"}, DecideOutbound(d, a, k)
       PROVE  rows'[c].decision = "confirm"
  <2>1. PICK t \in Stamps, available \in BOOLEAN : rows' = [rows EXCEPT ![d] = Decide(rows[d], a, t, available)]
    BY Zenon, <1>10 DEF DecideOutbound
  <2>2. rows'[c] = Decide(rows[c], a, t, available)
    BY Zenon, <1>3, <2>1
  <2>3. PICK q : q = [rows[c] EXCEPT !.decision = a]
    BY Zenon
  <2>4. q \in Row /\ q.decision = a /\ q.st = rows[c].st
    BY ZenonT(60), <1>1, <2>3 DEF Row, Decision
  <2>5. rows'[c] = Lifecycle(q, t, available) /\ t \in Nat
    BY Zenon, <2>2, <2>3, AgedStamp DEF Decide
  <2>6. rows'[c].decision = a
    BY Zenon, <2>4, <2>5, LifecycleRow
  <2>7. a = "cancel" => rows'[c].st = "cancelled"
    BY <2>4, <2>5, LifecycleRow DEF Aging, Transitionable
  <2> QED BY Zenon, <2>6, <2>7
<1>11. ASSUME NEW d \in Commands, NEW k \in ActionKeys, NEW a, ActOnUncertain(d, a, k) PROVE FALSE
  BY Zenon, <1>2, <1>3, <1>11 DEF ActOnUncertain, Sent
<1>12. ASSUME NEW d \in Commands, NEW new \in Commands, NEW k \in ActionKeys, ResendUncertain(d, new, k)
       PROVE  FALSE
  <2>1. /\ rows[d].st = "delivery_uncertain" /\ rows[new].st = "absent"
        /\ \E s, u : rows' = [rows EXCEPT ![d] = s, ![new] = u]
    BY Zenon, <1>12 DEF ResendUncertain
  <2>2. c # d /\ c # new
    BY Zenon, <1>2, <2>1 DEF Sent
  <2> QED BY Zenon, <1>1, <1>2, <2>1, <2>2
<1>13. CASE BeginRebuild
  <2>1. rows'[c] = [rows[c] EXCEPT !.cmd = "cleared"]
    BY Zenon, <1>13 DEF BeginRebuild
  <2> QED BY Zenon, <1>1, <1>2, <2>1 DEF Row
<1>14. CASE CompleteRebuild
  <2>1. PICK x, y : x = Restore(rows[c]) /\ y = Fence(x)
    BY Zenon
  <2>2. x \in Row /\ RowInv(x) /\ x.st = rows[c].st
    BY Zenon, <1>1, <2>1, RestoreRow DEF Restore, Row
  <2>3. y.st = "cancelled"
    BY Zenon, <2>1, <2>2 DEF Fence, Row, Aging
  <2>4. rows'[c] = x \/ rows'[c] = y
    BY Zenon, <1>14, <2>1 DEF CompleteRebuild
  <2> QED BY Zenon, <1>2, <2>2, <2>3, <2>4
<1>15. CASE UNCHANGED rows
  BY Zenon, <1>2, <1>15
<1> QED BY Zenon, <1>4, <1>5, <1>6, <1>7, <1>8, <1>9, <1>10, <1>11, <1>12, <1>13, <1>14, <1>15
     DEF Next, vars, ReplayTextReply, ClaimLost, CallerLost, Remove, AlarmStart, AlarmFinish, AlarmRetry,
         LoadRestoreAuthority, AbortRebuild, Tick

\* Work past its four-hour deadline by more than the clock lag becomes eligible
\* only through a recorded confirmation, whichever of a poll, an alarm, a
\* decision and a rebuild reaches its row first (transitionOutboundLifecycle).
THEOREM LateDispatchIsConfirmed == Spec => NoUnconfirmedLateDispatch
<1>1. Init => SweepFresh
  BY Zenon DEF Init, SweepFresh
<1>2. Inv /\ SweepFresh /\ [Next]_vars =>
        [\A c \in Commands :
           /\ rows[c].st \in {"waiting_for_connection", "confirmation_required"}
           /\ now >= rows[c].created + ConfirmTicks + Lag
           /\ rows'[c].st = "pending"
           => rows'[c].decision = "confirm"]_vars
  BY Zenon, LateStep DEF Aging
<1> QED BY <1>1, <1>2, SweepStaysFresh, Invariance, PTL DEF Spec, NoUnconfirmedLateDispatch
=============================================================================
