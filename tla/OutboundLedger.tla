--------------------------- MODULE OutboundLedger ---------------------------
(***************************************************************************)
(* The outbound ledger of one TenantProjectionDO: every method that writes *)
(* an outbound row, the alarm that ages the rows, the rebuild that clears  *)
(* and restores the command view, and the Worker handlers that call them.  *)
(*                                                                         *)
(* Each method runs in one SQLite transaction, so a method is one action.  *)
(* What is read before the transaction is an input of the action: the      *)
(* Worker's clock stamp may lag the object's clock by up to Lag ticks, and *)
(* the D1 availability read may be stale or may have failed, so it is any  *)
(* BOOLEAN.  The alarm handler awaits a D1 read per row, so it is one      *)
(* action per row between a start and a reschedule.                        *)
(***************************************************************************)
EXTENDS OutboundRows, FiniteSets, FiniteSetsExt

CONSTANTS
    ChatOf,         \* command -> its conversation, within its account
    ActionKeys,     \* idempotency keys of human decisions
    Reports,        \* bound: the pieces of evidence an adapter may report
    Lag,            \* how far a captured clock reading may be behind the clock
    MaxTime,        \* bound: last clock tick
    AcceptUntil,    \* bound: last tick at which a command is accepted
    MaxEvidence,    \* bound: evidence rows per command
    MaxRebuilds     \* bound: rebuilds started

ASSUME LagAssumption == Lag \in Nat
ASSUME ReportsAssumption == Reports \subseteq Evidence
ASSUME BoundsAssumption == /\ MaxTime \in Nat /\ AcceptUntil \in Nat
                           /\ MaxEvidence \in Nat /\ MaxRebuilds \in Nat

VARIABLES
    rows,       \* command -> its ledger row
    keys,       \* action keys already recorded by outbound_actions or decisions
    removed,    \* commands whose message an active removal authority covers
    claimers,   \* commands whose handler is about to claim the dispatch
    callers,    \* commands for which a provider outcome may still be reported
    alarm,      \* the object's one alarm, NoTime when none is set
    sweep,      \* the running alarm handler: its captured clock and rows to do
    meta,       \* projection_meta.state, the number of rebuilds started, and the
                \* removals a completing rebuild has loaded (NotLoaded before)
    now

vars == <<rows, keys, removed, claimers, callers, alarm, sweep, meta, now>>

NotLoaded == {NoCommand}

Idle == [at |-> NoTime, todo |-> {}]
Ready == meta.state = "ready"

\* A clock reading taken by a Worker before its call reaches the object
Stamps == {t \in 1..now : t + Lag >= now}

Init == /\ rows = [c \in Commands |-> AbsentRow]
        /\ keys = {} /\ removed = {} /\ claimers = {} /\ callers = {}
        /\ alarm = NoTime /\ sweep = Idle
        /\ meta = [state |-> "ready", rebuilds |-> 0, fence |-> NotLoaded]
        /\ now = 1

-----------------------------------------------------------------------------
(* Alarm scheduling.  A row asks to be woken at its lease expiry, else at its *)
(* confirmation deadline, if no human decided it and the moment is ahead.     *)

Deadline(r) == IF r.lease # NoTime THEN r.lease ELSE r.due

NextOutboundAlarm(rs) ==
    LET ahead == {d \in {Deadline(rs[c]) : c \in
                          {c \in Commands : /\ rs[c].st \in {"waiting_for_connection",
                                                             "pending", "dispatching"}
                                            /\ rs[c].decision = "none"}} : d > now}
    IN  IF ahead = {} THEN NoTime ELSE Min(ahead)

\* #scheduleCombinedAlarm with no realtime socket connected
ScheduleCombinedAlarm(rs) == alarm' = NextOutboundAlarm(rs)

-----------------------------------------------------------------------------
(* Accepting a text reply *)

ChatPaused(c) == \E d \in Commands : ChatOf[d] = ChatOf[c] /\ rows[d].paused

\* acceptTextReply for a new request.  The handler that got replayed = FALSE
\* and a pending dispatch goes on to claim it.
AcceptTextReply(c) ==
    /\ Ready /\ rows[c].st = "absent" /\ ~ChatPaused(c) /\ now <= AcceptUntil
    /\ \E t \in Stamps, available \in BOOLEAN :
         LET rs == [rows EXCEPT ![c] = NewRow(t, available, NoCommand)]
         IN  /\ rows' = rs
             /\ claimers' = IF available THEN claimers \cup {c} ELSE claimers
             /\ IF available THEN UNCHANGED alarm ELSE ScheduleCombinedAlarm(rs)
    /\ UNCHANGED <<keys, removed, callers, sweep, meta, now>>

\* acceptTextReply for a request already saved: replayed = TRUE, nothing is
\* written, but a waiting row has the alarm scheduled again
ReplayTextReply(c) ==
    /\ Ready /\ rows[c].st = "waiting_for_connection" /\ rows[c].resendOf = NoCommand
    /\ ScheduleCombinedAlarm(rows)
    /\ UNCHANGED <<rows, keys, removed, claimers, callers, sweep, meta, now>>

-----------------------------------------------------------------------------
(* Dispatching *)

\* Faulty variant: the handler calls the adapter whatever the claim returned
ClaimUnread(c) ==
    /\ Ready /\ c \in claimers
    /\ \E t \in Stamps : rows' = [rows EXCEPT ![c] = Claim(@, t)]
    /\ callers' = callers \cup {c}
    /\ claimers' = claimers \ {c}
    /\ UNCHANGED <<keys, removed, alarm, sweep, meta, now>>

\* claimOutboundDispatch, called by the handler that saved or confirmed c.  The
\* handler goes on to the adapter only when it reads back "dispatching".
ClaimOutboundDispatch(c) ==
    /\ Ready /\ c \in claimers
    /\ now + LeaseTicks <= MaxTime     \* bound: the lease ends in modelled time
    /\ \E t \in Stamps :
         /\ rows' = [rows EXCEPT ![c] = Claim(@, t)]
         /\ callers' = IF rows'[c].st = "dispatching" THEN callers \cup {c} ELSE callers
    /\ claimers' = claimers \ {c}
    /\ UNCHANGED <<keys, removed, alarm, sweep, meta, now>>

\* The handler dies before its claim, or the claim finds a rebuild running
ClaimLost(c) ==
    /\ c \in claimers
    /\ claimers' = claimers \ {c}
    /\ UNCHANGED <<rows, keys, removed, callers, alarm, sweep, meta, now>>

\* failOutboundDispatch: refused before provider I/O, under the current lease
FailOutboundDispatch(c) ==
    /\ Ready /\ c \in callers /\ rows[c].st = "dispatching"
    /\ rows' = [rows EXCEPT ![c] = Fail(@)]
    /\ callers' = callers \ {c}
    /\ UNCHANGED <<keys, removed, claimers, alarm, sweep, meta, now>>

\* reconcileOutbound with trusted evidence of a dispatched command
ReportEvidence(c, e) ==
    /\ Ready /\ c \in callers
    /\ ~(e.source \in {"matrix", "bridge"} /\ e.status = "delivered")
    /\ Cardinality(rows[c].seen \cup {<<e.source, e.id>>}) <= MaxEvidence
    /\ \E t \in Stamps, available \in BOOLEAN :
         rows' = [rows EXCEPT ![c] = ReconcileEvidence(@, e, t, available)]
    /\ UNCHANGED <<keys, removed, claimers, callers, alarm, sweep, meta, now>>

\* The caller dies; no outcome is reported from then on
CallerLost(c) ==
    /\ c \in callers
    /\ callers' = callers \ {c}
    /\ UNCHANGED <<rows, keys, removed, claimers, alarm, sweep, meta, now>>

\* reconcileOutbound without evidence: a status poll, or the first call that
\* decideOutboundCommand makes
PollCommand(c) ==
    /\ Ready /\ rows[c].st # "absent"
    /\ \E t \in Stamps, available \in BOOLEAN :
         rows' = [rows EXCEPT ![c] = Reconcile(@, t, available)]
    /\ UNCHANGED <<keys, removed, claimers, callers, alarm, sweep, meta, now>>

-----------------------------------------------------------------------------
(* Human decisions *)

\* The confirm and cancel branch.  A handler that confirmed c and reads back
\* "pending" claims it; the handler that accepted c hours before is gone.
DecideOutbound(c, d, k) ==
    /\ Ready /\ k \notin keys /\ rows[c].decision = "none"
    /\ ~(rows[c].st = "delivery_uncertain" /\ d = "cancel")
    /\ d = "confirm" => c \notin claimers
    /\ \E t \in Stamps, available \in BOOLEAN :
         /\ MayDecide(rows[c], d, t)
         /\ rows' = [rows EXCEPT ![c] = Decide(@, d, t, available)]
    /\ claimers' = IF d = "confirm" /\ rows'[c].st = "pending"
                     THEN claimers \cup {c} ELSE claimers
    /\ keys' = keys \cup {k}
    /\ UNCHANGED <<removed, callers, alarm, sweep, meta, now>>

\* The branch for an uncertain command without a new dispatch
ActOnUncertain(c, a, k) ==
    /\ Ready /\ k \notin keys /\ rows[c].st = "delivery_uncertain"
    /\ rows' = [rows EXCEPT ![c] = Act(@, a)]
    /\ keys' = keys \cup {k}
    /\ UNCHANGED <<removed, claimers, callers, alarm, sweep, meta, now>>

\* An acknowledged resend: a new command with its own transaction.  The handler
\* does not claim it and no alarm is set for it.  A resend of a message that was
\* redacted meanwhile is refused and writes nothing.
ResendUncertain(c, new, k) ==
    /\ Ready /\ k \notin keys /\ rows[c].st = "delivery_uncertain"
    /\ new # c /\ rows[new].st = "absent" /\ ChatOf[new] = ChatOf[c]
    /\ now <= AcceptUntil
    /\ \E t \in Stamps, available \in BOOLEAN :
         rows' = [rows EXCEPT ![c] = Act(@, "resend"), ![new] = NewRow(t, available, c)]
    /\ keys' = keys \cup {k}
    /\ UNCHANGED <<removed, claimers, callers, alarm, sweep, meta, now>>

-----------------------------------------------------------------------------
(* The alarm *)

\* alarm(): the runtime starts the handler at or after the alarm time
AlarmStart ==
    /\ alarm # NoTime /\ now >= alarm /\ sweep = Idle
    /\ alarm' = NoTime
    /\ sweep' = [at |-> now,
                 todo |-> {c \in Commands : rows[c].st \in
                    {"waiting_for_connection", "pending", "confirmation_required",
                     "dispatching", "delivery_uncertain"}}]
    /\ UNCHANGED <<rows, keys, removed, claimers, callers, meta, now>>

\* One row of #processOutboundAlarm; a row whose command view is cleared by a
\* rebuild is skipped
AlarmRow(c) ==
    /\ sweep # Idle /\ c \in sweep.todo
    /\ \E available \in BOOLEAN :
         rows' = [rows EXCEPT ![c] = IF @.cmd = "cleared" THEN @
                                     ELSE AlarmStep(@, sweep.at, available)]
    /\ sweep' = [sweep EXCEPT !.todo = @ \ {c}]
    /\ UNCHANGED <<keys, removed, claimers, callers, alarm, meta, now>>

AlarmFinish ==
    /\ sweep # Idle /\ sweep.todo = {}
    /\ ScheduleCombinedAlarm(rows)
    /\ sweep' = Idle
    /\ UNCHANGED <<rows, keys, removed, claimers, callers, meta, now>>

\* The object restarts in the middle of the handler; the runtime retries it
AlarmRetry ==
    /\ sweep # Idle
    /\ sweep' = Idle /\ alarm' = now
    /\ UNCHANGED <<rows, keys, removed, claimers, callers, meta, now>>

-----------------------------------------------------------------------------
(* Rebuilds and removals *)

BeginRebuild ==
    /\ meta.state \in {"ready", "rebuild_failed"} /\ meta.rebuilds < MaxRebuilds
    /\ meta' = [state |-> "rebuilding", rebuilds |-> meta.rebuilds + 1,
                fence |-> NotLoaded]
    /\ rows' = [c \in Commands |-> [rows[c] EXCEPT !.cmd = "cleared"]]
    /\ UNCHANGED <<keys, removed, claimers, callers, alarm, sweep, now>>

\* completeRebuild awaits the removal ledger before its transaction
LoadRestoreAuthority ==
    /\ meta.state = "rebuilding" /\ meta.fence # removed
    /\ meta' = [meta EXCEPT !.fence = removed]
    /\ UNCHANGED <<rows, keys, removed, claimers, callers, alarm, sweep, now>>

CompleteRebuild ==
    /\ meta.state = "rebuilding" /\ meta.fence # NotLoaded
    /\ rows' = [c \in Commands |->
                  IF c \in meta.fence THEN Fence(Restore(rows[c])) ELSE Restore(rows[c])]
    /\ meta' = [meta EXCEPT !.state = "ready", !.fence = NotLoaded]
    /\ UNCHANGED <<keys, removed, claimers, callers, alarm, sweep, now>>

AbortRebuild ==
    /\ meta.state = "rebuilding"
    /\ meta' = [meta EXCEPT !.state = "rebuild_failed", !.fence = NotLoaded]
    /\ UNCHANGED <<rows, keys, removed, claimers, callers, alarm, sweep, now>>

\* A removal authority for c's message becomes active; live rows are not fenced
Remove(c) ==
    /\ rows[c].st # "absent" /\ c \notin removed
    /\ removed' = removed \cup {c}
    /\ UNCHANGED <<rows, keys, claimers, callers, alarm, sweep, meta, now>>

\* The alarm handler ends within Lag ticks of its captured clock reading
Tick ==
    /\ now < MaxTime
    /\ sweep # Idle => now < sweep.at + Lag
    /\ now' = now + 1
    /\ UNCHANGED <<rows, keys, removed, claimers, callers, alarm, sweep, meta>>

-----------------------------------------------------------------------------
Next ==
    \/ \E c \in Commands :
         \/ AcceptTextReply(c) \/ ReplayTextReply(c)
         \/ ClaimOutboundDispatch(c) \/ ClaimLost(c)
         \/ FailOutboundDispatch(c) \/ CallerLost(c) \/ PollCommand(c)
         \/ AlarmRow(c) \/ Remove(c)
         \/ \E e \in Reports : ReportEvidence(c, e)
         \/ \E k \in ActionKeys :
              \/ \E d \in {"confirm", "cancel"} : DecideOutbound(c, d, k)
              \/ \E a \in {"cancel", "continue"} : ActOnUncertain(c, a, k)
              \/ \E new \in Commands : ResendUncertain(c, new, k)
    \/ AlarmStart \/ AlarmFinish \/ AlarmRetry
    \/ BeginRebuild \/ LoadRestoreAuthority \/ CompleteRebuild \/ AbortRebuild
    \/ Tick

Spec == Init /\ [][Next]_vars

\* Time passes, the runtime starts an alarm that is due and retries its handler
\* until it runs to the end, a handler that is about to claim does so unless it dies.
Fairness ==
    /\ WF_vars(Tick) /\ WF_vars(AlarmStart) /\ SF_vars(AlarmFinish)
    /\ \A c \in Commands : SF_vars(AlarmRow(c)) /\ WF_vars(ClaimOutboundDispatch(c))

LiveSpec == Spec /\ Fairness

-----------------------------------------------------------------------------
(* Properties *)

Saved(c) == rows[c].st # "absent"
Unsent == {"pending", "waiting_for_connection", "confirmation_required", "wakeup_failed"}

\* Every column holds a value of its CHECK constraint.
TypeOK ==
    /\ rows \in [Commands -> Row]
    /\ keys \subseteq ActionKeys
    /\ removed \subseteq Commands /\ claimers \subseteq Commands /\ callers \subseteq Commands
    /\ alarm \in Nat /\ now \in Nat \ {0}
    /\ sweep \in [at: Nat, todo: SUBSET Commands]
    /\ meta \in [state: {"ready", "rebuilding", "rebuild_failed"}, rebuilds: Nat,
                 fence: SUBSET (Commands \cup {NoCommand})]

\* The confirmation deadline of a saved command is never anything but four
\* hours after it was saved, whatever sequence of disconnections, polls, alarms,
\* rebuilds and decisions it lives through, and a command that waits or needs a
\* confirmation always has one (transitionOutboundLifecycle).
DueAnchored ==
    \A c \in Commands : Saved(c) =>
        /\ rows[c].due \in {NoTime, rows[c].created + ConfirmTicks}
        /\ rows[c].st \in {"waiting_for_connection", "confirmation_required"}
             => rows[c].due # NoTime

\* A chat is paused by exactly the commands whose outcome is in doubt: a pausing
\* row is delivery_uncertain, and a delivery_uncertain row pauses until a human
\* continued or resent it (claimOutboundDispatch, reconcileOutbound, the alarm,
\* decideOutbound and the restore fence all write the column).
PauseTracksDoubt ==
    \A c \in Commands :
        /\ rows[c].paused => rows[c].st = "delivery_uncertain"
        /\ rows[c].st = "delivery_uncertain" /\ ~rows[c].paused
             => rows[c].action \in {"continue", "resend"}

\* The commands row shown to clients agrees with the dispatch row it stands for,
\* across every method that writes one of the two and across rebuilds, unless
\* the message was removed.
ViewAgrees ==
    \A c \in Commands : Saved(c) /\ rows[c].cmd # "cleared" /\ c \notin removed =>
        CASE rows[c].st \in Unsent -> rows[c].cmd = CommandStatusForDispatch(rows[c].st)
          [] rows[c].st = "dispatching" -> rows[c].cmd = "accepted"
          [] rows[c].st = "delivery_uncertain" -> rows[c].cmd = "delivery_uncertain"
          [] rows[c].st = "cancelled" -> rows[c].cmd \in {"cancelled", "failed"}
          [] rows[c].st = "dispatched" ->
               rows[c].cmd \in {"submitted_to_matrix", "matrix_confirmed", "bridged",
                                "delivered", "delivery_uncertain"}

\* Delivery evidence of the provider, once recorded, is what the command shows,
\* whatever weaker or doubtful evidence and whatever rebuild follows, unless the
\* message was removed.
DeliveryEvidenceShown ==
    \A c \in Commands \ removed :
        rows[c].provider = "delivered" /\ rows[c].st = "dispatched"
        => rows[c].cmd \in {"delivered", "cleared"}

\* A command that a human cancelled before its claim is never handed to the
\* adapter, even by a handler that was already on its way to claim it.
CancelledIsNeverSent ==
    \A c \in Commands : rows[c].decision = "cancel"
        => rows[c].st = "cancelled" /\ c \notin callers

\* A resend exists only for a command that was leased and whose outcome was in
\* doubt: its original has left every unsent status for good.
ResendOnlyAfterDoubt ==
    \A c \in Commands : rows[c].resendOf # NoCommand =>
        rows[rows[c].resendOf].st \in {"delivery_uncertain", "dispatched", "cancelled"}

\* A command that is past its deadline by more than the clock lag becomes
\* eligible for dispatch only through a recorded confirmation.
NoUnconfirmedLateDispatch ==
    [][\A c \in Commands :
         /\ rows[c].st \in {"waiting_for_connection", "confirmation_required"}
         /\ now >= rows[c].created + ConfirmTicks + Lag
         /\ rows'[c].st = "pending"
         => rows'[c].decision = "confirm"]_vars

\* Work that may have reached the provider never becomes eligible again: a lease
\* is given out once, and a settled dispatch stays settled.
NeverEligibleAgain ==
    [][\A c \in Commands :
         /\ rows[c].st \in {"dispatching", "delivery_uncertain", "dispatched", "cancelled"}
              => rows'[c].st \notin Unsent
         /\ rows[c].st \in {"dispatched", "cancelled"} => rows'[c].st = rows[c].st
         /\ rows[c].st = "delivery_uncertain" => rows'[c].st # "dispatching"
         /\ rows[c].st = "dispatching" /\ rows'[c].st = "dispatching"
              => rows'[c].lease = rows[c].lease]_vars

-----------------------------------------------------------------------------
(* What the repository says of the ledger and the code does not do.         *)

\* docs/research/2026-09-13-delivery-model-research.md: "Use a Durable Object
\* alarm to move due commands into confirmation-required": a command nobody
\* decided does not wait for its connection for ever.  It does not hold:
\* rescheduling after its deadline and before the alarm runs drops the alarm.
WaitingLapses ==
    \A c \in Commands :
        rows[c].st = "waiting_for_connection" /\ rows[c].decision = "none"
        ~> rows[c].st # "waiting_for_connection" \/ rows[c].decision # "none"

\* acceptTextReply in acceptance.ts: "the pending dispatch row remains
\* recoverable": a pending dispatch does not stay pending for ever.  It does
\* not hold: only the handler that saved the row claims it.
PendingIsTaken ==
    \A c \in Commands : rows[c].st = "pending" ~> rows[c].st # "pending"
=============================================================================
