------------------------------ MODULE Realtime ------------------------------
(***************************************************************************)
(* Realtime notifications of one identity: the feed of projection changes  *)
(* in the tenant's Durable Object, the tickets and sockets that carry it,  *)
(* and the browser client that resumes after it                            *)
(* (apps/control-plane/worker/realtime, projection/tenant-projection.ts,   *)
(* apps/control-plane/src/lib/realtime/live-client.ts).                    *)
(*                                                                         *)
(* The Durable Object runs one event at a time, but other events run while *)
(* it waits for D1: between the commit of a batch and its broadcast, and   *)
(* between reading the replay of a resuming client and accepting its       *)
(* socket.  A frame carries only positions, so a change is its sequence.   *)
(* A slot stands for one ticket and the socket it opens, and is used again *)
(* once both ends are done with it.                                        *)
(***************************************************************************)
EXTENDS Integers, FiniteSets, Sequences

CONSTANTS
    Slots,              \* tickets and sockets of the client
    Appliers,           \* concurrent calls of applyBatch
    MaxSequence,        \* bound on the changes of the identity
    MaxGeneration,      \* bound on rebuilds
    MaxChanges,         \* MAX_PROJECTION_CHANGES
    MaxReplay,          \* MAX_REALTIME_REPLAY_CHANGES
    MaxSockets,         \* MAX_REALTIME_SOCKETS_PER_PRINCIPAL
    MaxRealtimeMishaps  \* bound on dropped connections, failing D1 reads,
                        \* trims by other identities and revocations

ASSUME RealtimeConstants ==
    /\ MaxSequence \in Nat /\ MaxGeneration \in Nat \ {0}
    /\ MaxChanges \in Nat \ {0} /\ MaxReplay \in Nat /\ MaxSockets \in Nat \ {0}
    /\ MaxRealtimeMishaps \in Nat
    /\ "none" \notin Slots

VARIABLES
    feed,               \* projection_meta, projection_changes and their floor
    lease,              \* the Durable Object's alarm and its running handler
    granted,            \* the D1 rows a ticket and a socket are checked against
    slots,              \* realtime_tickets rows, sockets and their frames
    appliers,           \* batches committed and not yet broadcast; "granted" is
                        \* history: whether the grant stood at the commit
    browser,            \* LiveRealtimeClient: current slot and stored position
    told,               \* history: the changes its listeners were told of
    realtimeMishaps

realtimeVars == <<feed, lease, granted, slots, appliers, browser, told,
                  realtimeMishaps>>
-----------------------------------------------------------------------------
NoPosition == [generation |-> 0, sequence |-> 0]

Position(g, n) == [generation |-> g, sequence |-> n]

Connected(p) == [type |-> "connected", generation |-> p.generation,
                 from |-> 0, to |-> p.sequence]

ChangesFrame(g, a, b) ==
    [type |-> "projection.changes", generation |-> g, from |-> a, to |-> b]

ResetRequired(g, n) ==
    [type |-> "reset_required", generation |-> g, from |-> 0, to |-> n]

Close == [type |-> "close", generation |-> 0, from |-> 0, to |-> 0]

FreeSlot == [state |-> "free", resume |-> NoPosition, position |-> NoPosition,
             replay |-> "none", others |-> {}, wire |-> <<>>]

IdleApplier == [phase |-> "idle", position |-> NoPosition, sockets |-> {},
                granted |-> TRUE]

RealtimeInit ==
    /\ feed = [generation |-> 1, state |-> "ready", latest |-> 0, floor |-> 0]
    /\ lease = [alarm |-> FALSE, checking |-> FALSE, sockets |-> {}]
    /\ granted = TRUE
    /\ slots = [s \in Slots |-> FreeSlot]
    /\ appliers = [a \in Appliers |-> IdleApplier]
    /\ browser = [slot |-> "none", position |-> NoPosition]
    /\ told = [generation |-> 0, sequences |-> {}]
    /\ realtimeMishaps = 0

RealtimeMishap ==
    /\ realtimeMishaps < MaxRealtimeMishaps
    /\ realtimeMishaps' = realtimeMishaps + 1

OpenSockets == {s \in Slots : slots[s].state = "open"}

\* What reading the directory for sockets tells of them: all are valid or none
\* is, and a failing read makes some invalid.
Revalidated(sockets, valid) ==
    \/ granted /\ valid = sockets /\ UNCHANGED realtimeMishaps
    \/ ~granted /\ valid = {} /\ UNCHANGED realtimeMishaps
    \/ granted /\ valid # sockets /\ RealtimeMishap

\* A handler still holds the socket of the slot.
Held(s) ==
    \/ \E a \in Appliers : s \in appliers[a].sockets
    \/ \E r \in Slots : s \in slots[r].others
    \/ s \in lease.sockets

\* The server end closes: what was sent still arrives, then the close.
\* A socket nobody listens to is gone at once.
ClosedSocket(slot, s) ==
    IF browser.slot = s
      THEN [slot EXCEPT !.state = "closed", !.wire = Append(@, Close)]
      ELSE FreeSlot

\* A frame to a socket whose client is gone is lost.
SendFrames(slot, s, frames) ==
    IF browser.slot = s THEN [slot EXCEPT !.wire = @ \o frames] ELSE slot
-----------------------------------------------------------------------------
(* Tickets.                                                                *)

\* The row of a ticket: the subscriptions and where to resume, for 30 seconds.
issueRealtimeTicket(resume) ==
    [FreeSlot EXCEPT !.state = "ticket", !.resume = resume]

\* startAttempt and the ticket route: the request carries the stored position.
createRealtimeTicket(s) ==
    /\ browser.slot = "none"
    /\ slots[s].state = "free" /\ ~Held(s)
    /\ granted
    /\ slots' = [slots EXCEPT ![s] = issueRealtimeTicket(browser.position)]
    /\ browser' = [browser EXCEPT !.slot = s]
    /\ UNCHANGED <<feed, lease, granted, appliers, told, realtimeMishaps>>

\* The upgrade is refused: the socket closes and the client tries again later.
Refused(s) ==
    /\ slots' = [slots EXCEPT ![s] = FreeSlot]
    /\ browser' = IF browser.slot = s THEN [browser EXCEPT !.slot = "none"] ELSE browser

\* The row is deleted and the directory read again after that.
consumeRealtimeTicket(s) ==
    /\ slots[s].state = "ticket"
    /\ IF granted
         THEN /\ slots' = [slots EXCEPT ![s].state = "consumed"]
              /\ UNCHANGED browser
         ELSE Refused(s)
    /\ UNCHANGED <<feed, lease, granted, appliers, told, realtimeMishaps>>

\* The 30 seconds of a ticket are over, or its response never arrived.
ticketExpires(s) ==
    /\ slots[s].state = "ticket"
    /\ Refused(s)
    /\ RealtimeMishap
    /\ UNCHANGED <<feed, lease, granted, appliers, told>>
-----------------------------------------------------------------------------
(* The upgrade in the Durable Object.                                      *)

\* A client without a position starts at the latest sequence; no D1 read lies
\* between reading it and accepting the socket.
acceptFresh(s) ==
    LET position == Position(feed.generation, feed.latest)
    IN  /\ slots[s].state = "consumed"
        /\ slots[s].resume = NoPosition
        /\ IF feed.state = "ready" /\ Cardinality(OpenSockets) < MaxSockets
             THEN /\ slots' = [slots EXCEPT ![s] =
                        SendFrames([@ EXCEPT !.state = "open", !.position = position],
                             s, <<Connected(position)>>)]
                  /\ lease' = [lease EXCEPT !.alarm = TRUE]
                  /\ UNCHANGED browser
             ELSE Refused(s) /\ UNCHANGED lease
        /\ UNCHANGED <<feed, granted, appliers, told, realtimeMishaps>>

\* What a resume in the current generation is answered with.
replayAction(resume) ==
    IF resume.generation # feed.generation THEN "generation_changed"
    ELSE IF resume.sequence < feed.floor \/ resume.sequence > feed.latest
      THEN "history_unavailable"
    ELSE IF feed.latest - resume.sequence > MaxReplay THEN "replay_too_large"
    ELSE "changes"

\* The replay is read, then the open sockets of the tenant, other principals'
\* included, are validated against D1.  The
\* position kept is where the frames read here will leave the client.
readReplay(s) ==
    /\ slots[s].state = "consumed"
    /\ slots[s].resume # NoPosition
    /\ IF feed.state = "ready"
         THEN /\ slots' = [slots EXCEPT ![s].state = "reading",
                        ![s].replay = replayAction(slots[s].resume),
                        ![s].others = OpenSockets,
                        ![s].position = Position(feed.generation, feed.latest)]
              /\ UNCHANGED browser
         ELSE Refused(s)
    /\ UNCHANGED <<feed, lease, granted, appliers, told, realtimeMishaps>>

ReplayFrames(slot) ==
    IF slot.replay # "changes"
      THEN <<ResetRequired(slot.position.generation, slot.position.sequence)>>
    ELSE IF slot.resume.sequence < slot.position.sequence
      THEN <<ChangesFrame(slot.position.generation, slot.resume.sequence + 1,
                          slot.position.sequence)>>
    ELSE <<>>

\* The sockets that were open at the read are checked and counted, and the new
\* one is accepted.  The wait for setAlarm is a storage operation, during which
\* no other event runs.
acceptResumed(s) ==
    /\ slots[s].state = "reading"
    /\ \E valid \in SUBSET slots[s].others :
         /\ Revalidated(slots[s].others, valid)
         /\ LET admitted == Cardinality(valid) < MaxSockets
                frames == <<Connected(slots[s].resume)>> \o ReplayFrames(slots[s])
                opened == [slots[s] EXCEPT !.state = "open", !.replay = "none",
                                           !.others = {}]
            IN  /\ slots' = [r \in Slots |->
                      IF r = s THEN IF admitted THEN SendFrames(opened, s, frames) ELSE FreeSlot
                      ELSE IF r \in (slots[s].others \ valid) \cap OpenSockets
                        THEN ClosedSocket(slots[r], r)
                      ELSE slots[r]]
                /\ browser' = IF admitted \/ browser.slot # s
                                THEN browser ELSE [browser EXCEPT !.slot = "none"]
                /\ lease' = [lease EXCEPT !.alarm = @ \/ admitted]
    /\ UNCHANGED <<feed, granted, appliers, told>>
-----------------------------------------------------------------------------
(* The feed.                                                               *)

\* A batch with no socket of the identity to tell has nothing left to do here.
AwaitBroadcast(applier) == IF applier.sockets = {} THEN IdleApplier ELSE applier

\* #projectPreparedEvents: one new event of the identity gets the next
\* sequence, and the oldest row goes once there are more than MaxChanges.
applyChange(a) ==
    LET n == feed.latest + 1
    IN  /\ appliers[a].phase = "idle"
        /\ feed.state = "ready"
        /\ feed.latest < MaxSequence
        /\ feed' = [feed EXCEPT !.latest = n,
                                !.floor = IF n - @ > MaxChanges THEN @ + 1 ELSE @]
        /\ appliers' = [appliers EXCEPT ![a] = AwaitBroadcast(
                [phase |-> "committed", position |-> Position(feed.generation, n),
                 sockets |-> OpenSockets, granted |-> granted])]
        /\ UNCHANGED <<lease, granted, slots, browser, told, realtimeMishaps>>

\* A change of another identity of the tenant takes the place of the oldest.
trimProjectionChanges ==
    /\ feed.state = "ready"
    /\ feed.floor < feed.latest
    /\ RealtimeMishap
    /\ feed' = [feed EXCEPT !.floor = @ + 1]
    /\ UNCHANGED <<lease, granted, slots, appliers, browser, told>>

\* A broadcast to the sockets as they were, without asking again.
broadcastUnchecked(a) ==
    /\ appliers[a].phase = "committed"
    /\ appliers' = [appliers EXCEPT ![a].phase = "validated"]
    /\ UNCHANGED <<feed, lease, granted, slots, browser, told, realtimeMishaps>>

\* The sockets open at the commit are checked against D1, after the commit.
revalidateRealtimeSockets(a) ==
    /\ appliers[a].phase = "committed"
    /\ \E valid \in SUBSET appliers[a].sockets :
         /\ Revalidated(appliers[a].sockets, valid)
         /\ appliers' = [appliers EXCEPT ![a] =
                AwaitBroadcast([@ EXCEPT !.phase = "validated", !.sockets = valid])]
         /\ slots' = [s \in Slots |->
                IF s \in (appliers[a].sockets \ valid) \cap OpenSockets
                  THEN ClosedSocket(slots[s], s) ELSE slots[s]]
    /\ UNCHANGED <<feed, lease, granted, browser, told>>

\* Whether a change goes out on a socket: its attachment must be in the same
\* generation and before it.
Receives(s, p) ==
    /\ slots[s].state = "open"
    /\ slots[s].position.generation = p.generation
    /\ slots[s].position.sequence < p.sequence

broadcastRealtimeChanges(a) ==
    LET p == appliers[a].position
    IN  /\ appliers[a].phase = "validated"
        /\ slots' = [s \in Slots |->
              IF s \in appliers[a].sockets /\ Receives(s, p)
                THEN SendFrames([slots[s] EXCEPT !.position = p], s,
                          <<ChangesFrame(p.generation, p.sequence, p.sequence)>>)
                ELSE slots[s]]
        /\ appliers' = [appliers EXCEPT ![a] = IdleApplier]
        /\ UNCHANGED <<feed, lease, granted, browser, told, realtimeMishaps>>

\* beginRebuild: the sockets are told the next generation and closed.
resetRealtimeSocketsForRebuild ==
    /\ feed.state = "ready"
    /\ feed.generation < MaxGeneration
    /\ feed' = [feed EXCEPT !.state = "rebuilding", !.generation = @ + 1]
    /\ slots' = [s \in Slots |->
            IF s \in OpenSockets
              THEN ClosedSocket(SendFrames(slots[s], s, <<ResetRequired(feed.generation + 1, 0)>>), s)
              ELSE slots[s]]
    /\ UNCHANGED <<lease, granted, appliers, browser, told, realtimeMishaps>>

\* The replay numbers the retained events from 1 and trims as before.
rebuildCompletes ==
    /\ feed.state = "rebuilding"
    /\ \E latest \in {feed.latest, feed.latest - 1} \cap Nat, floor \in 0..feed.latest :
         /\ floor <= latest /\ latest - floor <= MaxChanges
         /\ feed' = [feed EXCEPT !.state = "ready", !.latest = latest, !.floor = floor]
    /\ UNCHANGED <<lease, granted, slots, appliers, browser, told, realtimeMishaps>>

revokeGrant ==
    /\ granted
    /\ granted' = FALSE
    /\ RealtimeMishap
    /\ UNCHANGED <<feed, lease, slots, appliers, browser, told>>

\* The alarm goes off: for the earliest lease, for one that is gone, or for the
\* outbound work that shares it.  The open sockets are checked against D1;
\* without any there is nothing to wait for.
alarm ==
    /\ lease.alarm /\ ~lease.checking
    /\ lease' = [alarm |-> FALSE, checking |-> OpenSockets # {}, sockets |-> OpenSockets]
    /\ UNCHANGED <<feed, granted, slots, appliers, browser, told, realtimeMishaps>>

\* The sockets without a grant and those whose lease is over are closed, and
\* the alarm is set for the ones that remain of those it checked.
alarmCloses ==
    /\ lease.checking
    /\ \E valid \in SUBSET lease.sockets :
         /\ Revalidated(lease.sockets, valid)
         /\ \E remaining \in SUBSET valid :
                /\ slots' = [s \in Slots |->
                        IF s \in (lease.sockets \ remaining) \cap OpenSockets
                          THEN ClosedSocket(slots[s], s) ELSE slots[s]]
                /\ lease' = [alarm |-> remaining # {}, checking |-> FALSE, sockets |-> {}]
    /\ UNCHANGED <<feed, granted, appliers, browser, told>>

\* webSocketClose: the server learns that the client end is gone.
webSocketClose(s) ==
    /\ slots[s].state = "open"
    /\ browser.slot # s
    /\ slots' = [slots EXCEPT ![s] = FreeSlot]
    /\ UNCHANGED <<feed, lease, granted, appliers, browser, told, realtimeMishaps>>

-----------------------------------------------------------------------------
(* The browser.                                                            *)

Behind(p, q) ==
    \/ p.generation < q.generation
    \/ p.generation = q.generation /\ p.sequence < q.sequence

\* The client drops its end; an open socket stays at the server for a while.
AbandonedSocket(s) ==
    [slots EXCEPT ![s] = IF @.state \in {"closed", "ticket"} THEN FreeSlot
                         ELSE [@ EXCEPT !.wire = <<>>]]

TakeFrame(s) == [slots EXCEPT ![s].wire = Tail(@)]

\* A position is only a baseline: listeners do nothing on "connected".
handleConnected(s, frame) ==
    LET p == Position(frame.generation, frame.to)
    IN  /\ frame.type = "connected"
        /\ slots' = TakeFrame(s)
        /\ IF browser.position = NoPosition
             THEN /\ browser' = [browser EXCEPT !.position = p]
                  /\ told' = [generation |-> p.generation, sequences |-> 1..p.sequence]
             ELSE /\ browser' = [browser EXCEPT !.position =
                                    IF Behind(@, p) THEN p ELSE @]
                  /\ UNCHANGED told

Told(g, seqs) ==
    IF told.generation = g THEN [told EXCEPT !.sequences = @ \cup seqs]
    ELSE [generation |-> g, sequences |-> seqs]

\* A client that takes whatever comes next.
handleAnyChanges(s, frame) ==
    LET known == browser.position
    IN  /\ frame.type = "projection.changes"
        /\ IF \/ known.generation # 0 /\ frame.generation # known.generation
              \/ frame.to <= known.sequence
             THEN slots' = TakeFrame(s) /\ UNCHANGED <<browser, told>>
             ELSE /\ slots' = TakeFrame(s)
                  /\ browser' = [browser EXCEPT !.position =
                                    Position(frame.generation, frame.to)]
                  /\ told' = Told(frame.generation, frame.from..frame.to)

\* What is at or before the position is dropped; a gap closes the socket, and
\* the next attempt resumes from the position.
handleChanges(s, frame) ==
    LET known == browser.position
    IN  /\ frame.type = "projection.changes"
        /\ IF \/ known.generation # 0 /\ frame.generation # known.generation
              \/ frame.to <= known.sequence
             THEN slots' = TakeFrame(s) /\ UNCHANGED <<browser, told>>
           ELSE IF frame.from > known.sequence + 1
             THEN /\ slots' = AbandonedSocket(s)
                  /\ browser' = [browser EXCEPT !.slot = "none"]
                  /\ UNCHANGED told
           ELSE /\ slots' = TakeFrame(s)
                /\ browser' = [browser EXCEPT !.position =
                                  Position(frame.generation, frame.to)]
                /\ told' = Told(frame.generation, frame.from..frame.to)

\* The baseline is replaced, and the listeners drop all they have.
handleReset(s, frame) ==
    /\ frame.type = "reset_required"
    /\ slots' = TakeFrame(s)
    /\ browser' = [browser EXCEPT !.position = Position(frame.generation, frame.to)]
    /\ told' = [generation |-> frame.generation, sequences |-> 1..frame.to]

handleClose(s, frame) ==
    /\ frame.type = "close"
    /\ slots' = [slots EXCEPT ![s] = FreeSlot]
    /\ browser' = [browser EXCEPT !.slot = "none"]
    /\ UNCHANGED told

handleMessage(s) ==
    /\ browser.slot = s
    /\ slots[s].wire # <<>>
    /\ LET frame == Head(slots[s].wire)
       IN  \/ handleConnected(s, frame)
           \/ handleChanges(s, frame)
           \/ handleReset(s, frame)
           \/ handleClose(s, frame)
    /\ UNCHANGED <<feed, lease, granted, appliers, realtimeMishaps>>

\* A timer that does nothing.
leaseTimerForgotten(s) == FALSE

\* The lease timer of the client, 15 minutes after "connected": what was sent
\* before has arrived.
scheduleLease(s) ==
    /\ browser.slot = s
    /\ slots[s].state = "open" /\ slots[s].wire = <<>>
    /\ slots' = AbandonedSocket(s)
    /\ browser' = [browser EXCEPT !.slot = "none"]
    /\ UNCHANGED <<feed, lease, granted, appliers, told, realtimeMishaps>>

\* The connection breaks, or the page closes and connects again.
connectionDrops(s) ==
    /\ browser.slot = s
    /\ RealtimeMishap
    /\ slots' = AbandonedSocket(s)
    /\ browser' = [browser EXCEPT !.slot = "none"]
    /\ UNCHANGED <<feed, lease, granted, appliers, told>>
-----------------------------------------------------------------------------
slotSteps(s) ==
    \/ consumeRealtimeTicket(s)
    \/ acceptFresh(s)
    \/ readReplay(s)
    \/ acceptResumed(s)
    \/ handleMessage(s)
    \/ webSocketClose(s)
    \/ scheduleLease(s)

applierSteps(a) ==
    \/ revalidateRealtimeSockets(a)
    \/ broadcastRealtimeChanges(a)

RealtimeNext ==
    \/ \E s \in Slots : createRealtimeTicket(s)
    \/ \E s \in Slots : ticketExpires(s)
    \/ \E s \in Slots : slotSteps(s)
    \/ \E s \in Slots : connectionDrops(s)
    \/ \E a \in Appliers : applyChange(a)
    \/ \E a \in Appliers : applierSteps(a)
    \/ trimProjectionChanges
    \/ resetRealtimeSocketsForRebuild
    \/ rebuildCompletes
    \/ revokeGrant
    \/ alarm
    \/ alarmCloses

RealtimeSpec == RealtimeInit /\ [][RealtimeNext]_realtimeVars

\* The browser's timers fire, sockets deliver, the Durable Object finishes what
\* it began, leases run out and rebuilds end.
RealtimeFairness ==
    /\ WF_realtimeVars(\E s \in Slots : createRealtimeTicket(s))
    /\ \A s \in Slots : WF_realtimeVars(slotSteps(s))
    /\ \A a \in Appliers : WF_realtimeVars(applierSteps(a))
    /\ WF_realtimeVars(alarmCloses)
    /\ WF_realtimeVars(rebuildCompletes)

RealtimeLiveSpec == RealtimeSpec /\ RealtimeFairness
-----------------------------------------------------------------------------
Positions == [generation : 0..MaxGeneration, sequence : 0..MaxSequence]

\* The rows, sockets and frames are well formed; the retained changes fit the
\* table, and no attachment is ahead of the feed it is a position in
\* (projection_changes, RealtimeSocketAttachment).
RealtimeTypeOK ==
    /\ feed.generation \in 1..MaxGeneration
    /\ feed.state \in {"ready", "rebuilding"}
    /\ feed.latest \in 0..MaxSequence
    /\ feed.floor \in 0..feed.latest
    /\ feed.state = "ready" => feed.latest - feed.floor <= MaxChanges
    /\ \A s \in Slots :
         /\ slots[s].state \in {"free", "ticket", "consumed", "reading", "open", "closed"}
         /\ slots[s].resume \in Positions /\ slots[s].position \in Positions
         /\ slots[s].position.generation = feed.generation =>
                slots[s].position.sequence <= feed.latest
    /\ browser.slot \in Slots \cup {"none"}
    /\ browser.position \in Positions
    /\ \A a \in Appliers : appliers[a].sockets \subseteq Slots

\* The position the browser stores, and resumes from, never passes a change of
\* the generation that its listeners were not told of, whatever order batches
\* are broadcast in, sockets are accepted in and connections break in
\* (handleChanges: the gap check; fetch: replay from the resume position).
PositionsWereTold ==
    browser.position # NoPosition =>
        /\ told.generation = browser.position.generation
        /\ 1..browser.position.sequence \subseteq told.sequences

\* A change committed after the grant was revoked is broadcast to no socket,
\* although sockets are looked up before the directory is: they are checked
\* after the commit (applyBatch: #revalidateRealtimeSockets).
NoBroadcastAfterRevocation ==
    [][\A a \in Appliers :
         broadcastRealtimeChanges(a) /\ slots' # slots
            => appliers[a].granted]_realtimeVars

\* A socket that is open when the projection is ready is in its generation
\* ("Reconnect after rebuild uses the new generation").  It does not hold: an
\* upgrade waiting for D1 while a rebuild begins is accepted into the old one.
SocketsFollowTheGeneration ==
    \A s \in OpenSockets : feed.state = "ready" =>
        slots[s].position.generation = feed.generation

\* An open socket has an alarm that ends its lease ("The Durable Object
\* schedules the earliest lease alarm").  It does not hold: the handler sets
\* the alarm for the sockets it checked, not for one accepted meanwhile.
LeasesHaveAnAlarm ==
    OpenSockets # {} => lease.alarm \/ lease.checking

\* Once changes and rebuilds stop, a browser that has connected and whose grant
\* stays is told of everything: by a broadcast, by the replay of a resume, or at
\* the latest by the resume that follows the end of its lease.
BrowserCatchesUp ==
    browser.slot # "none"
        ~> [](granted => browser.position = Position(feed.generation, feed.latest))
=============================================================================
