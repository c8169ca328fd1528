--------------------------- MODULE WebhookProofs ---------------------------
(***************************************************************************)
(* Proofs about Webhooks for any subscriptions, messages and deliverers,    *)
(* any number of cutovers, edits, removals, failures and retries: what is  *)
(* sent goes to the destination it was written for and is sent once, a     *)
(* removal and a request never cross, revisions follow a delivery, and the *)
(* rows are a ledger of durable work.                                      *)
(***************************************************************************)
EXTENDS Webhooks, FiniteSetTheorems, TLAPS

-----------------------------------------------------------------------------
(* The inductive invariant *)

SubRow == [status : {"none", "active", "revoked"}, ver : Nat, rules : BOOLEAN,
           facts : SUBSET (Volatile \cup {"account", "installation", "identity",
                                          "membership", "grant"})]

DeliveryRow == [status : Statuses, ver : Nat, epoch : Nat,
                lease : Deliverers \cup {"none"}, lapsed : BOOLEAN,
                started : BOOLEAN, manual : BOOLEAN, overdue : BOOLEAN]

Steps == {"idle", "fence", "read", "hydrate", "hydrate_again", "prepare", "send",
          "claim", "claim_again", "request", "answered", "failure", "finish", "race"}

DelivererRow == [pc : Steps, d : Deliveries \cup {NoWork.d}, epoch : Nat, rev : Nat,
                 ver : Nat, started : BOOLEAN, ok : BOOLEAN]

WebhookShape ==
    /\ sub \in [Subscriptions -> SubRow]
    /\ rev \in [Messages -> Nat]
    /\ removed \subseteq [m : Messages, kind : {"api", "provider"}]
    /\ IsFiniteSet(removed) /\ elsewhere \in Nat
    /\ row \in [Deliveries -> DeliveryRow]
    /\ deliverer \in [Deliverers -> DelivererRow]
    /\ fan \subseteq [d : Deliveries, ver : Nat]
    /\ retrying \subseteq retried

\* The steps from the last look at the subscription to the answer, the steps
\* between the last fence and the provider-start marker, and the steps after it.
Addressed == {"send", "claim", "claim_again", "request", "answered"}
Fenced == {"claim", "claim_again"}
Underway == {"request", "answered"}

\* A deliverer at work has a row, the version it sends to is the row's, an epoch
\* that is still current has seen no removal of its message, and a request
\* that is out is marked in the row or has been given up as uncertain.
DelivererSound(w) ==
    /\ deliverer[w].pc # "idle" =>
          deliverer[w].d \in Deliveries /\ row[deliverer[w].d].status # "none"
    /\ deliverer[w].pc \in Addressed => deliverer[w].ver = row[deliverer[w].d].ver
    /\ deliverer[w].pc \in Fenced =>
          /\ deliverer[w].epoch <= Epoch
          /\ deliverer[w].epoch = Epoch /\ KindOf(deliverer[w].d) \in WebhookContent =>
                ~Removed(MsgOf(deliverer[w].d))
    /\ deliverer[w].pc \in Underway =>
          /\ Holds(w) => row[deliverer[w].d].started
          /\ Holds(w) \/ row[deliverer[w].d].status = "uncertain" \/ deliverer[w].d \in retried
    /\ deliverer[w].ok => deliverer[w].d \in got

FirstDelivered(d, ver) ==
    /\ row[<<SubOf(d), MsgOf(d), "created">>].status = "delivered"
    /\ row[<<SubOf(d), MsgOf(d), "created">>].ver = ver

\* A revision waiting to be inserted was chosen for the destination that
\* acknowledged the message.
FanSound == \A f \in fan : KindOf(f.d) # "created" => FirstDelivered(f.d, f.ver)

OneSender ==
    \A v, w \in Deliverers :
       /\ deliverer[v].pc \in Underway /\ deliverer[w].pc \in Underway
       /\ deliverer[v].d = deliverer[w].d /\ deliverer[w].d \notin retried
       => v = w

WebhookInv ==
    /\ WebhookShape
    /\ \A w \in Deliverers : DelivererSound(w)
    /\ OneSender
    /\ FanSound
    /\ RevisionsFollowDelivery

-----------------------------------------------------------------------------
(* Rows and what the statements make of them *)

\* What every statement does to a row under the invariant: it stays a row, keeps
\* the version it was inserted with, a delivered row stays, an uncertain one too
\* unless someone asked to retry it, only an idle deliverer is given a lease,
\* and a marked row keeps lease and marker until it is uncertain or until its
\* holder is done.
RowMoves(d, r, x) ==
    /\ x \in DeliveryRow
    /\ r.status # "none" => x.status # "none" /\ x.ver = r.ver
    /\ r.status = "delivered" => x.status = "delivered"
    /\ r.status = "uncertain" /\ d \notin retried => x.status = "uncertain"
    /\ x.status = "leased" =>
          \/ r.status = "leased" /\ x.lease = r.lease /\ (r.started => x.started)
          \/ \E w \in Deliverers : x.lease = w /\ deliverer[w].pc = "idle" /\ deliverer'[w].pc \notin Underway
    /\ r.status = "leased" /\ r.started =>
          \/ x.status = "leased" /\ x.lease = r.lease
          \/ x.status = "uncertain"
          \/ \E w \in Deliverers : r.lease = w /\ deliverer'[w].pc \notin Underway

\* Only an INSERT makes a row of none.
NoneStays(r, x) == r.status = "none" => x.status = "none"

RowsMove ==
    /\ row' \in [Deliveries -> DeliveryRow]
    /\ \A d \in Deliveries : RowMoves(d, row[d], row'[d])

RowsOnlyMove == RowsMove /\ \A d \in Deliveries : NoneStays(row[d], row'[d])

\* A delivery names a subscription, a message and a kind.
LEMMA DeliveryParts ==
    ASSUME NEW d \in Deliveries
    PROVE  /\ SubOf(d) \in Subscriptions /\ MsgOf(d) \in Messages /\ KindOf(d) \in Kinds
           /\ <<SubOf(d), MsgOf(d), "created">> \in Deliveries
BY Zenon DEF Deliveries, SubOf, MsgOf, KindOf, Kinds, WebhookContent

\* Withdrawing a row cancels it and keeps its version and its lease.
LEMMA WithdrawnRow ==
    ASSUME NEW r \in DeliveryRow
    PROVE  /\ Withdrawn(r) \in DeliveryRow /\ Withdrawn(r).status = "cancelled"
           /\ Withdrawn(r).ver = r.ver
BY Zenon DEF Withdrawn, Closed, DeliveryRow, Statuses

\* Cancelling a row keeps its version and gives up the lease.
LEMMA CancelledRow ==
    ASSUME NEW r \in DeliveryRow
    PROVE  /\ Cancelled(r) \in DeliveryRow /\ Cancelled(r).status = "cancelled"
           /\ Cancelled(r).ver = r.ver
BY Zenon DEF Cancelled, Withdrawn, Released, Closed, DeliveryRow, Statuses

\* A row whose outcome is unknown keeps its version and gives up the lease.
LEMMA UncertainRow ==
    ASSUME NEW r \in DeliveryRow
    PROVE  LET x == [Released(r) EXCEPT !.status = "uncertain", !.manual = FALSE] IN
           x \in DeliveryRow /\ x.status = "uncertain" /\ x.ver = r.ver
BY Zenon DEF Released, DeliveryRow, Statuses

\* Recording a result delivers, fails or requeues the row.
LEMMA RecordedRow ==
    ASSUME NEW r \in DeliveryRow, NEW ok \in BOOLEAN
    PROVE  /\ Recorded(r, ok) \in DeliveryRow /\ Recorded(r, ok).ver = r.ver
           /\ Recorded(r, ok).status = IF ok THEN "delivered"
                                       ELSE IF r.overdue THEN "failed" ELSE "pending"
<1>1. PICK b \in BOOLEAN : b = r.overdue
  BY Zenon DEF DeliveryRow
<1>2. CASE ok
  BY <1>2, Zenon DEF Recorded, Closed, Released, DeliveryRow, Statuses
<1>3. CASE ~ok
  BY <1>1, <1>3, Zenon DEF Recorded, Closed, Released, DeliveryRow, Statuses
<1> QED BY Zenon, <1>2, <1>3

\* The first two UPDATEs of claimDelivery leave a row alone, give up a started
\* one as uncertain or fail an overdue one.
LEMMA ClaimedRow ==
    ASSUME NEW r \in DeliveryRow
    PROVE  LET x == AttemptsExhausted(Abandoned(r)) IN
           /\ x \in DeliveryRow /\ x.ver = r.ver
           /\ \/ x = r
              \/ x.status = "uncertain" /\ r.status = "leased" /\ r.lapsed /\ r.started
              \/ x.status = "failed" /\ r.status = "pending"
              \/ x.status = "failed" /\ r.status = "leased" /\ r.lapsed /\ ~r.started
<1>1. PICK a : a = Abandoned(r)
  BY Zenon
<1>2. /\ a \in DeliveryRow /\ a.ver = r.ver
      /\ \/ a = r /\ ~(r.status = "leased" /\ r.lapsed /\ r.started)
         \/ a.status = "uncertain" /\ r.status = "leased" /\ r.lapsed /\ r.started
  BY Zenon, <1>1, UncertainRow DEF Abandoned
<1>3. /\ AttemptsExhausted(a) \in DeliveryRow /\ AttemptsExhausted(a).ver = a.ver
      /\ \/ AttemptsExhausted(a) = a
         \/ AttemptsExhausted(a).status = "failed" /\ a.status = "pending"
         \/ AttemptsExhausted(a).status = "failed" /\ a.status = "leased" /\ a.lapsed /\ ~a.started
  BY <1>2, Zenon DEF AttemptsExhausted, Released, DeliveryRow, Statuses
<1> QED BY Zenon, <1>1, <1>2, <1>3

\* A row that stays is a row that moves.
LEMMA SameRow ==
    ASSUME NEW d \in Deliveries, NEW r \in DeliveryRow
    PROVE  RowMoves(d, r, r) /\ NoneStays(r, r)
BY Zenon DEF RowMoves, NoneStays

\* Statements that write one row move the rows when they move that one.
LEMMA OneRowMoves ==
    ASSUME WebhookShape, NEW d \in Deliveries, NEW x,
           row' = [row EXCEPT ![d] = x], RowMoves(d, row[d], x), NoneStays(row[d], x)
    PROVE  RowsOnlyMove
<1>1. x \in DeliveryRow /\ row \in [Deliveries -> DeliveryRow]
  BY Zenon DEF RowMoves, WebhookShape
<1>2. row' \in [Deliveries -> DeliveryRow] /\ row'[d] = x /\ \A e \in Deliveries : e # d => row'[e] = row[e]
  BY Zenon, <1>1
<1> QED BY Zenon, <1>1, <1>2, SameRow DEF RowsOnlyMove, RowsMove

\* Statements that write no row move none.
LEMMA NoRowMoves ==
    ASSUME WebhookShape, row' = row
    PROVE  RowsOnlyMove
BY Zenon, SameRow DEF RowsOnlyMove, RowsMove, WebhookShape

\* A row that nobody has marked may be cancelled or failed; so may a marked one
\* by its holder, who then leaves.
LEMMA ClosedMoves ==
    ASSUME NEW d \in Deliveries, NEW r \in DeliveryRow, NEW x \in DeliveryRow, x.ver = r.ver,
           x.status \in {"cancelled", "failed"},
           \/ r.status = "pending"
           \/ r.status = "leased" /\ ~r.started
           \/ /\ r.status = "leased"
              /\ \E w \in Deliverers : r.lease = w /\ deliverer'[w].pc \notin Underway
    PROVE  RowMoves(d, r, x) /\ NoneStays(r, x)
BY Zenon DEF RowMoves, NoneStays

\* A leased row may become uncertain.
LEMMA UncertainMoves ==
    ASSUME NEW d \in Deliveries, NEW r \in DeliveryRow, NEW x \in DeliveryRow, x.ver = r.ver,
           x.status = "uncertain", r.status = "leased"
    PROVE  RowMoves(d, r, x) /\ NoneStays(r, x)
BY Zenon DEF RowMoves, NoneStays

-----------------------------------------------------------------------------
(* How the parts of the invariant survive a step *)

\* The epoch never goes back, and as long as it stays no removal was recorded.
EpochMoves ==
    /\ removed' \subseteq [m : Messages, kind : {"api", "provider"}]
    /\ IsFiniteSet(removed') /\ elsewhere' \in Nat
    /\ Epoch <= Epoch' /\ (Epoch' = Epoch => removed' = removed)

\* The epoch is a number.
LEMMA EpochIsNat ==
    ASSUME WebhookShape
    PROVE  Epoch \in Nat
BY FS_CardinalityType DEF WebhookShape, Epoch

\* A step that records no removal leaves the epoch alone.
LEMMA EpochStays ==
    ASSUME WebhookShape, removed' = removed, elsewhere' = elsewhere
    PROVE  EpochMoves /\ Epoch' = Epoch
BY EpochIsNat DEF WebhookShape, EpochMoves, Epoch

\* A deliverer that does nothing in a step stays sound through it.
LEMMA BystanderSound ==
    ASSUME WebhookInv, RowsMove, EpochMoves, retried \subseteq retried', got \subseteq got',
           NEW w \in Deliverers, deliverer'[w] = deliverer[w]
    PROVE  DelivererSound(w)'
<1> DEFINE d == deliverer[w].d
<1>1. /\ DelivererSound(w) /\ deliverer[w] \in DelivererRow /\ row \in [Deliveries -> DeliveryRow]
      /\ Epoch \in Nat
  BY Zenon, EpochIsNat DEF WebhookInv, WebhookShape
<1>2. deliverer[w].pc # "idle" => d \in Deliveries /\ RowMoves(d, row[d], row'[d])
  BY Zenon, <1>1 DEF DelivererSound, RowsMove
<1>3. deliverer[w].pc # "idle" => d \in Deliveries /\ row'[d].status # "none" /\ row'[d].ver = row[d].ver
  BY Zenon, <1>1, <1>2 DEF DelivererSound, RowMoves
<1>4. ASSUME deliverer[w].pc \in Fenced
      PROVE  /\ deliverer[w].epoch <= Epoch'
             /\ deliverer[w].epoch = Epoch' /\ KindOf(d) \in WebhookContent => ~Removed(MsgOf(d))'
  <2>1. /\ deliverer[w].epoch <= Epoch /\ deliverer[w].epoch \in Nat /\ Epoch' \in Nat
        /\ deliverer[w].epoch = Epoch /\ KindOf(d) \in WebhookContent => ~Removed(MsgOf(d))
    BY <1>1, <1>4, FS_CardinalityType DEF DelivererSound, DelivererRow, EpochMoves, Epoch
  <2>2. removed' = removed => (Removed(MsgOf(d))' <=> Removed(MsgOf(d)))
    BY Zenon DEF Removed, MsgOf
  <2> QED BY <1>1, <2>1, <2>2 DEF EpochMoves
<1>5. ASSUME deliverer[w].pc \in Underway
      PROVE  /\ row'[d].status = "leased" /\ row'[d].lease = w => row'[d].started
             /\ \/ row'[d].status = "leased" /\ row'[d].lease = w
                \/ row'[d].status = "uncertain"
                \/ d \in retried'
  <2>1. /\ d \in Deliveries /\ RowMoves(d, row[d], row'[d])
        /\ row[d].status = "leased" /\ row[d].lease = w => row[d].started
        /\ \/ row[d].status = "leased" /\ row[d].lease = w
           \/ row[d].status = "uncertain"
           \/ d \in retried
    BY Zenon, <1>1, <1>2, <1>5 DEF DelivererSound, Holds, Underway
  <2>2. deliverer[w].pc # "idle" /\ deliverer'[w].pc \in Underway
    BY Zenon, <1>5 DEF Underway
  <2> QED BY Zenon, <2>1, <2>2 DEF RowMoves
<1>6. deliverer[w].ok => d \in got'
  BY Zenon, <1>1 DEF DelivererSound
<1>7. deliverer[w].pc \in Addressed => deliverer[w].ver = row'[d].ver
  BY Zenon, <1>1, <1>3 DEF DelivererSound, Addressed
<1> QED BY ZenonT(60), <1>3, <1>4, <1>5, <1>6, <1>7 DEF DelivererSound, Holds

\* No second request goes out when no new one does.
LEMMA NoNewSender ==
    ASSUME OneSender, retried \subseteq retried',
           \A w \in Deliverers : deliverer'[w].pc \in Underway =>
                deliverer[w].pc \in Underway /\ deliverer'[w].d = deliverer[w].d
    PROVE  OneSender'
BY Zenon DEF OneSender

\* A destination that acknowledged a message has acknowledged it for good.
LEMMA FirstStays ==
    ASSUME RowsMove, NEW d \in Deliveries, NEW v, FirstDelivered(d, v)
    PROVE  FirstDelivered(d, v)'
<1>1. PICK e \in Deliveries : e = <<SubOf(d), MsgOf(d), "created">>
  BY DeliveryParts, Zenon
<1>2. RowMoves(e, row[e], row'[e]) /\ row[e].status = "delivered" /\ row[e].ver = v
  BY Zenon, <1>1 DEF RowsMove, FirstDelivered
<1>3. row'[e].status = "delivered" /\ row'[e].ver = v
  BY Zenon, <1>2 DEF RowMoves
<1> QED BY Zenon, <1>1, <1>3 DEF FirstDelivered, SubOf, MsgOf

\* Revisions follow deliveries while no row is inserted and none is chosen.
LEMMA RevisionsStay ==
    ASSUME WebhookInv, RowsOnlyMove, fan' \subseteq fan
    PROVE  FanSound' /\ RevisionsFollowDelivery'
<1>1. \A d \in Deliveries : \A v : FirstDelivered(d, v) => FirstDelivered(d, v)'
  BY Zenon, FirstStays DEF RowsOnlyMove
<1>2. FanSound'
  BY Zenon, <1>1 DEF WebhookInv, FanSound, WebhookShape, KindOf
<1>3. ASSUME NEW d \in Deliveries, KindOf(d) # "created", row'[d].status # "none"
      PROVE  FirstDelivered(d, row[d].ver)'
  <2>1. row[d].status # "none" /\ row'[d].ver = row[d].ver
    BY Zenon, <1>3 DEF RowsOnlyMove, RowsMove, RowMoves, NoneStays
  <2>2. FirstDelivered(d, row[d].ver)
    BY Zenon, <1>3, <2>1 DEF WebhookInv, RevisionsFollowDelivery, FirstDelivered
  <2>3. PICK v : v = row[d].ver
    BY Zenon
  <2> QED BY Zenon, <1>1, <2>1, <2>2, <2>3 DEF FirstDelivered
<1> QED BY Zenon, <1>2, <1>3 DEF RevisionsFollowDelivery, FirstDelivered, SubOf, MsgOf, KindOf

\* A step of the directory, the queue or the clock, in which no deliverer acts.
LEMMA OutsideStep ==
    ASSUME WebhookInv, WebhookShape', RowsOnlyMove, EpochMoves, UNCHANGED workers,
           fan' \subseteq fan, retried \subseteq retried'
    PROVE  WebhookInv'
<1>1. deliverer' = deliverer /\ got' = got
  BY Zenon DEF workers
<1>2. \A w \in Deliverers : DelivererSound(w)'
  BY Zenon, <1>1, BystanderSound DEF RowsOnlyMove
<1>3. OneSender'
  BY Zenon, <1>1, NoNewSender DEF WebhookInv
<1> QED BY Zenon, <1>2, <1>3, RevisionsStay DEF WebhookInv

\* What a step of deliverOne leaves alone, and that it leaves the others alone.
ActsAlone(w, x) ==
    /\ x \in DelivererRow
    /\ deliverer' = [deliverer EXCEPT ![w] = x]
    /\ got \subseteq got'
    /\ UNCHANGED <<sub, source, requests>>

\* A step of one deliverer that leaves it sound and the only sender.
LEMMA DelivererMove ==
    ASSUME WebhookInv, NEW w \in Deliverers, NEW x, ActsAlone(w, x), RowsOnlyMove,
           DelivererSound(w)', OneSender'
    PROVE  WebhookInv'
<1>1. /\ deliverer' \in [Deliverers -> DelivererRow] /\ deliverer'[w] = x
      /\ \A v \in Deliverers : v # w => deliverer'[v] = deliverer[v]
  BY Zenon DEF ActsAlone, WebhookInv, WebhookShape
<1>2. sub' = sub /\ rev' = rev /\ removed' = removed /\ elsewhere' = elsewhere /\ fan' = fan
      /\ retrying' = retrying /\ retried' = retried /\ got \subseteq got'
  BY Zenon DEF ActsAlone, source, requests
<1>3. WebhookShape'
  BY Zenon, <1>1, <1>2 DEF WebhookInv, WebhookShape, RowsOnlyMove, RowsMove
<1>4. EpochMoves
  BY Zenon, <1>2, EpochStays DEF WebhookInv
<1>5. \A v \in Deliverers : DelivererSound(v)'
  BY Zenon, <1>1, <1>2, <1>4, BystanderSound DEF RowsOnlyMove
<1> QED BY Zenon, <1>2, <1>3, <1>5, RevisionsStay DEF WebhookInv

\* A step of one deliverer that starts no request.
LEMMA DelivererStep ==
    ASSUME WebhookInv, NEW w \in Deliverers, NEW x, ActsAlone(w, x), RowsOnlyMove,
           DelivererSound(w)', x.pc \in Underway => deliverer[w].pc \in Underway /\ x.d = deliverer[w].d
    PROVE  WebhookInv'
<1>1. deliverer'[w] = x /\ \A v \in Deliverers : v # w => deliverer'[v] = deliverer[v]
  BY Zenon DEF ActsAlone, WebhookInv, WebhookShape
<1>2. retried' = retried
  BY Zenon DEF ActsAlone, requests
<1>3. OneSender'
  BY Zenon, <1>1, <1>2, NoNewSender DEF WebhookInv
<1> QED BY Zenon, <1>3, DelivererMove

-----------------------------------------------------------------------------
(* The directory *)

\* Several rows that wait are withdrawn at once.
LEMMA WithdrawnRowsMove ==
    ASSUME WebhookShape, row' = [d \in Deliveries |-> row'[d]],
           \A d \in Deliveries : \/ row'[d] = row[d]
                                 \/ row[d].status = "pending" /\ row'[d] = Withdrawn(row[d])
    PROVE  RowsOnlyMove
<1>1. ASSUME NEW d \in Deliveries
      PROVE  row'[d] \in DeliveryRow /\ RowMoves(d, row[d], row'[d]) /\ NoneStays(row[d], row'[d])
  <2>1. row[d] \in DeliveryRow
    BY Zenon DEF WebhookShape
  <2> QED BY ZenonT(60), <2>1, WithdrawnRow, ClosedMoves, SameRow
<1>2. row' \in [Deliveries -> DeliveryRow]
  BY Zenon, <1>1
<1> QED BY Zenon, <1>1, <1>2 DEF RowsOnlyMove, RowsMove

\* A change of the subscriptions that leaves everything but the rows alone.
LEMMA DirectoryStep ==
    ASSUME WebhookInv, sub' \in [Subscriptions -> SubRow], RowsOnlyMove,
           UNCHANGED <<source, requests, workers>>
    PROVE  WebhookInv'
<1>1. /\ rev' = rev /\ removed' = removed /\ elsewhere' = elsewhere /\ fan' = fan
      /\ retrying' = retrying /\ retried' = retried /\ deliverer' = deliverer
  BY Zenon DEF source, requests, workers
<1>2. WebhookShape'
  BY Zenon, <1>1 DEF WebhookInv, WebhookShape, RowsOnlyMove, RowsMove
<1> QED BY Zenon, <1>1, <1>2, EpochStays, OutsideStep DEF WebhookInv

\* Creating, changing, cutting over and revoking a subscription, and every
\* change of the authority behind it, keep the invariant.
LEMMA DirectoryKeepsInv ==
    ASSUME WebhookInv, NEW s \in Subscriptions, directory(s)
    PROVE  WebhookInv'
<1>1. /\ sub \in [Subscriptions -> SubRow] /\ sub[s] \in SubRow /\ WebhookShape
  BY Zenon DEF WebhookInv, WebhookShape
<1>2. CASE createWebhookSubscription(s)
  <2>1. sub' \in [Subscriptions -> SubRow]
    BY <1>1, <1>2, Zenon DEF createWebhookSubscription, SubRow
  <2> QED BY Zenon, <1>1, <1>2, <2>1, DirectoryStep, NoRowMoves DEF createWebhookSubscription
<1>3. CASE updateWebhookSubscription(s)
  <2>1. (~sub[s].rules) \in BOOLEAN
    BY Zenon
  <2>2. sub' \in [Subscriptions -> SubRow]
    BY <1>1, <1>3, <2>1, Zenon DEF updateWebhookSubscription, SubRow
  <2> QED BY Zenon, <1>1, <1>3, <2>2, DirectoryStep, NoRowMoves DEF updateWebhookSubscription
<1>4. CASE cutoverWebhookSubscription(s)
  <2>1. sub' \in [Subscriptions -> SubRow]
    BY <1>1, <1>4 DEF cutoverWebhookSubscription, SubRow
  <2>2. /\ row' = [d \in Deliveries |-> row'[d]]
        /\ \A d \in Deliveries : \/ row'[d] = row[d]
                                 \/ row[d].status = "pending" /\ row'[d] = Withdrawn(row[d])
    BY Zenon, <1>4 DEF cutoverWebhookSubscription
  <2>3. RowsOnlyMove
    BY Zenon, <1>1, <2>2, WithdrawnRowsMove
  <2> QED BY Zenon, <1>4, <2>1, <2>3, DirectoryStep DEF cutoverWebhookSubscription
<1>5. CASE revokeWebhookSubscription(s)
  <2>1. sub' \in [Subscriptions -> SubRow]
    BY Zenon, <1>1, <1>5 DEF revokeWebhookSubscription, SubRow
  <2>2. /\ row' = [d \in Deliveries |-> row'[d]]
        /\ \A d \in Deliveries : \/ row'[d] = row[d]
                                 \/ row[d].status = "pending" /\ row'[d] = Withdrawn(row[d])
    BY Zenon, <1>5 DEF revokeWebhookSubscription
  <2>3. RowsOnlyMove
    BY Zenon, <1>1, <2>2, WithdrawnRowsMove
  <2> QED BY Zenon, <1>5, <2>1, <2>3, DirectoryStep DEF revokeWebhookSubscription
<1>6. ASSUME NEW fact \in Volatile, authorityFactChanges(s, fact) PROVE WebhookInv'
  <2>1. PICK f : f = IF fact \in sub[s].facts THEN sub[s].facts \ {fact}
                     ELSE sub[s].facts \union {fact}
    BY Zenon
  <2>2. f \in SUBSET (Volatile \cup {"account", "installation", "identity", "membership", "grant"})
    BY Zenon, <1>1, <2>1 DEF SubRow
  <2>3. sub' = [sub EXCEPT ![s].facts = f]
    BY Zenon, <1>1, <1>6, <2>1 DEF authorityFactChanges
  <2>4. sub' \in [Subscriptions -> SubRow]
    BY Zenon, <1>1, <2>2, <2>3 DEF SubRow
  <2> QED BY Zenon, <1>1, <1>6, <2>4, DirectoryStep, NoRowMoves DEF authorityFactChanges
<1> QED BY Zenon, <1>2, <1>3, <1>4, <1>5, <1>6 DEF directory

-----------------------------------------------------------------------------
(* Ingestion and the requests that wait *)

\* Recording a removal takes the next epoch.
LEMMA RemovalAdvances ==
    ASSUME WebhookShape, NEW m \in Messages, NEW kind \in {"api", "provider"}, recordRemoval(m, kind)
    PROVE  EpochMoves
<1>1. PICK a : a = [m |-> m, kind |-> kind]
  BY Zenon
<1>2. a \notin removed /\ removed' = removed \union {a} /\ elsewhere' = elsewhere
      /\ a \in [m : Messages, kind : {"api", "provider"}]
  BY Zenon, <1>1 DEF recordRemoval
<1>3. IsFiniteSet(removed) /\ removed \subseteq [m : Messages, kind : {"api", "provider"}] /\ elsewhere \in Nat
  BY Zenon DEF WebhookShape
<1>4. IsFiniteSet(removed') /\ Cardinality(removed') = Cardinality(removed) + 1
      /\ Cardinality(removed) \in Nat
  BY Zenon, <1>2, <1>3, FS_AddElement, FS_CardinalityType
<1> QED BY <1>2, <1>3, <1>4 DEF EpochMoves, Epoch

\* Suppression closes rows that wait and leases nobody has marked.
LEMMA SuppressionMoves ==
    ASSUME WebhookShape, NEW m \in Messages, cancelWebhookDeliveriesForRemoval(m)
    PROVE  RowsOnlyMove
<1>1. ASSUME NEW d \in Deliveries
      PROVE  row'[d] \in DeliveryRow /\ RowMoves(d, row[d], row'[d]) /\ NoneStays(row[d], row'[d])
  <2>1. row[d] \in DeliveryRow
    BY Zenon DEF WebhookShape
  <2>2. \/ row'[d] = row[d]
        \/ /\ row[d].status = "pending" \/ (row[d].status = "leased" /\ ~row[d].started)
           /\ row'[d] = Cancelled(row[d])
    BY Zenon DEF cancelWebhookDeliveriesForRemoval
  <2> QED BY Zenon, <2>1, <2>2, CancelledRow, ClosedMoves, SameRow
<1>2. row' = [d \in Deliveries |-> row'[d]]
  BY Zenon DEF cancelWebhookDeliveriesForRemoval
<1>3. row' \in [Deliveries -> DeliveryRow]
  BY Zenon, <1>1, <1>2
<1> QED BY Zenon, <1>1, <1>3 DEF RowsOnlyMove, RowsMove

\* Projected events, removals, suppression and redaction keep the invariant.
LEMMA IngestionKeepsInv ==
    ASSUME WebhookInv, NEW m \in Messages, ingestion(m)
    PROVE  WebhookInv'
<1>1. WebhookShape
  BY Zenon DEF WebhookInv
<1>2. CASE applyBatch(m)
  <2>1. rev' \in [Messages -> Nat]
    BY <1>1, <1>2 DEF applyBatch, WebhookShape
  <2>2. WebhookShape' /\ fan' = fan /\ retried' = retried
    BY Zenon, <1>1, <1>2, <2>1 DEF applyBatch, WebhookShape, requests, workers
  <2> QED BY Zenon, <1>1, <1>2, <2>2, OutsideStep, NoRowMoves, EpochStays DEF applyBatch
<1>3. ASSUME NEW kind \in {"api", "provider"}, recordRemoval(m, kind) PROVE WebhookInv'
  <2>1. EpochMoves
    BY Zenon, <1>1, <1>3, RemovalAdvances
  <2>2. WebhookShape' /\ fan' = fan /\ retried' = retried
    BY Zenon, <1>1, <1>3, <2>1 DEF recordRemoval, WebhookShape, requests, workers, EpochMoves
  <2> QED BY Zenon, <1>1, <1>3, <2>1, <2>2, OutsideStep, NoRowMoves DEF recordRemoval
<1>4. CASE cancelWebhookDeliveriesForRemoval(m)
  <2>1. RowsOnlyMove
    BY Zenon, <1>1, <1>4, SuppressionMoves
  <2>2. sub' = sub
    BY Zenon, <1>4 DEF cancelWebhookDeliveriesForRemoval
  <2> QED BY Zenon, <1>1, <1>4, <2>1, <2>2, DirectoryStep DEF cancelWebhookDeliveriesForRemoval, WebhookShape
<1>5. CASE redact(m)
  <2>1. WebhookShape' /\ fan' = fan /\ retried' = retried
    BY Zenon, <1>1, <1>5 DEF redact, WebhookShape, requests, workers
  <2> QED BY Zenon, <1>1, <1>5, <2>1, OutsideStep, NoRowMoves, EpochStays DEF redact
<1> QED BY Zenon, <1>2, <1>3, <1>4, <1>5 DEF ingestion

\* A removal of anything else keeps the invariant.
LEMMA RemovalElsewhereKeepsInv ==
    ASSUME WebhookInv, recordRemovalElsewhere
    PROVE  WebhookInv'
<1>1. WebhookShape /\ Cardinality(removed) \in Nat
  BY Zenon, FS_CardinalityType DEF WebhookInv, WebhookShape
<1>2. EpochMoves
  BY <1>1 DEF recordRemovalElsewhere, WebhookShape, EpochMoves, Epoch
<1>3. WebhookShape' /\ fan' = fan /\ retried' = retried
  BY Zenon, <1>1, <1>2 DEF recordRemovalElsewhere, WebhookShape, requests, workers, EpochMoves
<1> QED BY Zenon, <1>1, <1>2, <1>3, OutsideStep, NoRowMoves DEF recordRemovalElsewhere

\* A retry by hand keeps the invariant: the check ...
LEMMA RetryCheckKeepsInv ==
    ASSUME WebhookInv, NEW d \in Deliveries, retryWebhookDeliveryCheck(d)
    PROVE  WebhookInv'
<1>1. WebhookShape
  BY Zenon DEF WebhookInv
<1>2. removed' = removed /\ elsewhere' = elsewhere /\ fan' = fan /\ retried \subseteq retried'
  BY Zenon DEF retryWebhookDeliveryCheck, source
<1>3. WebhookShape'
  BY Zenon, <1>1 DEF retryWebhookDeliveryCheck, WebhookShape, source, workers
<1> QED BY Zenon, <1>1, <1>2, <1>3, OutsideStep, NoRowMoves, EpochStays DEF retryWebhookDeliveryCheck

\* ... and the UPDATE.
LEMMA RetryKeepsInv ==
    ASSUME WebhookInv, NEW d \in Deliveries, retryWebhookDelivery(d)
    PROVE  WebhookInv'
<1>1. WebhookShape /\ d \in retried /\ row[d] \in DeliveryRow /\ row \in [Deliveries -> DeliveryRow]
  BY Zenon DEF WebhookInv, WebhookShape, retryWebhookDelivery
<1>4. RowsOnlyMove
  <2>1. CASE row' = row
    BY Zenon, <1>1, <2>1, NoRowMoves
  <2>2. CASE row[d].status \in {"failed", "uncertain"}
             /\ row' = [row EXCEPT ![d].status = "pending", ![d].manual = TRUE]
    <3>1. PICK x : x = [row[d] EXCEPT !.status = "pending", !.manual = TRUE]
      BY Zenon
    <3>2. x \in DeliveryRow /\ x.status = "pending" /\ x.ver = row[d].ver
      BY <1>1, <3>1, Zenon DEF DeliveryRow, Statuses
    <3>3. row' = [row EXCEPT ![d] = x]
      BY <1>1, <2>2, <3>1, Zenon
    <3>4. RowMoves(d, row[d], x) /\ NoneStays(row[d], x)
      BY Zenon, <1>1, <2>2, <3>2 DEF RowMoves, NoneStays
    <3> QED BY <1>1, <3>3, <3>4, OneRowMoves, Zenon
  <2> QED BY Zenon, <2>1, <2>2 DEF retryWebhookDelivery
<1>5. removed' = removed /\ elsewhere' = elsewhere /\ fan' = fan /\ retried' = retried
  BY Zenon DEF retryWebhookDelivery, source
<1>6. WebhookShape'
  BY Zenon, <1>1, <1>4 DEF retryWebhookDelivery, WebhookShape, source, workers, RowsOnlyMove, RowsMove
<1> QED BY Zenon, <1>1, <1>4, <1>5, <1>6, OutsideStep, EpochStays DEF retryWebhookDelivery

\* A chosen row is chosen for the destination that acknowledged the message.
LEMMA FanStep ==
    ASSUME WebhookInv, NEW d \in Deliveries,
           fan' = fan \union {[d |-> d, ver |-> sub[SubOf(d)].ver]},
           KindOf(d) # "created" => FirstDelivered(d, sub[SubOf(d)].ver),
           UNCHANGED <<sub, source, row, retrying, retried, workers>>
    PROVE  WebhookInv'
<1>1. PICK f : f = [d |-> d, ver |-> sub[SubOf(d)].ver]
  BY Zenon
<1>2. f \in [d : Deliveries, ver : Nat] /\ f.d = d /\ f.ver = sub[SubOf(d)].ver
  BY <1>1, DeliveryParts, Zenon DEF WebhookInv, WebhookShape, SubRow
<1>3. /\ rev' = rev /\ removed' = removed /\ elsewhere' = elsewhere /\ row' = row
      /\ deliverer' = deliverer /\ got' = got /\ retried' = retried /\ retrying' = retrying /\ sub' = sub
  BY Zenon DEF source, workers
<1>4. WebhookShape'
  BY Zenon, <1>1, <1>2, <1>3 DEF WebhookInv, WebhookShape
<1>5. EpochMoves /\ RowsMove
  BY Zenon, <1>3, EpochStays, NoRowMoves DEF WebhookInv, RowsOnlyMove
<1>6. \A w \in Deliverers : DelivererSound(w)'
  BY Zenon, <1>3, <1>5, BystanderSound
<1>7. OneSender' /\ RevisionsFollowDelivery'
  BY Zenon, <1>3 DEF WebhookInv, OneSender, RevisionsFollowDelivery
<1>8. FanSound'
  BY ZenonT(60), <1>1, <1>2, <1>3 DEF WebhookInv, FanSound, FirstDelivered
<1> QED BY Zenon, <1>4, <1>6, <1>7, <1>8 DEF WebhookInv

\* Fan-out and reconciliation keep the invariant.
LEMMA FanOutKeepsInv ==
    ASSUME WebhookInv, NEW d \in Deliveries,
           fanOutIncomingWebhookDeliveries(d) \/ reconcileWebhookRemovalDeliveries(d)
    PROVE  WebhookInv'
<1>1. CASE fanOutIncomingWebhookDeliveries(d)
  <2>1. KindOf(d) # "created" => FirstDelivered(d, sub[SubOf(d)].ver)
    BY Zenon, <1>1 DEF fanOutIncomingWebhookDeliveries, previouslyDelivered, FirstDelivered
  <2> QED BY Zenon, <1>1, <2>1, FanStep DEF fanOutIncomingWebhookDeliveries
<1>2. CASE reconcileWebhookRemovalDeliveries(d)
  <2>1. PICK k \in Kinds : LET r == row[<<SubOf(d), MsgOf(d), k>>] IN
                           r.status = "delivered" /\ r.ver = sub[SubOf(d)].ver
    BY Zenon, <1>2 DEF reconcileWebhookRemovalDeliveries
  <2>2. PICK e : e = <<SubOf(d), MsgOf(d), k>>
    BY Zenon
  <2>3. e \in Deliveries /\ SubOf(e) = SubOf(d) /\ MsgOf(e) = MsgOf(d) /\ KindOf(e) = k
    BY Zenon, <2>2 DEF Deliveries, SubOf, MsgOf, KindOf
  <2>4. row[e].status = "delivered" /\ row[e].ver = sub[SubOf(d)].ver
    BY Zenon, <2>1, <2>2
  <2>5. FirstDelivered(d, sub[SubOf(d)].ver)
    <3>1. CASE k = "created"
      BY Zenon, <2>2, <2>4, <3>1 DEF FirstDelivered
    <3>2. CASE k # "created"
      BY Zenon, <2>3, <2>4, <3>2 DEF WebhookInv, RevisionsFollowDelivery, FirstDelivered
    <3> QED BY Zenon, <3>1, <3>2
  <2> QED BY Zenon, <1>2, <2>5, FanStep DEF reconcileWebhookRemovalDeliveries
<1> QED BY Zenon, <1>1, <1>2

\* Inserting a chosen row keeps the invariant.
LEMMA InsertKeepsInv ==
    ASSUME WebhookInv, NEW f \in fan, insertDeliveryRows(f)
    PROVE  WebhookInv'
<1>1. /\ WebhookShape /\ f \in [d : Deliveries, ver : Nat] /\ row \in [Deliveries -> DeliveryRow]
      /\ Epoch \in Nat
  BY Zenon, EpochIsNat DEF WebhookInv, WebhookShape
<1>2. PICK d \in Deliveries, v \in Nat : d = f.d /\ v = f.ver
  BY Zenon, <1>1
<1>3. /\ fan' \subseteq fan /\ removed' = removed /\ elsewhere' = elsewhere /\ retried' = retried
      /\ deliverer' = deliverer /\ got' = got /\ retrying' = retrying /\ rev' = rev /\ sub' = sub
  BY Zenon DEF insertDeliveryRows, source, workers
<1>4. CASE row' = row
  <2>1. WebhookShape'
    BY Zenon, <1>1, <1>3, <1>4 DEF WebhookShape
  <2> QED BY ZenonT(60), <1>1, <1>3, <1>4, <2>1, OutsideStep, NoRowMoves, EpochStays DEF workers
<1>5. CASE row[d].status = "none"
           /\ row' = [row EXCEPT ![d] = [NoRow EXCEPT !.status = "pending", !.ver = v, !.epoch = Epoch]]
  <2>1. PICK x : x = [NoRow EXCEPT !.status = "pending", !.ver = v, !.epoch = Epoch]
    BY Zenon
  <2>2. x \in DeliveryRow /\ x.status = "pending" /\ x.ver = v
    BY <1>1, <2>1, Zenon DEF NoRow, DeliveryRow, Statuses
  <2>3. /\ row' \in [Deliveries -> DeliveryRow] /\ row'[d] = x
        /\ \A e \in Deliveries : e # d => row'[e] = row[e]
    BY Zenon, <1>1, <1>5, <2>1, <2>2
  <2>4. RowsMove
    <3>1. RowMoves(d, row[d], x)
      BY Zenon, <1>5, <2>2 DEF RowMoves
    <3> QED BY Zenon, <1>1, <2>3, <3>1, SameRow DEF RowsMove
  <2>5. WebhookShape'
    BY Zenon, <1>1, <1>3, <2>3 DEF WebhookShape
  <2>6. \A w \in Deliverers : DelivererSound(w)'
    BY Zenon, <1>1, <1>3, <2>4, EpochStays, BystanderSound
  <2>7. OneSender'
    BY Zenon, <1>3 DEF WebhookInv, OneSender
  <2>8. FanSound'
    <3>1. SUFFICES ASSUME NEW g \in fan, KindOf(g.d) # "created"
                   PROVE  FirstDelivered(g.d, g.ver)'
      BY Zenon, <1>3 DEF FanSound, KindOf
    <3>2. g.d \in Deliveries /\ FirstDelivered(g.d, g.ver)
      BY Zenon, <3>1 DEF WebhookInv, WebhookShape, FanSound
    <3> QED BY Zenon, <2>4, <3>2, FirstStays
  <2>9. ASSUME NEW e \in Deliveries, KindOf(e) # "created", row'[e].status # "none"
        PROVE  FirstDelivered(e, row[e].ver)'
    <3>1. PICK u : u = row'[e].ver
      BY Zenon
    <3>2. FirstDelivered(e, u)
      <4>1. CASE e = d
        BY ZenonT(60), <1>2, <2>2, <2>3, <2>9, <3>1, <4>1 DEF WebhookInv, FanSound
      <4>2. CASE e # d
        BY ZenonT(60), <2>3, <2>9, <3>1, <4>2 DEF WebhookInv, RevisionsFollowDelivery, FirstDelivered
      <4> QED BY Zenon, <4>1, <4>2
    <3>3. FirstDelivered(e, u)'
      BY Zenon, <2>4, <3>2, FirstStays
    <3> QED BY Zenon, <3>1, <3>3 DEF FirstDelivered
  <2>10. RevisionsFollowDelivery'
    BY Zenon, <2>9 DEF RevisionsFollowDelivery, FirstDelivered, SubOf, MsgOf, KindOf
  <2> QED BY Zenon, <2>5, <2>6, <2>7, <2>8, <2>10 DEF WebhookInv
<1> QED BY ZenonT(60), <1>2, <1>4, <1>5 DEF insertDeliveryRows

-----------------------------------------------------------------------------
(* Time, and the claim of a row *)

\* A lease that runs out and a deadline that passes keep the invariant.
LEMMA TimeKeepsInv ==
    ASSUME WebhookInv, NEW d \in Deliveries, leaseExpires(d) \/ retryDeadlinePasses(d)
    PROVE  WebhookInv'
<1>1. WebhookShape /\ row[d] \in DeliveryRow /\ row \in [Deliveries -> DeliveryRow]
  BY Zenon DEF WebhookInv, WebhookShape
<1>2. PICK x : /\ row' = [row EXCEPT ![d] = x] /\ x \in DeliveryRow /\ x.status = row[d].status
               /\ x.ver = row[d].ver /\ x.lease = row[d].lease /\ x.started = row[d].started
  <2>1. CASE leaseExpires(d)
    <3>1. PICK x : x = [row[d] EXCEPT !.lapsed = TRUE]
      BY Zenon
    <3>2. row' = [row EXCEPT ![d] = x]
      BY Zenon, <1>1, <2>1, <3>1 DEF leaseExpires
    <3>3. /\ x \in DeliveryRow /\ x.status = row[d].status /\ x.ver = row[d].ver
          /\ x.lease = row[d].lease /\ x.started = row[d].started
      BY <1>1, <3>1, Zenon DEF DeliveryRow
    <3> QED BY <3>2, <3>3, Zenon
  <2>2. CASE retryDeadlinePasses(d)
    <3>1. PICK x : x = [row[d] EXCEPT !.overdue = TRUE]
      BY Zenon
    <3>2. row' = [row EXCEPT ![d] = x]
      BY Zenon, <1>1, <2>2, <3>1 DEF retryDeadlinePasses
    <3>3. /\ x \in DeliveryRow /\ x.status = row[d].status /\ x.ver = row[d].ver
          /\ x.lease = row[d].lease /\ x.started = row[d].started
      BY <1>1, <3>1, Zenon DEF DeliveryRow
    <3> QED BY Zenon, <3>2, <3>3
  <2> QED BY Zenon, <2>1, <2>2
<1>3. RowMoves(d, row[d], x) /\ NoneStays(row[d], x)
  BY Zenon, <1>1, <1>2 DEF RowMoves, NoneStays
<1>4. RowsOnlyMove
  BY <1>1, <1>2, <1>3, OneRowMoves, Zenon
<1>5. sub' = sub /\ UNCHANGED <<source, requests, workers>>
  BY Zenon DEF leaseExpires, retryDeadlinePasses
<1> QED BY Zenon, <1>1, <1>4, <1>5, DirectoryStep DEF WebhookShape

\* The rows the first two UPDATEs of a claim settle.
LEMMA SettledMoves ==
    ASSUME WebhookShape, NEW d \in Deliveries
    PROVE  LET x == AttemptsExhausted(Abandoned(row[d])) IN
           x \in DeliveryRow /\ x.ver = row[d].ver /\ RowMoves(d, row[d], x) /\ NoneStays(row[d], x)
<1>1. PICK x : x = AttemptsExhausted(Abandoned(row[d]))
  BY Zenon
<1>2. row[d] \in DeliveryRow
  BY Zenon DEF WebhookShape
<1> QED BY <1>1, <1>2, ClaimedRow, SameRow, ClosedMoves, UncertainMoves

\* Claiming a row keeps the invariant.
LEMMA ClaimKeepsInv ==
    ASSUME WebhookInv, NEW w \in Deliverers, NEW d \in Deliveries, claimDelivery(w, d)
    PROVE  WebhookInv'
<1>1. /\ WebhookShape /\ row[d] \in DeliveryRow /\ row \in [Deliveries -> DeliveryRow]
      /\ deliverer \in [Deliverers -> DelivererRow] /\ Epoch \in Nat /\ deliverer[w].pc = "idle"
  BY Zenon, EpochIsNat DEF WebhookInv, WebhookShape, claimDelivery
<1>2. PICK r : r = AttemptsExhausted(Abandoned(row[d]))
  BY Zenon
<1>3. r \in DeliveryRow /\ r.ver = row[d].ver /\ RowMoves(d, row[d], r) /\ NoneStays(row[d], r)
  BY Zenon, <1>1, <1>2, SettledMoves
<1>4. CASE row' = [row EXCEPT ![d] = r] /\ deliverer' = deliverer
  <2>1. RowsOnlyMove
    BY <1>1, <1>3, <1>4, OneRowMoves, Zenon
  <2>2. sub' = sub /\ UNCHANGED <<source, requests, workers>>
    BY Zenon, <1>4 DEF claimDelivery, workers
  <2> QED BY Zenon, <1>1, <2>1, <2>2, DirectoryStep DEF WebhookShape
<1>5. CASE /\ Leasable(r)
           /\ row' = [row EXCEPT ![d] = [r EXCEPT !.status = "leased", !.lease = w, !.lapsed = FALSE,
                                           !.started = FALSE, !.manual = FALSE, !.epoch = Epoch]]
           /\ deliverer' = [deliverer EXCEPT ![w] = [NoWork EXCEPT !.pc = "fence", !.d = d,
                                                      !.epoch = Epoch]]
  <2>1. PICK x : x = [r EXCEPT !.status = "leased", !.lease = w, !.lapsed = FALSE,
                               !.started = FALSE, !.manual = FALSE, !.epoch = Epoch]
    BY Zenon
  <2>2. x \in DeliveryRow /\ x.status = "leased" /\ x.lease = w /\ x.ver = row[d].ver
    BY <1>1, <1>3, <2>1, Zenon DEF DeliveryRow, Statuses
  <2>3. PICK y : y = [NoWork EXCEPT !.pc = "fence", !.d = d, !.epoch = Epoch]
    BY Zenon
  <2>4. y \in DelivererRow /\ y.pc = "fence" /\ y.d = d /\ y.ok = FALSE
    BY <1>1, <2>3, Zenon DEF NoWork, DelivererRow, Steps
  <2>5. deliverer'[w] = y /\ row'[d] = x
    BY Zenon, <1>1, <1>5, <2>1, <2>3
  <2>6. r.status = "pending" \/ (r.status = "leased" /\ ~r.started)
    BY Zenon, <1>5 DEF Leasable
  <2>7. r = row[d]
    BY Zenon, <1>1, <1>2, <2>6, ClaimedRow
  <2>8. RowMoves(d, row[d], x) /\ NoneStays(row[d], x)
    <3>1. deliverer'[w].pc \notin Underway
      BY Zenon, <2>4, <2>5 DEF Underway
    <3> QED BY Zenon, <1>1, <2>2, <2>6, <2>7, <3>1 DEF RowMoves, NoneStays
  <2>9. RowsOnlyMove
    BY <1>1, <1>5, <2>1, <2>8, OneRowMoves, Zenon
  <2>10. ActsAlone(w, y)
    BY Zenon, <1>5, <2>3, <2>4 DEF ActsAlone, claimDelivery
  <2>11. DelivererSound(w)'
    BY Zenon, <2>2, <2>4, <2>5 DEF DelivererSound, Addressed, Fenced, Underway
  <2> QED BY Zenon, <2>4, <2>9, <2>10, <2>11, DelivererStep DEF Underway
<1> QED BY Zenon, <1>2, <1>4, <1>5 DEF claimDelivery

-----------------------------------------------------------------------------
(* deliverOne *)

\* What is known of a deliverer at work.
LEMMA AtWork ==
    ASSUME WebhookInv, NEW w \in Deliverers, deliverer[w].pc # "idle"
    PROVE  /\ WebhookShape /\ deliverer \in [Deliverers -> DelivererRow]
           /\ deliverer[w] \in DelivererRow /\ row \in [Deliveries -> DeliveryRow]
           /\ deliverer[w].d \in Deliveries /\ row[deliverer[w].d] \in DeliveryRow
           /\ row[deliverer[w].d].status # "none" /\ Epoch \in Nat
BY Zenon, EpochIsNat DEF WebhookInv, WebhookShape, DelivererSound

\* A deliverer that returns.
LEMMA LeaveKeepsInv ==
    ASSUME WebhookInv, NEW w \in Deliverers, Leave(w), RowsOnlyMove,
           UNCHANGED <<sub, source, requests, got>>
    PROVE  WebhookInv'
<1>1. /\ NoWork \in DelivererRow /\ NoWork.pc = "idle" /\ NoWork.ok = FALSE
      /\ deliverer' = [deliverer EXCEPT ![w] = NoWork]
  BY Zenon DEF NoWork, DelivererRow, Steps, Leave
<1>2. deliverer'[w] = NoWork
  BY Zenon, <1>1 DEF WebhookInv, WebhookShape
<1>3. DelivererSound(w)'
  BY Zenon, <1>1, <1>2 DEF DelivererSound, Addressed, Fenced, Underway
<1>4. ActsAlone(w, NoWork)
  BY Zenon, <1>1 DEF ActsAlone
<1> QED BY Zenon, <1>1, <1>3, <1>4, DelivererStep DEF Underway

\* A deliverer writes a row it gives up only under its lease, and leaves.
LEMMA CancelMoves ==
    ASSUME WebhookInv, NEW w \in Deliverers, deliverer[w].pc # "idle", cancelDelivery(w)
    PROVE  RowsOnlyMove
<1> DEFINE d == deliverer[w].d
<1>1. WebhookShape /\ d \in Deliveries /\ row[d] \in DeliveryRow
      /\ deliverer \in [Deliverers -> DelivererRow]
  BY Zenon, AtWork
<1>2. CASE ~Holds(w)
  BY Zenon, <1>1, <1>2, NoRowMoves DEF cancelDelivery
<1>3. CASE Holds(w)
  <2>1. PICK x : x = Cancelled(row[d])
    BY Zenon
  <2>2. row' = [row EXCEPT ![d] = x]
    BY Zenon, <1>3, <2>1 DEF cancelDelivery
  <2>3. x \in DeliveryRow /\ x.status = "cancelled" /\ x.ver = row[d].ver
    BY Zenon, <1>1, <2>1, CancelledRow
  <2>4. deliverer'[w].pc \notin Underway
    BY Zenon, <1>1 DEF cancelDelivery, Leave, NoWork, Underway
  <2>5. row[d].status = "leased" /\ row[d].lease = w
    BY Zenon, <1>3 DEF Holds
  <2>6. RowMoves(d, row[d], x) /\ NoneStays(row[d], x)
    BY ZenonT(60), <1>1, <2>3, <2>4, <2>5, ClosedMoves
  <2> QED BY <1>1, <2>2, <2>6, OneRowMoves, Zenon
<1> QED BY Zenon, <1>2, <1>3

\* The same for a row that becomes uncertain.
LEMMA UncertainStepMoves ==
    ASSUME WebhookInv, NEW w \in Deliverers, deliverer[w].pc # "idle", finishUncertainDelivery(w)
    PROVE  RowsOnlyMove
<1> DEFINE d == deliverer[w].d
<1>1. WebhookShape /\ d \in Deliveries /\ row[d] \in DeliveryRow
  BY Zenon, AtWork
<1>2. CASE ~Holds(w)
  BY Zenon, <1>1, <1>2, NoRowMoves DEF finishUncertainDelivery
<1>3. CASE Holds(w)
  <2>1. PICK x : x = [Released(row[d]) EXCEPT !.status = "uncertain", !.manual = FALSE]
    BY Zenon
  <2>2. row' = [row EXCEPT ![d] = x]
    BY Zenon, <1>3, <2>1 DEF finishUncertainDelivery
  <2>3. x \in DeliveryRow /\ x.status = "uncertain" /\ x.ver = row[d].ver
    BY Zenon, <1>1, <2>1, UncertainRow
  <2>4. RowMoves(d, row[d], x) /\ NoneStays(row[d], x)
    BY Zenon, <1>1, <1>3, <2>3, UncertainMoves DEF Holds
  <2> QED BY <1>1, <2>2, <2>4, OneRowMoves, Zenon
<1> QED BY Zenon, <1>2, <1>3

\* Giving up, as cancelled or as uncertain, keeps the invariant.
LEMMA GivingUpKeepsInv ==
    ASSUME WebhookInv, NEW w \in Deliverers, deliverer[w].pc # "idle",
           cancelDelivery(w) \/ finishUncertainDelivery(w),
           UNCHANGED <<sub, source, requests, got>>
    PROVE  WebhookInv'
BY Zenon, CancelMoves, UncertainStepMoves, LeaveKeepsInv DEF cancelDelivery, finishUncertainDelivery

\* A deliverer that goes on to a step where nothing is addressed or out.
LEMMA QuietStep ==
    ASSUME WebhookInv, NEW w \in Deliverers, deliverer[w].pc # "idle", NEW x, ActsAlone(w, x),
           x.pc \notin Addressed, x.d = deliverer[w].d,
           x.ok => deliverer[w].ok \/ deliverer[w].d \in got', row' = row
    PROVE  WebhookInv'
<1>1. /\ WebhookShape /\ deliverer[w].d \in Deliveries /\ row[deliverer[w].d].status # "none"
      /\ deliverer \in [Deliverers -> DelivererRow]
  BY Zenon, AtWork
<1>2. deliverer'[w] = x /\ got \subseteq got'
  BY Zenon, <1>1 DEF ActsAlone
<1>3. x.pc \notin Fenced /\ x.pc \notin Underway
  BY Zenon DEF Addressed, Fenced, Underway
<1>4. x.ok => x.d \in got'
  BY Zenon, <1>2 DEF WebhookInv, DelivererSound
<1>5. DelivererSound(w)'
  BY Zenon, <1>1, <1>2, <1>3, <1>4 DEF DelivererSound
<1> QED BY Zenon, <1>1, <1>3, <1>5, NoRowMoves, DelivererStep

\* The first fence, the first read and the rehydration.
LEMMA ReadingKeepsInv ==
    ASSUME WebhookInv, NEW w \in Deliverers,
           authorize(w) \/ currentMessageFor(w) \/ rehydrate(w)
    PROVE  WebhookInv'
<1>1. deliverer[w].pc # "idle"
  BY Zenon DEF authorize, currentMessageFor, rehydrate
<1>2. PICK old : old = deliverer[w]
  BY Zenon
<1>3. /\ WebhookShape /\ deliverer \in [Deliverers -> DelivererRow] /\ old \in DelivererRow
      /\ old.d \in Deliveries /\ Epoch \in Nat /\ MsgOf(old.d) \in Messages
      /\ rev[MsgOf(old.d)] \in Nat
  BY <1>1, <1>2, AtWork, DeliveryParts, Zenon DEF WebhookShape
<1>4. UNCHANGED <<sub, source, requests, got>>
  BY Zenon DEF authorize, currentMessageFor, rehydrate
<1>5. CASE cancelDelivery(w)
  BY Zenon, <1>1, <1>4, <1>5, GivingUpKeepsInv
<1>6. ASSUME row' = row,
             NEW pc \in {"read", "failure", "hydrate", "hydrate_again", "prepare"},
             NEW e \in Nat, NEW v \in Nat,
             deliverer' = [deliverer EXCEPT ![w].pc = pc, ![w].epoch = e, ![w].rev = v]
      PROVE  WebhookInv'
  <2>1. PICK x : x = [old EXCEPT !.pc = pc, !.epoch = e, !.rev = v]
    BY Zenon
  <2>2. x \in DelivererRow /\ x.pc = pc /\ x.d = old.d /\ x.ok = old.ok
    BY <1>3, <2>1, Zenon DEF DelivererRow, Steps
  <2>3. deliverer' = [deliverer EXCEPT ![w] = x]
    BY <1>2, <1>3, <1>6, <2>1, Zenon DEF DelivererRow
  <2>4. ActsAlone(w, x) /\ x.pc \notin Addressed
    BY Zenon, <1>4, <2>2, <2>3 DEF ActsAlone, Addressed
  <2> QED BY ZenonT(60), <1>1, <1>2, <1>6, <2>2, <2>4, QuietStep
<1>7. CASE authorize(w)
  <2>1. ASSUME NEW pc \in {"read", "failure"}, Step(w, pc), row' = row PROVE WebhookInv'
    <3>1. deliverer' = [deliverer EXCEPT ![w].pc = pc, ![w].epoch = Epoch, ![w].rev = old.rev]
      BY <1>2, <1>3, <2>1, Zenon DEF Step, DelivererRow
    <3>2. old.rev \in Nat
      BY Zenon, <1>3 DEF DelivererRow
    <3> QED BY ZenonT(60), <1>3, <1>6, <2>1, <3>1, <3>2
  <2> QED BY Zenon, <1>5, <1>7, <2>1 DEF authorize
<1>8. CASE currentMessageFor(w)
  <2>1. ASSUME row' = row,
               deliverer' = [deliverer EXCEPT ![w].pc = "hydrate", ![w].rev = rev[MsgOf(old.d)]]
        PROVE  WebhookInv'
    <3>1. deliverer' = [deliverer EXCEPT ![w].pc = "hydrate", ![w].epoch = old.epoch,
                                         ![w].rev = rev[MsgOf(old.d)]]
      BY <1>2, <1>3, <2>1, Zenon DEF DelivererRow
    <3>2. old.epoch \in Nat
      BY Zenon, <1>3 DEF DelivererRow
    <3> QED BY ZenonT(60), <1>3, <1>6, <2>1, <3>1, <3>2
  <2> QED BY ZenonT(60), <1>2, <1>5, <1>8, <2>1 DEF currentMessageFor
<1>9. CASE rehydrate(w)
  <2>1. PICK v : v = IF Changed(w) THEN rev[MsgOf(old.d)] ELSE old.rev
    BY Zenon
  <2>2. PICK pc : pc = IF Changed(w) /\ old.pc = "hydrate" THEN "hydrate_again" ELSE "prepare"
    BY Zenon
  <2>3. v \in Nat /\ pc \in {"read", "failure", "hydrate", "hydrate_again", "prepare"}
    BY Zenon, <1>3, <2>1, <2>2 DEF DelivererRow
  <2>4. CASE deliverer' = [deliverer EXCEPT ![w].epoch = Epoch,
                 ![w].rev = IF Changed(w) THEN rev[MsgOf(deliverer[w].d)] ELSE @,
                 ![w].pc = IF Changed(w) /\ @ = "hydrate" THEN "hydrate_again" ELSE "prepare"]
             /\ row' = row
    <3>1. deliverer' = [deliverer EXCEPT ![w].pc = pc, ![w].epoch = Epoch, ![w].rev = v]
      BY <1>2, <1>3, <2>1, <2>2, <2>4, Zenon DEF DelivererRow
    <3> QED BY ZenonT(60), <1>3, <1>6, <2>3, <2>4, <3>1
  <2> QED BY Zenon, <1>5, <1>9, <2>4 DEF rehydrate
<1> QED BY Zenon, <1>7, <1>8, <1>9

\* A delivery that passes the fence carries nothing that was removed.
LEMMA Unsuppressed ==
    ASSUME NEW w \in Deliverers, ~Suppressed(w), KindOf(deliverer[w].d) \in WebhookContent
    PROVE  ~Removed(MsgOf(deliverer[w].d))
BY Zenon DEF Suppressed, isWebhookRemovalDelivery

\* The two rechecks before the payload is built and before it is sent.
LEMMA RecheckKeepsInv ==
    ASSUME WebhookInv, NEW w \in Deliverers, recheck(w)
    PROVE  WebhookInv'
<1>1. deliverer[w].pc # "idle"
  BY Zenon DEF recheck
<1>2. PICK old : old = deliverer[w]
  BY Zenon
<1>3. /\ WebhookShape /\ deliverer \in [Deliverers -> DelivererRow] /\ old \in DelivererRow
      /\ old.d \in Deliveries /\ Epoch \in Nat /\ row[old.d] \in DeliveryRow
      /\ row[old.d].status # "none"
  BY Zenon, <1>1, <1>2, AtWork
<1>4. UNCHANGED <<sub, source, requests, got>>
  BY Zenon DEF recheck
<1>5. CASE cancelDelivery(w)
  BY Zenon, <1>1, <1>4, <1>5, GivingUpKeepsInv
<1>6. CASE /\ ~(~authorizationMatches(deliverer[w].d) \/ Suppressed(w))
           /\ deliverer' = [deliverer EXCEPT ![w].epoch = Epoch,
                 ![w].ver = sub[SubOf(deliverer[w].d)].ver,
                 ![w].rev = Payload(w),
                 ![w].pc = IF @ = "prepare" THEN "send" ELSE "claim"]
           /\ row' = row
  <2>1. PICK ver : ver = sub[SubOf(old.d)].ver /\ ver = row[old.d].ver
    BY Zenon, <1>2, <1>6 DEF authorizationMatches
  <2>2. PICK pc : pc = IF old.pc = "prepare" THEN "send" ELSE "claim"
    BY Zenon
  <2>3. PICK v : v = Payload(w)
    BY Zenon
  <2>4. ver \in Nat /\ pc \in {"send", "claim"} /\ v \in Nat
    BY Zenon, <1>2, <1>3, <2>1, <2>2, <2>3
       DEF DeliveryRow, DelivererRow, Payload, removalPayloadFor, payloadFor
  <2>5. PICK x : x = [old EXCEPT !.epoch = Epoch, !.ver = ver, !.rev = v, !.pc = pc]
    BY Zenon
  <2>6. /\ x \in DelivererRow /\ x.pc = pc /\ x.d = old.d /\ x.ok = old.ok /\ x.ver = ver
        /\ x.epoch = Epoch
    BY <1>3, <2>4, <2>5, Zenon DEF DelivererRow, Steps
  <2>7. deliverer' = [deliverer EXCEPT ![w] = x] /\ deliverer'[w] = x
    BY <1>2, <1>3, <1>6, <2>1, <2>2, <2>3, <2>5, Zenon DEF DelivererRow
  <2>8. ActsAlone(w, x)
    BY Zenon, <1>4, <2>6, <2>7 DEF ActsAlone
  <2>9. Epoch' = Epoch /\ removed' = removed /\ got' = got
    BY Zenon, <1>3, <1>4, EpochStays DEF source
  <2>10. KindOf(x.d) \in WebhookContent => ~Removed(MsgOf(x.d))'
    <3>1. KindOf(old.d) \in WebhookContent => ~Removed(MsgOf(old.d))
      BY Zenon, <1>2, <1>6, Unsuppressed
    <3> QED BY Zenon, <2>6, <2>9, <3>1 DEF Removed
  <2>11. x.ok => x.d \in got'
    BY <1>2, <2>6, <2>9, Zenon DEF WebhookInv, DelivererSound
  <2>12. x.pc \notin Underway
    BY Zenon, <2>4, <2>6 DEF Underway
  <2>13. DelivererSound(w)'
    <3>1. /\ deliverer'[w].d \in Deliveries /\ row'[deliverer'[w].d].status # "none"
          /\ deliverer'[w].ver = row'[deliverer'[w].d].ver
      <4>1. row' = row
        BY Zenon, <1>6
      <4> QED BY Zenon, <1>3, <2>1, <2>6, <2>7, <4>1
    <3>2. deliverer'[w].epoch <= Epoch'
      BY <1>3, <2>6, <2>7, <2>9
    <3>3. KindOf(deliverer'[w].d) \in WebhookContent => ~Removed(MsgOf(deliverer[w].d))'
      BY Zenon, <2>7, <2>10 DEF Removed, MsgOf
    <3>4. deliverer'[w].pc \notin Underway /\ (deliverer'[w].ok => deliverer'[w].d \in got')
      BY Zenon, <2>7, <2>11, <2>12
    <3> QED BY Zenon, <3>1, <3>2, <3>3, <3>4 DEF DelivererSound, KindOf
  <2> QED BY ZenonT(60), <1>3, <1>6, <2>8, <2>12, <2>13, NoRowMoves, DelivererStep
<1> QED BY Zenon, <1>5, <1>6 DEF recheck

\* The provider-start marker goes to the holder of the lease, and no one else
\* has a request out unless it was retried by hand.
LEMMA StartKeepsInv ==
    ASSUME WebhookInv, NEW w \in Deliverers, deliverer[w].pc \in Fenced, Startable(w),
           row' = [row EXCEPT ![deliverer[w].d].started = TRUE, ![deliverer[w].d].epoch = Epoch],
           deliverer' = [deliverer EXCEPT ![w].pc = "request", ![w].started = TRUE],
           UNCHANGED <<sub, source, requests, got>>
    PROVE  WebhookInv'
<1>1. PICK old, d : old = deliverer[w] /\ d = old.d
  BY Zenon
<1>2. /\ WebhookShape /\ deliverer \in [Deliverers -> DelivererRow] /\ old \in DelivererRow
      /\ d \in Deliveries /\ Epoch \in Nat /\ row[d] \in DeliveryRow /\ row[d].status # "none"
      /\ row \in [Deliveries -> DeliveryRow]
  BY Zenon, <1>1, AtWork DEF Fenced
<1>3. row[d].status = "leased" /\ row[d].lease = w
  BY Zenon, <1>1 DEF Startable, Holds
<1>4. PICK r : r = [row[d] EXCEPT !.started = TRUE, !.epoch = Epoch]
  BY Zenon
<1>5. /\ r \in DeliveryRow /\ r.status = "leased" /\ r.lease = w /\ r.started = TRUE
      /\ r.ver = row[d].ver
  BY <1>2, <1>3, <1>4, Zenon DEF DeliveryRow
<1>6. row' = [row EXCEPT ![d] = r] /\ row'[d] = r
  BY <1>1, <1>2, <1>4, Zenon DEF DeliveryRow
<1>7. PICK x : x = [old EXCEPT !.pc = "request", !.started = TRUE]
  BY Zenon
<1>8. /\ x \in DelivererRow /\ x.pc = "request" /\ x.d = d /\ x.ver = old.ver /\ x.ok = old.ok
  BY <1>1, <1>2, <1>7, Zenon DEF DelivererRow, Steps
<1>9. /\ deliverer' = [deliverer EXCEPT ![w] = x] /\ deliverer'[w] = x
      /\ \A v \in Deliverers : v # w => deliverer'[v] = deliverer[v]
  BY <1>1, <1>2, <1>7, Zenon DEF DelivererRow
<1>10. RowsOnlyMove
  <2>1. RowMoves(d, row[d], r) /\ NoneStays(row[d], r)
    BY Zenon, <1>2, <1>3, <1>5 DEF RowMoves, NoneStays
  <2> QED BY <1>2, <1>6, <2>1, OneRowMoves, Zenon
<1>11. ActsAlone(w, x)
  BY <1>8, <1>9, Zenon DEF ActsAlone
<1>12. old.ver = row[d].ver /\ (old.ok => d \in got)
  BY Zenon, <1>1 DEF WebhookInv, DelivererSound, Fenced, Addressed
<1>13. DelivererSound(w)'
  <2>1. /\ deliverer'[w].d \in Deliveries /\ row'[deliverer'[w].d].status # "none"
        /\ deliverer'[w].ver = row'[deliverer'[w].d].ver
    BY <1>2, <1>3, <1>5, <1>6, <1>8, <1>9, <1>12, Zenon
  <2>2. deliverer'[w].pc \notin Fenced
    BY Zenon, <1>8, <1>9 DEF Fenced
  <2>3. row'[deliverer'[w].d].started /\ Holds(w)'
    BY <1>5, <1>6, <1>8, <1>9, Zenon DEF Holds
  <2>4. deliverer'[w].ok => deliverer'[w].d \in got'
    BY <1>8, <1>9, <1>12, Zenon
  <2> QED BY <2>1, <2>2, <2>3, <2>4, Zenon DEF DelivererSound
<1>14. ASSUME NEW v \in Deliverers, v # w, deliverer[v].pc \in Underway, deliverer[v].d = d,
              d \notin retried
       PROVE  FALSE
  BY Zenon, <1>3, <1>14 DEF WebhookInv, DelivererSound, Holds
<1>15. OneSender'
  <2>1. retried' = retried
    BY Zenon DEF requests
  <2>2. ASSUME NEW u \in Deliverers, NEW v \in Deliverers, deliverer'[u].pc \in Underway,
               deliverer'[v].pc \in Underway, deliverer'[u].d = deliverer'[v].d,
               deliverer'[v].d \notin retried', u # v
        PROVE  FALSE
    <3>1. CASE u # w /\ v # w
      BY ZenonT(60), <1>9, <2>1, <2>2, <3>1 DEF WebhookInv, OneSender
    <3>2. CASE u = w
      BY <1>8, <1>9, <1>14, <2>1, <2>2, <3>2, Zenon
    <3>3. CASE v = w
      BY <1>8, <1>9, <1>14, <2>1, <2>2, <3>3, Zenon
    <3> QED BY Zenon, <3>1, <3>2, <3>3
  <2> QED BY Zenon, <2>2 DEF OneSender
<1> QED BY Zenon, <1>10, <1>11, <1>13, <1>15, DelivererMove

\* Claiming the request, a second time after an epoch that moved, keeps the
\* invariant.
LEMMA ClaimRequestKeepsInv ==
    ASSUME WebhookInv, NEW w \in Deliverers, claimProviderRequest(w)
    PROVE  WebhookInv'
<1>1. deliverer[w].pc \in Fenced /\ deliverer[w].pc # "idle"
  BY Zenon DEF claimProviderRequest, Fenced
<1>2. UNCHANGED <<sub, source, requests, got>>
  BY Zenon DEF claimProviderRequest
<1>3. PICK old : old = deliverer[w]
  BY Zenon
<1>4. /\ WebhookShape /\ deliverer \in [Deliverers -> DelivererRow] /\ old \in DelivererRow
      /\ old.d \in Deliveries /\ Epoch \in Nat /\ row[old.d].status # "none"
  BY Zenon, <1>1, <1>3, AtWork
<1>5. CASE Leave(w) /\ row' = row
  BY Zenon, <1>2, <1>4, <1>5, NoRowMoves, LeaveKeepsInv
<1>6. CASE ~Suppressed(w) /\ Step(w, "claim_again") /\ row' = row
  <2>1. PICK x : x = [old EXCEPT !.pc = "claim_again", !.epoch = Epoch]
    BY Zenon
  <2>2. /\ x \in DelivererRow /\ x.pc = "claim_again" /\ x.d = old.d /\ x.ok = old.ok
        /\ x.ver = old.ver /\ x.epoch = Epoch
    BY <1>4, <2>1, Zenon DEF DelivererRow, Steps
  <2>3. deliverer' = [deliverer EXCEPT ![w] = x] /\ deliverer'[w] = x
    BY <1>3, <1>4, <1>6, <2>1, Zenon DEF Step, DelivererRow
  <2>4. ActsAlone(w, x)
    BY Zenon, <1>2, <2>2, <2>3 DEF ActsAlone
  <2>5. Epoch' = Epoch /\ removed' = removed /\ got' = got
    BY Zenon, <1>2, <1>4, EpochStays DEF source
  <2>6. old.ver = row[old.d].ver /\ (old.ok => old.d \in got)
    BY Zenon, <1>1, <1>3 DEF WebhookInv, DelivererSound, Fenced, Addressed
  <2>7. KindOf(x.d) \in WebhookContent => ~Removed(MsgOf(x.d))'
    <3>1. KindOf(old.d) \in WebhookContent => ~Removed(MsgOf(old.d))
      BY ZenonT(60), <1>3, <1>6, Unsuppressed
    <3> QED BY Zenon, <2>2, <2>5, <3>1 DEF Removed
  <2>8. DelivererSound(w)'
    <3>0. deliverer'[w] = x
      BY Zenon, <2>3
    <3>1. /\ deliverer'[w].d \in Deliveries /\ row'[deliverer'[w].d].status # "none"
          /\ deliverer'[w].ver = row'[deliverer'[w].d].ver
      <4>1. row' = row
        BY Zenon, <1>6
      <4> QED BY <1>4, <2>2, <2>6, <3>0, <4>1
    <3>2. deliverer'[w].epoch <= Epoch'
      BY <1>4, <2>2, <2>5, <3>0
    <3>3. KindOf(deliverer'[w].d) \in WebhookContent => ~Removed(MsgOf(deliverer[w].d))'
      BY Zenon, <2>7, <3>0 DEF Removed, MsgOf
    <3>4. deliverer'[w].pc \notin Underway /\ (deliverer'[w].ok => deliverer'[w].d \in got')
      BY Zenon, <2>2, <2>5, <2>6, <3>0 DEF Underway
    <3> QED BY Zenon, <3>1, <3>2, <3>3, <3>4 DEF DelivererSound, KindOf
  <2>9. x.pc \notin Underway
    BY Zenon, <2>2 DEF Underway
  <2> QED BY ZenonT(60), <1>4, <1>6, <2>4, <2>8, <2>9, NoRowMoves, DelivererStep
<1>7. CASE cancelDelivery(w)
  BY ZenonT(60), <1>1, <1>2, <1>7, GivingUpKeepsInv
<1>8. CASE Startable(w)
  BY ZenonT(60), <1>1, <1>2, <1>8, StartKeepsInv DEF claimProviderRequest
<1> QED BY Zenon, <1>5, <1>6, <1>7, <1>8 DEF claimProviderRequest

\* A call that fails before the request.
LEMMA UnavailableKeepsInv ==
    ASSUME WebhookInv, NEW w \in Deliverers, unavailable(w)
    PROVE  WebhookInv'
<1>1. deliverer[w].pc # "idle"
  BY Zenon DEF unavailable
<1>2. deliverer \in [Deliverers -> DelivererRow] /\ deliverer[w] \in DelivererRow
  BY Zenon, <1>1, AtWork
<1>3. PICK x : x = [deliverer[w] EXCEPT !.pc = "failure"]
  BY Zenon
<1>4. x \in DelivererRow /\ x.pc = "failure" /\ x.d = deliverer[w].d /\ x.ok = deliverer[w].ok
  BY Zenon, <1>2, <1>3 DEF DelivererRow, Steps
<1>5. deliverer' = [deliverer EXCEPT ![w] = x]
  BY Zenon, <1>2, <1>3 DEF unavailable, DelivererRow
<1>6. ActsAlone(w, x) /\ x.pc \notin Addressed /\ row' = row
  BY <1>4, <1>5, Zenon DEF ActsAlone, Addressed, unavailable
<1> QED BY ZenonT(60), <1>1, <1>4, <1>6, QuietStep

\* The request itself: an answer says that the destination had it.
LEMMA FetchKeepsInv ==
    ASSUME WebhookInv, NEW w \in Deliverers, fetchWithTimeout(w)
    PROVE  WebhookInv'
<1>1. deliverer[w].pc = "request"
  BY Zenon DEF fetchWithTimeout
<1>2. PICK old : old = deliverer[w]
  BY Zenon
<1>3. /\ WebhookShape /\ deliverer \in [Deliverers -> DelivererRow] /\ old \in DelivererRow
      /\ old.d \in Deliveries /\ row[old.d].status # "none"
  BY ZenonT(60), <1>1, <1>2, AtWork
<1>4. PICK received \in BOOLEAN, ok \in BOOLEAN, answered \in BOOLEAN :
         /\ ok => answered
         /\ answered => received
         /\ got' = IF received THEN got \union {deliverer[w].d} ELSE got
         /\ deliverer' = [deliverer EXCEPT ![w].ok = ok,
                         ![w].pc = IF answered THEN "answered" ELSE "failure"]
  BY Zenon DEF fetchWithTimeout
<1>5. PICK x : x = [old EXCEPT !.ok = ok, !.pc = IF answered THEN "answered" ELSE "failure"]
  BY Zenon
<1>6. /\ x \in DelivererRow /\ x.d = old.d /\ x.ver = old.ver /\ x.ok = ok
      /\ x.pc = IF answered THEN "answered" ELSE "failure"
  BY <1>3, <1>5, Zenon DEF DelivererRow, Steps
<1>7. deliverer' = [deliverer EXCEPT ![w] = x] /\ deliverer'[w] = x
  BY <1>2, <1>3, <1>4, <1>5, Zenon DEF DelivererRow
<1>8. got \subseteq got' /\ (answered => old.d \in got')
  BY Zenon, <1>2, <1>4
<1>9. ActsAlone(w, x) /\ row' = row /\ retried' = retried
  BY <1>6, <1>7, <1>8, Zenon DEF ActsAlone, fetchWithTimeout, requests
<1>10. x.ok => x.d \in got'
  BY ZenonT(60), <1>4, <1>6, <1>8
<1>11. CASE answered
  <2>1. /\ old.ver = row[old.d].ver /\ (Holds(w) => row[old.d].started)
        /\ Holds(w) \/ row[old.d].status = "uncertain" \/ old.d \in retried
    BY ZenonT(60), <1>1, <1>2 DEF WebhookInv, DelivererSound, Addressed, Underway
  <2>2. x.pc = "answered"
    BY ZenonT(60), <1>6, <1>11
  <2>3. Holds(w)' <=> Holds(w)
    BY ZenonT(60), <1>2, <1>6, <1>7, <1>9 DEF Holds
  <2>4. DelivererSound(w)'
    <3>1. /\ deliverer'[w].d \in Deliveries /\ row'[deliverer'[w].d].status # "none"
          /\ deliverer'[w].ver = row'[deliverer'[w].d].ver
      BY ZenonT(60), <1>3, <1>6, <1>7, <1>9, <2>1
    <3>2. deliverer'[w].pc \notin Fenced
      BY Zenon, <1>7, <2>2 DEF Fenced
    <3>3. /\ Holds(w)' => row'[deliverer'[w].d].started
          /\ Holds(w)' \/ row'[deliverer'[w].d].status = "uncertain" \/ deliverer'[w].d \in retried'
      BY <1>6, <1>7, <1>9, <2>1, <2>3
    <3>4. deliverer'[w].ok => deliverer'[w].d \in got'
      BY Zenon, <1>7, <1>10
    <3> QED BY ZenonT(60), <3>1, <3>2, <3>3, <3>4 DEF DelivererSound
  <2> QED BY ZenonT(60), <1>1, <1>2, <1>3, <1>6, <1>9, <2>4, NoRowMoves, DelivererStep DEF Underway
<1>12. CASE ~answered
  <2>1. x.pc \notin Addressed
    BY Zenon, <1>6, <1>12 DEF Addressed
  <2> QED BY ZenonT(60), <1>1, <1>2, <1>6, <1>9, <1>10, <2>1, QuietStep
<1> QED BY Zenon, <1>11, <1>12

\* A deliverer that goes on to record what the request did.
LEMMA RecordingStep ==
    ASSUME WebhookInv, NEW w \in Deliverers, deliverer[w].pc # "idle", row' = row,
           NEW pc \in {"finish", "race"}, NEW e \in Nat, NEW ok \in BOOLEAN, ok => deliverer[w].ok,
           deliverer' = [deliverer EXCEPT ![w].pc = pc, ![w].epoch = e, ![w].ok = ok],
           UNCHANGED <<sub, source, requests, got>>
    PROVE  WebhookInv'
<1>1. deliverer \in [Deliverers -> DelivererRow] /\ deliverer[w] \in DelivererRow
  BY Zenon, AtWork
<1>2. PICK x : x = [deliverer[w] EXCEPT !.pc = pc, !.epoch = e, !.ok = ok]
  BY Zenon
<1>3. x \in DelivererRow /\ x.pc = pc /\ x.d = deliverer[w].d /\ x.ok = ok
  BY <1>1, <1>2, Zenon DEF DelivererRow, Steps
<1>4. deliverer' = [deliverer EXCEPT ![w] = x]
  BY <1>1, <1>2, Zenon DEF DelivererRow
<1>5. ActsAlone(w, x) /\ x.pc \notin Addressed
  BY <1>3, <1>4, Zenon DEF ActsAlone, Addressed
<1> QED BY Zenon, <1>3, <1>5, QuietStep

\* The fence after an answer, and after a failure, keeps the invariant.
LEMMA ClassifyingKeepsInv ==
    ASSUME WebhookInv, NEW w \in Deliverers, afterResponse(w) \/ markNetworkFailure(w)
    PROVE  WebhookInv'
<1>1. deliverer[w].pc # "idle"
  BY Zenon DEF afterResponse, markNetworkFailure
<1>2. UNCHANGED <<sub, source, requests, got>>
  BY Zenon DEF afterResponse, markNetworkFailure
<1>3. PICK old : old = deliverer[w]
  BY Zenon
<1>4. /\ deliverer \in [Deliverers -> DelivererRow] /\ Epoch \in Nat /\ old \in DelivererRow
      /\ old.epoch \in Nat /\ old.ok \in BOOLEAN
  BY ZenonT(60), <1>1, <1>3, AtWork DEF DelivererRow
<1>5. CASE finishUncertainDelivery(w)
  BY ZenonT(60), <1>1, <1>2, <1>5, GivingUpKeepsInv
<1>6. CASE Step(w, "finish") /\ row' = row
  <2>1. deliverer' = [deliverer EXCEPT ![w].pc = "finish", ![w].epoch = Epoch, ![w].ok = old.ok]
    BY <1>3, <1>4, <1>6, Zenon DEF Step, DelivererRow
  <2>2. old.ok => deliverer[w].ok
    BY Zenon, <1>3
  <2> QED BY ZenonT(60), <1>1, <1>2, <1>4, <1>6, <2>1, <2>2, RecordingStep
<1>7. CASE deliverer' = [deliverer EXCEPT ![w].pc = "finish", ![w].ok = FALSE] /\ row' = row
  <2>1. deliverer' = [deliverer EXCEPT ![w].pc = "finish", ![w].epoch = old.epoch, ![w].ok = FALSE]
    BY <1>3, <1>4, <1>7, Zenon DEF DelivererRow
  <2> QED BY ZenonT(60), <1>1, <1>2, <1>4, <1>7, <2>1, RecordingStep
<1> QED BY ZenonT(60), <1>5, <1>6, <1>7 DEF afterResponse, markNetworkFailure

\* Recording a result keeps the invariant.
LEMMA FinishKeepsInv ==
    ASSUME WebhookInv, NEW w \in Deliverers, finishDelivery(w)
    PROVE  WebhookInv'
<1>1. deliverer[w].pc # "idle"
  BY Zenon DEF finishDelivery
<1>2. UNCHANGED <<sub, source, requests, got>>
  BY Zenon DEF finishDelivery
<1>3. PICK old, d : old = deliverer[w] /\ d = old.d
  BY Zenon
<1>4. /\ WebhookShape /\ deliverer \in [Deliverers -> DelivererRow] /\ old \in DelivererRow
      /\ d \in Deliveries /\ row[d] \in DeliveryRow /\ old.epoch \in Nat /\ old.ok \in BOOLEAN
  BY ZenonT(60), <1>1, <1>3, AtWork DEF DelivererRow
<1>5. CASE /\ Recordable(w) /\ Leave(w)
           /\ row' = [row EXCEPT ![deliverer[w].d] = Recorded(@, deliverer[w].ok)]
  <2>1. PICK x : x = Recorded(row[d], old.ok)
    BY Zenon
  <2>2. row' = [row EXCEPT ![d] = x]
    BY ZenonT(60), <1>3, <1>5, <2>1
  <2>3. x \in DeliveryRow /\ x.ver = row[d].ver /\ x.status \in {"delivered", "failed", "pending"}
    BY ZenonT(60), <1>4, <2>1, RecordedRow
  <2>4. row[d].status = "leased" /\ row[d].lease = w
    BY ZenonT(60), <1>3, <1>5 DEF Recordable, Holds
  <2>5. deliverer'[w].pc \notin Underway
    BY ZenonT(60), <1>4, <1>5 DEF Leave, NoWork, Underway
  <2>6. RowMoves(d, row[d], x) /\ NoneStays(row[d], x)
    BY ZenonT(60), <1>4, <2>3, <2>4, <2>5 DEF RowMoves, NoneStays
  <2>7. RowsOnlyMove
    BY <1>4, <2>2, <2>6, OneRowMoves, Zenon
  <2> QED BY ZenonT(60), <1>2, <1>5, <2>7, LeaveKeepsInv
<1>6. CASE Leave(w) /\ row' = row
  BY ZenonT(60), <1>2, <1>4, <1>6, NoRowMoves, LeaveKeepsInv
<1>7. CASE deliverer' = [deliverer EXCEPT ![w].pc = "race"] /\ row' = row
  <2>1. deliverer' = [deliverer EXCEPT ![w].pc = "race", ![w].epoch = old.epoch, ![w].ok = old.ok]
    BY <1>3, <1>4, <1>7, Zenon DEF DelivererRow
  <2>2. old.ok => deliverer[w].ok
    BY Zenon, <1>3
  <2> QED BY ZenonT(60), <1>1, <1>2, <1>4, <1>7, <2>1, <2>2, RecordingStep
<1> QED BY ZenonT(60), <1>5, <1>6, <1>7 DEF finishDelivery

\* The race after a result that could not be recorded, and the death of a
\* deliverer, keep the invariant.
LEMMA EndingKeepsInv ==
    ASSUME WebhookInv, NEW w \in Deliverers, finishUncertainAfterRemovalRace(w) \/ die(w)
    PROVE  WebhookInv'
<1>1. deliverer[w].pc # "idle" /\ WebhookShape
  BY Zenon DEF finishUncertainAfterRemovalRace, die, WebhookInv
<1>2. UNCHANGED <<sub, source, requests, got>>
  BY Zenon DEF finishUncertainAfterRemovalRace, die
<1>3. CASE finishUncertainDelivery(w)
  BY ZenonT(60), <1>1, <1>2, <1>3, GivingUpKeepsInv
<1>4. CASE Leave(w) /\ row' = row
  BY ZenonT(60), <1>1, <1>2, <1>4, NoRowMoves, LeaveKeepsInv
<1> QED BY ZenonT(60), <1>3, <1>4 DEF finishUncertainAfterRemovalRace, die

-----------------------------------------------------------------------------
(* The theorems *)

\* The invariant holds of an empty ledger.
LEMMA WebhookInitInv == WebhookInit => WebhookInv
<1> SUFFICES ASSUME WebhookInit PROVE WebhookInv
  BY Zenon
<1>1. \A s \in Subscriptions : sub[s] \in SubRow
  BY Zenon DEF WebhookInit, SubRow
<1>2. NoRow \in DeliveryRow /\ NoRow.status = "none"
  BY Zenon DEF NoRow, DeliveryRow, Statuses
<1>3. NoWork \in DelivererRow /\ NoWork.pc = "idle" /\ NoWork.ok = FALSE
  BY Zenon DEF NoWork, DelivererRow, Steps
<1>4. WebhookShape
  BY ZenonT(60), <1>1, <1>2, <1>3, FS_EmptySet DEF WebhookInit, WebhookShape
<1>5. \A w \in Deliverers : deliverer[w] = NoWork
  BY Zenon DEF WebhookInit
<1>6. \A w \in Deliverers : DelivererSound(w)
  BY ZenonT(60), <1>3, <1>5 DEF DelivererSound, Addressed, Fenced, Underway
<1>7. OneSender
  BY ZenonT(60), <1>3, <1>5 DEF OneSender, Underway
<1>8. FanSound /\ RevisionsFollowDelivery
  BY Zenon, <1>2 DEF WebhookInit, FanSound, RevisionsFollowDelivery
<1> QED BY ZenonT(60), <1>4, <1>6, <1>7, <1>8 DEF WebhookInv

\* Every step of the directory, the queue, the clock and the deliverers keeps
\* the invariant.
LEMMA WebhookNextInv == WebhookInv /\ [WebhookNext]_webhookVars => WebhookInv'
<1> SUFFICES ASSUME WebhookInv, [WebhookNext]_webhookVars PROVE WebhookInv'
  BY Zenon
<1>1. CASE UNCHANGED webhookVars
  <2>1. sub' = sub /\ row' = row /\ UNCHANGED <<source, requests, workers>>
    BY Zenon, <1>1 DEF webhookVars
  <2> QED BY Zenon, <2>1, NoRowMoves, DirectoryStep DEF WebhookInv, WebhookShape
<1>2. ASSUME NEW s \in Subscriptions, directory(s) PROVE WebhookInv'
  BY Zenon, <1>2, DirectoryKeepsInv
<1>3. ASSUME NEW m \in Messages, ingestion(m) PROVE WebhookInv'
  BY Zenon, <1>3, IngestionKeepsInv
<1>4. CASE recordRemovalElsewhere
  BY Zenon, <1>4, RemovalElsewhereKeepsInv
<1>5. ASSUME NEW d \in Deliveries, scheduled(d) PROVE WebhookInv'
  BY Zenon, <1>5, TimeKeepsInv, ClaimKeepsInv DEF scheduled
<1>6. ASSUME NEW d \in Deliveries,
             \/ retryWebhookDeliveryCheck(d) \/ retryWebhookDelivery(d)
             \/ fanOutIncomingWebhookDeliveries(d) \/ reconcileWebhookRemovalDeliveries(d)
      PROVE  WebhookInv'
  BY ZenonT(60), <1>6, RetryCheckKeepsInv, RetryKeepsInv, FanOutKeepsInv
<1>7. ASSUME NEW f \in fan, insertDeliveryRows(f) PROVE WebhookInv'
  BY Zenon, <1>7, InsertKeepsInv
<1>8. ASSUME NEW w \in Deliverers, deliverOne(w) PROVE WebhookInv'
  BY ZenonT(60), <1>8, ReadingKeepsInv, RecheckKeepsInv, ClaimRequestKeepsInv, FetchKeepsInv,
     ClassifyingKeepsInv, FinishKeepsInv, EndingKeepsInv DEF deliverOne
<1>9. ASSUME NEW w \in Deliverers, unavailable(w) \/ die(w) PROVE WebhookInv'
  BY ZenonT(60), <1>9, UnavailableKeepsInv, EndingKeepsInv
<1> QED BY ZenonT(60), <1>1, <1>2, <1>3, <1>4, <1>5, <1>6, <1>7, <1>8, <1>9 DEF WebhookNext

\* The invariant holds throughout, however many subscriptions, messages,
\* invocations of deliverOne, cutovers, removals, retries and deaths there are.
THEOREM WebhookInvariance == WebhookSpec => []WebhookInv
BY WebhookInitInv, WebhookNextInv, PTL DEF WebhookSpec

\* A row is only ever sent to the destination version it was created for
\* (authorizationMatches is read again before the request, deliverOne).
THEOREM BacklogNeverMovesOn == WebhookSpec => []BacklogStaysWithItsDestination
<1>1. WebhookInv => BacklogStaysWithItsDestination
  BY ZenonT(60) DEF WebhookInv, DelivererSound, Addressed, BacklogStaysWithItsDestination
<1> QED BY <1>1, WebhookInvariance, PTL

\* Two invocations never have a request for one delivery in flight unless it was
\* retried by hand (claimDelivery, claimProviderRequest).
THEOREM AlwaysOneRequest == WebhookSpec => []OneRequestInFlight
<1>1. WebhookInv => OneRequestInFlight
  <2> SUFFICES ASSUME WebhookInv, NEW d \in Deliveries, d \notin retried
               PROVE  Cardinality({w \in Deliverers : Sending(w, d)}) <= 1
    BY Zenon DEF OneRequestInFlight
  <2> DEFINE S == {w \in Deliverers : Sending(w, d)}
  <2>1. \A v, w \in S : v = w
    BY Zenon DEF WebhookInv, OneSender, Sending, Underway
  <2>2. CASE S = {}
    BY <2>2, FS_EmptySet
  <2>3. CASE S # {}
    <3>1. PICK w : w \in S
      BY Zenon, <2>3
    <3>2. S = {w}
      BY ZenonT(60), <2>1, <3>1
    <3> QED BY <3>2, FS_Singleton
  <2> QED BY ZenonT(60), <2>2, <2>3
<1> QED BY <1>1, WebhookInvariance, PTL

\* A destination hears of an edit or a removal only when that very destination
\* acknowledged the message (fanOutIncomingWebhookDeliveries,
\* reconcileWebhookRemovalDeliveries).
THEOREM RevisionsAlwaysFollow == WebhookSpec => []RevisionsFollowDelivery
<1>1. WebhookInv => RevisionsFollowDelivery
  BY Zenon DEF WebhookInv
<1> QED BY <1>1, WebhookInvariance, PTL

-----------------------------------------------------------------------------
(* Deliveries as durable work, without the liveness of it *)

SameStatus(d) == row'[d].status = row[d].status
Settled == \A d \in Deliveries : SameStatus(d)

Turns(d, from, to) ==
    /\ row[d].status \in from /\ row'[d].status = to
    /\ \A e \in Deliveries : e # d => SameStatus(e)

\* A row may be cancelled while it waits, while its lease is unmarked, and by
\* the holder of its lease before the request.
MayCancel(d) ==
    \/ row[d].status = "pending"
    \/ /\ row[d].status = "leased"
       /\ ~row[d].started \/ \E w \in Deliverers : row[d].lease = w /\ deliverer[w].pc \notin Underway

Drops == \A d \in Deliveries : SameStatus(d) \/ (MayCancel(d) /\ row'[d].status = "cancelled")

\* What a step of the ledger does to the statuses, the destinations that had a
\* request and the deliveries retried by hand.
OutcomeStep ==
    \/ /\ UNCHANGED <<got, retried>>
       /\ \/ Settled
          \/ Drops
          \/ \E d \in Deliveries :
               \/ Turns(d, {"none"}, "pending")
               \/ Turns(d, {"pending"}, "leased")
               \/ Turns(d, {"leased"}, "pending")
               \/ Turns(d, {"pending", "leased"}, "failed")
               \/ Turns(d, {"leased"}, "uncertain")
               \/ d \in got /\ Turns(d, {"leased"}, "delivered")
               \/ d \in retried /\ Turns(d, {"failed", "uncertain"}, "pending")
    \/ /\ Settled /\ retried' = retried
       /\ \E d \in Deliveries : /\ row[d].status \in {"leased", "uncertain"} \/ d \in retried
                                /\ got' = got \union {d}
    \/ /\ Settled /\ got' = got
       /\ \E d \in Deliveries : /\ row[d].status \in {"failed", "uncertain"}
                                /\ retried' = retried \union {d}

\* Writing one row turns its status.
LEMMA OneRowTurns ==
    ASSUME WebhookShape, NEW d \in Deliveries, NEW x, row' = [row EXCEPT ![d] = x]
    PROVE  row'[d] = x /\ \A e \in Deliveries : e # d => SameStatus(e)
BY Zenon DEF WebhookShape, SameStatus

\* The directory's steps settle nothing or withdraw what waits.
LEMMA DirectoryOutcome ==
    ASSUME WebhookInv, NEW s \in Subscriptions, directory(s)
    PROVE  OutcomeStep
<1>1. UNCHANGED <<got, retried>>
  BY Zenon DEF directory, createWebhookSubscription, updateWebhookSubscription,
         cutoverWebhookSubscription, revokeWebhookSubscription, authorityFactChanges,
         workers, requests
<1>2. CASE row' = row
  BY Zenon, <1>1, <1>2 DEF OutcomeStep, Settled, SameStatus
<1>3. CASE cutoverWebhookSubscription(s) \/ revokeWebhookSubscription(s)
  <2>1. ASSUME NEW d \in Deliveries PROVE SameStatus(d) \/ (MayCancel(d) /\ row'[d].status = "cancelled")
    <3>1. row[d] \in DeliveryRow
      BY Zenon DEF WebhookInv, WebhookShape
    <3>2. \/ row'[d] = row[d]
          \/ row[d].status = "pending" /\ row'[d] = Withdrawn(row[d])
      BY Zenon, <1>3 DEF cutoverWebhookSubscription, revokeWebhookSubscription
    <3> QED BY ZenonT(60), <3>1, <3>2, WithdrawnRow DEF SameStatus, MayCancel
  <2> QED BY Zenon, <1>1, <2>1 DEF OutcomeStep, Drops
<1> QED BY ZenonT(60), <1>2, <1>3 DEF directory, createWebhookSubscription, updateWebhookSubscription,
                          authorityFactChanges

\* So do the steps of the queue: only suppression closes rows.
LEMMA IngestionOutcome ==
    ASSUME WebhookInv, NEW m \in Messages, ingestion(m)
    PROVE  OutcomeStep
<1>1. UNCHANGED <<got, retried>>
  BY ZenonT(60) DEF ingestion, applyBatch, recordRemoval, cancelWebhookDeliveriesForRemoval, redact,
         workers, requests
<1>2. CASE row' = row
  BY Zenon, <1>1, <1>2 DEF OutcomeStep, Settled, SameStatus
<1>3. CASE cancelWebhookDeliveriesForRemoval(m)
  <2>1. ASSUME NEW d \in Deliveries PROVE SameStatus(d) \/ (MayCancel(d) /\ row'[d].status = "cancelled")
    <3>1. row[d] \in DeliveryRow
      BY Zenon DEF WebhookInv, WebhookShape
    <3>2. \/ row'[d] = row[d]
          \/ /\ row[d].status = "pending" \/ (row[d].status = "leased" /\ ~row[d].started)
             /\ row'[d] = Cancelled(row[d])
      BY Zenon, <1>3 DEF cancelWebhookDeliveriesForRemoval
    <3> QED BY Zenon, <3>1, <3>2, CancelledRow DEF SameStatus, MayCancel
  <2> QED BY Zenon, <1>1, <2>1 DEF OutcomeStep, Drops
<1> QED BY ZenonT(60), <1>2, <1>3 DEF ingestion, applyBatch, recordRemoval, redact

\* A delivery is retried by hand only when its result was unknown or a failure.
LEMMA RequestOutcome ==
    ASSUME WebhookInv, NEW d \in Deliveries,
           \/ retryWebhookDeliveryCheck(d) \/ retryWebhookDelivery(d)
           \/ fanOutIncomingWebhookDeliveries(d) \/ reconcileWebhookRemovalDeliveries(d)
    PROVE  OutcomeStep
<1>1. CASE retryWebhookDeliveryCheck(d)
  BY Zenon, <1>1 DEF retryWebhookDeliveryCheck, OutcomeStep, Settled, SameStatus, workers
<1>2. CASE fanOutIncomingWebhookDeliveries(d) \/ reconcileWebhookRemovalDeliveries(d)
  BY Zenon, <1>2 DEF fanOutIncomingWebhookDeliveries, reconcileWebhookRemovalDeliveries, OutcomeStep,
              Settled, SameStatus, workers
<1>3. CASE retryWebhookDelivery(d)
  <2>1. UNCHANGED <<got, retried>> /\ d \in retried /\ row \in [Deliveries -> DeliveryRow]
    BY Zenon, <1>3 DEF retryWebhookDelivery, workers, WebhookInv, WebhookShape
  <2>2. CASE row' = row
    BY Zenon, <2>1, <2>2 DEF OutcomeStep, Settled, SameStatus
  <2>3. CASE row[d].status \in {"failed", "uncertain"}
             /\ row' = [row EXCEPT ![d].status = "pending", ![d].manual = TRUE]
    <3>1. row'[d].status = "pending" /\ \A e \in Deliveries : e # d => SameStatus(e)
      BY ZenonT(60), <2>1, <2>3 DEF SameStatus, DeliveryRow
    <3>2. Turns(d, {"failed", "uncertain"}, "pending")
      BY Zenon, <2>3, <3>1 DEF Turns
    <3> QED BY Zenon, <2>1, <3>2 DEF OutcomeStep
  <2> QED BY ZenonT(60), <1>3, <2>2, <2>3 DEF retryWebhookDelivery
<1> QED BY Zenon, <1>1, <1>2, <1>3

\* An INSERT opens a delivery that was not there.
LEMMA InsertOutcome ==
    ASSUME WebhookInv, NEW f \in fan, insertDeliveryRows(f)
    PROVE  OutcomeStep
<1>1. UNCHANGED <<got, retried>> /\ f.d \in Deliveries /\ WebhookShape
  BY Zenon DEF insertDeliveryRows, workers, WebhookInv, WebhookShape
<1>2. PICK d \in Deliveries : d = f.d
  BY Zenon, <1>1
<1>3. CASE row' = row
  BY Zenon, <1>1, <1>3 DEF OutcomeStep, Settled, SameStatus
<1>4. CASE row[d].status = "none"
           /\ row' = [row EXCEPT ![d] = [NoRow EXCEPT !.status = "pending", !.ver = f.ver, !.epoch = Epoch]]
  <2>1. PICK x : x = [NoRow EXCEPT !.status = "pending", !.ver = f.ver, !.epoch = Epoch]
    BY Zenon
  <2>2. x.status = "pending"
    BY Zenon, <2>1 DEF NoRow
  <2>3. Turns(d, {"none"}, "pending")
    BY <1>1, <1>4, <2>1, <2>2, OneRowTurns, Zenon DEF Turns
  <2> QED BY Zenon, <1>1, <2>3 DEF OutcomeStep
<1> QED BY ZenonT(60), <1>2, <1>3, <1>4 DEF insertDeliveryRows

\* Time settles nothing; a claim leases what waits, or closes what ran out.
LEMMA ScheduledOutcome ==
    ASSUME WebhookInv, NEW d \in Deliveries, scheduled(d)
    PROVE  OutcomeStep
<1>1. WebhookShape /\ row \in [Deliveries -> DeliveryRow] /\ row[d] \in DeliveryRow
  BY Zenon DEF WebhookInv, WebhookShape
<1>2. UNCHANGED <<got, retried>>
  BY Zenon DEF scheduled, leaseExpires, retryDeadlinePasses, claimDelivery, workers, requests
<1>3. CASE leaseExpires(d) \/ retryDeadlinePasses(d)
  <2>1. Settled
    BY ZenonT(60), <1>1, <1>3 DEF leaseExpires, retryDeadlinePasses, Settled, SameStatus, DeliveryRow
  <2> QED BY Zenon, <1>2, <2>1 DEF OutcomeStep
<1>4. ASSUME NEW w \in Deliverers, claimDelivery(w, d) PROVE OutcomeStep
  <2>1. PICK r : r = AttemptsExhausted(Abandoned(row[d]))
    BY Zenon
  <2>2. /\ r \in DeliveryRow
        /\ \/ r = row[d]
           \/ r.status = "uncertain" /\ row[d].status = "leased"
           \/ r.status = "failed" /\ row[d].status \in {"pending", "leased"}
    BY ZenonT(60), <1>1, <2>1, ClaimedRow
  <2>3. CASE row' = [row EXCEPT ![d] = r]
    <3>1. row'[d] = r /\ \A e \in Deliveries : e # d => SameStatus(e)
      BY <1>1, <2>3, OneRowTurns, Zenon
    <3>2. CASE r = row[d]
      BY Zenon, <1>2, <3>1, <3>2 DEF OutcomeStep, Settled, SameStatus
    <3>3. CASE r.status = "uncertain" /\ row[d].status = "leased"
      <4>1. Turns(d, {"leased"}, "uncertain")
        BY Zenon, <3>1, <3>3 DEF Turns
      <4> QED BY Zenon, <1>2, <4>1 DEF OutcomeStep
    <3>4. CASE r.status = "failed" /\ row[d].status \in {"pending", "leased"}
      <4>1. Turns(d, {"pending", "leased"}, "failed")
        BY Zenon, <3>1, <3>4 DEF Turns
      <4> QED BY Zenon, <1>2, <4>1 DEF OutcomeStep
    <3> QED BY ZenonT(60), <2>2, <3>2, <3>3, <3>4
  <2>4. CASE /\ Leasable(r)
             /\ row' = [row EXCEPT ![d] = [r EXCEPT !.status = "leased", !.lease = w, !.lapsed = FALSE,
                                             !.started = FALSE, !.manual = FALSE, !.epoch = Epoch]]
    <3>1. PICK x : x = [r EXCEPT !.status = "leased", !.lease = w, !.lapsed = FALSE,
                                 !.started = FALSE, !.manual = FALSE, !.epoch = Epoch]
      BY Zenon
    <3>2. x.status = "leased"
      BY Zenon, <2>2, <3>1 DEF DeliveryRow
    <3>3. row'[d] = x /\ \A e \in Deliveries : e # d => SameStatus(e)
      BY <1>1, <2>4, <3>1, OneRowTurns, Zenon
    <3>4. row[d].status \in {"pending", "leased"}
      BY Zenon, <2>2, <2>4 DEF Leasable
    <3>5. CASE row[d].status = "pending"
      <4>1. Turns(d, {"pending"}, "leased")
        BY Zenon, <3>2, <3>3, <3>5 DEF Turns
      <4> QED BY Zenon, <1>2, <4>1 DEF OutcomeStep
    <3>6. CASE row[d].status = "leased"
      BY Zenon, <1>2, <3>2, <3>3, <3>6 DEF OutcomeStep, Settled, SameStatus
    <3> QED BY Zenon, <3>4, <3>5, <3>6
  <2> QED BY Zenon, <1>4, <2>1, <2>3, <2>4 DEF claimDelivery
<1> QED BY Zenon, <1>3, <1>4 DEF scheduled

\* A deliverer gives up before the request, and only a row whose lease it holds.
LEMMA CancelOutcome ==
    ASSUME WebhookInv, NEW w \in Deliverers, deliverer[w].pc # "idle",
           deliverer[w].pc \notin Underway, cancelDelivery(w), UNCHANGED <<got, retried>>
    PROVE  OutcomeStep
<1> DEFINE d == deliverer[w].d
<1>1. WebhookShape /\ d \in Deliveries /\ row[d] \in DeliveryRow
  BY Zenon, AtWork
<1>2. CASE ~Holds(w)
  BY Zenon, <1>2 DEF cancelDelivery, OutcomeStep, Settled, SameStatus
<1>3. CASE Holds(w)
  <2>1. PICK x : x = Cancelled(row[d])
    BY Zenon
  <2>2. row'[d] = x /\ \A e \in Deliveries : e # d => SameStatus(e)
    BY <1>1, <1>3, <2>1, OneRowTurns, Zenon DEF cancelDelivery
  <2>3. x.status = "cancelled"
    BY Zenon, <1>1, <2>1, CancelledRow
  <2>4. MayCancel(d)
    BY Zenon, <1>3 DEF MayCancel, Holds
  <2>5. Drops
    BY Zenon, <2>2, <2>3, <2>4 DEF Drops
  <2> QED BY Zenon, <2>5 DEF OutcomeStep
<1> QED BY Zenon, <1>2, <1>3

\* What becomes uncertain was leased.
LEMMA UncertainOutcome ==
    ASSUME WebhookInv, NEW w \in Deliverers, deliverer[w].pc # "idle",
           finishUncertainDelivery(w), UNCHANGED <<got, retried>>
    PROVE  OutcomeStep
<1> DEFINE d == deliverer[w].d
<1>1. WebhookShape /\ d \in Deliveries /\ row[d] \in DeliveryRow
  BY Zenon, AtWork
<1>2. CASE ~Holds(w)
  BY Zenon, <1>2 DEF finishUncertainDelivery, OutcomeStep, Settled, SameStatus
<1>3. CASE Holds(w)
  <2>1. PICK x : x = [Released(row[d]) EXCEPT !.status = "uncertain", !.manual = FALSE]
    BY Zenon
  <2>5. row' = [row EXCEPT ![d] = x]
    BY Zenon, <1>3, <2>1 DEF finishUncertainDelivery
  <2>2. row'[d] = x /\ \A e \in Deliveries : e # d => SameStatus(e)
    BY <1>1, <2>5, OneRowTurns, Zenon
  <2>3. x.status = "uncertain"
    BY ZenonT(60), <1>1, <2>1, UncertainRow
  <2>4. Turns(d, {"leased"}, "uncertain")
    BY Zenon, <1>3, <2>2, <2>3 DEF Turns, Holds
  <2> QED BY Zenon, <1>1, <2>4 DEF OutcomeStep
<1> QED BY Zenon, <1>2, <1>3

\* A result is recorded as delivered only when the destination had the request.
LEMMA FinishOutcome ==
    ASSUME WebhookInv, NEW w \in Deliverers, finishDelivery(w)
    PROVE  OutcomeStep
<1>1. deliverer[w].pc # "idle" /\ UNCHANGED <<got, retried>>
  BY Zenon DEF finishDelivery, requests
<1>2. PICK d, ok : d = deliverer[w].d /\ ok = deliverer[w].ok
  BY Zenon
<1>3. WebhookShape /\ d \in Deliveries /\ row[d] \in DeliveryRow /\ ok \in BOOLEAN /\ (ok => d \in got)
  BY ZenonT(60), <1>1, <1>2, AtWork DEF DelivererRow, WebhookInv, DelivererSound
<1>4. CASE row' = row
  BY Zenon, <1>1, <1>4 DEF OutcomeStep, Settled, SameStatus
<1>5. CASE Recordable(w) /\ row' = [row EXCEPT ![deliverer[w].d] = Recorded(@, deliverer[w].ok)]
  <2>1. PICK x : x = Recorded(row[d], ok)
    BY Zenon
  <2>2. row' = [row EXCEPT ![d] = x]
    BY Zenon, <1>2, <1>5, <2>1
  <2>3. row'[d] = x /\ \A e \in Deliveries : e # d => SameStatus(e)
    BY <1>3, <2>2, OneRowTurns, Zenon
  <2>4. row[d].status = "leased"
    BY Zenon, <1>2, <1>5 DEF Recordable, Holds
  <2>5. /\ x.status \in {"delivered", "failed", "pending"}
        /\ x.status = "delivered" => ok
    BY Zenon, <1>3, <2>1, RecordedRow
  <2>6. CASE x.status = "delivered"
    <3>1. d \in got /\ Turns(d, {"leased"}, "delivered")
      BY ZenonT(60), <1>3, <2>3, <2>4, <2>5, <2>6 DEF Turns
    <3> QED BY Zenon, <1>1, <1>3, <3>1 DEF OutcomeStep
  <2>7. CASE x.status = "failed"
    <3>1. Turns(d, {"pending", "leased"}, "failed")
      BY Zenon, <2>3, <2>4, <2>7 DEF Turns
    <3> QED BY Zenon, <1>1, <1>3, <3>1 DEF OutcomeStep
  <2>8. CASE x.status = "pending"
    <3>1. Turns(d, {"leased"}, "pending")
      BY Zenon, <2>3, <2>4, <2>8 DEF Turns
    <3> QED BY Zenon, <1>1, <1>3, <3>1 DEF OutcomeStep
  <2> QED BY Zenon, <2>5, <2>6, <2>7, <2>8
<1> QED BY Zenon, <1>4, <1>5 DEF finishDelivery

\* A request goes out for a delivery that is leased, or was given up as
\* uncertain under the request, or was retried by hand.
LEMMA FetchOutcome ==
    ASSUME WebhookInv, NEW w \in Deliverers, fetchWithTimeout(w)
    PROVE  OutcomeStep
<1>1. deliverer[w].pc = "request" /\ row' = row /\ retried' = retried
  BY Zenon DEF fetchWithTimeout, requests
<1>2. deliverer[w].d \in Deliveries
  BY Zenon, <1>1, AtWork
<1>3. row[deliverer[w].d].status \in {"leased", "uncertain"} \/ deliverer[w].d \in retried
  BY Zenon, <1>1 DEF WebhookInv, DelivererSound, Underway, Holds
<1>4. got' = got \/ got' = got \union {deliverer[w].d}
  BY Zenon DEF fetchWithTimeout
<1>5. Settled
  BY Zenon, <1>1 DEF Settled, SameStatus
<1> QED BY ZenonT(60), <1>1, <1>2, <1>3, <1>4, <1>5 DEF OutcomeStep

\* Every step of deliverOne.
LEMMA DeliverOutcome ==
    ASSUME WebhookInv, NEW w \in Deliverers, deliverOne(w) \/ unavailable(w) \/ die(w)
    PROVE  OutcomeStep
<1>1. CASE fetchWithTimeout(w)
  BY Zenon, <1>1, FetchOutcome
<1>2. CASE finishDelivery(w)
  BY Zenon, <1>2, FinishOutcome
<1>3. CASE row' = row /\ UNCHANGED <<got, retried>>
  BY Zenon, <1>3 DEF OutcomeStep, Settled, SameStatus
<1>4. CASE authorize(w) \/ currentMessageFor(w) \/ rehydrate(w) \/ recheck(w) \/ claimProviderRequest(w)
  <2>1. UNCHANGED <<got, retried>>
    BY Zenon, <1>4 DEF authorize, currentMessageFor, rehydrate, recheck, claimProviderRequest, requests
  <2>2. CASE cancelDelivery(w)
    <3>1. deliverer[w].pc # "idle" /\ deliverer[w].pc \notin Underway
      BY Zenon, <1>4 DEF authorize, currentMessageFor, rehydrate, recheck, claimProviderRequest, Underway
    <3> QED BY ZenonT(60), <2>1, <2>2, <3>1, CancelOutcome
  <2>3. CASE row' = row
    BY Zenon, <1>3, <2>1, <2>3
  <2>4. CASE row' = [row EXCEPT ![deliverer[w].d].started = TRUE, ![deliverer[w].d].epoch = Epoch]
    <3>1. deliverer[w].pc # "idle"
      BY Zenon, <1>4 DEF authorize, currentMessageFor, rehydrate, recheck, claimProviderRequest
    <3>2. deliverer[w].d \in Deliveries /\ row \in [Deliveries -> DeliveryRow]
      BY Zenon, <3>1, AtWork
    <3>3. Settled
      BY ZenonT(60), <2>4, <3>2 DEF Settled, SameStatus, DeliveryRow
    <3> QED BY Zenon, <2>1, <3>3 DEF OutcomeStep
  <2>5. cancelDelivery(w) \/ row' = row
        \/ row' = [row EXCEPT ![deliverer[w].d].started = TRUE, ![deliverer[w].d].epoch = Epoch]
    BY Zenon, <1>4 DEF authorize, currentMessageFor, rehydrate, recheck, claimProviderRequest
  <2> QED BY Zenon, <2>2, <2>3, <2>4, <2>5
<1>5. CASE afterResponse(w) \/ markNetworkFailure(w) \/ finishUncertainAfterRemovalRace(w)
  <2>1. deliverer[w].pc # "idle" /\ UNCHANGED <<got, retried>>
    BY Zenon, <1>5 DEF afterResponse, markNetworkFailure, finishUncertainAfterRemovalRace, requests
  <2>2. finishUncertainDelivery(w) \/ row' = row
    BY Zenon, <1>5 DEF afterResponse, markNetworkFailure, finishUncertainAfterRemovalRace
  <2> QED BY ZenonT(60), <1>3, <2>1, <2>2, UncertainOutcome
<1>6. CASE unavailable(w) \/ die(w)
  BY Zenon, <1>3, <1>6 DEF unavailable, die, requests
<1> QED BY ZenonT(60), <1>1, <1>2, <1>4, <1>5, <1>6 DEF deliverOne

\* Every step of the specification.
LEMMA NextOutcome == WebhookInv /\ [WebhookNext]_webhookVars => OutcomeStep
<1> SUFFICES ASSUME WebhookInv, [WebhookNext]_webhookVars PROVE OutcomeStep
  BY Zenon
<1>1. CASE UNCHANGED webhookVars
  BY Zenon, <1>1 DEF webhookVars, OutcomeStep, Settled, SameStatus, workers, requests
<1>2. CASE recordRemovalElsewhere
  BY Zenon, <1>2 DEF recordRemovalElsewhere, OutcomeStep, Settled, SameStatus, workers, requests
<1>3. ASSUME NEW s \in Subscriptions, directory(s) PROVE OutcomeStep
  BY Zenon, <1>3, DirectoryOutcome
<1>4. ASSUME NEW m \in Messages, ingestion(m) PROVE OutcomeStep
  BY Zenon, <1>4, IngestionOutcome
<1>5. ASSUME NEW d \in Deliveries, scheduled(d) PROVE OutcomeStep
  BY Zenon, <1>5, ScheduledOutcome
<1>6. ASSUME NEW d \in Deliveries,
             \/ retryWebhookDeliveryCheck(d) \/ retryWebhookDelivery(d)
             \/ fanOutIncomingWebhookDeliveries(d) \/ reconcileWebhookRemovalDeliveries(d)
      PROVE  OutcomeStep
  BY Zenon, <1>6, RequestOutcome
<1>7. ASSUME NEW f \in fan, insertDeliveryRows(f) PROVE OutcomeStep
  BY Zenon, <1>7, InsertOutcome
<1>8. ASSUME NEW w \in Deliverers, deliverOne(w) \/ unavailable(w) \/ die(w) PROVE OutcomeStep
  BY Zenon, <1>8, DeliverOutcome
<1> QED BY ZenonT(60), <1>1, <1>2, <1>3, <1>4, <1>5, <1>6, <1>7, <1>8 DEF WebhookNext

\* What a status stands for tells every two statuses apart.
LEMMA WorkStates ==
    /\ WorkState("none") = "absent" /\ WorkState("pending") = "open"
    /\ WorkState("leased") = "trying" /\ WorkState("delivered") = "done"
    /\ WorkState("failed") = "failed" /\ WorkState("cancelled") = "dropped"
    /\ WorkState("uncertain") = "unknown"
BY Zenon DEF WorkState

\* The rows as the states of work.
StateOf == [d \in Deliveries |-> WorkState(row[d].status)]

\* A row that turns moves the work it stands for.
LEMMA TurnMovesWork ==
    ASSUME NEW d \in Deliveries, NEW from, NEW to, Turns(d, from, to)
    PROVE  /\ StateOf[d] = WorkState(row[d].status) /\ row[d].status \in from
           /\ StateOf' = [StateOf EXCEPT ![d] = WorkState(to)]
BY Zenon DEF StateOf, Turns, SameStatus

\* Rows that keep their status leave the work alone.
LEMMA SettledKeepsWork ==
    ASSUME Settled
    PROVE  StateOf' = StateOf
BY Zenon DEF StateOf, Settled, SameStatus

\* An outcome of the ledger is a step of the abstract one.
LEMMA OutcomeIsWork == OutcomeStep => [Work!WorkNext]_(Work!workVars)
<1> SUFFICES ASSUME OutcomeStep PROVE [Work!WorkNext]_(Work!workVars)
  BY Zenon
<1>1. CASE Settled /\ UNCHANGED <<got, retried>>
  BY Zenon, <1>1, SettledKeepsWork DEF Work!workVars, StateOf
<1>2. CASE Drops /\ UNCHANGED <<got, retried>>
  <2>1. ASSUME NEW d \in Deliveries
        PROVE  \/ StateOf'[d] = StateOf[d]
               \/ StateOf[d] \in {"open", "trying"} /\ StateOf'[d] = "dropped"
    BY Zenon, <1>2, WorkStates DEF Drops, SameStatus, MayCancel, StateOf
  <2>2. Work!Drop
    BY Zenon, <1>2, <2>1 DEF Work!Drop, StateOf
  <2> QED BY Zenon, <2>2 DEF Work!WorkNext
<1>3. ASSUME NEW d \in Deliveries, UNCHANGED <<got, retried>>,
             NEW from, NEW to, Turns(d, from, to),
             \/ from = {"none"} /\ to = "pending"
             \/ from = {"pending"} /\ to = "leased"
             \/ from = {"leased"} /\ to = "pending"
             \/ from = {"pending", "leased"} /\ to = "failed"
             \/ from = {"leased"} /\ to = "uncertain"
             \/ from = {"leased"} /\ to = "delivered" /\ d \in got
             \/ from = {"failed", "uncertain"} /\ to = "pending" /\ d \in retried
      PROVE  Work!WorkNext
  <2>1. StateOf' = [StateOf EXCEPT ![d] = WorkState(to)] /\ row[d].status \in from
        /\ StateOf[d] = WorkState(row[d].status)
    BY Zenon, <1>3, TurnMovesWork
  <2>2. \/ Work!Accept(d) \/ Work!Attempt(d) \/ Work!Requeue(d) \/ Work!GiveUp(d) \/ Work!Lose(d)
        \/ Work!Succeed(d) \/ Work!Reopen(d)
    BY ZenonT(60), <1>3, <2>1, WorkStates
       DEF StateOf, Work!Accept, Work!Attempt, Work!Requeue, Work!GiveUp, Work!Lose, Work!Succeed,
           Work!Reopen, Work!Move
  <2> QED BY Zenon, <2>2 DEF Work!WorkNext
<1>4. ASSUME Settled, retried' = retried, NEW d \in Deliveries,
             row[d].status \in {"leased", "uncertain"} \/ d \in retried, got' = got \union {d}
      PROVE  Work!WorkNext
  <2>1. StateOf' = StateOf
    BY Zenon, <1>4, SettledKeepsWork
  <2>2. StateOf[d] \in {"trying", "unknown"} \/ d \in retried
    BY Zenon, <1>4, WorkStates DEF StateOf
  <2>3. Work!TakeEffect(d)
    BY ZenonT(60), <1>4, <2>1, <2>2 DEF Work!TakeEffect, StateOf
  <2> QED BY Zenon, <2>3 DEF Work!WorkNext
<1>5. ASSUME Settled, got' = got, NEW d \in Deliveries,
             row[d].status \in {"failed", "uncertain"}, retried' = retried \union {d}
      PROVE  Work!WorkNext
  <2>1. StateOf' = StateOf
    BY Zenon, <1>5, SettledKeepsWork
  <2>2. StateOf[d] \in {"failed", "unknown"}
    BY Zenon, <1>5, WorkStates DEF StateOf
  <2>3. Work!Ask(d)
    BY ZenonT(60), <1>5, <2>1, <2>2 DEF Work!Ask, StateOf
  <2> QED BY Zenon, <2>3 DEF Work!WorkNext
<1> QED BY ZenonT(60), <1>1, <1>2, <1>3, <1>4, <1>5 DEF OutcomeStep

\* The delivery ledger implements the safety of durable work: a row is attempted
\* only while it is open, reported delivered only when a destination had the
\* request, and attempted again after a failure or an unknown outcome only when
\* someone retried it by hand (deliverOne, retryWebhookDelivery).  That nothing
\* stays open is left to the model checker.
THEOREM DeliveriesImplementWork == WebhookSpec => Work!WorkSpec
<1>1. WebhookInit => Work!WorkInit
  <2> SUFFICES ASSUME WebhookInit PROVE Work!WorkInit
    BY Zenon
  <2>1. \A d \in Deliveries : row[d].status = "none"
    BY Zenon DEF WebhookInit, NoRow
  <2> QED BY Zenon, <2>1, WorkStates DEF WebhookInit, Work!WorkInit
<1>2. WebhookInv /\ [WebhookNext]_webhookVars => [Work!WorkNext]_(Work!workVars)
  BY Zenon, NextOutcome, OutcomeIsWork
<1> QED BY <1>1, <1>2, WebhookInvariance, PTL DEF WebhookSpec, Work!WorkSpec

-----------------------------------------------------------------------------
(* Removals and requests *)

FenceStep ==
    \A w \in Deliverers :
         /\ /\ deliverer[w].pc # "request" /\ deliverer'[w].pc = "request"
            /\ KindOf(deliverer[w].d) \in WebhookContent
            => ~Removed(MsgOf(deliverer[w].d))
         /\ Holds(w) /\ Sending(w, deliverer[w].d)
            => row'[deliverer[w].d].status # "cancelled"

\* A row whose request is out is not cancelled.
LEMMA RequestedIsNotCancelled ==
    ASSUME WebhookInv, OutcomeStep, NEW w \in Deliverers, Holds(w), Sending(w, deliverer[w].d)
    PROVE  row'[deliverer[w].d].status # "cancelled"
<1>1. PICK d : d = deliverer[w].d
  BY Zenon
<1>2. deliverer[w].pc \in Underway /\ deliverer[w].pc # "idle"
  BY Zenon DEF Sending, Underway
<1>3. d \in Deliveries /\ row[d].status = "leased" /\ row[d].lease = w /\ row[d].started
  BY ZenonT(60), <1>1, <1>2, AtWork DEF WebhookInv, DelivererSound, Holds
<1>4. ~MayCancel(d)
  BY Zenon, <1>2, <1>3 DEF MayCancel
<1>5. CASE Settled \/ Drops
  BY ZenonT(60), <1>1, <1>3, <1>4, <1>5 DEF Settled, Drops, SameStatus
<1>6. ASSUME NEW e \in Deliveries, NEW from, NEW to, Turns(e, from, to), to # "cancelled"
      PROVE  row'[d].status # "cancelled"
  BY Zenon, <1>3, <1>6 DEF Turns, SameStatus
<1> QED BY Zenon, <1>1, <1>5, <1>6 DEF OutcomeStep

\* Only the claim of the provider request starts one.
NothingStarts == \A v \in Deliverers : deliverer'[v].pc = "request" => deliverer[v].pc = "request"

\* One deliverer moves, and not to a request.
LEMMA MoveStartsNothing ==
    ASSUME WebhookShape, NEW w \in Deliverers, NEW x,
           deliverer' = [deliverer EXCEPT ![w] = x], x.pc # "request"
    PROVE  NothingStarts
BY Zenon DEF NothingStarts, WebhookShape

\* A deliverer that returns starts nothing.
LEMMA LeaveStartsNothing ==
    ASSUME WebhookShape, NEW w \in Deliverers, Leave(w)
    PROVE  NothingStarts
<1>1. NoWork.pc = "idle"
  BY Zenon DEF NoWork
<1> QED BY <1>1, MoveStartsNothing, Zenon DEF Leave

\* A deliverer that goes on to another step starts nothing.
LEMMA GoOnStartsNothing ==
    ASSUME WebhookShape, NEW w \in Deliverers, NEW pc, pc # "request", Step(w, pc)
    PROVE  NothingStarts
BY ZenonT(60) DEF NothingStarts, WebhookShape, Step, DelivererRow

\* Every step but the claim of the provider request.
LEMMA OthersStartNothing ==
    ASSUME WebhookInv, [WebhookNext]_webhookVars,
           \A w \in Deliverers : ~claimProviderRequest(w)
    PROVE  NothingStarts
<1>1. WebhookShape
  BY Zenon DEF WebhookInv
<1>2. CASE UNCHANGED deliverer
  BY Zenon, <1>2 DEF NothingStarts
<1>3. ASSUME NEW w \in Deliverers, NEW d \in Deliveries, claimDelivery(w, d)
      PROVE  NothingStarts
  <2>1. PICK x : x = [NoWork EXCEPT !.pc = "fence", !.d = d, !.epoch = Epoch]
    BY Zenon
  <2>2. x.pc = "fence"
    BY Zenon, <2>1 DEF NoWork
  <2>3. deliverer' = deliverer \/ deliverer' = [deliverer EXCEPT ![w] = x]
    BY Zenon, <1>3, <2>1 DEF claimDelivery
  <2> QED BY ZenonT(60), <1>1, <1>2, <2>2, <2>3, MoveStartsNothing
<1>4. ASSUME NEW w \in Deliverers, deliverOne(w) \/ unavailable(w) \/ die(w)
      PROVE  NothingStarts
  <2>1. CASE Leave(w)
    BY Zenon, <1>1, <2>1, LeaveStartsNothing
  <2>2. ASSUME NEW pc, pc # "request", Step(w, pc) PROVE NothingStarts
    BY Zenon, <1>1, <2>2, GoOnStartsNothing
  <2>3. CASE authorize(w)
    BY Zenon, <2>1, <2>2, <2>3 DEF authorize, cancelDelivery
  <2>4. CASE currentMessageFor(w)
    BY ZenonT(60), <1>1, <2>1, <2>4 DEF currentMessageFor, cancelDelivery, NothingStarts, WebhookShape,
                            DelivererRow
  <2>5. CASE rehydrate(w)
    BY <1>1, <2>1, <2>5 DEF rehydrate, cancelDelivery, NothingStarts, WebhookShape, DelivererRow
  <2>6. CASE recheck(w)
    BY <1>1, <2>1, <2>6 DEF recheck, cancelDelivery, NothingStarts, WebhookShape, DelivererRow
  <2>7. CASE fetchWithTimeout(w)
    BY Zenon, <1>1, <2>7 DEF fetchWithTimeout, NothingStarts, WebhookShape, DelivererRow
  <2>8. CASE afterResponse(w)
    BY Zenon, <2>1, <2>2, <2>8 DEF afterResponse, finishUncertainDelivery
  <2>9. CASE markNetworkFailure(w)
    BY ZenonT(60), <1>1, <2>1, <2>9 DEF markNetworkFailure, finishUncertainDelivery, NothingStarts,
                            WebhookShape, DelivererRow
  <2>10. CASE finishDelivery(w)
    BY Zenon, <1>1, <2>1, <2>10 DEF finishDelivery, NothingStarts, WebhookShape, DelivererRow
  <2>11. CASE finishUncertainAfterRemovalRace(w)
    BY Zenon, <2>1, <2>11 DEF finishUncertainAfterRemovalRace, finishUncertainDelivery
  <2>12. CASE unavailable(w)
    BY Zenon, <1>1, <2>12 DEF unavailable, NothingStarts, WebhookShape, DelivererRow
  <2>13. CASE die(w)
    BY Zenon, <2>1, <2>13 DEF die
  <2> QED BY ZenonT(60), <1>4, <2>3, <2>4, <2>5, <2>6, <2>7, <2>8, <2>9, <2>10, <2>11, <2>12, <2>13
          DEF deliverOne
<1>5. ASSUME NEW s \in Subscriptions, directory(s) PROVE UNCHANGED deliverer
  BY Zenon, <1>5 DEF directory, createWebhookSubscription, updateWebhookSubscription,
              cutoverWebhookSubscription, revokeWebhookSubscription, authorityFactChanges, workers
<1>6. ASSUME NEW m \in Messages, ingestion(m) PROVE UNCHANGED deliverer
  BY Zenon, <1>6 DEF ingestion, applyBatch, recordRemoval, cancelWebhookDeliveriesForRemoval, redact, workers
<1>7. ASSUME NEW d \in Deliveries,
             \/ leaseExpires(d) \/ retryDeadlinePasses(d)
             \/ retryWebhookDeliveryCheck(d) \/ retryWebhookDelivery(d)
             \/ fanOutIncomingWebhookDeliveries(d) \/ reconcileWebhookRemovalDeliveries(d)
      PROVE  UNCHANGED deliverer
  BY Zenon, <1>7 DEF leaseExpires, retryDeadlinePasses, retryWebhookDeliveryCheck, retryWebhookDelivery,
              fanOutIncomingWebhookDeliveries, reconcileWebhookRemovalDeliveries, workers
<1>8. ASSUME NEW f \in fan, insertDeliveryRows(f) PROVE UNCHANGED deliverer
  BY Zenon, <1>8 DEF insertDeliveryRows, workers
<1>9. CASE recordRemovalElsewhere \/ UNCHANGED webhookVars
  BY Zenon, <1>2, <1>9 DEF recordRemovalElsewhere, workers, webhookVars
<1> QED BY Zenon, <1>2, <1>3, <1>4, <1>5, <1>6, <1>7, <1>8, <1>9 DEF WebhookNext, scheduled

\* The claim starts a request only under an epoch that is still current, and the
\* fence saw no removal at that epoch.
LEMMA ClaimStartsUnremoved ==
    ASSUME WebhookInv, NEW v \in Deliverers, claimProviderRequest(v), NEW w \in Deliverers,
           deliverer[w].pc # "request", deliverer'[w].pc = "request",
           KindOf(deliverer[w].d) \in WebhookContent
    PROVE  ~Removed(MsgOf(deliverer[w].d))
<1>1. WebhookShape
  BY Zenon DEF WebhookInv
<1>2. CASE Leave(v)
  BY Zenon, <1>1, <1>2, LeaveStartsNothing DEF NothingStarts
<1>3. CASE Step(v, "claim_again")
  BY ZenonT(60), <1>1, <1>3, GoOnStartsNothing DEF NothingStarts
<1>4. CASE /\ Startable(v)
           /\ deliverer' = [deliverer EXCEPT ![v].pc = "request", ![v].started = TRUE]
  <2>1. w = v
    BY Zenon, <1>1, <1>4 DEF WebhookShape
  <2>2. deliverer[v].pc \in Fenced /\ deliverer[v].epoch = Epoch
    BY Zenon, <1>4 DEF claimProviderRequest, Startable, Fenced
  <2> QED BY Zenon, <2>1, <2>2 DEF WebhookInv, DelivererSound
<1> QED BY Zenon, <1>2, <1>3, <1>4 DEF claimProviderRequest, cancelDelivery

\* A removal and a request never cross, however many deliverers overlap and
\* whatever lapses under them (claimProviderRequest,
\* cancelWebhookDeliveriesForRemoval).
THEOREM RemovalsAlwaysFence == WebhookSpec => RemovalsFenceRequests
<1>1. WebhookInv /\ [WebhookNext]_webhookVars => FenceStep
  <2> SUFFICES ASSUME WebhookInv, [WebhookNext]_webhookVars PROVE FenceStep
    BY Zenon
  <2>1. OutcomeStep
    BY Zenon, NextOutcome
  <2>2. ASSUME NEW w \in Deliverers, deliverer[w].pc # "request", deliverer'[w].pc = "request",
               KindOf(deliverer[w].d) \in WebhookContent
        PROVE  ~Removed(MsgOf(deliverer[w].d))
    <3>1. CASE \E v \in Deliverers : claimProviderRequest(v)
      BY Zenon, <2>2, <3>1, ClaimStartsUnremoved
    <3>2. CASE \A v \in Deliverers : ~claimProviderRequest(v)
      BY Zenon, <2>2, <3>2, OthersStartNothing DEF NothingStarts
    <3> QED BY Zenon, <3>1, <3>2
  <2>3. ASSUME NEW w \in Deliverers, Holds(w), Sending(w, deliverer[w].d)
        PROVE  row'[deliverer[w].d].status # "cancelled"
    BY Zenon, <2>1, <2>3, RequestedIsNotCancelled
  <2> QED BY Zenon, <2>2, <2>3 DEF FenceStep
<1>2. WebhookInv /\ [WebhookNext]_webhookVars => [FenceStep]_webhookVars
  BY Zenon, <1>1
<1>3. [][FenceStep]_webhookVars => RemovalsFenceRequests
  BY PTL DEF FenceStep, RemovalsFenceRequests
<1> QED BY <1>2, <1>3, WebhookInvariance, PTL DEF WebhookSpec
=============================================================================
