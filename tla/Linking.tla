------------------------------- MODULE Linking -------------------------------
(* Linking a provider account, relinking it and disconnecting it            *)
(* (worker/linking): the LinkSessionDO of every session, whose commands are  *)
(* serialised by blockConcurrencyWhile; the D1 rows of the connections and   *)
(* of the lifecycle operations; and the requests of the routes, which are    *)
(* suspended at every call they await and come back with what they read.    *)
EXTENDS Naturals, FiniteSets

CONSTANTS LinkSessions,       \* sessions that link a new account
          Relinks,            \* relinks; a relink's session and operation share its name
          Disconnects,        \* disconnect operations
          Logins,             \* provider accounts
          NoLogin,
          NoOperation,        \* lifecycle_operation_id IS NULL
          MaxLinkGeneration,  \* bound: refreshes of one session, plus one
          MaxLinkCalls,       \* bound: requests suspended at the same time
          MaxLinkMishaps      \* bound: deaths of an isolate and D1 failures

Sessions == LinkSessions \cup Relinks
Operations == Relinks \cup Disconnects

ASSUME LinkBounds ==
    /\ LinkSessions \cap Relinks = {}
    /\ Sessions \cap Disconnects = {}
    /\ NoOperation \notin Operations
    /\ NoLogin \notin Logins
    /\ {MaxLinkGeneration, MaxLinkCalls, MaxLinkMishaps} \subseteq Nat

VARIABLES session,         \* the stored state of each LinkSessionDO
          connection,      \* connections rows, named after the session that made them
          lifecycle,       \* connection_lifecycle_operations rows
          linkCalls,       \* suspended requests
          administrator,   \* the actor still holds connection.manage
          diedCommitting,  \* sessions whose object died between D1 and its put
          linkMishaps

linkVars == <<session, connection, lifecycle, linkCalls, administrator,
              diedCommitting, linkMishaps>>

EndedStatus == {"connected", "expired", "failed", "cancelled",
                "relink_required", "reconciliation_required"}
LiveOperation == {"pending", "provider_pending"}
SettledOperation == {"succeeded", "failed"}
CallKinds == {"begin", "create", "claim", "start", "disconnect", "answer", "finish"}
LinkAnswers == {"failed"}   \* and expired, which the provider reports the same way

NoConnection == [status |-> "none", login |-> NoLogin, generation |-> 0,
                 operation |-> NoOperation]

\* A suspended request: the session or operation it serves, the connection it
\* is about, the generation it read, and the answer or status it carries.
Call(kind, key, target, generation, value) ==
    [kind |-> kind, key |-> key, target |-> target,
     generation |-> generation, value |-> value]

Exists(c) == connection[c].status # "none"
takenByTheConnected(login) ==
    \E c \in Sessions : connection[c].login = login /\ connection[c].status = "connected"
Taken(login) == \E c \in Sessions : connection[c].login = login
existing(s) == session[s].status # "absent"
terminal(s) == session[s].status \in EndedStatus
OpenSession(s) == session[s].status \notin EndedStatus \cup {"absent"}

\* The object is inside a commit that awaits D1: nothing else runs in it.
Blocked(s) == \E c \in linkCalls : c.kind = "finish" /\ c.key = s

MishapLeft == linkMishaps < MaxLinkMishaps
MishapTaken == linkMishaps' = linkMishaps + 1

LinkInit ==
    /\ session = [s \in Sessions |-> [status |-> "absent", generation |-> 0, ref |-> FALSE]]
    /\ connection = [s \in Sessions |-> NoConnection]
    /\ lifecycle = [o \in Operations |->
                       [status |-> "absent", target |-> NoOperation, generation |-> 0]]
    /\ linkCalls = {}
    /\ administrator = TRUE
    /\ diedCommitting = {}
    /\ linkMishaps = 0

-----------------------------------------------------------------------------
(* The session object *)

EndedAs(s, status) ==
    [session EXCEPT ![s].status = status, ![s].ref = FALSE]

EndedNextGeneration(s, status) ==
    [session EXCEPT ![s] = [status |-> status, generation |-> @.generation + 1, ref |-> FALSE]]

\* ensureCurrent, with the terminal test every command but read makes; the
\* expiry a read performs is expire(s), which no command can overtake.
ensureCurrent(s, generation) ==
    session[s].generation = generation

Accepts(s, generation) == OpenSession(s) /\ ensureCurrent(s, generation)

create(s, status) ==
    session' = [session EXCEPT ![s] = [status |-> status, generation |-> 1, ref |-> FALSE]]

expireWithGateway(s) ==
    /\ OpenSession(s) /\ ~Blocked(s) /\ session[s].ref
    /\ session' = EndedNextGeneration(s, "expired")
    /\ UNCHANGED <<connection, lifecycle, linkCalls, administrator, diedCommitting, linkMishaps>>

\* The alarm set at create, or the first command read after expires_at. The
\* single attempt to cancel the gateway session changes nothing kept here.
expire(s) ==
    /\ OpenSession(s) /\ ~Blocked(s)
    /\ session' = EndedNextGeneration(s, "expired")
    /\ UNCHANGED <<connection, lifecycle, linkCalls, administrator, diedCommitting, linkMishaps>>

-----------------------------------------------------------------------------
(* The lifecycle rows *)

\* markLifecycleReconciliation: the operations' rows, and the fence released
\* when the provider could not be reached.
Reconciled(o) ==
    IF lifecycle[o].status \in SettledOperation THEN lifecycle
    ELSE [lifecycle EXCEPT ![o].status = "reconciliation_required"]

ReleasedFence(o, code) ==
    LET t == lifecycle[o].target
    IN  IF code = "provider_unavailable" /\ connection[t].operation = o
        THEN [connection EXCEPT ![t].operation = NoOperation]
        ELSE connection

SettledOwner(o) == o = NoOperation \/ lifecycle[o].status \in SettledOperation

\* Who may take the connection over from the operation that fences it: anyone
\* from a settled one, and a disconnect also from a relink under way.
MayTake(o, t) ==
    LET prior == connection[t].operation
    IN  \/ SettledOwner(prior)
        \/ /\ o \in Disconnects
           /\ prior \in Relinks
           /\ lifecycle[prior].status \in LiveOperation

forgetOthers(o, t) == lifecycle

\* The statement of a disconnect's batch that fails every relink under way,
\* whether or not the disconnect took the connection.
supersedeRelinks(o, t) ==
    [x \in Operations |->
        IF /\ o \in Disconnects /\ x \in Relinks
           /\ lifecycle[x].target = t /\ lifecycle[x].status \in LiveOperation
        THEN [lifecycle[x] EXCEPT !.status = "failed"]
        ELSE lifecycle[x]]

\* The rest of the handler once its operation is known to have this status.
Resume(o, t, status) ==
    IF o \in Relinks THEN {Call("create", o, t, 0, status)}
    ELSE IF status = "pending" THEN {Call("claim", o, t, 0, status)}
    ELSE {}

\* beginConnectionRelink and beginConnectionDisconnect up to the batch: the
\* connection and its generation are read; a known key replays its operation.
beginOperation(o, t) ==
    /\ administrator /\ Exists(t)
    /\ Cardinality(linkCalls) < MaxLinkCalls
    /\ lifecycle[o].status # "absent" => lifecycle[o].target = t
    /\ linkCalls' = linkCalls \cup
          (IF lifecycle[o].status = "absent"
           THEN {Call("begin", o, t, connection[t].generation, "")}
           ELSE Resume(o, t, lifecycle[o].status))
    /\ linkCalls' # linkCalls
    /\ UNCHANGED <<session, connection, lifecycle, administrator, diedCommitting, linkMishaps>>

\* The batch of beginOperation and the check of its fence. A request that finds
\* its key inserted meanwhile replays that operation.
beginReplay(c) ==
    /\ c.kind = "begin" /\ lifecycle[c.key].status # "absent"
    /\ linkCalls' = (linkCalls \ {c}) \cup Resume(c.key, lifecycle[c.key].target,
                                                  lifecycle[c.key].status)
    /\ UNCHANGED <<session, connection, lifecycle, administrator, diedCommitting, linkMishaps>>

beginBatch(c) ==
    LET o == c.key
        t == c.target
        took == connection[t].generation = c.generation /\ MayTake(o, t)
    IN  /\ c.kind = "begin" /\ lifecycle[o].status = "absent"
        /\ lifecycle' =
              [supersedeRelinks(o, t) EXCEPT ![o] =
                  [status |-> IF took THEN "pending" ELSE "failed",
                   target |-> t, generation |-> c.generation]]
        /\ connection' =
              IF ~took THEN connection
              ELSE IF o \in Disconnects
              THEN [connection EXCEPT ![t].status = "disconnected",
                                      ![t].operation = o, ![t].generation = @ + 1]
              ELSE [connection EXCEPT ![t].operation = o]
        /\ linkCalls' = (linkCalls \ {c}) \cup
                           (IF took THEN Resume(o, t, "pending") ELSE {})
        /\ UNCHANGED <<session, administrator, diedCommitting, linkMishaps>>

\* The relink handler creates its session from the status it was given.
createRelinkSession(c) ==
    LET r == c.key
        live == c.value \in LiveOperation
        fresh == session[r].status = "absent"
    IN  /\ c.kind = "create"
        /\ IF fresh
           THEN create(r, CASE live -> "created"
                            [] c.value = "succeeded" -> "connected"
                            [] OTHER -> "reconciliation_required")
           ELSE UNCHANGED session
        /\ linkCalls' = (linkCalls \ {c}) \cup
              (IF fresh /\ live THEN {Call("claim", r, c.target, 1, c.value)} ELSE {})
        /\ UNCHANGED <<connection, lifecycle, administrator, diedCommitting, linkMishaps>>

\* markLifecycleProviderPending: the one request that moves the row on calls
\* the provider.
claim(c) ==
    LET o == c.key
        claimed == lifecycle[o].status = "pending"
    IN  /\ c.kind = "claim"
        /\ lifecycle' = IF claimed
                        THEN [lifecycle EXCEPT ![o].status = "provider_pending"]
                        ELSE lifecycle
        /\ linkCalls' = (linkCalls \ {c}) \cup
              (IF ~claimed THEN {}
               ELSE {Call(IF o \in Relinks THEN "start" ELSE "disconnect",
                          o, c.target, c.generation, "")})
        /\ UNCHANGED <<session, connection, administrator, diedCommitting, linkMishaps>>

\* The statement of completeConnectionDisconnect and the check of its effect.
completeConnectionDisconnect(o, t) ==
    /\ lifecycle' = IF /\ administrator
                       /\ connection[t].operation = o
                       /\ connection[t].status = "disconnected"
                       /\ lifecycle[o].status \in LiveOperation
                    THEN [lifecycle EXCEPT ![o].status = "succeeded"]
                    ELSE Reconciled(o)
    /\ UNCHANGED connection

\* The rest of the disconnect handler once gateway.disconnect answers or throws.
disconnected(c) ==
    /\ c.kind = "disconnect"
    /\ linkCalls' = linkCalls \ {c}
    /\ \/ completeConnectionDisconnect(c.key, c.target)
       \/ \E code \in {"provider_unavailable", "provider_error"} :
             /\ lifecycle' = Reconciled(c.key)
             /\ connection' = ReleasedFence(c.key, code)
    /\ UNCHANGED <<session, administrator, diedCommitting, linkMishaps>>

-----------------------------------------------------------------------------
(* The routes of a session *)

createLinkSession(s) ==
    /\ administrator /\ session[s].status = "absent"
    /\ Cardinality(linkCalls) < MaxLinkCalls
    /\ create(s, "created")
    /\ linkCalls' = linkCalls \cup {Call("start", s, s, 1, "")}
    /\ UNCHANGED <<connection, lifecycle, administrator, diedCommitting, linkMishaps>>

\* The relink handler writes every failure of its provider call down; the
\* refresh handler, whose calls have a later generation, does not.
StartFailed(c, code) ==
    IF c.key \in Relinks /\ c.generation = 1
    THEN /\ lifecycle' = Reconciled(c.key)
         /\ connection' = ReleasedFence(c.key, code)
    ELSE UNCHANGED <<lifecycle, connection>>

\* startProvider after gateway.start answers or throws.
startProvider(c) ==
    LET s == c.key
        current == Accepts(s, c.generation)
    IN  /\ c.kind = "start" /\ ~Blocked(s)
        /\ linkCalls' = linkCalls \ {c}
        /\ \/ /\ current
              /\ session' = [session EXCEPT ![s].status = "awaiting_user", ![s].ref = TRUE]
              /\ UNCHANGED <<lifecycle, connection>>
           \/ \E code \in {"provider_unavailable", "provider_error"} :
                 /\ current
                 /\ session' = EndedAs(s, "failed")
                 /\ StartFailed(c, code)
           \/ /\ ~current          \* set_gateway or set_provider_state is refused
              /\ StartFailed(c, "provider_error")
              /\ UNCHANGED session
        /\ UNCHANGED <<administrator, diedCommitting, linkMishaps>>

\* refresh, then cancelPrevious, whose errors are ignored, then startProvider.
refresh(s) ==
    /\ administrator /\ OpenSession(s) /\ ~Blocked(s)
    /\ session[s].generation < MaxLinkGeneration
    /\ Cardinality(linkCalls) < MaxLinkCalls
    /\ session' = [session EXCEPT ![s] =
                      [status |-> "created", generation |-> @.generation + 1, ref |-> FALSE]]
    /\ linkCalls' = linkCalls \cup {Call("start", s, s, session[s].generation + 1, "")}
    /\ UNCHANGED <<connection, lifecycle, administrator, diedCommitting, linkMishaps>>

cancel(s) ==
    /\ administrator /\ OpenSession(s) /\ ~Blocked(s)
    /\ session' = EndedNextGeneration(s, "cancelled")
    /\ UNCHANGED <<connection, lifecycle, linkCalls, administrator, diedCommitting, linkMishaps>>

\* begin and gateway.poll: the answer is on its way back with the generation
\* that was polled. An answer that is still awaiting_user changes nothing.
poll(s) ==
    /\ administrator /\ OpenSession(s) /\ ~Blocked(s) /\ session[s].ref
    /\ Cardinality(linkCalls) < MaxLinkCalls
    /\ \E answer \in LinkAnswers \cup Logins :
          linkCalls' = linkCalls \cup {Call("answer", s, s, session[s].generation, answer)}
    /\ UNCHANGED <<session, connection, lifecycle, administrator, diedCommitting, linkMishaps>>

\* set_provider_state with the provider's refusal; a stale one changes nothing.
providerEnded(c) ==
    /\ c.kind = "answer" /\ c.value \in LinkAnswers /\ ~Blocked(c.key)
    /\ linkCalls' = linkCalls \ {c}
    /\ session' = IF Accepts(c.key, c.generation) THEN EndedAs(c.key, c.value) ELSE session
    /\ UNCHANGED <<connection, lifecycle, administrator, diedCommitting, linkMishaps>>

\* A commit for a generation that is over is refused before D1 is read.
staleCommit(c) ==
    /\ c.kind = "answer" /\ c.value \in Logins /\ ~Blocked(c.key)
    /\ ~Accepts(c.key, c.generation)
    /\ linkCalls' = linkCalls \ {c}
    /\ UNCHANGED <<session, connection, lifecycle, administrator, diedCommitting, linkMishaps>>

Linked(s, login) ==
    [connection EXCEPT ![s] = [status |-> "connected", login |-> login,
                               generation |-> 1, operation |-> NoOperation]]

\* The object writes the outcome, or dies first and forgets it.
PutOrDie(s, status) ==
    \/ session' = EndedAs(s, status) /\ UNCHANGED <<diedCommitting, linkMishaps>>
    \/ /\ MishapLeft /\ MishapTaken
       /\ diedCommitting' = diedCommitting \cup {s}
       /\ UNCHANGED session

\* A session that D1 has an account for already is answered with it.
getExistingSessionCommit(s) ==
    /\ Exists(s)
    /\ PutOrDie(s, "connected")
    /\ UNCHANGED connection

\* An account another connection holds; when that one was committed after the
\* check, the unique key of the batch refuses the row instead.
duplicate(s, login) ==
    /\ ~Exists(s) /\ Taken(login)
    /\ \E status \in {"relink_required", "reconciliation_required"} : PutOrDie(s, status)
    /\ UNCHANGED connection

commitLinkedAccount(s, login) ==
    \/ /\ administrator
       /\ \/ getExistingSessionCommit(s)
          \/ duplicate(s, login)
          \/ /\ ~Exists(s) /\ ~Taken(login)
             /\ connection' = Linked(s, login)
             /\ PutOrDie(s, "connected")
    \/ /\ ~administrator
       /\ PutOrDie(s, "reconciliation_required")
       /\ UNCHANGED connection

\* D1 fails, before its batch or after it: link_conflict either way.
commitLost(s, login) ==
    /\ MishapLeft /\ MishapTaken
    /\ session' = EndedAs(s, "reconciliation_required")
    /\ \/ UNCHANGED connection
       \/ administrator /\ ~Exists(s) /\ ~Taken(login) /\ connection' = Linked(s, login)
    /\ UNCHANGED diedCommitting

commit(c) ==
    /\ c.kind = "answer" /\ c.key \in LinkSessions /\ c.value \in Logins
    /\ Accepts(c.key, c.generation)
    /\ \/ commitLinkedAccount(c.key, c.value)
       \/ commitLost(c.key, c.value)
    /\ linkCalls' = linkCalls \ {c}
    /\ UNCHANGED <<lifecycle, administrator>>

fencedLikeABegin(r) ==
    /\ administrator
    /\ \/ connection[lifecycle[r].target].operation = r
       \/ SettledOwner(connection[lifecycle[r].target].operation)

\* What completeConnectionRelink checks, and its statements repeat.
RelinkFenced(r) ==
    /\ administrator
    /\ connection[lifecycle[r].target].operation = r
    /\ connection[lifecycle[r].target].generation = lifecycle[r].generation
    /\ lifecycle[r].status \in LiveOperation

RelinkRefused(r) ==
    /\ lifecycle' = Reconciled(r)
    /\ UNCHANGED connection
    /\ PutOrDie(r, "reconciliation_required")

\* completeConnectionRelink in the relink's object, up to its first batch.
commitRelink(c) ==
    LET r == c.key
        t == lifecycle[r].target
        same == connection[t].login = c.value
    IN  /\ c.kind = "answer" /\ r \in Relinks /\ c.value \in Logins
        /\ Accepts(r, c.generation) /\ ~Blocked(r)
        /\ \/ /\ lifecycle[r].status = "succeeded"
              /\ PutOrDie(r, "connected")
              /\ linkCalls' = linkCalls \ {c}
              /\ UNCHANGED <<lifecycle, connection>>
           \/ /\ lifecycle[r].status # "succeeded"
              /\ ~RelinkFenced(r) \/ (~same /\ ~Exists(r) /\ Taken(c.value))
              /\ RelinkRefused(r)
              /\ linkCalls' = linkCalls \ {c}
           \/ /\ lifecycle[r].status # "succeeded" /\ RelinkFenced(r) /\ same
              /\ lifecycle' = [lifecycle EXCEPT ![r].status = "succeeded"]
              /\ connection' = [connection EXCEPT ![t].status = "connected",
                                    ![t].operation = r, ![t].generation = @ + 1]
              /\ PutOrDie(r, "connected")
              /\ linkCalls' = linkCalls \ {c}
           \/ /\ lifecycle[r].status # "succeeded" /\ RelinkFenced(r) /\ ~same
              /\ Exists(r) \/ ~Taken(c.value)
              /\ connection' = IF Exists(r) THEN connection ELSE Linked(r, c.value)
              /\ linkCalls' = (linkCalls \ {c}) \cup
                    {Call("finish", r, t, c.generation, IF Exists(r) THEN "old" ELSE "new")}
              /\ UNCHANGED <<lifecycle, session, diedCommitting, linkMishaps>>
        /\ UNCHANGED administrator

\* The second batch of a relink that met another login: the replacement must
\* be the row this call inserted, and the old connection still fenced.
finishReplacement(c) ==
    LET r == c.key
        t == c.target
    IN  /\ c.kind = "finish"
        /\ linkCalls' = linkCalls \ {c}
        /\ IF /\ c.value = "new" /\ connection[r].generation = 1
              /\ lifecycle[r].status \in LiveOperation
              /\ connection[t].operation = r
              /\ connection[t].generation = lifecycle[r].generation
           THEN /\ lifecycle' = [lifecycle EXCEPT ![r].status = "succeeded"]
                /\ UNCHANGED connection
                /\ PutOrDie(r, "connected")
           ELSE RelinkRefused(r)
        /\ UNCHANGED administrator

-----------------------------------------------------------------------------
\* The isolate that runs a request dies; the object's, if it is inside a commit.
requestDies(c) ==
    /\ MishapLeft /\ MishapTaken
    /\ linkCalls' = linkCalls \ {c}
    /\ diedCommitting' = IF c.kind = "finish" THEN diedCommitting \cup {c.key}
                                              ELSE diedCommitting
    /\ UNCHANGED <<session, connection, lifecycle, administrator>>

revokeAdministrator ==
    /\ administrator
    /\ administrator' = FALSE
    /\ UNCHANGED <<session, connection, lifecycle, linkCalls, diedCommitting, linkMishaps>>

LinkNext ==
    \/ \E s \in LinkSessions : createLinkSession(s)
    \/ \E s \in Sessions : expire(s) \/ refresh(s) \/ cancel(s) \/ poll(s)
    \/ \E o \in Operations, t \in Sessions : beginOperation(o, t)
    \/ \E c \in linkCalls : \/ beginReplay(c) \/ beginBatch(c) \/ createRelinkSession(c)
                            \/ claim(c) \/ disconnected(c) \/ startProvider(c)
                            \/ providerEnded(c) \/ staleCommit(c) \/ commit(c)
                            \/ commitRelink(c) \/ finishReplacement(c) \/ requestDies(c)
    \/ revokeAdministrator

LinkSpec == LinkInit /\ [][LinkNext]_linkVars

\* The object's alarm fires, and a commit that awaits D1 gets its answer or
\* loses its object. Nobody has to poll, and no request has to come back.
commitReturns(r) ==
    \E c \in linkCalls : /\ c.kind = "finish" /\ c.key = r
                         /\ finishReplacement(c) \/ requestDies(c)

LinkFairSpec ==
    /\ LinkSpec
    /\ \A s \in Sessions : WF_linkVars(expire(s))
    /\ \A r \in Relinks : WF_linkVars(commitReturns(r))

-----------------------------------------------------------------------------
(* Properties *)

LinkTypeOK ==
    /\ session \in [Sessions -> [status : EndedStatus \cup {"absent", "created", "awaiting_user"},
                                 generation : 0..MaxLinkGeneration + 1, ref : BOOLEAN]]
    /\ connection \in [Sessions -> [status : {"none", "connected", "disconnected"},
                                    login : Logins \cup {NoLogin},
                                    generation : 0..Cardinality(Operations) + 1,
                                    operation : Operations \cup {NoOperation}]]
    /\ \A o \in Operations :
          lifecycle[o].status \in LiveOperation \cup SettledOperation
                                      \cup {"absent", "reconciliation_required"}
    /\ \A c \in linkCalls : c.kind \in CallKinds
    /\ Cardinality(linkCalls) <= MaxLinkCalls
    /\ administrator \in BOOLEAN
    /\ diedCommitting \subseteq Sessions
    /\ linkMishaps \in 0..MaxLinkMishaps

\* No two connections of the tenant hold the same provider account, however the
\* commits of several sessions and of relinks that met another login interleave.
OneConnectionPerLogin ==
    \A c, d \in Sessions :
        Exists(c) /\ Exists(d) /\ c # d => connection[c].login # connection[d].login

\* A session that was cancelled, that expired or that the provider refused has
\* linked nothing, although an answer for it may still have been on its way;
\* the exception is an object that died after D1 had the account.
EndedSessionsLinkNothing ==
    \A s \in Sessions \ diedCommitting :
        session[s].status \in {"cancelled", "expired", "failed", "relink_required"} =>
            /\ ~Exists(s)
            /\ s \in Relinks => lifecycle[s].status # "succeeded"

\* A provider account is attached at most once, and by no session that ended
\* otherwise (commitLinkedAccount, LinkSessionDO.execute).
SessionsLinkOnce == OneConnectionPerLogin /\ EndedSessionsLinkNothing

\* An operation that may still call the provider or complete is the one its
\* connection's fence names, so two never work on one connection.
LiveOperationsOwnTheirConnection ==
    \A o \in Operations :
        lifecycle[o].status \in LiveOperation =>
            connection[lifecycle[o].target].operation = o

\* A late answer changes nothing.  An account is attached only by the answer to
\* a poll of the generation the session is still at (ensureCurrent): a refresh, a
\* cancellation or an expiry leaves the answer without effect.  And only a
\* relink that fences the connection, and began at the generation the disconnect
\* left, brings a disconnected connection back (completeConnectionRelink).
LateAnswersChangeNothing ==
    [][\A s \in Sessions :
          /\ ~Exists(s) /\ connection'[s].status # "none" =>
                \E c \in linkCalls \ linkCalls' :
                   /\ c.kind = "answer" /\ c.key = s
                   /\ OpenSession(s) /\ c.generation = session[s].generation
          /\ connection[s].status = "disconnected" /\ connection'[s].status = "connected" =>
                \E r \in Relinks : /\ connection[s].operation = r
                                   /\ lifecycle[r].generation = connection[s].generation
                                   /\ lifecycle'[r].status = "succeeded"]_linkVars

\* Every session ends: the alarm set when it was created sees to it.
SessionsEnd == \A s \in Sessions : OpenSession(s) ~> terminal(s)

\* A relink whose session is over, and for which no request is under way, has
\* let go of its operation.  It does not hold: no code settles the operation of
\* a session that was cancelled, expired or was refused by the provider.
EndedRelinksAreSettled ==
    \A r \in Relinks :
        terminal(r) /\ (~ \E c \in linkCalls : c.key = r) =>
            lifecycle[r].status \notin LiveOperation
=============================================================================
