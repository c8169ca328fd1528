----------------------------- MODULE MCDirectory -----------------------------
(* Three parts that share the control directory and no call: linking a        *)
(* connection, the realtime sockets and the account grants.  `part` says      *)
(* which one runs.                                                            *)
EXTENDS Linking, Realtime, AccountGrants, TLC

CONSTANTS p1, p2, q1, q2

VARIABLE part

directoryVars == <<linkVars, realtimeVars, grantVars, part>>

DirectoryInit ==
    /\ LinkInit
    /\ RealtimeInit
    /\ GrantInit
    /\ part \in {"linking", "realtime", "grants"}

DirectoryNext ==
    /\ UNCHANGED part
    /\ \/ part = "linking" /\ LinkNext /\ UNCHANGED <<realtimeVars, grantVars>>
       \/ part = "realtime" /\ RealtimeNext /\ UNCHANGED <<linkVars, grantVars>>
       \/ part = "grants" /\ GrantNext /\ UNCHANGED <<linkVars, realtimeVars>>

DirectorySpec == DirectoryInit /\ [][DirectoryNext]_directoryVars

\* Sessions, slots and appliers are p1 and p2, logins q1 and q2.
DirectorySymmetry == Permutations({p1, p2}) \cup Permutations({q1, q2})

\* After a mishap, a disconnect or the loss of the role, at most two link
\* sessions are explored together.
LinkScope ==
    \/ Cardinality({s \in Sessions : session[s].status # "absent"}) <= 2
    \/ /\ linkMishaps = 0
       /\ administrator
       /\ \A o \in Disconnects : lifecycle[o].status = "absent"
=============================================================================
