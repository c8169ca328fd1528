----------------------------- MODULE DurableWork -----------------------------
(***************************************************************************)
(* What a durable ledger of external work promises, whatever the work is:  *)
(* an item is attempted only while it is open, takes effect only through   *)
(* an attempt, is reported done only when it took effect, and once its     *)
(* outcome is unknown or failed it is attempted again only on an explicit  *)
(* request; and nothing is left open.                                      *)
(***************************************************************************)
EXTENDS FiniteSets

CONSTANT Items

VARIABLES
    state,   \* what the ledger says of each item: absent, open, trying, done,
             \* failed, dropped or unknown
    effect,  \* the items whose external effect has happened
    asked    \* the items someone has asked to attempt again

workVars == <<state, effect, asked>>

WorkInit ==
    /\ state = [i \in Items |-> "absent"]
    /\ effect = {}
    /\ asked = {}

Move(i, from, to) ==
    /\ state[i] \in from
    /\ state' = [state EXCEPT ![i] = to]
    /\ UNCHANGED <<effect, asked>>

Accept(i) == Move(i, {"absent"}, "open")
Attempt(i) == Move(i, {"open"}, "trying")
Requeue(i) == Move(i, {"trying"}, "open")
GiveUp(i) == Move(i, {"open", "trying"}, "failed")
Lose(i) == Move(i, {"trying"}, "unknown")
Succeed(i) == i \in effect /\ Move(i, {"trying"}, "done")

\* Several items may be dropped at once.
Drop ==
    /\ \A i \in Items : \/ state'[i] = state[i]
                         \/ /\ state[i] \in {"open", "trying"}
                            /\ state'[i] = "dropped"
    /\ UNCHANGED <<effect, asked>>

TakeEffect(i) ==
    /\ state[i] \in {"trying", "unknown"} \/ i \in asked
    /\ effect' = effect \union {i}
    /\ UNCHANGED <<state, asked>>

Ask(i) ==
    /\ state[i] \in {"failed", "unknown"}
    /\ asked' = asked \union {i}
    /\ UNCHANGED <<state, effect>>

Reopen(i) == i \in asked /\ Move(i, {"failed", "unknown"}, "open")

WorkNext ==
    \/ \E i \in Items :
         \/ Accept(i) \/ Attempt(i) \/ Requeue(i) \/ GiveUp(i) \/ Lose(i)
         \/ Succeed(i) \/ TakeEffect(i) \/ Ask(i) \/ Reopen(i)
    \/ Drop

WorkSpec == WorkInit /\ [][WorkNext]_workVars

\* Nothing stays open or under way for ever
WorkSettles ==
    \A i \in Items : state[i] \in {"open", "trying"}
                      ~> state[i] \in {"done", "failed", "dropped", "unknown"}

WorkLiveSpec == WorkSpec /\ WorkSettles
=============================================================================
