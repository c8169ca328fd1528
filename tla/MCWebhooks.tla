----------------------------- MODULE MCWebhooks -----------------------------
(* Small instances of Webhooks for TLC. *)
EXTENDS Webhooks, TLC

WorkerSymmetry == Permutations(Deliverers)

\* Two invocations overlap while a message has its first revision; a message
\* that has been edited is delivered by one invocation at a time, and neither
\* its deliveries are retried by hand nor is anything removed elsewhere.
EditsAlone ==
    (\E m \in Messages : rev[m] > 1)
      => /\ Cardinality({w \in Deliverers : deliverer[w].pc # "idle"}) <= 1
         /\ retried = {} /\ elsewhere = 0
=============================================================================
