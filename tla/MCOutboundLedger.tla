-------------------------- MODULE MCOutboundLedger --------------------------
(* Instances of OutboundLedger for TLC. *)
EXTENDS OutboundLedger, TLC

OneChat == [c \in Commands |-> "chat"]
\* Every source and status once, and a second doubtful report
AllReports == {e \in Evidence : e.id = 1 \/ (e.source = "provider" /\ e.status = "uncertain")}
\* One report of each of the three outcomes: settled, doubtful, delivered
KeyReports == {e \in Evidence : <<e.source, e.status>> \in
                {<<"matrix", "confirmed">>, <<"provider", "uncertain">>,
                 <<"provider", "delivered">>}}
Interchangeable == Permutations(Commands) \cup Permutations(ActionKeys)
=============================================================================
