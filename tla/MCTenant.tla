------------------------------ MODULE MCTenant ------------------------------
(* Three parts of a tenant: the authority of a send, the projection of a      *)
(* conversation, and the ingestion of a batch.  `part` says which one runs.   *)
EXTENDS OutboundAuthority, Projector, ArchiveIngest

VARIABLE part

\* Occurred times in neither the observed order nor its reverse.
MCOccurredMs == [n \in 1 .. 4 |-> (n * 2) % 5]

tenantVars == <<vars, projectorVars, ingestVars, part>>

\* Of the streams of four events, those are explored that create the message and
\* delete something.
StreamScope ==
    (\A n \in Ranks : stream[n] # "none") =>
        /\ \E n \in Ranks : stream[n] = "message.created"
        /\ \E n \in Ranks : stream[n] \in DOMAIN DeletionTarget

TenantInit ==
    /\ Init
    /\ ProjectorInit
    /\ ArchiveIngestInit
    /\ part \in {"authority", "projector", "ingestion"}
    /\ part # "authority" => \A m \in Members : members[m].role = "member"

TenantNext ==
    /\ UNCHANGED part
    /\ \/ part = "authority" /\ Next /\ UNCHANGED <<projectorVars, ingestVars>>
       \/ part = "projector" /\ ProjectorNext /\ StreamScope'
          /\ UNCHANGED <<vars, ingestVars>>
       \/ part = "ingestion" /\ ArchiveIngestNext /\ UNCHANGED <<vars, projectorVars>>

TenantSpec == TenantInit /\ [][TenantNext]_tenantVars
=============================================================================
