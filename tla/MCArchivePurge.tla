--------------------------- MODULE MCArchivePurge ---------------------------
(* Instances of ArchivePurge for TLC. *)
EXTENDS ArchivePurge, TLC

\* Each removal takes one item, itself.  Batch b1 is mixed: the items that are
\* removed and one that stays.  Any other batch holds removed items alone.
MCItems == Removals \cup {"kept"}
MCContent == [b \in Batches |-> IF b = "b1" THEN MCItems ELSE Removals]
MCMatches == [r \in Removals |-> {r}]
Interchangeable == Permutations(Workers) \cup Permutations(Removals)
=============================================================================
