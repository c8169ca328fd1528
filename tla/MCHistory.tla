----------------------------- MODULE MCHistory -----------------------------
(* A small instance of History for TLC. *)
EXTENDS History, TLC

HistSymmetry == Permutations(PageWorkers)

\* An administrator's call and a failure are explored one at a time.
ManualAlone == manual = 0 \/ mishap = 0
=============================================================================
