--------------------------- MODULE TurnExecutionMC ---------------------------
(* Model values for TLC runs of TurnExecution. *)
EXTENDS TurnExecution, TLC

CONSTANTS w1, w2

Interchangeable == Permutations(Workers)

=============================================================================
