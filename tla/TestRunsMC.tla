----------------------------- MODULE TestRunsMC -----------------------------
(* Two runs, for model checking. *)
EXTENDS TestRuns

CONSTANTS r1, r2

=============================================================================
