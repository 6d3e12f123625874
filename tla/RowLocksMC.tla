----------------------------- MODULE RowLocksMC -----------------------------
(* Small instances of RowLocks for TLC.                                    *)
EXTENDS RowLocks, TLC

CONSTANTS t1, t2, t3, ca, cb

Symmetry == Permutations(Txns) \cup Permutations(Conversations)

\* Everything but a session with a new subject for an existing character.
MostKinds == DOMAIN Script \ {"session_new_subject"}
SetupKinds == {"create_definition", "session_new_character",
               "session_existing", "session_new_subject"}

=============================================================================
