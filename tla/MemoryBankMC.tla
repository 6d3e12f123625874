---------------------------- MODULE MemoryBankMC ----------------------------
(* Small instances of MemoryBank for TLC.                                  *)
EXTENDS MemoryBank, TLC

CONSTANTS c1, c2, c3

=============================================================================
