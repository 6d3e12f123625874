---------------------------- MODULE RunMonitorMC ----------------------------
(* Small instances of RunMonitor for TLC.                                  *)
EXTENDS RunMonitor, TLC

CONSTANTS ca

=============================================================================
