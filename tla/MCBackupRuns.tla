---------------------------- MODULE MCBackupRuns ----------------------------
(* A scheduler and one call of run_now, one period, two backups of a      *)
(* state with no secrets and no sessions, one restart.                       *)
EXTENDS BackupRuns, TLC

CONSTANTS c1

MCCallers == {c1}
MCPeriods == (1..Days) \cup MCCallers

=============================================================================
