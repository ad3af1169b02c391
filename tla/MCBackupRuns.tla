---------------------------- MODULE MCBackupRuns ----------------------------
(* Instances of BackupRuns for TLC.                                        *)
EXTENDS BackupRuns

Three == 1 .. 3
=============================================================================
