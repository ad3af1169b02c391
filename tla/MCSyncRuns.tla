----------------------------- MODULE MCSyncRuns -----------------------------
(* Instances of SyncRuns for TLC.                                          *)
EXTENDS SyncRuns

CONSTANTS r1, r2
=============================================================================
