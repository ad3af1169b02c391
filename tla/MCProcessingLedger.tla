------------------------- MODULE MCProcessingLedger -------------------------
(* Instances of ProcessingLedger for TLC: which disturbances a run allows. *)
EXTENDS ProcessingLedger

CONSTANTS w1, w2

Only(allowed) == [k \in Kinds |-> IF k \in DOMAIN allowed THEN allowed[k] ELSE 0]

(* Changes, deletions and permissions, with failures around them.          *)
Edited == Only([edit |-> 2, share |-> 1, slow |-> 1, ordinary |-> 1])

(* Work put back by the operator and by other files.                       *)
Rerun == Only([bump |-> 2, retry |-> 1, poison |-> 1, outage |-> 1,
               merge |-> 1])

(* Stages switched off and on, another ontology, a worker that dies.       *)
Troubled == Only([edit |-> 1, toggle |-> 1, retype |-> 1, crash |-> 1, slow |-> 1])

(* A release changes versions and stages between scans of permissions.     *)
Configured == Only([bump |-> 1, toggle |-> 2, share |-> 1, slow |-> 1])

(* One run for the four: each start has the budgets of the others spent.   *)
Parts == {Edited, Rerun, Troubled, Configured}
All == [k \in Kinds |-> Edited[k] + Rerun[k] + Troubled[k] + Configured[k]]
OneOfThem == {[k \in Kinds |-> All[k] - part[k]] : part \in Parts}
=============================================================================
