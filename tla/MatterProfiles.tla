-------------------------- MODULE MatterProfiles --------------------------
(* The queue of one matter whose documents change.  Classifying a document *)
(* marks the matter; a later stage, relate, puts the document into the     *)
(* folder of the matter.  A timer on every worker triggers a run for each  *)
(* matter that has been quiet for the debounce window, keyed on the mark;  *)
(* a run hands the folder to an agent, writes what it answers and deletes  *)
(* the mark.  An operator may sweep the queue without waiting.             *)
EXTENDS Integers, FiniteSets

CONSTANTS
    Docs,
    Operator,   \* the run of an operator's sweep, which is not retried
    Retries,    \* Hatchet's retries of the task
    MaxMarks,   \* bound: marks, that is classified documents
    MaxFails    \* bound: agent calls that fail and workers that die

ASSUME ProfileBounds == Retries \in Nat /\ MaxMarks \in Nat /\ MaxFails \in Nat
ASSUME OperatorAssumption == Operator \notin 1 .. MaxMarks

(* A mark is known by its number; the key of a run is that of its mark.    *)
MatterMarks == 1 .. MaxMarks
MatterRuns == MatterMarks \union {Operator}

VARIABLES
    stage,      \* document -> new, classified (and marking), related
    row,        \* matter_profile_queue: the last mark, 0 when there is no row
    quiet,      \* the row is older than the debounce window
    marks,      \* marks made so far
    run,        \* run -> its phase, the folder it read and the retries it has left
    profile,    \* the documents that the written profile was derived from
    faults,
    crossed     \* history: two agents had the folder at the same time

profileVars == <<stage, row, quiet, marks, run, profile, faults, crossed>>

Unread == [phase |-> "none", view |-> {}, left |-> Retries]

ProfileInit ==
    /\ stage = [d \in Docs |-> "new"]
    /\ row = 0 /\ quiet = FALSE /\ marks = 0
    /\ run = [r \in MatterRuns |-> Unread]
    /\ profile = {} /\ faults = 0 /\ crossed = FALSE

Folder == {d \in Docs : stage[d] = "related"}
Reading == {r \in MatterRuns : run[r].phase = "reading"}

(* mark_matter_dirty, in the transaction that classifies a document: one   *)
(* row per matter, and its window starts again.                            *)
Marked == row' = marks + 1 /\ marks' = marks + 1 /\ quiet' = FALSE

Classifies(d) ==
    /\ stage[d] \in {"new", "related"} /\ marks < MaxMarks
    /\ stage' = [stage EXCEPT ![d] = IF @ = "new" THEN "classified" ELSE @]
    /\ Marked
    /\ UNCHANGED <<run, profile, faults, crossed>>

Relates(d) ==
    /\ stage[d] = "classified"
    /\ stage' = [stage EXCEPT ![d] = "related"]
    /\ UNCHANGED <<row, quiet, marks, run, profile, faults, crossed>>

WindowPasses ==
    /\ row # 0 /\ ~ quiet /\ quiet' = TRUE
    /\ UNCHANGED <<stage, row, marks, run, profile, faults, crossed>>

TriggersOnce ==
    /\ row # 0 /\ quiet /\ \A r \in MatterMarks : run[r].phase = "none"
    /\ run' = [run EXCEPT ![row].phase = "queued"]
    /\ UNCHANGED <<stage, row, quiet, marks, profile, faults, crossed>>

(* trigger_matter_profiles: due_matters with the window, one key per mark. *)
Triggers ==
    /\ row # 0 /\ quiet /\ run[row].phase = "none"
    /\ run' = [run EXCEPT ![row].phase = "queued"]
    /\ UNCHANGED <<stage, row, quiet, marks, profile, faults, crossed>>

(* ki profile-matters --sweep: due_matters without it.                     *)
Sweeps ==
    /\ row # 0 /\ run[Operator].phase \in {"none", "done"}
    /\ run' = [run EXCEPT ![Operator].phase = "queued"]
    /\ UNCHANGED <<stage, row, quiet, marks, profile, faults, crossed>>

StartsStale(r) ==
    /\ run[r].phase = "queued"
    /\ IF row = 0 /\ r # Operator
       THEN run' = [run EXCEPT ![r].phase = "done"] /\ UNCHANGED crossed
       ELSE /\ run' = [run EXCEPT ![r].phase = "reading", ![r].view = IF @ = {} THEN Folder ELSE @]
            /\ crossed' = (crossed \/ Reading # {})
    /\ UNCHANGED <<stage, row, quiet, marks, profile, faults>>

(* The task: nothing to do when the row is gone; else the agent is given   *)
(* the folder.  The sweep of the operator does not look again.             *)
Starts(r) ==
    /\ run[r].phase = "queued"
    /\ IF row = 0 /\ r # Operator
       THEN run' = [run EXCEPT ![r].phase = "done"] /\ UNCHANGED crossed
       ELSE /\ run' = [run EXCEPT ![r].phase = "reading", ![r].view = Folder]
            /\ crossed' = (crossed \/ Reading # {})
    /\ UNCHANGED <<stage, row, quiet, marks, profile, faults>>

RetriedForever(t) == [t EXCEPT !.phase = "queued", !.left = @ - 1]

Retried(t) ==
    IF t.left > 0 THEN [t EXCEPT !.phase = "queued", !.left = @ - 1] ELSE [t EXCEPT !.phase = "failed"]

(* profile_matter writes what the agent answered and deletes the row,      *)
(* whatever has marked the matter since.                                   *)
Writes(r) ==
    /\ run[r].phase = "reading"
    /\ profile' = run[r].view
    /\ row' = 0 /\ quiet' = FALSE
    /\ run' = [run EXCEPT ![r].phase = IF r = Operator THEN "done" ELSE "checking"]
    /\ UNCHANGED <<stage, marks, faults, crossed>>

(* The agent fails, and the error is recorded; or the worker dies.         *)
Fails(r) ==
    /\ run[r].phase = "reading" /\ faults < MaxFails
    /\ faults' = faults + 1
    /\ run' = [run EXCEPT ![r] = IF r = Operator THEN [@ EXCEPT !.phase = "done"] ELSE Retried(@)]
    /\ UNCHANGED <<stage, row, quiet, marks, profile, crossed>>

(* The task succeeds when there is no row after its commit.                *)
Checks(r) ==
    /\ run[r].phase = "checking"
    /\ run' = [run EXCEPT ![r] = IF row = 0 THEN [@ EXCEPT !.phase = "done"] ELSE Retried(@)]
    /\ UNCHANGED <<stage, row, quiet, marks, profile, faults, crossed>>

ProfileNext ==
    \/ \E d \in Docs : Classifies(d) \/ Relates(d)
    \/ WindowPasses \/ Triggers \/ Sweeps
    \/ \E r \in MatterRuns : Starts(r) \/ Writes(r) \/ Fails(r) \/ Checks(r)

(* The pipeline relates what it classified, the window passes, the timer   *)
(* ticks, Hatchet runs what it was given and agents answer.  No operator   *)
(* need ever sweep.                                                        *)
Fairness ==
    /\ \A d \in Docs : WF_profileVars(Relates(d))
    /\ WF_profileVars(WindowPasses) /\ WF_profileVars(Triggers)
    /\ \A r \in MatterRuns :
        WF_profileVars(Starts(r)) /\ WF_profileVars(Writes(r)) /\ WF_profileVars(Checks(r))

ProfileSpec == ProfileInit /\ [][ProfileNext]_profileVars
FairSpec == ProfileSpec /\ Fairness
-----------------------------------------------------------------------------
Progress == [phase : {"none", "queued", "reading", "checking", "done", "failed"},
             view : SUBSET Docs, left : 0 .. Retries]

ProfileTypeOK ==
    /\ stage \in [Docs -> {"new", "classified", "related"}]
    /\ row \in 0 .. MaxMarks /\ marks \in 0 .. MaxMarks /\ quiet \in BOOLEAN
    /\ run \in [MatterRuns -> Progress]
    /\ profile \subseteq Docs /\ faults \in 0 .. MaxFails /\ crossed \in BOOLEAN

(* A matter that is marked is profiled: the mark goes, or a run of it has  *)
(* used up its retries.                                                    *)
Spent == \E r \in MatterMarks : run[r].phase = "failed"
QueueDrains == row # 0 ~> row = 0 \/ Spent

(* A document in the folder of a marked matter that no agent has open yet  *)
(* is in every later profile (profile_matter).                             *)
Awaited(d) == stage[d] = "related" /\ row # 0 /\ Reading = {}
AwaitedProfiled == \A d \in Docs : Awaited(d) ~> Spent \/ [](d \in profile)

(* As long as no two agents had the folder at once, no profile forgets a   *)
(* document.                                                               *)
UncrossedGrows == [][crossed \/ profile \subseteq profile']_profileVars

=============================================================================
