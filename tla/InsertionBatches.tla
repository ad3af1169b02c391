-------------------------- MODULE InsertionBatches --------------------------
(***************************************************************************)
(* Insertion batches: which run of the pipeline owns which document, who   *)
(* drives it through its stages, and when the batch's row says that the    *)
(* work is over.  A caller creates the row, reserves the documents that no *)
(* active batch owns, hands one workflow per document to Hatchet and marks *)
(* the row; the tasks of those workflows refresh it; sweepers in every     *)
(* worker reconcile it or declare it dead.                                 *)
(*                                                                         *)
(* A document is the first of its stages that is not settled.  What a      *)
(* reset does to an attempt under way is the subject of ProcessingLedger:  *)
(* here work is put back only between attempts.  Reading the progress and  *)
(* writing the row happens under an advisory lock of the batch, and the    *)
(* writers outside the lock only move the status, so it is one step.       *)
(***************************************************************************)
EXTENDS Integers

CONSTANTS
    Batches,        \* rows of pipeline_runs; an ended one is used again
    NoBatch,        \* a sweeper that rests
    Docs,
    N,              \* stages of a document
    Sweepers,       \* one in every worker, one behind the admin's page
    Providers,      \* orchestrators an installation may run
    Retries,        \* retries of a task
    MaxReopened,    \* bound: work put back in the queue
    MaxFaults,      \* bound: errors, dead processes, engine outages
    MaxStalls       \* bound: live work that its watchers believe dead

ASSUME BatchAssumption == NoBatch \notin Batches
ASSUME StageAssumption == N \in Nat \ {0}
ASSUME ProviderAssumption == Providers \subseteq {"local", "hatchet"}
ASSUME BoundAssumption ==
    Retries \in Nat /\ MaxReopened \in Nat /\ MaxFaults \in Nat /\ MaxStalls \in Nat

VARIABLES
    status,     \* pipeline_runs.status
    provider,   \* orchestrator_provider of the installation, on every row
    owned,      \* counters.object_ids
    refresh,    \* the batch refreshes permissions: pipeline_runs.workflow
    known,      \* provider_run_id is a workflow of Hatchet's
    call,       \* the process that launches the batch, and how far it is
    at,         \* first unsettled stage of each document; N + 1: settled
    held,       \* documents whose stage at that position is claimed
    access,     \* documents whose index is open for their permissions only
    task,       \* the current task of each workflow
    gone,       \* batches whose workflows Hatchet has no record of
    sweep,      \* what each sweeper is resolving
    overtaken,  \* history: batches that were completed before they were marked
    strained,   \* history: live work was believed dead
    reopened, faults, stalls

row == <<status, owned, refresh, known>>
ledger == <<at, held, access>>
engine == <<task, gone>>
history == <<overtaken, strained, reopened, faults, stalls>>
vars == <<provider, row, call, ledger, engine, sweep, history>>

Hatchet == provider = "hatchet"
Active(s) == s \in {"queued", "running"}
Open(d) == at[d] <= N
NoTask == [phase |-> "none", stage |-> 1, tries |-> 0, ok |-> FALSE, forced |-> FALSE]
Over(t) == t.phase \in {"none", "over"}
Resting == [phase |-> "resting", batch |-> NoBatch, idle |-> "silent"]

Init ==
    /\ status = [b \in Batches |-> "none"]
    /\ provider \in Providers
    /\ owned = [b \in Batches |-> {}]
    /\ refresh = {}
    /\ known = [b \in Batches |-> FALSE]
    /\ call = [b \in Batches |-> "none"]
    /\ at = [d \in Docs |-> 1]
    /\ held = {} /\ access = {}
    /\ task = [b \in Batches |-> [d \in Docs |-> NoTask]]
    /\ gone = {}
    /\ sweep = [s \in Sweepers |-> Resting]
    /\ overtaken = {} /\ strained = FALSE
    /\ reopened = 0 /\ faults = 0 /\ stalls = 0

Fault == faults < MaxFaults /\ faults' = faults + 1
Stall == stalls < MaxStalls /\ stalls' = stalls + 1 /\ strained' = TRUE
Calm == UNCHANGED <<strained, stalls>>

Written(b, s) == status' = [status EXCEPT ![b] = s]

Calling(b, phase) == call' = [call EXCEPT ![b] = phase]

(***************************************************************************)
(* Launching                                                               *)
(***************************************************************************)
Create(b) ==
    /\ ~Active(status[b]) /\ call[b] = "none" /\ \A d \in Docs : Over(task[b][d])
    /\ \A s \in Sweepers : sweep[s].phase # "resting" => sweep[s].batch # b
    /\ Written(b, "queued")
    /\ owned' = [owned EXCEPT ![b] = {}]
    /\ refresh' = refresh \ {b}
    /\ known' = [known EXCEPT ![b] = FALSE]
    /\ task' = [task EXCEPT ![b] = [d \in Docs |-> NoTask]]
    /\ gone' = gone \ {b}
    /\ overtaken' = overtaken \ {b}
    /\ Calling(b, "created")
    /\ UNCHANGED <<provider, ledger, sweep, strained, reopened, faults, stalls>>

(* Mutant of Assigned: only batches that were marked as triggered count.   *)
AssignedRunning(b) == UNION {owned[c] : c \in {c \in Batches \ {b} : status[c] = "running"}}
Assigned(b) == UNION {owned[c] : c \in {c \in Batches \ {b} : Active(status[c])}}

(* _reserve_batch, under the advisory lock; an empty batch is over.        *)
Reserve(b) ==
    LET free == {d \in Docs : Open(d)} \ Assigned(b)
    IN  /\ call[b] = "created" /\ Hatchet
        /\ owned' = [owned EXCEPT ![b] = free]
        /\ refresh' = IF free # {} /\ free \subseteq access THEN refresh \union {b} ELSE refresh
        /\ Written(b, IF free = {} THEN "completed" ELSE "queued")
        /\ Calling(b, IF free = {} THEN "none" ELSE "reserved")
        /\ UNCHANGED <<provider, known, ledger, engine, sweep, history>>

(* One workflow per document: the stages, or the refresh of permissions    *)
(* when that is all that is open in the whole batch.                       *)
FirstStage(b) == IF b \in refresh THEN N ELSE 1
Scheduled(b) ==
    [task EXCEPT ![b] = [d \in Docs |->
        IF d \in owned[b] THEN [NoTask EXCEPT !.phase = "due", !.stage = FirstStage(b)]
        ELSE NoTask]]

Trigger(b) ==
    /\ call[b] = "reserved"
    /\ task' = Scheduled(b)
    /\ Calling(b, "accepted")
    /\ UNCHANGED <<provider, row, ledger, gone, sweep, history>>

(* trigger_insertion raises: before Hatchet has the workflows, or after,   *)
(* when the answer is lost or the row cannot be marked.                    *)
TriggerRaises(b) ==
    /\ \/ call[b] \in {"created", "reserved"} /\ Fault /\ Calm /\ UNCHANGED task
       \/ call[b] = "reserved" /\ Stall /\ UNCHANGED faults /\ task' = Scheduled(b)
       \/ call[b] = "accepted" /\ Stall /\ UNCHANGED <<faults, task>>
    /\ Hatchet
    /\ Calling(b, "failing")
    /\ UNCHANGED <<provider, row, ledger, gone, sweep, overtaken, reopened>>

(* _mark_batch_triggered, whatever the tasks have written by then.         *)
Mark(b) ==
    /\ call[b] = "accepted"
    /\ Written(b, "running")
    /\ overtaken' = IF status[b] = "completed" THEN overtaken \union {b} ELSE overtaken
    /\ Calling(b, "marked")
    /\ UNCHANGED <<provider, owned, refresh, known, ledger, engine, sweep, strained, reopened,
                   faults, stalls>>

RecordProvider(b) ==
    /\ call[b] = "marked"
    /\ known' = [known EXCEPT ![b] = TRUE]
    /\ Written(b, status[b])
    /\ Calling(b, "none")
    /\ UNCHANGED <<provider, owned, refresh, ledger, engine, sweep, history>>

FailRun(b) ==
    /\ call[b] = "failing"
    /\ Written(b, "failed")
    /\ Calling(b, "none")
    /\ UNCHANGED <<provider, owned, refresh, known, ledger, engine, sweep, history>>

CallerDies(b) ==
    /\ call[b] # "none" /\ Fault
    /\ Calling(b, "none")
    /\ UNCHANGED <<provider, row, ledger, engine, sweep, overtaken, strained, reopened, stalls>>

(* The local orchestrator: the caller drains every document there is, in   *)
(* its own process, and owns none of them.                                 *)
LocalStart(b) ==
    /\ call[b] = "created" /\ ~Hatchet
    /\ Written(b, "running")
    /\ Calling(b, "draining")
    /\ UNCHANGED <<provider, owned, refresh, known, ledger, engine, sweep, history>>

LocalStep(b, d) ==
    /\ call[b] = "draining" /\ Open(d) /\ d \notin held
    /\ at' = [at EXCEPT ![d] = @ + 1]
    /\ access' = access \ {d}
    /\ UNCHANGED <<provider, row, call, held, engine, sweep, history>>

LocalDone(b) ==
    /\ call[b] = "draining" /\ \A d \in Docs : Open(d) => d \in held
    /\ Written(b, "completed")
    /\ Calling(b, "none")
    /\ UNCHANGED <<provider, owned, refresh, known, ledger, engine, sweep, history>>

LocalFails(b) ==
    /\ call[b] = "draining" /\ Fault
    /\ Calling(b, "failing")
    /\ UNCHANGED <<provider, row, ledger, engine, sweep, overtaken, strained, reopened, stalls>>

(***************************************************************************)
(* The tasks of a document's workflow                                      *)
(***************************************************************************)
(* A final task that succeeded asks whether it is the last of its batch.   *)
Ended(t, ok) == [t EXCEPT !.phase = IF ok /\ t.stage = N THEN "asking" ELSE "refreshing",
                          !.ok = ok]

(* run_stage_for_object claims the row of the task's stage.  A row that is *)
(* settled, or parked behind a stage that was put back, is not the task's  *)
(* to wait for; one that another attempt has claimed is.                   *)
Claims(b, d) ==
    LET t == task[b][d]
    IN  /\ t.phase = "due"
        /\ IF at[d] = t.stage /\ d \notin held
           THEN /\ task' = [task EXCEPT ![b][d].phase = "working"]
                /\ held' = held \union {d}
           ELSE /\ task' = [task EXCEPT ![b][d] = Ended(@, at[d] # t.stage)]
                /\ UNCHANGED held
        /\ UNCHANGED <<provider, row, call, at, access, gone, sweep,
                       history>>

(* The stage is done, declined, or quarantines the document for good.      *)
Derives(b, d) ==
    /\ task[b][d].phase = "working"
    /\ \E next \in {at[d] + 1, N + 1} : at' = [at EXCEPT ![d] = next]
    /\ held' = held \ {d}
    /\ access' = access \ {d}
    /\ task' = [task EXCEPT ![b][d] = Ended(@, TRUE)]
    /\ UNCHANGED <<provider, row, call, gone, sweep, history>>

(* A failure that is not the document's last leaves the row due again.     *)
Fails(b, d) ==
    /\ task[b][d].phase = "working" /\ Fault
    /\ held' = held \ {d}
    /\ access' = access \ {d}
    /\ task' = [task EXCEPT ![b][d] = Ended(@, FALSE)]
    /\ UNCHANGED <<provider, row, call, at, gone, sweep,
                   overtaken, strained, reopened, stalls>>

(* The final task that finds nothing left to do waits for the lock.        *)
(* Mutant of LastOne: no task does.                                        *)
LastOneNever(b, d) == FALSE
LastOne(b, d) ==
    \A e \in owned[b] : ~Open(e)

Asks(b, d) ==
    /\ task[b][d].phase = "asking"
    /\ task' = [task EXCEPT ![b][d].phase = "refreshing", ![b][d].forced = LastOne(b, d)]
    /\ UNCHANGED <<provider, row, call, ledger, gone, sweep, history>>

(* Somebody else is refreshing the row and may hold the lock.              *)
Contended(b, d) ==
    \/ \E e \in Docs \ {d} : task[b][e].phase = "refreshing"
    \/ \E s \in Sweepers : sweep[s].phase = "picked" /\ sweep[s].batch = b

(* _refresh_batch_progress: a completed batch is not made incomplete       *)
(* again; a failed one is made whatever its documents say.                  *)
Progress(b) ==
    IF \A d \in owned[b] : ~Open(d) THEN "completed"
    ELSE IF status[b] = "completed" THEN "completed" ELSE "running"

(* What follows the refresh: the next stage, a retry, or the end.          *)
Followed(t, final) ==
    CASE t.ok /\ t.stage = final -> [NoTask EXCEPT !.phase = "over"]
      [] t.ok /\ t.stage # final -> [NoTask EXCEPT !.phase = "due", !.stage = t.stage + 1]
      [] ~t.ok /\ t.tries < Retries ->
            [NoTask EXCEPT !.phase = "due", !.stage = t.stage, !.tries = t.tries + 1]
      [] OTHER -> [NoTask EXCEPT !.phase = "over"]

Refreshes(b, d) ==
    /\ task[b][d].phase = "refreshing"
    /\ Written(b, Progress(b))
    /\ task' = [task EXCEPT ![b][d] = Followed(@, N)]
    /\ UNCHANGED <<provider, owned, refresh, known, call, ledger, gone, sweep, history>>

Skips(b, d) ==
    /\ task[b][d].phase = "refreshing" /\ ~task[b][d].forced /\ Contended(b, d)
    /\ task' = [task EXCEPT ![b][d] = Followed(@, N)]
    /\ UNCHANGED <<provider, row, call, ledger, gone, sweep, history>>

(* The worker dies: Hatchet gives the task to another, as a retry.         *)
WorkerDies(b, d) ==
    /\ task[b][d].phase \in {"working", "asking", "refreshing"} /\ Fault
    /\ task' = [task EXCEPT ![b][d] = Followed([task[b][d] EXCEPT !.ok = FALSE], N)]
    /\ UNCHANGED <<provider, row, call, ledger, gone, sweep, overtaken, strained, reopened, stalls>>

ExpireClaim(d) ==
    /\ d \in held /\ \A b \in Batches : task[b][d].phase # "working"
    /\ held' = held \ {d}
    /\ access' = access \ {d}
    /\ UNCHANGED <<provider, row, call, at, engine, sweep, history>>

(* A sync, a version bump or an operator puts a document's work back; new  *)
(* permissions open the index of a settled one.                            *)
Reopen(d, s) ==
    /\ d \notin held /\ reopened < MaxReopened /\ s <= at[d]
    /\ at' = [at EXCEPT ![d] = s]
    /\ \/ access' = access \ {d}
       \/ s = N /\ ~Open(d) /\ access' = access \union {d}
    /\ reopened' = reopened + 1
    /\ UNCHANGED <<provider, row, call, held, engine, sweep, overtaken,
                   strained, faults, stalls>>

(* Hatchet loses the workflows of a batch.                                 *)
EngineForgets(b) ==
    /\ \E d \in Docs : task[b][d].phase = "due"
    /\ \A d \in Docs : task[b][d].phase \in {"none", "over", "due"}
    /\ Fault
    /\ task' = [task EXCEPT ![b] = [d \in Docs |-> NoTask]]
    /\ gone' = gone \union {b}
    /\ UNCHANGED <<provider, row, call, ledger, sweep, overtaken, strained, reopened, stalls>>

(***************************************************************************)
(* Sweeping                                                                *)
(***************************************************************************)
Live(b) == call[b] # "none" \/ \E d \in Docs : ~Over(task[b][d])

Sweeping(s, phase) ==
    sweep' = [sweep EXCEPT ![s] = IF phase = "resting" THEN Resting
                                  ELSE [@ EXCEPT !.phase = phase]]

(* The snapshot of sweep_stranded_runs and the look at the status that     *)
(* follows it.  Fifteen minutes may pass between any two writes; live work *)
(* is as slow as the longest task may be only in a stall.                  *)
Pick(s, b, idle) ==
    /\ sweep[s].phase = "resting" /\ Active(status[b])
    /\ IF idle = "abandoned" /\ Live(b) THEN Stall ELSE Calm
    /\ sweep' = [sweep EXCEPT ![s] =
           [phase |-> IF owned[b] = {} THEN "judging" ELSE "picked", batch |-> b, idle |-> idle]]
    /\ UNCHANGED <<provider, row, call, ledger, engine, overtaken, reopened, faults>>

(* The aggregation of the pipeline, over a status read before.             *)
Reconcile(s) ==
    LET b == sweep[s].batch
    IN  /\ sweep[s].phase = "picked"
        /\ \/ Written(b, Progress(b))
           \/ /\ \E d \in Docs : task[b][d].phase = "refreshing"
              /\ \E d \in owned[b] : Open(d)
              /\ UNCHANGED status
        /\ Sweeping(s, IF status'[b] = "completed" THEN "resting" ELSE "judging")
        /\ UNCHANGED <<provider, owned, refresh, known, call, ledger, engine, history>>

(* Asked about the first workflow of the batch, Hatchet may know it to be  *)
(* at work or have no record of it: the rest is unknown.                   *)
Verdicts(b) ==
    {"unknown"} \union
        (IF Hatchet /\ known[b] /\ b \in gone THEN {"gone"} ELSE {})
        \union
        (IF Hatchet /\ known[b] /\ \E d \in owned[b] : ~Over(task[b][d])
         THEN {"alive"} ELSE {})

(* Mutant of Dead: no silence is enough.                                   *)
DeadIfProven(verdict, idle) == verdict = "gone"
Dead(verdict, idle) == verdict = "gone" \/ (verdict = "unknown" /\ idle = "abandoned")

Judge(s) ==
    LET b == sweep[s].batch
    IN  /\ sweep[s].phase = "judging"
        /\ \E verdict \in Verdicts(b) :
              IF Dead(verdict, sweep[s].idle) /\ Active(status[b])
              THEN Written(b, "failed") ELSE UNCHANGED status
        /\ Sweeping(s, "resting")
        /\ UNCHANGED <<provider, owned, refresh, known, call, ledger, engine, history>>

CallStep(b) ==
    \/ Reserve(b) \/ Trigger(b) \/ Mark(b) \/ RecordProvider(b) \/ FailRun(b)
    \/ LocalStart(b) \/ (\E d \in Docs : LocalStep(b, d)) \/ LocalDone(b)
TaskStep(b, d) ==
    Claims(b, d) \/ Derives(b, d) \/ Asks(b, d) \/ Refreshes(b, d) \/ Skips(b, d)
SweepStep(s) == Reconcile(s) \/ Judge(s)

Next ==
    \/ \E b \in Batches :
          \/ Create(b) \/ CallStep(b) \/ TriggerRaises(b) \/ CallerDies(b) \/ LocalFails(b)
          \/ EngineForgets(b)
          \/ \E d \in Docs : TaskStep(b, d) \/ Fails(b, d) \/ WorkerDies(b, d)
    \/ \E d \in Docs : ExpireClaim(d) \/ \E s \in 1 .. N : Reopen(d, s)
    \/ \E s \in Sweepers : SweepStep(s)
          \/ \E b \in Batches, idle \in {"silent", "abandoned"} : Pick(s, b, idle)

Spec == Init /\ [][Next]_vars

(* Callers go on and live workers serve every lane; the timers of the       *)
(* Hatchet worker expire claims and sweep again and again, however long     *)
(* nothing happens (hatchet.py:626-628).  Without that worker neither has   *)
(* a timer, and nothing promises that anybody opens the console.            *)
FairSpec ==
    /\ Spec
    /\ \A b \in Batches :
          /\ WF_vars(CallStep(b))
          /\ \A d \in Docs : WF_vars(TaskStep(b, d))
    /\ \A d \in Docs : WF_vars(Hatchet /\ ExpireClaim(d))
    /\ \A s \in Sweepers : WF_vars(Hatchet /\ SweepStep(s))
    /\ \A b \in Batches :
          SF_vars(Hatchet /\ ~Live(b) /\ \E s \in Sweepers : Pick(s, b, "abandoned"))

(***************************************************************************)
(* Properties                                                              *)
(***************************************************************************)
Tasks == [phase : {"none", "due", "working", "asking", "refreshing", "over"},
          stage : 1 .. N, tries : 0 .. Retries, ok : BOOLEAN, forced : BOOLEAN]
Calls == {"none", "created", "reserved", "accepted", "marked", "failing", "draining"}

TypeOK ==
    /\ status \in [Batches -> {"none", "queued", "running", "completed", "failed"}]
    /\ provider \in Providers
    /\ owned \in [Batches -> SUBSET Docs]
    /\ refresh \subseteq Batches
    /\ known \in [Batches -> BOOLEAN]
    /\ call \in [Batches -> Calls]
    /\ at \in [Docs -> 1 .. N + 1]
    /\ held \subseteq Docs /\ access \subseteq Docs
    /\ task \in [Batches -> [Docs -> Tasks]]
    /\ gone \subseteq Batches
    /\ sweep \in [Sweepers -> [phase : {"resting", "picked", "judging"},
                               batch : Batches \union {NoBatch}, idle : {"silent", "abandoned"}]]
    /\ overtaken \subseteq Batches /\ strained \in BOOLEAN
    /\ reopened \in 0 .. MaxReopened /\ faults \in 0 .. MaxFaults /\ stalls \in 0 .. MaxStalls

(* hatchet.py:803 `without starting a second Hatchet DAG for the same      *)
(* documents': no two unfinished batches drive one document, unless live   *)
(* work was believed dead or a batch was marked over its completion.  A    *)
(* sweeper may revive the row of a batch that has just failed, over        *)
(* documents the next one owns, but nothing drives them for it.            *)
Driven(b, d) == Active(status[b]) /\ b \notin overtaken /\ ~Over(task[b][d])
UnstrainedDrivenOnce ==
    ~strained => \A d \in Docs, b, c \in Batches : Driven(b, d) /\ Driven(c, d) => b = c

(* hatchet.py:930 the last document's final task takes the lock normally:  *)
(* when no task of the batch is left and its documents are settled, the    *)
(* row says completed, whoever else was refreshing it at that moment, if   *)
(* nothing failed, no work was put back, no live work was believed dead    *)
(* and the row was not marked as triggered over its completion.            *)
LastTaskCompletes ==
    [][\A b \in Batches :
          /\ \E d \in Docs : task[b][d].phase = "refreshing" /\ task'[b][d].phase = "over"
          /\ \A d \in Docs : Over(task'[b][d])
          /\ \A d \in owned[b] : ~Open(d)
          /\ faults' = 0 /\ reopened = 0 /\ ~strained /\ b \notin overtaken
          => status'[b] = "completed"]_vars

(* Unfinished, with nobody behind it and no timer to find that out.        *)
Stranded(b) == ~Hatchet /\ Active(status[b]) /\ ~Live(b)

(* No batch is unfinished for ever, whoever dies and at whichever step;    *)
(* under the local orchestrator one whose process died is, until a visit   *)
(* to the console sweeps it (hatchet.py:688).                              *)
BatchesEnd == \A b \in Batches : Active(status[b]) ~> ~Active(status[b]) \/ Stranded(b)

=============================================================================
