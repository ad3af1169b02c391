------------------------------ MODULE SyncRuns ------------------------------
(***************************************************************************)
(* The sync runs of one source: who may start one, what executes it, and  *)
(* who declares it dead.  A click, the scheduler, the watcher and provider *)
(* events all reserve a run (sync/runs.py); a thread pool or a Hatchet     *)
(* worker scans and hands off; the sweeper fails the runs it believes      *)
(* nobody advances.  Each of them writes the run row in transactions of    *)
(* its own.                                                                *)
(*                                                                         *)
(* The provider is a counter of changes.  A scan reads it once, and what   *)
(* it read becomes the source's cursor when its session commits.           *)
(***************************************************************************)
EXTENDS Integers

CONSTANTS
    Runs,           \* rows of pipeline_runs; an ended one is used again
    Providers,      \* orchestrators an installation may run
    Retries,        \* retries of the handoff task
    MaxChanges,     \* bound: changes at the provider
    MaxFaults,      \* bound: errors, dead processes, engine outages
    MaxStalls       \* bound: live work that its watchers believe dead

ASSUME ProviderAssumption == Providers \subseteq {"local", "hatchet"}
ASSUME BoundAssumption ==
    Retries \in Nat /\ MaxChanges \in Nat /\ MaxFaults \in Nat /\ MaxStalls \in Nat

VARIABLES
    status,     \* pipeline_runs.status
    provider,   \* orchestrator_provider of the installation, on every row
    known,      \* provider_run_id is recorded
    quiet,      \* how long ago the row was written
    news,       \* counters: the scan found work
    job,        \* what executes the run, and how far it is
    found,      \* what the executing scan has read, and not yet published
    engine,     \* Hatchet's own record of the workflow
    call,       \* the enqueuing process, between reservation and answer
    tries,      \* retries of the handoff spent
    doomed,     \* runs a sweep has judged dead and not yet failed
    tip,        \* the provider's latest change
    event,      \* a notification not delivered yet: the change it is about
    cursor,     \* what the source has committed
    read,       \* history: what the scan of each run read
    strained,   \* history: live work was believed dead
    faults, stalls

row == <<status, known, quiet, news>>
world == <<tip, event, cursor>>
vars == <<provider, row, job, found, engine, call, tries, doomed, world, read,
          strained, faults, stalls>>

Hatchet == provider = "hatchet"
Active(s) == s \in {"queued", "running"}
Busy(j) == j \in {"queued", "admitted", "scanning", "drained", "scanned"}
Scanning(r) == job[r] \in {"scanning", "drained"}
Changes == 0 .. MaxChanges

Init ==
    /\ status = [r \in Runs |-> "none"]
    /\ provider \in Providers
    /\ known = [r \in Runs |-> FALSE]
    /\ quiet = [r \in Runs |-> "recent"]
    /\ news = [r \in Runs |-> FALSE]
    /\ job = [r \in Runs |-> "none"]
    /\ found = [r \in Runs |-> FALSE]
    /\ engine = [r \in Runs |-> "none"]
    /\ call = [r \in Runs |-> "none"]
    /\ tries = [r \in Runs |-> 0]
    /\ doomed = {}
    /\ tip = 0 /\ event = 0 /\ cursor = 0
    /\ read = [r \in Runs |-> 0]
    /\ strained = FALSE /\ faults = 0 /\ stalls = 0

Fault == faults < MaxFaults /\ faults' = faults + 1
Stall == stalls < MaxStalls /\ stalls' = stalls + 1 /\ strained' = TRUE
Calm == UNCHANGED <<strained, stalls>>

(* Any write to the row moves updated_at.                                  *)
Written(r, s) ==
    /\ status' = [status EXCEPT ![r] = s]
    /\ quiet' = [quiet EXCEPT ![r] = "recent"]

(* The execution of r is over, as far as Hatchet knows too.                *)
Over(r) ==
    /\ job' = [job EXCEPT ![r] = "none"]
    /\ engine' = [engine EXCEPT ![r] = IF @ = "alive" THEN "ended" ELSE @]

(***************************************************************************)
(* Reserving and dispatching                                               *)
(***************************************************************************)

(* Mutants of Clashes: no index; the run's own row counts.                 *)
ClashesNever(r) == FALSE
ClashesItself(r) == \E q \in Runs : Active(status[q])

(* uq_pipeline_runs_active_sync: another run of the source is unfinished.  *)
Clashes(r) == \E q \in Runs \ {r} : Active(status[q])

(* _reserve_run and, on the local orchestrator, the pool's queue.          *)
Reserve(r) ==
    /\ ~Active(status[r]) /\ job[r] = "none" /\ call[r] = "none" /\ r \notin doomed
    /\ ~\E q \in Runs : Active(status[q])
    /\ Written(r, "queued")
    /\ IF Hatchet
       THEN call' = [call EXCEPT ![r] = "triggering"] /\ UNCHANGED job
       ELSE job' = [job EXCEPT ![r] = "queued"] /\ UNCHANGED call
    /\ known' = [known EXCEPT ![r] = FALSE]
    /\ news' = [news EXCEPT ![r] = FALSE]
    /\ found' = [found EXCEPT ![r] = FALSE]
    /\ engine' = [engine EXCEPT ![r] = "none"]
    /\ tries' = [tries EXCEPT ![r] = 0]
    /\ read' = [read EXCEPT ![r] = 0]
    /\ UNCHANGED <<provider, doomed, tip, cursor>>

(* The scheduler's tick, a click, the watcher.                             *)
Enqueue(r) == Reserve(r) /\ Calm /\ UNCHANGED <<event, faults>>

Change ==
    /\ tip < MaxChanges
    /\ tip' = tip + 1 /\ event' = tip + 1
    /\ UNCHANGED <<provider, row, job, found, engine, call, tries, doomed, cursor, read, strained, faults, stalls>>

(* handle_notifications: a sync, or one in flight that counts as it.       *)
EventStarts(r) ==
    /\ event # 0 /\ event' = 0
    /\ Reserve(r) /\ Calm /\ UNCHANGED faults

EventCoalesced(r) ==
    /\ event # 0 /\ event' = 0
    /\ Active(status[r])
    /\ UNCHANGED <<provider, row, job, found, engine, call, tries, doomed, tip, cursor, read,
                   strained, faults, stalls>>

Trigger(r) ==
    /\ call[r] = "triggering"
    /\ call' = [call EXCEPT ![r] = "recording"]
    /\ job' = [job EXCEPT ![r] = "queued"]
    /\ engine' = [engine EXCEPT ![r] = "alive"]
    /\ UNCHANGED <<provider, row, found, tries, doomed, world, read, strained, faults, stalls>>

(* The trigger raises: refused, or accepted with the answer lost.          *)
TriggerRaises(r) ==
    /\ call[r] = "triggering"
    /\ call' = [call EXCEPT ![r] = "failing"]
    /\ \/ Fault /\ Calm /\ UNCHANGED <<job, engine>>
       \/ /\ Stall /\ UNCHANGED faults
          /\ job' = [job EXCEPT ![r] = "queued"]
          /\ engine' = [engine EXCEPT ![r] = "alive"]
    /\ UNCHANGED <<provider, row, found, tries, doomed, world, read>>

FailDispatch(r) ==
    /\ call[r] = "failing"
    /\ call' = [call EXCEPT ![r] = "none"]
    /\ Written(r, "failed")
    /\ UNCHANGED <<provider, known, news, job, found, engine, tries, doomed, world,
                   read, strained, faults, stalls>>

RecordProvider(r) ==
    /\ call[r] = "recording"
    /\ call' = [call EXCEPT ![r] = "none"]
    /\ known' = [known EXCEPT ![r] = TRUE]
    /\ Written(r, status[r])
    /\ UNCHANGED <<provider, news, job, found, engine, tries, doomed, world, read, strained, faults, stalls>>

CallerDies(r) ==
    /\ call[r] # "none" /\ Fault
    /\ call' = [call EXCEPT ![r] = "none"]
    /\ UNCHANGED <<provider, row, job, found, engine, tries, doomed, world, read,
                   strained, stalls>>

(***************************************************************************)
(* Scanning and handing off                                                *)
(***************************************************************************)

(* run_scan reads the status in one statement and writes it in another.    *)
Admit(r) ==
    /\ job[r] = "queued"
    /\ IF Active(status[r])
       THEN job' = [job EXCEPT ![r] = "admitted"] /\ UNCHANGED engine
       ELSE Over(r)
    /\ UNCHANGED <<provider, row, found, call, tries, doomed, world, read, strained,
                   faults, stalls>>

StartScan(r) ==
    /\ job[r] = "admitted"
    /\ IF Clashes(r)
       THEN Over(r) /\ UNCHANGED <<status, quiet>>
       ELSE /\ Written(r, "running")
            /\ job' = [job EXCEPT ![r] = "scanning"]
            /\ UNCHANGED engine
    /\ UNCHANGED <<provider, known, news, found, call, tries, doomed, world, read, strained, faults, stalls>>

(* The observation count, published on a connection of its own.            *)
Publish(r) ==
    /\ Scanning(r) /\ quiet[r] # "recent"
    /\ Written(r, status[r])
    /\ UNCHANGED <<provider, known, news, job, found, engine, call, tries, doomed,
                   world, read, strained, faults, stalls>>

Drain(r) ==
    /\ job[r] = "scanning"
    /\ job' = [job EXCEPT ![r] = "drained"]
    /\ read' = [read EXCEPT ![r] = tip]
    /\ UNCHANGED <<provider, row, found, engine, call, tries, doomed, world, strained,
                   faults, stalls>>

CommitScan(r) ==
    /\ job[r] = "drained"
    /\ job' = [job EXCEPT ![r] = "scanned"]
    /\ cursor' = read[r]
    /\ found' = [found EXCEPT ![r] = (read[r] # cursor)]
    /\ UNCHANGED <<provider, row, engine, call, tries, doomed, tip, event, read,
                   strained, faults, stalls>>

(* The counters and the step, in a transaction after the scan's; Hatchet   *)
(* starts the handoff only of a workflow it has not given up.              *)
FinishScan(r) ==
    /\ job[r] = "scanned"
    /\ Written(r, status[r])
    /\ news' = [news EXCEPT ![r] = found[r]]
    /\ job' = [job EXCEPT ![r] =
           IF ~Hatchet \/ engine[r] = "alive" THEN "due" ELSE "none"]
    /\ UNCHANGED <<provider, known, found, engine, call, tries, doomed, world, read, strained, faults, stalls>>

ScanFails(r) ==
    /\ Scanning(r) /\ Fault
    /\ Written(r, "failed")
    /\ Over(r)
    /\ UNCHANGED <<provider, known, news, found, call, tries, doomed, world, read, strained, stalls>>

Complete(r) ==
    /\ Written(r, "completed")
    /\ Over(r)
    /\ UNCHANGED <<provider, known, news, found, call, tries, doomed, world, read, strained, faults, stalls>>

(* run_handoff: nothing to insert, or an insertion run is launched.        *)
Handoff(r) == job[r] = "due" /\ ~news[r] /\ Complete(r)
Launch(r) ==
    /\ job[r] = "due" /\ news[r]
    /\ job' = [job EXCEPT ![r] = "launching"]
    /\ UNCHANGED <<provider, row, found, engine, call, tries, doomed, world, read,
                   strained, faults, stalls>>
Launched(r) == job[r] = "launching" /\ Complete(r)

(* Hatchet retries a handoff; the pool does not.                           *)
CanRetry(r) == Hatchet /\ engine[r] = "alive" /\ tries[r] < Retries
Retried(r) ==
    IF CanRetry(r)
    THEN /\ job' = [job EXCEPT ![r] = "due"]
         /\ tries' = [tries EXCEPT ![r] = @ + 1]
         /\ UNCHANGED engine
    ELSE Over(r) /\ UNCHANGED tries

LaunchFails(r) ==
    /\ job[r] = "launching" /\ Fault
    /\ Written(r, "failed")
    /\ Retried(r)
    /\ UNCHANGED <<provider, known, news, found, call, doomed, world, read,
                   strained, stalls>>

(* The process dies, or an exception leaves the row alone, such as a       *)
(* commit that fails: nobody runs a scan again.                            *)
WorkerDies(r) ==
    /\ job[r] # "none" /\ Fault
    /\ IF job[r] \in {"due", "launching"} THEN Retried(r) ELSE Over(r) /\ UNCHANGED tries
    /\ UNCHANGED <<provider, row, found, call, doomed, world, read, strained, stalls>>

(* Hatchet loses its records: what has not started never will.             *)
EngineForgets(r) ==
    /\ engine[r] = "alive" /\ job[r] \in {"queued", "due"} /\ Fault
    /\ engine' = [engine EXCEPT ![r] = "gone"]
    /\ job' = [job EXCEPT ![r] = "none"]
    /\ UNCHANGED <<provider, row, found, call, tries, doomed, world, read, strained, stalls>>

(* Hatchet's execution timeout ends the workflow, and not the thread.      *)
TimesOut(r) ==
    /\ engine[r] = "alive" /\ job[r] \in {"scanning", "drained", "scanned"}
    /\ Stall
    /\ engine' = [engine EXCEPT ![r] = "ended"]
    /\ UNCHANGED <<provider, row, job, found, call, tries, doomed, world, read, faults>>

(***************************************************************************)
(* The sweeper                                                             *)
(***************************************************************************)
Idle(r) == job[r] = "none" /\ call[r] = "none"

(* KI_RUN_SILENT_MINUTES without a write to the row.                       *)
FallSilent(r) ==
    /\ Active(status[r]) /\ quiet[r] = "recent"
    /\ quiet' = [quiet EXCEPT ![r] = "silent"]
    /\ UNCHANGED <<provider, status, known, news, job, found, engine, call, tries,
                   doomed, world, read, strained, faults, stalls>>

(* KI_RUN_ABANDONED_HOURS: live work is that slow only in a stall.         *)
FallAbandoned(r) ==
    /\ Active(status[r]) /\ quiet[r] = "silent"
    /\ quiet' = [quiet EXCEPT ![r] = "abandoned"]
    /\ IF Idle(r) THEN Calm ELSE Stall
    /\ UNCHANGED <<provider, status, known, news, job, found, engine, call, tries,
                   doomed, world, read, faults>>

(* The verdicts of the probe; an engine out of reach is unknown.           *)
Verdicts(r) ==
    {"unknown"} \union
        IF Hatchet /\ known[r] /\ engine[r] # "none" THEN {engine[r]} ELSE {}

(* Mutants of Dead: fifteen minutes of silence are enough; silence is      *)
(* never enough.                                                           *)
DeadIfSilent(r, verdict) == verdict # "alive"
DeadIfProven(r, verdict) == verdict \in {"gone", "ended"}
Dead(r, verdict) ==
    \/ verdict \in {"gone", "ended"}
    \/ verdict = "unknown" /\ quiet[r] = "abandoned"

Judge(r) ==
    /\ Active(status[r]) /\ quiet[r] # "recent" /\ r \notin doomed
    /\ \E verdict \in Verdicts(r) : Dead(r, verdict)
    /\ doomed' = doomed \union {r}
    /\ UNCHANGED <<provider, row, job, found, engine, call, tries, world, read, strained,
                   faults, stalls>>

(* _fail looks at the status again, and at nothing else.                   *)
Sweep(r) ==
    /\ r \in doomed
    /\ doomed' = doomed \ {r}
    /\ IF Active(status[r]) THEN Written(r, "failed") ELSE UNCHANGED <<status, quiet>>
    /\ UNCHANGED <<provider, known, news, job, found, engine, call, tries, world,
                   read, strained, faults, stalls>>

Step(r) ==
    \/ Trigger(r) \/ FailDispatch(r) \/ RecordProvider(r)
    \/ Admit(r) \/ StartScan(r) \/ Drain(r) \/ CommitScan(r) \/ FinishScan(r)
    \/ Handoff(r) \/ Launch(r) \/ Launched(r)

Next ==
    \/ Change
    \/ \E r \in Runs :
          \/ Step(r)
          \/ Enqueue(r) \/ EventStarts(r) \/ EventCoalesced(r)
          \/ TriggerRaises(r) \/ CallerDies(r)
          \/ Publish(r) \/ ScanFails(r) \/ LaunchFails(r)
          \/ WorkerDies(r) \/ EngineForgets(r) \/ TimesOut(r)
          \/ FallSilent(r) \/ FallAbandoned(r) \/ Judge(r) \/ Sweep(r)

Spec == Init /\ [][Next]_vars

(* What executes goes on, the scheduler of the app process ticks, and time *)
(* passes for a run that nothing writes.  The sweeper has a timer in the   *)
(* Hatchet worker only (hatchet.py:685-711); without that worker it looks  *)
(* when somebody has the console open, which nothing promises.             *)
FairSpec ==
    /\ Spec
    /\ WF_vars(\E r \in Runs : Enqueue(r))
    /\ \A r \in Runs :
          /\ WF_vars(Step(r))
          /\ WF_vars(Hatchet /\ Judge(r)) /\ WF_vars(Hatchet /\ Sweep(r))
          /\ WF_vars(FallSilent(r)) /\ WF_vars(Idle(r) /\ FallAbandoned(r))

(***************************************************************************)
(* Properties                                                              *)
(***************************************************************************)
Jobs == {"none", "queued", "admitted", "scanning", "drained", "scanned", "due", "launching"}

TypeOK ==
    /\ status \in [Runs -> {"none", "queued", "running", "completed", "failed"}]
    /\ provider \in Providers
    /\ known \in [Runs -> BOOLEAN]
    /\ quiet \in [Runs -> {"recent", "silent", "abandoned"}]
    /\ news \in [Runs -> BOOLEAN] /\ found \in [Runs -> BOOLEAN]
    /\ job \in [Runs -> Jobs]
    /\ engine \in [Runs -> {"none", "alive", "ended", "gone"}]
    /\ call \in [Runs -> {"none", "triggering", "recording", "failing"}]
    /\ tries \in [Runs -> 0 .. Retries]
    /\ ~Hatchet => \A r \in Runs : tries[r] = 0
    /\ doomed \subseteq Runs
    /\ tip \in Changes /\ event \in Changes /\ cursor \in Changes
    /\ read \in [Runs -> Changes]
    /\ strained \in BOOLEAN /\ faults \in 0 .. MaxFaults /\ stalls \in 0 .. MaxStalls

(* The promise of uq_pipeline_runs_active_sync and of the reservation: the *)
(* source has at most one unfinished run, although a scan that was         *)
(* admitted may write `running' over a verdict of the sweeper or of its    *)
(* dispatcher while the next run is being reserved.                        *)
OneActiveRun ==
    \A q, r \in Runs : Active(status[q]) /\ Active(status[r]) => q = r

(* What the index is for (db/models.py:997): two scans never interleave    *)
(* their tombstones and observations, as long as live work is not believed *)
(* dead (silent for seven hours, timed out by Hatchet with its thread      *)
(* going on, or triggered with the answer lost).                           *)
UnstrainedScansAlone ==
    ~strained => \A q, r \in Runs : Scanning(q) /\ Scanning(r) => q = r

(* Unfinished, with nobody behind it and no timer to find that out.        *)
Stranded(r) == ~Hatchet /\ Active(status[r]) /\ Idle(r)

(* No run blocks its source for ever, whoever dies and at whichever step;  *)
(* under the local orchestrator one whose process died does, until a visit *)
(* to the console sweeps it (hatchet.py:688 says so).                      *)
RunsEnd == \A r \in Runs : Active(status[r]) ~> ~Active(status[r]) \/ Stranded(r)

(* Every change at the provider comes to be in what the source committed,  *)
(* unless a stranded run holds the source.                                 *)
ChangesReachSource == <>[](cursor = tip \/ \E r \in Runs : Stranded(r))

(***************************************************************************)
(* The rows are a lease of the source (module SourceLease): what the       *)
(* advisory lock, the index, the second look of run_scan and the sweeper's *)
(* thresholds are for, taken together.                                     *)
(***************************************************************************)
Holders == {r \in Runs : Active(status[r])}
Inside == {r \in Runs : Scanning(r)}
Lease == INSTANCE SourceLease WITH holders <- Holders, inside <- Inside, expired <- strained

(* db/models.py:996 `at most one unfinished sync per source': every step   *)
(* of the dispatcher, the workers, the engine and the sweeper is a step of *)
(* the lease, or none of its business.                                     *)
KeepsLease == Lease!Spec
=============================================================================
