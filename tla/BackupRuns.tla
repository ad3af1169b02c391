----------------------------- MODULE BackupRuns -----------------------------
(***************************************************************************)
(* Backups and restores of the whole appliance.  Both are rows of the run  *)
(* ledger, and the ledger is the first component a backup captures and a   *)
(* restore puts back: every archive holds a copy of its own run, unfinished.*)
(*                                                                         *)
(* A run is reserved under an advisory lock, handed to an orchestrator and *)
(* executed once.  A backup holds a staging directory while it captures,   *)
(* names it on its row for exactly that long, writes the manifest last,    *)
(* verifies and prunes.  A restore stages and verifies, then puts back one *)
(* component after the other.  The probe of the sweeper and its thresholds *)
(* are the subject of SyncRuns: here a sweep is its outcome.               *)
(***************************************************************************)
EXTENDS Integers, FiniteSets

CONSTANTS
    Runs,           \* ids in the order of the clock that named them
    K,              \* components; the ledger is the first
    MinKeep,        \* backup.retention.min_keep
    Lossy,          \* bound: runs whose trigger may lose its answer
    MaxFaults,      \* bound: errors, deaths and lost answers
    MaxStalls       \* bound: live runs declared dead by a sweep

ASSUME RunsAssumption == Runs \subseteq Nat \ {0} /\ IsFiniteSet(Runs)
ASSUME ComponentsAssumption == K \in Nat \ {0}
ASSUME BoundAssumption ==
    MinKeep \in Nat \ {0} /\ Lossy \subseteq Runs /\ MaxFaults \in Nat /\ MaxStalls \in Nat

VARIABLES
    rows,       \* pipeline_runs; dir: the counter staging_dir is set
    exec,       \* the dispatch and the execution of each run
    parts,      \* components of each backup at the destination
    listed,     \* what its manifest lists; {}: it has none
    copy,       \* the ledger inside the backup
    unanswered, \* accepted triggers whose caller believes them refused
    staging,    \* staging directories on the disk
    mixed,      \* history: a backup was reserved while a restore was in flight
    damaged,    \* history: backups that lost components at the destination
    strained,   \* history: a live run was declared dead: swept, or its
                \* trigger accepted with the answer lost
    faults, stalls

store == <<parts, listed, copy>>
history == <<mixed, damaged, strained, faults, stalls>>
vars == <<rows, exec, unanswered, store, staging, history>>

Ledger == 1
Components == 1 .. K
NoRow == [kind |-> "none", status |-> "none", dir |-> FALSE]
NoRows == [r \in Runs |-> NoRow]
Idle == [phase |-> "new", done |-> 0, ok |-> TRUE, of |-> 0, doomed |-> {}]

Active(row) == row.status \in {"queued", "running"}
Offered(b) == listed[b] # {}
Whole(b) == Offered(b) /\ listed[b] \subseteq parts[b]
Live(r) == exec[r].phase \notin {"new", "over"}
(* Between prepare_staging and clear_staging.                              *)
Capturing(r) == exec[r].phase \in {"claiming", "capturing", "returning", "clearing"}
Applying(r) == exec[r].phase = "applying"

Init ==
    /\ rows = NoRows
    /\ exec = [r \in Runs |-> Idle]
    /\ parts = [r \in Runs |-> {}] /\ listed = [r \in Runs |-> {}]
    /\ copy = [r \in Runs |-> NoRows]
    /\ staging = {} /\ unanswered = {}
    /\ mixed = FALSE /\ damaged = {} /\ strained = FALSE
    /\ faults = 0 /\ stalls = 0

Fault == faults < MaxFaults /\ faults' = faults + 1
Stall == stalls < MaxStalls /\ stalls' = stalls + 1 /\ strained' = TRUE
Phase(r, p) == exec' = [exec EXCEPT ![r].phase = p]
(* The writers of the outcome look for the row, not at its status.         *)
Written(r, s) ==
    rows' = [rows EXCEPT ![r] = IF @.kind = "none" THEN @ ELSE [@ EXCEPT !.status = s]]
Named(r, held) ==
    rows' = [rows EXCEPT ![r] = IF @.kind = "none" THEN @ ELSE [@ EXCEPT !.dir = held]]

(***************************************************************************)
(* Reservation and dispatch                                                *)
(***************************************************************************)
(* release_restored_runs: an unfinished backup that names a directory this *)
(* disk does not have.                                                     *)
(* Mutant of Releasable: the disk is not looked at.                        *)
ReleasableUnseen(g) == rows[g].kind = "backup" /\ Active(rows[g]) /\ rows[g].dir
Releasable(g) ==
    rows[g].kind = "backup" /\ Active(rows[g]) /\ rows[g].dir /\ g \notin staging

Released == [g \in Runs |-> IF Releasable(g) THEN [rows[g] EXCEPT !.status = "failed"] ELSE rows[g]]

Reserved(r, kind) ==
    rows' = [Released EXCEPT ![r] = [kind |-> kind, status |-> "queued", dir |-> FALSE]]

(* What the reservation of a backup does not look for.                     *)
InFlight(q) == (rows[q].kind = "restore" /\ Active(rows[q])) \/ (Live(q) /\ exec[q].of # 0)

ReserveBackup(r) ==
    /\ exec[r].phase = "new"
    /\ \A a \in Runs : ~(Active(Released[a]) /\ Released[a].kind = "backup")
    /\ Reserved(r, "backup")
    /\ Phase(r, "reserved")
    /\ mixed' = (mixed \/ \E q \in Runs : InFlight(q))
    /\ UNCHANGED <<unanswered, store, staging, damaged, strained, faults, stalls>>

ReserveRestore(r, b) ==
    /\ exec[r].phase = "new" /\ Offered(b)
    /\ \A a \in Runs : ~Active(Released[a])
    /\ Reserved(r, "restore")
    /\ exec' = [exec EXCEPT ![r] = [Idle EXCEPT !.phase = "reserved", !.of = b]]
    /\ UNCHANGED <<unanswered, store, staging, history>>

(* The workflow's id, recorded next, tells only the sweeper's probe.       *)
Trigger(r) ==
    /\ exec[r].phase = "reserved"
    /\ Phase(r, "due")
    /\ UNCHANGED <<unanswered, rows, store, staging, history>>

(* Hatchet accepts the trigger and the answer is lost: the workflow runs,  *)
(* and the caller closes its row.  One that dies first has triggered it.   *)
TriggerLost(r) ==
    /\ exec[r].phase = "reserved" /\ r \in Lossy /\ Fault
    /\ Phase(r, "due")
    /\ unanswered' = unanswered \union {r}
    /\ strained' = TRUE
    /\ UNCHANGED <<rows, store, staging, mixed, damaged, stalls>>

FailDispatch(r) ==
    /\ r \in unanswered
    /\ Written(r, "failed")
    /\ unanswered' = unanswered \ {r}
    /\ UNCHANGED <<exec, store, staging, history>>

Start(r) ==
    /\ exec[r].phase = "due"
    /\ IF Active(rows[r])
       THEN Written(r, "running") /\ Phase(r, IF exec[r].of = 0 THEN "preparing" ELSE "staging")
       ELSE Phase(r, "over") /\ UNCHANGED rows
    /\ UNCHANGED <<unanswered, store, staging, history>>

(***************************************************************************)
(* A backup                                                                *)
(***************************************************************************)
Prepare(r) ==
    /\ exec[r].phase = "preparing"
    /\ staging' = staging \union {r}
    /\ Phase(r, "claiming")
    /\ UNCHANGED <<unanswered, rows, store, history>>

(* Mutant of Claim: the row does not name the directory.                   *)
ClaimNot(r) ==
    /\ exec[r].phase = "claiming"
    /\ Phase(r, "capturing")
    /\ UNCHANGED <<unanswered, rows, store, staging, history>>
Claim(r) ==
    /\ exec[r].phase = "claiming"
    /\ Named(r, TRUE)
    /\ Phase(r, "capturing")
    /\ UNCHANGED <<unanswered, store, staging, history>>

(* One component dumped, transferred and unlinked; all but the databases   *)
(* may be skipped with a warning.                                          *)
(* Mutant of Capture: there is always one more.                            *)
CapturePast(r) ==
    LET c == exec[r].done + 1
    IN  /\ exec[r].phase = "capturing"
        /\ exec' = [exec EXCEPT ![r].done = c]
        /\ \/ parts' = [parts EXCEPT ![r] = @ \union {c}]
           \/ c # Ledger /\ UNCHANGED parts
        /\ copy' = IF c = Ledger THEN [copy EXCEPT ![r] = rows] ELSE copy
        /\ UNCHANGED <<unanswered, rows, listed, staging, history>>
Capture(r) ==
    LET c == exec[r].done + 1
    IN  /\ exec[r].phase = "capturing" /\ exec[r].done < K
        /\ exec' = [exec EXCEPT ![r].done = c]
        /\ \/ parts' = [parts EXCEPT ![r] = @ \union {c}]
           \/ c # Ledger /\ UNCHANGED parts
        /\ copy' = IF c = Ledger THEN [copy EXCEPT ![r] = rows] ELSE copy
        /\ UNCHANGED <<unanswered, rows, listed, staging, history>>

Captured(r) ==
    /\ exec[r].phase = "capturing" /\ exec[r].done = K
    /\ Phase(r, "returning")
    /\ UNCHANGED <<unanswered, rows, store, staging, history>>

(* The finally block: given back, then cleared.                            *)
(* Mutant of GiveBack: the row goes on naming the directory.               *)
GiveBackNot(r) ==
    /\ exec[r].phase = "returning"
    /\ Phase(r, "clearing")
    /\ UNCHANGED <<unanswered, rows, store, staging, history>>
GiveBack(r) ==
    /\ exec[r].phase = "returning"
    /\ Named(r, FALSE)
    /\ Phase(r, "clearing")
    /\ UNCHANGED <<unanswered, store, staging, history>>

GiveBackRaises(r) ==
    /\ exec[r].phase = "returning" /\ Fault
    /\ exec' = [exec EXCEPT ![r].phase = "clearing", ![r].ok = FALSE]
    /\ UNCHANGED <<unanswered, rows, store, staging, mixed, damaged, strained, stalls>>

Clear(r) ==
    /\ exec[r].phase = "clearing"
    /\ staging' = staging \ {r}
    /\ Phase(r, IF exec[r].ok THEN "describing" ELSE "failing")
    /\ UNCHANGED <<unanswered, rows, store, history>>

WriteManifest(r) ==
    /\ exec[r].phase = "describing"
    /\ listed' = [listed EXCEPT ![r] = parts[r]]
    /\ Phase(r, "verifying")
    /\ UNCHANGED <<unanswered, rows, parts, copy, staging, history>>

Verify(r) ==
    /\ exec[r].phase = "verifying"
    /\ Phase(r, IF Whole(r) THEN "listing" ELSE "failing")
    /\ UNCHANGED <<unanswered, rows, store, staging, history>>

(* Whatever has a directory at the destination is a backup to the          *)
(* retention rules, complete or not.                                       *)
Present == {b \in Runs : parts[b] # {} \/ Offered(b)}
(* plan_retention keeps the newest, and some of the others by its ladder   *)
(* of days, weeks, months and years: any set of them.                      *)
Newest(S) == {b \in S : Cardinality({a \in S : a > b}) < MinKeep}
(* Mutant of Prunable: the backup just written has no privilege.           *)
PrunableAll(r, kept) == Present \ kept
Prunable(r, kept) == Present \ (kept \union {r})

List(r) ==
    /\ exec[r].phase = "listing"
    /\ \E kept \in SUBSET Present :
          /\ Newest(Present) \subseteq kept
          /\ exec' = [exec EXCEPT ![r].phase = "pruning", ![r].doomed = Prunable(r, kept)]
    /\ UNCHANGED <<unanswered, rows, store, staging, history>>

(* The files of a backup go one by one, in no order.                       *)
Delete(r, b) ==
    /\ exec[r].phase = "pruning" /\ b \in exec[r].doomed
    /\ \/ \E c \in parts[b] : parts' = [parts EXCEPT ![b] = @ \ {c}] /\ UNCHANGED listed
       \/ Offered(b) /\ listed' = [listed EXCEPT ![b] = {}] /\ UNCHANGED parts
    /\ copy' = [copy EXCEPT ![b] = IF Ledger \in parts'[b] THEN @ ELSE NoRows]
    /\ UNCHANGED <<unanswered, rows, exec, staging, history>>

(* The last file of a backup is gone, or the destination refuses.          *)
Deleted(r, b) ==
    /\ exec[r].phase = "pruning" /\ b \in exec[r].doomed
    /\ IF b \in Present THEN Fault ELSE UNCHANGED faults
    /\ exec' = [exec EXCEPT ![r].doomed = @ \ {b}]
    /\ UNCHANGED <<unanswered, rows, store, staging, mixed, damaged, strained, stalls>>

Complete(r) ==
    /\ exec[r].phase = "pruning" /\ exec[r].doomed = {}
    /\ Written(r, "completed")
    /\ Phase(r, "over")
    /\ UNCHANGED <<unanswered, store, staging, history>>

(***************************************************************************)
(* A restore                                                               *)
(***************************************************************************)
(* Nothing is put back unless every component came and matched; a drill    *)
(* puts nothing back.                                                      *)
Stage(r) ==
    /\ exec[r].phase = "staging"
    /\ IF Whole(exec[r].of)
       THEN \E next \in {"applying", "recording"} : Phase(r, next)
       ELSE Phase(r, "failing")
    /\ UNCHANGED <<unanswered, rows, store, staging, history>>

(* Only the stores that were asked for.                                    *)
Apply(r) ==
    LET c == exec[r].done + 1
    IN  /\ exec[r].phase = "applying"
        /\ exec' = [exec EXCEPT ![r].done = c, ![r].phase = IF c = K THEN "recording" ELSE @]
        /\ \/ c = Ledger /\ rows' = copy[exec[r].of]
           \/ UNCHANGED rows
        /\ UNCHANGED <<unanswered, store, staging, history>>

(* Services restarted, the run is closed, or written anew into the ledger  *)
(* that it has put back.                                                   *)
Record(r) ==
    /\ exec[r].phase = "recording"
    /\ rows' = [rows EXCEPT ![r] = [kind |-> "restore", status |-> "completed", dir |-> @.dir]]
    /\ Phase(r, "over")
    /\ UNCHANGED <<unanswered, store, staging, history>>

(***************************************************************************)
(* Failures                                                                *)
(***************************************************************************)
(* Any step may raise, a trigger that Hatchet refuses among them; while    *)
(* capturing, the directory is given back first, and before the directory  *)
(* is claimed it stays where it is.                                        *)
Raises(r) ==
    /\ exec[r].phase \in {"reserved", "preparing", "claiming", "capturing", "describing",
                          "verifying", "listing", "pruning", "staging", "applying"}
    /\ Fault
    /\ exec' = [exec EXCEPT ![r].phase = IF @ = "capturing" THEN "returning" ELSE "failing",
                            ![r].ok = FALSE]
    /\ UNCHANGED <<unanswered, rows, store, staging, mixed, damaged, strained, stalls>>

FailRun(r) ==
    /\ exec[r].phase = "failing"
    /\ Written(r, "failed")
    /\ Phase(r, "over")
    /\ UNCHANGED <<unanswered, store, staging, history>>

(* There are no retries.                                                   *)
Dies(r) ==
    /\ Live(r) /\ Fault
    /\ Phase(r, "over")
    /\ UNCHANGED <<unanswered, rows, store, staging, mixed, damaged, strained, stalls>>

(* A disk, or a second copy, loses a component.                            *)
Lose(b) ==
    /\ Fault
    /\ \E c \in parts[b] : parts' = [parts EXCEPT ![b] = @ \ {c}]
    /\ damaged' = damaged \union {b}
    /\ UNCHANGED <<unanswered, rows, exec, listed, copy, staging, mixed, strained, stalls>>

(* Mutant of Stranded: only what the orchestrator has a record of.         *)
StrandedHere(r) == Active(rows[r]) /\ exec[r].phase # "over"
Stranded(r) == Active(rows[r])

Sweep(r) ==
    /\ Stranded(r)
    /\ IF Live(r) THEN Stall ELSE UNCHANGED <<strained, stalls>>
    /\ Written(r, "failed")
    /\ UNCHANGED <<unanswered, exec, store, staging, mixed, damaged, faults>>

Step(r) ==
    \/ Trigger(r) \/ FailDispatch(r) \/ Start(r)
    \/ Prepare(r) \/ Claim(r) \/ Capture(r) \/ Captured(r) \/ GiveBack(r) \/ Clear(r)
    \/ WriteManifest(r) \/ Verify(r) \/ List(r) \/ Complete(r)
    \/ (\E b \in Runs : Delete(r, b) \/ Deleted(r, b))
    \/ Stage(r) \/ Apply(r) \/ Record(r) \/ FailRun(r)

Next ==
    \E r \in Runs :
        \/ ReserveBackup(r) \/ (\E b \in Runs : ReserveRestore(r, b))
        \/ Step(r) \/ TriggerLost(r) \/ GiveBackRaises(r) \/ Raises(r) \/ Dies(r) \/ Lose(r) \/ Sweep(r)

Spec == Init /\ [][Next]_vars

(* A run in hand goes on and the sweeper comes round: the timer of the     *)
(* Hatchet worker does, and under the local orchestrator, which has none,  *)
(* somebody who looks at the console.                                      *)
FairSpec == Spec /\ \A r \in Runs : WF_vars(Step(r)) /\ WF_vars(~Live(r) /\ Sweep(r))

(***************************************************************************)
(* Properties                                                              *)
(***************************************************************************)
Rows == [kind : {"none", "backup", "restore"},
         status : {"none", "queued", "running", "completed", "failed"}, dir : BOOLEAN]
Phases == {"new", "reserved", "due", "preparing", "claiming", "capturing", "returning",
           "clearing", "describing", "verifying", "listing", "pruning", "staging", "applying",
           "recording", "failing", "over"}

Execs == [phase : Phases, done : 0 .. K, ok : BOOLEAN, of : Runs \union {0}, doomed : SUBSET Runs]

TypeOK ==
    /\ rows \in [Runs -> Rows]
    /\ exec \in [Runs -> Execs]
    /\ parts \in [Runs -> SUBSET Components] /\ listed \in [Runs -> SUBSET Components]
    /\ copy \in [Runs -> [Runs -> Rows]]
    /\ unanswered \subseteq Runs /\ staging \subseteq Runs
    /\ mixed \in BOOLEAN /\ damaged \subseteq Runs /\ strained \in BOOLEAN
    /\ faults \in 0 .. MaxFaults /\ stalls \in 0 .. MaxStalls

(* No live run was declared dead - by a sweep (backup/runs.py:307), or by  *)
(* the caller whose trigger was accepted but not answered (:280) - and no  *)
(* backup was reserved beside a restore.                                   *)
Undisturbed == ~strained /\ ~mixed

(* backup/runs.py:230 two backups contending for one staging directory and *)
(* one snapshot repository is what the one-at-a-time rule prevents, also   *)
(* after the ledger that holds the reservation was put back by a restore.  *)
UndisturbedCapturesAlone ==
    Undisturbed => \A r, s \in Runs : Capturing(r) /\ Capturing(s) => r = s

(* backup/runs.py:220 the only unfinished run that an archive holds is its *)
(* own, and that one names its directory: what a restore puts back can be  *)
(* released by the next reservation. Two reservations get past the rule    *)
(* that this rests on, both named by Undisturbed: one beside a restore,    *)
(* and one after a run at work was declared dead, by a sweep or by its own *)
(* caller when the answer to an accepted trigger was lost. Its archive may *)
(* then hold the queued row of the other backup, which names no directory. *)
UndisturbedCopies ==
    Undisturbed => \A b \in Runs : Offered(b) =>
        \A g \in Runs : Active(copy[b][g]) => g = b /\ copy[b][g].dir

(* backup/runs.py:470 a reservation never fails a run that is at work: not *)
(* while it captures and not after it has given its directory back; only   *)
(* one that could not write that it did is about to fail anyway.           *)
LiveNotReleased ==
    [][\A r \in Runs :
          /\ Undisturbed' /\ Live(r) /\ exec[r].ok /\ exec'[r] = exec[r]
          /\ Active(rows[r]) /\ rows'[r].kind # "none"
          => Active(rows'[r])]_vars

(* docs/product/backup.md: a run is marked completed only when every step  *)
(* succeeded: its backup is then offered and whole, whatever was pruned    *)
(* and whichever way the clock went.                                       *)
CompletedIsWhole ==
    [][\A r \in Runs :
          /\ exec[r].phase = "pruning" /\ exec'[r].phase = "over"
          /\ rows'[r].status = "completed" /\ Undisturbed /\ r \notin damaged
          => Whole(r)]_vars

(* No run blocks the appliance for ever, whoever dies, and whichever       *)
(* ledger is put back: again and again nothing is unfinished, and a run of *)
(* either kind can be reserved.                                            *)
RunsEnd == []<>(\A r \in Runs : ~Active(rows[r]))

=============================================================================
