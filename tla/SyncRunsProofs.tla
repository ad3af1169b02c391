--------------------------- MODULE SyncRunsProofs ---------------------------
(* Theorems about SyncRuns, for any number of run rows, either             *)
(* orchestrator and any bounds.                                            *)
EXTENDS SyncRuns, TLAPS

USE DEF row, world, Changes, Jobs, Hatchet

LEMMA StepTyped == TypeOK /\ [Next]_vars => TypeOK'
<1> SUFFICES ASSUME TypeOK, [Next]_vars PROVE TypeOK'
  OBVIOUS
<1> USE BoundAssumption, ProviderAssumption
<1>1. CASE Change
  BY <1>1 DEF TypeOK, Change
<1>2. ASSUME NEW r \in Runs, Enqueue(r) PROVE TypeOK'
  BY <1>2 DEF TypeOK, Enqueue, Reserve, Written, Calm
<1>3. ASSUME NEW r \in Runs, EventStarts(r) PROVE TypeOK'
  BY <1>3 DEF TypeOK, EventStarts, Reserve, Written, Calm
<1>4. ASSUME NEW r \in Runs, EventCoalesced(r) PROVE TypeOK'
  BY <1>4 DEF TypeOK, EventCoalesced
<1>5. ASSUME NEW r \in Runs, Trigger(r) PROVE TypeOK'
  BY <1>5 DEF TypeOK, Trigger
<1>6. ASSUME NEW r \in Runs, TriggerRaises(r) PROVE TypeOK'
  <2>1. /\ strained' \in BOOLEAN
        /\ stalls' = stalls \/ (stalls < MaxStalls /\ stalls' = stalls + 1)
        /\ faults' = faults \/ (faults < MaxFaults /\ faults' = faults + 1)
    BY <1>6 DEF TypeOK, TriggerRaises, Fault, Stall, Calm
  <2> QED
    BY <1>6, <2>1 DEF TypeOK, TriggerRaises
<1>7. ASSUME NEW r \in Runs, FailDispatch(r) PROVE TypeOK'
  BY <1>7 DEF TypeOK, FailDispatch, Written
<1>8. ASSUME NEW r \in Runs, RecordProvider(r) PROVE TypeOK'
  BY <1>8 DEF TypeOK, RecordProvider, Written
<1>9. ASSUME NEW r \in Runs, CallerDies(r) PROVE TypeOK'
  BY <1>9 DEF TypeOK, CallerDies, Fault
<1>10. ASSUME NEW r \in Runs, Admit(r) PROVE TypeOK'
  BY <1>10 DEF TypeOK, Admit, Over
<1>11. ASSUME NEW r \in Runs, StartScan(r) PROVE TypeOK'
  BY <1>11 DEF TypeOK, StartScan, Over, Written
<1>12. ASSUME NEW r \in Runs, Publish(r) PROVE TypeOK'
  BY <1>12 DEF TypeOK, Publish, Written
<1>13. ASSUME NEW r \in Runs, Drain(r) PROVE TypeOK'
  BY <1>13 DEF TypeOK, Drain
<1>14. ASSUME NEW r \in Runs, CommitScan(r) PROVE TypeOK'
  BY <1>14 DEF TypeOK, CommitScan
<1>15. ASSUME NEW r \in Runs, FinishScan(r) PROVE TypeOK'
  BY <1>15 DEF TypeOK, FinishScan, Written
<1>16. ASSUME NEW r \in Runs, ScanFails(r) PROVE TypeOK'
  BY <1>16 DEF TypeOK, ScanFails, Fault, Written, Over
<1>17. ASSUME NEW r \in Runs, Complete(r) PROVE TypeOK'
  BY <1>17 DEF TypeOK, Complete, Written, Over
<1>18. ASSUME NEW r \in Runs, Launch(r) PROVE TypeOK'
  BY <1>18 DEF TypeOK, Launch
<1>19. ASSUME NEW r \in Runs, LaunchFails(r) PROVE TypeOK'
  BY <1>19 DEF TypeOK, LaunchFails, Fault, Written, Retried, CanRetry, Over
<1>20. ASSUME NEW r \in Runs, WorkerDies(r) PROVE TypeOK'
  BY <1>20 DEF TypeOK, WorkerDies, Fault, Retried, CanRetry, Over
<1>21. ASSUME NEW r \in Runs, EngineForgets(r) PROVE TypeOK'
  BY <1>21 DEF TypeOK, EngineForgets, Fault
<1>22. ASSUME NEW r \in Runs, TimesOut(r) PROVE TypeOK'
  BY <1>22 DEF TypeOK, TimesOut, Stall
<1>23. ASSUME NEW r \in Runs, FallSilent(r) PROVE TypeOK'
  BY <1>23 DEF TypeOK, FallSilent
<1>24. ASSUME NEW r \in Runs, FallAbandoned(r) PROVE TypeOK'
  <2>1. /\ strained' \in BOOLEAN
        /\ stalls' = stalls \/ (stalls < MaxStalls /\ stalls' = stalls + 1)
    BY <1>24 DEF TypeOK, FallAbandoned, Calm, Stall
  <2> QED
    BY <1>24, <2>1 DEF TypeOK, FallAbandoned
<1>25. ASSUME NEW r \in Runs, Judge(r) PROVE TypeOK'
  BY <1>25 DEF TypeOK, Judge
<1>26. ASSUME NEW r \in Runs, Sweep(r) PROVE TypeOK'
  BY <1>26 DEF TypeOK, Sweep, Written
<1>27. CASE UNCHANGED vars
  BY <1>27 DEF TypeOK, vars
<1> QED
  BY <1>1, <1>2, <1>3, <1>4, <1>5, <1>6, <1>7, <1>8, <1>9, <1>10, <1>11, <1>12,
     <1>13, <1>14, <1>15, <1>16, <1>17, <1>18, <1>19, <1>20, <1>21, <1>22, <1>23,
     <1>24, <1>25, <1>26, <1>27 DEF Next, Step, Handoff, Launched

(* The rows, executions and bounds of the sync runs keep their types.      *)
THEOREM TypeCorrect == Spec => []TypeOK
<1>1. Init => TypeOK
  <2>1. Init => strained \in BOOLEAN
    BY DEF Init
  <2> QED
    BY <2>1, BoundAssumption DEF Init, TypeOK
<1> QED
  BY <1>1, StepTyped, PTL DEF Spec

(***************************************************************************)
(* At most one unfinished run.  Only a reservation and an admitted scan    *)
(* make a row active, and both see the others.                             *)
(***************************************************************************)
LEMMA OthersInactive ==
    ASSUME TypeOK, OneActiveRun, NEW r \in Runs,
           \A q \in Runs \ {r} : status'[q] = status[q] /\ ~Active(status[q])
    PROVE  OneActiveRun'
  BY DEF OneActiveRun

LEMMA NoNewActive ==
    ASSUME OneActiveRun, \A q \in Runs : Active(status'[q]) => Active(status[q])
    PROVE  OneActiveRun'
  BY DEF OneActiveRun

LEMMA WrittenStatus ==
    ASSUME TypeOK, NEW r \in Runs, NEW s, Written(r, s)
    PROVE  \A q \in Runs : status'[q] = IF q = r THEN s ELSE status[q]
  BY DEF TypeOK, Written

LEMMA StepOneActive == TypeOK /\ OneActiveRun /\ [Next]_vars => OneActiveRun'
<1> SUFFICES ASSUME TypeOK, OneActiveRun, [Next]_vars PROVE OneActiveRun'
  OBVIOUS
<1>1. ASSUME status' = status PROVE OneActiveRun'
  BY <1>1 DEF OneActiveRun
<1>2. ASSUME NEW r \in Runs, Reserve(r) PROVE OneActiveRun'
  BY <1>2, WrittenStatus, OthersInactive DEF Reserve
<1>3. ASSUME NEW r \in Runs, StartScan(r) PROVE OneActiveRun'
  <2>1. CASE Clashes(r)
    BY <1>1, <1>3, <2>1 DEF StartScan
  <2>2. CASE ~Clashes(r)
    BY <1>3, <2>2, WrittenStatus, OthersInactive DEF StartScan, Clashes
  <2> QED
    BY <2>1, <2>2
<1>4. ASSUME NEW r \in Runs, NEW s \in {"completed", "failed", status[r]}, Written(r, s)
      PROVE  OneActiveRun'
  <2>1. \A q \in Runs : Active(status'[q]) => Active(status[q])
    BY <1>4, WrittenStatus DEF Active
  <2> QED
    BY <2>1, NoNewActive
<1>5. ASSUME NEW r \in Runs,
             \/ FailDispatch(r) \/ RecordProvider(r) \/ Publish(r) \/ FinishScan(r)
             \/ ScanFails(r) \/ Complete(r) \/ LaunchFails(r)
      PROVE  OneActiveRun'
  BY <1>4, <1>5 DEF FailDispatch, RecordProvider, Publish, FinishScan, ScanFails,
                    Complete, LaunchFails
<1>6. ASSUME NEW r \in Runs, Sweep(r) PROVE OneActiveRun'
  BY <1>1, <1>4, <1>6 DEF Sweep
<1>7. ASSUME NEW r \in Runs,
             \/ EventCoalesced(r) \/ Trigger(r) \/ TriggerRaises(r) \/ CallerDies(r)
             \/ Admit(r) \/ Drain(r) \/ CommitScan(r) \/ Launch(r)
             \/ WorkerDies(r) \/ EngineForgets(r) \/ TimesOut(r)
             \/ FallSilent(r) \/ FallAbandoned(r) \/ Judge(r)
      PROVE  OneActiveRun'
  BY <1>1, <1>7 DEF EventCoalesced, Trigger, TriggerRaises, CallerDies, Admit, Drain,
                    CommitScan, Launch, WorkerDies, EngineForgets, TimesOut, FallSilent,
                    FallAbandoned, Judge
<1>8. CASE Change \/ UNCHANGED vars
  BY <1>1, <1>8 DEF Change, vars
<1> QED
  BY <1>2, <1>3, <1>5, <1>6, <1>7, <1>8
     DEF Next, Step, Enqueue, EventStarts, Handoff, Launched

(* uq_pipeline_runs_active_sync: at most one unfinished run, whoever       *)
(* writes the rows and in whatever order.                                  *)
THEOREM AtMostOneRun == Spec => []OneActiveRun
<1>1. Init => OneActiveRun
  BY DEF Init, OneActiveRun, Active
<1>2. Spec => []TypeOK
  BY TypeCorrect
<1> QED
  BY <1>1, <1>2, StepOneActive, PTL DEF Spec

(***************************************************************************)
(* One scan at a time.  While no live work was believed dead, what works   *)
(* on a run finds its row unfinished, because the sweeper's grounds - a    *)
(* workflow Hatchet ended, a row abandoned for hours - hold only of runs   *)
(* nobody works on, and a reservation waits until every row is finished.   *)
(***************************************************************************)
Sound(r) ==
    /\ Busy(job[r]) \/ call[r] = "triggering" => Active(status[r])
    /\ call[r] \in {"triggering", "failing"} => job[r] = "none"
    /\ known[r] => call[r] = "none"
    /\ engine[r] \in {"ended", "gone"} => job[r] = "none"
    /\ Active(status[r]) /\ (quiet[r] = "abandoned" \/ r \in doomed) => Idle(r)

Honest == ~strained => \A r \in Runs : Sound(r)

(* What a step on one run does to the others.                              *)
LEMMA OthersSound ==
    ASSUME Honest, NEW r \in Runs, ~strained' => ~strained,
           \A q \in Runs \ {r} :
               /\ status'[q] = status[q] /\ known'[q] = known[q] /\ quiet'[q] = quiet[q]
               /\ job'[q] = job[q] /\ engine'[q] = engine[q] /\ call'[q] = call[q]
               /\ (q \in doomed' <=> q \in doomed),
           ~strained' => Sound(r)'
    PROVE  Honest'
  BY DEF Honest, Sound, Idle

LEMMA StepHonest == TypeOK /\ Honest /\ [Next]_vars => Honest'
<1> SUFFICES ASSUME TypeOK, Honest, [Next]_vars PROVE Honest'
  OBVIOUS
<1> USE DEF Sound, Idle, Busy, Active, Scanning
<1>1. ASSUME NEW r \in Runs, Reserve(r) /\ UNCHANGED strained PROVE Honest'
  BY <1>1, OthersSound DEF TypeOK, Honest, Reserve, Written
<1>2. ASSUME NEW r \in Runs, EventCoalesced(r) PROVE Honest'
  BY <1>2, OthersSound DEF TypeOK, Honest, EventCoalesced
<1>3. ASSUME NEW r \in Runs, Trigger(r) PROVE Honest'
  BY <1>3, OthersSound DEF TypeOK, Honest, Trigger
<1>4. ASSUME NEW r \in Runs, TriggerRaises(r) PROVE Honest'
  BY <1>4, OthersSound DEF TypeOK, Honest, TriggerRaises, Stall, Calm, Fault
<1>5. ASSUME NEW r \in Runs, FailDispatch(r) PROVE Honest'
  BY <1>5, OthersSound DEF TypeOK, Honest, FailDispatch, Written
<1>6. ASSUME NEW r \in Runs, RecordProvider(r) PROVE Honest'
  BY <1>6, OthersSound DEF TypeOK, Honest, RecordProvider, Written
<1>7. ASSUME NEW r \in Runs, CallerDies(r) PROVE Honest'
  BY <1>7, OthersSound DEF TypeOK, Honest, CallerDies
<1>8. ASSUME NEW r \in Runs, Admit(r) PROVE Honest'
  BY <1>8, OthersSound DEF TypeOK, Honest, Admit, Over
<1>9. ASSUME NEW r \in Runs, StartScan(r) PROVE Honest'
  BY <1>9, OthersSound DEF TypeOK, Honest, StartScan, Over, Written
<1>10. ASSUME NEW r \in Runs, Publish(r) PROVE Honest'
  BY <1>10, OthersSound DEF TypeOK, Honest, Publish, Written
<1>11. ASSUME NEW r \in Runs, Drain(r) PROVE Honest'
  BY <1>11, OthersSound DEF TypeOK, Honest, Drain
<1>12. ASSUME NEW r \in Runs, CommitScan(r) PROVE Honest'
  BY <1>12, OthersSound DEF TypeOK, Honest, CommitScan
<1>13. ASSUME NEW r \in Runs, FinishScan(r) PROVE Honest'
  BY <1>13, OthersSound DEF TypeOK, Honest, FinishScan, Written
<1>14. ASSUME NEW r \in Runs, ScanFails(r) PROVE Honest'
  BY <1>14, OthersSound DEF TypeOK, Honest, ScanFails, Written, Over
<1>15. ASSUME NEW r \in Runs, job[r] \in {"due", "launching"}, Complete(r) PROVE Honest'
  BY <1>15, OthersSound DEF TypeOK, Honest, Complete, Written, Over
<1>16. ASSUME NEW r \in Runs, Launch(r) PROVE Honest'
  BY <1>16, OthersSound DEF TypeOK, Honest, Launch
<1>17. ASSUME NEW r \in Runs, LaunchFails(r) PROVE Honest'
  BY <1>17, OthersSound DEF TypeOK, Honest, LaunchFails, Written, Retried, CanRetry, Over
<1>18. ASSUME NEW r \in Runs, WorkerDies(r) PROVE Honest'
  BY <1>18, OthersSound DEF TypeOK, Honest, WorkerDies, Retried, CanRetry, Over
<1>19. ASSUME NEW r \in Runs, EngineForgets(r) PROVE Honest'
  BY <1>19, OthersSound DEF TypeOK, Honest, EngineForgets
<1>20. ASSUME NEW r \in Runs, TimesOut(r) PROVE Honest'
  BY <1>20, OthersSound DEF TypeOK, Honest, TimesOut, Stall
<1>21. ASSUME NEW r \in Runs, FallSilent(r) PROVE Honest'
  BY <1>21, OthersSound DEF TypeOK, Honest, FallSilent
<1>22. ASSUME NEW r \in Runs, FallAbandoned(r) PROVE Honest'
  BY <1>22, OthersSound DEF TypeOK, Honest, FallAbandoned, Stall, Calm, Idle
<1>23. ASSUME NEW r \in Runs, Judge(r) PROVE Honest'
  BY <1>23, OthersSound DEF TypeOK, Honest, Judge, Dead, Verdicts
<1>24. ASSUME NEW r \in Runs, Sweep(r) PROVE Honest'
  BY <1>24, OthersSound DEF TypeOK, Honest, Sweep, Written
<1>25. CASE Change
  BY <1>25 DEF Honest, Change
<1>26. CASE UNCHANGED vars
  BY <1>26 DEF Honest, vars
<1> QED
  BY <1>1, <1>2, <1>3, <1>4, <1>5, <1>6, <1>7, <1>8, <1>9, <1>10, <1>11, <1>12,
     <1>13, <1>14, <1>15, <1>16, <1>17, <1>18, <1>19, <1>20, <1>21, <1>22, <1>23, <1>24, <1>25, <1>26
     DEF Next, Step, Enqueue, EventStarts, Calm, Handoff, Launched

(* Two scans of the source never interleave unless live work was believed  *)
(* dead: the reservation, the second look of run_scan at its row and the   *)
(* sweeper's thresholds suffice, whatever dies or is lost in between.      *)
THEOREM ScansAlone == Spec => []UnstrainedScansAlone
<1>1. Init => OneActiveRun /\ Honest
  BY DEF Init, OneActiveRun, Honest, Sound, Active, Busy, Idle
<1>2. Honest /\ OneActiveRun => UnstrainedScansAlone
  BY DEF Honest, Sound, OneActiveRun, UnstrainedScansAlone, Scanning, Busy
<1>3. Spec => []TypeOK
  BY TypeCorrect
<1> QED
  BY <1>1, <1>2, <1>3, StepOneActive, StepHonest, PTL DEF Spec

(***************************************************************************)
(* The lease.  A step concerns one run; what it may do to the lease is     *)
(* fixed by the invariants on both sides of it, except that a run may not  *)
(* come inside without having held the lease before.                       *)
(***************************************************************************)
LeaseNext == [Lease!Next]_(Lease!lease)

LEMMA LeaseStep ==
    ASSUME TypeOK, OneActiveRun, OneActiveRun', Honest, Honest', UNCHANGED strained,
           NEW r \in Runs,
           \A q \in Runs \ {r} : status'[q] = status[q] /\ job'[q] = job[q],
           ~strained /\ Scanning(r)' => Active(status[r])
    PROVE  LeaseNext
<1> DEFINE a == Active(status[r])
           b == Active(status'[r])
<1> USE DEF Holders, Inside, Scanning
<1>1. \A q \in Runs \ {r} : Active(status'[q]) = Active(status[q]) /\ Scanning(q)' = Scanning(q)
  OBVIOUS
<1>2. CASE Holders' = Holders /\ Inside' = Inside
  BY <1>2 DEF LeaseNext, Lease!lease
<1>3. a /\ ~b => Holders' = Holders \ {r}
  BY <1>1
<1>4. ~a /\ b => Holders = {} /\ Holders' = {r}
  BY <1>1 DEF OneActiveRun
<1>5. (a <=> b) => Holders' = Holders
  BY <1>1
<1>6. CASE strained
  <2>1. Holders' \subseteq Holders \/ (Holders = {} /\ Holders' = {r})
    BY <1>3, <1>4, <1>5
  <2>2. Inside' \in SUBSET Runs
    OBVIOUS
  <2> QED
    BY <1>6, <2>1, <2>2 DEF LeaseNext, Lease!Next, Lease!Overrun
<1>7. CASE ~strained
  <2>1. (Scanning(r) => a) /\ (Scanning(r)' => a /\ b)
    BY <1>7 DEF Honest, Sound, Busy
  <2>2. Inside \subseteq Holders
    BY <1>7 DEF Honest, Sound, Busy
  <2>3. Scanning(r)' = Scanning(r) => Inside' = Inside
    BY <1>1
  <2>4. Scanning(r) /\ ~Scanning(r)' => Inside' = Inside \ {r}
    BY <1>1
  <2>5. ~Scanning(r) /\ Scanning(r)' => Inside' = Inside \union {r}
    BY <1>1
  <2>6. CASE ~a /\ b
    <3>1. Inside = {} /\ Inside' = Inside
      BY <1>4, <2>1, <2>2, <2>3, <2>6
    <3> QED
      BY <1>4, <2>6, <3>1 DEF LeaseNext, Lease!Next, Lease!Acquire
  <2>7. CASE a /\ ~b
    <3>1. CASE Scanning(r)
      <4>1. r \in Inside /\ Inside' = Inside \ {r} /\ Holders' = Holders \ {r}
        BY <1>3, <2>1, <2>4, <2>7, <3>1
      <4> QED
        BY <4>1 DEF LeaseNext, Lease!Next, Lease!Leave
    <3>2. CASE ~Scanning(r)
      <4>1. r \in Holders \ Inside /\ Inside' = Inside /\ Holders' = Holders \ {r}
        BY <1>3, <2>1, <2>3, <2>7, <3>2
      <4> QED
        BY <4>1 DEF LeaseNext, Lease!Next, Lease!Release
    <3> QED
      BY <3>1, <3>2
  <2>8. CASE a <=> b
    <3>1. CASE Scanning(r) /\ ~Scanning(r)'
      <4>1. r \in Inside /\ Inside' = Inside \ {r} /\ Holders' = Holders
        BY <1>5, <2>4, <2>8, <3>1
      <4> QED
        BY <4>1 DEF LeaseNext, Lease!Next, Lease!Leave
    <3>2. CASE ~Scanning(r) /\ Scanning(r)'
      <4>1. r \in Holders /\ Inside' = Inside \union {r} /\ Holders' = Holders
        BY <1>5, <2>1, <2>5, <2>8, <3>2
      <4> QED
        BY <4>1 DEF LeaseNext, Lease!Next, Lease!Enter
    <3>3. CASE Scanning(r) <=> Scanning(r)'
      <4>1. Inside' = Inside
        BY <1>1, <3>3
      <4> QED
        BY <1>2, <1>5, <2>8, <4>1
    <3> QED
      BY <3>1, <3>2, <3>3
  <2> QED
    BY <2>6, <2>7, <2>8
<1> QED
  BY <1>6, <1>7

(* Live work is believed dead, or nothing of the rows or the scans moves.  *)
LEMMA LeaseStays ==
    ASSUME strained' = strained \/ strained', status' = status,
           \A q \in Runs : Scanning(q)' = Scanning(q)
    PROVE  LeaseNext
<1>1. Holders' = Holders /\ Inside' = Inside
  BY DEF Holders, Inside
<1> QED
  BY <1>1 DEF LeaseNext, Lease!Next, Lease!Expire, Lease!lease

LEMMA StepLease ==
    TypeOK /\ OneActiveRun /\ OneActiveRun' /\ Honest /\ Honest' /\ [Next]_vars => LeaseNext
<1> SUFFICES ASSUME TypeOK, OneActiveRun, OneActiveRun', Honest, Honest', [Next]_vars
             PROVE  LeaseNext
  OBVIOUS
<1>1. ASSUME NEW r \in Runs, Reserve(r), UNCHANGED strained PROVE LeaseNext
  <2>1. ~Scanning(r)'
    BY <1>1 DEF TypeOK, Reserve, Scanning
  <2> QED
    BY <1>1, <2>1, LeaseStep DEF TypeOK, Reserve, Written
<1>2. ASSUME NEW r \in Runs, StartScan(r) PROVE LeaseNext
  <2>1. ~strained => Active(status[r])
    BY <1>2 DEF Honest, Sound, Busy, StartScan
  <2> QED
    BY <1>2, <2>1, LeaseStep DEF TypeOK, StartScan, Written, Over
<1>3. ASSUME NEW r \in Runs, Drain(r) PROVE LeaseNext
  <2>1. ~strained => Active(status[r])
    BY <1>3 DEF Honest, Sound, Busy, Drain
  <2>2. UNCHANGED strained /\ \A q \in Runs \ {r} : status'[q] = status[q] /\ job'[q] = job[q]
    BY <1>3 DEF TypeOK, Drain
  <2> QED
    BY <2>1, <2>2, LeaseStep
<1>4. ASSUME NEW r \in Runs, Publish(r) PROVE LeaseNext
  <2>1. ~strained => Active(status[r])
    BY <1>4 DEF Honest, Sound, Busy, Scanning, Publish
  <2> QED
    BY <1>4, <2>1, LeaseStep DEF TypeOK, Publish, Written
<1>5. ASSUME NEW r \in Runs, Admit(r) \/ CommitScan(r) \/ FinishScan(r) \/ ScanFails(r)
      PROVE  LeaseNext
  <2>1. ~Scanning(r)'
    BY <1>5 DEF TypeOK, Scanning, Admit, CommitScan, FinishScan, ScanFails, Over
  <2> QED
    BY <1>5, <2>1, LeaseStep
       DEF TypeOK, Admit, CommitScan, FinishScan, ScanFails, Written, Over
<1>6. ASSUME NEW r \in Runs, job[r] \in {"due", "launching"}, Complete(r) PROVE LeaseNext
  <2>1. ~Scanning(r)'
    BY <1>6 DEF TypeOK, Scanning, Complete, Over
  <2> QED
    BY <1>6, <2>1, LeaseStep DEF TypeOK, Complete, Written, Over
<1>7. ASSUME NEW r \in Runs, Launch(r) \/ LaunchFails(r) PROVE LeaseNext
  <2>1. ~Scanning(r)'
    BY <1>7 DEF TypeOK, Scanning, Launch, LaunchFails, Retried, CanRetry, Over
  <2> QED
    BY <1>7, <2>1, LeaseStep DEF TypeOK, Launch, LaunchFails, Retried, CanRetry, Written, Over
<1>8. ASSUME NEW r \in Runs, WorkerDies(r) \/ EngineForgets(r) PROVE LeaseNext
  <2>1. ~Scanning(r)'
    BY <1>8 DEF TypeOK, Scanning, WorkerDies, EngineForgets, Retried, CanRetry, Over
  <2> QED
    BY <1>8, <2>1, LeaseStep DEF TypeOK, WorkerDies, EngineForgets, Retried, CanRetry, Over
<1>9. ASSUME NEW r \in Runs, FailDispatch(r) PROVE LeaseNext
  <2>1. ~strained => ~Scanning(r)'
    BY <1>9 DEF Honest, Sound, Scanning, FailDispatch
  <2> QED
    BY <1>9, <2>1, LeaseStep DEF TypeOK, FailDispatch, Written
<1>10. ASSUME NEW r \in Runs, RecordProvider(r) PROVE LeaseNext
  <2>1. status' = status /\ job' = job /\ strained' = strained
    BY <1>10 DEF TypeOK, RecordProvider, Written
  <2> QED
    BY <2>1, LeaseStays DEF Scanning
<1>11. ASSUME NEW r \in Runs, Sweep(r) PROVE LeaseNext
  <2>1. ~strained /\ Scanning(r)' => Active(status[r])
    BY <1>11 DEF Honest, Sound, Scanning, Busy, Sweep
  <2> QED
    BY <1>11, <2>1, LeaseStep DEF TypeOK, Sweep, Written
<1>12. ASSUME NEW r \in Runs, Trigger(r) \/ TriggerRaises(r) PROVE LeaseNext
  <2>1. /\ status' = status
        /\ \A q \in Runs \ {r} : job'[q] = job[q]
        /\ job'[r] \in {job[r], "queued"}
        /\ strained' = strained \/ strained'
    BY <1>12 DEF TypeOK, Trigger, TriggerRaises, Stall, Calm
  <2>2. CASE strained
    <3>1. strained' = strained
      BY <1>12, <2>2 DEF TypeOK, Trigger, TriggerRaises, Stall, Calm
    <3> QED
      BY <2>1, <2>2, <3>1, LeaseStep
  <2>3. CASE ~strained
    <3>1. job[r] = "none"
      BY <1>12, <2>3 DEF Honest, Sound, Trigger, TriggerRaises
    <3>2. \A q \in Runs : Scanning(q)' = Scanning(q)
      BY <2>1, <3>1 DEF Scanning
    <3> QED
      BY <2>1, <3>2, LeaseStays
  <2> QED
    BY <2>2, <2>3
<1>13. ASSUME NEW r \in Runs,
              \/ EventCoalesced(r) \/ CallerDies(r) \/ TimesOut(r) \/ FallSilent(r)
              \/ FallAbandoned(r) \/ Judge(r)
       PROVE  LeaseNext
  <2>1. status' = status /\ job' = job /\ (strained' = strained \/ strained')
    BY <1>13 DEF EventCoalesced, CallerDies, TimesOut, FallSilent, FallAbandoned, Judge,
                 Stall, Calm
  <2> QED
    BY <2>1, LeaseStays DEF Scanning
<1>14. CASE Change \/ UNCHANGED vars
  <2>1. status' = status /\ job' = job /\ strained' = strained
    BY <1>14 DEF Change, vars
  <2> QED
    BY <2>1, LeaseStays DEF Scanning
<1> QED
  BY <1>1, <1>2, <1>3, <1>4, <1>5, <1>6, <1>7, <1>8, <1>9, <1>10, <1>11, <1>12, <1>13, <1>14
     DEF Next, Step, Enqueue, EventStarts, Calm, Handoff, Launched

(* The rows, the executions and the sweeper implement the lease, for any   *)
(* number of rows and any bounds.                                          *)
THEOREM ImplementsLease == Spec => KeepsLease
<1>1. Init => OneActiveRun /\ Honest /\ Lease!Init
  BY DEF Init, OneActiveRun, Honest, Sound, Active, Busy, Idle, Scanning, Holders, Inside,
         Lease!Init
<1>2. Spec => []TypeOK
  BY TypeCorrect
<1> QED
  BY <1>1, <1>2, StepOneActive, StepHonest, StepLease, PTL
     DEF Spec, KeepsLease, Lease!Spec, LeaseNext
=============================================================================
