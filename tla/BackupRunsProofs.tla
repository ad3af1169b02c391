-------------------------- MODULE BackupRunsProofs --------------------------
(* Proofs about BackupRuns, for any number of runs, components, backups    *)
(* kept, errors and deaths.                                                *)
EXTENDS BackupRuns, TLAPS

(***************************************************************************)
(* The inductive invariant                                                 *)
(***************************************************************************)
BackupPhases == {"preparing", "claiming", "capturing", "returning", "clearing", "describing",
                 "verifying", "listing", "pruning"}
RestorePhases == {"staging", "applying", "recording"}

(* A backup whose row still stands for it: one that could not write that   *)
(* it gave its directory back is about to fail, and may be released.       *)
Working(r) == Live(r) /\ exec[r].of = 0 /\ (exec[r].ok \/ exec[r].phase # "failing")
Restoring(r) == Live(r) /\ exec[r].of # 0

(* What an execution is at, whatever happened to the ledger.               *)
Shaped ==
    \A r \in Runs :
        /\ exec[r].phase \in RestorePhases => exec[r].of # 0
        /\ exec[r].phase \in BackupPhases \union {"new"} => exec[r].of = 0
        /\ exec[r].phase \in {"new", "reserved", "due", "staging", "applying"} => exec[r].done < K
        /\ r \notin exec[r].doomed
        /\ Capturing(r) => r \in staging

(* No ledger, present or archived, has a row for a run before it is        *)
(* reserved, or the row of a backup for a restore.                         *)
Sane(row, r) ==
    /\ row.kind = "none" => ~Active(row)
    /\ row.kind = "backup" => exec[r].of = 0
    /\ exec[r].phase = "new" => row.kind = "none"
Kinds == \A r \in Runs : Sane(rows[r], r) /\ \A b \in Runs : Sane(copy[b][r], r)

(* The row of a working backup is unfinished and cannot be released: it    *)
(* names its directory only as long as that exists.                        *)
Claimed ==
    \A r \in Runs : Working(r) =>
        /\ rows[r].kind = "backup" /\ Active(rows[r])
        /\ exec[r].phase = "capturing" => rows[r].dir
        /\ rows[r].dir => /\ exec[r].phase \in {"capturing", "returning", "clearing"}
                          /\ exec[r].phase = "clearing" => ~exec[r].ok

(* No other run is unfinished beside it, and no restore is at work.        *)
Alone ==
    \A r \in Runs : Working(r) =>
        /\ \A g \in Runs : Active(rows[g]) => g = r
        /\ \A q \in Runs : ~Restoring(q)

(* An archive holds its own run unfinished, and no restore that is at work. *)
Copied ==
    \A b, g \in Runs :
        /\ Active(copy[b][g]) => g = b /\ copy[b][g].dir
        /\ Restoring(g) => copy[b][g].kind = "none"

(* What was verified stays whole.                                          *)
Intact ==
    \A r \in Runs :
        exec[r].phase \in {"listing", "pruning"} /\ r \notin damaged => Whole(r)

(* No caller takes an accepted trigger for a refused one.                  *)
Answered == unanswered = {}

Calm == Answered /\ Claimed /\ Alone /\ Copied /\ Intact

IInv == TypeOK /\ Shaped /\ Kinds /\ (Undisturbed => Calm)

(***************************************************************************)
(* Steps of an execution and writes of a row                               *)
(***************************************************************************)
Others(r) == \A q \in Runs \ {r} : exec'[q] = exec[q]

LEMMA Updates ==
    ASSUME TypeOK, NEW r \in Runs, NEW e \in Execs, exec' = [exec EXCEPT ![r] = e]
    PROVE  exec' \in [Runs -> Execs] /\ exec'[r] = e /\ Others(r)
  BY DEF TypeOK, Others

LEMMA Moves ==
    ASSUME TypeOK, NEW r \in Runs, NEW p \in Phases, exec' = [exec EXCEPT ![r].phase = p]
    PROVE  /\ exec' \in [Runs -> Execs] /\ Others(r)
           /\ exec'[r].phase = p /\ exec'[r].done = exec[r].done /\ exec'[r].ok = exec[r].ok
           /\ exec'[r].of = exec[r].of /\ exec'[r].doomed = exec[r].doomed
<1> DEFINE e == [exec[r] EXCEPT !.phase = p]
<1>1. exec[r] \in Execs
  BY DEF TypeOK
<1>2. /\ e \in Execs /\ e.phase = p /\ e.done = exec[r].done /\ e.ok = exec[r].ok
      /\ e.of = exec[r].of /\ e.doomed = exec[r].doomed
  BY <1>1 DEF Execs
<1>3. exec' = [exec EXCEPT ![r] = e]
  BY DEF TypeOK
<1> HIDE DEF e
<1> QED
  BY <1>2, <1>3, Updates

LEMMA Breaks ==
    ASSUME TypeOK, NEW r \in Runs, NEW p \in Phases,
           exec' = [exec EXCEPT ![r].phase = p, ![r].ok = FALSE]
    PROVE  /\ exec' \in [Runs -> Execs] /\ Others(r)
           /\ exec'[r].phase = p /\ exec'[r].done = exec[r].done /\ ~exec'[r].ok
           /\ exec'[r].of = exec[r].of /\ exec'[r].doomed = exec[r].doomed
<1> DEFINE e == [exec[r] EXCEPT !.phase = p, !.ok = FALSE]
<1>1. exec[r] \in Execs
  BY DEF TypeOK
<1>2. /\ e \in Execs /\ e.phase = p /\ e.done = exec[r].done /\ ~e.ok
      /\ e.of = exec[r].of /\ e.doomed = exec[r].doomed
  BY <1>1 DEF Execs
<1>3. exec' = [exec EXCEPT ![r] = e]
  BY DEF TypeOK
<1> HIDE DEF e
<1> QED
  BY <1>2, <1>3, Updates

(* What each step does to the execution it is of.                          *)
Going(r) ==
    \/ Trigger(r) \/ TriggerLost(r) \/ Start(r) \/ Prepare(r) \/ Claim(r) \/ Captured(r)
    \/ GiveBack(r) \/ Clear(r) \/ WriteManifest(r) \/ Verify(r) \/ Complete(r) \/ Stage(r)
    \/ Record(r) \/ FailRun(r) \/ Dies(r)
Onward(r) == ReserveBackup(r) \/ Going(r)

LEMMA Moved ==
    ASSUME TypeOK, NEW r \in Runs, Onward(r)
    PROVE  /\ exec' \in [Runs -> Execs] /\ Others(r)
           /\ exec'[r].done = exec[r].done /\ exec'[r].ok = exec[r].ok
           /\ exec'[r].of = exec[r].of /\ exec'[r].doomed = exec[r].doomed
           /\ exec'[r].phase # "new"
<1>1. PICK p \in Phases \ {"new"} : exec' = [exec EXCEPT ![r].phase = p]
  BY DEF Onward, Going, ReserveBackup, Trigger, TriggerLost, Start, Prepare, Claim, Captured, GiveBack, Clear,
         WriteManifest, Verify, Complete, Stage, Record, FailRun, Dies, Phase, Phases
<1> QED
  BY <1>1, Moves

LEMMA Broken ==
    ASSUME TypeOK, NEW r \in Runs, GiveBackRaises(r) \/ Raises(r)
    PROVE  /\ exec' \in [Runs -> Execs] /\ Others(r)
           /\ exec'[r].phase = CASE exec[r].phase = "capturing" -> "returning"
                                 [] exec[r].phase = "returning" -> "clearing"
                                 [] OTHER -> "failing"
           /\ exec'[r].done = exec[r].done /\ ~exec'[r].ok
           /\ exec'[r].of = exec[r].of /\ exec'[r].doomed = exec[r].doomed
<1>1. CASE GiveBackRaises(r)
  <2>1. exec' = [exec EXCEPT ![r].phase = "clearing", ![r].ok = FALSE]
        /\ exec[r].phase = "returning" /\ "clearing" \in Phases
    BY <1>1 DEF GiveBackRaises, Phases
  <2> QED
    BY <2>1, Breaks
<1>2. CASE Raises(r)
  <2> DEFINE p == IF exec[r].phase = "capturing" THEN "returning" ELSE "failing"
  <2>1. exec' = [exec EXCEPT ![r].phase = p, ![r].ok = FALSE] /\ exec[r].phase # "returning"
    BY <1>2 DEF Raises, TypeOK
  <2>2. p \in Phases
    BY DEF Phases
  <2>3. p = CASE exec[r].phase = "capturing" -> "returning"
              [] exec[r].phase = "returning" -> "clearing"
              [] OTHER -> "failing"
    BY <2>1
  <2> HIDE DEF p
  <2> QED
    BY <2>1, <2>2, <2>3, Breaks
<1> QED
  BY <1>1, <1>2

LEMMA Advanced ==
    ASSUME TypeOK, Shaped, NEW r \in Runs, Capture(r) \/ Apply(r)
    PROVE  /\ exec' \in [Runs -> Execs] /\ Others(r)
           /\ exec[r].done + 1 \in Components /\ exec'[r].done = exec[r].done + 1
           /\ exec'[r].phase = IF Apply(r) /\ exec'[r].done = K THEN "recording" ELSE exec[r].phase
           /\ exec'[r].ok = exec[r].ok /\ exec'[r].of = exec[r].of
           /\ exec'[r].doomed = exec[r].doomed
<1> DEFINE c == exec[r].done + 1
           p == IF Apply(r) /\ c = K THEN "recording" ELSE exec[r].phase
<1>1. exec[r].done \in 0 .. K /\ exec[r].done < K /\ exec[r].phase \in Phases
  BY DEF Capture, Apply, Shaped, TypeOK, Execs
<1>2. c \in Components /\ c \in 0 .. K
  BY <1>1, ComponentsAssumption DEF Components
<1>3. p \in Phases
  BY <1>1 DEF Phases
<1>4. exec' = [exec EXCEPT ![r] = [exec[r] EXCEPT !.done = c, !.phase = p]]
  <2>1. CASE Capture(r)
    <3>1. ~Apply(r)
      BY <2>1 DEF Capture, Apply
    <3>2. exec' = [exec EXCEPT ![r].done = c]
      BY <2>1 DEF Capture
    <3> QED
      BY <3>1, <3>2 DEF TypeOK, Execs
  <2>2. CASE Apply(r)
    BY <2>2 DEF Apply, TypeOK
  <2> QED
    BY <2>1, <2>2
<1> HIDE DEF c, p
<1> DEFINE e == [exec[r] EXCEPT !.done = c, !.phase = p]
<1>5. exec[r] \in Execs
  BY DEF TypeOK
<1>6. /\ e \in Execs /\ e.phase = p /\ e.done = c /\ e.ok = exec[r].ok
      /\ e.of = exec[r].of /\ e.doomed = exec[r].doomed
  BY <1>2, <1>3, <1>5 DEF Execs
<1> HIDE DEF e
<1>7. exec' \in [Runs -> Execs] /\ exec'[r] = e /\ Others(r)
  BY <1>4, <1>6, Updates DEF e
<1>8. c = exec[r].done + 1
  BY DEF c
<1>9. p = IF Apply(r) /\ exec'[r].done = K THEN "recording" ELSE exec[r].phase
  BY <1>6, <1>7 DEF p
<1> QED
  BY <1>2, <1>6, <1>7, <1>8, <1>9

LEMMA Pruned ==
    ASSUME TypeOK, NEW r \in Runs, List(r) \/ (\E b \in Runs : Deleted(r, b))
    PROVE  /\ exec' \in [Runs -> Execs] /\ Others(r)
           /\ exec'[r].phase = "pruning" /\ exec'[r].done = exec[r].done
           /\ exec'[r].ok = exec[r].ok /\ exec'[r].of = exec[r].of
           /\ r \in exec'[r].doomed => r \in exec[r].doomed
<1>1. PICK D \in SUBSET Runs :
          /\ exec' = [exec EXCEPT ![r] = [exec[r] EXCEPT !.phase = "pruning", !.doomed = D]]
          /\ r \in D => r \in exec[r].doomed
  <2>1. CASE List(r)
    <3>1. PICK kept \in SUBSET Present :
             exec' = [exec EXCEPT ![r].phase = "pruning", ![r].doomed = Prunable(r, kept)]
      BY <2>1 DEF List
    <3>2. Prunable(r, kept) \in SUBSET Runs /\ r \notin Prunable(r, kept)
      BY DEF Prunable, Present
    <3>3. exec' = [exec EXCEPT ![r] = [exec[r] EXCEPT !.phase = "pruning", !.doomed = Prunable(r, kept)]]
      BY <3>1 DEF TypeOK
    <3> QED
      BY <3>2, <3>3
  <2>2. ASSUME NEW b \in Runs, Deleted(r, b)
        PROVE  \E D \in SUBSET Runs :
                  /\ exec' = [exec EXCEPT ![r] = [exec[r] EXCEPT !.phase = "pruning", !.doomed = D]]
                  /\ r \in D => r \in exec[r].doomed
    <3> DEFINE D == exec[r].doomed \ {b}
    <3>1. exec' = [exec EXCEPT ![r] = [exec[r] EXCEPT !.phase = "pruning", !.doomed = D]]
      <4>1. exec[r].phase = "pruning" /\ exec' = [exec EXCEPT ![r].doomed = D]
        BY <2>2 DEF Deleted
      <4> QED
        BY <4>1 DEF TypeOK, Execs
    <3>2. D \in SUBSET Runs /\ (r \in D => r \in exec[r].doomed)
      BY DEF TypeOK, Execs
    <3> HIDE DEF D
    <3> QED
      BY <3>1, <3>2
  <2> QED
    BY <2>1, <2>2
<1> DEFINE e == [exec[r] EXCEPT !.phase = "pruning", !.doomed = D]
<1>2. exec[r] \in Execs /\ "pruning" \in Phases
  BY DEF TypeOK, Phases
<1>3. /\ e \in Execs /\ e.phase = "pruning" /\ e.done = exec[r].done /\ e.ok = exec[r].ok
      /\ e.of = exec[r].of /\ e.doomed = D
  BY <1>2 DEF Execs
<1>4. exec' = [exec EXCEPT ![r] = e]
  BY <1>1
<1> HIDE DEF e
<1>5. exec' \in [Runs -> Execs] /\ exec'[r] = e /\ Others(r)
  BY <1>3, <1>4, Updates
<1> QED
  BY <1>1, <1>3, <1>5

LEMMA Writes ==
    ASSUME TypeOK, NEW r \in Runs, NEW s \in {"running", "completed", "failed"}, Written(r, s)
    PROVE  /\ rows' \in [Runs -> Rows] /\ \A q \in Runs \ {r} : rows'[q] = rows[q]
           /\ rows'[r].kind = rows[r].kind /\ rows'[r].dir = rows[r].dir
           /\ rows'[r].status = IF rows[r].kind = "none" THEN rows[r].status ELSE s
  BY DEF TypeOK, Written, Rows

LEMMA Names ==
    ASSUME TypeOK, NEW r \in Runs, NEW held \in BOOLEAN, Named(r, held)
    PROVE  /\ rows' \in [Runs -> Rows] /\ \A q \in Runs \ {r} : rows'[q] = rows[q]
           /\ rows'[r].kind = rows[r].kind /\ rows'[r].status = rows[r].status
           /\ rows'[r].dir = IF rows[r].kind = "none" THEN rows[r].dir ELSE held
  BY DEF TypeOK, Named, Rows

LEMMA Releases ==
    ASSUME TypeOK
    PROVE  /\ Released \in [Runs -> Rows]
           /\ \A g \in Runs :
                 /\ Released[g].kind = rows[g].kind
                 /\ ~Releasable(g) => Released[g] = rows[g]
                 /\ Active(Released[g]) => Released[g] = rows[g]
<1>1. \A g \in Runs : rows[g] \in Rows
  BY DEF TypeOK
<1>2. \A g \in Runs : [rows[g] EXCEPT !.status = "failed"] \in Rows
  BY <1>1 DEF Rows
<1>3. \A g \in Runs : Released[g] = IF Releasable(g) THEN [rows[g] EXCEPT !.status = "failed"] ELSE rows[g]
  BY DEF Released
<1>4. Released \in [Runs -> Rows]
  BY <1>1, <1>2 DEF Released
<1> QED
  BY <1>1, <1>3, <1>4 DEF Active, Rows

LEMMA Reserves ==
    ASSUME TypeOK, NEW r \in Runs, NEW kind \in {"backup", "restore"}, Reserved(r, kind)
    PROVE  /\ rows' \in [Runs -> Rows] /\ \A g \in Runs \ {r} : rows'[g] = Released[g]
           /\ rows'[r].kind = kind /\ Active(rows'[r]) /\ ~rows'[r].dir
<1>1. [kind |-> kind, status |-> "queued", dir |-> FALSE] \in Rows
  BY DEF Rows
<1> QED
  BY <1>1, Releases DEF Reserved, Active

(* The archived ledger goes with its component.                            *)
LEMMA Erases ==
    ASSUME TypeOK, NEW r \in Runs, NEW b \in Runs, Delete(r, b)
    PROVE  copy' \in [Runs -> [Runs -> Rows]] /\ \A q \in Runs : copy'[q] \in {copy[q], NoRows}
<1>1. NoRows \in [Runs -> Rows]
  BY DEF NoRows, NoRow, Rows
<1>2. copy' = [copy EXCEPT ![b] = IF Ledger \in parts'[b] THEN @ ELSE NoRows]
  BY DEF Delete
<1> QED
  BY <1>1, <1>2 DEF TypeOK

LEMMA Faults ==
    /\ TypeOK /\ Fault => faults' \in 0 .. MaxFaults
    /\ TypeOK /\ Stall => stalls' \in 0 .. MaxStalls /\ strained'
<1> USE BoundAssumption DEF TypeOK
<1>1. TypeOK /\ Fault => faults' \in 0 .. MaxFaults
  BY DEF Fault
<1>2. TypeOK /\ Stall => stalls' \in 0 .. MaxStalls
  BY DEF Stall
<1> QED
  BY <1>1, <1>2 DEF Stall

(* The steps that only take an execution to another phase.                 *)
Passes(r) ==
    \/ Trigger(r) \/ Captured(r) \/ Verify(r) \/ Stage(r)

LEMMA TypeStep == TypeOK /\ Shaped /\ [Next]_vars => TypeOK'
<1> SUFFICES ASSUME TypeOK, Shaped, [Next]_vars PROVE TypeOK'
  OBVIOUS
<1> USE DEF store, history
<1>0. 1 \in Components /\ Idle \in Execs /\ 0 \in 0 .. K
  BY ComponentsAssumption DEF Components, Idle, Execs, Phases
<1>1. CASE UNCHANGED vars
  BY <1>1 DEF TypeOK, vars
<1> SUFFICES ASSUME NEW r \in Runs,
                    \/ ReserveBackup(r) \/ (\E b \in Runs : ReserveRestore(r, b))
                    \/ Step(r) \/ TriggerLost(r) \/ GiveBackRaises(r) \/ Raises(r) \/ Dies(r) \/ Lose(r) \/ Sweep(r)
             PROVE  TypeOK'
  BY <1>1 DEF Next
<1>2. CASE ReserveBackup(r)
  <2>1. exec' \in [Runs -> Execs]
    BY <1>2, Moved DEF Onward, Going
  <2>2. rows' \in [Runs -> Rows]
    BY <1>2, Reserves DEF ReserveBackup
  <2>3. mixed' \in BOOLEAN
    BY <1>2 DEF ReserveBackup, TypeOK
  <2> QED
    BY <1>2, <2>1, <2>2, <2>3 DEF ReserveBackup, TypeOK
<1>3. ASSUME NEW b \in Runs, ReserveRestore(r, b) PROVE TypeOK'
  <2>1. [Idle EXCEPT !.phase = "reserved", !.of = b] \in Execs
    BY <1>0 DEF Execs, Phases
  <2>2. exec' \in [Runs -> Execs]
    BY <1>3, <2>1 DEF ReserveRestore, TypeOK
  <2>3. rows' \in [Runs -> Rows]
    BY <1>3, Reserves DEF ReserveRestore
  <2> QED
    BY <1>3, <2>2, <2>3 DEF ReserveRestore, TypeOK
<1>4. CASE Passes(r)
  <2>1. exec' \in [Runs -> Execs]
    BY <1>4, Moved DEF Passes, Onward, Going
  <2> QED
    BY <1>4, <2>1 DEF Passes, Trigger, Captured, Verify, Stage, TypeOK
<1>5. CASE Start(r)
  <2>1. exec' \in [Runs -> Execs]
    BY <1>5, Moved DEF Onward, Going
  <2>2. rows' \in [Runs -> Rows]
    BY <1>5, Writes DEF Start, TypeOK
  <2> QED
    BY <1>5, <2>1, <2>2 DEF Start, TypeOK
<1>6. CASE Prepare(r) \/ Clear(r)
  <2>1. exec' \in [Runs -> Execs]
    BY <1>6, Moved DEF Onward, Going
  <2> QED
    BY <1>6, <2>1 DEF Prepare, Clear, TypeOK
<1>7. CASE Claim(r) \/ GiveBack(r)
  <2>1. exec' \in [Runs -> Execs]
    BY <1>7, Moved DEF Onward, Going
  <2>2. rows' \in [Runs -> Rows]
    BY <1>7, Names DEF Claim, GiveBack
  <2> QED
    BY <1>7, <2>1, <2>2 DEF Claim, GiveBack, TypeOK
<1>8. CASE Capture(r)
  <2>1. exec[r].done + 1 \in Components
    BY <1>8, Advanced
  <2>2. exec' \in [Runs -> Execs]
    BY <1>8, Advanced
  <2>3. parts' \in [Runs -> SUBSET Components]
    <3>1. parts[r] \union {exec[r].done + 1} \in SUBSET Components
      BY <2>1 DEF TypeOK
    <3>2. \/ parts' = [parts EXCEPT ![r] = parts[r] \union {exec[r].done + 1}]
          \/ parts' = parts
      BY <1>8 DEF Capture
    <3> QED
      BY <3>1, <3>2 DEF TypeOK
  <2>4. copy' \in [Runs -> [Runs -> Rows]]
    BY <1>8 DEF Capture, TypeOK
  <2> QED
    BY <1>8, <2>2, <2>3, <2>4 DEF Capture, TypeOK
<1>9. CASE GiveBackRaises(r) \/ Raises(r)
  <2>1. exec' \in [Runs -> Execs]
    BY <1>9, Broken
  <2>2. faults' \in 0 .. MaxFaults
    BY <1>9, Faults DEF GiveBackRaises, Raises
  <2> QED
    BY <1>9, <2>1, <2>2 DEF GiveBackRaises, Raises, TypeOK
<1>10. CASE WriteManifest(r)
  <2>1. exec' \in [Runs -> Execs]
    BY <1>10, Moved DEF Onward, Going
  <2> QED
    BY <1>10, <2>1 DEF WriteManifest, TypeOK
<1>11. CASE List(r)
  BY <1>11, Pruned DEF List, TypeOK
<1>12. ASSUME NEW b \in Runs, Delete(r, b) PROVE TypeOK'
  <2>1. copy' \in [Runs -> [Runs -> Rows]]
    BY <1>12, Erases
  <2>2. parts' \in [Runs -> SUBSET Components] /\ listed' \in [Runs -> SUBSET Components]
    BY <1>12 DEF Delete, TypeOK
  <2> QED
    BY <1>12, <2>1, <2>2 DEF Delete, TypeOK
<1>13. ASSUME NEW b \in Runs, Deleted(r, b) PROVE TypeOK'
  <2>1. exec' \in [Runs -> Execs]
    BY <1>13, Pruned
  <2>2. faults' \in 0 .. MaxFaults
    BY <1>13, Faults DEF Deleted, TypeOK
  <2> QED
    BY <1>13, <2>1, <2>2 DEF Deleted, TypeOK
<1>14. CASE Complete(r) \/ FailRun(r)
  <2>1. exec' \in [Runs -> Execs]
    BY <1>14, Moved DEF Onward, Going
  <2>2. rows' \in [Runs -> Rows]
    BY <1>14, Writes DEF Complete, FailRun
  <2> QED
    BY <1>14, <2>1, <2>2 DEF Complete, FailRun, TypeOK
<1>15. CASE Apply(r)
  <2>1. exec[r].of \in Runs
    BY <1>15 DEF Apply, Shaped, RestorePhases, TypeOK, Execs
  <2>2. exec' \in [Runs -> Execs]
    BY <1>15, Advanced
  <2>3. rows' \in [Runs -> Rows]
    BY <1>15, <2>1 DEF Apply, TypeOK
  <2> QED
    BY <1>15, <2>2, <2>3 DEF Apply, TypeOK
<1>16. CASE Record(r)
  <2>1. exec' \in [Runs -> Execs]
    BY <1>16, Moved DEF Onward, Going
  <2>2. rows' \in [Runs -> Rows]
    BY <1>16 DEF Record, TypeOK, Rows
  <2> QED
    BY <1>16, <2>1, <2>2 DEF Record, TypeOK
<1>17. CASE Dies(r)
  <2>1. exec' \in [Runs -> Execs]
    BY <1>17, Moved DEF Onward, Going
  <2> QED
    BY <1>17, <2>1, Faults DEF Dies, TypeOK
<1>18. CASE Lose(r)
  BY <1>18, Faults DEF Lose, TypeOK
<1>19. CASE Sweep(r)
  <2>1. rows' \in [Runs -> Rows]
    BY <1>19, Writes DEF Sweep
  <2>2. stalls' \in 0 .. MaxStalls /\ strained' \in BOOLEAN
    BY <1>19, Faults DEF Sweep, TypeOK
  <2> QED
    BY <1>19, <2>1, <2>2 DEF Sweep, TypeOK
<1>20. CASE TriggerLost(r)
  <2>1. exec' \in [Runs -> Execs]
    BY <1>20, Moved DEF Onward, Going
  <2>2. faults' \in 0 .. MaxFaults
    BY <1>20, Faults DEF TriggerLost
  <2> QED
    BY <1>20, <2>1, <2>2 DEF TriggerLost, TypeOK
<1>21. CASE FailDispatch(r)
  <2>1. rows' \in [Runs -> Rows]
    BY <1>21, Writes DEF FailDispatch
  <2> QED
    BY <1>21, <2>1 DEF FailDispatch, TypeOK
<1> QED
  BY <1>2, <1>3, <1>4, <1>5, <1>6, <1>7, <1>8, <1>9, <1>10, <1>11, <1>12, <1>13, <1>14, <1>15,
     <1>16, <1>17, <1>18, <1>19, <1>20, <1>21 DEF Step, Passes

LEMMA Starting ==
    ASSUME TypeOK, NEW r \in Runs, NEW b \in Runs, ReserveRestore(r, b)
    PROVE  /\ Others(r) /\ exec'[r].phase = "reserved" /\ exec'[r].of = b /\ exec'[r].of # 0
           /\ exec'[r].done = 0 /\ exec'[r].doomed = {}
  BY RunsAssumption DEF TypeOK, ReserveRestore, Others, Idle

LEMMA ShapedStep == TypeOK /\ Shaped /\ [Next]_vars => Shaped'
<1> SUFFICES ASSUME TypeOK, Shaped, [Next]_vars PROVE Shaped'
  OBVIOUS
<1> USE DEF Shaped, BackupPhases, RestorePhases, Capturing
<1>1. ASSUME UNCHANGED <<exec, staging>> PROVE Shaped'
  BY <1>1
<1>2. CASE UNCHANGED vars
  BY <1>1, <1>2 DEF vars
<1> SUFFICES ASSUME NEW r \in Runs,
                    \/ ReserveBackup(r) \/ (\E b \in Runs : ReserveRestore(r, b))
                    \/ Step(r) \/ TriggerLost(r) \/ GiveBackRaises(r) \/ Raises(r) \/ Dies(r) \/ Lose(r) \/ Sweep(r)
             PROVE  Shaped'
  BY <1>2 DEF Next
<1>3. ASSUME Onward(r) PROVE Others(r) /\ exec'[r].done = exec[r].done
                             /\ exec'[r].of = exec[r].of /\ exec'[r].doomed = exec[r].doomed
  BY <1>3, Moved
<1>4. ASSUME NEW p \in Phases, Phase(r, p) PROVE exec'[r].phase = p
  BY <1>4, Moves DEF Phase
<1>5. CASE ReserveBackup(r) \/ Trigger(r) \/ TriggerLost(r)
  <2>1. exec'[r].phase = IF ReserveBackup(r) THEN "reserved" ELSE "due"
    BY <1>4, <1>5 DEF ReserveBackup, Trigger, TriggerLost, Phases
  <2> QED
    BY <1>3, <1>5, <2>1 DEF Onward, Going, Others, ReserveBackup, Trigger, TriggerLost
<1>6. ASSUME NEW b \in Runs, ReserveRestore(r, b) PROVE Shaped'
  <2>1. /\ Others(r) /\ exec'[r].phase = "reserved" /\ exec'[r].of # 0
        /\ exec'[r].done = 0 /\ exec'[r].doomed = {}
    BY <1>6, Starting
  <2>2. staging' = staging
    BY <1>6 DEF ReserveRestore
  <2>3. 0 < K
    BY ComponentsAssumption
  <2> QED
    BY <2>1, <2>2, <2>3 DEF Others
<1>7. CASE Start(r)
  <2>1. exec[r].phase = "due" /\ staging' = staging
    BY <1>7 DEF Start
  <2>2. \/ exec'[r].phase = "preparing" /\ exec[r].of = 0
        \/ exec'[r].phase = "staging" /\ exec[r].of # 0
        \/ exec'[r].phase = "over"
    <3>1. CASE Phase(r, "over")
      BY <1>4, <3>1 DEF Phases
    <3>2. CASE Phase(r, IF exec[r].of = 0 THEN "preparing" ELSE "staging")
      BY <1>4, <3>2 DEF Phases
    <3> QED
      BY <1>7, <3>1, <3>2 DEF Start
  <2> QED
    BY <1>3, <1>7, <2>1, <2>2 DEF Onward, Going, Others
<1>8. CASE Prepare(r)
  <2>1. exec'[r].phase = "claiming"
    BY <1>4, <1>8 DEF Prepare, Phases
  <2> QED
    BY <1>3, <1>8, <2>1 DEF Onward, Going, Others, Prepare
<1>9. CASE Claim(r) \/ Captured(r) \/ GiveBack(r)
  <2>1. exec'[r].phase = IF Claim(r) THEN "capturing" ELSE IF Captured(r) THEN "returning" ELSE "clearing"
    BY <1>4, <1>9 DEF Claim, Captured, GiveBack, Phases
  <2>2. staging' = staging /\ Capturing(r) /\ exec[r].phase \in BackupPhases
    BY <1>9 DEF Claim, Captured, GiveBack
  <2> QED
    BY <1>3, <1>9, <2>1, <2>2 DEF Onward, Going, Others
<1>10. CASE Clear(r)
  <2>1. exec'[r].phase \in {"describing", "failing"}
    BY <1>4, <1>10 DEF Clear, Phases
  <2> QED
    BY <1>3, <1>10, <2>1 DEF Onward, Going, Others, Clear
<1>11. CASE WriteManifest(r) \/ Verify(r)
  <2>1. exec'[r].phase \in {"verifying", "listing", "failing"}
    BY <1>4, <1>11 DEF WriteManifest, Verify, Phases
  <2> QED
    BY <1>3, <1>11, <2>1 DEF Onward, Going, Others, WriteManifest, Verify
<1>12. CASE Complete(r) \/ Record(r) \/ FailRun(r) \/ Dies(r)
  <2>1. exec'[r].phase = "over"
    BY <1>4, <1>12 DEF Complete, Record, FailRun, Dies, Phases
  <2> QED
    BY <1>3, <1>12, <2>1 DEF Onward, Going, Others, Complete, Record, FailRun, Dies
<1>13. CASE Stage(r)
  <2>1. exec'[r].phase \in {"applying", "recording", "failing"}
    BY <1>4, <1>13 DEF Stage, Phases
  <2> QED
    BY <1>3, <1>13, <2>1 DEF Onward, Going, Others, Stage
<1>14. CASE Capture(r)
  <2>1. ~Apply(r)
    BY <1>14 DEF Capture, Apply
  <2> QED
    BY <1>14, <2>1, Advanced DEF Others, Capture
<1>15. CASE Apply(r)
  <2>1. Others(r) /\ exec'[r].of = exec[r].of /\ exec'[r].doomed = exec[r].doomed
    BY <1>15, Advanced
  <2>2. exec'[r].phase = IF exec'[r].done = K THEN "recording" ELSE exec[r].phase
    BY <1>15, Advanced
  <2>3. exec'[r].done # K => exec'[r].done < K
    <3>1. exec'[r].done \in Components
      BY <1>15, Advanced
    <3> QED
      BY <3>1, ComponentsAssumption DEF Components
  <2>4. exec[r].phase = "applying" /\ staging' = staging
    BY <1>15 DEF Apply
  <2>5. /\ exec'[r].phase \in {"applying", "recording"} /\ exec'[r].of # 0
        /\ exec'[r].phase = "applying" => exec'[r].done < K
        /\ r \notin exec'[r].doomed
    BY <2>1, <2>2, <2>3, <2>4
  <2> QED
    BY <2>1, <2>4, <2>5 DEF Others
<1>16. CASE GiveBackRaises(r) \/ Raises(r)
  BY <1>16, Broken DEF Others, GiveBackRaises, Raises
<1>17. CASE List(r) \/ \E b \in Runs : Deleted(r, b)
  <2>1. exec[r].phase \in BackupPhases /\ staging' = staging
    BY <1>17 DEF List, Deleted
  <2> QED
    BY <1>17, <2>1, Pruned DEF Others
<1>18. CASE (\E b \in Runs : Delete(r, b)) \/ Lose(r) \/ Sweep(r) \/ FailDispatch(r)
  BY <1>1, <1>18 DEF Delete, Lose, Sweep, FailDispatch
<1> QED
  BY <1>5, <1>6, <1>7, <1>8, <1>9, <1>10, <1>11, <1>12, <1>13, <1>14, <1>15, <1>16, <1>17, <1>18
  DEF Step

(* Steps that leave every execution alone.                                 *)
Still(r) == (\E b \in Runs : Delete(r, b)) \/ Lose(r) \/ Sweep(r) \/ FailDispatch(r)

(* No run is new again, and only a reservation says what is put back.      *)
LEMMA Lasts ==
    TypeOK /\ Shaped /\ [Next]_vars =>
        \A q \in Runs : /\ exec'[q].phase = "new" => exec[q].phase = "new"
                        /\ exec[q].phase = "new" \/ exec'[q].of = exec[q].of
<1> SUFFICES ASSUME TypeOK, Shaped, [Next]_vars, NEW q \in Runs
             PROVE  /\ exec'[q].phase = "new" => exec[q].phase = "new"
                    /\ exec[q].phase = "new" \/ exec'[q].of = exec[q].of
  OBVIOUS
<1>1. ASSUME exec' = exec
      PROVE  /\ exec'[q].phase = "new" => exec[q].phase = "new"
             /\ exec[q].phase = "new" \/ exec'[q].of = exec[q].of
  BY <1>1
<1>2. CASE UNCHANGED vars
  BY <1>1, <1>2 DEF vars
<1> SUFFICES ASSUME NEW r \in Runs,
                    \/ ReserveBackup(r) \/ (\E b \in Runs : ReserveRestore(r, b))
                    \/ Step(r) \/ TriggerLost(r) \/ GiveBackRaises(r) \/ Raises(r) \/ Dies(r) \/ Lose(r) \/ Sweep(r)
             PROVE  /\ exec'[q].phase = "new" => exec[q].phase = "new"
                    /\ exec[q].phase = "new" \/ exec'[q].of = exec[q].of
  BY <1>2 DEF Next
<1>3. CASE Onward(r)
  BY <1>3, Moved DEF Others
<1>4. ASSUME NEW b \in Runs, ReserveRestore(r, b)
      PROVE  /\ exec'[q].phase = "new" => exec[q].phase = "new"
             /\ exec[q].phase = "new" \/ exec'[q].of = exec[q].of
  <2>1. exec[r].phase = "new"
    BY <1>4 DEF ReserveRestore
  <2> QED
    BY <1>4, <2>1, Starting DEF Others
<1>5. CASE GiveBackRaises(r) \/ Raises(r)
  <2>1. exec'[r].phase \in {"returning", "clearing", "failing"} /\ exec'[r].of = exec[r].of /\ Others(r)
    BY <1>5, Broken
  <2> QED
    BY <2>1 DEF Others
<1>6. CASE Capture(r) \/ Apply(r)
  <2>1. exec'[r].phase \in {"recording", exec[r].phase} /\ exec'[r].of = exec[r].of /\ Others(r)
    BY <1>6, Advanced
  <2> QED
    BY <2>1 DEF Others
<1>7. CASE List(r) \/ \E b \in Runs : Deleted(r, b)
  BY <1>7, Pruned DEF Others
<1>8. CASE Still(r)
  BY <1>1, <1>8 DEF Still, Delete, Lose, Sweep, FailDispatch
<1> QED
  BY <1>3, <1>4, <1>5, <1>6, <1>7, <1>8 DEF Step, Onward, Going, Still

LEMMA KindsStep == TypeOK /\ Shaped /\ Kinds /\ [Next]_vars => Kinds'
<1> SUFFICES ASSUME TypeOK, Shaped, Kinds, [Next]_vars PROVE Kinds'
  OBVIOUS
<1>1. \A q \in Runs : /\ exec'[q].phase = "new" => exec[q].phase = "new"
                      /\ exec[q].phase = "new" \/ exec'[q].of = exec[q].of
  BY Lasts
<1>2. ASSUME NEW row, NEW after, NEW q \in Runs, Sane(row, q), after.kind = row.kind,
             after.kind = "none" => after = row
      PROVE  /\ after.kind = "none" => ~Active(after)
             /\ after.kind = "backup" => exec'[q].of = 0
             /\ exec'[q].phase = "new" => after.kind = "none"
  BY <1>1, <1>2 DEF Sane, Active
<1>3. ASSUME copy' = copy,
             \A q \in Runs : /\ rows'[q].kind = rows[q].kind
                             /\ rows'[q].kind = "none" => rows'[q] = rows[q]
      PROVE  Kinds'
  BY <1>2, <1>3 DEF Kinds, Sane, Active
<1>4. ASSUME copy' = copy,
             rows' = rows \/ \E q \in Runs : \/ \E s \in {"running", "completed", "failed"} : Written(q, s)
                                             \/ \E held \in BOOLEAN : Named(q, held)
      PROVE  Kinds'
  <2>1. CASE rows' = rows
    BY <1>3, <1>4, <2>1
  <2>2. ASSUME NEW q \in Runs, NEW s \in {"running", "completed", "failed"}, Written(q, s) PROVE Kinds'
    BY <1>3, <1>4, <2>2 DEF Written, TypeOK, Rows
  <2>3. ASSUME NEW q \in Runs, NEW held \in BOOLEAN, Named(q, held) PROVE Kinds'
    BY <1>3, <1>4, <2>3 DEF Named, TypeOK, Rows
  <2> QED
    BY <1>4, <2>1, <2>2, <2>3
<1>5. CASE UNCHANGED vars
  BY <1>4, <1>5 DEF vars, store
<1> SUFFICES ASSUME NEW r \in Runs,
                    \/ ReserveBackup(r) \/ (\E b \in Runs : ReserveRestore(r, b))
                    \/ Step(r) \/ TriggerLost(r) \/ GiveBackRaises(r) \/ Raises(r) \/ Dies(r) \/ Lose(r) \/ Sweep(r)
             PROVE  Kinds'
  BY <1>5 DEF Next
<1>6. ASSUME copy' = copy, NEW kind \in {"backup", "restore"}, Reserved(r, kind),
             exec'[r].phase # "new", kind = "backup" => exec'[r].of = 0
      PROVE  Kinds'
  <2>1. \A q \in Runs \ {r} : Sane(rows[q], q)'
    <3> SUFFICES ASSUME NEW q \in Runs \ {r} PROVE Sane(rows[q], q)'
      OBVIOUS
    <3>1. rows'[q] = Released[q] /\ Sane(rows[q], q)
      BY <1>6, Reserves DEF Kinds
    <3>2. Released[q].kind = rows[q].kind /\ (Released[q].kind = "none" => Released[q] = rows[q])
      BY Releases DEF Releasable
    <3> QED
      BY <1>2, <3>1, <3>2 DEF Sane, Active
  <2>2. Sane(rows[r], r)'
    BY <1>6, Reserves DEF Sane
  <2>3. \A b, q \in Runs : Sane(copy[b][q], q)'
    BY <1>2, <1>6 DEF Kinds, Sane, Active
  <2> QED
    BY <2>1, <2>2, <2>3 DEF Kinds
<1>7. CASE ReserveBackup(r)
  <2>1. exec[r].of = 0
    BY <1>7 DEF ReserveBackup, Shaped
  <2> QED
    BY <1>6, <1>7, <2>1, Moved DEF ReserveBackup, store, Onward
<1>8. ASSUME NEW b \in Runs, ReserveRestore(r, b) PROVE Kinds'
  BY <1>6, <1>8, Starting DEF ReserveRestore, store
<1>9. CASE Capture(r)
  <2>1. rows' = rows /\ (copy' = copy \/ copy' = [copy EXCEPT ![r] = rows])
    BY <1>9 DEF Capture
  <2>2. \A b, q \in Runs : copy'[b][q] \in {copy[b][q], rows[q]}
    BY <2>1 DEF TypeOK
  <2>3. \A q \in Runs : Sane(rows[q], q)'
    BY <1>2, <2>1 DEF Kinds, Sane, Active
  <2>4. \A b, q \in Runs : Sane(copy[b][q], q)'
    BY <1>2, <2>2 DEF Kinds, Sane, Active
  <2> QED
    BY <2>3, <2>4 DEF Kinds
<1>10. CASE Apply(r)
  <2>1. exec[r].of \in Runs
    BY <1>10 DEF Apply, Shaped, RestorePhases, TypeOK, Execs
  <2>2. copy' = copy /\ (rows' = rows \/ rows' = copy[exec[r].of])
    BY <1>10 DEF Apply, store
  <2>3. \A q \in Runs : Sane(rows[q], q)'
    BY <1>2, <2>1, <2>2 DEF Kinds, Sane, Active
  <2>4. \A b, q \in Runs : Sane(copy[b][q], q)'
    BY <1>2, <2>2 DEF Kinds, Sane, Active
  <2> QED
    BY <2>3, <2>4 DEF Kinds
<1>11. CASE Record(r)
  <2>1. /\ copy' = copy /\ \A q \in Runs \ {r} : rows'[q] = rows[q]
        /\ rows'[r].kind = "restore" /\ exec[r].phase = "recording"
    BY <1>11 DEF Record, store, TypeOK
  <2>2. \A q \in Runs : Sane(rows[q], q)'
    BY <1>1, <1>2, <2>1 DEF Kinds, Sane, Active
  <2>3. \A b, q \in Runs : Sane(copy[b][q], q)'
    BY <1>2, <2>1 DEF Kinds, Sane, Active
  <2> QED
    BY <2>2, <2>3 DEF Kinds
<1> DEFINE Rest == /\ copy' = copy
                   /\ \/ rows' = rows
                      \/ \E s \in {"running", "completed", "failed"} : Written(r, s)
                      \/ \E held \in BOOLEAN : Named(r, held)
<1>12. CASE Start(r) \/ Claim(r) \/ GiveBack(r) \/ Complete(r) \/ FailRun(r) \/ Sweep(r) \/ FailDispatch(r)
  <2>1. Rest
    BY <1>12 DEF Start, Claim, GiveBack, Complete, FailRun, Sweep, FailDispatch, store
  <2> QED
    BY <1>4, <2>1
<1>13. CASE \/ Passes(r) \/ Prepare(r) \/ Clear(r) \/ WriteManifest(r) \/ List(r) \/ Dies(r)
            \/ Lose(r) \/ Raises(r) \/ GiveBackRaises(r) \/ TriggerLost(r)
            \/ \E b \in Runs : Deleted(r, b)
  <2>1. copy' = copy /\ rows' = rows
    BY <1>13 DEF Passes, Trigger, Captured, Verify, Stage, Prepare, Clear, WriteManifest, List,
       Dies, Lose, Raises, GiveBackRaises, TriggerLost, Deleted, store
  <2> QED
    BY <1>4, <2>1
<1>14. ASSUME NEW b \in Runs, Delete(r, b) PROVE Kinds'
  <2>1. rows' = rows /\ \A a, q \in Runs : copy'[a][q] \in {copy[a][q], NoRow}
    BY <1>14, Erases DEF Delete, NoRows
  <2>2. \A q \in Runs : Sane(rows[q], q)'
    BY <1>2, <2>1 DEF Kinds, Sane, Active
  <2>3. \A a, q \in Runs : Sane(copy[a][q], q)'
    BY <1>2, <2>1 DEF Kinds, Sane, Active, NoRow
  <2> QED
    BY <2>2, <2>3 DEF Kinds
<1> QED
  BY <1>7, <1>8, <1>9, <1>10, <1>11, <1>12, <1>13, <1>14 DEF Step, Passes

(***************************************************************************)
(* Who is at work                                                          *)
(***************************************************************************)
Reserving(q) == ReserveBackup(q) \/ \E b \in Runs : ReserveRestore(q, b)

(* What is not a reservation.                                              *)
Goes(r) == Step(r) \/ TriggerLost(r) \/ GiveBackRaises(r) \/ Raises(r) \/ Dies(r) \/ Lose(r) \/ Sweep(r)

(* Only a reservation puts a run to work.                                  *)
LEMMA Works ==
    ASSUME TypeOK, Shaped, NEW r \in Runs, Goes(r), NEW q \in Runs
    PROVE  (Working(q)' => Working(q)) /\ (Restoring(q)' => Restoring(q))
<1> USE DEF Working, Restoring, Live
<1> DEFINE Goal == (Working(q)' => Working(q)) /\ (Restoring(q)' => Restoring(q))
<1>1. ASSUME exec'[q] = exec[q] PROVE Goal
  BY <1>1
<1>2. CASE Going(r)
  <2>1. CASE q # r
    BY <1>1, <1>2, <2>1, Moved DEF Onward, Others
  <2>2. CASE q = r
    <3>1. exec'[r].ok = exec[r].ok /\ exec'[r].of = exec[r].of
      BY <1>2, Moved DEF Onward
    <3>2. exec[r].phase # "new" /\ exec[r].phase # "over"
      BY <1>2 DEF Going, Trigger, TriggerLost, Start, Prepare, Claim, Captured, GiveBack, Clear,
         WriteManifest, Verify, Complete, Stage, Record, FailRun, Dies
    <3>3. exec[r].phase = "failing" => exec'[r].phase = "over"
      <4>1. ASSUME exec[r].phase = "failing" PROVE Phase(r, "over")
        BY <1>2, <4>1 DEF Going, Trigger, TriggerLost, Start, Prepare, Claim, Captured, GiveBack, Clear,
           WriteManifest, Verify, Complete, Stage, Record, FailRun, Dies
      <4>2. "over" \in Phases
        BY DEF Phases
      <4> QED
        BY <4>1, <4>2, Moves DEF Phase
    <3> QED
      BY <2>2, <3>1, <3>2, <3>3
  <2> QED
    BY <2>1, <2>2
<1>3. CASE GiveBackRaises(r) \/ Raises(r)
  <2>1. /\ exec'[r].phase \in {"returning", "clearing", "failing"} /\ exec'[r].of = exec[r].of
        /\ ~exec'[r].ok /\ Others(r)
    BY <1>3, Broken
  <2>2. exec[r].phase \notin {"new", "over", "failing"}
    BY <1>3 DEF GiveBackRaises, Raises
  <2> QED
    BY <2>1, <2>2 DEF Others
<1>4. CASE Capture(r) \/ Apply(r)
  <2>1. exec'[r].of = exec[r].of /\ exec'[r].ok = exec[r].ok /\ Others(r)
    BY <1>4, Advanced
  <2>2. exec[r].phase \in {"capturing", "applying"}
    BY <1>4 DEF Capture, Apply
  <2> QED
    BY <2>1, <2>2 DEF Others
<1>5. CASE List(r) \/ \E b \in Runs : Deleted(r, b)
  <2>1. exec'[r].of = exec[r].of /\ exec'[r].ok = exec[r].ok /\ Others(r)
    BY <1>5, Pruned
  <2>2. exec[r].phase \in {"listing", "pruning"}
    BY <1>5 DEF List, Deleted
  <2> QED
    BY <2>1, <2>2 DEF Others
<1>6. CASE Still(r)
  BY <1>1, <1>6 DEF Still, Delete, Lose, Sweep, FailDispatch
<1> QED
  BY <1>2, <1>3, <1>4, <1>5, <1>6 DEF Goes, Step, Going, Still

LEMMA Unreleased ==
    ASSUME TypeOK, Shaped, Claimed, NEW r \in Runs, Working(r)
    PROVE  ~Releasable(r) /\ Released[r] = rows[r] /\ Active(Released[r])
<1>1. rows[r].dir => r \in staging
  BY DEF Claimed, Shaped, Capturing
<1>2. ~Releasable(r)
  BY <1>1 DEF Releasable
<1> QED
  BY <1>2, Releases DEF Claimed

(* Nothing is forgotten of what disturbed a run.                           *)
LEMMA Remembers ==
    ASSUME TypeOK, [Next]_vars
    PROVE  (Undisturbed' => Undisturbed) /\ damaged \subseteq damaged'
<1> USE DEF Undisturbed, history
<1>1. CASE UNCHANGED vars
  BY <1>1 DEF vars
<1> SUFFICES ASSUME NEW r \in Runs,
                    \/ ReserveBackup(r) \/ (\E b \in Runs : ReserveRestore(r, b))
                    \/ Step(r) \/ TriggerLost(r) \/ GiveBackRaises(r) \/ Raises(r) \/ Dies(r) \/ Lose(r) \/ Sweep(r)
             PROVE  (Undisturbed' => Undisturbed) /\ damaged \subseteq damaged'
  BY <1>1 DEF Next
<1>2. CASE Step(r)
  <2>1. strained' = strained /\ mixed' = mixed /\ damaged' = damaged
    BY <1>2 DEF Step, Trigger, FailDispatch, Start, Prepare, Claim, Capture, Captured, GiveBack,
       Clear, WriteManifest, Verify, List, Complete, Delete, Deleted, Stage, Apply, Record, FailRun
  <2> QED
    BY <2>1
<1>3. CASE ReserveBackup(r)
  BY <1>3 DEF ReserveBackup, TypeOK
<1>4. CASE (\E b \in Runs : ReserveRestore(r, b)) \/ GiveBackRaises(r) \/ Raises(r) \/ Dies(r) \/ Lose(r)
  <2>1. strained' = strained /\ mixed' = mixed
    BY <1>4 DEF ReserveRestore, GiveBackRaises, Raises, Dies, Lose
  <2>2. damaged' = damaged \/ damaged' = damaged \union {r}
    BY <1>4 DEF ReserveRestore, GiveBackRaises, Raises, Dies, Lose
  <2> QED
    BY <2>1, <2>2
<1>5. CASE Sweep(r) \/ TriggerLost(r)
  BY <1>5 DEF Sweep, Stall, TriggerLost
<1> QED
  BY <1>2, <1>3, <1>4, <1>5

(***************************************************************************)
(* The reservations                                                        *)
(***************************************************************************)
(* A reservation leaves what is offered as it is, and finds no backup at   *)
(* work.                                                                   *)
LEMMA Unoccupied ==
    ASSUME TypeOK, Shaped, Claimed, NEW r \in Runs, Reserving(r)
    PROVE  \A q \in Runs : ~Working(q)
<1> SUFFICES ASSUME NEW q \in Runs, Working(q) PROVE FALSE
  OBVIOUS
<1>1. Active(Released[q]) /\ Released[q].kind = "backup"
  BY Unreleased DEF Claimed
<1> QED
  BY <1>1 DEF Reserving, ReserveBackup, ReserveRestore

LEMMA BackupReserved ==
    ASSUME TypeOK, Shaped, Kinds, Calm, NEW r \in Runs, ReserveBackup(r), Undisturbed'
    PROVE  Calm'
<1>1. \A q \in Runs : ~InFlight(q)
  BY DEF ReserveBackup, Undisturbed
<1>2. /\ Others(r) /\ exec'[r].of = 0 /\ exec'[r].phase = "reserved"
      /\ copy' = copy /\ parts' = parts /\ listed' = listed /\ damaged' = damaged
  <2>1. Phase(r, "reserved") /\ "reserved" \in Phases /\ exec[r].of = 0
    BY DEF ReserveBackup, Phases, Shaped
  <2> QED
    BY <2>1, Moves DEF Phase, ReserveBackup, store
<1>3. \A q \in Runs : ~Restoring(q)'
  BY <1>1, <1>2 DEF InFlight, Restoring, Live, Others
<1>4. \A q \in Runs : Working(q)' => q = r
  <2>1. \A q \in Runs : ~Working(q)
    BY Unoccupied DEF Calm, Reserving
  <2> QED
    BY <1>2, <2>1 DEF Working, Live, Others
<1>5. \A g \in Runs \ {r} : ~Active(rows'[g])
  <2> SUFFICES ASSUME NEW g \in Runs \ {r}, Active(rows'[g]) PROVE FALSE
    OBVIOUS
  <2>1. rows'[g] = Released[g] /\ Released[g] = rows[g] /\ rows[g] \in Rows
    BY Reserves, Releases DEF ReserveBackup, TypeOK
  <2>2. rows[g].kind # "backup" /\ rows[g].kind # "none" /\ rows[g].kind # "restore"
    BY <1>1, <2>1 DEF ReserveBackup, Kinds, Sane, InFlight
  <2> QED
    BY <2>1, <2>2 DEF Rows
<1>6. rows'[r].kind = "backup" /\ Active(rows'[r]) /\ ~rows'[r].dir
  BY Reserves DEF ReserveBackup
<1>7. Claimed'
  BY <1>2, <1>4, <1>6 DEF Claimed, Active
<1>8. Alone'
  BY <1>3, <1>4, <1>5 DEF Alone, Active
<1>9. Copied'
  BY <1>2, <1>3 DEF Calm, Copied, Active
<1>10. Intact'
  BY <1>2 DEF Calm, Intact, Whole, Offered, Others
<1>11. Answered'
  BY DEF Calm, Answered, ReserveBackup
<1> QED
  BY <1>7, <1>8, <1>9, <1>10, <1>11 DEF Calm

LEMMA RestoreReserved ==
    ASSUME TypeOK, Shaped, Kinds, Calm, NEW r \in Runs, NEW b \in Runs, ReserveRestore(r, b)
    PROVE  Calm'
<1>1. /\ Others(r) /\ exec'[r].of # 0 /\ exec'[r].phase = "reserved"
      /\ copy' = copy /\ parts' = parts /\ listed' = listed /\ damaged' = damaged
  BY Starting DEF ReserveRestore, store, history
<1>2. \A q \in Runs : ~Working(q)'
  <2>1. \A q \in Runs : ~Working(q)
    BY Unoccupied DEF Calm, Reserving
  <2> QED
    BY <1>1, <2>1 DEF Working, Live, Others
<1>3. Copied'
  <2>1. \A q \in Runs : Restoring(q)' => Restoring(q) \/ exec[q].phase = "new"
    BY <1>1 DEF Restoring, Live, Others, ReserveRestore
  <2> QED
    BY <1>1, <2>1 DEF Calm, Copied, Active, Kinds, Sane
<1>4. Intact'
  BY <1>1 DEF Calm, Intact, Whole, Offered, Others
<1>5. Answered'
  BY DEF Calm, Answered, ReserveRestore
<1> QED
  BY <1>2, <1>3, <1>4, <1>5 DEF Calm, Claimed, Alone

(***************************************************************************)
(* The other steps                                                         *)
(***************************************************************************)
LEMMA Elsewhere ==
    ASSUME TypeOK, Shaped, NEW r \in Runs, Goes(r)
    PROVE  Others(r)
<1>1. CASE Going(r)
  BY <1>1, Moved DEF Onward
<1>2. CASE GiveBackRaises(r) \/ Raises(r)
  BY <1>2, Broken
<1>3. CASE Capture(r) \/ Apply(r)
  BY <1>3, Advanced
<1>4. CASE List(r) \/ \E b \in Runs : Deleted(r, b)
  BY <1>4, Pruned
<1>5. CASE Still(r)
  BY <1>5 DEF Still, Delete, Lose, Sweep, FailDispatch, Others
<1> QED
  BY <1>1, <1>2, <1>3, <1>4, <1>5 DEF Goes, Step, Going, Still

(* Only a ledger that is put back changes the row of another run, or       *)
(* reopens one.                                                            *)
LEMMA Keeps ==
    ASSUME TypeOK, NEW r \in Runs, Goes(r), ~Apply(r)
    PROVE  /\ \A q \in Runs \ {r} : rows'[q] = rows[q]
           /\ Active(rows'[r]) => Active(rows[r])
<1>1. CASE Start(r)
  BY <1>1, Writes DEF Start, Active
<1>2. CASE Claim(r) \/ GiveBack(r)
  BY <1>2, Names DEF Claim, GiveBack, Active
<1>3. CASE Complete(r) \/ FailRun(r) \/ Sweep(r) \/ FailDispatch(r)
  BY <1>3, Writes DEF Complete, FailRun, Sweep, FailDispatch, Active
<1>4. CASE Record(r)
  BY <1>4 DEF Record, TypeOK, Active
<1>5. CASE \/ Passes(r) \/ Prepare(r) \/ Clear(r) \/ WriteManifest(r) \/ Capture(r) \/ List(r)
           \/ Dies(r) \/ Lose(r) \/ Raises(r) \/ GiveBackRaises(r) \/ TriggerLost(r)
           \/ \E b \in Runs : Delete(r, b) \/ Deleted(r, b)
  <2>1. rows' = rows
    BY <1>5 DEF Passes, TriggerLost, Trigger, Captured, Verify, Stage, Prepare, Clear, WriteManifest, Capture,
       List, Dies, Lose, Raises, GiveBackRaises, Delete, Deleted
  <2> QED
    BY <2>1
<1> QED
  BY <1>1, <1>2, <1>3, <1>4, <1>5 DEF Goes, Step, Passes

(* Beside a backup at work nothing is put back.                            *)
LEMMA Unreplaced ==
    ASSUME TypeOK, Shaped, Alone, NEW r \in Runs, NEW q \in Runs, Working(q)
    PROVE  ~Apply(r) /\ ~Record(r) /\ ~Stage(r)
<1>1. exec[r].phase \in RestorePhases => Restoring(r)
  BY DEF Shaped, RestorePhases, Restoring, Live
<1> QED
  BY <1>1 DEF Alone, Apply, Record, Stage, RestorePhases

LEMMA AloneKept ==
    ASSUME TypeOK, Shaped, Calm, NEW r \in Runs, Goes(r)
    PROVE  Alone'
<1> SUFFICES ASSUME NEW q \in Runs, Working(q)'
             PROVE  /\ \A g \in Runs : Active(rows'[g]) => g = q
                    /\ \A p \in Runs : ~Restoring(p)'
  BY DEF Alone, Active
<1>1. Working(q)
  BY Works
<1>2. ~Apply(r)
  BY <1>1, Unreplaced DEF Calm
<1>3. \A g \in Runs : Active(rows'[g]) => Active(rows[g])
  BY <1>2, Keeps
<1> QED
  BY <1>1, <1>3, Works DEF Calm, Alone

LEMMA CopiedKept ==
    ASSUME TypeOK, Shaped, Calm, NEW r \in Runs, Goes(r)
    PROVE  Copied'
<1>1. CASE copy' = copy
  BY <1>1, Works DEF Calm, Copied, Active
<1>2. ASSUME NEW b \in Runs, Delete(r, b) PROVE Copied'
  <2>1. \A a, g \in Runs : copy'[a][g] \in {copy[a][g], NoRow}
    BY <1>2, Erases DEF NoRows
  <2> QED
    BY <2>1, Works DEF Calm, Copied, Active, NoRow
<1>3. CASE copy' # copy /\ ~\E b \in Runs : Delete(r, b)
  <2>1. Capture(r) /\ copy' = [copy EXCEPT ![r] = rows]
    BY <1>3 DEF Goes, Step, Trigger, TriggerLost, FailDispatch, Start, Prepare, Claim, Capture,
       Captured, GiveBack, Clear, WriteManifest, Verify, List, Complete, Deleted, Stage, Apply,
       Record, FailRun, GiveBackRaises, Raises, Dies, Lose, Sweep, store
  <2>2. exec[r].phase = "capturing" /\ Working(r)
    BY <2>1 DEF Capture, Working, Live, Shaped, BackupPhases
  <2>3. /\ rows[r].dir /\ \A g \in Runs : Active(rows[g]) => g = r
        /\ \A q \in Runs : ~Restoring(q)
    BY <2>2 DEF Calm, Claimed, Alone
  <2>4. \A q \in Runs : ~Restoring(q)'
    BY <2>3, Works
  <2>5. \A b \in Runs : copy'[b] = IF b = r THEN rows ELSE copy[b]
    BY <2>1 DEF TypeOK
  <2> QED
    BY <2>3, <2>4, <2>5 DEF Calm, Copied, Active
<1> QED
  BY <1>1, <1>2, <1>3

LEMMA ClaimedKept ==
    ASSUME TypeOK, Shaped, Calm, NEW r \in Runs, Goes(r), Undisturbed'
    PROVE  Claimed'
<1> SUFFICES ASSUME NEW q \in Runs, Working(q)'
             PROVE  /\ rows'[q].kind = "backup" /\ Active(rows'[q])
                    /\ exec'[q].phase = "capturing" => rows'[q].dir
                    /\ rows'[q].dir => /\ exec'[q].phase \in {"capturing", "returning", "clearing"}
                                       /\ exec'[q].phase = "clearing" => ~exec'[q].ok
  BY DEF Claimed, Active
<1> DEFINE Goal == /\ rows'[q].kind = "backup" /\ Active(rows'[q])
                   /\ exec'[q].phase = "capturing" => rows'[q].dir
                   /\ rows'[q].dir => /\ exec'[q].phase \in {"capturing", "returning", "clearing"}
                                      /\ exec'[q].phase = "clearing" => ~exec'[q].ok
<1>1. Working(q)
  BY Works
<1>2. ~Apply(r) /\ ~Record(r) /\ ~Stage(r)
  BY <1>1, Unreplaced DEF Calm
<1>3. /\ rows[q].kind = "backup" /\ Active(rows[q])
      /\ exec[q].phase = "capturing" => rows[q].dir
      /\ rows[q].dir => /\ exec[q].phase \in {"capturing", "returning", "clearing"}
                        /\ exec[q].phase = "clearing" => ~exec[q].ok
  BY <1>1 DEF Calm, Claimed
<1>4. ASSUME rows'[q] = rows[q], exec'[q] = exec[q] PROVE Goal
  BY <1>3, <1>4
<1>5. CASE q # r
  BY <1>2, <1>4, <1>5, Elsewhere, Keeps DEF Others
<1>6. CASE q = r
  <2>1. ASSUME NEW p \in Phases, Phase(r, p)
        PROVE  exec'[r].phase = p /\ exec'[r].ok = exec[r].ok
    BY <2>1, Moves DEF Phase
  <2>2. ASSUME rows'[r] = rows[r], exec'[r].phase # "capturing",
               exec[r].phase \notin {"capturing", "returning", "clearing"}
        PROVE  Goal
    BY <1>3, <1>6, <2>2
  <2>3. CASE Trigger(r) \/ Prepare(r) \/ WriteManifest(r) \/ Verify(r)
    <3>1. exec'[r].phase \in {"due", "claiming", "verifying", "listing", "failing"}
      BY <2>1, <2>3 DEF Trigger, Prepare, WriteManifest, Verify, Phases
    <3> QED
      BY <2>2, <2>3, <3>1 DEF Trigger, Prepare, WriteManifest, Verify
  <2>4. CASE List(r) \/ \E b \in Runs : Deleted(r, b)
    <3>1. exec'[r].phase = "pruning" /\ exec[r].phase \in {"listing", "pruning"} /\ rows' = rows
      BY <2>4, Pruned DEF List, Deleted
    <3> QED
      BY <2>2, <3>1
  <2>5. CASE Start(r)
    <3>1. CASE Phase(r, "over")
      BY <1>6, <2>1, <3>1 DEF Working, Live, Phases
    <3>2. CASE Written(r, "running") /\ Phase(r, IF exec[r].of = 0 THEN "preparing" ELSE "staging")
      <4>1. exec'[r].phase \in {"preparing", "staging"}
        BY <2>1, <3>2 DEF Phases
      <4>2. /\ rows'[r].kind = rows[r].kind /\ rows'[r].dir = rows[r].dir
            /\ rows'[r].status = IF rows[r].kind = "none" THEN rows[r].status ELSE "running"
        BY <3>2, Writes
      <4>3. exec[r].phase = "due"
        BY <2>5 DEF Start
      <4> QED
        BY <1>3, <1>6, <4>1, <4>2, <4>3 DEF Active
    <3> QED
      BY <2>5, <3>1, <3>2 DEF Start
  <2>6. CASE Claim(r) \/ GiveBack(r)
    <3>1. exec'[r].phase = IF Claim(r) THEN "capturing" ELSE "clearing"
      BY <2>1, <2>6 DEF Claim, GiveBack, Phases
    <3>2. rows'[r].kind = rows[r].kind /\ rows'[r].status = rows[r].status
      BY <2>6, Names DEF Claim, GiveBack
    <3>3. rows'[r].dir <=> Claim(r)
      BY <1>3, <1>6, <2>6, Names DEF Claim, GiveBack
    <3> QED
      BY <1>3, <1>6, <2>6, <3>1, <3>2, <3>3 DEF Active
  <2>7. CASE Captured(r) \/ Clear(r)
    <3>1. /\ rows' = rows /\ exec'[r].ok = exec[r].ok
          /\ \/ exec'[r].phase = "returning"
             \/ exec[r].phase = "clearing" /\ exec'[r].phase = IF exec[r].ok THEN "describing" ELSE "failing"
      BY <2>1, <2>7 DEF Captured, Clear, Phases
    <3> QED
      BY <1>3, <1>6, <3>1 DEF Working
  <2>8. CASE Capture(r)
    <3>1. ~Apply(r)
      BY <1>2
    <3>2. exec'[r].phase = exec[r].phase /\ exec'[r].ok = exec[r].ok /\ rows' = rows
      BY <2>8, <3>1, Advanced DEF Capture
    <3> QED
      BY <1>3, <1>6, <3>2
  <2>9. CASE GiveBackRaises(r) \/ Raises(r)
    <3>1. /\ rows' = rows /\ ~exec'[r].ok
          /\ exec'[r].phase \in {"returning", "clearing", "failing"}
      BY <2>9, Broken DEF GiveBackRaises, Raises
    <3> QED
      BY <1>3, <1>6, <3>1 DEF Working
  <2>10. CASE Complete(r) \/ FailRun(r) \/ Dies(r)
    <3>1. exec'[r].phase = "over"
      BY <2>1, <2>10 DEF Complete, FailRun, Dies, Phases
    <3> QED
      BY <1>6, <3>1 DEF Working, Live
  <2>11. CASE (\E b \in Runs : Delete(r, b)) \/ Lose(r)
    BY <1>4, <1>6, <2>11 DEF Delete, Lose
  <2>12. CASE Sweep(r) \/ TriggerLost(r)
    BY <1>1, <1>6, <2>12 DEF Sweep, TriggerLost, Stall, Working, Undisturbed
  <2>13. ~FailDispatch(r)
    BY DEF FailDispatch, Calm, Answered
  <2> QED
    BY <1>2, <2>13, <2>3, <2>4, <2>5, <2>6, <2>7, <2>8, <2>9, <2>10, <2>11, <2>12 DEF Goes, Step
<1> QED
  BY <1>5, <1>6

LEMMA IntactKept ==
    ASSUME TypeOK, Shaped, Calm, NEW r \in Runs, Goes(r)
    PROVE  Intact'
<1> SUFFICES ASSUME NEW q \in Runs, exec'[q].phase \in {"listing", "pruning"}, q \notin damaged'
             PROVE  Whole(q)'
  BY DEF Intact
<1> USE DEF Whole, Offered
<1>1. damaged \subseteq damaged' /\ Others(r)
  <2>1. [Next]_vars
    BY DEF Goes, Next
  <2> QED
    BY <2>1, Remembers, Elsewhere
<1>2. ASSUME NEW p \in Phases, Phase(r, p), p \notin {"listing", "pruning"} PROVE q # r
  BY <1>2, Moves DEF Phase
<1>3. ASSUME exec[q].phase \in {"listing", "pruning"}, parts'[q] = parts[q], listed'[q] = listed[q]
      PROVE  Whole(q)'
  BY <1>1, <1>3 DEF Calm, Intact
<1>4. ASSUME q # r, parts'[q] = parts[q], listed'[q] = listed[q] PROVE Whole(q)'
  BY <1>1, <1>3, <1>4 DEF Others
<1>5. CASE \/ Trigger(r) \/ TriggerLost(r) \/ Start(r) \/ Prepare(r) \/ Claim(r) \/ Captured(r) \/ GiveBack(r) \/ Clear(r)
           \/ Complete(r) \/ Stage(r) \/ Record(r) \/ FailRun(r) \/ Dies(r)
  <2>1. parts' = parts /\ listed' = listed
    BY <1>5 DEF Trigger, TriggerLost, Start, Prepare, Claim, Captured, GiveBack, Clear, Complete, Stage, Record,
       FailRun, Dies, store
  <2>2. PICK p \in Phases \ {"listing", "pruning"} : Phase(r, p)
    BY <1>5 DEF Trigger, TriggerLost, Start, Prepare, Claim, Captured, GiveBack, Clear, Complete, Stage, Record,
       FailRun, Dies, Phases
  <2> QED
    BY <1>2, <1>4, <2>1, <2>2
<1>6. CASE WriteManifest(r)
  <2>1. "verifying" \in Phases
    BY DEF Phases
  <2> QED
    BY <1>2, <1>4, <1>6, <2>1 DEF WriteManifest, TypeOK
<1>7. CASE Verify(r)
  <2>1. parts' = parts /\ listed' = listed
    BY <1>7 DEF Verify, store
  <2>2. CASE Whole(r)
    BY <1>4, <2>1, <2>2
  <2>3. CASE ~Whole(r)
    BY <1>2, <1>4, <1>7, <2>1, <2>3 DEF Verify, Phases
  <2> QED
    BY <2>2, <2>3
<1>8. CASE GiveBackRaises(r) \/ Raises(r)
  <2>1. parts' = parts /\ listed' = listed /\ q # r
    BY <1>8, Broken DEF GiveBackRaises, Raises, store
  <2> QED
    BY <1>4, <2>1
<1>9. CASE Capture(r) \/ Apply(r)
  <2>1. exec[r].phase \in {"capturing", "applying"} /\ exec'[r].phase \in {"recording", exec[r].phase}
    BY <1>9, Advanced DEF Capture, Apply
  <2>2. listed' = listed /\ \A b \in Runs \ {r} : parts'[b] = parts[b]
    BY <1>9 DEF Capture, Apply, store, TypeOK
  <2> QED
    BY <1>4, <2>1, <2>2
<1>10. CASE List(r) \/ \E b \in Runs : Deleted(r, b)
  <2>1. parts' = parts /\ listed' = listed /\ exec[r].phase \in {"listing", "pruning"}
    BY <1>10 DEF List, Deleted, store
  <2> QED
    BY <1>3, <1>4, <2>1
<1>11. ASSUME NEW b \in Runs, Delete(r, b) PROVE Whole(q)'
  <2>1. exec[r].phase = "pruning" /\ b # r /\ exec' = exec
    BY <1>11 DEF Delete, Shaped
  <2>2. Working(q) /\ Working(r)
    BY <2>1 DEF Working, Live, Shaped, BackupPhases
  <2>3. q = r
    BY <2>2 DEF Calm, Claimed, Alone
  <2>4. parts'[q] = parts[q] /\ listed'[q] = listed[q]
    BY <1>11, <2>1, <2>3 DEF Delete, TypeOK
  <2> QED
    BY <1>3, <2>1, <2>4
<1>12. CASE Lose(r)
  <2>1. q # r /\ exec' = exec
    BY <1>12 DEF Lose
  <2> QED
    BY <1>4, <1>12, <2>1 DEF Lose, TypeOK
<1>13. CASE Sweep(r) \/ FailDispatch(r)
  BY <1>3, <1>13 DEF Sweep, FailDispatch, store
<1> QED
  BY <1>5, <1>6, <1>7, <1>8, <1>9, <1>10, <1>11, <1>12, <1>13 DEF Goes, Step

LEMMA AnsweredKept ==
    ASSUME Answered, NEW r \in Runs, Goes(r), Undisturbed'
    PROVE  Answered'
<1>1. ~FailDispatch(r) /\ ~TriggerLost(r)
  BY DEF Answered, FailDispatch, TriggerLost, Undisturbed
<1>2. unanswered' = unanswered
  BY <1>1 DEF Goes, Step, Trigger, Start, Prepare, Claim, Capture, Captured, GiveBack, Clear,
     WriteManifest, Verify, List, Complete, Delete, Deleted, Stage, Apply, Record, FailRun,
     GiveBackRaises, Raises, Dies, Lose, Sweep
<1> QED
  BY <1>2 DEF Answered

(***************************************************************************)
(* The theorems                                                            *)
(***************************************************************************)
LEMMA InitIInv == Init => IInv
<1> SUFFICES ASSUME Init PROVE IInv
  OBVIOUS
<1>1. NoRow \in Rows /\ Idle \in Execs
  BY ComponentsAssumption DEF NoRow, Rows, Idle, Execs, Phases
<1>2. \A r \in Runs : exec[r] = Idle /\ rows[r] = NoRow /\ \A b \in Runs : copy[b][r] = NoRow
  BY DEF Init, NoRows
<1>3. TypeOK
  <2>1. NoRows \in [Runs -> Rows]
    BY <1>1 DEF NoRows
  <2>2. copy \in [Runs -> [Runs -> Rows]] /\ rows \in [Runs -> Rows]
    BY <2>1 DEF Init
  <2>3. exec \in [Runs -> Execs]
    BY <1>1 DEF Init
  <2>4. parts \in [Runs -> SUBSET Components] /\ listed \in [Runs -> SUBSET Components]
    BY DEF Init
  <2>5. /\ unanswered \subseteq Runs /\ staging \subseteq Runs /\ damaged \subseteq Runs
        /\ mixed \in BOOLEAN /\ strained \in BOOLEAN
    BY DEF Init
  <2>6. faults \in 0 .. MaxFaults /\ stalls \in 0 .. MaxStalls
    BY BoundAssumption DEF Init
  <2> QED
    BY <2>2, <2>3, <2>4, <2>5, <2>6 DEF TypeOK
<1>4. Shaped
  BY <1>2, ComponentsAssumption DEF Shaped, Idle, BackupPhases, RestorePhases, Capturing
<1>5. Kinds
  BY <1>2 DEF Kinds, Sane, NoRow, Idle, Active
<1>6. Calm
  BY <1>2 DEF Init, Calm, Answered, Claimed, Alone, Copied, Intact, Working, Restoring, Live, Idle, NoRow, Active
<1> QED
  BY <1>3, <1>4, <1>5, <1>6 DEF IInv

LEMMA NextIInv == IInv /\ [Next]_vars => IInv'
<1> SUFFICES ASSUME IInv, [Next]_vars PROVE IInv'
  OBVIOUS
<1>1. TypeOK' /\ Shaped' /\ Kinds'
  BY TypeStep, ShapedStep, KindsStep DEF IInv
<1>2. ASSUME Undisturbed' PROVE Calm'
  <2>1. Calm
    BY <1>2, Remembers DEF IInv
  <2>2. CASE UNCHANGED vars
    BY <2>1, <2>2 DEF vars, store, history, Calm, Answered, Claimed, Alone, Copied, Intact, Working,
       Restoring, Live, Active, Whole, Offered
  <2>3. ASSUME NEW r \in Runs, Reserving(r) PROVE Calm'
    BY <1>2, <2>1, <2>3, BackupReserved, RestoreReserved DEF IInv, Reserving
  <2>4. ASSUME NEW r \in Runs, Goes(r) PROVE Calm'
    BY <1>2, <2>1, <2>4, AnsweredKept, ClaimedKept, AloneKept, CopiedKept, IntactKept DEF IInv, Calm
  <2> QED
    BY <2>2, <2>3, <2>4 DEF Next, Reserving, Goes
<1> QED
  BY <1>1, <1>2 DEF IInv

LEMMA Invariance == Spec => []IInv
  BY InitIInv, NextIInv, PTL DEF Spec

(* Every state has its type, whatever happens to runs and ledgers.         *)
THEOREM TypeCorrect == Spec => []TypeOK
<1>1. IInv => TypeOK
  BY DEF IInv
<1> QED
  BY <1>1, Invariance, PTL

(* backup/runs.py:230 no two backups capture at once, through any number   *)
(* of backups, restores of the ledger, errors, deaths and sweeps, unless a *)
(* live run was declared dead, by a sweep or by a caller that lost the     *)
(* answer to its trigger, or a backup was reserved during a restore.       *)
THEOREM CapturesAlone == Spec => []UndisturbedCapturesAlone
<1>1. IInv => UndisturbedCapturesAlone
  <2> SUFFICES ASSUME IInv, Undisturbed, NEW r \in Runs, NEW s \in Runs, Capturing(r), Capturing(s)
               PROVE  r = s
    BY DEF UndisturbedCapturesAlone
  <2>1. Working(r) /\ Working(s)
    BY DEF IInv, Shaped, Capturing, BackupPhases, Working, Live
  <2> QED
    BY <2>1 DEF IInv, Calm, Claimed, Alone
<1> QED
  BY <1>1, Invariance, PTL

(* backup/runs.py:220 an archive holds no unfinished run but its own, and  *)
(* the next reservation after a restore can release that one, unless a     *)
(* live run was declared dead - by a sweep, or by the caller whose trigger *)
(* was accepted and its answer lost (:280) - or a backup was reserved      *)
(* during a restore: the code keeps the rule in all other histories only.  *)
THEOREM CopiesReleasable == Spec => []UndisturbedCopies
<1>1. IInv => UndisturbedCopies
  BY DEF IInv, Calm, Copied, UndisturbedCopies
<1> QED
  BY <1>1, Invariance, PTL

(* backup/runs.py:470 no reservation, ledger put back or sweep fails the   *)
(* row of a run that is at work.                                           *)
THEOREM LiveKept == Spec => LiveNotReleased
<1>1. ASSUME IInv, [Next]_vars, Undisturbed', NEW q \in Runs, Live(q), exec[q].ok, exec'[q] = exec[q],
             Active(rows[q]), rows'[q].kind # "none"
      PROVE  Active(rows'[q])
  <2> USE DEF IInv
  <2>1. Calm /\ TypeOK /\ Shaped /\ Kinds
    BY <1>1, Remembers
  <2>2. exec[q].of = 0 => Working(q)
    BY <1>1 DEF Working
  <2>3. CASE UNCHANGED vars
    BY <1>1, <2>3 DEF vars
  <2>4. ASSUME NEW r \in Runs, NEW kind \in {"backup", "restore"}, Reserved(r, kind),
               exec'[r].phase = "reserved", exec[r].phase = "new"
        PROVE  Active(rows'[q])
    <3>1. q # r
      BY <1>1, <2>4 DEF Live
    <3>2. ~Releasable(q)
      <4>1. rows[q].kind = "backup" => Working(q)
        BY <2>1, <2>2 DEF Kinds, Sane
      <4> QED
        BY <2>1, <4>1, Unreleased DEF Calm, Releasable
    <3>3. rows'[q] = rows[q]
      BY <2>1, <2>4, <3>1, <3>2, Reserves, Releases
    <3> QED
      BY <1>1, <3>3
  <2>5. ASSUME NEW r \in Runs, ReserveBackup(r) PROVE Active(rows'[q])
    <3>1. "reserved" \in Phases
      BY DEF Phases
    <3>2. exec'[r].phase = "reserved"
      BY <2>1, <2>5, <3>1, Moves DEF ReserveBackup, Phase
    <3> QED
      BY <2>4, <2>5, <3>2 DEF ReserveBackup
  <2>6. ASSUME NEW r \in Runs, NEW b \in Runs, ReserveRestore(r, b) PROVE Active(rows'[q])
    BY <2>1, <2>4, <2>6, Starting DEF ReserveRestore
  <2>7. ASSUME NEW r \in Runs, Apply(r) PROVE Active(rows'[q])
    <3>1. ~Working(q)
      BY <2>1, <2>7, Unreplaced DEF Calm
    <3>2. exec[r].of \in Runs /\ copy[exec[r].of][q].kind = "none"
      <4>1. Restoring(q)
        BY <1>1, <2>2, <3>1 DEF Restoring
      <4>2. exec[r].of \in Runs
        BY <2>1, <2>7 DEF Apply, Shaped, RestorePhases, TypeOK, Execs
      <4> QED
        BY <2>1, <4>1, <4>2 DEF Calm, Copied
    <3> QED
      BY <1>1, <2>7, <3>2 DEF Apply
  <2>8. ASSUME NEW r \in Runs, Goes(r), ~Apply(r), q # r PROVE Active(rows'[q])
    BY <1>1, <2>1, <2>8, Keeps
  <2>9. ASSUME Goes(q), ~Apply(q) PROVE Active(rows'[q])
    <3>1. ASSUME NEW p \in Phases, Phase(q, p) PROVE exec[q].phase = p
      <4>1. TypeOK /\ exec' = [exec EXCEPT ![q].phase = p]
        BY <2>1, <3>1 DEF Phase
      <4>2. exec'[q].phase = p
        BY <4>1, Moves
      <4>3. exec'[q] = exec[q]
        BY <1>1
      <4> QED
        BY <4>2, <4>3
    <3>2. ~(Start(q) \/ Complete(q) \/ FailRun(q) \/ Record(q))
      BY <1>1, <3>1 DEF Start, Complete, FailRun, Record, Phases, Live
    <3>3. ~Sweep(q) /\ ~FailDispatch(q)
      BY <1>1, <2>1 DEF Sweep, Stall, Undisturbed, FailDispatch, Calm, Answered
    <3>4. CASE Claim(q) \/ GiveBack(q)
      BY <1>1, <2>1, <3>4, Names DEF Claim, GiveBack, Active
    <3>5. CASE \/ Passes(q) \/ Prepare(q) \/ Clear(q) \/ WriteManifest(q) \/ Capture(q) \/ List(q)
               \/ Dies(q) \/ Lose(q) \/ Raises(q) \/ GiveBackRaises(q) \/ TriggerLost(q)
               \/ \E b \in Runs : Delete(q, b) \/ Deleted(q, b)
      <4>1. rows' = rows
        BY <3>5 DEF Passes, TriggerLost, Trigger, Captured, Verify, Stage, Prepare, Clear, WriteManifest, Capture,
           List, Dies, Lose, Raises, GiveBackRaises, Delete, Deleted
      <4> QED
        BY <1>1, <4>1
    <3> QED
      BY <2>9, <3>2, <3>3, <3>4, <3>5 DEF Goes, Step, Passes
  <2> QED
    BY <1>1, <2>3, <2>5, <2>6, <2>7, <2>8, <2>9 DEF Next, Goes
<1>2. IInv /\ [Next]_vars =>
        [\A r \in Runs :
            /\ Undisturbed' /\ Live(r) /\ exec[r].ok /\ exec'[r] = exec[r]
            /\ Active(rows[r]) /\ rows'[r].kind # "none"
            => Active(rows'[r])]_vars
  BY <1>1
<1> QED
  BY <1>2, Invariance, PTL DEF Spec, LiveNotReleased

(* docs/product/backup.md: a run that is marked completed has a backup     *)
(* that is offered and whole.                                              *)
THEOREM CompletedWhole == Spec => CompletedIsWhole
<1>1. IInv /\ [Next]_vars =>
        [\A r \in Runs :
            /\ exec[r].phase = "pruning" /\ exec'[r].phase = "over"
            /\ rows'[r].status = "completed" /\ Undisturbed /\ r \notin damaged
            => Whole(r)]_vars
  BY DEF IInv, Calm, Intact
<1> QED
  BY <1>1, Invariance, PTL DEF Spec, CompletedIsWhole
=============================================================================
