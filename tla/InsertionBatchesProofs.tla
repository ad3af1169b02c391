----------------------- MODULE InsertionBatchesProofs -----------------------
(* Theorems about InsertionBatches, for any number of batches, documents,  *)
(* stages and sweepers and any bounds.                                     *)
EXTENDS InsertionBatches, TLAPS

USE BatchAssumption, StageAssumption, ProviderAssumption, BoundAssumption
USE DEF row, ledger, engine, history

Sweeps == [phase : {"resting", "picked", "judging"}, batch : Batches \union {NoBatch},
           idle : {"silent", "abandoned"}]

(* A claimed stage has one worker, at the position the task was given.     *)
Worked ==
    /\ \A b \in Batches, d \in Docs :
          task[b][d].phase = "working" => d \in held /\ at[d] = task[b][d].stage
    /\ \A d \in Docs, b, c \in Batches :
          task[b][d].phase = "working" /\ task[c][d].phase = "working" => b = c

(* Tasks exist for documents the batch owns, from the moment its launch is *)
(* accepted, and a launch that failed left none.                           *)
Launched ==
    /\ \A b \in Batches, d \in Docs :
          ~Over(task[b][d]) => d \in owned[b] /\ call[b] \in {"none", "accepted", "marked"}
    /\ \A b \in Batches : known[b] => call[b] = "none"

(* A batch that is failed, or was never created, has nothing under way; nor *)
(* has one whose workflows are gone.                                        *)
Still(b) == call[b] = "none" /\ \A d \in Docs : Over(task[b][d])
Ceased ==
    /\ \A b \in Batches : status[b] \in {"none", "failed"} => Still(b)
    /\ \A b \in gone :
          call[b] \notin {"created", "reserved"} /\ \A d \in Docs : Over(task[b][d])
    /\ \A s \in Sweepers :
          sweep[s].phase # "resting"
          => /\ sweep[s].batch \in Batches
             /\ sweep[s].idle = "abandoned" => Still(sweep[s].batch)

(* Batches that may drive their documents own different ones.              *)
Claimant(b) ==
    /\ Active(status[b]) /\ b \notin overtaken
    /\ call[b] \in {"reserved", "accepted"} \/ \E d \in Docs : ~Over(task[b][d])
Apart ==
    \A b, c \in Batches :
        Claimant(b) /\ Claimant(c) /\ b # c => owned[b] \cap owned[c] = {}

Inductive == TypeOK /\ Worked /\ (~strained => Launched /\ Ceased /\ Apart)

LEMMA FreshTyped ==
    /\ NoTask \in Tasks
    /\ [NoTask EXCEPT !.phase = "over"] \in Tasks
    /\ \A s \in 1 .. N, n \in 0 .. Retries :
          [NoTask EXCEPT !.phase = "due", !.stage = s, !.tries = n] \in Tasks
    /\ \A s \in 1 .. N : [NoTask EXCEPT !.phase = "due", !.stage = s] \in Tasks
<1>1. 1 \in 1 .. N /\ 0 \in 0 .. Retries
  OBVIOUS
<1>2. NoTask \in Tasks
  BY <1>1 DEF NoTask, Tasks
<1>3. [NoTask EXCEPT !.phase = "over"] \in Tasks
  BY <1>2 DEF Tasks
<1>4. ASSUME NEW s \in 1 .. N
      PROVE  [NoTask EXCEPT !.phase = "due", !.stage = s] \in Tasks
  BY <1>2, <1>4 DEF Tasks
<1>5. ASSUME NEW s \in 1 .. N, NEW n \in 0 .. Retries
      PROVE  [NoTask EXCEPT !.phase = "due", !.stage = s, !.tries = n] \in Tasks
  BY <1>2, <1>5 DEF Tasks
<1> QED
  BY <1>2, <1>3, <1>4, <1>5

LEMMA FollowedTyped == \A t \in Tasks : Followed(t, N) \in Tasks
<1> SUFFICES ASSUME NEW t \in Tasks PROVE Followed(t, N) \in Tasks
  OBVIOUS
<1>1. t.stage \in 1 .. N /\ t.tries \in 0 .. Retries
  BY DEF Tasks
<1>2. t.stage # N => t.stage + 1 \in 1 .. N
  BY <1>1
<1>3. t.tries < Retries => t.tries + 1 \in 0 .. Retries
  BY <1>1
<1> QED
  BY <1>1, <1>2, <1>3, FreshTyped DEF Followed

LEMMA EndedTyped == \A t \in Tasks, ok \in BOOLEAN : Ended(t, ok) \in Tasks
  BY DEF Ended, Tasks

LEMMA ScheduledTyped ==
    ASSUME TypeOK, NEW b \in Batches
    PROVE  Scheduled(b) \in [Batches -> [Docs -> Tasks]]
<1>1. FirstStage(b) \in 1 .. N
  BY DEF FirstStage
<1> QED
  BY <1>1, FreshTyped DEF Scheduled, TypeOK

LEMMA ProgressTyped == \A b : Progress(b) \in {"completed", "running"}
  BY DEF Progress

LEMMA FaultsTyped ==
    /\ TypeOK /\ Fault => faults' \in 0 .. MaxFaults
    /\ TypeOK /\ Stall => stalls' \in 0 .. MaxStalls /\ strained' \in BOOLEAN
    /\ TypeOK /\ Calm => stalls' \in 0 .. MaxStalls /\ strained' \in BOOLEAN
<1>1. TypeOK /\ Fault => faults' \in 0 .. MaxFaults
  <2> SUFFICES ASSUME TypeOK, Fault PROVE faults' \in 0 .. MaxFaults
    OBVIOUS
  <2>1. faults \in 0 .. MaxFaults /\ faults < MaxFaults /\ faults' = faults + 1
    BY DEF TypeOK, Fault
  <2> QED
    BY <2>1
<1>2. TypeOK /\ Stall => stalls' \in 0 .. MaxStalls /\ strained' \in BOOLEAN
  <2> SUFFICES ASSUME TypeOK, Stall PROVE stalls' \in 0 .. MaxStalls /\ strained' \in BOOLEAN
    OBVIOUS
  <2>1. stalls \in 0 .. MaxStalls /\ stalls < MaxStalls /\ stalls' = stalls + 1
    BY DEF TypeOK, Stall
  <2> QED
    BY <2>1 DEF Stall
<1>3. TypeOK /\ Calm => stalls' \in 0 .. MaxStalls /\ strained' \in BOOLEAN
  BY DEF TypeOK, Calm
<1> QED
  BY <1>1, <1>2, <1>3

LEMMA CallTyped ==
    ASSUME TypeOK, NEW b \in Batches,
           \/ Create(b) \/ CallStep(b) \/ TriggerRaises(b) \/ CallerDies(b) \/ LocalFails(b)
    PROVE  TypeOK'
<1>1. CASE Create(b)
  <2>1. [task EXCEPT ![b] = [d \in Docs |-> NoTask]] \in [Batches -> [Docs -> Tasks]]
    BY FreshTyped DEF TypeOK
  <2> QED
    BY <1>1, <2>1 DEF TypeOK, Create, Written, Calling, Calls
<1>2. CASE Reserve(b)
  BY <1>2 DEF TypeOK, Reserve, Written, Calling, Calls
<1>3. CASE Trigger(b)
  BY <1>3, ScheduledTyped DEF TypeOK, Trigger, Calling, Calls
<1>4. CASE Mark(b)
  BY <1>4 DEF TypeOK, Mark, Written, Calling, Calls
<1>5. CASE RecordProvider(b)
  BY <1>5 DEF TypeOK, RecordProvider, Written, Calling, Calls
<1>6. CASE FailRun(b)
  BY <1>6 DEF TypeOK, FailRun, Written, Calling, Calls
<1>7. CASE LocalStart(b)
  BY <1>7 DEF TypeOK, LocalStart, Written, Calling, Calls
<1>8. ASSUME NEW d \in Docs, LocalStep(b, d) PROVE TypeOK'
  <2>1. at[d] \in 1 .. N /\ at[d] + 1 \in 1 .. N + 1
    BY <1>8 DEF TypeOK, LocalStep, Open
  <2> QED
    BY <1>8, <2>1 DEF TypeOK, LocalStep
<1>9. CASE LocalDone(b)
  BY <1>9 DEF TypeOK, LocalDone, Written, Calling, Calls
<1>10. CASE TriggerRaises(b)
  <2>1. task' \in [Batches -> [Docs -> Tasks]]
    BY <1>10, ScheduledTyped DEF TypeOK, TriggerRaises
  <2>2. faults' \in 0 .. MaxFaults /\ stalls' \in 0 .. MaxStalls /\ strained' \in BOOLEAN
    BY <1>10, FaultsTyped DEF TypeOK, TriggerRaises
  <2> QED
    BY <1>10, <2>1, <2>2 DEF TypeOK, TriggerRaises, Calling, Calls
<1>11. CASE CallerDies(b)
  BY <1>11, FaultsTyped DEF TypeOK, CallerDies, Calling, Calls
<1>12. CASE LocalFails(b)
  BY <1>12, FaultsTyped DEF TypeOK, LocalFails, Calling, Calls
<1> QED
  BY <1>1, <1>2, <1>3, <1>4, <1>5, <1>6, <1>7, <1>8, <1>9, <1>10, <1>11, <1>12 DEF CallStep

LEMMA TaskTyped ==
    ASSUME TypeOK, Worked, NEW b \in Batches, NEW d \in Docs,
           TaskStep(b, d) \/ Fails(b, d) \/ WorkerDies(b, d)
    PROVE  TypeOK'
<1>1. task[b][d] \in Tasks
  BY DEF TypeOK
<1>2. CASE Claims(b, d)
  <2>1. [task[b][d] EXCEPT !.phase = "working"] \in Tasks
    BY <1>1 DEF Tasks
  <2>2. task \in [Batches -> [Docs -> Tasks]]
    BY DEF TypeOK
  <2>3. \/ task' = [task EXCEPT ![b][d].phase = "working"]
        \/ task' = [task EXCEPT ![b][d] = Ended(@, at[d] # task[b][d].stage)]
    BY <1>2 DEF Claims
  <2>4. Ended(task[b][d], at[d] # task[b][d].stage) \in Tasks
    BY <1>1, EndedTyped
  <2>5. task' \in [Batches -> [Docs -> Tasks]]
    BY <2>1, <2>2, <2>3, <2>4
  <2>6. held' \subseteq Docs
    BY <1>2 DEF Claims, TypeOK
  <2> QED
    BY <1>2, <2>5, <2>6 DEF TypeOK, Claims
<1>3. CASE Derives(b, d)
  <2>1. at[d] \in 1 .. N
    BY <1>1, <1>3 DEF Derives, Worked, Tasks
  <2>2. at[d] + 1 \in 1 .. N + 1 /\ N + 1 \in 1 .. N + 1
    BY <2>1
  <2>3. at' \in [Docs -> 1 .. N + 1]
    BY <1>3, <2>2 DEF Derives, TypeOK
  <2>4. Ended(task[b][d], TRUE) \in Tasks
    BY <1>1, EndedTyped
  <2>5. task' \in [Batches -> [Docs -> Tasks]]
    BY <1>3, <2>4 DEF Derives, TypeOK
  <2> QED
    BY <1>3, <2>3, <2>5 DEF TypeOK, Derives
<1>4. CASE Fails(b, d)
  BY <1>1, <1>4, EndedTyped, FaultsTyped DEF TypeOK, Fails
<1>5. CASE Asks(b, d)
  BY <1>1, <1>5 DEF TypeOK, Asks, Tasks, LastOne
<1>6. CASE Refreshes(b, d)
  BY <1>1, <1>6, FollowedTyped, ProgressTyped DEF TypeOK, Refreshes, Written
<1>7. CASE Skips(b, d)
  BY <1>1, <1>7, FollowedTyped DEF TypeOK, Skips
<1>8. CASE WorkerDies(b, d)
  <2>1. [task[b][d] EXCEPT !.ok = FALSE] \in Tasks
    BY <1>1 DEF Tasks
  <2> QED
    BY <1>8, <2>1, FollowedTyped, FaultsTyped DEF TypeOK, WorkerDies
<1> QED
  BY <1>2, <1>3, <1>4, <1>5, <1>6, <1>7, <1>8 DEF TaskStep

LEMMA OtherTyped ==
    ASSUME TypeOK,
           \/ \E b \in Batches : EngineForgets(b)
           \/ \E d \in Docs : ExpireClaim(d) \/ \E s \in 1 .. N : Reopen(d, s)
           \/ \E s \in Sweepers : SweepStep(s)
                 \/ \E b \in Batches, idle \in {"silent", "abandoned"} : Pick(s, b, idle)
    PROVE  TypeOK'
<1>1. ASSUME NEW b \in Batches, EngineForgets(b) PROVE TypeOK'
  <2>1. [task EXCEPT ![b] = [d \in Docs |-> NoTask]] \in [Batches -> [Docs -> Tasks]]
    BY FreshTyped DEF TypeOK
  <2> QED
    BY <1>1, <2>1, FaultsTyped DEF TypeOK, EngineForgets
<1>2. ASSUME NEW d \in Docs, ExpireClaim(d) PROVE TypeOK'
  BY <1>2 DEF TypeOK, ExpireClaim
<1>3. ASSUME NEW d \in Docs, NEW s \in 1 .. N, Reopen(d, s) PROVE TypeOK'
  BY <1>3 DEF TypeOK, Reopen
<1>4. ASSUME NEW s \in Sweepers, Reconcile(s) PROVE TypeOK'
  <2>1. status' \in [Batches -> {"none", "queued", "running", "completed", "failed"}]
    BY <1>4, ProgressTyped DEF TypeOK, Reconcile, Written
  <2>2. sweep \in [Sweepers -> Sweeps] /\ sweep[s] \in Sweeps /\ Resting \in Sweeps
    BY DEF TypeOK, Sweeps, Resting
  <2>3. Sweeping(s, "resting") \/ Sweeping(s, "judging")
    BY <1>4 DEF Reconcile
  <2>4. [sweep[s] EXCEPT !.phase = "judging"] \in Sweeps
    BY <2>2 DEF Sweeps
  <2>5. sweep' \in [Sweepers -> Sweeps]
    BY <2>2, <2>3, <2>4 DEF Sweeping
  <2> QED
    BY <1>4, <2>1, <2>5 DEF TypeOK, Reconcile, Sweeps
<1>5. ASSUME NEW s \in Sweepers, Judge(s) PROVE TypeOK'
  BY <1>5 DEF TypeOK, Judge, Sweeping, Resting, Written
<1>6. ASSUME NEW s \in Sweepers, NEW b \in Batches, NEW idle \in {"silent", "abandoned"},
             Pick(s, b, idle)
      PROVE  TypeOK'
  <2>1. stalls' \in 0 .. MaxStalls /\ strained' \in BOOLEAN
    BY <1>6, FaultsTyped DEF Pick
  <2> QED
    BY <1>6, <2>1 DEF TypeOK, Pick
<1> QED
  BY <1>1, <1>2, <1>3, <1>4, <1>5, <1>6 DEF SweepStep

LEMMA StepTyped == TypeOK /\ Worked /\ [Next]_vars => TypeOK'
<1>1. TypeOK /\ UNCHANGED vars => TypeOK'
  BY DEF TypeOK, vars
<1> QED
  BY <1>1, CallTyped, TaskTyped, OtherTyped DEF Next

LEMMA InitTyped == Init => TypeOK
<1> SUFFICES ASSUME Init PROVE TypeOK
  OBVIOUS
<1>1. task \in [Batches -> [Docs -> Tasks]]
  BY FreshTyped DEF Init
<1>2. at \in [Docs -> 1 .. N + 1]
  <2>1. 1 \in 1 .. N + 1
    OBVIOUS
  <2> QED
    BY <2>1 DEF Init
<1>3. faults \in 0 .. MaxFaults /\ stalls \in 0 .. MaxStalls /\ reopened \in 0 .. MaxReopened
  BY DEF Init
<1> QED
  BY <1>1, <1>2, <1>3 DEF Init, TypeOK, Calls, Resting

(***************************************************************************)
(* Workers                                                                 *)
(***************************************************************************)
(* A step that starts no worker, and moves no document one works on, keeps *)
(* the workers apart.                                                      *)
Unworked ==
    /\ \A b \in Batches, d \in Docs :
          task'[b][d].phase = "working"
          => /\ task[b][d].phase = "working" /\ task'[b][d].stage = task[b][d].stage
             /\ at'[d] = at[d] /\ (d \in held => d \in held')

LEMMA UnworkedKeeps == Worked /\ Unworked => Worked'
  BY DEF Worked, Unworked

LEMMA ScheduledUnworked ==
    ASSUME TypeOK, NEW b \in Batches, task' = Scheduled(b)
    PROVE  \A c \in Batches, d \in Docs :
              task'[c][d].phase = "working"
              => task[c][d].phase = "working" /\ task'[c][d].stage = task[c][d].stage
  BY DEF TypeOK, Scheduled, NoTask

LEMMA FollowedUnworked == \A t : Followed(t, N).phase \in {"due", "over"}
  BY DEF Followed, NoTask

LEMMA EndedUnworked ==
    \A t \in Tasks, ok \in BOOLEAN :
        Ended(t, ok).phase \in {"asking", "refreshing"} /\ Ended(t, ok).stage = t.stage
  BY DEF Ended, Tasks

LEMMA WorkersOfCalls ==
    ASSUME TypeOK, Worked, NEW b \in Batches,
           \/ Create(b) \/ CallStep(b) \/ TriggerRaises(b) \/ CallerDies(b) \/ LocalFails(b)
           \/ EngineForgets(b)
    PROVE  Worked'
<1>1. CASE Create(b) \/ EngineForgets(b)
  <2>1. /\ task' = [task EXCEPT ![b] = [d \in Docs |-> NoTask]]
        /\ UNCHANGED <<at, held>> /\ task \in [Batches -> [Docs -> Tasks]]
    BY <1>1 DEF TypeOK, Create, EngineForgets
  <2>2. \A d \in Docs : task'[b][d].phase = "none"
    BY <2>1 DEF NoTask
  <2>3. Unworked
    BY <2>1, <2>2 DEF Unworked
  <2> QED
    BY <2>3, UnworkedKeeps
<1>2. CASE Trigger(b) \/ TriggerRaises(b)
  <2>1. Unworked
    BY <1>2, ScheduledUnworked DEF Unworked, Trigger, TriggerRaises
  <2> QED
    BY <2>1, UnworkedKeeps
<1>3. CASE \/ Reserve(b) \/ Mark(b) \/ RecordProvider(b) \/ FailRun(b) \/ LocalStart(b)
           \/ LocalDone(b) \/ CallerDies(b) \/ LocalFails(b)
  <2>1. UNCHANGED <<task, at, held>>
    BY <1>3 DEF Reserve, Mark, RecordProvider, FailRun, LocalStart, LocalDone, CallerDies,
                LocalFails
  <2> QED
    BY <2>1, UnworkedKeeps DEF Unworked
<1>4. ASSUME NEW d \in Docs, LocalStep(b, d) PROVE Worked'
  <2>1. Unworked
    BY <1>4 DEF Worked, Unworked, LocalStep, TypeOK
  <2> QED
    BY <2>1, UnworkedKeeps
<1> QED
  BY <1>1, <1>2, <1>3, <1>4 DEF CallStep

LEMMA WorkersOfTasks ==
    ASSUME TypeOK, Worked, NEW b \in Batches, NEW d \in Docs,
           TaskStep(b, d) \/ Fails(b, d) \/ WorkerDies(b, d)
    PROVE  Worked'
<1>1. /\ task[b][d] \in Tasks /\ task \in [Batches -> [Docs -> Tasks]]
      /\ held \subseteq Docs /\ at \in [Docs -> 1 .. N + 1]
  BY DEF TypeOK
<1>2. CASE Claims(b, d) /\ at[d] = task[b][d].stage /\ d \notin held
  <2>1. /\ task' = [task EXCEPT ![b][d].phase = "working"] /\ held' = held \union {d}
        /\ at' = at
    BY <1>2 DEF Claims
  <2>2. \A c \in Batches : task[c][d].phase # "working"
    BY <1>2 DEF Worked
  <2>3. [task[b][d] EXCEPT !.phase = "working"].stage = task[b][d].stage
    BY <1>1 DEF Tasks
  <2>4. \A c \in Batches, e \in Docs :
           /\ ~(c = b /\ e = d) => task'[c][e] = task[c][e]
           /\ task'[b][d].stage = task[b][d].stage
    BY <1>1, <2>1, <2>3
  <2> QED
    BY <1>2, <2>1, <2>2, <2>4 DEF Worked
<1>3. CASE Claims(b, d) /\ ~(at[d] = task[b][d].stage /\ d \notin held)
  <2>1. /\ task' = [task EXCEPT ![b][d] = Ended(@, at[d] # task[b][d].stage)]
        /\ UNCHANGED <<at, held>>
    BY <1>3 DEF Claims
  <2>2. task'[b][d].phase # "working"
    BY <1>1, <2>1, EndedUnworked
  <2>3. Unworked
    BY <1>1, <2>1, <2>2 DEF Unworked
  <2> QED
    BY <2>3, UnworkedKeeps
<1>4. CASE Derives(b, d) \/ Fails(b, d)
  <2>1. /\ \E ok \in BOOLEAN : task' = [task EXCEPT ![b][d] = Ended(@, ok)]
        /\ held' = held \ {d} /\ \A e \in Docs \ {d} : at'[e] = at[e]
        /\ task[b][d].phase = "working"
    BY <1>1, <1>4 DEF Derives, Fails
  <2>2. task'[b][d].phase # "working"
    BY <1>1, <2>1, EndedUnworked
  <2>3. \A c \in Batches, e \in Docs : ~(c = b /\ e = d) => task'[c][e] = task[c][e]
    BY <1>1, <2>1
  <2>4. \A c \in Batches : task'[c][d].phase # "working"
    BY <2>1, <2>2, <2>3 DEF Worked
  <2>5. Unworked
    BY <2>1, <2>3, <2>4 DEF Unworked
  <2> QED
    BY <2>5, UnworkedKeeps
<1>5. CASE Asks(b, d)
  <2>1. task' = [task EXCEPT ![b][d].phase = "refreshing", ![b][d].forced = LastOne(b, d)]
        /\ UNCHANGED <<at, held>>
    BY <1>5 DEF Asks
  <2>2. task'[b][d].phase = "refreshing"
    BY <1>1, <2>1 DEF Tasks
  <2>3. Unworked
    BY <1>1, <2>1, <2>2 DEF Unworked
  <2> QED
    BY <2>3, UnworkedKeeps
<1>6. CASE Refreshes(b, d) \/ Skips(b, d) \/ WorkerDies(b, d)
  <2>1. /\ \/ task' = [task EXCEPT ![b][d] = Followed(@, N)]
           \/ task' = [task EXCEPT ![b][d] = Followed([task[b][d] EXCEPT !.ok = FALSE], N)]
        /\ UNCHANGED <<at, held>>
    BY <1>6 DEF Refreshes, Skips, WorkerDies
  <2>2. task'[b][d].phase # "working"
    BY <1>1, <2>1, FollowedUnworked
  <2>3. Unworked
    BY <1>1, <2>1, <2>2 DEF Unworked
  <2> QED
    BY <2>3, UnworkedKeeps
<1> QED
  BY <1>2, <1>3, <1>4, <1>5, <1>6 DEF TaskStep

LEMMA WorkersOfOthers ==
    ASSUME TypeOK, Worked,
           \/ \E d \in Docs : ExpireClaim(d) \/ \E s \in 1 .. N : Reopen(d, s)
           \/ \E s \in Sweepers : SweepStep(s)
                 \/ \E b \in Batches, idle \in {"silent", "abandoned"} : Pick(s, b, idle)
           \/ UNCHANGED vars
    PROVE  Worked'
<1>1. ASSUME NEW d \in Docs, ExpireClaim(d) \/ \E s \in 1 .. N : Reopen(d, s) PROVE Worked'
  <2>1. /\ \A b \in Batches : task[b][d].phase # "working"
        /\ task' = task /\ \A e \in Docs \ {d} : at'[e] = at[e] /\ (e \in held => e \in held')
    <3>1. at \in [Docs -> 1 .. N + 1]
      BY DEF TypeOK
    <3>2. CASE ExpireClaim(d)
      BY <3>2 DEF ExpireClaim
    <3>3. ASSUME NEW s \in 1 .. N, Reopen(d, s)
          PROVE  /\ d \notin held /\ UNCHANGED <<task, held>>
                 /\ \A e \in Docs \ {d} : at'[e] = at[e]
      BY <3>1, <3>3 DEF Reopen
    <3> QED
      BY <1>1, <3>2, <3>3 DEF Worked
  <2>2. Unworked
    BY <2>1 DEF Unworked
  <2> QED
    BY <2>2, UnworkedKeeps
<1>2. CASE UNCHANGED <<task, at, held>>
  BY <1>2 DEF Worked
<1> QED
  BY <1>1, <1>2 DEF SweepStep, Reconcile, Judge, Pick, vars

LEMMA WorkedStep == TypeOK /\ Worked /\ [Next]_vars => Worked'
  BY WorkersOfCalls, WorkersOfTasks, WorkersOfOthers DEF Next

(***************************************************************************)
(* Owners                                                                  *)
(***************************************************************************)
(* A step that neither launches work nor gives a batch documents.          *)
Mild ==
    /\ owned' = owned /\ overtaken' = overtaken
    /\ \A b \in Batches, d \in Docs : ~Over(task'[b][d]) => ~Over(task[b][d])
    /\ \A b \in Batches :
          \/ call'[b] = call[b] \/ call'[b] = "none"
          \/ /\ call'[b] \in {"failing", "draining"}
             /\ call[b] \in {"created", "reserved", "draining"}
    /\ \A b \in Batches : known'[b] => known[b] \/ call'[b] = "none"
    /\ \A b \in gone' :
          b \in gone \/ (call'[b] \notin {"created", "reserved"}
                         /\ \A d \in Docs : Over(task'[b][d]))
    /\ \A b \in Batches :
          status'[b] \in {"none", "failed"} => status[b] \in {"none", "failed"} \/ Still(b)'
    /\ \A b \in Batches :
          Active(status'[b])
          => Active(status[b])
             \/ (call'[b] \notin {"reserved", "accepted"} /\ \A d \in Docs : Over(task'[b][d]))
    /\ \A s \in Sweepers :
          sweep'[s].phase # "resting"
          => \/ /\ sweep[s].phase # "resting"
                /\ sweep'[s].batch = sweep[s].batch /\ sweep'[s].idle = sweep[s].idle
             \/ /\ sweep'[s].batch \in Batches
                /\ sweep'[s].idle = "abandoned" => Still(sweep'[s].batch)

LEMMA MildKeeps ==
    ASSUME TypeOK, Launched, Ceased, Apart, Mild
    PROVE  (Launched /\ Ceased /\ Apart)'
<1>1. \A b \in Batches : Still(b) => Still(b)'
  BY DEF Mild, Still
<1>2. Launched'
  <2>1. ASSUME NEW b \in Batches, NEW d \in Docs, ~Over(task'[b][d])
        PROVE  d \in owned'[b] /\ call'[b] \in {"none", "accepted", "marked"}
    BY <2>1 DEF Launched, Mild
  <2>2. ASSUME NEW b \in Batches, known'[b] PROVE call'[b] = "none"
    BY <2>2 DEF Launched, Mild
  <2> QED
    BY <2>1, <2>2 DEF Launched, Over
<1>3. Ceased'
  <2>1. ASSUME NEW b \in Batches, status'[b] \in {"none", "failed"} PROVE Still(b)'
    BY <1>1, <2>1 DEF Ceased, Mild
  <2>2. ASSUME NEW b \in gone'
        PROVE  call'[b] \notin {"created", "reserved"} /\ \A d \in Docs : Over(task'[b][d])
    BY <2>2 DEF Ceased, Mild, TypeOK
  <2>3. ASSUME NEW s \in Sweepers, sweep'[s].phase # "resting"
        PROVE  /\ sweep'[s].batch \in Batches
               /\ sweep'[s].idle = "abandoned"
                  => /\ call'[sweep'[s].batch] = "none"
                     /\ \A d \in Docs : Over(task'[sweep'[s].batch][d])
    BY <2>3 DEF Ceased, Mild, Still
  <2> QED
    BY <2>1, <2>2, <2>3 DEF Ceased, Still, Over
<1>4. \A b \in Batches : Claimant(b)' => Claimant(b)
  BY DEF Claimant, Mild
<1>5. Apart'
  BY <1>4 DEF Apart, Mild
<1> QED
  BY <1>2, <1>3, <1>5

LEMMA EndedGoesOn ==
    \A t \in Tasks, ok \in BOOLEAN : ~Over(Ended(t, ok))
  BY EndedUnworked DEF Over

(***************************************************************************)
(* The steps of launching                                                  *)
(***************************************************************************)
LEMMA CreateKeeps ==
    ASSUME TypeOK, Launched, Ceased, Apart, NEW b \in Batches, Create(b)
    PROVE  (Launched /\ Ceased /\ Apart)'
<1>1. /\ status' = [status EXCEPT ![b] = "queued"]
      /\ owned' = [owned EXCEPT ![b] = {}] /\ known' = [known EXCEPT ![b] = FALSE]
      /\ task' = [task EXCEPT ![b] = [d \in Docs |-> NoTask]]
      /\ call' = [call EXCEPT ![b] = "created"]
      /\ gone' = gone \ {b} /\ overtaken' = overtaken \ {b} /\ sweep' = sweep
  BY DEF Create, Written, Calling
<1>2. /\ \A d \in Docs : Over(task'[b][d])
      /\ call'[b] = "created" /\ status'[b] = "queued" /\ ~known'[b] /\ b \notin gone'
  BY <1>1 DEF TypeOK, Over, NoTask
<1>3. \A c \in Batches \ {b} :
         /\ status'[c] = status[c] /\ owned'[c] = owned[c] /\ known'[c] = known[c]
         /\ task'[c] = task[c] /\ call'[c] = call[c]
         /\ c \in gone' <=> c \in gone
         /\ c \in overtaken' <=> c \in overtaken
  BY <1>1 DEF TypeOK
<1>4. Launched'
  BY <1>2, <1>3 DEF Launched, Over
<1>5. Ceased'
  <2>1. ASSUME NEW s \in Sweepers, sweep[s].phase # "resting"
        PROVE  sweep[s].batch \in Batches \ {b}
    BY <2>1 DEF Create, Ceased
  <2>2. \A s \in Sweepers :
           sweep'[s].phase # "resting"
           => /\ sweep'[s].batch \in Batches
              /\ sweep'[s].idle = "abandoned"
                 => /\ call'[sweep'[s].batch] = "none"
                    /\ \A d \in Docs : Over(task'[sweep'[s].batch][d])
    BY <1>1, <1>3, <2>1 DEF Ceased, Still
  <2>3. \A c \in Batches :
           status'[c] \in {"none", "failed"}
           => call'[c] = "none" /\ \A d \in Docs : Over(task'[c][d])
    BY <1>2, <1>3 DEF Ceased, Still
  <2>4. \A c \in gone' :
           call'[c] \notin {"created", "reserved"} /\ \A d \in Docs : Over(task'[c][d])
    BY <1>1, <1>2, <1>3 DEF Ceased, TypeOK
  <2> QED
    BY <2>2, <2>3, <2>4 DEF Ceased, Still, Over
<1>6. Apart'
  <2>1. ~Claimant(b)'
    BY <1>2 DEF Claimant, Over
  <2>2. \A c \in Batches \ {b} : Claimant(c)' => Claimant(c)
    BY <1>3 DEF Claimant
  <2> QED
    BY <1>3, <2>1, <2>2 DEF Apart
<1> QED
  BY <1>4, <1>5, <1>6

LEMMA ReserveKeeps ==
    ASSUME TypeOK, Launched, Ceased, Apart, NEW b \in Batches, Reserve(b)
    PROVE  (Launched /\ Ceased /\ Apart)'
<1>1. /\ call[b] = "created" /\ \A d \in Docs : Over(task[b][d])
      /\ b \notin gone /\ status[b] \notin {"none", "failed"}
  BY DEF Reserve, Launched, Ceased, Still
<1>2. /\ owned' \in [Batches -> SUBSET Docs]
      /\ \A c \in Batches \ {b} : Active(status[c]) => owned'[b] \cap owned[c] = {}
  BY DEF Reserve, Assigned, TypeOK
<1>3. /\ status'[b] \in {"completed", "queued"} /\ call'[b] \in {"none", "reserved"}
      /\ task' = task /\ sweep' = sweep /\ known' = known /\ gone' = gone
      /\ overtaken' = overtaken
  BY DEF Reserve, Written, Calling, TypeOK, Calls
<1>4. \A c \in Batches \ {b} :
         status'[c] = status[c] /\ owned'[c] = owned[c] /\ call'[c] = call[c]
  BY DEF Reserve, Written, Calling, TypeOK
<1>5. ~known[b]
  BY <1>1 DEF Launched
<1>6. Launched'
  BY <1>1, <1>3, <1>4, <1>5 DEF Launched, Over
<1>7. \A s \in Sweepers : sweep[s].phase # "resting" /\ sweep[s].idle = "abandoned"
                          => sweep[s].batch # b
  BY <1>1 DEF Ceased, Still
<1>8. Ceased'
  <2>1. ASSUME NEW c \in Batches, status'[c] \in {"none", "failed"}
        PROVE  call'[c] = "none" /\ \A d \in Docs : Over(task'[c][d])
    BY <1>1, <1>3, <1>4, <1>7, <2>1 DEF Ceased, Still
  <2>2. ASSUME NEW c \in gone'
        PROVE  call'[c] \notin {"created", "reserved"} /\ \A d \in Docs : Over(task'[c][d])
    BY <1>1, <1>3, <1>4, <1>7, <2>2 DEF Ceased, TypeOK
  <2>3. ASSUME NEW s \in Sweepers, sweep'[s].phase # "resting"
        PROVE  /\ sweep'[s].batch \in Batches
               /\ sweep'[s].idle = "abandoned"
                  => /\ call'[sweep'[s].batch] = "none"
                     /\ \A d \in Docs : Over(task'[sweep'[s].batch][d])
    BY <1>1, <1>3, <1>4, <1>7, <2>3 DEF Ceased, Still
  <2> QED
    BY <2>1, <2>2, <2>3 DEF Ceased, Still, Over
<1>9. \A c \in Batches \ {b} : Claimant(c)' => Claimant(c) /\ Active(status[c])
  BY <1>3, <1>4 DEF Claimant
<1>10. Apart'
  BY <1>2, <1>4, <1>9 DEF Apart
<1> QED
  BY <1>6, <1>8, <1>10

(* Launching makes tasks of a claimant that had none yet.                  *)
LEMMA TriggerKeeps ==
    ASSUME TypeOK, Launched, Ceased, Apart, NEW b \in Batches, Trigger(b)
    PROVE  (Launched /\ Ceased /\ Apart)'
<1>1. /\ call[b] = "reserved" /\ call'[b] = "accepted"
      /\ b \notin gone /\ status[b] \notin {"none", "failed"} /\ ~known[b]
  BY DEF Trigger, Launched, Ceased, Still, Calling, TypeOK
<1>2. UNCHANGED <<row, gone, sweep, overtaken>>
  BY DEF Trigger
<1>3. /\ \A c \in Batches \ {b} : task'[c] = task[c] /\ call'[c] = call[c]
      /\ \A d \in Docs : ~Over(task'[b][d]) => d \in owned[b]
  BY DEF Trigger, Scheduled, Calling, TypeOK, Over, NoTask
<1>4. Launched'
  BY <1>1, <1>2, <1>3 DEF Launched, Over
<1>5. \A s \in Sweepers : sweep[s].phase # "resting" /\ sweep[s].idle = "abandoned"
                          => sweep[s].batch # b
  BY <1>1 DEF Ceased, Still
<1>6. Ceased'
  <2>1. ASSUME NEW c \in Batches, status'[c] \in {"none", "failed"}
        PROVE  call'[c] = "none" /\ \A d \in Docs : Over(task'[c][d])
    BY <1>1, <1>2, <1>3, <1>5, <2>1 DEF Ceased, Still
  <2>2. ASSUME NEW c \in gone'
        PROVE  call'[c] \notin {"created", "reserved"} /\ \A d \in Docs : Over(task'[c][d])
    BY <1>1, <1>2, <1>3, <1>5, <2>2 DEF Ceased, TypeOK
  <2>3. ASSUME NEW s \in Sweepers, sweep'[s].phase # "resting"
        PROVE  /\ sweep'[s].batch \in Batches
               /\ sweep'[s].idle = "abandoned"
                  => /\ call'[sweep'[s].batch] = "none"
                     /\ \A d \in Docs : Over(task'[sweep'[s].batch][d])
    BY <1>1, <1>2, <1>3, <1>5, <2>3 DEF Ceased, Still
  <2> QED
    BY <2>1, <2>2, <2>3 DEF Ceased, Still, Over
<1>7. \A c \in Batches : Claimant(c)' => Claimant(c)
  BY <1>1, <1>2, <1>3 DEF Claimant, Over
<1>8. Apart'
  BY <1>2, <1>7 DEF Apart
<1> QED
  BY <1>4, <1>6, <1>8

(* A batch marked over its completion leaves the property's care.          *)
LEMMA MarkKeeps ==
    ASSUME TypeOK, Launched, Ceased, Apart, NEW b \in Batches, Mark(b)
    PROVE  (Launched /\ Ceased /\ Apart)'
<1>1. /\ call[b] = "accepted" /\ call'[b] = "marked" /\ status'[b] = "running"
      /\ status[b] \notin {"none", "failed"} /\ ~known[b]
      /\ status[b] = "completed" => b \in overtaken'
      /\ overtaken \subseteq overtaken' /\ overtaken' \subseteq overtaken \union {b}
  BY DEF Mark, Launched, Ceased, Still, Calling, Written, TypeOK
<1>2. UNCHANGED <<owned, known, task, gone, sweep>>
  BY DEF Mark, engine
<1>3. \A c \in Batches \ {b} : status'[c] = status[c] /\ call'[c] = call[c]
  BY DEF Mark, Written, Calling, TypeOK
<1>4. Launched'
  BY <1>1, <1>2, <1>3 DEF Launched, Over
<1>5. \A s \in Sweepers : sweep[s].phase # "resting" /\ sweep[s].idle = "abandoned"
                          => sweep[s].batch # b
  BY <1>1 DEF Ceased, Still
<1>6. Ceased'
  <2>1. ASSUME NEW c \in Batches, status'[c] \in {"none", "failed"}
        PROVE  call'[c] = "none" /\ \A d \in Docs : Over(task'[c][d])
    BY <1>1, <1>2, <1>3, <1>5, <2>1 DEF Ceased, Still
  <2>2. ASSUME NEW c \in gone'
        PROVE  call'[c] \notin {"created", "reserved"} /\ \A d \in Docs : Over(task'[c][d])
    BY <1>1, <1>2, <1>3, <1>5, <2>2 DEF Ceased, TypeOK
  <2>3. ASSUME NEW s \in Sweepers, sweep'[s].phase # "resting"
        PROVE  /\ sweep'[s].batch \in Batches
               /\ sweep'[s].idle = "abandoned"
                  => /\ call'[sweep'[s].batch] = "none"
                     /\ \A d \in Docs : Over(task'[sweep'[s].batch][d])
    BY <1>1, <1>2, <1>3, <1>5, <2>3 DEF Ceased, Still
  <2> QED
    BY <2>1, <2>2, <2>3 DEF Ceased, Still, Over
<1>7. status[b] # "completed" => Active(status[b])
  BY <1>1 DEF Active, TypeOK
<1>8. \A c \in Batches : Claimant(c)' => Claimant(c)
  BY <1>1, <1>2, <1>3, <1>7 DEF Claimant, Over
<1>9. Apart'
  BY <1>2, <1>8 DEF Apart
<1> QED
  BY <1>4, <1>6, <1>9

(***************************************************************************)
(* The mild steps                                                          *)
(***************************************************************************)
LEMMA CallsAreMild ==
    ASSUME TypeOK, Launched, Ceased, NEW b \in Batches, ~strained',
           \/ RecordProvider(b) \/ FailRun(b) \/ LocalStart(b) \/ LocalDone(b)
           \/ TriggerRaises(b) \/ CallerDies(b) \/ LocalFails(b)
           \/ \E d \in Docs : LocalStep(b, d)
    PROVE  Mild
<1>1. UNCHANGED <<owned, overtaken, task, gone, sweep>>
  BY DEF RecordProvider, FailRun, LocalStart, LocalDone, TriggerRaises, CallerDies, LocalFails,
         LocalStep, Stall, Calm
<1>2. \A c \in Batches \ {b} :
         status'[c] = status[c] /\ call'[c] = call[c] /\ known'[c] = known[c]
  BY DEF RecordProvider, FailRun, LocalStart, LocalDone, TriggerRaises, CallerDies, LocalFails,
         LocalStep, Written, Calling, TypeOK
<1>3. /\ \/ call'[b] = call[b] \/ call'[b] = "none"
         \/ /\ call'[b] \in {"failing", "draining"}
            /\ call[b] \in {"created", "reserved", "draining"}
      /\ known'[b] => known[b] \/ call'[b] = "none"
  BY DEF RecordProvider, FailRun, LocalStart, LocalDone, TriggerRaises, CallerDies, LocalFails,
         LocalStep, Written, Calling, TypeOK, Stall, Calm
<1>4. \/ status'[b] = status[b]
      \/ /\ status'[b] = "running" /\ call'[b] = "draining" /\ call[b] = "created"
      \/ /\ status'[b] = "failed" /\ call'[b] = "none" /\ call[b] = "failing"
      \/ status'[b] = "completed"
  BY DEF RecordProvider, FailRun, LocalStart, LocalDone, TriggerRaises, CallerDies, LocalFails,
         LocalStep, Written, Calling, TypeOK
<1>5. call[b] \in {"created", "failing"} => \A d \in Docs : Over(task[b][d])
  BY DEF Launched
<1> QED
  BY <1>1, <1>2, <1>3, <1>4, <1>5 DEF Mild, Still, Over, Active

LEMMA TasksAreMild ==
    ASSUME TypeOK, Ceased, NEW b \in Batches, NEW d \in Docs,
           TaskStep(b, d) \/ Fails(b, d) \/ WorkerDies(b, d)
    PROVE  Mild
<1>1. UNCHANGED <<owned, overtaken, gone, sweep, call, known>>
  BY DEF TaskStep, Claims, Derives, Asks, Refreshes, Skips, Fails, WorkerDies
<1>2. /\ ~Over(task[b][d])
      /\ \A c \in Batches, e \in Docs : ~(c = b /\ e = d) => task'[c][e] = task[c][e]
  <2>1. task \in [Batches -> [Docs -> Tasks]]
    BY DEF TypeOK
  <2>2. CASE Claims(b, d)
    BY <2>1, <2>2 DEF Claims, Over
  <2>3. CASE Derives(b, d) \/ Fails(b, d)
    <3>1. \E x : task' = [task EXCEPT ![b][d] = x]
      BY <2>3 DEF Derives, Fails
    <3>2. \A c \in Batches, e \in Docs : ~(c = b /\ e = d) => task'[c][e] = task[c][e]
      BY <2>1, <3>1
    <3> QED
      BY <2>3, <3>2 DEF Derives, Fails, Over
  <2>4. CASE Asks(b, d)
    <3>1. task' = [task EXCEPT ![b][d].phase = "refreshing", ![b][d].forced = LastOne(b, d)]
      BY <2>4 DEF Asks
    <3>2. \A c \in Batches, e \in Docs : ~(c = b /\ e = d) => task'[c][e] = task[c][e]
      BY <2>1, <3>1
    <3> QED
      BY <2>4, <3>2 DEF Asks, Over
  <2>5. CASE Refreshes(b, d) \/ Skips(b, d)
    BY <2>1, <2>5 DEF Refreshes, Skips, Over
  <2>6. CASE WorkerDies(b, d)
    BY <2>1, <2>6 DEF WorkerDies, Over
  <2> QED
    BY <2>2, <2>3, <2>4, <2>5, <2>6 DEF TaskStep
<1>3. status[b] \notin {"none", "failed"}
  BY <1>2 DEF Ceased, Still
<1>4. /\ \A c \in Batches \ {b} : status'[c] = status[c]
      /\ status'[b] = status[b] \/ status'[b] = Progress(b)
  BY DEF TaskStep, Claims, Derives, Asks, Refreshes, Skips, Fails, WorkerDies, Written, TypeOK
<1>5. /\ Progress(b) \in {"completed", "running"}
      /\ status[b] = "completed" => Progress(b) = "completed"
  BY DEF Progress
<1>6. Active(status'[b]) => Active(status[b])
  BY <1>3, <1>4, <1>5 DEF Active, TypeOK
<1>7. status'[b] \notin {"none", "failed"}
  BY <1>3, <1>4, <1>5
<1> QED
  BY <1>1, <1>2, <1>3, <1>4, <1>6, <1>7 DEF Mild, Over

LEMMA OthersAreMild ==
    ASSUME TypeOK, Launched, Ceased, ~strained',
           \/ \E b \in Batches : EngineForgets(b)
           \/ \E d \in Docs : ExpireClaim(d) \/ \E s \in 1 .. N : Reopen(d, s)
           \/ \E s \in Sweepers : SweepStep(s)
                 \/ \E b \in Batches, idle \in {"silent", "abandoned"} : Pick(s, b, idle)
           \/ UNCHANGED vars
    PROVE  Mild
<1>1. ASSUME NEW b \in Batches, EngineForgets(b) PROVE Mild
  <2>1. /\ UNCHANGED <<row, call, sweep, overtaken>> /\ gone' = gone \union {b}
        /\ \A d \in Docs : Over(task'[b][d])
        /\ \A c \in Batches \ {b} : task'[c] = task[c]
        /\ call[b] \notin {"created", "reserved"}
    BY <1>1 DEF EngineForgets, TypeOK, Over, NoTask, Launched
  <2> QED
    BY <2>1 DEF Mild, Over
<1>2. CASE UNCHANGED <<row, call, engine, sweep, overtaken>>
  BY <1>2 DEF Mild, Over
<1>3. ASSUME NEW s \in Sweepers, Reconcile(s) PROVE Mild
  <2>1. PICK b \in Batches : sweep[s].batch = b
    BY <1>3 DEF Reconcile, Ceased
  <2>2. /\ UNCHANGED <<owned, known, call, engine, overtaken>>
        /\ \A c \in Batches \ {b} : status'[c] = status[c]
        /\ status'[b] = status[b] \/ status'[b] = Progress(b)
    BY <1>3, <2>1 DEF Reconcile, Written, TypeOK
  <2>3. /\ Progress(b) \in {"completed", "running"}
        /\ status[b] = "completed" => Progress(b) = "completed"
    BY DEF Progress
  <2>4. Active(status'[b]) => Active(status[b]) \/ Still(b)
    BY <2>2, <2>3 DEF Active, TypeOK, Ceased
  <2>5. \A r \in Sweepers :
           sweep'[r].phase # "resting"
           => /\ sweep[r].phase # "resting"
              /\ sweep'[r].batch = sweep[r].batch /\ sweep'[r].idle = sweep[r].idle
    BY <1>3 DEF Reconcile, Sweeping, Resting, TypeOK
  <2> QED
    BY <2>2, <2>3, <2>4, <2>5 DEF Mild, Still, Over
<1>4. ASSUME NEW s \in Sweepers, Judge(s) PROVE Mild
  <2>1. PICK b \in Batches : sweep[s].batch = b
    BY <1>4 DEF Judge, Ceased
  <2>2. /\ UNCHANGED <<owned, known, call, engine, overtaken>>
        /\ \A c \in Batches \ {b} : status'[c] = status[c]
        /\ status'[b] = status[b] \/ status'[b] = "failed"
    BY <1>4, <2>1 DEF Judge, Written, TypeOK
  <2>3. status'[b] # status[b] => Still(b)
    <3>1. SUFFICES ASSUME status'[b] # status[b] PROVE Still(b)
      OBVIOUS
    <3>2. PICK verdict \in Verdicts(b) : Dead(verdict, sweep[s].idle)
      BY <1>4, <2>1, <3>1 DEF Judge
    <3>3. CASE verdict = "gone"
      BY <3>2, <3>3 DEF Verdicts, Ceased, Launched, Still
    <3>4. CASE sweep[s].idle = "abandoned"
      BY <1>4, <2>1, <3>4 DEF Judge, Ceased
    <3> QED
      BY <3>2, <3>3, <3>4 DEF Dead
  <2>4. \A r \in Sweepers :
           sweep'[r].phase # "resting"
           => /\ sweep[r].phase # "resting"
              /\ sweep'[r].batch = sweep[r].batch /\ sweep'[r].idle = sweep[r].idle
    BY <1>4 DEF Judge, Sweeping, Resting, TypeOK
  <2> QED
    BY <2>2, <2>3, <2>4 DEF Mild, Still, Over, Active
<1>5. ASSUME NEW s \in Sweepers, NEW b \in Batches, NEW idle \in {"silent", "abandoned"},
             Pick(s, b, idle)
      PROVE  Mild
  <2>1. UNCHANGED <<row, call, engine, overtaken>>
    BY <1>5 DEF Pick
  <2>2. idle = "abandoned" => Still(b)
    BY <1>5 DEF Pick, Live, Still, Stall
  <2>3. /\ \A r \in Sweepers \ {s} : sweep'[r] = sweep[r]
        /\ sweep'[s].batch = b /\ sweep'[s].idle = idle
    BY <1>5 DEF Pick, TypeOK
  <2> QED
    BY <2>1, <2>2, <2>3 DEF Mild, Over
<1> QED
  BY <1>1, <1>2, <1>3, <1>4, <1>5 DEF ExpireClaim, Reopen, SweepStep, vars

LEMMA StrainStays == [Next]_vars /\ strained => strained'
<1> SUFFICES ASSUME [Next]_vars, strained PROVE strained'
  OBVIOUS
<1>1. ASSUME NEW b \in Batches,
             \/ Create(b) \/ CallStep(b) \/ TriggerRaises(b) \/ CallerDies(b) \/ LocalFails(b)
             \/ EngineForgets(b)
      PROVE  strained'
  BY <1>1 DEF CallStep, Create, Reserve, Trigger, TriggerRaises, Mark, RecordProvider, FailRun,
              CallerDies, LocalStart, LocalStep, LocalDone, LocalFails, EngineForgets, Stall,
              Calm
<1>2. ASSUME NEW b \in Batches, NEW d \in Docs,
             TaskStep(b, d) \/ Fails(b, d) \/ WorkerDies(b, d)
      PROVE  strained'
  BY <1>2 DEF TaskStep, Claims, Derives, Fails, Asks, Refreshes, Skips, WorkerDies
<1>3. ASSUME NEW d \in Docs, ExpireClaim(d) \/ \E s \in 1 .. N : Reopen(d, s) PROVE strained'
  BY <1>3 DEF ExpireClaim, Reopen
<1>4. ASSUME NEW s \in Sweepers,
             \/ SweepStep(s)
             \/ \E b \in Batches, idle \in {"silent", "abandoned"} : Pick(s, b, idle)
      PROVE  strained'
  BY <1>4 DEF SweepStep, Reconcile, Judge, Pick, Stall, Calm
<1> QED
  BY <1>1, <1>2, <1>3, <1>4 DEF Next, vars

(***************************************************************************)
(* The theorems                                                            *)
(***************************************************************************)
(* Batches that believe correctly stay apart: the strengthening of the     *)
(* property below that every step preserves.                               *)
THEOREM Invariant == Spec => []Inductive
<1>1. Init => Inductive
  BY InitTyped DEF Init, Inductive, Worked, Launched, Ceased, Apart, Claimant, Still, Over,
                   NoTask, Active, Resting
<1>2. Inductive /\ [Next]_vars => Inductive'
  <2> SUFFICES ASSUME Inductive, [Next]_vars PROVE Inductive'
    OBVIOUS
  <2>1. TypeOK /\ TypeOK' /\ Worked'
    BY StepTyped, WorkedStep DEF Inductive
  <2>2. strained => strained'
    BY StrainStays
  <2>3. SUFFICES ASSUME ~strained' PROVE (Launched /\ Ceased /\ Apart)'
    BY <2>1, <2>2 DEF Inductive
  <2>4. Launched /\ Ceased /\ Apart
    BY <2>2, <2>3 DEF Inductive
  <2>5. ASSUME NEW b \in Batches, Create(b) \/ Reserve(b) \/ Trigger(b) \/ Mark(b)
        PROVE  (Launched /\ Ceased /\ Apart)'
    BY <2>1, <2>4, <2>5, CreateKeeps, ReserveKeeps, TriggerKeeps, MarkKeeps
  <2>6. CASE ~\E b \in Batches : Create(b) \/ Reserve(b) \/ Trigger(b) \/ Mark(b)
    <3>1. Mild
      BY <2>1, <2>3, <2>4, <2>6, CallsAreMild, TasksAreMild, OthersAreMild
         DEF Next, CallStep
    <3> QED
      BY <2>1, <2>4, <3>1, MildKeeps
  <2> QED
    BY <2>5, <2>6
<1> QED
  BY <1>1, <1>2, PTL DEF Spec

(* The type invariant, for any number of batches, documents and stages: a  *)
(* document's position stays within its stages because its stage is moved  *)
(* by the one worker that has claimed it.                                  *)
THEOREM TypeCorrect == Spec => []TypeOK
  BY Invariant, PTL DEF Inductive

(* No document is driven by two unfinished batches (hatchet.py:803) unless *)
(* live work was believed dead or a batch was marked over its completion.  *)
THEOREM DrivenOnce == Spec => []UnstrainedDrivenOnce
<1>1. Inductive => UnstrainedDrivenOnce
  BY DEF Inductive, UnstrainedDrivenOnce, Driven, Launched, Apart, Claimant
<1> QED
  BY <1>1, Invariant, PTL

(***************************************************************************)
(* The last task                                                           *)
(*                                                                         *)
(* As long as nothing failed, was put back or believed dead, a task is     *)
(* never ahead of its document (Placed), so a document is settled before   *)
(* its final task asks whether all are.  The last to ask finds that they   *)
(* are, and its refresh cannot be skipped: until the row says completed    *)
(* some task has still to ask or is to refresh without fail (Pending).     *)
(***************************************************************************)
Smooth == ~strained /\ faults = 0 /\ reopened = 0

Placed(t, p) ==
    /\ t.phase = "due" => p >= t.stage
    /\ t.phase \in {"asking", "refreshing"} => t.ok /\ p > t.stage
    /\ t.phase = "asking" => t.stage = N
    /\ t.phase = "over" => p > N

Handed(b) == \E d \in Docs : task[b][d].phase # "none"
Pends(t) ==
    \/ t.phase \in {"due", "working", "asking"}
    \/ t.phase = "refreshing" /\ (t.stage # N \/ t.forced)
Pending(b) == \E d \in Docs : Pends(task[b][d])

Contents == access = {} /\ refresh = {}
Unlaunched ==
    \A b \in Batches :
        /\ call[b] # "failing"
        /\ call[b] \in {"created", "reserved", "draining"} => ~Handed(b)
        /\ call[b] \in {"created", "draining"} => owned[b] = {}
        /\ call[b] = "created" => b \notin overtaken
Claimed == \A d \in held : \E b \in Batches : task[b][d].phase = "working"
Settled == \A b \in Batches :
               status[b] = "completed" \/ b \in overtaken => \A d \in owned[b] : ~Open(d)
InPlace == \A b \in Batches, d \in Docs : Placed(task[b][d], at[d])
Complete == \A b \in Batches : Handed(b) => \A d \in owned[b] : task[b][d].phase # "none"
Awaited == \A b \in Batches :
               Handed(b) /\ Active(status[b]) /\ b \notin overtaken => Pending(b)

Lasting == Contents /\ Unlaunched /\ Claimed /\ Settled /\ InPlace /\ Complete /\ Awaited

(* What was smooth before a smooth step: its disturbances never end.       *)
LEMMA SmoothStays == TypeOK /\ [Next]_vars /\ Smooth' => Smooth
<1> SUFFICES ASSUME TypeOK, [Next]_vars, Smooth' PROVE Smooth
  OBVIOUS
<1>1. ~strained
  BY StrainStays DEF Smooth
<1>2. faults \in Nat /\ reopened \in Nat /\ stalls \in Nat
  BY DEF TypeOK
<1>3. ASSUME NEW b \in Batches,
             Create(b) \/ CallStep(b) \/ TriggerRaises(b) \/ CallerDies(b) \/ LocalFails(b)
             \/ EngineForgets(b)
      PROVE  faults = 0 /\ reopened = 0
  BY <1>2, <1>3 DEF Create, CallStep, Reserve, Trigger, Mark, RecordProvider, FailRun, LocalStart,
       LocalStep, LocalDone, TriggerRaises, CallerDies, LocalFails, EngineForgets, Fault, Calm,
       Stall, Smooth
<1>4. ASSUME NEW b \in Batches, NEW d \in Docs, TaskStep(b, d) \/ Fails(b, d) \/ WorkerDies(b, d)
      PROVE  faults = 0 /\ reopened = 0
  <2>1. CASE TaskStep(b, d)
    BY <2>1 DEF TaskStep, Claims, Derives, Asks, Refreshes, Skips, Smooth
  <2>2. CASE Fails(b, d)
    BY <1>2, <2>2 DEF Fails, Fault, Smooth
  <2>3. CASE WorkerDies(b, d)
    BY <1>2, <2>3 DEF WorkerDies, Fault, Smooth
  <2> QED
    BY <1>4, <2>1, <2>2, <2>3
<1>5. ASSUME NEW d \in Docs, ExpireClaim(d) \/ \E s \in 1 .. N : Reopen(d, s)
      PROVE  faults = 0 /\ reopened = 0
  BY <1>2, <1>5 DEF ExpireClaim, Reopen, Smooth
<1>6. ASSUME NEW s \in Sweepers,
             SweepStep(s) \/ \E b \in Batches, idle \in {"silent", "abandoned"} : Pick(s, b, idle)
      PROVE  faults = 0 /\ reopened = 0
  BY <1>2, <1>6 DEF SweepStep, Reconcile, Judge, Pick, Smooth
<1>7. UNCHANGED vars => faults = 0 /\ reopened = 0
  BY DEF vars, Smooth
<1> QED
  BY <1>1, <1>3, <1>4, <1>5, <1>6, <1>7 DEF Next, Smooth

(* No step of a smooth stretch fails anything or puts anything back.       *)
LEMMA SmoothSteps ==
    ASSUME TypeOK, Smooth, Smooth'
    PROVE  /\ ~Fault /\ ~Stall
           /\ \A d \in Docs, s \in 1 .. N : ~Reopen(d, s)
  BY DEF TypeOK, Smooth, Fault, Stall, Reopen

LEMMA SmoothNext ==
    ASSUME TypeOK, Unlaunched, Smooth, Smooth', [Next]_vars
    PROVE  \/ \E b \in Batches :
                 \/ Create(b) \/ Reserve(b) \/ Trigger(b) \/ Mark(b) \/ RecordProvider(b)
                 \/ LocalStart(b) \/ (\E d \in Docs : LocalStep(b, d)) \/ LocalDone(b)
                 \/ \E d \in Docs : TaskStep(b, d)
           \/ \E d \in Docs : ExpireClaim(d)
           \/ \E s \in Sweepers :
                 \/ SweepStep(s)
                 \/ \E b \in Batches, idle \in {"silent", "abandoned"} : Pick(s, b, idle)
           \/ UNCHANGED vars
<1>1. \A b \in Batches : ~FailRun(b)
  BY DEF Unlaunched, FailRun
<1>2. \A b \in Batches :
         ~TriggerRaises(b) /\ ~CallerDies(b) /\ ~LocalFails(b) /\ ~EngineForgets(b)
  BY SmoothSteps DEF TriggerRaises, CallerDies, LocalFails, EngineForgets
<1>3. \A b \in Batches, d \in Docs : ~Fails(b, d) /\ ~WorkerDies(b, d)
  BY SmoothSteps DEF Fails, WorkerDies
<1> QED
  BY <1>1, <1>2, <1>3, SmoothSteps DEF Next, CallStep

(* A task of a document that is open has still to ask.                     *)
LEMMA OpenPends ==
    ASSUME NEW t \in Tasks, NEW p \in Nat, t.phase # "none", Placed(t, p), p <= N
    PROVE  Pends(t)
  BY DEF Placed, Pends, Tasks

LEMMA PlacedAhead ==
    ASSUME NEW t \in Tasks, NEW p \in Nat, NEW q \in Nat, p <= q, Placed(t, p)
    PROVE  Placed(t, q)
  BY DEF Placed, Tasks

(* Steps that hand out no task and move none.                              *)
LEMMA TasksKept ==
    ASSUME TypeOK, TypeOK', Lasting, UNCHANGED <<task, owned, refresh>>,
           access' \subseteq access, held' \subseteq held,
           \A d \in Docs : at[d] <= at'[d],
           \A b \in Batches :
              /\ call'[b] # "failing"
              /\ call'[b] \in {"created", "reserved"} => call[b] = call'[b]
              /\ call'[b] = "draining" => call[b] \in {"created", "draining"}
              /\ b \in overtaken' => b \in overtaken \/ call'[b] = "marked"
              /\ (status'[b] = "completed" \/ b \in overtaken') =>
                    \/ status[b] = "completed" \/ b \in overtaken
                    \/ \A d \in owned[b] : ~Open(d)
              /\ (Active(status'[b]) /\ b \notin overtaken') =>
                    \/ Active(status[b]) /\ b \notin overtaken
                    \/ ~Handed(b)
                    \/ \E d \in owned[b] : Open(d)'
    PROVE  Lasting'
<1>1. \A d \in Docs : at[d] \in 1 .. N + 1 /\ at'[d] \in 1 .. N + 1 /\ (~Open(d) => ~Open(d)')
  BY DEF TypeOK, Open
<1>2. \A b \in Batches : owned[b] \subseteq Docs
  BY DEF TypeOK
<1>3. Contents' /\ Complete'
  BY DEF Lasting, Contents, Complete, Handed
<1>4. Unlaunched'
  BY DEF Lasting, Unlaunched, Handed
<1>5. Claimed'
  BY DEF Lasting, Claimed
<1>6. Settled'
  BY <1>1, <1>2 DEF Lasting, Settled
<1>7. InPlace'
  <2> SUFFICES ASSUME NEW b \in Batches, NEW d \in Docs PROVE Placed(task[b][d], at'[d])
    BY DEF InPlace
  <2>1. task[b][d] \in Tasks /\ Placed(task[b][d], at[d])
    BY DEF TypeOK, Lasting, InPlace
  <2> QED
    BY <1>1, <2>1, PlacedAhead
<1>8. Awaited'
  <2> SUFFICES ASSUME NEW b \in Batches, Handed(b)', Active(status'[b]), b \notin overtaken'
               PROVE  Pending(b)'
    BY DEF Awaited
  <2>1. CASE Active(status[b]) /\ b \notin overtaken
    BY <2>1 DEF Lasting, Awaited, Handed, Pending
  <2>2. CASE \E d \in owned[b] : Open(d)'
    <3>1. PICK d \in owned'[b] : Open(d)'
      BY <2>2
    <3>2. d \in Docs /\ task[b][d] \in Tasks
      BY <1>2, <3>1 DEF TypeOK
    <3>3. task[b][d].phase # "none" /\ Placed(task[b][d], at'[d]) /\ at'[d] <= N
      BY <1>3, <1>7, <3>1, <3>2 DEF Complete, Handed, InPlace, Open
    <3> QED
      BY <1>1, <3>2, <3>3, OpenPends DEF Pending
  <2>3. Handed(b)
    BY DEF Handed
  <2> QED
    BY <2>1, <2>2, <2>3
<1> QED
  BY <1>3, <1>4, <1>5, <1>6, <1>7, <1>8 DEF Lasting

(* The row after a refresh.                                                *)
LEMMA ProgressWritten ==
    ASSUME TypeOK, Lasting, NEW b \in Batches, Written(b, Progress(b)),
           at' = at, owned' = owned, overtaken' = overtaken, NEW c \in Batches
    PROVE  /\ (status'[c] = "completed" \/ c \in overtaken') =>
                 \/ status[c] = "completed" \/ c \in overtaken
                 \/ \A d \in owned[c] : ~Open(d)
           /\ (Active(status'[c]) /\ c \notin overtaken') =>
                 \/ Active(status[c]) /\ c \notin overtaken /\ c # b
                 \/ \E d \in owned[c] : Open(d)'
<1>1. status'[c] = IF c = b THEN Progress(b) ELSE status[c]
  BY DEF Written, TypeOK
<1>2. CASE c # b
  BY <1>1, <1>2
<1>3. CASE c = b
  BY <1>1, <1>3 DEF Progress, Active, Open, Lasting, Settled
<1> QED
  BY <1>2, <1>3

LEMMA CallsLast ==
    ASSUME TypeOK, TypeOK', Inductive, Lasting, Smooth, Smooth', NEW b \in Batches,
           \/ Mark(b) \/ RecordProvider(b) \/ LocalStart(b) \/ (\E d \in Docs : LocalStep(b, d))
           \/ LocalDone(b)
    PROVE  Lasting'
<1>1. \A d \in Docs : at[d] \in 1 .. N + 1
  BY DEF TypeOK
<1>2. call \in [Batches -> Calls] /\ status \in [Batches -> {"none", "queued", "running", "completed", "failed"}]
  BY DEF TypeOK
<1>3. CASE Mark(b)
  <2>1. status[b] \in {"queued", "running", "completed"}
    BY <1>2, <1>3 DEF Mark, Inductive, Smooth, Ceased, Still
  <2>2. status'[b] = "running" /\ \A c \in Batches : c # b => status'[c] = status[c]
    BY <1>2, <1>3 DEF Mark, Written
  <2>3. call'[b] = "marked" /\ \A c \in Batches : c # b => call'[c] = call[c]
    BY <1>2, <1>3 DEF Mark, Calling
  <2>4. /\ UNCHANGED <<task, owned, refresh, access, held, at>>
        /\ overtaken' = IF status[b] = "completed" THEN overtaken \union {b} ELSE overtaken
    BY <1>3 DEF Mark
  <2>5. \A c \in Batches :
            /\ call'[c] # "failing"
            /\ call'[c] \in {"created", "reserved"} => call[c] = call'[c]
            /\ call'[c] = "draining" => call[c] \in {"created", "draining"}
    BY <2>3 DEF Lasting, Unlaunched
  <2>6. \A c \in Batches :
            /\ (status'[c] = "completed" \/ c \in overtaken') =>
                  status[c] = "completed" \/ c \in overtaken
            /\ (Active(status'[c]) /\ c \notin overtaken') =>
                  Active(status[c]) /\ c \notin overtaken
    BY <2>1, <2>2, <2>4 DEF Active
  <2> QED
    BY <1>1, <2>3, <2>4, <2>5, <2>6, TasksKept
<1>4. CASE RecordProvider(b)
  <2>1. status' = status
    BY <1>2, <1>4 DEF RecordProvider, Written
  <2>2. call'[b] = "none" /\ \A c \in Batches : c # b => call'[c] = call[c]
    BY <1>2, <1>4 DEF RecordProvider, Calling
  <2>3. UNCHANGED <<task, owned, refresh, access, held, at, overtaken>>
    BY <1>4 DEF RecordProvider
  <2>4. \A c \in Batches :
            /\ call'[c] # "failing"
            /\ call'[c] \in {"created", "reserved"} => call[c] = call'[c]
            /\ call'[c] = "draining" => call[c] \in {"created", "draining"}
    BY <2>2 DEF Lasting, Unlaunched
  <2> QED
    BY <1>1, <2>1, <2>3, <2>4, TasksKept
<1>5. CASE LocalStart(b)
  <2>1. status'[b] = "running" /\ \A c \in Batches : c # b => status'[c] = status[c]
    BY <1>2, <1>5 DEF LocalStart, Written
  <2>2. call'[b] = "draining" /\ call[b] = "created" /\ \A c \in Batches : c # b => call'[c] = call[c]
    BY <1>2, <1>5 DEF LocalStart, Calling
  <2>3. UNCHANGED <<task, owned, refresh, access, held, at, overtaken>>
    BY <1>5 DEF LocalStart
  <2>4. \A c \in Batches :
            /\ call'[c] # "failing"
            /\ call'[c] \in {"created", "reserved"} => call[c] = call'[c]
            /\ call'[c] = "draining" => call[c] \in {"created", "draining"}
    BY <2>2 DEF Lasting, Unlaunched
  <2>5. ~Handed(b)
    BY <2>2 DEF Lasting, Unlaunched
  <2> QED
    BY <1>1, <2>1, <2>3, <2>4, <2>5, TasksKept
<1>6. CASE \E d \in Docs : LocalStep(b, d)
  <2>1. PICK d \in Docs : LocalStep(b, d)
    BY <1>6
  <2>2. \A e \in Docs : at[e] <= at'[e]
    BY <1>1, <2>1 DEF LocalStep, TypeOK
  <2>3. UNCHANGED <<task, owned, refresh, held, call, status, overtaken>> /\ access' \subseteq access
    BY <2>1 DEF LocalStep
  <2> QED
    BY <2>2, <2>3, TasksKept DEF Lasting, Unlaunched
<1>7. CASE LocalDone(b)
  <2>1. status'[b] = "completed" /\ \A c \in Batches : c # b => status'[c] = status[c]
    BY <1>2, <1>7 DEF LocalDone, Written
  <2>2. call'[b] = "none" /\ call[b] = "draining" /\ \A c \in Batches : c # b => call'[c] = call[c]
    BY <1>2, <1>7 DEF LocalDone, Calling
  <2>3. UNCHANGED <<task, owned, refresh, access, held, at, overtaken>>
    BY <1>7 DEF LocalDone
  <2>4. \A c \in Batches :
            /\ call'[c] # "failing"
            /\ call'[c] \in {"created", "reserved"} => call[c] = call'[c]
            /\ call'[c] = "draining" => call[c] \in {"created", "draining"}
    BY <2>2 DEF Lasting, Unlaunched
  <2>5. owned[b] = {}
    BY <2>2 DEF Lasting, Unlaunched
  <2>6. \A c \in Batches :
            /\ (status'[c] = "completed" \/ c \in overtaken') =>
                  \/ status[c] = "completed" \/ c \in overtaken
                  \/ \A d \in owned[c] : ~Open(d)
            /\ (Active(status'[c]) /\ c \notin overtaken') =>
                  Active(status[c]) /\ c \notin overtaken
    BY <2>1, <2>3, <2>5 DEF Active
  <2> QED
    BY <1>1, <2>3, <2>4, <2>6, TasksKept
<1> QED
  BY <1>3, <1>4, <1>5, <1>6, <1>7

LEMMA OthersLast ==
    ASSUME TypeOK, TypeOK', Inductive, Lasting, Smooth, Smooth',
           \/ \E d \in Docs : ExpireClaim(d)
           \/ \E s \in Sweepers :
                 \/ SweepStep(s)
                 \/ \E b \in Batches, idle \in {"silent", "abandoned"} : Pick(s, b, idle)
           \/ UNCHANGED vars
    PROVE  Lasting'
<1>1. \A d \in Docs : at[d] \in 1 .. N + 1
  BY DEF TypeOK
<1>2. status \in [Batches -> {"none", "queued", "running", "completed", "failed"}]
  BY DEF TypeOK
<1>3. UNCHANGED call => \A b \in Batches :
         /\ call'[b] # "failing"
         /\ call'[b] \in {"created", "reserved"} => call[b] = call'[b]
         /\ call'[b] = "draining" => call[b] \in {"created", "draining"}
  BY DEF Lasting, Unlaunched
<1>4. CASE \E d \in Docs : ExpireClaim(d)
  <2>1. PICK d \in Docs : ExpireClaim(d)
    BY <1>4
  <2>2. UNCHANGED <<task, owned, refresh, at, call, status, overtaken>>
        /\ access' \subseteq access /\ held' \subseteq held
    BY <2>1 DEF ExpireClaim
  <2> QED
    BY <1>1, <1>3, <2>2, TasksKept
<1>5. CASE UNCHANGED vars
  <2>1. UNCHANGED <<task, owned, refresh, at, call, status, overtaken, access, held>>
    BY <1>5 DEF vars
  <2> QED
    BY <1>1, <1>3, <2>1, TasksKept
<1>6. ASSUME NEW s \in Sweepers, NEW b \in Batches, NEW idle \in {"silent", "abandoned"},
             Pick(s, b, idle)
      PROVE  Lasting'
  <2>1. UNCHANGED <<task, owned, refresh, at, call, status, overtaken, access, held>>
    BY <1>6 DEF Pick
  <2> QED
    BY <1>1, <1>3, <2>1, TasksKept
<1>7. ASSUME NEW s \in Sweepers, Reconcile(s)
      PROVE  Lasting'
  <2>1. PICK b \in Batches : b = sweep[s].batch
    BY <1>7 DEF Reconcile, Inductive, Smooth, Ceased
  <2>2. UNCHANGED <<task, owned, refresh, at, call, overtaken, access, held>>
    BY <1>7 DEF Reconcile
  <2>3. CASE UNCHANGED status
    BY <1>1, <1>3, <2>2, <2>3, TasksKept
  <2>4. CASE Written(b, Progress(b))
    <3>1. \A c \in Batches :
              /\ (status'[c] = "completed" \/ c \in overtaken') =>
                    \/ status[c] = "completed" \/ c \in overtaken
                    \/ \A d \in owned[c] : ~Open(d)
              /\ (Active(status'[c]) /\ c \notin overtaken') =>
                    \/ Active(status[c]) /\ c \notin overtaken
                    \/ \E d \in owned[c] : Open(d)'
      BY <2>2, <2>4, ProgressWritten
    <3> QED
      BY <1>1, <1>3, <2>2, <3>1, TasksKept
  <2> QED
    BY <1>7, <2>1, <2>3, <2>4 DEF Reconcile
<1>8. ASSUME NEW s \in Sweepers, Judge(s)
      PROVE  Lasting'
  <2>1. PICK b : b = sweep[s].batch
    OBVIOUS
  <2>2. UNCHANGED <<task, owned, refresh, at, call, overtaken, access, held>>
    BY <1>8 DEF Judge
  <2>3. Written(b, "failed") \/ UNCHANGED status
    BY <1>8, <2>1 DEF Judge
  <2>4. \A c \in Batches : status'[c] \in {status[c], "failed"}
    BY <1>2, <2>3 DEF Written
  <2>5. \A c \in Batches :
            /\ (status'[c] = "completed" \/ c \in overtaken') =>
                  status[c] = "completed" \/ c \in overtaken
            /\ (Active(status'[c]) /\ c \notin overtaken') =>
                  Active(status[c]) /\ c \notin overtaken
    BY <2>2, <2>4 DEF Active
  <2> QED
    BY <1>1, <1>3, <2>2, <2>5, TasksKept
<1> QED
  BY <1>4, <1>5, <1>6, <1>7, <1>8 DEF SweepStep

LEMMA LaunchesLast ==
    ASSUME TypeOK, TypeOK', Inductive, Lasting, Smooth, Smooth', NEW b \in Batches,
           Create(b) \/ Reserve(b) \/ Trigger(b)
    PROVE  Lasting'
<1>1. \A d \in Docs : at[d] \in 1 .. N + 1 /\ (Open(d)' <=> Open(d)) /\ at'[d] = at[d]
  BY DEF TypeOK, Open, Create, Reserve, Trigger
<1>2. /\ call \in [Batches -> Calls] /\ owned \in [Batches -> SUBSET Docs]
      /\ status \in [Batches -> {"none", "queued", "running", "completed", "failed"}]
      /\ task \in [Batches -> [Docs -> Tasks]] /\ overtaken \subseteq Batches
  BY DEF TypeOK
<1>3. CASE Create(b)
  <2>1. status'[b] = "queued" /\ \A c \in Batches : c # b => status'[c] = status[c]
    BY <1>2, <1>3 DEF Create, Written
  <2>2. call'[b] = "created" /\ \A c \in Batches : c # b => call'[c] = call[c]
    BY <1>2, <1>3 DEF Create, Calling
  <2>3. /\ owned'[b] = {} /\ \A c \in Batches : c # b => owned'[c] = owned[c]
        /\ \A d \in Docs : task'[b][d] = NoTask /\ Over(task[b][d])
        /\ \A c \in Batches : c # b => task'[c] = task[c]
    BY <1>2, <1>3 DEF Create
  <2>4. refresh' = refresh \ {b} /\ overtaken' = overtaken \ {b} /\ UNCHANGED <<at, held, access>>
    BY <1>3 DEF Create
  <2>5. ~Handed(b)' /\ \A c \in Batches : c # b => (Handed(c)' <=> Handed(c))
    BY <2>3 DEF Handed, NoTask
  <2>6. Contents'
    BY <2>4 DEF Lasting, Contents
  <2>7. Unlaunched'
    BY <2>2, <2>3, <2>4, <2>5 DEF Lasting, Unlaunched
  <2>8. Claimed'
    <3> SUFFICES ASSUME NEW d \in held PROVE \E c \in Batches : task'[c][d].phase = "working"
      BY <2>4 DEF Claimed
    <3>1. PICK c \in Batches : task[c][d].phase = "working"
      BY DEF Lasting, Claimed
    <3>2. d \in Docs
      BY DEF TypeOK
    <3> QED
      BY <2>3, <3>1, <3>2 DEF Over
  <2>9. Settled'
    BY <1>1, <1>2, <2>1, <2>3, <2>4 DEF Lasting, Settled
  <2>10. InPlace'
    BY <1>1, <2>3 DEF Lasting, InPlace, Placed, NoTask
  <2>11. Complete'
    BY <2>3, <2>5 DEF Lasting, Complete
  <2>12. Awaited'
    BY <2>1, <2>3, <2>4, <2>5 DEF Lasting, Awaited, Pending
  <2> QED
    BY <2>6, <2>7, <2>8, <2>9, <2>10, <2>11, <2>12 DEF Lasting
<1>4. CASE Reserve(b)
  <2>1. PICK free \in SUBSET Docs :
            /\ owned' = [owned EXCEPT ![b] = free]
            /\ refresh' = IF free # {} /\ free \subseteq access THEN refresh \union {b} ELSE refresh
            /\ Written(b, IF free = {} THEN "completed" ELSE "queued")
            /\ Calling(b, IF free = {} THEN "none" ELSE "reserved")
    BY <1>4 DEF Reserve
  <2>2. /\ status'[b] = IF free = {} THEN "completed" ELSE "queued"
        /\ \A c \in Batches : c # b => status'[c] = status[c]
    BY <1>2, <2>1 DEF Written
  <2>3. call'[b] \in {"none", "reserved"} /\ \A c \in Batches : c # b => call'[c] = call[c]
    BY <1>2, <2>1 DEF Calling
  <2>4. owned'[b] = free /\ \A c \in Batches : c # b => owned'[c] = owned[c]
    BY <1>2, <2>1
  <2>5. call[b] = "created" /\ UNCHANGED <<at, held, access, task, overtaken>>
    BY <1>4 DEF Reserve
  <2>6. ~Handed(b) /\ \A c \in Batches : Handed(c)' <=> Handed(c)
    BY <2>5 DEF Lasting, Unlaunched, Handed
  <2>7. Contents'
    BY <2>1, <2>5 DEF Lasting, Contents
  <2>8. Unlaunched'
    BY <2>3, <2>4, <2>5, <2>6 DEF Lasting, Unlaunched
  <2>9. Claimed' /\ InPlace'
    BY <2>5 DEF Lasting, Claimed, InPlace
  <2>10. Settled'
    <3>1. b \notin overtaken
      BY <2>5 DEF Lasting, Unlaunched
    <3> QED
      BY <1>1, <1>2, <2>2, <2>4, <2>5, <3>1 DEF Lasting, Settled
  <2>11. Complete'
    BY <2>4, <2>5, <2>6 DEF Lasting, Complete
  <2>12. Awaited'
    BY <2>2, <2>5, <2>6 DEF Lasting, Awaited, Pending
  <2> QED
    BY <2>7, <2>8, <2>9, <2>10, <2>11, <2>12 DEF Lasting
<1>5. CASE Trigger(b)
  <2>1. call[b] = "reserved" /\ call'[b] = "accepted" /\ \A c \in Batches : c # b => call'[c] = call[c]
    BY <1>2, <1>5 DEF Trigger, Calling
  <2>2. task' = Scheduled(b) /\ UNCHANGED <<status, owned, refresh, at, held, access, overtaken>>
    BY <1>5 DEF Trigger
  <2>3. ~Handed(b) /\ FirstStage(b) = 1
    BY <2>1 DEF Lasting, Unlaunched, Contents, FirstStage
  <2>4. /\ \A c \in Batches : c # b => task'[c] = task[c]
        /\ \A d \in Docs : task'[b][d] = IF d \in owned[b]
                                         THEN [NoTask EXCEPT !.phase = "due", !.stage = 1]
                                         ELSE NoTask
    BY <1>2, <2>2, <2>3 DEF Scheduled
  <2>5. \A d \in Docs : /\ task'[b][d].phase = IF d \in owned[b] THEN "due" ELSE "none"
                        /\ task'[b][d].stage = 1
    <3>1. PICK due : due = [NoTask EXCEPT !.phase = "due", !.stage = 1]
      OBVIOUS
    <3>2. due.phase = "due" /\ due.stage = 1 /\ NoTask.phase = "none" /\ NoTask.stage = 1
      BY <3>1 DEF NoTask
    <3> QED
      BY <2>4, <3>1, <3>2
  <2>6. \A c \in Batches : c # b => (Handed(c)' <=> Handed(c))
    BY <2>4 DEF Handed
  <2>7. Contents' /\ Settled'
    BY <1>1, <1>2, <2>2 DEF Lasting, Contents, Settled
  <2>8. Unlaunched'
    BY <2>1, <2>2, <2>6 DEF Lasting, Unlaunched
  <2>9. Claimed'
    <3> SUFFICES ASSUME NEW d \in held PROVE \E c \in Batches : task'[c][d].phase = "working"
      BY <2>2 DEF Claimed
    <3>1. PICK c \in Batches : task[c][d].phase = "working"
      BY DEF Lasting, Claimed
    <3>2. d \in Docs
      BY DEF TypeOK
    <3> QED
      BY <2>3, <2>4, <3>1, <3>2 DEF Handed
  <2>10. InPlace'
    <3> SUFFICES ASSUME NEW c \in Batches, NEW d \in Docs PROVE Placed(task'[c][d], at'[d])
      BY DEF InPlace
    <3>1. CASE c # b
      BY <1>1, <2>4, <3>1 DEF Lasting, InPlace
    <3>2. CASE c = b
      BY <1>1, <2>5, <3>2 DEF Placed
    <3> QED
      BY <3>1, <3>2
  <2>11. Complete'
    BY <1>2, <2>2, <2>4, <2>5, <2>6, <2>3 DEF Lasting, Complete
  <2>12. Awaited'
    <3> SUFFICES ASSUME NEW c \in Batches, Handed(c)', Active(status'[c]), c \notin overtaken'
                 PROVE  Pending(c)'
      BY DEF Awaited
    <3>1. CASE c # b
      BY <2>2, <2>4, <2>6, <3>1 DEF Lasting, Awaited, Pending
    <3>2. CASE c = b
      BY <2>5, <3>2 DEF Handed, Pending, Pends
    <3> QED
      BY <3>1, <3>2
  <2> QED
    BY <2>7, <2>8, <2>9, <2>10, <2>11, <2>12 DEF Lasting
<1> QED
  BY <1>3, <1>4, <1>5

(* What follows a refresh is in place where the refresh was.               *)
LEMMA FollowedPlaced ==
    ASSUME NEW t \in Tasks, NEW p \in Nat, t.phase = "refreshing", Placed(t, p)
    PROVE  /\ Placed(Followed(t, N), p)
           /\ Followed(t, N).phase \in {"due", "over"}
           /\ t.stage # N => Followed(t, N).phase = "due"
<1>1. t.ok /\ t.stage \in 1 .. N /\ t.stage < p
  BY DEF Placed, Tasks
<1>2. PICK u : u = Followed(t, N)
  OBVIOUS
<1>3. CASE t.stage = N
  <2>1. u = [NoTask EXCEPT !.phase = "over"]
    BY <1>1, <1>2, <1>3 DEF Followed
  <2>2. u.phase = "over"
    BY <2>1 DEF NoTask
  <2> QED
    BY <1>1, <1>2, <1>3, <2>2 DEF Placed
<1>4. CASE t.stage # N
  <2>1. u = [NoTask EXCEPT !.phase = "due", !.stage = t.stage + 1]
    BY <1>1, <1>2, <1>4 DEF Followed
  <2>2. u.phase = "due" /\ u.stage = t.stage + 1
    BY <2>1 DEF NoTask
  <2> QED
    BY <1>1, <1>2, <1>4, <2>2 DEF Placed
<1> QED
  BY <1>3, <1>4

(* Steps that move one task.                                               *)
LEMMA TaskMoved ==
    ASSUME TypeOK, TypeOK', Lasting, NEW b \in Batches, NEW d \in Docs,
           UNCHANGED <<call, owned, refresh, overtaken>>, access' \subseteq access,
           \A e \in Docs : at[e] <= at'[e],
           \A c \in Batches, e \in Docs : c # b \/ e # d => task'[c][e] = task[c][e],
           task[b][d].phase # "none", task'[b][d].phase # "none",
           Placed(task'[b][d], at'[d]),
           \A e \in held' : e # d => e \in held,
           d \in held' => \E c \in Batches : task'[c][d].phase = "working",
           \A c \in Batches :
              /\ status'[c] = "completed" =>
                    status[c] = "completed" \/ \A e \in owned[c] : ~Open(e)
              /\ (Active(status'[c]) /\ c \notin overtaken) =>
                    \/ Active(status[c]) /\ c # b
                    \/ c = b /\ Pends(task'[b][d])
                    \/ c = b /\ Active(status[b]) /\ ~Pends(task[b][d])
                    \/ \E e \in owned[c] : Open(e)'
    PROVE  Lasting'
<1>1. \A e \in Docs : at[e] \in 1 .. N + 1 /\ at'[e] \in 1 .. N + 1 /\ (~Open(e) => ~Open(e)')
  BY DEF TypeOK, Open
<1>2. \A c \in Batches : owned[c] \subseteq Docs
  BY DEF TypeOK
<1>3. \A c \in Batches, e \in Docs : (task'[c][e].phase = "none") <=> (task[c][e].phase = "none")
  OBVIOUS
<1>4. \A c \in Batches : Handed(c)' <=> Handed(c)
  BY <1>3 DEF Handed
<1>5. Contents' /\ Complete'
  BY <1>2, <1>3, <1>4 DEF Lasting, Contents, Complete
<1>6. Unlaunched'
  BY <1>4 DEF Lasting, Unlaunched
<1>7. Claimed'
  <2> SUFFICES ASSUME NEW e \in held' PROVE \E c \in Batches : task'[c][e].phase = "working"
    BY DEF Claimed
  <2>1. e \in Docs
    BY DEF TypeOK
  <2>2. CASE e # d
    BY <2>1, <2>2 DEF Lasting, Claimed
  <2> QED
    BY <2>2
<1>8. Settled'
  BY <1>1, <1>2 DEF Lasting, Settled
<1>9. InPlace'
  <2> SUFFICES ASSUME NEW c \in Batches, NEW e \in Docs PROVE Placed(task'[c][e], at'[e])
    BY DEF InPlace
  <2>1. task[c][e] \in Tasks /\ Placed(task[c][e], at[e])
    BY DEF TypeOK, Lasting, InPlace
  <2>2. CASE c # b \/ e # d
    BY <1>1, <2>1, <2>2, PlacedAhead
  <2> QED
    BY <2>2
<1>10. Awaited'
  <2> SUFFICES ASSUME NEW c \in Batches, Handed(c)', Active(status'[c]), c \notin overtaken
               PROVE  Pending(c)'
    BY DEF Awaited
  <2>1. Handed(c)
    BY <1>4
  <2>2. CASE Active(status[c]) /\ c # b
    BY <2>1, <2>2 DEF Lasting, Awaited, Pending
  <2>3. CASE c = b /\ Pends(task'[b][d])
    BY <2>3 DEF Pending
  <2>4. CASE c = b /\ Active(status[b]) /\ ~Pends(task[b][d])
    <3>1. PICK e \in Docs : Pends(task[b][e])
      BY <2>1, <2>4 DEF Lasting, Awaited, Pending
    <3> QED
      BY <2>4, <3>1 DEF Pending
  <2>5. CASE \E e \in owned[c] : Open(e)'
    <3>1. PICK e \in owned[c] : Open(e)'
      BY <2>5
    <3>2. e \in Docs /\ task'[c][e] \in Tasks
      BY <1>2, <3>1 DEF TypeOK
    <3>3. task'[c][e].phase # "none" /\ Placed(task'[c][e], at'[e]) /\ at'[e] <= N
      BY <1>5, <1>9, <3>1, <3>2 DEF Complete, InPlace, Open
    <3> QED
      BY <1>1, <3>2, <3>3, OpenPends DEF Pending
  <2> QED
    BY <2>2, <2>3, <2>4, <2>5
<1> QED
  BY <1>5, <1>6, <1>7, <1>8, <1>9, <1>10 DEF Lasting

(* No other attempt holds the stage that a task is due to claim.           *)
LEMMA NobodyElse ==
    ASSUME TypeOK, Inductive, Lasting, Smooth, NEW b \in Batches, NEW d \in Docs,
           task[b][d].phase = "due", at[d] = task[b][d].stage
    PROVE  d \notin held
<1> SUFFICES ASSUME d \in held PROVE FALSE
  OBVIOUS
<1>1. PICK c \in Batches : task[c][d].phase = "working"
  BY DEF Lasting, Claimed
<1>2. at[d] <= N
  BY DEF TypeOK, Tasks
<1>3. Launched /\ Ceased /\ Apart
  BY DEF Inductive, Smooth
<1>4. ASSUME NEW e \in {b, c} PROVE Driven(e, d)
  <2>1. e \in Batches /\ ~Over(task[e][d])
    BY <1>1 DEF Over
  <2>2. d \in owned[e]
    BY <1>3, <2>1 DEF Launched
  <2>3. status[e] # "completed" /\ e \notin overtaken
    BY <1>2, <2>1, <2>2 DEF Lasting, Settled, Open
  <2>4. status[e] \notin {"none", "failed"}
    BY <1>3, <2>1 DEF Ceased, Still
  <2> QED
    BY <2>1, <2>3, <2>4 DEF TypeOK, Driven, Active
<1>5. Claimant(b) /\ Claimant(c)
  BY <1>4 DEF Driven, Claimant
<1>6. d \in owned[b] /\ d \in owned[c]
  BY <1>1, <1>3, <1>4 DEF Launched, Driven
<1> QED
  BY <1>1, <1>3, <1>5, <1>6 DEF Apart

LEMMA TasksLast ==
    ASSUME TypeOK, TypeOK', Inductive, Lasting, Smooth, Smooth',
           NEW b \in Batches, NEW d \in Docs, TaskStep(b, d)
    PROVE  Lasting'
<1>1. \A e \in Docs : at[e] \in 1 .. N + 1
  BY DEF TypeOK
<1>2. /\ task[b][d] \in Tasks /\ task \in [Batches -> [Docs -> Tasks]]
      /\ status \in [Batches -> {"none", "queued", "running", "completed", "failed"}]
  BY DEF TypeOK
<1>3. PICK t \in Tasks : t = task[b][d]
  BY <1>2
<1>4. Placed(t, at[d]) /\ (t.phase = "working" => at[d] = t.stage)
  BY <1>3 DEF Lasting, InPlace, Inductive, Worked
<1>5. /\ ~Over(t) => status[b] \notin {"none", "failed"}
      /\ UNCHANGED status /\ ~Over(t) /\ (Pends(task'[b][d]) \/ ~Pends(t)) =>
           \A c \in Batches :
              (Active(status'[c]) /\ c \notin overtaken) =>
                    \/ Active(status[c]) /\ c # b
                    \/ c = b /\ Pends(task'[b][d])
                    \/ c = b /\ Active(status[b]) /\ ~Pends(task[b][d])
  BY <1>3 DEF Inductive, Smooth, Ceased, Still
<1>6. d \in held /\ t.phase # "working" => \E c \in Batches : c # b /\ task[c][d].phase = "working"
  BY <1>3 DEF Lasting, Claimed
<1>7. CASE Claims(b, d) /\ at[d] = t.stage
  <2>1. t.phase = "due" /\ d \notin held
    BY <1>3, <1>7, NobodyElse DEF Claims
  <2>2. /\ task' = [task EXCEPT ![b][d].phase = "working"] /\ held' = held \union {d}
        /\ UNCHANGED <<status, call, owned, refresh, overtaken, access, at>>
    BY <1>3, <1>7, <2>1 DEF Claims
  <2>3. /\ task'[b][d].phase = "working"
        /\ \A c \in Batches, e \in Docs : c # b \/ e # d => task'[c][e] = task[c][e]
    BY <1>2, <2>2 DEF Tasks
  <2>4. Pends(task'[b][d]) /\ Placed(task'[b][d], at'[d])
    BY <2>3 DEF Pends, Placed
  <2> QED
    BY <1>1, <1>3, <1>5, <2>1, <2>2, <2>3, <2>4, TaskMoved
<1>8. ASSUME t.phase \in {"due", "working"}, at'[d] > t.stage, at'[d] \in Nat,
             task' = [task EXCEPT ![b][d] = Ended(@, TRUE)]
      PROVE  /\ \A c \in Batches, e \in Docs : c # b \/ e # d => task'[c][e] = task[c][e]
             /\ Pends(task'[b][d]) /\ Placed(task'[b][d], at'[d])
             /\ task[b][d].phase # "none" /\ task'[b][d].phase # "none"
  <2>1. task'[b][d] = Ended(t, TRUE)
    BY <1>2, <1>3, <1>8
  <2>2. PICK u : u = Ended(t, TRUE)
    OBVIOUS
  <2>3. u.ok /\ u.stage = t.stage /\ u.phase = IF t.stage = N THEN "asking" ELSE "refreshing"
    BY <2>2 DEF Ended, Tasks
  <2>4. Pends(u) /\ Placed(u, at'[d]) /\ u.phase # "none"
    BY <1>8, <2>3 DEF Pends, Placed
  <2> QED
    BY <1>2, <1>3, <1>8, <2>1, <2>2, <2>4
<1>9. CASE Claims(b, d) /\ at[d] # t.stage
  <2>1. /\ t.phase = "due" /\ task' = [task EXCEPT ![b][d] = Ended(@, TRUE)]
        /\ UNCHANGED <<status, call, owned, refresh, overtaken, access, at, held>>
    BY <1>3, <1>9 DEF Claims
  <2>2. at'[d] > t.stage /\ at'[d] \in Nat
    BY <1>1, <1>4, <1>9, <2>1 DEF Placed, Tasks
  <2>3. /\ \A c \in Batches, e \in Docs : c # b \/ e # d => task'[c][e] = task[c][e]
        /\ Pends(task'[b][d]) /\ Placed(task'[b][d], at'[d])
        /\ task[b][d].phase # "none" /\ task'[b][d].phase # "none"
    BY <1>8, <2>1, <2>2
  <2>4. d \in held' => \E c \in Batches : task'[c][d].phase = "working"
    BY <1>6, <2>1, <2>3
  <2>5. \A c \in Batches : Active(status'[c]) /\ c \notin overtaken =>
                                \/ Active(status[c]) /\ c # b
                                \/ c = b /\ Pends(task'[b][d])
    BY <2>1, <2>3
  <2>6. /\ \A c \in Batches : status'[c] = "completed" => status[c] = "completed"
        /\ UNCHANGED <<call, owned, refresh, overtaken>> /\ access' \subseteq access
        /\ held' = held /\ \A e \in Docs : at[e] <= at'[e]
    BY <1>1, <2>1
  <2> QED
    BY <2>3, <2>4, <2>5, <2>6, TaskMoved
<1>10. CASE Derives(b, d)
  <2>1. /\ t.phase = "working" /\ task' = [task EXCEPT ![b][d] = Ended(@, TRUE)]
        /\ UNCHANGED <<status, call, owned, refresh, overtaken>>
        /\ held' = held \ {d} /\ access' \subseteq access
    BY <1>3, <1>10 DEF Derives
  <2>2. PICK next \in {at[d] + 1, N + 1} : at' = [at EXCEPT ![d] = next]
    BY <1>10 DEF Derives
  <2>3. at'[d] > t.stage /\ at'[d] \in Nat /\ \A e \in Docs : at[e] <= at'[e]
    BY <1>1, <1>4, <2>1, <2>2 DEF Tasks, TypeOK
  <2> QED
    BY <1>1, <1>3, <1>5, <1>8, <2>1, <2>3, TaskMoved DEF Over
<1>11. CASE Asks(b, d)
  <2>1. /\ t.phase = "asking"
        /\ task' = [task EXCEPT ![b][d].phase = "refreshing", ![b][d].forced = LastOne(b, d)]
        /\ UNCHANGED <<status, call, owned, refresh, overtaken, access, at, held>>
    BY <1>3, <1>11 DEF Asks
  <2>2. /\ \A c \in Batches, e \in Docs : c # b \/ e # d => task'[c][e] = task[c][e]
        /\ task'[b][d] = [t EXCEPT !.phase = "refreshing", !.forced = LastOne(b, d)]
    BY <1>2, <1>3, <2>1
  <2>3. PICK u : u = [t EXCEPT !.phase = "refreshing", !.forced = LastOne(b, d)]
    OBVIOUS
  <2>4. /\ u.phase = "refreshing" /\ u.ok = t.ok /\ u.stage = t.stage
        /\ u.forced = LastOne(b, d)
    BY <2>3 DEF Tasks
  <2>5. Placed(task'[b][d], at'[d]) /\ task'[b][d].phase = "refreshing"
    BY <1>4, <2>1, <2>2, <2>3, <2>4 DEF Placed
  <2>6. \/ Pends(task'[b][d])
        \/ \E e \in owned[b] : Open(e)'
    BY <2>1, <2>2, <2>3, <2>4 DEF Pends, LastOne, Open
  <2>7. d \in held' => \E c \in Batches : task'[c][d].phase = "working"
    BY <1>6, <2>1, <2>2
  <2>8. \A c \in Batches : Active(status'[c]) /\ c \notin overtaken =>
                                \/ Active(status[c]) /\ c # b
                                \/ c = b /\ Pends(task'[b][d])
                                \/ \E e \in owned[c] : Open(e)'
    BY <2>1, <2>6
  <2>9. /\ \A c \in Batches : status'[c] = "completed" => status[c] = "completed"
        /\ UNCHANGED <<call, owned, refresh, overtaken>> /\ access' \subseteq access
        /\ held' = held /\ \A e \in Docs : at[e] <= at'[e]
        /\ task[b][d].phase # "none" /\ task'[b][d].phase # "none"
    BY <1>1, <1>3, <2>1, <2>5
  <2>10. \A c \in Batches, e \in Docs : c # b \/ e # d => task'[c][e] = task[c][e]
    BY <2>2
  <2> QED
    BY <2>5, <2>7, <2>8, <2>9, <2>10, TaskMoved
<1>12. ASSUME t.phase = "refreshing", task' = [task EXCEPT ![b][d] = Followed(@, N)], at' = at
       PROVE  /\ \A c \in Batches, e \in Docs : c # b \/ e # d => task'[c][e] = task[c][e]
              /\ Placed(task'[b][d], at'[d])
              /\ task'[b][d].phase \in {"due", "over"}
              /\ t.stage # N => Pends(task'[b][d])
  <2>1. task'[b][d] = Followed(t, N)
    BY <1>2, <1>3, <1>12
  <2> QED
    BY <1>1, <1>2, <1>4, <1>12, <2>1, FollowedPlaced DEF Pends
<1>13. CASE Refreshes(b, d)
  <2>1. /\ t.phase = "refreshing" /\ task' = [task EXCEPT ![b][d] = Followed(@, N)]
        /\ Written(b, Progress(b))
        /\ UNCHANGED <<call, owned, refresh, overtaken, access, at, held>>
    BY <1>3, <1>13 DEF Refreshes
  <2>2. \A c \in Batches :
           /\ (status'[c] = "completed" \/ c \in overtaken') =>
                 \/ status[c] = "completed" \/ c \in overtaken
                 \/ \A e \in owned[c] : ~Open(e)
           /\ (Active(status'[c]) /\ c \notin overtaken') =>
                 \/ Active(status[c]) /\ c \notin overtaken /\ c # b
                 \/ \E e \in owned[c] : Open(e)'
    BY <2>1, ProgressWritten
  <2>3. \A c \in Batches :
           status'[c] = "completed" => status[c] = "completed" \/ \A e \in owned[c] : ~Open(e)
    BY <2>2 DEF Lasting, Settled
  <2> QED
    BY <1>1, <1>3, <1>6, <1>12, <2>1, <2>2, <2>3, TaskMoved
<1>14. CASE Skips(b, d)
  <2>1. /\ t.phase = "refreshing" /\ ~t.forced /\ task' = [task EXCEPT ![b][d] = Followed(@, N)]
        /\ UNCHANGED <<status, call, owned, refresh, overtaken, access, at, held>>
    BY <1>3, <1>14 DEF Skips
  <2>2. Pends(task'[b][d]) \/ ~Pends(t)
    BY <1>12, <2>1 DEF Pends
  <2> QED
    BY <1>1, <1>3, <1>5, <1>6, <1>12, <2>1, <2>2, TaskMoved DEF Over
<1> QED
  BY <1>3, <1>7, <1>9, <1>10, <1>11, <1>13, <1>14 DEF TaskStep

LEMMA LastingStep ==
    Inductive /\ Inductive' /\ (Smooth => Lasting) /\ [Next]_vars => (Smooth => Lasting)'
<1> SUFFICES ASSUME Inductive, Inductive', Smooth => Lasting, [Next]_vars, Smooth'
             PROVE  Lasting'
  OBVIOUS
<1>1. TypeOK /\ TypeOK'
  BY DEF Inductive
<1>2. Smooth /\ Lasting
  BY <1>1, SmoothStays
<1>3. Unlaunched
  BY <1>2 DEF Lasting
<1>4. ASSUME NEW b \in Batches, Create(b) \/ Reserve(b) \/ Trigger(b) PROVE Lasting'
  BY <1>1, <1>2, <1>4, LaunchesLast
<1>5. ASSUME NEW b \in Batches,
             \/ Mark(b) \/ RecordProvider(b) \/ LocalStart(b)
             \/ (\E d \in Docs : LocalStep(b, d)) \/ LocalDone(b)
      PROVE  Lasting'
  BY <1>1, <1>2, <1>5, CallsLast
<1>6. ASSUME NEW b \in Batches, NEW d \in Docs, TaskStep(b, d) PROVE Lasting'
  BY <1>1, <1>2, <1>6, TasksLast
<1>7. CASE \/ \E d \in Docs : ExpireClaim(d)
           \/ \E s \in Sweepers :
                 \/ SweepStep(s)
                 \/ \E b \in Batches, idle \in {"silent", "abandoned"} : Pick(s, b, idle)
           \/ UNCHANGED vars
  BY <1>1, <1>2, <1>7, OthersLast
<1> QED
  BY <1>1, <1>2, <1>3, <1>4, <1>5, <1>6, <1>7, SmoothNext

(* Steps that end the workflow of a document from its refresh.             *)
LEMMA FinalSteps ==
    ASSUME TypeOK, [Next]_vars, NEW b \in Batches, NEW d \in Docs,
           task[b][d].phase = "refreshing", task'[b][d].phase = "over"
    PROVE  Refreshes(b, d) \/ Skips(b, d) \/ WorkerDies(b, d)
<1>1. task \in [Batches -> [Docs -> Tasks]]
  BY DEF TypeOK
<1>2. ~UNCHANGED task
  OBVIOUS
<1>3. ASSUME NEW c \in Batches PROVE Scheduled(c)[b][d].phase # "over" \/ Scheduled(c)[b] = task[b]
  BY <1>1 DEF Scheduled, NoTask
<1>4. ASSUME NEW c \in Batches,
             \/ Create(c) \/ CallStep(c) \/ TriggerRaises(c) \/ CallerDies(c) \/ LocalFails(c)
             \/ EngineForgets(c)
      PROVE  FALSE
  <2>1. CASE Create(c)
    BY <1>1, <2>1 DEF Create, NoTask
  <2>2. CASE EngineForgets(c)
    BY <1>1, <2>2 DEF EngineForgets, NoTask
  <2>3. task' # Scheduled(c)
    BY <1>3
  <2> QED
    BY <1>2, <1>4, <2>1, <2>2, <2>3 DEF CallStep, Reserve, Trigger, Mark, RecordProvider, FailRun,
      LocalStart, LocalStep, LocalDone, TriggerRaises, CallerDies, LocalFails
<1>5. ASSUME NEW c \in Batches, NEW e \in Docs, TaskStep(c, e) \/ Fails(c, e) \/ WorkerDies(c, e)
      PROVE  Refreshes(b, d) \/ Skips(b, d) \/ WorkerDies(b, d)
  <2>1. ASSUME c # b \/ e # d PROVE FALSE
    <3>1. ~Claims(c, e)
      BY <1>1, <2>1 DEF Claims
    <3>2. ASSUME NEW u, task' = [task EXCEPT ![c][e] = u] PROVE FALSE
      BY <1>1, <2>1, <3>2
    <3>3. ~Asks(c, e)
      BY <1>1, <2>1 DEF Asks
    <3>4. ~Refreshes(c, e) /\ ~Skips(c, e)
      BY <1>1, <2>1 DEF Refreshes, Skips
    <3>5. ~WorkerDies(c, e)
      BY <1>1, <2>1 DEF WorkerDies
    <3> QED
      BY <1>5, <3>1, <3>2, <3>3, <3>4, <3>5 DEF TaskStep, Derives, Fails
  <2>2. c = b /\ e = d
    BY <2>1
  <2>3. ~Claims(b, d) /\ ~Derives(b, d) /\ ~Asks(b, d) /\ ~Fails(b, d)
    BY DEF Claims, Derives, Asks, Fails
  <2> QED
    BY <1>5, <2>2, <2>3 DEF TaskStep
<1>6. \A e \in Docs : ~ExpireClaim(e) /\ \A s \in 1 .. N : ~Reopen(e, s)
  BY <1>2 DEF ExpireClaim, Reopen
<1>7. \A s \in Sweepers :
         ~SweepStep(s) /\ \A c \in Batches, idle \in {"silent", "abandoned"} : ~Pick(s, c, idle)
  BY <1>2 DEF SweepStep, Reconcile, Judge, Pick
<1> QED
  BY <1>2, <1>4, <1>5, <1>6, <1>7 DEF Next, vars

(* The final task of a batch whose documents are settled leaves the row    *)
(* completed (hatchet.py:930), for any number of documents and sweepers:   *)
(* it cannot leave the refresh to another, as somebody who refreshes the   *)
(* row may have read the progress too early.                               *)
THEOREM LastTask == Spec => LastTaskCompletes
<1> DEFINE Completes(b) ==
        /\ \E d \in Docs : task[b][d].phase = "refreshing" /\ task'[b][d].phase = "over"
        /\ \A d \in Docs : Over(task'[b][d])
        /\ \A d \in owned[b] : ~Open(d)
        /\ faults' = 0 /\ reopened = 0 /\ ~strained /\ b \notin overtaken
        => status'[b] = "completed"
<1>1. Init => (Smooth => Lasting)
  BY DEF Init, Lasting, Contents, Unlaunched, Claimed, Settled, InPlace, Placed, Complete,
         Awaited, Handed, NoTask, Open
<1>2. Inductive /\ (Smooth => Lasting) /\ [Next]_vars => [\A b \in Batches : Completes(b)]_vars
  <2> SUFFICES ASSUME Inductive, Smooth => Lasting, [Next]_vars, NEW b \in Batches,
                      NEW d \in Docs, task[b][d].phase = "refreshing", task'[b][d].phase = "over",
                      \A e \in Docs : Over(task'[b][e]), \A e \in owned[b] : ~Open(e),
                      faults' = 0, reopened = 0, ~strained, b \notin overtaken
               PROVE  status'[b] = "completed"
    BY DEF vars
  <2>1. TypeOK /\ faults \in Nat /\ task[b][d] \in Tasks /\ at[d] \in Nat
    BY DEF Inductive, TypeOK
  <2>2. CASE Refreshes(b, d)
    BY <2>1, <2>2 DEF Refreshes, Written, Progress, TypeOK
  <2>3. CASE WorkerDies(b, d)
    BY <2>1, <2>3 DEF WorkerDies, Fault
  <2>4. CASE Skips(b, d)
    <3>1. Smooth /\ Lasting
      BY <2>4 DEF Skips, Smooth
    <3>2. /\ UNCHANGED status /\ ~task[b][d].forced
          /\ task' = [task EXCEPT ![b][d] = Followed(@, N)]
      BY <2>4 DEF Skips
    <3>3. status[b] \notin {"none", "failed"}
      BY <3>1 DEF Inductive, Smooth, Ceased, Still, Over
    <3>4. SUFFICES ASSUME Active(status[b]) PROVE FALSE
      BY <3>2, <3>3 DEF Inductive, TypeOK, Active
    <3>5. PICK e \in Docs : Pends(task[b][e])
      BY <3>1, <3>4 DEF Lasting, Awaited, Handed, Pending
    <3>6. e = d
      BY <3>2, <3>5, <2>1 DEF TypeOK, Pends, Over
    <3>7. task[b][d].stage # N /\ Placed(task[b][d], at[d])
      BY <3>1, <3>2, <3>5, <3>6 DEF Pends, Lasting, InPlace
    <3>8. task'[b][d] = Followed(task[b][d], N)
      BY <2>1, <3>2 DEF TypeOK
    <3> QED
      BY <2>1, <3>7, <3>8, FollowedPlaced
  <2> QED
    BY <2>1, <2>2, <2>3, <2>4, FinalSteps
<1> QED
  BY <1>1, <1>2, Invariant, LastingStep, PTL DEF Spec, LastTaskCompletes

=============================================================================
