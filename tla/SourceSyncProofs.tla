-------------------------- MODULE SourceSyncProofs --------------------------
(***************************************************************************)
(* Proofs about SourceSync for every set of objects and selections, every  *)
(* policy bound and every setting of the connector's capabilities.         *)
(***************************************************************************)
EXTENDS SourceSync, FiniteSetTheorems, TLAPS

(* What applying observations and deletions does to a session's rows.      *)
LEMMA ApplyType ==
    ASSUME TypeOK, NEW d \in Database, NEW S \in SUBSET Objects, NEW D
    PROVE  /\ Apply(d, S, D) \in Database
           /\ Apply(d, S, D).watch = d.watch
           /\ Apply(d, S, D).cursor = d.cursor
           /\ Live(d) \ D \subseteq Live(Apply(d, S, D))
<1>1. Apply(d, S, D).watch = d.watch /\ Apply(d, S, D).cursor = d.cursor
  BY DEF Apply, Database
<1>2. Apply(d, S, D) \in Database
  BY DEF Apply, Database, TypeOK, Dirty
<1>3. Live(d) \ D \subseteq Live(Apply(d, S, D))
  BY DEF Apply, Database, Live
<1> QED BY <1>1, <1>2, <1>3

(* Between two runs the run record is of the right type.                   *)
LEMMA IdleType == Idle \in Runs
BY BoundAssumption, PolicyAssumption DEF Idle, Runs

(* The initial state is of the right type (models.py, Source).             *)
LEMMA InitType == Init => TypeOK
<1> SUFFICES ASSUME Init PROVE TypeOK
  OBVIOUS
<1> USE ScopeAssumption, PolicyAssumption, FlagAssumption, BoundAssumption
<1>1. db = [row |-> [o \in Objects |-> "absent"], ver |-> [o \in Objects |-> 0],
            watch |-> NoWatch, cursor |-> NoCursor, print |-> NoPrint,
            error |-> FALSE, fresh |-> {}]
  BY DEF Init
<1>2. NoWatch \in Watches /\ NoCursor \in Cursors
  BY DEF NoWatch, Watches, NoCursor, Cursors
<1>3. db \in Database
  BY <1>1, <1>2 DEF Database
<1>4. tx = db /\ run = Idle /\ streak = NoWatch /\ strays = {}
  BY DEF Init
<1>5. spent \in [faults : 0 .. MaxFaults, omits : 0 .. MaxOmits, settings : 0 .. MaxSettings]
  BY DEF Init
<1>6. estate \subseteq Objects /\ stamp \in [Objects -> 0 .. MaxEdits] /\ clock \in 0 .. MaxEdits
  BY DEF Init
<1>7. scope \in Scopes /\ required \in 1 .. MaxRequired /\ aged \in BOOLEAN
  BY DEF Init
<1> QED BY <1>2, <1>3, <1>4, <1>5, <1>6, <1>7, IdleType DEF TypeOK

LEMMA StepType == TypeOK /\ [Next]_vars => TypeOK'
<1> SUFFICES ASSUME TypeOK, [Next]_vars PROVE TypeOK'
  OBVIOUS
<1> USE ScopeAssumption, PolicyAssumption, FlagAssumption, BoundAssumption DEF provider, settings
<1>1. ASSUME NEW o \in Objects, ProviderEdit(o) PROVE TypeOK'
  BY <1>1 DEF TypeOK, ProviderEdit
<1>2. ASSUME NEW s \in Scopes, SaveScope(s) PROVE TypeOK'
  BY <1>2 DEF TypeOK, SaveScope
<1>3. ASSUME NEW r \in 1 .. MaxRequired, SavePolicy(r) PROVE TypeOK'
  BY <1>3 DEF TypeOK, SavePolicy
<1>4. CASE AclsAge
  BY <1>4 DEF TypeOK, AclsAge
<1>5. CASE BeginSync
  <2> DEFINE delta == Delta /\ ~ForcedFull(db, scope) /\ ~AclsAreStale
  <2>1. run' = [phase |-> IF delta THEN "delta" ELSE "crawl",
                mode |-> IF delta THEN "incremental" ELSE "full",
                scope |-> scope, required |-> required,
                todo |-> IF delta THEN {} ELSE Objects, seen |-> {}, token |-> clock,
                work |-> FALSE, missing |-> {}, suspicious |-> FALSE,
                lifted |-> Rescoped(db, scope)]
    BY <1>5 DEF BeginSync, Idle
  <2>2. Rescoped(db, scope) \in BOOLEAN
    BY DEF Rescoped
  <2>3. scope \in Scopes /\ required \in 1 .. MaxRequired /\ clock \in 0 .. MaxEdits
    BY DEF TypeOK
  <2> HIDE DEF delta
  <2>4. run' \in Runs
    BY <2>1, <2>2, <2>3 DEF Runs
  <2> QED BY <1>5, <2>4 DEF TypeOK, BeginSync
<1>6. CASE DeltaUnsupported
  BY <1>6 DEF TypeOK, Runs, DeltaUnsupported
<1>7. ASSUME NEW o \in Objects, ObserveOne(o) PROVE TypeOK'
  <2>1. tx' \in Database
    BY <1>7, ApplyType DEF TypeOK, ObserveOne
  <2>2. Dirty(tx, o) \in BOOLEAN
    BY DEF Dirty
  <2>3. run' \in Runs
    BY <1>7, <2>2 DEF TypeOK, Runs, ObserveOne
  <2> QED BY <1>7, <2>1, <2>3 DEF TypeOK, ObserveOne
<1>8. ASSUME NEW o \in Objects, PassOver(o) PROVE TypeOK'
  BY <1>8 DEF TypeOK, Runs, PassOver
<1>9. CASE CrawlEnds
  <2> DEFINE existing == Live(tx)
             missing == existing \ run.seen
             suspicious == NeedsConfirmation(Cardinality(run.seen), Cardinality(missing),
                                             Cardinality(existing), run.lifted)
             watch == Recorded(tx.watch, missing)
             held == suspicious /\ watch.n < run.required
  <2>1. missing \in SUBSET Objects
    BY DEF Live
  <2>2. WatchAfter(watch, held) \in Watches
    BY <2>1 DEF WatchAfter, Recorded, Watches, NoWatch, TypeOK, Database
  <2>3. CrawlToken \in Cursors
    BY DEF CrawlToken, Cursors, TypeOK, Runs
  <2>4. suspicious \in BOOLEAN
    BY DEF NeedsConfirmation
  <2>5. run.scope \in Scopes \union {NoPrint}
    BY DEF TypeOK, Runs
  <2>6. tx' = [tx EXCEPT !.row = [o \in Objects |->
                                   IF o \in missing /\ ~held THEN "deleted" ELSE @[o]],
                        !.watch = WatchAfter(watch, held), !.cursor = CrawlToken,
                        !.print = run.scope, !.error = FALSE]
    BY <1>9 DEF CrawlEnds
  <2> HIDE DEF watch, held
  <2>7. tx' \in Database
    BY <2>2, <2>3, <2>5, <2>6 DEF Database, TypeOK
  <2>8. run' = [run EXCEPT !.phase = "members", !.missing = missing, !.suspicious = suspicious]
    BY <1>9 DEF CrawlEnds
  <2> HIDE DEF missing, suspicious
  <2>9. run' \in Runs
    BY <2>1, <2>4, <2>8 DEF TypeOK, Runs
  <2> QED BY <1>9, <2>7, <2>9 DEF CrawlEnds, TypeOK
<1>10. CASE DrainDelta
  <2> DEFINE changed == IF tx.cursor = NoCursor THEN estate
                        ELSE {o \in Objects : stamp[o] > tx.cursor}
             seen == changed \intersect Visible(run.scope)
             after == Apply(tx, seen, changed \ estate)
             work == \E o \in seen : Dirty(tx, o)
  <2>1. seen \in SUBSET Objects
    BY DEF TypeOK, Visible
  <2>2. after \in Database
    BY <2>1, ApplyType DEF TypeOK
  <2>3. clock \in Cursors /\ run.scope \in Scopes \union {NoPrint} /\ work \in BOOLEAN
    BY DEF TypeOK, Runs, Cursors
  <2>4. tx' = [after EXCEPT !.cursor = clock, !.print = run.scope, !.error = FALSE]
    BY <1>10 DEF DrainDelta
  <2>5. run' = [run EXCEPT !.phase = IF CheapMemberships THEN "members" ELSE "commit",
                          !.work = work]
    BY <1>10 DEF DrainDelta
  <2> HIDE DEF after, work
  <2>6. tx' \in Database
    BY <2>2, <2>3, <2>4 DEF Database
  <2>7. run' \in Runs
    BY <2>3, <2>5 DEF TypeOK, Runs
  <2> QED BY <1>10, <2>6, <2>7 DEF DrainDelta, TypeOK
<1>11. CASE MirrorMemberships
  BY <1>11 DEF TypeOK, Runs, MirrorMemberships
<1>12. CASE CommitScan
  <2>1. streak' \in Watches
    BY <1>12 DEF TypeOK, Runs, CommitScan, Continued, NoWatch, Watches
  <2>2. strays' \subseteq Objects
    BY <1>12 DEF TypeOK, Runs, CommitScan, Strayed
  <2> QED BY <1>12, <2>1, <2>2 DEF TypeOK, Runs, CommitScan
<1>13. CASE ScanFails
  <2>1. db' \in Database /\ tx' \in Database
    BY <1>13 DEF TypeOK, ScanFails, Database
  <2>2. streak' \in Watches
    BY <1>13 DEF TypeOK, Runs, ScanFails, Continued, NoWatch, Watches
  <2>3. strays' \subseteq Objects
    BY <1>13 DEF TypeOK, Runs, ScanFails, Strayed
  <2> QED BY <1>13, <2>1, <2>2, <2>3, IdleType DEF TypeOK, ScanFails
<1>14. CASE SessionFails
  <2>1. db' \in Database /\ tx' \in Database
    BY <1>14 DEF TypeOK, SessionFails, Database
  <2> QED BY <1>14, <2>1, IdleType DEF TypeOK, SessionFails
<1>15. CASE WorkerDies
  BY <1>15, IdleType DEF TypeOK, WorkerDies
<1>16. CASE Handoff
  BY <1>16, IdleType DEF TypeOK, Handoff, Database
<1>17. CASE UNCHANGED vars
  BY <1>17 DEF TypeOK, vars
<1> QED BY <1>1, <1>2, <1>3, <1>4, <1>5, <1>6, <1>7, <1>8, <1>9, <1>10, <1>11,
           <1>12, <1>13, <1>14, <1>15, <1>16, <1>17 DEF Next, EngineStep

(* TypeOK holds of every reachable state.                                  *)
THEOREM TypeCorrect == Spec => []TypeOK
BY InitType, StepType, PTL DEF Spec

-----------------------------------------------------------------------------
(* Bulk deletions: ConfirmationInv is inductive.                           *)

LEMMA InitConfirmation == Init => ConfirmationInv
BY DEF Init, ConfirmationInv, HeldObjectsIndexed, ClaimInv, OpenSessionInv,
       EndedSessionInv, Idle, NoWatch

(* The history after a commit reaches at least as far as the claim the
   session holds, and as far as a deletion it applied needed.              *)
LEMMA CommitExtendsStreak ==
    ASSUME TypeOK, ConfirmationInv, run.phase \in {"members", "commit"},
           run.mode = "full", run.missing # {}, NEW n \in Nat,
           n <= Recorded(db.watch, run.missing).n, n <= MaxRequired
    PROVE  Continued.ids = run.missing /\ Continued.n >= n
<1>1. db.watch \in Watches /\ streak \in Watches
  BY DEF TypeOK, Database
<1>2. CASE db.watch.ids = run.missing
  <2>1. db.watch # NoWatch
    BY <1>2 DEF NoWatch
  <2>2. streak.ids = run.missing /\ streak.n >= db.watch.n /\ db.watch.n > 0
    BY <1>2, <2>1 DEF ConfirmationInv, ClaimInv
  <2>3. n <= db.watch.n + 1
    BY <1>1, <1>2 DEF Recorded, Watches
  <2> QED BY <1>1, <2>2, <2>3, PolicyAssumption DEF Continued, Watches
<1>3. CASE db.watch.ids # run.missing
  <2>1. n <= 1
    BY <1>1, <1>3 DEF Recorded, Watches
  <2> QED BY <1>1, <2>1, PolicyAssumption DEF Continued, Watches
<1> QED BY <1>2, <1>3

(* A session that commits leaves a claim the history bears out.            *)
LEMMA CommitKeepsClaim ==
    ASSUME TypeOK, ConfirmationInv, run.phase \in {"members", "commit"},
           db'.watch = tx.watch, db'.row = tx.row, streak' = Continued
    PROVE  ClaimInv' /\ HeldObjectsIndexed'
<1>1. CASE tx.watch = NoWatch
  BY <1>1 DEF ClaimInv, HeldObjectsIndexed, NoWatch
<1>2. CASE tx.watch # NoWatch
  <2>1. /\ run.mode = "full"
        /\ tx.watch = Recorded(db.watch, run.missing)
        /\ tx.watch.n < run.required /\ run.missing # {}
        /\ run.missing \subseteq Live(tx)
    BY <1>2 DEF ConfirmationInv, EndedSessionInv
  <2>2. run.required \in 1 .. MaxRequired /\ tx.watch.n \in Nat /\ db.watch.n \in Nat
    BY DEF TypeOK, Runs, Database, Watches
  <2>3. tx.watch.ids = run.missing /\ tx.watch.n \in 1 .. MaxRequired - 1
    BY <2>1, <2>2, PolicyAssumption DEF Recorded
  <2>4. streak'.ids = run.missing /\ streak'.n >= tx.watch.n
    BY <2>1, <2>2, <2>3, CommitExtendsStreak, PolicyAssumption
  <2>5. Live(db)' = Live(tx)
    BY DEF Live
  <2> QED BY <2>1, <2>3, <2>4, <2>5 DEF ClaimInv, HeldObjectsIndexed
<1> QED BY <1>1, <1>2

LEMMA StepConfirmation == TypeOK /\ ConfirmationInv /\ [Next]_vars => ConfirmationInv'
<1> SUFFICES ASSUME TypeOK, ConfirmationInv, [Next]_vars PROVE ConfirmationInv'
  OBVIOUS
<1> USE DEF provider, settings
<1> DEFINE Same == db' = db /\ streak' = streak
<1>1. ASSUME Same PROVE ClaimInv' /\ HeldObjectsIndexed'
  BY <1>1 DEF ConfirmationInv, ClaimInv, HeldObjectsIndexed, Live
<1>2. ASSUME Same, tx' = tx, run' = run PROVE ConfirmationInv'
  BY <1>2 DEF ConfirmationInv, ClaimInv, HeldObjectsIndexed, OpenSessionInv,
              EndedSessionInv, Live, Recorded
<1>3. ASSUME run' = Idle PROVE OpenSessionInv' /\ EndedSessionInv'
  BY <1>3 DEF OpenSessionInv, EndedSessionInv, Idle
<1>4. ASSUME NEW o \in Objects, ProviderEdit(o) PROVE ConfirmationInv'
  BY <1>2, <1>4 DEF ProviderEdit
<1>5. ASSUME NEW s \in Scopes, SaveScope(s) PROVE ConfirmationInv'
  BY <1>2, <1>5 DEF SaveScope
<1>6. ASSUME NEW r \in 1 .. MaxRequired, SavePolicy(r) PROVE ConfirmationInv'
  BY <1>2, <1>6 DEF SavePolicy
<1>7. CASE AclsAge
  BY <1>2, <1>7 DEF AclsAge
<1>8. CASE BeginSync
  <2>1. Same /\ tx' = db
    BY <1>8 DEF BeginSync
  <2>2. /\ run'.phase \in {"crawl", "delta"} /\ ~run'.suspicious
        /\ run'.phase = "crawl" => run'.mode = "full"
        /\ run'.phase = "delta" => run'.mode = "incremental" /\ ~ForcedFull(db, scope)
    BY <1>8 DEF BeginSync, Idle
  <2>3. run'.phase = "delta" => db'.watch = NoWatch
    BY <2>1, <2>2 DEF ForcedFull
  <2>4. OpenSessionInv'
    BY <2>1, <2>2, <2>3 DEF OpenSessionInv, Live
  <2>5. EndedSessionInv'
    BY <2>2 DEF EndedSessionInv
  <2> QED BY <1>1, <2>1, <2>4, <2>5 DEF ConfirmationInv
<1>9. CASE DeltaUnsupported
  <2>1. Same /\ tx' = tx /\ run'.phase = "crawl" /\ run'.mode = "full"
        /\ run'.suspicious = run.suspicious
    BY <1>9 DEF DeltaUnsupported, TypeOK, Runs
  <2> QED BY <1>1, <1>9, <2>1 DEF ConfirmationInv, DeltaUnsupported, OpenSessionInv,
                                 EndedSessionInv, Live
<1>10. ASSUME NEW o \in Objects, ObserveOne(o) PROVE ConfirmationInv'
  <2>1. Same /\ run.phase = "crawl"
    BY <1>10 DEF ObserveOne
  <2>2. run'.phase = "crawl" /\ run'.mode = run.mode /\ run'.suspicious = run.suspicious
    BY <1>10 DEF ObserveOne, TypeOK, Runs
  <2>3. tx'.watch = tx.watch /\ Live(tx) \subseteq Live(tx)'
    <3>1. tx' = Apply(tx, {o}, {})
      BY <1>10 DEF ObserveOne
    <3>2. tx \in Database /\ {o} \in SUBSET Objects
      BY DEF TypeOK
    <3>3. Apply(tx, {o}, {}).watch = tx.watch /\ Live(tx) \subseteq Live(Apply(tx, {o}, {}))
      BY <3>2, ApplyType
    <3>4. Live(tx)' = Live(tx')
      BY DEF Live
    <3> QED BY <3>1, <3>3, <3>4
  <2> QED BY <1>1, <2>1, <2>2, <2>3 DEF ConfirmationInv, OpenSessionInv, EndedSessionInv, Live
<1>11. ASSUME NEW o \in Objects, PassOver(o) PROVE ConfirmationInv'
  <2>1. Same /\ tx' = tx /\ run.phase = "crawl"
    BY <1>11 DEF PassOver
  <2>2. run'.phase = "crawl" /\ run'.mode = run.mode /\ run'.suspicious = run.suspicious
    BY <1>11 DEF PassOver, TypeOK, Runs
  <2> QED BY <1>1, <2>1, <2>2 DEF ConfirmationInv, OpenSessionInv, EndedSessionInv, Live
<1>12. CASE CrawlEnds
  <2> DEFINE existing == Live(tx)
             missing == existing \ run.seen
             suspicious == NeedsConfirmation(Cardinality(run.seen), Cardinality(missing),
                                             Cardinality(existing), run.lifted)
             watch == Recorded(tx.watch, missing)
             held == suspicious /\ watch.n < run.required
  <2>1. /\ Same /\ run.phase = "crawl" /\ run'.phase = "members" /\ run'.mode = run.mode
        /\ run'.required = run.required
        /\ run'.missing = missing /\ run'.suspicious = suspicious
    BY <1>12 DEF CrawlEnds, TypeOK, Runs
  <2>2. /\ tx'.watch = WatchAfter(watch, held)
        /\ tx'.row = [o \in Objects |-> IF o \in missing /\ ~held THEN "deleted" ELSE tx.row[o]]
    BY <1>12 DEF CrawlEnds, TypeOK, Database
  <2>3. run.mode = "full" /\ tx.watch = db.watch /\ Live(db) \subseteq Live(tx)
    BY <2>1 DEF ConfirmationInv, OpenSessionInv
  <2>4. suspicious => missing # {}
    BY FS_EmptySet DEF NeedsConfirmation
  <2>5. held => Live(tx)' = Live(tx)
    BY <2>2 DEF Live
  <2>6. missing \subseteq Live(tx) /\ watch.n \in Int /\ run.required \in Int
    BY DEF TypeOK, Runs, Database, Watches, Recorded
  <2>7. Recorded(db'.watch, run'.missing) = watch
    BY <2>1, <2>3 DEF Recorded
  <2> HIDE DEF missing, suspicious, watch
  <2>8. tx'.watch # NoWatch => /\ held /\ tx'.watch = watch
    BY <2>2 DEF WatchAfter
  <2>9. EndedSessionInv'
    BY <2>1, <2>3, <2>4, <2>5, <2>6, <2>7, <2>8 DEF EndedSessionInv
  <2>10. OpenSessionInv'
    BY <2>1 DEF OpenSessionInv
  <2> QED BY <1>1, <2>1, <2>9, <2>10 DEF ConfirmationInv
<1>13. CASE DrainDelta
  <2>1. /\ Same /\ run.phase = "delta" /\ run'.phase \in {"members", "commit"}
        /\ run'.mode = run.mode /\ run'.suspicious = run.suspicious
    BY <1>13 DEF DrainDelta, TypeOK, Runs
  <2>2. tx'.watch = tx.watch
    <3> DEFINE changed == IF tx.cursor = NoCursor THEN estate
                          ELSE {o \in Objects : stamp[o] > tx.cursor}
               after == Apply(tx, changed \intersect Visible(run.scope), changed \ estate)
    <3>1. tx' = [after EXCEPT !.cursor = clock, !.print = run.scope, !.error = FALSE]
      BY <1>13 DEF DrainDelta
    <3>2. after \in Database /\ after.watch = tx.watch
      <4>1. changed \intersect Visible(run.scope) \in SUBSET Objects /\ tx \in Database
        BY DEF TypeOK, Visible
      <4> QED BY <4>1, ApplyType
    <3> HIDE DEF after
    <3> QED BY <3>1, <3>2 DEF Database
  <2> QED BY <1>1, <2>1, <2>2 DEF ConfirmationInv, OpenSessionInv, EndedSessionInv
<1>14. CASE MirrorMemberships
  <2>1. /\ Same /\ tx' = tx /\ run.phase = "members" /\ run'.phase = "commit"
        /\ run'.mode = run.mode /\ run'.suspicious = run.suspicious
        /\ run'.missing = run.missing /\ run'.required = run.required
    BY <1>14 DEF MirrorMemberships, TypeOK, Runs
  <2> QED BY <1>1, <2>1 DEF ConfirmationInv, OpenSessionInv, EndedSessionInv, Live, Recorded
<1>15. CASE CommitScan
  <2>1. ClaimInv' /\ HeldObjectsIndexed'
    BY <1>15, CommitKeepsClaim DEF CommitScan
  <2>2. run'.phase = "handoff"
    BY <1>15 DEF CommitScan, TypeOK, Runs
  <2> QED BY <2>1, <2>2 DEF ConfirmationInv, OpenSessionInv, EndedSessionInv
<1>16. CASE ScanFails
  <2>1. db'.row = tx.row /\ db'.watch = tx.watch /\ streak' = Continued /\ run' = Idle
    BY <1>16 DEF ScanFails, TypeOK, Database
  <2>2. CASE run.phase = "members"
    BY <1>3, <2>1, <2>2, CommitKeepsClaim DEF ConfirmationInv
  <2>3. CASE run.phase \in {"crawl", "delta"}
    <3>1. streak' = streak /\ tx.watch = db.watch /\ Live(db) \subseteq Live(db')
      BY <2>1, <2>3 DEF Continued, ConfirmationInv, OpenSessionInv, Live
    <3>2. Live(db)' = Live(db')
      BY DEF Live
    <3> QED BY <1>3, <2>1, <3>1, <3>2 DEF ConfirmationInv, ClaimInv, HeldObjectsIndexed
  <2> QED BY <1>16, <2>2, <2>3 DEF ScanFails
<1>17. CASE SessionFails
  <2>1. db'.row = db.row /\ db'.watch = db.watch /\ streak' = streak /\ run' = Idle
    BY <1>17 DEF SessionFails, TypeOK, Database
  <2> QED BY <1>3, <2>1 DEF ConfirmationInv, ClaimInv, HeldObjectsIndexed, Live
<1>18. CASE WorkerDies
  BY <1>1, <1>3, <1>18 DEF WorkerDies, ConfirmationInv
<1>19. CASE Handoff
  <2>1. db'.row = db.row /\ db'.watch = db.watch /\ streak' = streak /\ run' = Idle
    BY <1>19 DEF Handoff, TypeOK, Database
  <2> QED BY <1>3, <2>1 DEF ConfirmationInv, ClaimInv, HeldObjectsIndexed, Live
<1>20. CASE UNCHANGED vars
  BY <1>2, <1>20 DEF vars
<1> QED BY <1>4, <1>5, <1>6, <1>7, <1>8, <1>9, <1>10, <1>11, <1>12, <1>13, <1>14,
           <1>15, <1>16, <1>17, <1>18, <1>19, <1>20 DEF Next, EngineStep

LEMMA ConfirmationInvariant == Spec => []ConfirmationInv
BY InitConfirmation, StepConfirmation, TypeCorrect, PTL DEF Spec

(* While a deletion is being confirmed, every object of the held set is
   still indexed (connectors.md: "the documents stay indexed").            *)
THEOREM HeldStaysIndexed == Spec => []HeldObjectsIndexed
<1>1. ConfirmationInv => HeldObjectsIndexed
  BY DEF ConfirmationInv
<1> QED BY <1>1, ConfirmationInvariant, PTL

(* A deletion too large to trust reaches the index only after the required
   number of crawls in a row reported exactly that set (deletions.py).     *)
THEOREM BulkDeletionNeedsAgreement == Spec => BulkDeletionConfirmed
<1> DEFINE Step == run.suspicious /\ Live(db) \ Live(db') # {} =>
                     streak'.n >= run.required /\ streak'.ids = run.missing
<1>1. TypeOK /\ ConfirmationInv /\ [Next]_vars => [Step]_vars
  <2> SUFFICES ASSUME TypeOK, ConfirmationInv, Next, run.suspicious, Live(db) \ Live(db') # {}
               PROVE  streak'.n >= run.required /\ streak'.ids = run.missing
    OBVIOUS
  <2>1. run.phase \in {"members", "commit", "handoff"}
    BY DEF ConfirmationInv, OpenSessionInv
  <2>2. CASE db'.row = db.row
    BY <2>2 DEF Live
  <2>3. CASE db'.row = tx.row /\ streak' = Continued /\ run.phase \in {"members", "commit"}
    <3>1. Live(db') = Live(tx)
      BY <2>3 DEF Live
    <3>2. /\ run.mode = "full" /\ run.missing # {}
          /\ Recorded(db.watch, run.missing).n >= run.required
      BY <2>3, <3>1 DEF ConfirmationInv, EndedSessionInv
    <3>3. run.required \in 1 .. MaxRequired
      BY DEF TypeOK, Runs
    <3>4. run.required <= Recorded(db.watch, run.missing).n
      BY <3>2, <3>3 DEF Recorded, TypeOK, Database, Watches
    <3> QED BY <2>3, <3>2, <3>3, <3>4, CommitExtendsStreak, PolicyAssumption
  <2>4. CASE CommitScan
    BY <2>3, <2>4 DEF CommitScan
  <2>5. CASE ScanFails
    <3>1. db'.row = tx.row /\ streak' = Continued /\ run.phase = "members"
      BY <2>1, <2>5 DEF ScanFails, TypeOK, Database
    <3> QED BY <2>3, <3>1
  <2>6. CASE SessionFails
    <3>1. db'.row = db.row
      BY <2>6 DEF SessionFails, TypeOK, Database
    <3> QED BY <2>2, <3>1
  <2>7. CASE Handoff
    <3>1. db'.row = db.row
      BY <2>7 DEF Handoff, TypeOK, Database
    <3> QED BY <2>2, <3>1
  <2>8. CASE db' = db
    BY <2>2, <2>8
  <2> QED BY <2>4, <2>5, <2>6, <2>7, <2>8
          DEF Next, EngineStep, ProviderEdit, SaveScope, SavePolicy, AclsAge, BeginSync,
              DeltaUnsupported, ObserveOne, PassOver, CrawlEnds, DrainDelta,
              MirrorMemberships, WorkerDies
<1> QED BY <1>1, ConfirmationInvariant, TypeCorrect, PTL DEF Spec, BulkDeletionConfirmed

-----------------------------------------------------------------------------
(* The delta cursor.  What a database has behind its cursor is mirrored;   *)
(* a crawl that has gone past an object has what lies behind its token.    *)

Right(d, o) ==
    /\ o \in estate \intersect ScopeOf[d.print] => o \in Live(d) /\ d.ver[o] = stamp[o]
    /\ o \in Live(d) => o \in estate

Settled(d) ==
    d.cursor # NoCursor =>
      /\ d.cursor <= clock /\ d.print \in Scopes
      /\ \A o \in Objects \ d.watch.ids : stamp[o] <= d.cursor => Right(d, o)

Crawled ==
    run.phase = "crawl" =>
      \A o \in Objects \ run.todo :
        stamp[o] <= run.token =>
          /\ o \in Visible(run.scope) => o \in run.seen
          /\ o \in run.seen => o \in Live(tx) /\ tx.ver[o] = stamp[o] /\ o \in estate

(* The first cursor comes from the crawl that the age of the permissions   *)
(* asks for, so that a delta run has one, taken under its own selection.   *)
Resumable ==
    /\ Delta /\ (db.cursor = NoCursor \/ tx.cursor = NoCursor) => aged
    /\ db.cursor # NoCursor => db.print # NoPrint
    /\ tx.cursor # NoCursor => tx.print # NoPrint
    /\ run.phase = "delta" =>
         /\ tx.cursor # NoCursor /\ tx.print = run.scope /\ run.seen = {}
         /\ Delta
    /\ run.phase \in {"members", "commit"} => (Delta => tx.cursor # NoCursor)
    /\ run.phase \in {"crawl", "delta"} => run.scope \in Scopes /\ run.token <= clock
    /\ run.phase = "crawl" => run.seen \subseteq Objects \ run.todo

CursorInv ==
    /\ \A o \in Objects : stamp[o] <= clock
    /\ Resumable
    /\ spent.omits = 0 => Settled(db) /\ Settled(tx) /\ Crawled

LEMMA InitCursor == AclRefresh /\ Init => CursorInv
BY DEF Init, CursorInv, Resumable, Settled, Crawled, Idle, NoCursor

(* An edit comes after every token taken so far.                           *)
LEMMA EditKeepsCursor ==
    ASSUME TypeOK, CursorInv, NEW p \in Objects, ProviderEdit(p)
    PROVE  CursorInv'
<1>1. /\ UNCHANGED <<db, tx, run, spent, aged>> /\ clock' = clock + 1
      /\ stamp' = [stamp EXCEPT ![p] = clock + 1]
      /\ \A o \in Objects \ {p} : o \in estate' <=> o \in estate
  BY DEF ProviderEdit, settings
<1>2. clock \in Nat /\ stamp \in [Objects -> 0 .. MaxEdits]
  BY BoundAssumption DEF TypeOK
<1>3. \A o \in Objects : o # p => stamp'[o] = stamp[o]
  BY <1>1, <1>2
<1>4. stamp'[p] = clock + 1
  BY <1>1, <1>2
<1>5. \A o \in Objects : stamp'[o] <= clock'
  BY <1>1, <1>2, <1>3, <1>4 DEF CursorInv
<1>6. Resumable'
  BY <1>1, <1>2 DEF CursorInv, Resumable, TypeOK, Runs
<1>7. ASSUME Settled(db) PROVE Settled(db)'
  BY <1>1, <1>2, <1>3, <1>4, <1>7 DEF Settled, Right, Live, TypeOK, Database, Cursors
<1>8. ASSUME Settled(tx) PROVE Settled(tx)'
  BY <1>1, <1>2, <1>3, <1>4, <1>8 DEF Settled, Right, Live, TypeOK, Database, Cursors
<1>9. ASSUME Crawled PROVE Crawled'
  BY <1>1, <1>2, <1>3, <1>4, <1>9 DEF Crawled, Visible, Live, CursorInv, Resumable, TypeOK, Runs
<1> QED
  BY <1>1, <1>5, <1>6, <1>7, <1>8, <1>9 DEF CursorInv

(* A database with the same rows, claim and cursor is as settled.          *)
LEMMA SettledAlike ==
    ASSUME NEW d, NEW e, e.row = d.row, e.ver = d.ver, e.watch = d.watch,
           e.cursor = d.cursor, e.print = d.print, Settled(d)
    PROVE  Settled(e)
BY DEF Settled, Right, Live

(* The beginning of a run, and the parts of a crawl.                       *)
LEMMA BeginKeepsCursor ==
    ASSUME TypeOK, CursorInv, AclRefresh, BeginSync
    PROVE  CursorInv'
<1>1. /\ UNCHANGED <<estate, stamp, clock, aged, db, spent>> /\ tx' = db
      /\ run'.scope = scope /\ run'.seen = {} /\ run'.token = clock
      /\ \/ run'.phase = "crawl" /\ run'.todo = Objects
         \/ run'.phase = "delta" /\ Delta /\ ~ForcedFull(db, scope) /\ ~aged
  BY DEF BeginSync, provider, AclsAreStale, Idle
<1>2. clock \in Nat /\ scope \in Scopes
  BY DEF TypeOK
<1>3. Resumable'
  <2>1. Delta /\ (db'.cursor = NoCursor \/ tx'.cursor = NoCursor) => aged'
    BY <1>1 DEF CursorInv, Resumable
  <2>2. ASSUME run'.phase = "delta"
        PROVE  tx'.cursor # NoCursor /\ tx'.print = run'.scope /\ run'.seen = {} /\ Delta
    <3>1. Delta /\ ~aged /\ ~Rescoped(db, scope)
      BY <1>1, <2>2 DEF ForcedFull
    <3>2. db.cursor # NoCursor
      BY <3>1 DEF CursorInv, Resumable
    <3>3. db.print # NoPrint
      BY <3>2 DEF CursorInv, Resumable
    <3> QED
      BY <1>1, <3>1, <3>2, <3>3 DEF Rescoped
  <2>3. db.cursor # NoCursor => db.print # NoPrint
    BY DEF CursorInv, Resumable
  <2> QED
    BY <1>1, <1>2, <2>1, <2>2, <2>3 DEF Resumable
<1>4. ASSUME Settled(db) PROVE Settled(db)' /\ Settled(tx)'
  BY <1>1, <1>4 DEF Settled, Right, Live
<1>5. Crawled'
  BY <1>1 DEF Crawled
<1> QED
  BY <1>1, <1>3, <1>4, <1>5 DEF CursorInv

LEMMA ObserveKeepsCursor ==
    ASSUME TypeOK, CursorInv, NEW p \in Objects, ObserveOne(p)
    PROVE  CursorInv'
<1>1. /\ UNCHANGED <<estate, stamp, clock, aged, db, spent>> /\ tx' = Apply(tx, {p}, {})
      /\ run.phase = "crawl" /\ p \in estate /\ run'.phase = "crawl" /\ run'.scope = run.scope
      /\ run'.token = run.token /\ run'.todo = run.todo \ {p} /\ run'.seen = run.seen \union {p}
      /\ tx \in Database
  BY DEF ObserveOne, Visible, provider, TypeOK, Runs
<1>2. /\ tx'.cursor = tx.cursor /\ tx'.watch = tx.watch /\ tx'.print = tx.print
      /\ p \in Live(tx') /\ tx'.ver[p] = stamp[p]
      /\ \A o \in Objects \ {p} : (o \in Live(tx') <=> o \in Live(tx)) /\ tx'.ver[o] = tx.ver[o]
  BY <1>1 DEF Apply, Database, Live
<1>3. Resumable'
  BY <1>1, <1>2 DEF CursorInv, Resumable
<1>4. ASSUME Settled(db) PROVE Settled(db)'
  BY <1>1, <1>4 DEF Settled, Right, Live
<1>5. ASSUME Settled(tx) PROVE Settled(tx)'
  <2> SUFFICES ASSUME tx'.cursor # NoCursor, NEW o \in Objects \ tx'.watch.ids,
                      stamp[o] <= tx'.cursor
               PROVE  tx'.cursor <= clock /\ tx'.print \in Scopes /\ Right(tx, o)'
    BY <1>1, <1>2, <1>5 DEF Settled
  <2>1. tx'.cursor <= clock /\ tx'.print \in Scopes /\ Right(tx, o)
    BY <1>2, <1>5 DEF Settled
  <2> QED
    BY <1>1, <1>2, <2>1 DEF Right
<1>6. ASSUME Crawled PROVE Crawled'
  BY <1>1, <1>2, <1>6 DEF Crawled, Visible
<1> QED
  BY <1>1, <1>3, <1>4, <1>5, <1>6 DEF CursorInv

(* Without omissions an object is passed by only where it is not.          *)
LEMMA PassKeepsCursor ==
    ASSUME TypeOK, CursorInv, NEW p \in Objects, PassOver(p)
    PROVE  CursorInv'
<1>1. /\ UNCHANGED <<estate, stamp, clock, aged, db, tx>>
      /\ run.phase = "crawl" /\ p \in run.todo /\ run'.phase = "crawl" /\ run'.scope = run.scope
      /\ run'.token = run.token /\ run'.todo = run.todo \ {p} /\ run'.seen = run.seen
  BY DEF PassOver, provider, TypeOK, Runs
<1>2. Resumable'
  BY <1>1 DEF CursorInv, Resumable
<1>3. spent'.omits = 0 => spent.omits = 0 /\ p \notin Visible(run.scope)
  BY DEF PassOver, TypeOK
<1>4. ASSUME Settled(db), Settled(tx) PROVE Settled(db)' /\ Settled(tx)'
  BY <1>1, <1>4 DEF Settled, Right, Live
<1>5. ASSUME Crawled, p \notin Visible(run.scope) PROVE Crawled'
  <2>1. p \notin run.seen
    BY <1>1 DEF CursorInv, Resumable
  <2> QED
    BY <1>1, <1>5, <2>1 DEF Crawled, Visible, Live
<1> QED
  BY <1>1, <1>2, <1>3, <1>4, <1>5 DEF CursorInv

(* What a crawl reports is what its token has behind it: all that is there *)
(* was seen, and all that was not seen is gone or held.                    *)
LEMMA CrawlKeepsCursor ==
    ASSUME TypeOK, CursorInv, TokenFirst, CrawlEnds
    PROVE  CursorInv'
<1> DEFINE existing == Live(tx)
           missing == existing \ run.seen
           suspicious == NeedsConfirmation(Cardinality(run.seen), Cardinality(missing),
                                           Cardinality(existing), run.lifted)
           watch == Recorded(tx.watch, missing)
           held == suspicious /\ watch.n < run.required
<1>1. /\ UNCHANGED <<estate, stamp, clock, aged, db, spent>>
      /\ run.phase = "crawl" /\ run.todo = {} /\ run'.phase = "members"
      /\ tx' = [tx EXCEPT
                  !.row = [o \in Objects |-> IF o \in missing /\ ~held THEN "deleted" ELSE tx.row[o]],
                  !.watch = WatchAfter(watch, held), !.cursor = CrawlToken,
                  !.print = run.scope, !.error = FALSE]
  BY DEF CrawlEnds, provider, TypeOK, Runs
<1>2. watch.ids = missing
  BY DEF Recorded
<1> HIDE DEF held, missing, watch
<1>3. /\ tx'.row = [o \in Objects |-> IF o \in missing /\ ~held THEN "deleted" ELSE tx.row[o]]
      /\ tx'.ver = tx.ver /\ tx'.watch = WatchAfter(watch, held)
      /\ tx'.cursor = CrawlToken /\ tx'.print = run.scope
  BY <1>1 DEF TypeOK, Database
<1>4. held => tx'.watch.ids = missing
  BY <1>2, <1>3 DEF WatchAfter
<1>5. Delta => CrawlToken = run.token /\ CrawlToken # NoCursor
  BY DEF CrawlToken, NoCursor, TypeOK, Runs
<1>6. ~Delta => CrawlToken = NoCursor
  BY DEF CrawlToken
<1>7. run.scope \in Scopes /\ run.token <= clock
  BY <1>1 DEF CursorInv, Resumable
<1>8. Resumable'
  <2>1. db.cursor # NoCursor => db.print # NoPrint
    BY DEF CursorInv, Resumable
  <2>2. Delta /\ db.cursor = NoCursor => aged
    BY DEF CursorInv, Resumable
  <2> QED
    BY <1>1, <1>3, <1>5, <1>6, <1>7, <2>1, <2>2, PrintAssumption DEF Resumable
<1>9. ASSUME Settled(db) PROVE Settled(db)'
  BY <1>1, <1>9 DEF Settled, Right, Live
<1>10. ASSUME Crawled PROVE Settled(tx)'
  <2> SUFFICES ASSUME Delta, NEW o \in Objects \ tx'.watch.ids, stamp[o] <= run.token
               PROVE  Right(tx, o)'
    BY <1>1, <1>3, <1>5, <1>6, <1>7 DEF Settled
  <2>1. /\ o \in Visible(run.scope) => o \in run.seen
        /\ o \in run.seen => o \in Live(tx) /\ tx.ver[o] = stamp[o] /\ o \in estate
    BY <1>1, <1>10 DEF Crawled
  <2>2. o \in run.seen => o \notin missing
    BY DEF missing
  <2>3. o \in missing => ~held
    BY <1>4
  <2>4. o \in Live(tx)' => o \in Live(tx) /\ o \in run.seen
    BY <1>3, <2>3 DEF Live, missing
  <2>5. o \in run.seen => o \in Live(tx)'
    BY <1>3, <2>1, <2>2 DEF Live
  <2> QED
    BY <1>1, <1>3, <2>1, <2>4, <2>5 DEF Right, Visible
<1>11. Crawled'
  BY <1>1 DEF Crawled
<1> QED
  BY <1>1, <1>8, <1>9, <1>10, <1>11 DEF CursorInv

(* A delta run goes on from what its cursor has behind it: the feed brings *)
(* the rest, and there is no claim to spare a row.                         *)
LEMMA DrainKeepsCursor ==
    ASSUME TypeOK, ConfirmationInv, CursorInv, DrainDelta
    PROVE  CursorInv'
<1> DEFINE changed == {o \in Objects : stamp[o] > tx.cursor}
           seen == changed \intersect Visible(run.scope)
           gone == changed \ estate
           after == Apply(tx, seen, gone)
<1>1. /\ run.phase = "delta" /\ tx.cursor # NoCursor /\ tx.print = run.scope
      /\ run.scope \in Scopes /\ tx.watch = NoWatch /\ Delta
  BY DEF DrainDelta, CursorInv, Resumable, ConfirmationInv, OpenSessionInv
<1>2. /\ UNCHANGED <<estate, stamp, clock, aged, db, spent>>
      /\ run'.phase \in {"members", "commit"}
      /\ tx' = [after EXCEPT !.cursor = clock, !.print = run.scope, !.error = FALSE]
  BY <1>1 DEF DrainDelta, provider, TypeOK, Runs
<1>3. tx \in Database /\ clock \in Nat /\ stamp \in [Objects -> 0 .. MaxEdits]
  BY BoundAssumption DEF TypeOK
<1>4. /\ after.row = [o \in Objects |-> IF o \in seen THEN "live"
                                        ELSE IF o \in gone \intersect Live(tx) THEN "deleted"
                                        ELSE tx.row[o]]
      /\ after.ver = [o \in Objects |-> IF o \in seen THEN stamp[o] ELSE tx.ver[o]]
      /\ after.watch = tx.watch
      /\ after \in Database
  <2>1. seen \in SUBSET Objects
    OBVIOUS
  <2>2. after \in Database
    BY <1>3, <2>1, ApplyType
  <2> QED
    BY <1>3, <2>2 DEF Apply, Database
<1> HIDE DEF after
<1>5. /\ tx'.row = after.row /\ tx'.ver = after.ver /\ tx'.watch = tx.watch
      /\ tx'.cursor = clock /\ tx'.print = run.scope
  BY <1>2, <1>4 DEF Database
<1>6. clock # NoCursor
  BY <1>3 DEF NoCursor
<1>7. Resumable'
  BY <1>1, <1>2, <1>5, <1>6, PrintAssumption DEF CursorInv, Resumable
<1>8. ASSUME Settled(db) PROVE Settled(db)'
  BY <1>2, <1>8 DEF Settled, Right, Live
<1>9. ASSUME Settled(tx) PROVE Settled(tx)'
  <2> SUFFICES ASSUME NEW o \in Objects PROVE Right(tx, o)'
    BY <1>1, <1>2, <1>3, <1>5 DEF Settled
  <2>1. CASE o \notin changed
    <3>1. stamp[o] <= tx.cursor
      BY <1>3, <2>1 DEF Database, Cursors, NoCursor
    <3>2. Right(tx, o)
      BY <1>1, <1>9, <3>1 DEF Settled, NoWatch
    <3>3. (o \in Live(tx)' <=> o \in Live(tx)) /\ tx'.ver[o] = tx.ver[o]
      BY <1>4, <1>5, <2>1 DEF Live
    <3> QED
      BY <1>1, <1>2, <1>5, <3>2, <3>3 DEF Right
  <2>2. CASE o \in seen
    BY <1>2, <1>4, <1>5, <2>2 DEF Right, Live, Visible
  <2>3. CASE o \in changed \ seen /\ o \in estate
    BY <1>2, <1>4, <1>5, <2>3 DEF Right, Visible
  <2>4. CASE o \in gone
    BY <1>2, <1>4, <1>5, <2>4 DEF Right, Live, Visible
  <2> QED
    BY <2>1, <2>2, <2>3, <2>4
<1>10. Crawled'
  BY <1>2 DEF Crawled
<1> QED
  BY <1>2, <1>7, <1>8, <1>9, <1>10 DEF CursorInv

(* What ends a run leaves the committed database as settled as the session *)
(* or as before.                                                           *)
LEMMA EndKeepsCursor ==
    ASSUME TypeOK, CursorInv, CommitScan \/ ScanFails \/ SessionFails \/ WorkerDies \/ Handoff
    PROVE  CursorInv'
<1>1. /\ UNCHANGED provider /\ spent'.omits = spent.omits
      /\ run'.phase \in {"idle", "handoff"} /\ (aged' = aged \/ CommitScan \/ ScanFails)
  BY DEF CommitScan, ScanFails, SessionFails, WorkerDies, Handoff, TypeOK, Runs, Idle
<1>2. PICK d \in {db, tx} :
        /\ db'.row = d.row /\ db'.ver = d.ver /\ db'.watch = d.watch
        /\ db'.cursor = d.cursor /\ db'.print = d.print
        /\ aged' # aged => run.phase \in {"members", "commit"} /\ d = tx
  BY DEF CommitScan, ScanFails, SessionFails, WorkerDies, Handoff, TypeOK, Database
<1>3. /\ tx'.row = db'.row /\ tx'.ver = db'.ver /\ tx'.watch = db'.watch
      /\ tx'.cursor = db'.cursor /\ tx'.print = db'.print
  BY DEF CommitScan, ScanFails, SessionFails, WorkerDies, Handoff
<1>4. Resumable'
  <2>1. d.cursor # NoCursor => d.print # NoPrint
    BY DEF CursorInv, Resumable
  <2>2. Delta /\ d.cursor = NoCursor => aged'
    BY <1>2 DEF CursorInv, Resumable
  <2> QED
    BY <1>1, <1>2, <1>3, <2>1, <2>2 DEF Resumable
<1>5. ASSUME Settled(db), Settled(tx) PROVE Settled(db)' /\ Settled(tx)'
  <2>1. Settled(d)
    BY <1>5
  <2> QED
    BY <1>1, <1>2, <1>3, <2>1 DEF Settled, Right, Live, provider
<1>6. Crawled'
  BY <1>1 DEF Crawled
<1> QED
  BY <1>1, <1>4, <1>5, <1>6 DEF CursorInv, provider

LEMMA StepCursor ==
    ASSUME AclRefresh, TokenFirst, TypeOK, ConfirmationInv, CursorInv, [Next]_vars
    PROVE  CursorInv'
<1>1. ASSUME UNCHANGED <<provider, db, tx, run, spent>>, aged' \in {aged, TRUE} PROVE CursorInv'
  BY <1>1 DEF provider, CursorInv, Resumable, Settled, Right, Live, Crawled, Visible
<1>2. ASSUME NEW s \in Scopes, SaveScope(s) PROVE CursorInv'
  <2>1. UNCHANGED <<provider, db, tx, run, aged>> /\ spent'.omits = spent.omits
    BY <1>2 DEF SaveScope, TypeOK
  <2> QED
    BY <2>1 DEF provider, CursorInv, Resumable, Settled, Right, Live, Crawled, Visible
<1>3. ASSUME NEW r \in 1 .. MaxRequired, SavePolicy(r) PROVE CursorInv'
  <2>1. UNCHANGED <<provider, db, tx, run, aged>> /\ spent'.omits = spent.omits
    BY <1>3 DEF SavePolicy, TypeOK
  <2> QED
    BY <2>1 DEF provider, CursorInv, Resumable, Settled, Right, Live, Crawled, Visible
<1>4. CASE AclsAge \/ UNCHANGED vars
  BY <1>1, <1>4 DEF AclsAge, vars, provider
<1>5. CASE MirrorMemberships
  <2>1. UNCHANGED <<provider, db, tx, aged, spent>> /\ run.phase = "members"
        /\ run'.phase = "commit"
    BY <1>5 DEF MirrorMemberships, TypeOK, Runs
  <2> QED
    BY <2>1 DEF provider, CursorInv, Resumable, Settled, Right, Live, Crawled, Visible
<1>6. CASE DeltaUnsupported
  <2>1. UNCHANGED <<provider, db, tx, aged, spent>> /\ run.phase = "delta"
        /\ run'.phase = "crawl" /\ run'.scope = run.scope /\ run'.seen = run.seen
        /\ run'.todo = Objects /\ run'.token = clock
    BY <1>6 DEF DeltaUnsupported, TypeOK, Runs
  <2>2. Crawled'
    BY <2>1 DEF Crawled
  <2>3. Resumable'
    BY <2>1 DEF provider, CursorInv, Resumable, TypeOK
  <2>4. ASSUME Settled(db), Settled(tx) PROVE Settled(db)' /\ Settled(tx)'
    BY <2>1, <2>4 DEF provider, Settled, Right, Live
  <2> QED
    BY <2>1, <2>2, <2>3, <2>4 DEF provider, CursorInv
<1> QED
  BY <1>2, <1>3, <1>4, <1>5, <1>6, EditKeepsCursor, BeginKeepsCursor, ObserveKeepsCursor,
     PassKeepsCursor, CrawlKeepsCursor, DrainKeepsCursor, EndKeepsCursor DEF Next, EngineStep

(* Nothing behind the stored delta cursor is lost while no crawl leaves an *)
(* object out, for a source whose permissions are read again by a periodic *)
(* crawl and whose token is taken before the listing.                      *)
THEOREM NothingBehindTheCursorIsLost ==
    ASSUME AclRefresh, TokenFirst PROVE Spec => []CursorSound
<1>1. AclRefresh /\ Init => CursorInv
  BY InitCursor
<1>2. TypeOK /\ ConfirmationInv /\ CursorInv /\ [Next]_vars => CursorInv'
  BY StepCursor
<1>3. CursorInv => CursorSound
  BY DEF CursorInv, CursorSound, Settled, Right
<1> QED
  BY <1>1, <1>2, <1>3, ConfirmationInvariant, TypeCorrect, PTL DEF Spec

=============================================================================
