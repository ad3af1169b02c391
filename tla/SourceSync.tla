----------------------------- MODULE SourceSync -----------------------------
(***************************************************************************)
(* One connected source and the sync runs that mirror it into the index,  *)
(* one run at a time (SyncRuns has the overlapping ones).  The provider    *)
(* changes while it is crawled; a run reads it through one database        *)
(* session, `tx', that becomes the committed state `db' only when run_scan *)
(* commits: at the end of a successful scan, and also when a connector     *)
(* exception ends it early.                                                *)
(***************************************************************************)
EXTENDS Integers, FiniteSets

CONSTANTS
    Objects,            \* provider object ids
    Scopes,             \* folder selections an operator may save
    ScopeOf,            \* the objects each selection covers
    MaxRequired,        \* bound: the largest deletion_confirmations policy
    MinGuard,           \* MIN_OBJECTS_FOR_FRACTION_GUARD
    Delta,              \* the connector has a change feed
    CheapMemberships,   \* memberships are mirrored after delta runs too
    Verifiable,         \* capabilities.verifiable_emptiness
    AllowEmpty,         \* policy allow_empty_scan
    AclRefresh,         \* the source mirrors ACLs and acl_refresh_hours > 0
    TokenFirst,         \* a full crawl takes its delta token before listing
    MaxEdits,           \* bound: provider edits
    MaxOmits,           \* bound: objects a crawl silently leaves out
    MaxSurprises,       \* bound: edits, omissions and operator changes together
    MaxFaults,          \* bound: failed scans, crashes and failed handoffs
    MaxSettings         \* bound: operator changes of scope or policy

ASSUME ObjectsAssumption == IsFiniteSet(Objects)
ASSUME ScopeAssumption == Scopes # {} /\ ScopeOf \in [Scopes -> SUBSET Objects]
ASSUME PolicyAssumption == MaxRequired \in Nat \ {0}
ASSUME FlagAssumption ==
    /\ Delta \in BOOLEAN /\ CheapMemberships \in BOOLEAN /\ Verifiable \in BOOLEAN
    /\ AllowEmpty \in BOOLEAN /\ AclRefresh \in BOOLEAN /\ TokenFirst \in BOOLEAN
ASSUME BoundAssumption ==
    /\ MinGuard \in Nat /\ MaxEdits \in Nat /\ MaxOmits \in Nat
    /\ MaxSurprises \in Nat /\ MaxFaults \in Nat /\ MaxSettings \in Nat

NoCursor == -1
NoPrint == "no fingerprint"
NoWatch == [n |-> 0, ids |-> {}]

ASSUME PrintAssumption == NoPrint \notin Scopes    \* NULL, and no selection's fingerprint

VARIABLES
    estate,     \* objects that exist at the provider
    stamp,      \* the edit that last touched each object
    clock,      \* provider edits so far: a delta token is a value of clock
    scope,      \* the saved folder selection
    required,   \* the deletion_confirmations policy
    aged,       \* acl_refresh_hours have passed since last_full_sync_at
    db,         \* committed rows of this source
    tx,         \* the rows as the running scan's session sees them
    run,        \* the scan in progress
    streak,     \* history: how many of the latest committed scans, in a row,
                \* were crawls that reported the same objects missing
    strays,     \* history: rows committed by a failed crawl of another
                \* selection than the recorded one, since the last crawl
                \* that reached its end
    spent       \* faults, omissions and settings used up, against the bounds

provider == <<estate, stamp, clock>>
settings == <<scope, required>>
vars == <<estate, stamp, clock, scope, required, aged, db, tx, run, streak, strays, spent>>

Cursors == (0 .. MaxEdits) \union {NoCursor}
Watches == [n : Nat, ids : SUBSET Objects]
Database == [row : [Objects -> {"absent", "live", "deleted"}],
             ver : [Objects -> 0 .. MaxEdits],
             watch : Watches,
             cursor : Cursors,
             print : Scopes \union {NoPrint},
             error : BOOLEAN,
             fresh : SUBSET Objects]
Runs == [phase : {"idle", "crawl", "delta", "members", "commit", "handoff"},
         mode : {"none", "full", "incremental"},
         scope : Scopes \union {NoPrint}, required : 1 .. MaxRequired,
         todo : SUBSET Objects, seen : SUBSET Objects, token : 0 .. MaxEdits,
         work : BOOLEAN, missing : SUBSET Objects,
         suspicious : BOOLEAN, lifted : BOOLEAN]
Live(d) == {o \in Objects : d.row[o] = "live"}
Visible(s) == estate \intersect ScopeOf[s]

Idle == [phase |-> "idle", mode |-> "none", scope |-> NoPrint, required |-> 1,
         todo |-> {}, seen |-> {}, token |-> 0, work |-> FALSE,
         missing |-> {}, suspicious |-> FALSE, lifted |-> FALSE]

Init ==
    /\ estate \in SUBSET Objects
    /\ stamp = [o \in Objects |-> 0]
    /\ clock = 0
    /\ scope \in Scopes
    /\ required = MaxRequired                       \* the configured default
    /\ aged = AclRefresh                            \* last_full_sync_at is NULL
    /\ db = [row |-> [o \in Objects |-> "absent"],
             ver |-> [o \in Objects |-> 0],
             watch |-> NoWatch, cursor |-> NoCursor, print |-> NoPrint,
             error |-> FALSE, fresh |-> {}]
    /\ tx = db
    /\ run = Idle
    /\ streak = NoWatch /\ strays = {}
    /\ spent = [faults |-> 0, omits |-> 0, settings |-> 0]

(***************************************************************************)
(* The provider, the operator and the clock                                *)
(***************************************************************************)

Surprises == clock + spent.omits + spent.settings

(* A document is created or edited (estate gains it) or removed.           *)
ProviderEdit(o) ==
    /\ clock < MaxEdits /\ Surprises < MaxSurprises
    /\ clock' = clock + 1
    /\ stamp' = [stamp EXCEPT ![o] = clock + 1]
    /\ \/ estate' = estate \union {o}
       \/ o \in estate /\ estate' = estate \ {o}
    /\ UNCHANGED <<settings, aged, db, tx, run, streak, strays, spent>>

SaveScope(s) ==
    /\ s # scope /\ spent.settings < MaxSettings /\ Surprises < MaxSurprises
    /\ scope' = s
    /\ spent' = [spent EXCEPT !.settings = @ + 1]
    /\ UNCHANGED <<provider, required, aged, db, tx, run, streak, strays>>

SavePolicy(r) ==
    /\ r # required /\ spent.settings < MaxSettings /\ Surprises < MaxSurprises
    /\ required' = r
    /\ spent' = [spent EXCEPT !.settings = @ + 1]
    /\ UNCHANGED <<provider, scope, aged, db, tx, run, streak, strays>>

(* Mirrored permissions become acl_refresh_hours old.                      *)
AclsAge ==
    /\ AclRefresh /\ run.phase = "idle" /\ ~aged
    /\ aged' = TRUE
    /\ UNCHANGED <<provider, settings, db, tx, run, streak, strays, spent>>

(***************************************************************************)
(* SyncEngine.sync                                                         *)
(***************************************************************************)
Rescoped(d, s) == d.print # NoPrint /\ d.print # s

(* Mutants of ForcedFull: a re-scope, or a held deletion, is forgotten.     *)
ForcedFullNotByScope(d, s) == d.watch # NoWatch
ForcedFullNotByWatch(d, s) == Rescoped(d, s)

ForcedFull(d, s) == Rescoped(d, s) \/ d.watch # NoWatch

(* The permissions are older than acl_refresh_hours.                       *)
AclsAreStale == aged

(* The session opens; the selection and the policy are read from it once.  *)
BeginSync ==
    /\ run.phase = "idle"
    /\ tx' = db
    /\ LET delta == Delta /\ ~ForcedFull(db, scope) /\ ~AclsAreStale
       IN  run' = [Idle EXCEPT !.phase = IF delta THEN "delta" ELSE "crawl",
                               !.mode = IF delta THEN "incremental" ELSE "full",
                               !.scope = scope, !.required = required,
                               !.todo = IF delta THEN {} ELSE Objects,
                               !.token = clock,
                               !.lifted = Rescoped(db, scope)]
    /\ UNCHANGED <<provider, settings, aged, db, streak, strays, spent>>

(* changes() answers UnsupportedOperation: the engine crawls instead.      *)
DeltaUnsupported ==
    /\ run.phase = "delta"
    /\ run' = [run EXCEPT !.phase = "crawl", !.mode = "full", !.todo = Objects,
                          !.token = clock]
    /\ UNCHANGED <<provider, settings, aged, db, tx, streak, strays, spent>>

(* An observation that creates, restores or changes a row.                 *)
Dirty(d, o) == d.row[o] # "live" \/ d.ver[o] # stamp[o]

(* Rows after the observations in S and the deletions in D are applied.    *)
Apply(d, S, D) ==
    [d EXCEPT
       !.row = [o \in Objects |->
                  IF o \in S THEN "live"
                  ELSE IF o \in D \intersect Live(d) THEN "deleted" ELSE d.row[o]],
       !.ver = [o \in Objects |-> IF o \in S THEN stamp[o] ELSE d.ver[o]],
       !.fresh = @ \union {o \in S : Dirty(d, o)}]

(* The crawl yields one object, as the provider has it at that moment.     *)
ObserveOne(o) ==
    /\ run.phase = "crawl" /\ o \in run.todo /\ o \in Visible(run.scope)
    /\ tx' = Apply(tx, {o}, {})
    /\ run' = [run EXCEPT !.todo = @ \ {o}, !.seen = @ \union {o},
                          !.work = @ \/ Dirty(tx, o)]
    /\ UNCHANGED <<provider, settings, aged, db, streak, strays, spent>>

(* The crawl passes an object by: it is not there, or the connector lost it
   (a skipped file, a swallowed API error, a revoked scope).               *)
PassOver(o) ==
    /\ run.phase = "crawl" /\ o \in run.todo
    /\ \/ o \notin Visible(run.scope) /\ UNCHANGED spent
       \/ /\ o \in Visible(run.scope) /\ spent.omits < MaxOmits
          /\ Surprises < MaxSurprises
          /\ spent' = [spent EXCEPT !.omits = @ + 1]
    /\ run' = [run EXCEPT !.todo = @ \ {o}]
    /\ UNCHANGED <<provider, settings, aged, db, tx, streak, strays>>

(***************************************************************************)
(* End of a crawl: tombstones, deletion confirmation, cursor               *)
(***************************************************************************)
NeedsConfirmation(observed, missing, existing, lifted) ==
    /\ existing # 0 /\ missing # 0
    /\ ~Verifiable
    /\ ~AllowEmpty /\ ~lifted
    /\ \/ observed = 0
       \/ existing >= MinGuard /\ 2 * missing > existing

(* deletions.record: the same set counts on, any other set starts at one.  *)
Recorded(watch, ids) ==
    [n |-> IF watch.ids = ids THEN watch.n + 1 ELSE 1, ids |-> ids]

(* Mutant of WatchAfter: an applied deletion stays on record.              *)
WatchAfterNotCleared(watch, held) == watch
WatchAfter(watch, held) == IF held THEN watch ELSE NoWatch

CrawlToken == IF ~Delta THEN NoCursor ELSE IF TokenFirst THEN run.token ELSE clock

CrawlEnds ==
    /\ run.phase = "crawl" /\ run.todo = {}
    /\ LET existing == Live(tx)
           missing == existing \ run.seen
           suspicious == NeedsConfirmation(Cardinality(run.seen), Cardinality(missing),
                                           Cardinality(existing), run.lifted)
           watch == Recorded(tx.watch, missing)
           held == suspicious /\ watch.n < run.required
       IN  /\ tx' = [tx EXCEPT
                       !.row = [o \in Objects |->
                                  IF o \in missing /\ ~held THEN "deleted" ELSE @[o]],
                       !.watch = WatchAfter(watch, held),
                       !.cursor = CrawlToken,
                       !.print = run.scope,
                       !.error = FALSE]
           /\ run' = [run EXCEPT !.phase = "members", !.missing = missing,
                                 !.suspicious = suspicious]
    /\ UNCHANGED <<provider, settings, aged, db, streak, strays, spent>>

(* The change feed since the cursor, in one batch; without a cursor the
   connector lists everything and reports no deletion.                     *)
DrainDelta ==
    /\ run.phase = "delta"
    /\ LET changed == IF tx.cursor = NoCursor THEN estate
                      ELSE {o \in Objects : stamp[o] > tx.cursor}
           seen == changed \intersect Visible(run.scope)
           gone == changed \ estate
           after == Apply(tx, seen, gone)
       IN  /\ tx' = [after EXCEPT !.cursor = clock, !.print = run.scope, !.error = FALSE]
           /\ run' = [run EXCEPT !.phase = IF CheapMemberships THEN "members" ELSE "commit",
                                 !.work = \E o \in seen : Dirty(tx, o)]
    /\ UNCHANGED <<provider, settings, aged, db, streak, strays, spent>>

MirrorMemberships ==
    /\ run.phase = "members"
    /\ run' = [run EXCEPT !.phase = "commit"]
    /\ UNCHANGED <<provider, settings, aged, db, tx, streak, strays, spent>>

(***************************************************************************)
(* run_scan and run_handoff                                                *)
(***************************************************************************)
(* History after a commit, counted up to MaxRequired.  Only a crawl that
   reached its end says which objects are missing.                         *)
Continued ==
    IF run.phase \notin {"members", "commit"} THEN streak
    ELSE IF run.mode # "full" THEN NoWatch
    ELSE IF streak.n > 0 /\ streak.ids = run.missing
         THEN [streak EXCEPT !.n = IF @ < MaxRequired THEN @ + 1 ELSE @]
         ELSE [n |-> 1, ids |-> run.missing]

(* A crawl that reaches its end takes what is outside its selection away;  *)
(* one that fails has committed what it saw beyond the recorded one.       *)
Strayed ==
    IF run.mode # "full" THEN strays
    ELSE IF run.phase # "crawl" THEN {}
    ELSE IF Rescoped(db, run.scope) THEN strays \union (run.seen \ ScopeOf[db.print])
    ELSE strays

CommitScan ==
    /\ run.phase = "commit"
    /\ db' = tx
    /\ aged' = (aged /\ run.mode # "full")
    /\ streak' = Continued /\ strays' = Strayed
    /\ run' = [run EXCEPT !.phase = "handoff"]
    /\ UNCHANGED <<provider, settings, tx, spent>>

(* A connector exception: _mark_source_error commits what the scan wrote.  *)
ScanFails ==
    /\ run.phase \in {"crawl", "delta", "members"}
    /\ spent.faults < MaxFaults
    /\ spent' = [spent EXCEPT !.faults = @ + 1]
    /\ db' = [tx EXCEPT !.error = TRUE]
    /\ aged' = (aged /\ ~(run.mode = "full" /\ run.phase = "members"))
    /\ streak' = Continued /\ strays' = Strayed
    /\ tx' = db' /\ run' = Idle
    /\ UNCHANGED <<provider, settings>>

(* A database exception: the session cannot commit, so it is rolled back
   and a second session marks the source.                                  *)
SessionFails ==
    /\ run.phase \in {"crawl", "delta", "members"}
    /\ spent.faults < MaxFaults
    /\ spent' = [spent EXCEPT !.faults = @ + 1]
    /\ db' = [db EXCEPT !.error = TRUE]
    /\ tx' = db' /\ run' = Idle
    /\ UNCHANGED <<provider, settings, aged, streak, strays>>

(* The worker process dies: its transaction is gone.                       *)
WorkerDies ==
    /\ run.phase # "idle"
    /\ spent.faults < MaxFaults
    /\ spent' = [spent EXCEPT !.faults = @ + 1]
    /\ tx' = db /\ run' = Idle
    /\ UNCHANGED <<provider, settings, aged, db, streak, strays>>

(* Insertion is launched for everything not yet processed, or not at all
   when this run's own counters show no work.                              *)
Handoff ==
    /\ run.phase = "handoff"
    /\ db' = IF run.work THEN [db EXCEPT !.fresh = {}] ELSE db
    /\ tx' = db' /\ run' = Idle
    /\ UNCHANGED <<provider, settings, aged, streak, strays, spent>>

EngineStep ==
    \/ BeginSync \/ DeltaUnsupported \/ DrainDelta \/ CrawlEnds
    \/ \E o \in Objects : ObserveOne(o) \/ PassOver(o)
    \/ MirrorMemberships \/ CommitScan \/ Handoff

Next ==
    \/ \E o \in Objects : ProviderEdit(o)
    \/ \E s \in Scopes : SaveScope(s)
    \/ \E r \in 1 .. MaxRequired : SavePolicy(r)
    \/ AclsAge
    \/ EngineStep
    \/ ScanFails \/ SessionFails \/ WorkerDies

(* The scheduler starts a sync whenever none runs, and a run that is not
   interrupted goes on; nothing else is promised, the age of the
   permissions included.                                                   *)
Spec == Init /\ [][Next]_vars
FairSpec == Spec /\ WF_vars(EngineStep)

(***************************************************************************)
(* Properties                                                              *)
(***************************************************************************)
TypeOK ==
    /\ estate \subseteq Objects /\ stamp \in [Objects -> 0 .. MaxEdits]
    /\ clock \in 0 .. MaxEdits
    /\ scope \in Scopes /\ required \in 1 .. MaxRequired /\ aged \in BOOLEAN
    /\ db \in Database /\ tx \in Database
    /\ run \in Runs
    /\ streak \in Watches /\ strays \subseteq Objects
    /\ spent \in [faults : 0 .. MaxFaults, omits : 0 .. MaxOmits, settings : 0 .. MaxSettings]

(* A deletion too large to trust from one scan reaches the index only when
   the latest `required' scans that committed, this one included, were all
   crawls of the whole estate and all reported exactly that set missing;
   no failed, incremental or differing scan may stand between them
   (deletions.py:9-15, _hold_deletion).                                    *)
BulkDeletionConfirmed ==
    [][run.suspicious /\ Live(db) \ Live(db') # {} =>
         streak'.n >= run.required /\ streak'.ids = run.missing]_vars

(* While a deletion is being confirmed every object of the held set is
   still indexed (connectors.md: "the documents stay indexed").            *)
HeldObjectsIndexed == db.watch.ids \subseteq Live(db)

(* The inductive form of the two.  A claim on record repeats what the last
   commits reported, no further than they did; until its crawl ends a
   session neither loses a row nor touches the claim, and afterwards it
   holds the claim one scan further or has cleared it.                     *)
ClaimInv ==
    db.watch # NoWatch =>
      /\ db.watch.n \in 1 .. MaxRequired - 1 /\ db.watch.ids # {}
      /\ streak.ids = db.watch.ids /\ streak.n >= db.watch.n
OpenSessionInv ==
    /\ run.phase \in {"crawl", "delta"} =>
         tx.watch = db.watch /\ Live(db) \subseteq Live(tx)
    /\ run.phase = "crawl" => run.mode = "full"
    /\ run.phase = "delta" => run.mode = "incremental" /\ db.watch = NoWatch
    /\ run.phase \notin {"members", "commit", "handoff"} => ~run.suspicious
EndedSessionInv ==
    run.phase \in {"members", "commit"} =>
      /\ run.mode # "full" => tx.watch = NoWatch /\ ~run.suspicious
      /\ tx.watch # NoWatch =>
           /\ tx.watch = Recorded(db.watch, run.missing)
           /\ tx.watch.n < run.required /\ run.missing # {}
           /\ run.missing \subseteq Live(tx)
      /\ run.suspicious /\ Live(db) \ Live(tx) # {} =>
           run.missing # {} /\ Recorded(db.watch, run.missing).n >= run.required
ConfirmationInv == HeldObjectsIndexed /\ ClaimInv /\ OpenSessionInv /\ EndedSessionInv

(* What the stored delta cursor has put behind it is mirrored: of the
   objects no provider edit has touched since the cursor was taken, those
   in the estate and the recorded selection are indexed in their latest
   version and those gone from the estate are not indexed, unless their
   absence is being confirmed.  A crawl, a failed crawl, a delta run and a
   re-scope in any order must keep this, or a change is lost until the
   next crawl, as long as no crawl leaves an object out.                   *)
CursorSound ==
    spent.omits = 0 /\ db.cursor # NoCursor =>
      \A o \in Objects \ db.watch.ids :
        stamp[o] <= db.cursor =>
          /\ o \in estate \intersect ScopeOf[db.print] => o \in Live(db) /\ db.ver[o] = stamp[o]
          /\ o \in Live(db) => o \in estate

(* Once the provider and the operator leave the source alone, the index
   comes to hold exactly the selected estate, bulk deletions included,
   unless a crawl left an object out.  What it may hold beyond is known by
   name: rows of objects still in the estate that a failed crawl of
   another selection committed, if the recorded selection was saved again
   before any crawl ended; the fingerprints are then equal, no crawl is
   forced (engine.py:176) and nothing takes those rows away, against
   connectors.md:168.                                                      *)
Mirrored ==
    /\ Visible(scope) \subseteq Live(db)
    /\ Live(db) \ Visible(scope) \subseteq strays \intersect estate
    /\ \A o \in Visible(scope) : db.ver[o] = stamp[o]
Converges == <>[](spent.omits > 0 \/ Mirrored)
=============================================================================
