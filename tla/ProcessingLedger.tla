-------------------------- MODULE ProcessingLedger --------------------------
(***************************************************************************)
(* The processing ledger of one document: a row per pipeline stage, the   *)
(* workers that claim and execute stages, the timer that expires their    *)
(* claims, and everything that puts finished work back in the queue: a    *)
(* sync that saw the document change, a producer version bump, a stage    *)
(* switched on, a quarantine retry, an ontology change, an identity merge *)
(* replayed by another file.                                              *)
(*                                                                         *)
(* A handler runs in a session of its own under READ COMMITTED.  SQLAlchemy *)
(* writes back only the attributes that differ from the values the session *)
(* loaded, addressed by primary key with no version column, so what an     *)
(* attempt read when it began is part of its state.                        *)
(***************************************************************************)
EXTENDS Integers

CONSTANTS
    N,              \* stages, in PIPELINE_STAGE_ORDER: 1 fetches, N indexes
    Metadata,       \* the position of extract_metadata
    Workers,        \* task slots of the workers
    NoWorker,       \* claimed_at IS NULL
    MaxAttempts,    \* max_attempts of every stage
    Budget,         \* bound: how often each disturbance may happen
    Starts          \* what of it is spent from the start, in each part of a run

Kinds == {"edit", "share", "bump", "toggle", "retry", "retype", "merge",
          "crash", "slow", "ordinary", "outage", "poison"}

ASSUME StageAssumption == N \in Nat \ {0} /\ Metadata \in 2 .. N
ASSUME WorkerAssumption == NoWorker \notin Workers
ASSUME AttemptAssumption == MaxAttempts \in Nat \ {0}
ASSUME BudgetAssumption ==
    /\ Budget \in [Kinds -> Nat]
    /\ \A f \in Starts : f \in [Kinds -> Nat] /\ \A k \in Kinds : f[k] <= Budget[k]

VARIABLES
    ledger,     \* processing_state: the row of each stage
    object,     \* source_objects: what the last scan saw, content_hash, deleted_at
    out,        \* what each stage last derived: content and producer versions
    projected,  \* the version of the grants compiled into the chunks
    want,       \* configured producer version of each stage
    enabled,    \* stages switched on
    attempt,    \* what each worker is executing
    raced,      \* history: work was put back while an attempt was under way
    skewed,     \* history: rows or settings changed out of the order of the stages
    strikes,    \* history: failures and lost claims since attempts was reset
    spent       \* disturbances so far, against Budget

config == <<want, enabled>>
history == <<raced, skewed>>
vars == <<ledger, object, out, projected, want, enabled, attempt, raced,
          skewed, strikes, spent>>

Stages == 1 .. N
Contents == 0 .. Budget["edit"] + 1
Versions == 0 .. Budget["bump"] + 1         \* 0: producer_version IS NULL
Grants == 0 .. Budget["share"] + 1
Recipes == [Stages -> Versions]
Outputs == [content : Contents, recipe : Recipes]
Statuses == {"pending", "running", "done", "failed", "quarantined", "skipped"}
Reasons == {"none", "waiting", "disabled", "declined", "access"}
Rows == [status : Statuses, reason : Reasons, attempts : 0 .. MaxAttempts,
         producer : Versions, claim : Workers \union {NoWorker}]
Objects == [seen : Contents, hash : Contents, acl : Grants, live : BOOLEAN]
Attempts == [phase : {"idle", "claimed", "working", "recording"},
             stage : Stages, version : Versions, on : BOOLEAN,
             plan : {"derive", "project", "declined", "disabled"},
             reason : Reasons, producer : Versions, hash : Contents,
             input : Outputs, acl : Grants,
             error : {"none", "ordinary", "outage", "poison"}, found : Rows]

Raw == [content |-> 0, recipe |-> [s \in Stages |-> 0]]
FreshRow(s) == [status |-> IF s = 1 THEN "pending" ELSE "skipped",
                reason |-> IF s = 1 THEN "none" ELSE "waiting",
                attempts |-> 0, producer |-> 0, claim |-> NoWorker]
Idle == [phase |-> "idle", stage |-> 1, version |-> 0, on |-> FALSE,
         plan |-> "derive", reason |-> "none", producer |-> 0, hash |-> 0,
         input |-> Raw, acl |-> 0, error |-> "none", found |-> FreshRow(1)]

Waiting(row) == row.status = "skipped" /\ row.reason = "waiting"
Settled(row) == row.status = "done" \/ (row.status = "skipped" /\ ~Waiting(row))
Fresh(s) == ledger[s].status = "done" /\ ledger[s].producer = want[s]

(* The history skewed says that since the document last changed a row was  *)
(* written, or a setting changed, without regard for the stages before it: *)
(*   a failure was recorded over a row that had settled meanwhile,         *)
(*   new permissions reopened an index stage that was not up to date,      *)
(*   a stage was put back while the one before it was not settled,         *)
(*   a stage switched on was queued and the stages after it were not,      *)
(*   a version or a switch changed under an attempt or a pending refresh.  *)
Executing(s) == \E w \in Workers : attempt[w].phase # "idle" /\ attempt[w].stage = s
UnderWay == \E w \in Workers : attempt[w].phase # "idle"

(* claimed_at, which is a new one for every claim, is still this attempt's. *)
Owns(w) == ledger[attempt[w].stage].claim = w

Spend(kind) == /\ spent[kind] < Budget[kind]
               /\ spent' = [spent EXCEPT ![kind] = @ + 1]

(* Attempts only meet max_attempts in a comparison: they saturate there.   *)
OneMore(n) == IF n < MaxAttempts THEN n + 1 ELSE n

Init ==
    /\ ledger = [s \in Stages |-> FreshRow(s)]
    /\ object = [seen |-> 1, hash |-> 0, acl |-> 1, live |-> TRUE]
    /\ out = [s \in Stages |-> Raw]
    /\ projected = 0
    /\ want = [s \in Stages |-> 1]
    /\ enabled = [s \in Stages |-> TRUE]
    /\ attempt = [w \in Workers |-> Idle]
    /\ raced = FALSE
    /\ skewed = FALSE
    /\ strikes = [s \in Stages |-> 0]
    /\ spent \in Starts

(***************************************************************************)
(* Claiming and executing                                                  *)
(***************************************************************************)

(* A FAILED row is due whenever the backoff has passed, which it may have. *)
(* Mutant of Claimable: a failed row is never due.                         *)
ClaimableOnce(row) == row.status = "pending"
Claimable(row) == row.status \in {"pending", "failed"}

(* Claiming clears last_error, but for the marker of a permission refresh. *)
Claimed(row, w, s) ==
    [row EXCEPT !.status = "running",
                !.reason = IF s = N /\ row.reason = "access" THEN "access" ELSE "none",
                !.attempts = OneMore(row.attempts),
                !.claim = w]

Claim(w, s) ==
    /\ attempt[w].phase = "idle"
    /\ Claimable(ledger[s])
    /\ ledger' = [ledger EXCEPT ![s] = Claimed(@, w, s)]
    /\ attempt' = [attempt EXCEPT ![w] =
           [Idle EXCEPT !.phase = "claimed", !.stage = s,
                        !.version = want[s], !.on = enabled[s]]]
    /\ UNCHANGED <<object, out, projected, config, history, strikes, spent>>

(* What stage s works from: the staged bytes, or the content hash; and for *)
(* it what every earlier stage last stored.                                *)
Input(s) == [content |-> IF s = 1 THEN object.seen ELSE object.hash,
             recipe |-> [u \in Stages |-> IF u < s THEN out[u].recipe[u] ELSE 0]]

Plan(s, on) == CASE ~on -> "disabled"
                 [] on /\ s = 1 /\ ~object.live -> "declined"
                 [] on /\ s = N /\ ledger[s].reason = "access" /\ out[N].content # 0
                        -> "project"
                 [] OTHER -> "derive"

(* Every stage after the fetch refuses an object without a content hash.   *)
Unfetched(s, on) == on /\ s > 1 /\ object.hash = 0

(* The claim is re-read in the session that executes it.                   *)
Begin(w) ==
    LET a == attempt[w]
        row == ledger[a.stage]
    IN  /\ a.phase = "claimed"
        /\ attempt' = [attempt EXCEPT ![w] =
               IF row.status # "running" THEN Idle
               ELSE IF Unfetched(a.stage, a.on)
               THEN [Idle EXCEPT !.phase = "recording", !.stage = a.stage,
                                 !.error = "ordinary", !.found = row]
               ELSE [a EXCEPT !.phase = "working", !.plan = Plan(a.stage, a.on),
                              !.reason = row.reason, !.producer = row.producer,
                              !.hash = object.hash, !.input = Input(a.stage),
                              !.acl = object.acl]]
        /\ UNCHANGED <<ledger, object, out, projected, config, history, strikes, spent>>

Opened(row) == [row EXCEPT !.status = "pending", !.reason = "none"]

(* Mutant of Unlocked: only a stage that ran opens the next.               *)
UnlockedIfDone(l, s) ==
    IF s < N /\ l[s].status = "done" /\ Waiting(l[s + 1])
    THEN [l EXCEPT ![s + 1] = Opened(@)]
    ELSE l
Unlocked(l, s) ==
    IF s < N /\ Waiting(l[s + 1])
    THEN [l EXCEPT ![s + 1] = Opened(@)]
    ELSE l

(* What a finishing attempt writes: the row as committed now, with the     *)
(* attributes that differ from the ones this session loaded.               *)
Written(a, row) ==
    LET skipped == a.plan \in {"declined", "disabled"}
        reason == IF skipped THEN a.plan ELSE "none"
    IN  [row EXCEPT !.status = IF skipped THEN "skipped" ELSE "done",
                    !.reason = IF reason = a.reason THEN row.reason ELSE reason,
                    !.producer = IF a.version = a.producer THEN row.producer ELSE a.version,
                    !.claim = NoWorker]

Finish(w) ==
    LET a == attempt[w]
        s == a.stage
    IN  /\ a.phase = "working"
        /\ ledger' = Unlocked([ledger EXCEPT ![s] = Written(a, @)], s)
        /\ out' = IF a.plan = "derive"
                  THEN [out EXCEPT ![s] =
                           [content |-> a.input.content,
                            recipe |-> [a.input.recipe EXCEPT ![s] = a.version]]]
                  ELSE out
        /\ object' = IF a.plan = "derive" /\ s = 1 /\ a.input.content # a.hash
                     THEN [object EXCEPT !.hash = a.input.content] ELSE object
        /\ projected' = IF s = N /\ a.plan \in {"derive", "project"} THEN a.acl
                                                                   ELSE projected
        /\ attempt' = [attempt EXCEPT ![w] = Idle]
        /\ UNCHANGED <<config, history, strikes, spent>>

(* The handler raises, its session is rolled back and the row read again:  *)
(* a stage found done is left alone.                                       *)
Raise(w, kind) ==
    LET a == attempt[w]
        row == ledger[a.stage]
    IN  /\ a.phase = "working" /\ a.on
        /\ Spend(kind)
        /\ attempt' = [attempt EXCEPT ![w] =
               IF row.status = "done" THEN Idle
               ELSE [Idle EXCEPT !.phase = "recording", !.stage = a.stage,
                                 !.error = kind, !.found = row]]
        /\ UNCHANGED <<ledger, object, out, projected, config, history, strikes>>

Quarantines(a) ==
    \/ a.error = "poison"
    \/ a.error = "ordinary" /\ a.found.attempts >= MaxAttempts

Recorded(a, row) ==
    LET verdict == IF Quarantines(a) THEN "quarantined" ELSE "failed"
    IN  [row EXCEPT !.status = IF verdict = a.found.status THEN row.status ELSE verdict,
                    !.reason = "none",
                    !.claim = IF a.found.claim = NoWorker THEN row.claim ELSE NoWorker]

RecordFailure(w) ==
    LET a == attempt[w]
        s == a.stage
    IN  /\ a.phase = "recording"
        /\ ledger' = [ledger EXCEPT ![s] = Recorded(a, @)]
        /\ skewed' = (skewed \/ Settled(ledger[s]))
        /\ strikes' = [strikes EXCEPT ![s] =
               IF a.error = "poison" THEN MaxAttempts ELSE OneMore(@)]
        /\ attempt' = [attempt EXCEPT ![w] = Idle]
        /\ UNCHANGED <<object, out, projected, config, raced, spent>>

(* The worker process dies, or its task is cancelled: its claim stays.     *)
Crash(w) ==
    /\ attempt[w].phase # "idle"
    /\ Spend("crash")
    /\ attempt' = [attempt EXCEPT ![w] = Idle]
    /\ UNCHANGED <<ledger, object, out, projected, config, history, strikes>>

(* recover_stale_claims, from the timer or before a run: claims older than *)
(* claim_timeout_seconds.  The attempts spent are neither read nor reset.  *)
ExpireClaims(S) ==
    /\ S # {} /\ \A s \in S : ledger[s].status = "running"
    /\ ledger' = [s \in Stages |->
           IF s \in S THEN [ledger[s] EXCEPT !.status = "failed", !.reason = "none"]
                     ELSE ledger[s]]
    /\ strikes' = [s \in Stages |-> IF s \in S THEN OneMore(strikes[s]) ELSE strikes[s]]
    /\ UNCHANGED <<object, out, projected, config, attempt, history>>

ExpireAbandoned(S) ==
    /\ \A s \in S : ~Executing(s)
    /\ ExpireClaims(S)
    /\ UNCHANGED spent

(* A worker slower than the timeout is still at it.                        *)
ExpireHeld(S) ==
    /\ \E s \in S : Executing(s)
    /\ ExpireClaims(S)
    /\ Spend("slow")

(***************************************************************************)
(* Work put back in the queue                                              *)
(***************************************************************************)
Forgiven(S) == [s \in Stages |-> IF s \in S THEN 0 ELSE strikes[s]]

(* Mutants: no settled row is reopened; the access stage is not queued;    *)
(* the attempts spent are kept.                                            *)
ResetRowsFetchOnly(l) ==
    [l EXCEPT ![1] = [FreshRow(1) EXCEPT !.producer = l[1].producer]]
AccessQueuedDropped(l) == l

ResetRowsKeepAttempts(l) ==
    [s \in Stages |-> [FreshRow(s) EXCEPT !.producer = l[s].producer,
                                         !.attempts = l[s].attempts]]

(* SyncEngine._ensure_pipeline(reset): whatever state the rows are in.     *)
ResetRows(l) ==
    [s \in Stages |-> [FreshRow(s) EXCEPT !.producer = l[s].producer]]

(* _requeue_stage_and_downstream: stage i queued, all after it parked.     *)
Parked(l, i) ==
    [s \in Stages |-> IF s < i THEN l[s] ELSE IF s = i THEN FreshRow(1)
                      ELSE [FreshRow(1) EXCEPT !.status = "skipped",
                                               !.reason = "waiting"]]

(* _queue_access_reindex: an index row that is settled is reopened with    *)
(* the marker of a permission refresh.                                     *)
AccessQueued(l) ==
    IF Settled(l[N])
    THEN [l EXCEPT ![N] = [FreshRow(1) EXCEPT !.reason = "access"]]
    ELSE l

(* A scan sees the document changed, or back after a deletion.             *)
ObserveChange ==
    /\ Spend("edit")
    /\ object' = [object EXCEPT !.seen = @ + 1, !.hash = 0, !.live = TRUE]
    /\ ledger' = ResetRows(ledger)
    /\ raced' = UnderWay
    /\ skewed' = FALSE
    /\ strikes' = Forgiven(Stages)
    /\ UNCHANGED <<out, projected, config, attempt>>

(* A scan sees only other permissions.                                     *)
ObserveAccess ==
    /\ object.live
    /\ Spend("share")
    /\ object' = [object EXCEPT !.acl = @ + 1]
    /\ ledger' = AccessQueued(ledger)
    /\ raced' = (raced \/ UnderWay)
    /\ skewed' = (skewed \/ (Settled(ledger[N]) /\ ~Fresh(N)))
    /\ strikes' = Forgiven(IF ledger' = ledger THEN {} ELSE {N})
    /\ UNCHANGED <<out, projected, config, attempt>>

(* A tombstone leaves the ledger alone.                                    *)
ObserveDeletion ==
    /\ object.live
    /\ Spend("edit")
    /\ object' = [object EXCEPT !.live = FALSE]
    /\ UNCHANGED <<ledger, out, projected, config, attempt, history, strikes>>

PutBack(i) ==
    /\ ledger' = Parked(ledger, i)
    /\ raced' = (raced \/ UnderWay)
    /\ skewed' = (skewed \/ (i > 1 /\ ~Settled(ledger[i - 1])))
    /\ strikes' = Forgiven(i .. N)
    /\ UNCHANGED <<object, out, projected, config, attempt>>

Outdated(s) ==
    /\ enabled[s] /\ ledger[s].producer \notin {0, want[s]}
    /\ ledger[s].status \in {"done", "skipped"}

RequeueOutdated ==
    \E i \in Stages :
        /\ Outdated(i) /\ \A s \in 1 .. i - 1 : ~Outdated(s)
        /\ PutBack(i)
        /\ UNCHANGED spent

RetryQuarantined(i) ==
    /\ ledger[i].status = "quarantined"
    /\ Spend("retry")
    /\ PutBack(i)

(* requeue_ontology_outdated: a document typed under another ontology.     *)
RequeueOntology ==
    /\ out[Metadata].content # 0
    /\ ledger[Metadata].status \in {"done", "skipped"}
    /\ Spend("retype")
    /\ PutBack(Metadata)

(* _requeue_knowledge_stages: another file's relate stage replays a merge  *)
(* that absorbed this document.                                            *)
RequeueKnowledge ==
    /\ out[Metadata - 1].content # 0
    /\ \E i \in Metadata .. N :
          /\ ledger[i].status = "done"
          /\ \A s \in Metadata .. i - 1 : ledger[s].status # "done"
          /\ PutBack(i)
    /\ Spend("merge")

NewlyEnabled ==
    {s \in Stages : ledger[s].status = "skipped" /\ ledger[s].reason = "disabled" /\ enabled[s]}

RequeueNewlyEnabled ==
    /\ NewlyEnabled # {}
    /\ ledger' = [s \in Stages |->
           IF s \in NewlyEnabled
           THEN [ledger[s] EXCEPT !.status = "pending", !.reason = "none", !.attempts = 0]
           ELSE ledger[s]]
    /\ strikes' = Forgiven(NewlyEnabled)
    /\ raced' = (raced \/ UnderWay)
    /\ skewed' = (skewed \/ NewlyEnabled # {N})
    /\ UNCHANGED <<object, out, projected, config, attempt, spent>>

(* The operator re-runs a stage, or a release changes its version.         *)
BumpVersion(s) ==
    /\ Spend("bump")
    /\ want' = [want EXCEPT ![s] = @ + 1]
    /\ skewed' = (skewed \/ UnderWay \/ ledger[s].reason = "access")
    /\ UNCHANGED <<ledger, object, out, projected, enabled, attempt, raced, strikes>>

ToggleStage(s) ==
    /\ Spend("toggle")
    /\ enabled' = [enabled EXCEPT ![s] = ~@]
    /\ skewed' = (skewed \/ UnderWay)
    /\ UNCHANGED <<ledger, object, out, projected, want, attempt, raced, strikes>>

Next ==
    \/ \E w \in Workers, s \in Stages : Claim(w, s)
    \/ \E w \in Workers : \/ Begin(w)
                          \/ Finish(w)
                          \/ \E k \in {"ordinary", "outage", "poison"} : Raise(w, k)
                          \/ RecordFailure(w)
                          \/ Crash(w)
    \/ \E S \in SUBSET Stages : ExpireAbandoned(S) \/ ExpireHeld(S)
    \/ ObserveChange \/ ObserveAccess \/ ObserveDeletion
    \/ RequeueOutdated \/ RequeueNewlyEnabled \/ RequeueOntology \/ RequeueKnowledge
    \/ \E s \in Stages : RetryQuarantined(s) \/ BumpVersion(s) \/ ToggleStage(s)

Spec == Init /\ [][Next]_vars

(* Somebody drains the queue, workers finish or fail what they execute,    *)
(* and every run and the timer expire the claims of the dead.              *)
FairSpec ==
    /\ Spec
    /\ \A s \in Stages : WF_vars(\E w \in Workers : Claim(w, s))
    /\ \A w \in Workers : WF_vars(Begin(w)) /\ WF_vars(Finish(w)) /\ WF_vars(RecordFailure(w))
    /\ WF_vars(\E S \in SUBSET Stages : ExpireAbandoned(S))
    /\ WF_vars(RequeueOutdated) /\ WF_vars(RequeueNewlyEnabled)

(***************************************************************************)
(* Properties                                                              *)
(***************************************************************************)
TypeOK ==
    /\ ledger \in [Stages -> Rows]
    /\ object \in Objects
    /\ out \in [Stages -> Outputs]
    /\ projected \in Grants
    /\ want \in [Stages -> 1 .. Budget["bump"] + 1]
    /\ enabled \in [Stages -> BOOLEAN]
    /\ attempt \in [Workers -> Attempts]
    /\ raced \in BOOLEAN
    /\ skewed \in BOOLEAN
    /\ strikes \in [Stages -> 0 .. MaxAttempts]
    /\ spent \in [Kinds -> Nat]

Finished == NewlyEnabled = {} /\ \A s \in Stages : Settled(ledger[s])

(* pipeline.md:159 a waiting row is `parked behind an unfinished           *)
(* predecessor': the previous stage is not settled, so that its end will   *)
(* open the row (_unlock_next is the only thing that does).                *)
NoRowStranded ==
    \A s \in Stages : Waiting(ledger[s]) => s > 1 /\ ~Settled(ledger[s - 1])

(* No row is parked for ever as long as no scan or requeue lands while an  *)
(* attempt is under way, whatever crashes, expires, fails or is retried.   *)
UndisturbedNotStranded == ~raced => NoRowStranded

(* When every stage is settled, and since the last change of the document  *)
(* nothing was put back under an attempt nor out of the order of the       *)
(* stages, everything was derived from the content last seen and by the    *)
(* versions configured, in spite of crashes, retries, version bumps and    *)
(* attempts that outlive their claims.                                     *)
UndisturbedIsCurrent ==
    (Finished /\ ~raced /\ ~skewed /\ object.live /\ ~\E s \in Stages : Outdated(s)) =>
        \A s \in Stages : enabled[s] =>
            /\ out[s].content = object.seen
            /\ \A u \in 1 .. s : enabled[u] => out[s].recipe[u] = want[u]

(* A document whose index stage is done has the permissions last seen in   *)
(* its chunks, as long as nothing was put back under an attempt.           *)
UndisturbedProjection ==
    ~raced => (ledger[N].status = "done" => projected = object.acl)

(* Quarantine, which is terminal, follows a poison failure or as many      *)
(* failures and lost claims as max_attempts allows, however many attempts  *)
(* worked on one claim, again as long as nothing landed on one of them.    *)
UndisturbedQuarantine ==
    ~raced => \A s \in Stages :
                  ledger[s].status = "quarantined" => strikes[s] >= MaxAttempts

(* Once the disturbances end the document settles or is quarantined: no    *)
(* row stays queued, running or due for ever.                              *)
Settles ==
    <>[](\A s \in Stages : ledger[s].status \notin {"pending", "running", "failed"})
=============================================================================
