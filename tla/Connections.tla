---------------------------- MODULE Connections ----------------------------
(***************************************************************************)
(* The connection of one source: its stored OAuth credentials and its      *)
(* provider subscriptions.  A crawl refreshes the token inside its own     *)
(* transaction, the event manager refreshes it to renew subscriptions, and *)
(* the administrator's requests authorize the connection again or browse   *)
(* its folders.  All of them load the one row, talk to the provider and    *)
(* write the whole row back.                                               *)
(*                                                                         *)
(* The provider rotates: a refresh token is good for one use.  A stored    *)
(* row is its refresh token and the state of the handshake it waits for.   *)
(* The access tokens, which outlive a rotation, are not told apart.        *)
(***************************************************************************)
EXTENDS Integers, FiniteSets

CONSTANTS
    Requests,       \* requests of the administrator's browser
    Targets,        \* provider resources the source's scope implies
    Ids,            \* ids the provider gives its subscriptions
    NoId,           \* a row the provider has not answered for
    MaxTokens,      \* bound: refresh tokens issued
    MaxStates,      \* bound: handshakes started
    MaxFaults,      \* bound: dead processes, failed requests, long outages
    MaxBrowses,     \* bound: times the folders are browsed
    MaxTroubles     \* bound: faults and browses together

ASSUME IdAssumption == NoId \notin Ids
ASSUME BoundAssumption ==
    /\ MaxTokens \in Nat \ {0} /\ MaxStates \in Nat
    /\ MaxFaults \in Nat /\ MaxBrowses \in Nat /\ MaxTroubles \in Nat

VARIABLES
    honoured,   \* refresh tokens the provider accepts
    issued,     \* how many it has issued
    spent,      \* handshakes whose code it has exchanged
    row,        \* source_credentials.payload, as committed
    writer,     \* whether the crawl has written the row and not committed
    pending,    \* what it wrote
    sync,       \* the crawl
    manager,    \* the pass of the event manager
    request,    \* the administrator's requests
    minted,     \* handshakes started
    watch,      \* connector_event_subscriptions
    upstream,   \* the provider's subscriptions
    dropped,    \* history: a process died, or a browse ended, with a new token
    crossed,    \* history: a request wrote back a token that had been replaced
    lapsed,     \* history: targets whose subscription ran out at the provider
    faults, browses

provider == <<honoured, issued, spent>>
credentials == <<row, writer, pending>>
subscriptions == <<watch, upstream, lapsed>>
history == <<dropped, crossed, faults, browses>>
vars == <<provider, credentials, sync, manager, request, minted, subscriptions, history>>

NoRow == [token |-> 0, state |-> 0]
Idle == [phase |-> "idle", base |-> NoRow, token |-> 0]
Quiet == [phase |-> "idle", base |-> NoRow, token |-> 0, state |-> 0]
Unwatched == [id |-> NoId, noted |-> FALSE]

Init ==
    /\ honoured = {1} /\ issued = 1 /\ spent = {}
    /\ row = [token |-> 1, state |-> 0]
    /\ writer = FALSE /\ pending = NoRow
    /\ sync = Idle
    /\ manager = [phase |-> "resting", base |-> NoRow, token |-> 0, todo |-> {},
                  draft |-> [t \in Targets |-> Unwatched]]
    /\ request = [r \in Requests |-> Quiet]
    /\ minted = 0
    /\ watch = [t \in Targets |-> Unwatched]
    /\ upstream = [i \in Ids |-> "none"]
    /\ dropped = FALSE /\ crossed = FALSE /\ lapsed = {} /\ faults = 0 /\ browses = 0

Fault ==
    /\ faults < MaxFaults /\ faults + browses < MaxTroubles
    /\ faults' = faults + 1 /\ UNCHANGED browses

(* The provider redeems a refresh token, once, for its successor.          *)
Redeem(token) ==
    /\ token \in honoured /\ issued < MaxTokens
    /\ issued' = issued + 1
    /\ honoured' = (honoured \ {token}) \union {issued'}
    /\ UNCHANGED spent

(* What a refresh leaves in the row: what was loaded, with the new token.  *)
(* Mutant of Merged: the loaded values win over the refreshed ones.        *)
MergedUnderBase(base, token) == base
Merged(base, token) == [base EXCEPT !.token = token]

(***************************************************************************)
(* The crawl                                                               *)
(***************************************************************************)
SyncStarts ==
    /\ sync.phase = "idle"
    /\ sync' = [phase |-> "crawling", base |-> row, token |-> row.token]
    /\ UNCHANGED <<provider, credentials, manager, request, minted, subscriptions, history>>

(* Redeemed and persisted: the row is written, and locked, until the crawl *)
(* commits.                                                                *)
SyncRefreshes ==
    /\ sync.phase = "crawling" /\ Redeem(sync.token)
    /\ sync' = [sync EXCEPT !.token = issued']
    /\ writer' = TRUE
    /\ pending' = Merged(sync.base, issued')
    /\ UNCHANGED <<row, manager, request, minted, subscriptions, history>>

(* The crawl ends, or fails, refused tokens included: both commit.         *)
SyncCommits ==
    /\ sync.phase = "crawling"
    /\ row' = IF writer THEN pending ELSE row
    /\ writer' = FALSE /\ pending' = NoRow
    /\ sync' = Idle
    /\ UNCHANGED <<provider, manager, request, minted, subscriptions, history>>

(* A worker dies, or the database rolls the session of the crawl back.     *)
SyncDies ==
    /\ sync.phase # "idle" /\ Fault
    /\ dropped' = (dropped \/ writer)
    /\ writer' = FALSE /\ pending' = NoRow
    /\ sync' = Idle
    /\ UNCHANGED <<provider, row, manager, request, minted, subscriptions, crossed>>

(***************************************************************************)
(* Authorizing again                                                       *)
(***************************************************************************)
Answered(r) == request' = [request EXCEPT ![r] = Quiet]

StartLoads(r) ==
    /\ request[r].phase = "idle" /\ minted < MaxStates
    /\ minted' = minted + 1
    /\ request' = [request EXCEPT ![r] =
           [Quiet EXCEPT !.phase = "starting", !.base = row, !.state = minted']]
    /\ UNCHANGED <<provider, credentials, sync, manager, subscriptions, history>>

(* The provider sends the browser back, twice when the page is reloaded.   *)
CallbackLoads(r, state) ==
    /\ request[r].phase = "idle" /\ row.state = state /\ state # 0
    /\ request' = [request EXCEPT ![r] =
           [Quiet EXCEPT !.phase = "exchanging", !.base = row, !.state = state]]
    /\ UNCHANGED <<provider, credentials, sync, manager, minted, subscriptions, history>>

(* A code is good for one exchange; the new grant leaves the old one be.   *)
Exchanges(r) ==
    /\ request[r].phase = "exchanging" /\ request[r].state \notin spent
    /\ issued < MaxTokens
    /\ issued' = issued + 1 /\ honoured' = honoured \union {issued'}
    /\ spent' = spent \union {request[r].state}
    /\ request' = [request EXCEPT ![r] =
           [Quiet EXCEPT !.phase = "exchanged", !.token = issued']]
    /\ UNCHANGED <<credentials, sync, manager, minted, subscriptions, history>>

(* The handshake came too late, or the provider turned the code down; then *)
(* another request with it may still be served, or be refused as well.     *)
Refused(r) ==
    /\ request[r].phase = "exchanging"
    /\ request' = [request EXCEPT ![r].phase = "refused"]
    /\ UNCHANGED <<provider, credentials, sync, manager, minted, subscriptions, history>>

(* What a request writes over the row, when the crawl has let go of it.    *)
(* Mutant of Rewritten: the handshake is saved on its own.                 *)
RewrittenAfresh(r) == [NoRow EXCEPT !.state = request[r].state]
Rewritten(r) ==
    CASE request[r].phase = "starting" -> [request[r].base EXCEPT !.state = request[r].state]
      [] request[r].phase = "exchanged" -> [token |-> request[r].token, state |-> 0]
      [] request[r].phase = "refused" -> [request[r].base EXCEPT !.state = 0]

RequestSaves(r) ==
    /\ request[r].phase \in {"starting", "exchanged", "refused"} /\ ~writer
    /\ row' = Rewritten(r)
    /\ crossed' = (crossed \/ (request[r].phase # "exchanged" /\ request[r].base.token # row.token))
    /\ Answered(r)
    /\ UNCHANGED <<provider, writer, pending, sync, manager, minted, subscriptions, dropped,
                   faults, browses>>

RequestDies(r) ==
    /\ request[r].phase \notin {"idle", "browsing", "listing"} /\ Fault
    /\ Answered(r)
    /\ UNCHANGED <<provider, credentials, sync, manager, minted, subscriptions, dropped,
                   crossed>>

(***************************************************************************)
(* Browsing the folders                                                    *)
(***************************************************************************)
BrowseLoads(r) ==
    /\ request[r].phase = "idle"
    /\ browses < MaxBrowses /\ faults + browses < MaxTroubles
    /\ browses' = browses + 1
    /\ request' = [request EXCEPT ![r] =
           [Quiet EXCEPT !.phase = "browsing", !.token = row.token]]
    /\ UNCHANGED <<provider, credentials, sync, manager, minted, subscriptions, dropped, crossed,
                   faults>>

(* A connector refreshes before its first call, whatever it was given.     *)
BrowseRefreshes(r) ==
    /\ request[r].phase = "browsing" /\ Redeem(request[r].token)
    /\ request' = [request EXCEPT ![r].phase = "listing", ![r].token = issued']
    /\ UNCHANGED <<credentials, sync, manager, minted, subscriptions, history>>

(* The session is closed without a commit, and persist with it.            *)
BrowseEnds(r) ==
    /\ request[r].phase \in {"browsing", "listing"}
    /\ dropped' = (dropped \/ request[r].phase = "listing")
    /\ Answered(r)
    /\ UNCHANGED <<provider, credentials, sync, manager, minted, subscriptions, crossed, faults,
                   browses>>

(***************************************************************************)
(* The event manager                                                       *)
(***************************************************************************)
PassBegins ==
    /\ manager.phase = "resting"
    /\ manager' = [manager EXCEPT !.phase = "choosing", !.todo = Targets, !.draft = watch]
    /\ UNCHANGED <<provider, credentials, sync, request, minted, subscriptions, history>>

(* expires_at is what the provider answered last and the row has kept.     *)
(* Mutant of Fresh: a row with an id is taken for a good one.              *)
FreshIfKnown(sub) == sub.id # NoId
Fresh(sub) == sub.id # NoId /\ sub.noted /\ upstream[sub.id] = "fresh"

Done(t) == [manager EXCEPT !.phase = "choosing", !.base = NoRow, !.token = 0, !.todo = @ \ {t}]

LeavesFresh(t) ==
    /\ manager.phase = "choosing" /\ t \in manager.todo /\ Fresh(manager.draft[t])
    /\ manager' = Done(t)
    /\ UNCHANGED <<provider, credentials, sync, request, minted, subscriptions, history>>

(* source_access_token, in a transaction of its own.                       *)
AsksToken ==
    /\ manager.phase = "choosing" /\ \E t \in manager.todo : ~Fresh(manager.draft[t])
    /\ manager' = [manager EXCEPT !.phase = "asking", !.base = row, !.token = row.token]
    /\ UNCHANGED <<provider, credentials, sync, request, minted, subscriptions, history>>

TokenCurrent ==
    /\ manager.phase = "asking"
    /\ manager' = [manager EXCEPT !.phase = "ready", !.base = NoRow, !.token = 0]
    /\ UNCHANGED <<provider, credentials, sync, request, minted, subscriptions, history>>

ManagerRefreshes ==
    /\ manager.phase = "asking" /\ Redeem(manager.base.token)
    /\ manager' = [manager EXCEPT !.phase = "rotated", !.token = issued']
    /\ UNCHANGED <<credentials, sync, request, minted, subscriptions, history>>

ManagerSaves ==
    /\ manager.phase = "rotated" /\ ~writer
    /\ row' = Merged(manager.base, manager.token)
    /\ manager' = [manager EXCEPT !.phase = "ready", !.base = NoRow, !.token = 0]
    /\ UNCHANGED <<provider, writer, pending, sync, request, minted, subscriptions, history>>

(* A stale token is turned down, or the request fails: the next pass tries *)
(* again.                                                                  *)
TargetFails(t) ==
    /\ manager.phase \in {"asking", "ready"} /\ t \in manager.todo
    /\ ~Fresh(manager.draft[t])
    /\ \/ /\ manager.phase = "asking" /\ manager.base.token \notin honoured
          /\ UNCHANGED <<faults, browses>>
       \/ Fault
    /\ manager' = Done(t)
    /\ UNCHANGED <<provider, credentials, sync, request, minted, subscriptions, dropped, crossed>>

Creates(t) ==
    /\ manager.phase = "ready" /\ t \in manager.todo /\ manager.draft[t].id = NoId
    /\ \E i \in Ids :
          /\ upstream[i] = "none"
          /\ upstream' = [upstream EXCEPT ![i] = "fresh"]
          /\ manager' = [Done(t) EXCEPT !.draft[t] = [id |-> i, noted |-> TRUE]]
    /\ UNCHANGED <<provider, credentials, sync, request, minted, watch, lapsed, history>>

(* Until the pass commits, the stored expiry is the one before.            *)
Renews(t) ==
    LET i == manager.draft[t].id
    IN  /\ manager.phase = "ready" /\ t \in manager.todo /\ i # NoId
        /\ ~Fresh(manager.draft[t]) /\ upstream[i] \in {"fresh", "due"}
        /\ upstream' = [upstream EXCEPT ![i] = "fresh"]
        /\ watch' = [watch EXCEPT ![t].noted = FALSE]
        /\ manager' = [Done(t) EXCEPT !.draft[t].noted = TRUE]
        /\ UNCHANGED <<provider, credentials, sync, request, minted, lapsed, history>>

(* The provider knows no such subscription: an error, on every pass.       *)
RenewsNothing(t) ==
    LET i == manager.draft[t].id
    IN  /\ manager.phase = "ready" /\ t \in manager.todo /\ i # NoId /\ upstream[i] = "lapsed"
        /\ manager' = Done(t)
        /\ UNCHANGED <<provider, credentials, sync, request, minted, subscriptions, history>>

PassCommits ==
    /\ manager.phase = "choosing" /\ manager.todo = {}
    /\ watch' = manager.draft
    /\ manager' = [manager EXCEPT !.phase = "resting", !.draft = [t \in Targets |-> Unwatched]]
    /\ UNCHANGED <<provider, credentials, sync, request, minted, upstream, lapsed, history>>

ManagerDies ==
    /\ manager.phase # "resting" /\ Fault
    /\ dropped' = (dropped \/ manager.phase = "rotated")
    /\ manager' = [phase |-> "resting", base |-> NoRow, token |-> 0, todo |-> {},
                   draft |-> [t \in Targets |-> Unwatched]]
    /\ UNCHANGED <<provider, credentials, sync, request, minted, subscriptions, crossed>>

(* A subscription nears its end, days after a pass has noted it; it runs   *)
(* out when no pass renews it for as long as the margin, days against the  *)
(* minutes between passes.                                                 *)
Ages(t, from, to) ==
    /\ watch[t].id # NoId /\ upstream[watch[t].id] = from
    /\ upstream' = [upstream EXCEPT ![watch[t].id] = to]
    /\ UNCHANGED <<provider, credentials, sync, manager, request, minted, watch, dropped, crossed>>
Nears(t) == Ages(t, "fresh", "due") /\ UNCHANGED <<lapsed, faults, browses>>
Lapses(t) == Ages(t, "due", "lapsed") /\ lapsed' = lapsed \union {t} /\ Fault

RequestStep(r) == Exchanges(r) \/ Refused(r) \/ RequestSaves(r) \/ BrowseEnds(r)
ManagerStep ==
    \/ PassBegins \/ AsksToken \/ TokenCurrent \/ ManagerSaves \/ PassCommits
    \/ \E t \in Targets : LeavesFresh(t) \/ Creates(t) \/ Renews(t) \/ RenewsNothing(t)

Next ==
    \/ SyncStarts \/ SyncRefreshes \/ SyncCommits \/ SyncDies
    \/ \E r \in Requests :
          \/ StartLoads(r) \/ (\E s \in 1 .. MaxStates : CallbackLoads(r, s))
          \/ BrowseLoads(r) \/ BrowseRefreshes(r)
          \/ RequestStep(r) \/ RequestDies(r)
    \/ ManagerStep \/ ManagerRefreshes \/ ManagerDies
    \/ \E t \in Targets : TargetFails(t) \/ Nears(t) \/ Lapses(t)

Spec == Init /\ [][Next]_vars

(* Crawls and requests come to their end and the manager's timer fires.    *)
FairSpec ==
    /\ Spec
    /\ WF_vars(SyncCommits) /\ WF_vars(ManagerStep)
    /\ \A r \in Requests : WF_vars(RequestStep(r))

(***************************************************************************)
(* Properties                                                              *)
(***************************************************************************)
Tokens == 1 .. MaxTokens
Loaded == 0 .. MaxTokens
Rows == [token : Loaded, state : 0 .. MaxStates]
Subs == [id : Ids \union {NoId}, noted : BOOLEAN]

Crawls == [phase : {"idle", "crawling"}, base : Rows, token : Loaded]
Passes == [phase : {"resting", "choosing", "asking", "rotated", "ready"}, base : Rows,
           token : Loaded, todo : SUBSET Targets, draft : [Targets -> Subs]]
Calls == [phase : {"idle", "starting", "exchanging", "exchanged", "refused", "browsing", "listing"},
          base : Rows, token : Loaded, state : 0 .. MaxStates]

ProviderOK == honoured \subseteq Tokens /\ issued \in Tokens /\ spent \subseteq 1 .. MaxStates
RowOK == row \in Rows /\ row.token \in Tokens /\ pending \in Rows /\ writer \in BOOLEAN
ActorsOK ==
    /\ sync \in Crawls /\ manager \in Passes /\ request \in [Requests -> Calls]
    /\ minted \in 0 .. MaxStates
WatchOK ==
    /\ watch \in [Targets -> Subs] /\ lapsed \subseteq Targets
    /\ upstream \in [Ids -> {"none", "fresh", "due", "lapsed"}]
HistoryOK ==
    /\ dropped \in BOOLEAN /\ crossed \in BOOLEAN
    /\ faults \in 0 .. MaxFaults /\ browses \in 0 .. MaxBrowses

TypeOK == ProviderOK /\ RowOK /\ ActorsOK /\ WatchOK /\ HistoryOK

(* pipeline/runner.py:2533 a rotation is stored so that nothing strands    *)
(* the connection on a token the provider has invalidated: the stored      *)
(* token is good, or whoever holds its successor has yet to store it.      *)
InHand ==
    (IF writer THEN {sync.token} ELSE {})
    \union (IF manager.phase = "rotated" THEN {manager.token} ELSE {})
    \union {request[r].token : r \in {q \in Requests : request[q].phase = "listing"}}
Kept == ({row.token} \union InHand) \intersect honoured # {}

(* The same whoever else rotates, authorizes again or gives up meanwhile,  *)
(* unless a process died before it stored the token, a browse ended, which *)
(* never stores it, or a request wrote an old one back.                    *)
UncrossedKept == dropped \/ crossed \/ Kept

(* events/manager.py:55 rows and provider converge: every target comes to  *)
(* be covered by a subscription the row names, and is renewed again and    *)
(* again, whatever fails or dies in between, unless one ran out at the     *)
(* provider, which is never replaced, or the connection is lost.           *)
Named(t, states) == watch[t].id # NoId /\ upstream[watch[t].id] \in states
GivenUp(t) == t \in lapsed \/ dropped \/ crossed
Watched ==
    \A t \in Targets :
        /\ <>[](Named(t, {"fresh", "due"}) \/ GivenUp(t))
        /\ []<>(Named(t, {"fresh"}) \/ GivenUp(t))

=============================================================================
