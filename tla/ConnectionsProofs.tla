-------------------------- MODULE ConnectionsProofs --------------------------
(* Proofs about Connections, for any number of requests, targets, tokens   *)
(* and handshakes.                                                         *)
EXTENDS Connections, TLAPS

(***************************************************************************)
(* The inductive invariant                                                 *)
(***************************************************************************)
Loads == {"starting", "exchanging", "refused"}

(* Tokens are among those that were issued, what the crawl has written is  *)
(* what it holds, and a code belongs to a handshake.                       *)
Bounded ==
    /\ row.token \in 1 .. issued
    /\ sync.phase = "crawling" => sync.token \in 1 .. issued
    /\ writer => sync.phase = "crawling" /\ pending.token = sync.token
    /\ manager.phase = "asking" => manager.base.token \in 1 .. issued
    /\ manager.phase = "rotated" => manager.token \in 1 .. issued
    /\ \A r \in Requests :
          /\ request[r].phase \in {"browsing", "exchanged"} => request[r].token \in 1 .. issued
          /\ request[r].phase \in Loads => request[r].base.token \in 1 .. issued
          /\ request[r].phase = "exchanging" => request[r].state # 0

(* A token that somebody may yet redeem, or write back.                    *)
Loose(t) ==
    \/ t = row.token
    \/ sync.phase = "crawling" /\ ~writer /\ t = sync.token
    \/ manager.phase = "asking" /\ t = manager.base.token
    \/ \E r \in Requests :
          \/ request[r].phase = "browsing" /\ t = request[r].token
          \/ request[r].phase \in Loads /\ t = request[r].base.token

(* A successor that is on its way into the row is good, and nobody else    *)
(* can redeem it.                                                          *)
BySync(t) == writer /\ t = sync.token
ByManager(t) == manager.phase = "rotated" /\ t = manager.token
ByRequest(r, t) == request[r].phase = "exchanged" /\ t = request[r].token

Apart ==
    \A t \in Tokens :
        /\ BySync(t) => t \in honoured /\ ~Loose(t) /\ ~ByManager(t)
        /\ ByManager(t) => t \in honoured /\ ~Loose(t)
        /\ \A r \in Requests : ByRequest(r, t) =>
              /\ t \in honoured /\ ~Loose(t) /\ ~BySync(t) /\ ~ByManager(t)
              /\ \A q \in Requests : ByRequest(q, t) => q = r

IInv == TypeOK /\ Bounded /\ Apart /\ UncrossedKept

(***************************************************************************)
(* Types                                                                   *)
(***************************************************************************)
LEMMA Constants ==
    /\ NoRow \in Rows /\ Idle \in Crawls /\ Quiet \in Calls /\ Unwatched \in Subs
    /\ Tokens \subseteq Loaded /\ 0 \in Loaded /\ 0 \in 0 .. MaxStates
    /\ [t \in Targets |-> Unwatched] \in [Targets -> Subs]
    /\ \A s \in 1 .. MaxStates : s \in 0 .. MaxStates
<1>1. 0 \in Loaded /\ 0 \in 0 .. MaxStates /\ Tokens \subseteq Loaded
      /\ \A s \in 1 .. MaxStates : s \in 0 .. MaxStates
  BY BoundAssumption DEF Loaded, Tokens
<1>2. NoRow \in Rows
  BY <1>1 DEF NoRow, Rows
<1>3. Unwatched \in Subs
  BY DEF Unwatched, Subs
<1> QED
  BY <1>1, <1>2, <1>3 DEF Idle, Quiet, Crawls, Calls

LEMMA Redeemed ==
    ASSUME ProviderOK, NEW token, Redeem(token)
    PROVE  /\ ProviderOK' /\ issued' \in Tokens /\ issued' \in Loaded
           /\ issued' \in honoured' /\ issued' = issued + 1
  BY BoundAssumption DEF ProviderOK, Redeem, Tokens, Loaded

LEMMA MergedTyped ==
    \A base \in Rows, token \in Loaded :
        Merged(base, token) \in Rows /\ Merged(base, token).token = token
  BY DEF Merged, Rows

LEMMA FaultTyped == HistoryOK /\ Fault => faults' \in 0 .. MaxFaults /\ browses' = browses
  BY BoundAssumption DEF HistoryOK, Fault

LEMMA DoneTyped ==
    \A t : manager \in Passes => Done(t) \in Passes
  BY Constants DEF Done, Passes

(* The steps of the crawl.                                                 *)
LEMMA SyncTyped ==
    ASSUME TypeOK, Bounded, SyncStarts \/ SyncRefreshes \/ SyncCommits \/ SyncDies
    PROVE  TypeOK'
<1> USE Constants
<1>1. CASE SyncStarts
  <2>1. sync' \in Crawls
    BY <1>1 DEF SyncStarts, TypeOK, RowOK, Crawls
  <2> QED
    BY <1>1, <2>1 DEF SyncStarts, TypeOK, ProviderOK, RowOK, ActorsOK, WatchOK, HistoryOK,
                      provider, credentials, subscriptions, history
<1>2. CASE SyncRefreshes
  <2>1. ProviderOK' /\ issued' \in Loaded
    BY <1>2, Redeemed DEF SyncRefreshes, TypeOK
  <2>2. sync' \in Crawls /\ pending' \in Rows
    BY <1>2, <2>1, MergedTyped DEF SyncRefreshes, TypeOK, ActorsOK, Crawls
  <2> QED
    BY <1>2, <2>1, <2>2 DEF SyncRefreshes, TypeOK, RowOK, ActorsOK, WatchOK, HistoryOK,
                            subscriptions, history
<1>3. CASE SyncCommits
  <2>1. row' \in Rows /\ row'.token \in Tokens
    BY <1>3, BoundAssumption DEF SyncCommits, TypeOK, RowOK, ProviderOK, Bounded, Tokens
  <2> QED
    BY <1>3, <2>1 DEF SyncCommits, TypeOK, ProviderOK, RowOK, ActorsOK, WatchOK, HistoryOK,
                      provider, subscriptions, history
<1>4. CASE SyncDies
  <2>1. faults' \in 0 .. MaxFaults /\ browses' = browses
    BY <1>4, FaultTyped DEF SyncDies, TypeOK
  <2>2. dropped' \in BOOLEAN
    BY <1>4 DEF SyncDies, TypeOK, HistoryOK, RowOK
  <2> QED
    BY <1>4, <2>1, <2>2 DEF SyncDies, TypeOK, ProviderOK, RowOK, ActorsOK, WatchOK, HistoryOK,
                            provider, subscriptions
<1> QED
  BY <1>1, <1>2, <1>3, <1>4

(* The steps of the administrator's requests.                              *)
RequestMoves(r) ==
    \/ StartLoads(r) \/ (\E s \in 1 .. MaxStates : CallbackLoads(r, s))
    \/ BrowseLoads(r) \/ BrowseRefreshes(r) \/ RequestStep(r) \/ RequestDies(r)

LEMMA Moved ==
    ASSUME request \in [Requests -> Calls], NEW r \in Requests, NEW call \in Calls
    PROVE  [request EXCEPT ![r] = call] \in [Requests -> Calls]
  OBVIOUS

LEMMA CallTyped ==
    \A p \in {"idle", "starting", "exchanging", "exchanged", "refused", "browsing", "listing"},
       base \in Rows, token \in Loaded, state \in 0 .. MaxStates :
        [phase |-> p, base |-> base, token |-> token, state |-> state] \in Calls
  BY DEF Calls

LEMMA RequestTyped ==
    ASSUME TypeOK, Bounded, NEW r \in Requests, RequestMoves(r)
    PROVE  TypeOK'
<1> USE Constants
<1>0. /\ request \in [Requests -> Calls] /\ request[r] \in Calls
      /\ row \in Rows /\ row.token \in Loaded /\ row.state \in 0 .. MaxStates
  BY DEF TypeOK, ActorsOK, RowOK, Rows
<1>1. CASE StartLoads(r)
  <2>1. minted' \in 0 .. MaxStates
    BY <1>1, BoundAssumption DEF StartLoads, TypeOK, ActorsOK
  <2>2. [Quiet EXCEPT !.phase = "starting", !.base = row, !.state = minted'] \in Calls
    BY <1>0, <2>1 DEF Calls
  <2>3. request' \in [Requests -> Calls]
    BY <1>0, <1>1, <2>2 DEF StartLoads
  <2> QED
    BY <1>1, <2>1, <2>3 DEF StartLoads, TypeOK, ProviderOK, RowOK, ActorsOK, WatchOK, HistoryOK,
                            provider, credentials, subscriptions, history
<1>2. ASSUME NEW s \in 1 .. MaxStates, CallbackLoads(r, s)
      PROVE  TypeOK'
  <2>1. [Quiet EXCEPT !.phase = "exchanging", !.base = row, !.state = s] \in Calls
    BY <1>0 DEF Calls
  <2>2. request' \in [Requests -> Calls]
    BY <1>0, <1>2, <2>1 DEF CallbackLoads
  <2> QED
    BY <1>2, <2>2 DEF CallbackLoads, TypeOK, ProviderOK, RowOK, ActorsOK, WatchOK, HistoryOK,
                      provider, credentials, subscriptions, history
<1>3. CASE BrowseLoads(r)
  <2>1. [Quiet EXCEPT !.phase = "browsing", !.token = row.token] \in Calls
    BY <1>0 DEF Calls
  <2>2. request' \in [Requests -> Calls]
    BY <1>0, <1>3, <2>1 DEF BrowseLoads
  <2>3. browses' \in 0 .. MaxBrowses
    BY <1>3, BoundAssumption DEF BrowseLoads, TypeOK, HistoryOK
  <2> QED
    BY <1>3, <2>2, <2>3 DEF BrowseLoads, TypeOK, ProviderOK, RowOK, ActorsOK, WatchOK, HistoryOK,
                            provider, credentials, subscriptions
<1>4. CASE BrowseRefreshes(r)
  <2>1. ProviderOK' /\ issued' \in Loaded
    BY <1>4, Redeemed DEF BrowseRefreshes, TypeOK
  <2>2. [request[r] EXCEPT !.phase = "listing", !.token = issued'] \in Calls
    BY <1>0, <2>1 DEF Calls
  <2>3. request' = [request EXCEPT ![r] = [request[r] EXCEPT !.phase = "listing", !.token = issued']]
    BY <1>0, <1>4 DEF BrowseRefreshes, Calls
  <2>4. request' \in [Requests -> Calls]
    BY <1>0, <2>2, <2>3
  <2> QED
    BY <1>4, <2>1, <2>4 DEF BrowseRefreshes, TypeOK, RowOK, ActorsOK, WatchOK, HistoryOK,
                            credentials, subscriptions, history
<1>5. CASE Exchanges(r)
  <2>1. issued' \in Tokens /\ issued' \in Loaded
    BY <1>5, BoundAssumption DEF Exchanges, TypeOK, ProviderOK, Tokens, Loaded
  <2>2. [Quiet EXCEPT !.phase = "exchanged", !.token = issued'] \in Calls
    BY <2>1 DEF Calls
  <2>3. request' \in [Requests -> Calls]
    BY <1>0, <1>5, <2>2 DEF Exchanges
  <2>4. request[r].state \in 1 .. MaxStates
    <3>1. request[r].state \in 0 .. MaxStates /\ request[r].state # 0
      BY <1>0, <1>5 DEF Exchanges, Bounded, Calls
    <3> QED
      BY <3>1, BoundAssumption
  <2> QED
    BY <1>5, <2>1, <2>3, <2>4 DEF Exchanges, TypeOK, ProviderOK, RowOK, ActorsOK, WatchOK, HistoryOK,
                            credentials, subscriptions, history
<1>6. CASE Refused(r)
  <2>1. request' \in [Requests -> Calls]
    BY <1>0, <1>6 DEF Refused, Calls
  <2> QED
    BY <1>6, <2>1 DEF Refused, TypeOK, ProviderOK, RowOK, ActorsOK, WatchOK, HistoryOK,
                      provider, credentials, subscriptions, history
<1>7. CASE RequestSaves(r)
  <2>1. /\ request[r].base \in Rows /\ request[r].token \in Loaded
        /\ request[r].state \in 0 .. MaxStates
    BY <1>0 DEF Calls
  <2>2. row' \in Rows /\ row'.token \in Tokens
    <3>1. \A t \in 1 .. issued : t \in Tokens
      BY BoundAssumption DEF TypeOK, ProviderOK, Tokens
    <3>2. CASE request[r].phase = "starting"
      BY <1>7, <2>1, <3>1, <3>2 DEF RequestSaves, Rewritten, Bounded, Loads, Rows
    <3>3. CASE request[r].phase = "exchanged"
      BY <1>7, <2>1, <3>1, <3>3 DEF RequestSaves, Rewritten, Bounded, Rows
    <3>4. CASE request[r].phase = "refused"
      BY <1>7, <2>1, <3>1, <3>4 DEF RequestSaves, Rewritten, Bounded, Loads, Rows
    <3> QED
      BY <1>7, <3>2, <3>3, <3>4 DEF RequestSaves
  <2>3. request' \in [Requests -> Calls]
    BY <1>0, <1>7 DEF RequestSaves, Answered
  <2>4. crossed' \in BOOLEAN
    BY <1>7 DEF RequestSaves, TypeOK, HistoryOK
  <2> QED
    BY <1>7, <2>2, <2>3, <2>4 DEF RequestSaves, TypeOK, ProviderOK, RowOK, ActorsOK, WatchOK,
                                  HistoryOK, provider, subscriptions
<1>8. CASE BrowseEnds(r) \/ RequestDies(r)
  <2>1. request' \in [Requests -> Calls]
    BY <1>0, <1>8 DEF BrowseEnds, RequestDies, Answered
  <2>2. dropped' \in BOOLEAN
    BY <1>8 DEF BrowseEnds, RequestDies, TypeOK, HistoryOK
  <2>3. faults' \in 0 .. MaxFaults /\ browses' = browses
    BY <1>8, FaultTyped DEF BrowseEnds, RequestDies, TypeOK, HistoryOK
  <2> QED
    BY <1>8, <2>1, <2>2, <2>3 DEF BrowseEnds, RequestDies, TypeOK, ProviderOK, RowOK, ActorsOK,
                                  WatchOK, HistoryOK, provider, credentials, subscriptions
<1> QED
  BY <1>1, <1>2, <1>3, <1>4, <1>5, <1>6, <1>7, <1>8 DEF RequestMoves, RequestStep

(* The steps of the event manager and of the provider's subscriptions.     *)
ManagerMoves ==
    \/ ManagerStep \/ ManagerRefreshes \/ ManagerDies
    \/ \E t \in Targets : TargetFails(t) \/ Nears(t) \/ Lapses(t)

LEMMA ManagerTyped ==
    ASSUME TypeOK, Bounded, ManagerMoves
    PROVE  TypeOK'
<1> USE Constants
<1>0. /\ manager \in Passes /\ row \in Rows /\ row.token \in Loaded
      /\ watch \in [Targets -> Subs] /\ upstream \in [Ids -> {"none", "fresh", "due", "lapsed"}]
  BY DEF TypeOK, ActorsOK, RowOK, WatchOK, Rows
<1>1. CASE PassBegins \/ AsksToken \/ TokenCurrent
  <2>1. manager' \in Passes
    BY <1>0, <1>1 DEF PassBegins, AsksToken, TokenCurrent, Passes
  <2> QED
    BY <1>1, <2>1 DEF PassBegins, AsksToken, TokenCurrent, TypeOK, ProviderOK, RowOK, ActorsOK,
                      WatchOK, HistoryOK, provider, credentials, subscriptions, history
<1>2. CASE ManagerRefreshes
  <2>1. ProviderOK' /\ issued' \in Loaded
    BY <1>2, Redeemed DEF ManagerRefreshes, TypeOK
  <2>2. manager' \in Passes
    BY <1>0, <1>2, <2>1 DEF ManagerRefreshes, Passes
  <2> QED
    BY <1>2, <2>1, <2>2 DEF ManagerRefreshes, TypeOK, RowOK, ActorsOK, WatchOK, HistoryOK,
                            credentials, subscriptions, history
<1>3. CASE ManagerSaves
  <2>1. manager' \in Passes
    BY <1>0, <1>3 DEF ManagerSaves, Passes
  <2>2. manager.base \in Rows /\ manager.token \in Loaded
    BY <1>0 DEF Passes
  <2>3. row' \in Rows /\ row'.token = manager.token
    BY <1>3, <2>2, MergedTyped DEF ManagerSaves
  <2>4. manager.token \in Tokens
    BY <1>3, BoundAssumption DEF ManagerSaves, Bounded, TypeOK, ProviderOK, Tokens
  <2> QED
    BY <1>3, <2>1, <2>3, <2>4 DEF ManagerSaves, TypeOK, ProviderOK, RowOK, ActorsOK,
                      WatchOK, HistoryOK, provider, subscriptions, history
<1>4. CASE PassCommits
  <2>1. manager' \in Passes /\ watch' \in [Targets -> Subs]
    BY <1>0, <1>4 DEF PassCommits, Passes
  <2> QED
    BY <1>4, <2>1 DEF PassCommits, TypeOK, ProviderOK, RowOK, ActorsOK, WatchOK, HistoryOK,
                      provider, credentials, history
<1>5. CASE ManagerDies
  <2>1. manager' \in Passes
    BY <1>0, <1>5 DEF ManagerDies, Passes
  <2>2. faults' \in 0 .. MaxFaults /\ browses' = browses
    BY <1>5, FaultTyped DEF ManagerDies, TypeOK
  <2>3. dropped' \in BOOLEAN
    BY <1>5 DEF ManagerDies, TypeOK, HistoryOK
  <2> QED
    BY <1>5, <2>1, <2>2, <2>3 DEF ManagerDies, TypeOK, ProviderOK, RowOK, ActorsOK, WatchOK,
                                  HistoryOK, provider, credentials, subscriptions
<1>6. ASSUME NEW t \in Targets, LeavesFresh(t) \/ RenewsNothing(t)
      PROVE  TypeOK'
  <2>1. manager' \in Passes
    BY <1>0, <1>6, DoneTyped DEF LeavesFresh, RenewsNothing
  <2> QED
    BY <1>6, <2>1 DEF LeavesFresh, RenewsNothing, TypeOK, ProviderOK, RowOK, ActorsOK,
                      WatchOK, HistoryOK, provider, credentials, subscriptions, history
<1>7. ASSUME NEW t \in Targets, Creates(t)
      PROVE  TypeOK'
  <2>1. PICK i \in Ids :
           /\ upstream' = [upstream EXCEPT ![i] = "fresh"]
           /\ manager' = [Done(t) EXCEPT !.draft[t] = [id |-> i, noted |-> TRUE]]
    BY <1>7 DEF Creates
  <2>2. [id |-> i, noted |-> TRUE] \in Subs
    BY DEF Subs
  <2>3. manager' \in Passes
    BY <1>0, <2>1, <2>2, DoneTyped DEF Passes
  <2> QED
    BY <1>0, <1>7, <2>1, <2>3 DEF Creates, TypeOK, ProviderOK, RowOK, ActorsOK,
                      WatchOK, HistoryOK, provider, credentials, history
<1>8. ASSUME NEW t \in Targets, Renews(t)
      PROVE  TypeOK'
  <2>1. manager' \in Passes
    <3>1. Done(t) \in Passes /\ Done(t).draft[t] \in Subs
      BY <1>0, DoneTyped DEF Passes
    <3>2. [Done(t).draft[t] EXCEPT !.noted = TRUE] \in Subs
      BY <3>1 DEF Subs
    <3>3. manager' = [Done(t) EXCEPT !.draft =
                         [@ EXCEPT ![t] = [Done(t).draft[t] EXCEPT !.noted = TRUE]]]
      BY <1>8, <3>1 DEF Renews, Passes
    <3> QED
      BY <3>1, <3>2, <3>3 DEF Passes
  <2>2. watch' \in [Targets -> Subs]
    BY <1>0, <1>8 DEF Renews, Subs
  <2>3. upstream' \in [Ids -> {"none", "fresh", "due", "lapsed"}]
    BY <1>0, <1>8 DEF Renews
  <2> QED
    BY <1>8, <2>1, <2>2, <2>3 DEF Renews, TypeOK, ProviderOK, RowOK, ActorsOK,
                      WatchOK, HistoryOK, provider, credentials, history
<1>9. ASSUME NEW t \in Targets, TargetFails(t)
      PROVE  TypeOK'
  <2>1. manager' \in Passes
    BY <1>0, <1>9, DoneTyped DEF TargetFails
  <2>2. faults' \in 0 .. MaxFaults /\ browses' = browses
    BY <1>9, FaultTyped DEF TargetFails, TypeOK, HistoryOK
  <2> QED
    BY <1>9, <2>1, <2>2 DEF TargetFails, TypeOK, ProviderOK, RowOK, ActorsOK,
                      WatchOK, HistoryOK, provider, credentials, subscriptions
<1>10. ASSUME NEW t \in Targets, Nears(t) \/ Lapses(t)
       PROVE  TypeOK'
  <2>1. upstream' \in [Ids -> {"none", "fresh", "due", "lapsed"}]
    BY <1>0, <1>10 DEF Nears, Lapses, Ages
  <2>2. lapsed' \subseteq Targets
    BY <1>10 DEF Nears, Lapses, TypeOK, WatchOK
  <2>3. faults' \in 0 .. MaxFaults /\ browses' = browses
    BY <1>10, FaultTyped DEF Nears, Lapses, TypeOK, HistoryOK
  <2> QED
    BY <1>10, <2>1, <2>2, <2>3 DEF Nears, Lapses, Ages, TypeOK, ProviderOK, RowOK, ActorsOK,
                      WatchOK, HistoryOK, provider, credentials
<1> QED
  BY <1>1, <1>2, <1>3, <1>4, <1>5, <1>6, <1>7, <1>8, <1>9, <1>10 DEF ManagerMoves, ManagerStep

(* The steps of the manager that ask for no token and store none.          *)
LEMMA ManagerRests ==
    ASSUME TypeOK, ManagerMoves, ~AsksToken, ~ManagerRefreshes, ~ManagerSaves
    PROVE  /\ UNCHANGED <<provider, credentials, sync, request, crossed>>
           /\ \/ UNCHANGED manager
              \/ /\ manager'.phase \notin {"asking", "rotated"}
                 /\ manager.phase = "rotated" => dropped'
           /\ dropped => dropped'
<1>0. manager \in Passes
  BY DEF TypeOK, ActorsOK
<1>1. CASE PassBegins \/ TokenCurrent \/ PassCommits
  <2>1. manager'.phase \in {"choosing", "ready", "resting"} /\ manager.phase # "rotated"
    BY <1>0, <1>1 DEF PassBegins, TokenCurrent, PassCommits, Passes
  <2> QED
    BY <1>1, <2>1 DEF PassBegins, TokenCurrent, PassCommits, history
<1>2. CASE ManagerDies
  BY <1>0, <1>2 DEF ManagerDies
<1>3. ASSUME NEW t \in Targets, LeavesFresh(t) \/ RenewsNothing(t) \/ TargetFails(t)
      PROVE  /\ UNCHANGED <<provider, credentials, sync, request, crossed>>
             /\ manager'.phase = "choosing" /\ manager.phase # "rotated"
             /\ dropped' = dropped
  BY <1>0, <1>3 DEF LeavesFresh, RenewsNothing, TargetFails, Done, Passes, history
<1>4. ASSUME NEW t \in Targets, Creates(t) \/ Renews(t)
      PROVE  /\ UNCHANGED <<provider, credentials, sync, request, crossed>>
             /\ manager'.phase = "choosing" /\ manager.phase # "rotated"
             /\ dropped' = dropped
  <2>1. Done(t) \in Passes /\ Done(t).phase = "choosing"
    BY <1>0, DoneTyped DEF Done, Passes
  <2> QED
    BY <1>4, <2>1 DEF Creates, Renews, Passes, history
<1>5. ASSUME NEW t \in Targets, Nears(t) \/ Lapses(t)
      PROVE  /\ UNCHANGED <<provider, credentials, sync, manager, request, crossed, dropped>>
  BY <1>5 DEF Nears, Lapses, Ages
<1> QED
  BY <1>1, <1>2, <1>3, <1>4, <1>5 DEF ManagerMoves, ManagerStep

(***************************************************************************)
(* Tokens stay bounded                                                     *)
(***************************************************************************)
LEMMA Grown ==
    ASSUME TypeOK, issued' = issued \/ issued' = issued + 1
    PROVE  \A t \in 1 .. issued : t \in 1 .. issued'
  BY BoundAssumption DEF TypeOK, ProviderOK, Tokens

LEMMA Newest ==
    ASSUME TypeOK, issued' = issued + 1
    PROVE  issued' \in 1 .. issued' /\ issued' \notin 1 .. issued
  BY BoundAssumption DEF TypeOK, ProviderOK, Tokens

LEMMA SyncBounded ==
    ASSUME TypeOK, Bounded, SyncStarts \/ SyncRefreshes \/ SyncCommits \/ SyncDies
    PROVE  Bounded'
<1>0. sync \in Crawls
  BY DEF TypeOK, ActorsOK
<1>1. CASE SyncStarts
  BY <1>0, <1>1 DEF SyncStarts, Bounded, provider, credentials, Crawls
<1>2. CASE SyncRefreshes
  <2>1. issued' = issued + 1
    BY <1>2 DEF SyncRefreshes, Redeem
  <2>2. sync'.phase = "crawling" /\ sync'.token = issued'
    BY <1>0, <1>2 DEF SyncRefreshes, Crawls
  <2>3. sync.base \in Rows /\ issued' \in Loaded
    BY <1>0, <1>2, Redeemed DEF SyncRefreshes, Crawls, TypeOK
  <2>4. pending'.token = sync'.token
    BY <1>2, <2>2, <2>3, MergedTyped DEF SyncRefreshes
  <2> QED
    BY <1>2, <2>1, <2>2, <2>4, Grown, Newest DEF SyncRefreshes, Bounded
<1>3. CASE SyncCommits
  BY <1>0, <1>3 DEF SyncCommits, Bounded, provider, Idle
<1>4. CASE SyncDies
  BY <1>0, <1>4 DEF SyncDies, Bounded, provider, Idle
<1> QED
  BY <1>1, <1>2, <1>3, <1>4

LEMMA RequestBounded ==
    ASSUME TypeOK, Bounded, NEW r \in Requests, RequestMoves(r)
    PROVE  Bounded'
<1>0. request \in [Requests -> Calls] /\ request[r] \in Calls
  BY DEF TypeOK, ActorsOK
<1>1. CASE StartLoads(r) \/ BrowseLoads(r)
  <2>1. /\ \/ request'[r].phase = "starting" /\ request'[r].base = row
           \/ request'[r].phase = "browsing" /\ request'[r].token = row.token
        /\ \A q \in Requests \ {r} : request'[q] = request[q]
    BY <1>0, <1>1 DEF StartLoads, BrowseLoads, Quiet
  <2> QED
    BY <1>1, <2>1 DEF StartLoads, BrowseLoads, Bounded, Loads, provider, credentials
<1>2. ASSUME NEW s \in 1 .. MaxStates, CallbackLoads(r, s)
      PROVE  Bounded'
  BY <1>0, <1>2 DEF CallbackLoads, Bounded, Loads, Quiet, provider, credentials
<1>3. CASE BrowseRefreshes(r)
  <2>1. issued' = issued + 1
    BY <1>3 DEF BrowseRefreshes, Redeem
  <2>2. /\ request'[r].phase = "listing"
        /\ \A q \in Requests \ {r} : request'[q] = request[q]
    BY <1>0, <1>3 DEF BrowseRefreshes, Calls
  <2> QED
    BY <1>3, <2>1, <2>2, Grown DEF BrowseRefreshes, Bounded, Loads, credentials
<1>4. CASE Exchanges(r)
  <2>1. issued' = issued + 1
    BY <1>4 DEF Exchanges
  <2>2. /\ request'[r].phase = "exchanged" /\ request'[r].token = issued'
        /\ \A q \in Requests \ {r} : request'[q] = request[q]
    BY <1>0, <1>4 DEF Exchanges, Quiet
  <2> QED
    BY <1>4, <2>1, <2>2, Grown, Newest DEF Exchanges, Bounded, Loads, credentials
<1>5. CASE Refused(r)
  <2>1. /\ request'[r].phase = "refused" /\ request'[r].base = request[r].base
        /\ \A q \in Requests \ {r} : request'[q] = request[q]
    BY <1>0, <1>5 DEF Refused, Calls
  <2> QED
    BY <1>5, <2>1 DEF Refused, Bounded, Loads, provider, credentials
<1>6. CASE RequestSaves(r)
  <2>1. /\ request'[r] = Quiet
        /\ \A q \in Requests \ {r} : request'[q] = request[q]
    BY <1>0, <1>6 DEF RequestSaves, Answered
  <2>2. row'.token \in 1 .. issued
    <3>1. request[r].base \in Rows
      BY <1>0 DEF Calls
    <3> QED
      BY <1>6, <3>1 DEF RequestSaves, Rewritten, Bounded, Loads, Rows
  <2> QED
    BY <1>6, <2>1, <2>2 DEF RequestSaves, Bounded, Loads, Quiet, provider
<1>7. CASE BrowseEnds(r) \/ RequestDies(r)
  <2>1. /\ request'[r] = Quiet
        /\ \A q \in Requests \ {r} : request'[q] = request[q]
    BY <1>0, <1>7 DEF BrowseEnds, RequestDies, Answered
  <2> QED
    BY <1>7, <2>1 DEF BrowseEnds, RequestDies, Bounded, Loads, Quiet, provider, credentials
<1> QED
  BY <1>1, <1>2, <1>3, <1>4, <1>5, <1>6, <1>7 DEF RequestMoves, RequestStep

LEMMA ManagerBounded ==
    ASSUME TypeOK, Bounded, ManagerMoves
    PROVE  Bounded'
<1>0. manager \in Passes
  BY DEF TypeOK, ActorsOK
<1>1. CASE AsksToken
  <2>1. manager'.phase = "asking" /\ manager'.base = row
    BY <1>0, <1>1 DEF AsksToken, Passes
  <2> QED
    BY <1>1, <2>1 DEF AsksToken, Bounded, provider, credentials
<1>2. CASE ManagerRefreshes
  <2>1. issued' = issued + 1
    BY <1>2 DEF ManagerRefreshes, Redeem
  <2>2. manager'.phase = "rotated" /\ manager'.token = issued'
    BY <1>0, <1>2 DEF ManagerRefreshes, Passes
  <2> QED
    BY <1>2, <2>1, <2>2, Grown, Newest DEF ManagerRefreshes, Bounded, Loads, credentials
<1>3. CASE ManagerSaves
  <2>1. manager.base \in Rows /\ manager.token \in Loaded /\ manager'.phase = "ready"
    BY <1>0, <1>3 DEF ManagerSaves, Passes
  <2>2. row'.token = manager.token
    BY <1>3, <2>1, MergedTyped DEF ManagerSaves
  <2> QED
    BY <1>3, <2>1, <2>2 DEF ManagerSaves, Bounded, provider
<1>4. CASE ~AsksToken /\ ~ManagerRefreshes /\ ~ManagerSaves
  BY <1>4, ManagerRests DEF Bounded, provider, credentials
<1> QED
  BY <1>1, <1>2, <1>3, <1>4

(***************************************************************************)
(* Successors on their way stay good and apart                             *)
(***************************************************************************)
Held(t) == BySync(t) \/ ByManager(t) \/ \E r \in Requests : ByRequest(r, t)

LEMMA LooseBounded ==
    ASSUME Bounded
    PROVE  \A t : Loose(t) \/ Held(t) => t \in 1 .. issued
  BY DEF Bounded, Loose, Held, BySync, ByManager, ByRequest, Loads

LEMMA TokensBounded ==
    ASSUME TypeOK
    PROVE  \A t \in 1 .. issued : t \in Tokens
  BY BoundAssumption DEF TypeOK, ProviderOK, Tokens

(* A step that gives nobody a new token keeps what is held apart if it     *)
(* keeps it good and looses no token that is still held.                   *)
LEMMA StillApart ==
    ASSUME Apart,
           \A t \in Tokens : BySync(t)' => BySync(t),
           \A t \in Tokens : ByManager(t)' => ByManager(t),
           \A r \in Requests, t \in Tokens : ByRequest(r, t)' => ByRequest(r, t),
           \A t \in Tokens : Held(t)' /\ t \in honoured /\ ~Loose(t)
                => t \in honoured' /\ ~Loose(t)'
    PROVE  Apart'
<1>1. \A t \in Tokens : Held(t)' => t \in honoured' /\ ~Loose(t)'
  BY DEF Apart, Held
<1>2. \A t \in Tokens : BySync(t)' \/ ByManager(t)' => Held(t)'
  BY DEF Held
<1>3. \A r \in Requests, t \in Tokens : ByRequest(r, t)' => Held(t)'
  BY DEF Held
<1>4. \A t \in Tokens : BySync(t)' => t \in honoured' /\ ~Loose(t)' /\ ~ByManager(t)'
  BY <1>1, <1>2 DEF Apart
<1>5. \A t \in Tokens : ByManager(t)' => t \in honoured' /\ ~Loose(t)'
  BY <1>1, <1>2
<1>6. ASSUME NEW r \in Requests, NEW t \in Tokens, ByRequest(r, t)'
      PROVE  /\ t \in honoured' /\ ~Loose(t)' /\ ~BySync(t)' /\ ~ByManager(t)'
             /\ \A q \in Requests : ByRequest(q, t)' => q = r
  BY <1>1, <1>3, <1>6 DEF Apart
<1> QED
  BY <1>4, <1>5, <1>6 DEF Apart

LEMMA SyncApart ==
    ASSUME TypeOK, Bounded, Apart, SyncStarts \/ SyncRefreshes \/ SyncCommits \/ SyncDies
    PROVE  Apart'
<1>0. sync \in Crawls
  BY DEF TypeOK, ActorsOK
<1>1. CASE SyncStarts
  <2>1. sync'.token = row.token /\ ~writer
    BY <1>1 DEF SyncStarts, Bounded
  <2>2. \A t \in Tokens : Loose(t)' => Loose(t)
    BY <1>1, <2>1 DEF SyncStarts, Loose, credentials
  <2>3. /\ \A t \in Tokens : (BySync(t)' => BySync(t)) /\ (ByManager(t)' => ByManager(t))
        /\ \A r \in Requests, t \in Tokens : ByRequest(r, t)' => ByRequest(r, t)
    BY <1>1, <2>1 DEF SyncStarts, BySync, ByManager, ByRequest, credentials
  <2>4. honoured' = honoured
    BY <1>1 DEF SyncStarts, provider
  <2> QED
    BY <2>2, <2>3, <2>4, StillApart
<1>2. CASE SyncRefreshes
  <2>1. issued' = issued + 1 /\ honoured' = (honoured \ {sync.token}) \union {issued'}
    BY <1>2 DEF SyncRefreshes, Redeem
  <2>2. writer' /\ sync'.token = issued'
    BY <1>0, <1>2 DEF SyncRefreshes, Crawls
  <2>3. \A t \in Tokens : Loose(t)' => Loose(t)
    BY <1>2, <2>2 DEF SyncRefreshes, Loose
  <2>4. \A t \in Tokens : /\ BySync(t)' <=> t = issued'
                          /\ ByManager(t)' <=> ByManager(t)
                          /\ \A r \in Requests : ByRequest(r, t)' <=> ByRequest(r, t)
    BY <1>2, <2>2 DEF SyncRefreshes, BySync, ByManager, ByRequest
  <2>5. sync.token \in Tokens /\ (BySync(sync.token) \/ Loose(sync.token))
    BY <1>2, TokensBounded DEF SyncRefreshes, Bounded, BySync, Loose
  <2>6. \A t \in Tokens : ByManager(t) => t # sync.token /\ t # issued'
    BY <2>1, <2>5, LooseBounded, Newest DEF Apart, Held
  <2>7. \A r \in Requests, t \in Tokens : ByRequest(r, t) => t # sync.token /\ t # issued'
    BY <2>1, <2>5, LooseBounded, Newest DEF Apart, Held
  <2>8. ~Loose(issued')
    BY <2>1, LooseBounded, Newest
  <2>9. issued' \in Tokens
    BY <1>2, Redeemed DEF SyncRefreshes, TypeOK
  <2> QED
    BY <2>1, <2>3, <2>4, <2>6, <2>7, <2>8, <2>9 DEF Apart
<1>3. CASE SyncCommits
  <2>1. sync'.phase = "idle" /\ ~writer' /\ (IF writer THEN row'.token = sync.token ELSE row' = row)
    BY <1>3 DEF SyncCommits, Idle, Bounded
  <2>2. \A t \in Tokens : Loose(t)' => Loose(t) \/ BySync(t)
    BY <1>3, <2>1 DEF SyncCommits, Loose, BySync
  <2>3. /\ \A t \in Tokens : ~BySync(t)' /\ (ByManager(t)' => ByManager(t))
        /\ \A r \in Requests, t \in Tokens : ByRequest(r, t)' => ByRequest(r, t)
    BY <1>3, <2>1 DEF SyncCommits, BySync, ByManager, ByRequest
  <2>4. honoured' = honoured
    BY <1>3 DEF SyncCommits, provider
  <2>5. \A t \in Tokens : Held(t)' => ~BySync(t)
    BY <2>3 DEF Apart, Held
  <2> QED
    BY <2>2, <2>3, <2>4, <2>5, StillApart
<1>4. CASE SyncDies
  <2>1. sync'.phase = "idle" /\ ~writer'
    BY <1>4 DEF SyncDies, Idle
  <2>2. \A t \in Tokens : Loose(t)' => Loose(t)
    BY <1>4, <2>1 DEF SyncDies, Loose
  <2>3. /\ \A t \in Tokens : (BySync(t)' => BySync(t)) /\ (ByManager(t)' => ByManager(t))
        /\ \A r \in Requests, t \in Tokens : ByRequest(r, t)' => ByRequest(r, t)
    BY <1>4, <2>1 DEF SyncDies, BySync, ByManager, ByRequest
  <2>4. honoured' = honoured
    BY <1>4 DEF SyncDies, provider
  <2> QED
    BY <2>2, <2>3, <2>4, StillApart
<1> QED
  BY <1>1, <1>2, <1>3, <1>4

LEMMA ManagerApart ==
    ASSUME TypeOK, Bounded, Apart, ManagerMoves
    PROVE  Apart'
<1>0. manager \in Passes
  BY DEF TypeOK, ActorsOK
<1>1. CASE AsksToken
  <2>1. manager'.phase = "asking" /\ manager'.base = row
    BY <1>0, <1>1 DEF AsksToken, Passes
  <2>2. \A t \in Tokens : Loose(t)' => Loose(t)
    BY <1>1, <2>1 DEF AsksToken, Loose, credentials
  <2>3. /\ \A t \in Tokens : (BySync(t)' => BySync(t)) /\ (ByManager(t)' => ByManager(t))
        /\ \A r \in Requests, t \in Tokens : ByRequest(r, t)' => ByRequest(r, t)
    BY <1>1, <2>1 DEF AsksToken, BySync, ByManager, ByRequest, credentials
  <2>4. honoured' = honoured
    BY <1>1 DEF AsksToken, provider
  <2> QED
    BY <2>2, <2>3, <2>4, StillApart
<1>2. CASE ManagerRefreshes
  <2>1. /\ issued' = issued + 1
        /\ honoured' = (honoured \ {manager.base.token}) \union {issued'}
    BY <1>2 DEF ManagerRefreshes, Redeem
  <2>2. manager'.phase = "rotated" /\ manager'.token = issued'
    BY <1>0, <1>2 DEF ManagerRefreshes, Passes
  <2>3. \A t \in Tokens : Loose(t)' => Loose(t)
    BY <1>2, <2>2 DEF ManagerRefreshes, Loose, credentials
  <2>4. \A t \in Tokens : /\ BySync(t)' <=> BySync(t)
                          /\ ByManager(t)' <=> t = issued'
                          /\ \A r \in Requests : ByRequest(r, t)' <=> ByRequest(r, t)
    BY <1>2, <2>2 DEF ManagerRefreshes, BySync, ByManager, ByRequest, credentials
  <2>5. manager.base.token \in Tokens /\ Loose(manager.base.token)
    BY <1>2, TokensBounded DEF ManagerRefreshes, Bounded, Loose
  <2>6. \A t \in Tokens : BySync(t) => t # manager.base.token /\ t # issued'
    BY <2>1, <2>5, LooseBounded, Newest DEF Apart, Held
  <2>7. \A r \in Requests, t \in Tokens :
            ByRequest(r, t) => t # manager.base.token /\ t # issued'
    BY <2>1, <2>5, LooseBounded, Newest DEF Apart, Held
  <2>8. ~Loose(issued')
    BY <2>1, LooseBounded, Newest
  <2>9. issued' \in Tokens
    BY <1>2, Redeemed DEF ManagerRefreshes, TypeOK
  <2> QED
    BY <2>1, <2>3, <2>4, <2>6, <2>7, <2>8, <2>9 DEF Apart
<1>3. CASE ManagerSaves
  <2>1. manager.base \in Rows /\ manager.token \in Loaded /\ manager'.phase = "ready"
    BY <1>0, <1>3 DEF ManagerSaves, Passes
  <2>2. row'.token = manager.token
    BY <1>3, <2>1, MergedTyped DEF ManagerSaves
  <2>3. \A t \in Tokens : Loose(t)' => Loose(t) \/ ByManager(t)
    BY <1>3, <2>1, <2>2 DEF ManagerSaves, Loose, ByManager
  <2>4. /\ \A t \in Tokens : (BySync(t)' => BySync(t)) /\ ~ByManager(t)'
        /\ \A r \in Requests, t \in Tokens : ByRequest(r, t)' => ByRequest(r, t)
    BY <1>3, <2>1 DEF ManagerSaves, BySync, ByManager, ByRequest
  <2>5. honoured' = honoured
    BY <1>3 DEF ManagerSaves, provider
  <2>6. \A t \in Tokens : Held(t)' => ~ByManager(t)
    BY <2>4 DEF Apart, Held
  <2> QED
    BY <2>3, <2>4, <2>5, <2>6, StillApart
<1>4. CASE ~AsksToken /\ ~ManagerRefreshes /\ ~ManagerSaves
  <2>1. /\ honoured' = honoured /\ UNCHANGED <<credentials, sync, request>>
        /\ UNCHANGED manager \/ manager'.phase \notin {"asking", "rotated"}
    BY <1>4, ManagerRests DEF provider
  <2>2. \A t \in Tokens : Loose(t)' => Loose(t)
    BY <2>1 DEF Loose, credentials
  <2>3. /\ \A t \in Tokens : (BySync(t)' => BySync(t)) /\ (ByManager(t)' => ByManager(t))
        /\ \A r \in Requests, t \in Tokens : ByRequest(r, t)' => ByRequest(r, t)
    BY <2>1 DEF BySync, ByManager, ByRequest, credentials
  <2> QED
    BY <2>1, <2>2, <2>3, StillApart
<1> QED
  BY <1>1, <1>2, <1>3, <1>4

LEMMA RequestApart ==
    ASSUME TypeOK, Bounded, Apart, NEW r \in Requests, RequestMoves(r)
    PROVE  Apart'
<1>0. request \in [Requests -> Calls] /\ request[r] \in Calls
  BY DEF TypeOK, ActorsOK
<1> DEFINE Same == \A q \in Requests \ {r} : request'[q] = request[q]
<1>1. CASE StartLoads(r) \/ BrowseLoads(r)
  <2>1. /\ \/ request'[r].phase = "starting" /\ request'[r].base = row
           \/ request'[r].phase = "browsing" /\ request'[r].token = row.token
        /\ Same
    BY <1>0, <1>1 DEF StartLoads, BrowseLoads, Quiet
  <2>2. honoured' = honoured /\ UNCHANGED <<credentials, sync, manager>>
    BY <1>1 DEF StartLoads, BrowseLoads, provider
  <2>3. \A t \in Tokens : Loose(t)' => Loose(t)
    BY <2>1, <2>2 DEF Loose, Loads, credentials
  <2>4. /\ \A t \in Tokens : (BySync(t)' => BySync(t)) /\ (ByManager(t)' => ByManager(t))
        /\ \A q \in Requests, t \in Tokens : ByRequest(q, t)' => ByRequest(q, t)
    BY <2>1, <2>2 DEF BySync, ByManager, ByRequest, credentials
  <2> QED
    BY <2>2, <2>3, <2>4, StillApart
<1>2. ASSUME NEW s \in 1 .. MaxStates, CallbackLoads(r, s)
      PROVE  Apart'
  <2>1. request'[r].phase = "exchanging" /\ request'[r].base = row /\ Same
    BY <1>0, <1>2 DEF CallbackLoads, Quiet
  <2>2. honoured' = honoured /\ UNCHANGED <<credentials, sync, manager>>
    BY <1>2 DEF CallbackLoads, provider
  <2>3. \A t \in Tokens : Loose(t)' => Loose(t)
    BY <2>1, <2>2 DEF Loose, Loads, credentials
  <2>4. /\ \A t \in Tokens : (BySync(t)' => BySync(t)) /\ (ByManager(t)' => ByManager(t))
        /\ \A q \in Requests, t \in Tokens : ByRequest(q, t)' => ByRequest(q, t)
    BY <2>1, <2>2 DEF BySync, ByManager, ByRequest, credentials
  <2> QED
    BY <2>2, <2>3, <2>4, StillApart
<1>3. CASE BrowseRefreshes(r)
  <2>1. request'[r].phase = "listing" /\ Same
    BY <1>0, <1>3 DEF BrowseRefreshes, Calls
  <2>2. /\ issued' = issued + 1
        /\ honoured' = (honoured \ {request[r].token}) \union {issued'}
        /\ UNCHANGED <<credentials, sync, manager>>
    BY <1>3 DEF BrowseRefreshes, Redeem
  <2>3. \A t \in Tokens : Loose(t)' => Loose(t)
    BY <2>1, <2>2 DEF Loose, Loads, credentials
  <2>4. /\ \A t \in Tokens : (BySync(t)' => BySync(t)) /\ (ByManager(t)' => ByManager(t))
        /\ \A q \in Requests, t \in Tokens : ByRequest(q, t)' => ByRequest(q, t)
    BY <2>1, <2>2 DEF BySync, ByManager, ByRequest, credentials
  <2>5. Loose(request[r].token)
    BY <1>3 DEF BrowseRefreshes, Loose
  <2>6. \A t \in Tokens : t \in honoured /\ ~Loose(t) => t \in honoured' /\ ~Loose(t)'
    BY <2>2, <2>3, <2>5
  <2> QED
    BY <2>4, <2>6, StillApart
<1>4. CASE Exchanges(r)
  <2>1. request'[r].phase = "exchanged" /\ request'[r].token = issued' /\ Same
    BY <1>0, <1>4 DEF Exchanges, Quiet
  <2>2. /\ issued' = issued + 1 /\ honoured' = honoured \union {issued'}
        /\ UNCHANGED <<credentials, sync, manager>>
    BY <1>4 DEF Exchanges
  <2>3. \A t \in Tokens : Loose(t)' => Loose(t)
    BY <2>1, <2>2 DEF Loose, Loads, credentials
  <2>4. /\ \A t \in Tokens : (BySync(t)' <=> BySync(t)) /\ (ByManager(t)' <=> ByManager(t))
        /\ \A q \in Requests \ {r}, t \in Tokens : ByRequest(q, t)' <=> ByRequest(q, t)
        /\ \A t \in Tokens : ByRequest(r, t)' <=> t = issued'
    BY <2>1, <2>2 DEF BySync, ByManager, ByRequest, credentials
  <2>5. \A t \in Tokens : Loose(t) \/ BySync(t) \/ ByManager(t) => t # issued'
    BY <2>2, LooseBounded, Newest DEF Held
  <2>6. \A q \in Requests, t \in Tokens : ByRequest(q, t) => t # issued'
    BY <2>2, LooseBounded, Newest DEF Held
  <2> QED
    BY <2>2, <2>3, <2>4, <2>5, <2>6 DEF Apart
<1>5. CASE Refused(r)
  <2>1. /\ request[r].phase = "exchanging" /\ request'[r].phase = "refused"
        /\ request'[r].base = request[r].base /\ Same
    BY <1>0, <1>5 DEF Refused, Calls
  <2>2. honoured' = honoured /\ UNCHANGED <<credentials, sync, manager>>
    BY <1>5 DEF Refused, provider
  <2>3. \A t \in Tokens : Loose(t)' => Loose(t)
    BY <2>1, <2>2 DEF Loose, Loads, credentials
  <2>4. /\ \A t \in Tokens : (BySync(t)' => BySync(t)) /\ (ByManager(t)' => ByManager(t))
        /\ \A q \in Requests, t \in Tokens : ByRequest(q, t)' => ByRequest(q, t)
    BY <2>1, <2>2 DEF BySync, ByManager, ByRequest, credentials
  <2> QED
    BY <2>2, <2>3, <2>4, StillApart
<1>6. CASE RequestSaves(r)
  <2>1. request'[r] = Quiet /\ Same
    BY <1>0, <1>6 DEF RequestSaves, Answered
  <2>2. honoured' = honoured /\ UNCHANGED <<writer, pending, sync, manager>>
    BY <1>6 DEF RequestSaves, provider
  <2>3. \A t \in Tokens : (BySync(t)' => BySync(t)) /\ (ByManager(t)' => ByManager(t))
    BY <2>2 DEF BySync, ByManager
  <2>4. \A q \in Requests, t \in Tokens : ByRequest(q, t)' => ByRequest(q, t) /\ q # r
    BY <2>1 DEF ByRequest, Quiet
  <2>5. \A t \in Tokens : Loose(t)' => Loose(t) \/ ByRequest(r, t)
    <3>1. Loose(row'.token) \/ ByRequest(r, row'.token)
      <4>1. request[r].base \in Rows
        BY <1>0 DEF Calls
      <4> QED
        BY <1>6, <4>1 DEF RequestSaves, Rewritten, Loose, ByRequest, Loads, Rows
    <3>2. \A t \in Tokens : Loose(t)' => Loose(t) \/ t = row'.token
      BY <2>1, <2>2 DEF Loose, Loads, Quiet
    <3> QED
      BY <3>1, <3>2
  <2>6. \A t \in Tokens : Held(t)' => ~ByRequest(r, t)
    BY <2>3, <2>4 DEF Apart, Held
  <2> QED
    BY <2>2, <2>3, <2>4, <2>5, <2>6, StillApart
<1>7. CASE BrowseEnds(r) \/ RequestDies(r)
  <2>1. request'[r] = Quiet /\ Same
    BY <1>0, <1>7 DEF BrowseEnds, RequestDies, Answered
  <2>2. honoured' = honoured /\ UNCHANGED <<credentials, sync, manager>>
    BY <1>7 DEF BrowseEnds, RequestDies, provider
  <2>3. \A t \in Tokens : Loose(t)' => Loose(t)
    BY <2>1, <2>2 DEF Loose, Loads, Quiet, credentials
  <2>4. /\ \A t \in Tokens : (BySync(t)' => BySync(t)) /\ (ByManager(t)' => ByManager(t))
        /\ \A q \in Requests, t \in Tokens : ByRequest(q, t)' => ByRequest(q, t)
    BY <2>1, <2>2 DEF BySync, ByManager, ByRequest, Quiet, credentials
  <2> QED
    BY <2>2, <2>3, <2>4, StillApart
<1> QED
  BY <1>1, <1>2, <1>3, <1>4, <1>5, <1>6, <1>7 DEF RequestMoves, RequestStep

(***************************************************************************)
(* The stored token is good, or its successor is on its way                *)
(***************************************************************************)
LEMMA KeptBy ==
    /\ row'.token \in honoured' => Kept'
    /\ writer' /\ sync'.token \in honoured' => Kept'
    /\ manager'.phase = "rotated" /\ manager'.token \in honoured' => Kept'
    /\ \A r \in Requests :
          request'[r].phase = "listing" /\ request'[r].token \in honoured' => Kept'
  BY DEF Kept, InHand

LEMMA KeptFrame ==
    ASSUME Kept, honoured \subseteq honoured', row'.token = row.token,
           writer => writer' /\ sync'.token = sync.token,
           manager.phase = "rotated" => manager'.phase = "rotated" /\ manager'.token = manager.token,
           \A r \in Requests : request[r].phase = "listing"
                => request'[r].phase = "listing" /\ request'[r].token = request[r].token
    PROVE  Kept'
<1>1. PICK t \in honoured : t = row.token \/ t \in InHand
  BY DEF Kept
<1>2. CASE t = row.token
  BY <1>1, <1>2 DEF Kept
<1>3. CASE writer /\ t = sync.token
  BY <1>1, <1>3 DEF Kept, InHand
<1>4. CASE manager.phase = "rotated" /\ t = manager.token
  BY <1>1, <1>4 DEF Kept, InHand
<1>5. ASSUME NEW r \in Requests, request[r].phase = "listing", t = request[r].token
      PROVE  Kept'
  BY <1>1, <1>5 DEF Kept, InHand
<1> QED
  BY <1>1, <1>2, <1>3, <1>4, <1>5 DEF InHand

LEMMA SyncKept ==
    ASSUME TypeOK, Bounded, Apart, UncrossedKept,
           SyncStarts \/ SyncRefreshes \/ SyncCommits \/ SyncDies
    PROVE  UncrossedKept'
<1>0. sync \in Crawls
  BY DEF TypeOK, ActorsOK
<1>1. CASE SyncStarts
  <2>1. ~writer
    BY <1>1 DEF SyncStarts, Bounded
  <2>2. Kept => Kept'
    BY <1>1, <2>1, KeptFrame DEF SyncStarts, provider, credentials
  <2> QED
    BY <1>1, <2>2 DEF SyncStarts, UncrossedKept, history
<1>2. CASE SyncRefreshes
  <2>1. sync'.token = issued' /\ writer'
    BY <1>0, <1>2 DEF SyncRefreshes, Crawls
  <2>2. issued' \in honoured'
    BY <1>2 DEF SyncRefreshes, Redeem
  <2> QED
    BY <2>1, <2>2, KeptBy DEF UncrossedKept
<1>3. CASE SyncCommits /\ writer
  <2>1. BySync(sync.token) /\ sync.token \in Tokens
    BY <1>3, TokensBounded DEF BySync, Bounded
  <2>2. row'.token = sync.token /\ honoured' = honoured
    BY <1>3 DEF SyncCommits, Bounded, provider
  <2> QED
    BY <2>1, <2>2, KeptBy DEF Apart, UncrossedKept
<1>4. CASE SyncCommits /\ ~writer
  <2>1. Kept => Kept'
    BY <1>4, KeptFrame DEF SyncCommits, provider
  <2> QED
    BY <1>4, <2>1 DEF SyncCommits, UncrossedKept, history
<1>5. CASE SyncDies
  <2>1. ~writer /\ Kept => Kept'
    BY <1>5, KeptFrame DEF SyncDies, provider
  <2> QED
    BY <1>5, <2>1 DEF SyncDies, UncrossedKept
<1> QED
  BY <1>1, <1>2, <1>3, <1>4, <1>5

LEMMA RequestKept ==
    ASSUME TypeOK, Bounded, Apart, UncrossedKept, NEW r \in Requests, RequestMoves(r)
    PROVE  UncrossedKept'
<1>0. request \in [Requests -> Calls] /\ request[r] \in Calls
  BY DEF TypeOK, ActorsOK
<1>1. CASE BrowseRefreshes(r)
  <2>1. request'[r].phase = "listing" /\ request'[r].token = issued'
    BY <1>0, <1>1 DEF BrowseRefreshes, Calls
  <2>2. issued' \in honoured'
    BY <1>1 DEF BrowseRefreshes, Redeem
  <2> QED
    BY <2>1, <2>2, KeptBy DEF UncrossedKept
<1>2. CASE RequestSaves(r) /\ request[r].phase = "exchanged"
  <2>1. row'.token = request[r].token /\ honoured' = honoured
    BY <1>2 DEF RequestSaves, Rewritten, provider
  <2>2. ByRequest(r, request[r].token) /\ request[r].token \in Tokens
    BY <1>2, TokensBounded DEF ByRequest, Bounded
  <2> QED
    BY <2>1, <2>2, KeptBy DEF Apart, UncrossedKept
<1>3. CASE RequestSaves(r) /\ request[r].phase # "exchanged"
  <2>1. row'.token = request[r].base.token
    <3>1. request[r].base \in Rows
      BY <1>0 DEF Calls
    <3> QED
      BY <1>3, <3>1 DEF RequestSaves, Rewritten, Rows
  <2>2. CASE request[r].base.token # row.token
    BY <1>3, <2>2 DEF RequestSaves, UncrossedKept
  <2>3. CASE request[r].base.token = row.token
    <3>1. \A q \in Requests : request[q].phase = "listing" => request'[q] = request[q]
      BY <1>0, <1>3 DEF RequestSaves, Answered
    <3>2. Kept => Kept'
      BY <1>3, <2>1, <2>3, <3>1, KeptFrame DEF RequestSaves, provider
    <3> QED
      BY <1>3, <3>2 DEF RequestSaves, UncrossedKept
  <2> QED
    BY <2>2, <2>3
<1>4. CASE BrowseEnds(r) /\ request[r].phase = "listing"
  BY <1>4 DEF BrowseEnds, UncrossedKept
<1>5. ASSUME honoured \subseteq honoured', UNCHANGED <<credentials, sync, manager>>,
             request[r].phase # "listing", \A q \in Requests \ {r} : request'[q] = request[q],
             dropped => dropped', crossed => crossed'
      PROVE  UncrossedKept'
  <2>1. \A q \in Requests : request[q].phase = "listing" => request'[q] = request[q]
    BY <1>5
  <2>2. Kept => Kept'
    BY <1>5, <2>1, KeptFrame DEF credentials
  <2> QED
    BY <1>5, <2>2 DEF UncrossedKept
<1>6. CASE StartLoads(r)
  BY <1>0, <1>5, <1>6 DEF StartLoads, provider, history
<1>7. ASSUME NEW s \in 1 .. MaxStates, CallbackLoads(r, s)
      PROVE  UncrossedKept'
  BY <1>0, <1>5, <1>7 DEF CallbackLoads, provider, history
<1>8. CASE BrowseLoads(r)
  BY <1>0, <1>5, <1>8 DEF BrowseLoads, provider
<1>9. CASE Exchanges(r)
  BY <1>0, <1>5, <1>9 DEF Exchanges, history
<1>10. CASE Refused(r)
  BY <1>0, <1>5, <1>10 DEF Refused, provider, history
<1>11. CASE RequestDies(r)
  BY <1>0, <1>5, <1>11 DEF RequestDies, Answered, provider
<1>12. CASE BrowseEnds(r) /\ request[r].phase # "listing"
  BY <1>0, <1>5, <1>12 DEF BrowseEnds, Answered, provider
<1> QED
  BY <1>1, <1>2, <1>3, <1>4, <1>6, <1>7, <1>8, <1>9, <1>10, <1>11, <1>12
  DEF RequestMoves, RequestStep

LEMMA ManagerKept ==
    ASSUME TypeOK, Bounded, Apart, UncrossedKept, ManagerMoves
    PROVE  UncrossedKept'
<1>0. manager \in Passes
  BY DEF TypeOK, ActorsOK
<1>1. CASE AsksToken
  <2>1. Kept => Kept'
    BY <1>1, KeptFrame DEF AsksToken, provider, credentials
  <2> QED
    BY <1>1, <2>1 DEF AsksToken, UncrossedKept, history
<1>2. CASE ManagerRefreshes
  <2>1. manager'.phase = "rotated" /\ manager'.token = issued'
    BY <1>0, <1>2 DEF ManagerRefreshes, Passes
  <2>2. issued' \in honoured'
    BY <1>2 DEF ManagerRefreshes, Redeem
  <2> QED
    BY <2>1, <2>2, KeptBy DEF UncrossedKept
<1>3. CASE ManagerSaves
  <2>1. manager.base \in Rows /\ manager.token \in Loaded
    BY <1>0 DEF Passes
  <2>2. row'.token = manager.token /\ honoured' = honoured
    BY <1>3, <2>1, MergedTyped DEF ManagerSaves, provider
  <2>3. ByManager(manager.token) /\ manager.token \in Tokens
    BY <1>3, TokensBounded DEF ManagerSaves, ByManager, Bounded
  <2> QED
    BY <2>2, <2>3, KeptBy DEF Apart, UncrossedKept
<1>4. CASE ~AsksToken /\ ~ManagerRefreshes /\ ~ManagerSaves
  <2>1. /\ UNCHANGED <<provider, credentials, sync, request, crossed>>
        /\ \/ UNCHANGED manager
           \/ manager.phase = "rotated" => dropped'
        /\ dropped => dropped'
    BY <1>4, ManagerRests
  <2>2. Kept /\ ~dropped' => Kept'
    BY <2>1, KeptFrame DEF provider, credentials
  <2> QED
    BY <2>1, <2>2 DEF UncrossedKept
<1> QED
  BY <1>1, <1>2, <1>3, <1>4

(***************************************************************************)
(* The theorems                                                            *)
(***************************************************************************)
LEMMA InitInv == Init => IInv
<1> SUFFICES ASSUME Init PROVE IInv
  OBVIOUS
<1> USE Constants
<1>0. 1 \in Tokens /\ 1 \in 1 .. issued /\ 1 \in Loaded /\ 0 \in 0 .. MaxFaults /\ 0 \in 0 .. MaxBrowses
  BY BoundAssumption DEF Init, Tokens, Loaded
<1>1. ProviderOK
  BY <1>0 DEF Init, ProviderOK
<1>2. RowOK
  BY <1>0 DEF Init, RowOK, Rows
<1>3. ActorsOK
  <2>1. manager \in Passes
    BY DEF Init, Passes
  <2> QED
    BY <2>1 DEF Init, ActorsOK
<1>4. WatchOK /\ HistoryOK
  BY <1>0 DEF Init, WatchOK, HistoryOK
<1>5. Bounded
  BY <1>0 DEF Init, Bounded, Loads, Idle, Quiet
<1>6. Apart
  BY DEF Init, Apart, BySync, ByManager, ByRequest, Quiet
<1>7. UncrossedKept
  BY DEF Init, UncrossedKept, Kept
<1> QED
  BY <1>1, <1>2, <1>3, <1>4, <1>5, <1>6, <1>7 DEF IInv, TypeOK

LEMMA NextInv == IInv /\ [Next]_vars => IInv'
<1> SUFFICES ASSUME IInv, [Next]_vars PROVE IInv'
  OBVIOUS
<1> USE DEF IInv
<1>1. CASE SyncStarts \/ SyncRefreshes \/ SyncCommits \/ SyncDies
  BY <1>1, SyncTyped, SyncBounded, SyncApart, SyncKept
<1>2. ASSUME NEW r \in Requests, RequestMoves(r)
      PROVE  IInv'
  BY <1>2, RequestTyped, RequestBounded, RequestApart, RequestKept
<1>3. CASE ManagerMoves
  BY <1>3, ManagerTyped, ManagerBounded, ManagerApart, ManagerKept
<1>4. CASE UNCHANGED vars
  <2>1. TypeOK'
    BY <1>4 DEF TypeOK, ProviderOK, RowOK, ActorsOK, WatchOK, HistoryOK, vars, provider,
                credentials, subscriptions, history
  <2>2. Bounded'
    BY <1>4 DEF Bounded, vars, provider, credentials
  <2>3. Apart'
    BY <1>4 DEF Apart, Loose, BySync, ByManager, ByRequest, vars, provider, credentials
  <2>4. UncrossedKept'
    BY <1>4 DEF UncrossedKept, Kept, InHand, vars, provider, credentials, history
  <2> QED
    BY <2>1, <2>2, <2>3, <2>4
<1> QED
  BY <1>1, <1>2, <1>3, <1>4 DEF Next, RequestMoves, ManagerMoves

LEMMA Inductive == Spec => []IInv
<1> QED
  BY InitInv, NextInv, PTL DEF Spec

(* Rows, actors, subscriptions and counts keep to their types.             *)
THEOREM TypeCorrect == Spec => []TypeOK
<1>1. IInv => TypeOK
  BY DEF IInv
<1> QED
  BY Inductive, <1>1, PTL

(* pipeline/runner.py:2533 a rotation strands no connection: however many  *)
(* requests authorize, browse or refresh at once, the stored token is good *)
(* or its successor is held by somebody who has yet to store it, unless it *)
(* was dropped or overwritten.                                             *)
THEOREM TokenKept == Spec => []UncrossedKept
<1>1. IInv => UncrossedKept
  BY DEF IInv
<1> QED
  BY Inductive, <1>1, PTL
=============================================================================
