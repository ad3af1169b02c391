----------------------------- MODULE Retrieval -----------------------------
(***************************************************************************)
(* One request of one caller while the database goes on changing: a search *)
(* over the index, the export of an original (which issues a link) and the *)
(* fetch of a link.  A request runs under READ COMMITTED: every statement  *)
(* of it sees what was committed by then, and those that read grants,      *)
(* memberships, observations or the index are steps of their own.  The     *)
(* index holds the document and project of a version as they were when the *)
(* index stage last ran on it.                                             *)
(*                                                                         *)
(* Ranking is abstracted to a choice: any hit of a document may be the one *)
(* that stands for it, and the window is never full.                       *)
(***************************************************************************)
EXTENDS AccessScope

CONSTANTS
    Callers,            \* sets of principals a caller may come with
    StartWorlds,        \* databases a behaviour may start from
    Grantees,           \* principals the operator grants to or denies
    MirroredAcls,       \* ACLs the source may report for an object
    Memberships,        \* group memberships the sources may report
    MaxEvents           \* bound: requests, and commits of others

ASSUME CallersAssumption == Callers \subseteq SUBSET Principals /\ Grantees \subseteq Principals
ASSUME StartAssumption == StartWorlds \subseteq Worlds
ASSUME ReportsAssumption == MirroredAcls \subseteq Acls
                            /\ Memberships \subseteq SUBSET (Principals \X Groups)
ASSUME BoundAssumption == MaxEvents \in Nat

VARIABLES
    w,          \* the committed database
    index,      \* the row of each version in the index
    req,        \* the request in hand
    links,      \* DownloadTokenStore: capabilities that were issued
    since,      \* history: what held at some moment, or all along, of the request
    changes, requests

vars == <<w, index, req, links, since, changes, requests>>

NoRow == [doc |-> "none", project |-> NoProject]
Links == [caller : Callers, version : Versions, object : Objects]

(* A document row exists as long as it has a version.                      *)
Existing(x, d) == \E v \in Versions : x.doc[v] = d

NoRequest == [kind |-> "none", phase |-> "idle", caller |-> {}, asked |-> NoProject,
              objects |-> {}, ps |-> {}, found |-> {},
              scope |-> [projects |-> {}, documents |-> {}], rows |-> {}, warm |-> <<>>,
              authorized |-> {}, sources |-> {}, grants |-> <<>>,
              link |-> {}, answer |-> {}]
NotYet == [readable |-> {}, shown |-> {}, steady |-> {}, mixed |-> FALSE]

Init ==
    /\ w \in StartWorlds
    /\ index = [v \in Versions |-> Row(w, v)]
    /\ req = NoRequest /\ since = NotYet
    /\ links = {}
    /\ changes = 0 /\ requests = 0

(***************************************************************************)
(* What the request could have been answered with                          *)
(***************************************************************************)
(* The observations that, were each the only one of its version, the       *)
(* source's part of version_predicate would pass.                          *)
Alone(x, o) == [x EXCEPT !.gone = Objects \ {o}]
ShownNow(x, caller) ==
    LET ps == Resolved(x.members, caller)
    IN  {o \in Objects :
            \/ IsAdmin(ps)
            \/ SourceGate(Alone(x, o), ps, VersionOf[o]) /\ NoSourceDeny(Alone(x, o), ps, VersionOf[o])}

(* Readable through an observation, indexed as it is, and inside what the  *)
(* caller asked for; not what is in no project, nor what only an alias of  *)
(* an administrator opens.                                                 *)
Findable(x, i, caller, asked) ==
    LET found == {y \in ReadableVersions(x, caller) :
                    /\ IsAdmin(Resolved(x.members, caller)) => IsAdmin(caller)
                    /\ i[y] = Row(x, y)
                    /\ i[y].project \in (IF asked = NoProject THEN Projects ELSE {asked})}
    IN  {<<VersionOf[o], x.doc[VersionOf[o]], o>> :
            o \in {e \in ShownNow(x, caller) \ x.gone : VersionOf[e] \in found}}

Began(caller, asked) ==
    since' = [readable |-> ReadableVersions(w, caller), shown |-> ShownNow(w, caller),
              steady |-> Findable(w, index, caller, asked), mixed |-> FALSE]

(* After a commit; mixed: memberships changed between the statement that   *)
(* reads them and the one that reads the grants.                           *)
Noted ==
    since' = IF req.phase \in {"idle", "answered"} THEN since
             ELSE [readable |-> since.readable \union ReadableVersions(w', req.caller),
                   shown |-> since.shown \union ShownNow(w', req.caller),
                   steady |-> since.steady \intersect Findable(w', index', req.caller, req.asked),
                   mixed |-> since.mixed \/ (/\ req.phase \in {"identified", "recognised", "granted"}
                                             /\ w'.members # w.members)]

(***************************************************************************)
(* Commits of others                                                       *)
(***************************************************************************)
(* Before the first request StartWorlds says what may have happened, and   *)
(* after the last one nothing matters.                                     *)
Watched == requests > 0 /\ changes + requests < MaxEvents - (IF req.phase = "answered" THEN 1 ELSE 0)

Commit(x, i) ==
    /\ Watched
    /\ changes' = changes + 1
    /\ <<x, i>> # <<w, index>>
    /\ w' = x /\ index' = i
    /\ Noted
    /\ UNCHANGED <<req, links, requests>>

With(acl, principal, effect) ==
    IF effect = "allow" THEN [acl EXCEPT !.allow = @ \union {principal}]
    ELSE [acl EXCEPT !.deny = @ \union {principal}]

AddProjectGrant(p, principal, effect) ==
    Commit([w EXCEPT !.pacl[p] = With(@, principal, effect)], index)

AddDocumentGrant(d, principal, effect) ==
    /\ Existing(w, d)
    /\ Commit([w EXCEPT !.dacl[d] = With(@, principal, effect)], index)

(* A sync commits an object it saw anew or no longer saw, with the         *)
(* memberships.                                                            *)
SyncCommits(o, members) ==
    \/ \E acl \in MirroredAcls :
          Commit([w EXCEPT !.oacl[o] = acl, !.gone = @ \ {o}, !.members = members], index)
    \/ Commit([w EXCEPT !.gone = @ \union {o}, !.members = members], index)

(* A version joins a document, which joins the project of its matter; the  *)
(* document it leaves goes with its grants when that was its last version. *)
Relate(v, d, p) ==
    LET x == [w EXCEPT !.doc[v] = d, !.project[d] = p]
    IN  Commit([x EXCEPT !.dacl = [e \in Docs |-> IF Existing(x, e) THEN @[e] ELSE NoGrants]], index)

IndexVersion(v) ==
    Commit(w, [index EXCEPT ![v] = Row(w, v)])

(***************************************************************************)
(* The request                                                             *)
(***************************************************************************)
Goes(next) ==
    /\ req' = next
    /\ UNCHANGED <<w, index, changes>>

Begin(next) ==
    /\ req.phase \in {"idle", "answered"}
    /\ changes + requests < MaxEvents /\ requests' = requests + 1
    /\ Goes(next)
    /\ Began(next.caller, next.asked)

BeginSearch(caller, asked) ==
    /\ Begin([NoRequest EXCEPT !.kind = "search", !.phase = "begun", !.caller = caller,
                               !.asked = asked, !.objects = Objects])
    /\ UNCHANGED links

Step(from, next) == req.phase = from /\ Goes(next) /\ UNCHANGED <<links, since, requests>>

(* compile_scope: the caller's groups, level by level, the documents it    *)
(* may read, and the projects granted to it.  The levels are statements of *)
(* their own in the code (principals.py:135): a membership that changes    *)
(* between two of them is one that `mixed' leaves out.                     *)
Identify ==
    Step("begun", [req EXCEPT !.phase = "identified", !.ps = Resolved(w.members, req.caller)])

FindReadable ==
    Step("identified", [req EXCEPT !.phase = "found", !.ps = {}, !.found = ReadableRows(w, req.ps)])

Compile ==
    Step("found",
         [req EXCEPT !.phase = "compiled", !.found = {},
                     !.scope = CompiledScope(w, req.caller, req.found, req.asked)])

Query ==
    Step("compiled",
         [req EXCEPT !.phase = "queried", !.scope = NoRequest.scope,
                     !.rows = {v \in Versions :
                                 /\ Matches(index[v], req.scope)
                                 /\ req.asked = NoProject \/ index[v].project = req.asked}])

(* _warm_identity_map: rows whose version still belongs to the document    *)
(* that the index names, as the session will go on seeing them.            *)
Warm ==
    Step("queried",
         [req EXCEPT !.phase = "warm",
                     !.rows = {v \in @ : index[v].doc = w.doc[v]},
                     !.warm = w.doc])

(* The document is opened by its id: no index, no scope.                   *)
BeginExport(caller, v, objects) ==
    /\ Begin([NoRequest EXCEPT !.kind = "export", !.phase = "warm", !.caller = caller,
                               !.objects = objects, !.rows = {v}, !.warm = w.doc])
    /\ UNCHANGED links

BeginFetch(l) ==
    /\ l \in links
    /\ Begin([NoRequest EXCEPT !.kind = "fetch", !.phase = "warm", !.caller = l.caller,
                               !.objects = {l.object}, !.rows = {l.version},
                               !.warm = w.doc, !.link = {l}])
    /\ UNCHANGED links

(* _bulk_authorized_sources: the caller's groups, the versions it may      *)
(* read, their observations, the grants of those, and the groups again.    *)
Recognise ==
    Step("warm", [req EXCEPT !.phase = "recognised", !.ps = Resolved(w.members, req.caller)])

(* Mutant of Authorized: the scope of the request is taken for granted.    *)
AuthorizedByScope(rows) ==
    IF req.kind = "search" THEN rows ELSE {v \in rows : ReadableBy(w, req.ps, v)}
Authorized(rows) == {v \in rows : ReadableBy(w, req.ps, v)}

Authorize ==
    Step("recognised",
         [req EXCEPT !.phase = "authorized", !.ps = {}, !.authorized = Authorized(req.rows)])

LoadSources ==
    Step("authorized",
         [req EXCEPT !.phase = "sourced",
                     !.sources = UNION {Observations(w, v) : v \in req.authorized}])

LoadGrants ==
    Step("sourced", [req EXCEPT !.phase = "granted", !.grants = w.oacl])

ShownOf(v) ==
    Shown({o \in req.sources : VersionOf[o] = v}, req.grants,
          Resolved(w.members, req.caller), req.caller)
        \intersect req.objects

Hits == {[version |-> v, doc |-> req.warm[v], objects |-> ShownOf(v)] :
            v \in {x \in req.authorized : ShownOf(x) # {}}}

Answered(hits) ==
    /\ Goes([NoRequest EXCEPT !.kind = req.kind, !.phase = "answered", !.caller = req.caller,
                              !.asked = req.asked, !.answer = hits])
    /\ UNCHANGED <<since, requests>>

(* Each document is represented by one of its hits, whichever ranks first. *)
AnswerSearch ==
    /\ req.phase = "granted" /\ req.kind = "search"
    /\ \E hits \in SUBSET Hits :
          /\ \A d \in {h.doc : h \in Hits} : \E h \in hits : h.doc = d
          /\ \A h, k \in hits : h.doc = k.doc => h = k
          /\ Answered(hits)
    /\ UNCHANGED links

AnswerExport ==
    /\ req.phase = "granted" /\ req.kind = "export"
    /\ Answered(Hits)
    /\ \/ Hits = {} /\ UNCHANGED links
       \/ \E h \in Hits : \E o \in h.objects :
             links' = links \union {[caller |-> req.caller, version |-> h.version, object |-> o]}

(* A link that is no longer good is revoked.                               *)
AnswerFetch ==
    /\ req.phase = "granted" /\ req.kind = "fetch"
    /\ Answered(Hits)
    /\ links' = IF Hits = {} THEN links \ req.link ELSE links

LinkExpires(l) ==
    /\ l \in links /\ links' = links \ {l}
    /\ UNCHANGED <<w, index, req, since, changes, requests>>

RequestStep ==
    \/ Identify \/ FindReadable \/ Compile \/ Query \/ Warm \/ Recognise \/ Authorize 
    \/ LoadSources \/ LoadGrants \/ AnswerSearch \/ AnswerExport \/ AnswerFetch

Next ==
    \/ \E p \in Projects, x \in Grantees, e \in {"allow", "deny"} : AddProjectGrant(p, x, e)
    \/ \E d \in Docs, x \in Grantees, e \in {"allow", "deny"} : AddDocumentGrant(d, x, e)
    \/ \E o \in Objects, m \in Memberships : SyncCommits(o, m)
    \/ \E v \in Versions, d \in Docs, p \in Projects \union {NoProject} : Relate(v, d, p)
    \/ \E v \in Versions : IndexVersion(v)
    \/ \E c \in Callers :
          \/ \E p \in Projects \union {NoProject} : BeginSearch(c, p)
          \/ \E v \in Versions : BeginExport(c, v, Objects)
    \/ \E l \in links : BeginFetch(l) \/ LinkExpires(l)
    \/ RequestStep

Spec == Init /\ [][Next]_vars

(***************************************************************************)
(* Properties                                                              *)
(***************************************************************************)
TypeOK ==
    /\ w \in Worlds
    /\ index \in [Versions -> [doc : Docs, project : Projects \union {NoProject}]]
    /\ links \subseteq Links
    /\ req.caller \in Callers \union {{}}
    /\ req.rows \subseteq Versions /\ req.authorized \subseteq Versions
    /\ since.readable \subseteq Versions /\ since.shown \subseteq Objects
    /\ changes \in 0 .. MaxEvents /\ requests \in 0 .. MaxEvents

(* retrieval.md, SQL re-verification; data.md, downloads: whatever a       *)
(* request hands out was readable to its caller at some moment after the   *)
(* request began: neither the index, nor the scope compiled at the start,  *)
(* nor a link issued earlier makes up for a grant that is gone.  When the  *)
(* memberships change between the statement that reads them and the one    *)
(* that reads the grants this may fail, here and below: the grants of one  *)
(* moment are then matched with the groups of another.                     *)
UnmixedAnswers ==
    req.phase = "answered" /\ ~since.mixed =>
        \A h \in req.answer : h.version \in since.readable

(* An observation is cited only to a caller whom its own grants let see it *)
(* at some moment of the request, whatever else makes the version readable.*)
UnmixedCitations ==
    req.phase = "answered" /\ ~since.mixed =>
        \A h \in req.answer : h.objects \subseteq since.shown

(* A search misses no document that was readable through one observation   *)
(* and indexed as it is all along, whatever else changed; aside from       *)
(* documents outside every project, which the filter loses as soon as the  *)
(* caller can see any project, and from callers who are administrators     *)
(* through an alias, whom the choice of observations does not know as one. *)
UnmixedFinds ==
    req.phase = "answered" /\ req.kind = "search" /\ ~since.mixed =>
        \A x \in since.steady : \E h \in req.answer : h.doc = x[2]

(* What a request compares the grants with is the caller, the aliases and  *)
(* the smallest set of groups that is closed under membership, however     *)
(* groups are nested and even in a ring, with the aliases of those.        *)
Closure(members, first) ==
    CHOOSE S \in SUBSET Principals :
        LET Within(T) == first \subseteq T /\ ParentsOf(members, T) \subseteq T
        IN  Within(S) /\ \A T \in SUBSET Principals : Within(T) => S \subseteq T
ExpansionIsClosure ==
    req.phase \in {"identified", "recognised"} /\ ~since.mixed =>
        req.ps = ApplyAliases(Closure(w.members, ApplyAliases(req.caller)))
=============================================================================
