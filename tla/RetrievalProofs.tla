-------------------------- MODULE RetrievalProofs --------------------------
(* Theorems about Retrieval, for any firm, any grants and any number of    *)
(* requests and commits.                                                   *)
EXTENDS Retrieval, FiniteSetTheorems, WellFoundedInduction, TLAPS

(***************************************************************************)
(* The two computations of who may see what                                *)
(***************************************************************************)
LEMMA AliasesAdd == \A S : S \subseteq ApplyAliases(S)
  BY DEF ApplyAliases

LEMMA ExpansionAdds == \A m, S : S \subseteq Expanded(m, S)
  BY DEF Expanded

(* Resolving the groups and aliases of a caller loses no principal.        *)
LEMMA ResolvingAdds == \A m, S : S \subseteq Resolved(m, S)
  BY AliasesAdd, ExpansionAdds DEF Resolved

LEMMA AdminsRemain == \A m, S : IsAdmin(S) => IsAdmin(Resolved(m, S))
  BY ResolvingAdds DEF IsAdmin

(* What _bulk_authorized_sources shows of a readable version, by grants    *)
(* and memberships of one moment, is what version_predicate would let the  *)
(* caller see were it the only observation of its version.                 *)
LEMMA ShownIsGated ==
    ASSUME NEW x \in Worlds, NEW caller, NEW S \in SUBSET Objects
    PROVE  Shown(S, x.oacl, Resolved(x.members, caller), caller) \subseteq ShownNow(x, caller)
<1> DEFINE ps == Resolved(x.members, caller)
<1> SUFFICES ASSUME NEW o \in Shown(S, x.oacl, ps, caller)
             PROVE  o \in ShownNow(x, caller)
  OBVIOUS
<1>1. o \in Objects
  BY DEF Shown
<1>2. CASE IsAdmin(caller)
  BY <1>1, <1>2, AdminsRemain DEF ShownNow
<1>3. CASE ~IsAdmin(caller)
  <2>1. Observations(Alone(x, o), VersionOf[o]) = {o}
    BY <1>1 DEF Observations, Alone, Worlds
  <2>2. Alone(x, o).oacl = x.oacl
    BY DEF Alone, Worlds
  <2>3. CASE x.oacl[o] = NoGrants
    <3>1. o \in LocalObjects
      BY <1>3, <2>3 DEF Shown
    <3>2. ProjectScoped(Alone(x, o), VersionOf[o])
      BY <2>1, <2>2, <2>3, <3>1 DEF ProjectScoped
    <3>3. NoSourceDeny(Alone(x, o), ps, VersionOf[o])
      BY <2>1, <2>2, <2>3 DEF NoSourceDeny, Denied, NoGrants
    <3> QED
      BY <1>1, <3>2, <3>3 DEF ShownNow, SourceGate
  <2>4. CASE x.oacl[o] # NoGrants
    <3>1. Allowed(x.oacl[o], ps) /\ ~Denied(x.oacl[o], ps)
      BY <1>3, <2>4 DEF Shown
    <3>2. SourceAllow(Alone(x, o), ps, VersionOf[o])
      BY <2>1, <2>2, <3>1 DEF SourceAllow
    <3>3. NoSourceDeny(Alone(x, o), ps, VersionOf[o])
      BY <2>1, <2>2, <3>1 DEF NoSourceDeny
    <3> QED
      BY <1>1, <3>2, <3>3 DEF ShownNow, SourceGate
  <2> QED
    BY <2>3, <2>4
<1> QED
  BY <1>2, <1>3

(* The other way about: by grants and memberships of one moment, a version *)
(* that version_predicate lets somebody read who is no administrator has   *)
(* an observation to cite, so that no answer fails for want of a source.   *)
THEOREM ReadableIsShown ==
    ASSUME NEW x \in Worlds, NEW caller, NEW v \in Versions, Readable(x, caller, v),
           ~IsAdmin(Resolved(x.members, caller))
    PROVE  Shown(Observations(x, v), x.oacl, Resolved(x.members, caller), caller) # {}
<1> DEFINE ps == Resolved(x.members, caller)
<1>1. SourceGate(x, ps, v) /\ NoSourceDeny(x, ps, v)
  BY DEF Readable, ReadableBy, NoDeny
<1>2. ~IsAdmin(caller)
  BY AdminsRemain
<1>3. CASE SourceAllow(x, ps, v)
  <2>1. PICK o \in Observations(x, v) : Allowed(x.oacl[o], ps)
    BY <1>3 DEF SourceAllow
  <2>2. ~Denied(x.oacl[o], ps) /\ x.oacl[o] # NoGrants
    BY <1>1, <2>1 DEF NoSourceDeny, Allowed, NoGrants
  <2> QED
    BY <1>2, <2>1, <2>2 DEF Shown
<1>4. CASE ProjectScoped(x, v)
  BY <1>2, <1>4 DEF ProjectScoped, Shown
<1> QED
  BY <1>1, <1>3, <1>4 DEF SourceGate

(* The same estate under grants that are nowhere wider.  An allow of a     *)
(* source is not among them: the first one on a file of a local folder     *)
(* ends that file's fallback to its project, and so may close it.          *)
Narrower(acl, than) == acl.allow \subseteq than.allow /\ than.deny \subseteq acl.deny

Tighter(y, x) ==
    /\ y.doc = x.doc /\ y.project = x.project /\ y.gone = x.gone /\ y.members = x.members
    /\ \A p \in Projects : Narrower(y.pacl[p], x.pacl[p])
    /\ \A d \in Docs : Narrower(y.dacl[d], x.dacl[d])
    /\ \A o \in Objects : Narrower(y.oacl[o], x.oacl[o]) /\ y.oacl[o].allow = x.oacl[o].allow

(* Taking a grant of a project or document away, or denying something      *)
(* anywhere, never lets anybody read a version they could not read before. *)
THEOREM TighterGrantsOpenNothing ==
    ASSUME NEW x \in Worlds, NEW y \in Worlds, Tighter(y, x), NEW caller
    PROVE  ReadableVersions(y, caller) \subseteq ReadableVersions(x, caller)
<1> DEFINE ps == Resolved(x.members, caller)
<1>1. \A v : Observations(y, v) = Observations(x, v)
  BY DEF Observations, Tighter
<1>2. \A a, b : Narrower(a, b) =>
        /\ Allowed(a, ps) => Allowed(b, ps)
        /\ Denied(b, ps) => Denied(a, ps)
  BY DEF Narrower, Allowed, Denied
<1> SUFFICES ASSUME NEW v \in Versions, ReadableBy(y, ps, v) PROVE ReadableBy(x, ps, v)
  BY DEF ReadableVersions, Readable, Tighter
<1>3. CASE IsAdmin(ps)
  BY <1>1, <1>3 DEF ReadableBy
<1>4. CASE ~IsAdmin(ps)
  <2>1. Narrower(ProjectAcl(y, v), ProjectAcl(x, v))
    BY DEF ProjectAcl, Tighter, Worlds, Narrower
  <2>2. Narrower(DocumentAcl(y, v), DocumentAcl(x, v))
    BY DEF DocumentAcl, Tighter, Worlds
  <2>3. \A o \in Observations(x, v) : Narrower(y.oacl[o], x.oacl[o])
    BY DEF Observations, Tighter
  <2>4. LocalAllow(y, ps, v) => LocalAllow(x, ps, v)
    BY <1>2, <2>1, <2>2 DEF LocalAllow
  <2>5. SourceAllow(y, ps, v) => SourceAllow(x, ps, v)
    BY <1>1, <1>2, <2>3 DEF SourceAllow
  <2>6. ProjectScoped(y, v) => ProjectScoped(x, v)
    <3>1. ASSUME NEW o \in Observations(x, v), y.oacl[o] = NoGrants PROVE x.oacl[o] = NoGrants
      <4>1. x.oacl[o] \in Acls /\ x.oacl[o].allow = {} /\ x.oacl[o].deny = {}
        BY <3>1 DEF Observations, Tighter, Narrower, NoGrants, Worlds
      <4> QED
        BY <4>1 DEF Acls, NoGrants
    <3> QED
      BY <1>1, <3>1 DEF ProjectScoped
  <2>7. NoDeny(y, ps, v) => NoDeny(x, ps, v)
    BY <1>1, <1>2, <2>1, <2>2, <2>3 DEF NoDeny, NoSourceDeny
  <2> QED
    BY <1>4, <2>4, <2>5, <2>6, <2>7 DEF ReadableBy, AnyAllow, SourceGate
<1> QED
  BY <1>3, <1>4

(***************************************************************************)
(* The groups of a caller, however they are nested                         *)
(***************************************************************************)
(* Every set of numbers has a least one: an induction is the search for a  *)
(* least counterexample.                                                   *)
LEMMA Least == \A T \in SUBSET Nat : T # {} => \E n \in T : \A k \in T : ~(k < n)
<1> DEFINE R == {ss \in Nat \X Nat : ss[1] < ss[2]}
<1>1. IsWellFoundedOn(R, Nat)
  BY NatLessThanWellFounded DEF OpToRel
<1>2. \A n, k \in Nat : k < n => <<k, n>> \in R
  OBVIOUS
<1> HIDE DEF R
<1>3. \A T \in SUBSET Nat : T # {} => \E n \in T : \A k \in T : <<k, n>> \notin R
  BY <1>1, WFMin
<1> QED BY <1>2, <1>3

(* Expanded, level by level: what the walk holds after one more, and what *)
(* a function is that holds what it has after each.                        *)
NextLevel(members, at) ==
    LET next == ParentsOf(members, at.frontier) \ at.seen
    IN  [frontier |-> next, seen |-> at.seen \union next]
Walks(members, ps, n, f) ==
    f = [k \in 0 .. n |->
           IF k = 0 THEN [frontier |-> ParentsOf(members, ps), seen |-> ParentsOf(members, ps)]
           ELSE NextLevel(members, f[k - 1])]

LEMMA WalkExists ==
    ASSUME NEW members, NEW ps, NEW N \in Nat
    PROVE  \E f : Walks(members, ps, N, f)
<1> DEFINE first == [frontier |-> ParentsOf(members, ps), seen |-> ParentsOf(members, ps)]
           T == {n \in Nat : ~\E f : Walks(members, ps, n, f)}
<1>1. SUFFICES ASSUME T # {} PROVE FALSE
  OBVIOUS
<1>2. PICK n \in T : \A k \in T : ~(k < n)
  BY <1>1, Least
<1>3. CASE n = 0
  <2>1. Walks(members, ps, 0, [k \in 0 .. 0 |-> first])
    BY DEF Walks
  <2> QED
    BY <1>3, <2>1
<1>4. CASE n # 0
  <2>1. n - 1 \in Nat /\ n - 1 \notin T
    BY <1>2, <1>4
  <2>2. PICK g : Walks(members, ps, n - 1, g)
    BY <2>1
  <2> DEFINE f == [k \in 0 .. n |-> IF k = n THEN NextLevel(members, g[n - 1]) ELSE g[k]]
  <2>3. \A k \in 0 .. n - 1 : g[k] = IF k = 0 THEN first ELSE NextLevel(members, g[k - 1])
    BY <2>2 DEF Walks
  <2>4. \A k \in 0 .. n : f[k] = IF k = 0 THEN first ELSE NextLevel(members, f[k - 1])
    <3> SUFFICES ASSUME NEW k \in 0 .. n
                 PROVE  f[k] = IF k = 0 THEN first ELSE NextLevel(members, f[k - 1])
      OBVIOUS
    <3>1. CASE k = n
      <4>1. f[k] = NextLevel(members, g[n - 1]) /\ f[k - 1] = g[n - 1]
        BY <1>4, <2>1, <3>1
      <4> QED
        BY <1>4, <3>1, <4>1
    <3>2. CASE k # n
      <4>1. k \in 0 .. n - 1 /\ f[k] = g[k] /\ (k # 0 => f[k - 1] = g[k - 1])
        BY <2>1, <3>2
      <4> QED
        BY <2>3, <4>1
    <3> QED
      BY <3>1, <3>2
  <2>5. f = [k \in 0 .. n |-> IF k = 0 THEN first ELSE NextLevel(members, f[k - 1])]
    <3> HIDE DEF first
    <3>1. f = [k \in 0 .. n |-> f[k]]
      OBVIOUS
    <3> HIDE DEF f
    <3> QED
      BY <2>4, <3>1
  <2>6. Walks(members, ps, n, f)
    BY <2>5 DEF Walks
  <2> QED
    BY <2>6
<1> QED
  BY <1>3, <1>4

LEMMA ExpandedWalks ==
    ASSUME NEW members, NEW ps
    PROVE  \E f : Walks(members, ps, Cardinality(Groups), f)
                  /\ Expanded(members, ps) = ps \union f[Cardinality(Groups)].seen
<1> DEFINE N == Cardinality(Groups)
<1>1. N \in Nat
  BY PrincipalsAssumption, FS_CardinalityType
<1>2. \E f : Walks(members, ps, N, f)
  BY <1>1, WalkExists
<1> DEFINE walk == CHOOSE f : Walks(members, ps, N, f)
<1>3. Walks(members, ps, N, walk)
  BY <1>2
<1>4. Expanded(members, ps) = ps \union walk[N].seen
  BY DEF Expanded, Walks, NextLevel
<1> QED
  BY <1>3, <1>4

(* What is seen are groups, those of the groups left behind among them;    *)
(* nothing is seen that a closed set could lack; and a level that brings   *)
(* anything brings a group that is new.                                    *)
LevelHolds(members, ps, n, at) ==
    /\ at.frontier \subseteq at.seen /\ at.seen \subseteq Groups
    /\ ParentsOf(members, ps) \subseteq at.seen
    /\ ParentsOf(members, at.seen \ at.frontier) \subseteq at.seen
    /\ \A T : ps \subseteq T /\ ParentsOf(members, T) \subseteq T => at.seen \subseteq T
    /\ at.frontier = {} \/ Cardinality(at.seen) > n

LEMMA ParentsGrow ==
    \A members, S, T : S \subseteq T => ParentsOf(members, S) \subseteq ParentsOf(members, T)
  BY DEF ParentsOf

LEMMA FirstLevel ==
    ASSUME NEW members \in SUBSET (Principals \X Groups), NEW ps, NEW at,
           at = [frontier |-> ParentsOf(members, ps), seen |-> ParentsOf(members, ps)]
    PROVE  LevelHolds(members, ps, 0, at)
<1>1. at.seen \subseteq Groups
  BY DEF ParentsOf
<1>2. ParentsOf(members, {}) = {}
  BY DEF ParentsOf
<1>3. \A T : ps \subseteq T /\ ParentsOf(members, T) \subseteq T => at.seen \subseteq T
  BY ParentsGrow
<1>4. at.frontier = {} \/ Cardinality(at.seen) > 0
  <2>1. IsFiniteSet(at.seen)
    BY <1>1, PrincipalsAssumption, FS_Subset
  <2>2. Cardinality(at.seen) \in Nat
    BY <2>1, FS_CardinalityType
  <2>3. Cardinality(at.seen) = 0 => at.seen = {}
    BY <2>1, FS_EmptySet
  <2> QED
    BY <2>2, <2>3
<1> QED
  BY <1>1, <1>2, <1>3, <1>4 DEF LevelHolds

LEMMA LaterLevel ==
    ASSUME NEW members \in SUBSET (Principals \X Groups), NEW ps, NEW n \in Nat, NEW at,
           LevelHolds(members, ps, n, at)
    PROVE  LevelHolds(members, ps, n + 1, NextLevel(members, at))
<1> DEFINE next == ParentsOf(members, at.frontier) \ at.seen
           to == NextLevel(members, at)
<1>1. to.frontier = next /\ to.seen = at.seen \union next
  BY DEF NextLevel
<1>2. at.seen \subseteq Groups /\ at.frontier \subseteq at.seen
  BY DEF LevelHolds
<1>3. to.seen \subseteq Groups
  BY <1>1, <1>2 DEF ParentsOf
<1>4. ParentsOf(members, to.seen \ to.frontier) \subseteq to.seen
  <2>1. ParentsOf(members, at.seen \ at.frontier) \subseteq at.seen
    BY DEF LevelHolds
  <2>2. ParentsOf(members, at.seen) \subseteq
          ParentsOf(members, at.seen \ at.frontier) \union ParentsOf(members, at.frontier)
    BY DEF ParentsOf
  <2>3. ParentsOf(members, at.seen) \subseteq to.seen
    BY <1>1, <2>1, <2>2
  <2>4. to.seen \ to.frontier = at.seen
    BY <1>1
  <2> QED
    BY <2>3, <2>4
<1>5. \A T : ps \subseteq T /\ ParentsOf(members, T) \subseteq T => to.seen \subseteq T
  <2> SUFFICES ASSUME NEW T, ps \subseteq T, ParentsOf(members, T) \subseteq T
               PROVE  to.seen \subseteq T
    OBVIOUS
  <2>1. at.seen \subseteq T /\ at.frontier \subseteq T
    BY <1>2 DEF LevelHolds
  <2>2. ParentsOf(members, at.frontier) \subseteq T
    BY <2>1, ParentsGrow
  <2> QED
    BY <1>1, <2>1, <2>2
<1>6. to.frontier = {} \/ Cardinality(to.seen) > n + 1
  <2> SUFFICES ASSUME next # {} PROVE Cardinality(to.seen) > n + 1
    BY <1>1
  <2>1. at.frontier # {}
    BY DEF ParentsOf
  <2>2. Cardinality(at.seen) > n
    BY <2>1 DEF LevelHolds
  <2>3. IsFiniteSet(to.seen) /\ IsFiniteSet(at.seen)
    BY <1>2, <1>3, PrincipalsAssumption, FS_Subset
  <2>4. Cardinality(to.seen) \in Nat /\ Cardinality(at.seen) \in Nat
    BY <2>3, FS_CardinalityType
  <2>5. at.seen \subseteq to.seen /\ at.seen # to.seen
    BY <1>1
  <2>6. Cardinality(at.seen) <= Cardinality(to.seen) /\ Cardinality(at.seen) # Cardinality(to.seen)
    BY <2>3, <2>5, FS_Subset
  <2> QED
    BY <2>2, <2>4, <2>6
<1>7. ParentsOf(members, ps) \subseteq to.seen
  BY <1>1 DEF LevelHolds
<1> QED
  BY <1>1, <1>3, <1>4, <1>5, <1>6, <1>7 DEF LevelHolds

LEMMA WalkReaches ==
    ASSUME NEW members \in SUBSET (Principals \X Groups), NEW ps, NEW N \in Nat, NEW f,
           Walks(members, ps, N, f)
    PROVE  LevelHolds(members, ps, N, f[N])
<1> DEFINE T == {n \in 0 .. N : ~LevelHolds(members, ps, n, f[n])}
<1>1. SUFFICES ASSUME T # {} PROVE FALSE
  OBVIOUS
<1>2. T \in SUBSET Nat
  OBVIOUS
<1>3. PICK n \in T : \A k \in T : ~(k < n)
  BY <1>1, <1>2, Least
<1>4. CASE n = 0
  BY <1>4, FirstLevel DEF Walks
<1>5. CASE n # 0
  <2>1. n - 1 \in 0 .. N /\ n - 1 \notin T
    BY <1>3, <1>5
  <2>2. LevelHolds(members, ps, n - 1, f[n - 1])
    BY <2>1
  <2>3. f[n] = NextLevel(members, f[n - 1])
    BY <1>5, <2>1 DEF Walks
  <2>4. LevelHolds(members, ps, (n - 1) + 1, f[n])
    BY <2>1, <2>2, <2>3, LaterLevel
  <2>5. (n - 1) + 1 = n
    OBVIOUS
  <2> QED
    BY <2>4, <2>5
<1> QED
  BY <1>4, <1>5

(* There are no more levels than groups, so the last has brought nothing   *)
(* new: what was seen is closed, and no closed set is smaller.             *)
LEMMA ExpandedIsClosure ==
    ASSUME NEW members \in SUBSET (Principals \X Groups), NEW ps \in SUBSET Principals
    PROVE  Expanded(members, ps) = Closure(members, ps)
<1> DEFINE N == Cardinality(Groups)
           E == Expanded(members, ps)
           Within(T) == ps \subseteq T /\ ParentsOf(members, T) \subseteq T
<1>1. N \in Nat
  BY PrincipalsAssumption, FS_CardinalityType
<1>2. PICK f : Walks(members, ps, N, f) /\ E = ps \union f[N].seen
  BY ExpandedWalks
<1>3. LevelHolds(members, ps, N, f[N])
  BY <1>1, <1>2, WalkReaches
<1>4. f[N].seen \subseteq Groups
  BY <1>3 DEF LevelHolds
<1>5. Cardinality(f[N].seen) <= N /\ Cardinality(f[N].seen) \in Nat
  BY <1>4, PrincipalsAssumption, FS_Subset, FS_CardinalityType
<1>6. f[N].frontier = {}
  BY <1>1, <1>3, <1>5 DEF LevelHolds
<1>7. ParentsOf(members, f[N].seen) \subseteq f[N].seen
  <2>1. f[N].seen \ f[N].frontier = f[N].seen
    BY <1>6
  <2> QED
    BY <1>3, <2>1 DEF LevelHolds
<1>8. Within(E)
  <2>1. ParentsOf(members, E) \subseteq ParentsOf(members, ps) \union ParentsOf(members, f[N].seen)
    BY <1>2 DEF ParentsOf
  <2>2. ParentsOf(members, ps) \subseteq f[N].seen
    BY <1>3 DEF LevelHolds
  <2> QED
    BY <1>2, <1>7, <2>1, <2>2
<1>9. E \in SUBSET Principals
  BY <1>2, <1>4, PrincipalsAssumption
<1>10. \A T : Within(T) => E \subseteq T
  BY <1>2, <1>3 DEF LevelHolds
<1> HIDE DEF E, Within
<1>11. \A S \in SUBSET Principals :
         Within(S) /\ (\A T \in SUBSET Principals : Within(T) => S \subseteq T) => S = E
  BY <1>8, <1>9, <1>10
<1>12. E = CHOOSE S \in SUBSET Principals :
             Within(S) /\ \A T \in SUBSET Principals : Within(T) => S \subseteq T
  BY <1>8, <1>9, <1>10, <1>11
<1> QED
  BY <1>12 DEF Closure, E, Within

(***************************************************************************)
(* The inductive invariant                                                 *)
(***************************************************************************)
(* The records have their fields, whatever these hold.                     *)
Request(r) ==
    r = [kind |-> r.kind, phase |-> r.phase, caller |-> r.caller, asked |-> r.asked,
         objects |-> r.objects, ps |-> r.ps, found |-> r.found, scope |-> r.scope,
         rows |-> r.rows, warm |-> r.warm, authorized |-> r.authorized, sources |-> r.sources,
         grants |-> r.grants, link |-> r.link, answer |-> r.answer]

Shaped ==
    /\ Request(req)
    /\ since = [readable |-> since.readable, shown |-> since.shown, steady |-> since.steady,
                mixed |-> since.mixed]

InFlight == req.phase \notin {"idle", "answered"}

Typed ==
    /\ Shaped /\ TypeOK
    /\ InFlight => req.caller \in Callers
    /\ req.objects \subseteq Objects /\ req.sources \subseteq Objects
    /\ since.mixed \in BOOLEAN

(* The history holds the present.                                          *)
Recorded ==
    InFlight => /\ ReadableVersions(w, req.caller) \subseteq since.readable
                /\ ShownNow(w, req.caller) \subseteq since.shown

(* Unless memberships changed, the principals are still the caller's, what *)
(* was authorized was readable, and what the grants show was shown.        *)
Trusted ==
    ~since.mixed =>
        /\ req.phase \in {"identified", "recognised"} => req.ps = Resolved(w.members, req.caller)
        /\ req.phase \in {"authorized", "sourced", "granted"} => req.authorized \subseteq since.readable
        /\ req.phase = "granted" =>
              \A S \in SUBSET Objects :
                  Shown(S, req.grants, Resolved(w.members, req.caller), req.caller)
                      \subseteq since.shown

IInv == Typed /\ Recorded /\ Trusted /\ UnmixedAnswers /\ UnmixedCitations

LEMMA InitHolds == Init => IInv
<1> SUFFICES ASSUME Init PROVE IInv
  OBVIOUS
<1>1. req = NoRequest /\ since = NotYet /\ w \in Worlds
  BY StartAssumption DEF Init
<1>2. index \in [Versions -> [doc : Docs, project : Projects \union {NoProject}]]
  BY <1>1 DEF Init, Row, Worlds
<1> QED
  BY <1>1, <1>2, BoundAssumption
     DEF Init, IInv, Typed, Shaped, Request, TypeOK, NoRequest, NotYet, InFlight, Recorded, Trusted,
         UnmixedAnswers, UnmixedCitations, Links

(***************************************************************************)
(* Commits of others                                                       *)
(***************************************************************************)
LEMMA RowsTyped == \A x \in Worlds, v \in Versions :
                      Row(x, v) \in [doc : Docs, project : Projects \union {NoProject}]
  BY DEF Row, Worlds

LEMMA CommitKeeps ==
    ASSUME IInv, NEW x \in Worlds, NEW i, Commit(x, i),
           i \in [Versions -> [doc : Docs, project : Projects \union {NoProject}]]
    PROVE  IInv'
<1>1. w' = x /\ index' = i /\ req' = req /\ links' = links /\ requests' = requests
  BY DEF Commit
<1>2. changes' \in 0 .. MaxEvents
  BY BoundAssumption DEF Commit, Watched, IInv, Typed, TypeOK
<1>3. CASE ~InFlight
  <2>1. since' = since
    BY <1>3 DEF Commit, Noted, InFlight
  <2> QED
    BY <1>1, <1>2, <1>3, <2>1
       DEF IInv, Typed, TypeOK, Shaped, Request, InFlight, Recorded, Trusted, UnmixedAnswers,
           UnmixedCitations, Links
<1>4. CASE InFlight
  <2>1. /\ since' = [readable |-> since'.readable, shown |-> since'.shown,
                     steady |-> since'.steady, mixed |-> since'.mixed]
        /\ since'.readable = since.readable \union ReadableVersions(w', req.caller)
        /\ since'.shown = since.shown \union ShownNow(w', req.caller)
        /\ since'.mixed = (since.mixed \/ (/\ req.phase \in {"identified", "recognised", "granted"}
                                          /\ w'.members # w.members))
    BY <1>4 DEF Commit, Noted, InFlight
  <2>2. Typed'
    <3>1. ReadableVersions(w', req.caller) \subseteq Versions
          /\ ShownNow(w', req.caller) \subseteq Objects
      BY DEF ReadableVersions, ShownNow
    <3> QED
      BY <1>1, <1>2, <2>1, <3>1 DEF IInv, Typed, TypeOK, Shaped, Request, InFlight, Links
  <2>3. Recorded'
    BY <1>1, <2>1 DEF Recorded, InFlight
  <2>4. Trusted'
    <3> SUFFICES ASSUME ~since'.mixed PROVE Trusted'
      BY DEF Trusted
    <3>1. ~since.mixed
        /\ (req.phase \in {"identified", "recognised", "granted"} => w'.members = w.members)
      BY <2>1
    <3> QED
      BY <1>1, <2>1, <3>1 DEF IInv, Trusted
  <2> QED
    BY <1>1, <1>4, <2>2, <2>3, <2>4 DEF IInv, UnmixedAnswers, UnmixedCitations, InFlight
<1> QED
  BY <1>3, <1>4

Rows == [Versions -> [doc : Docs, project : Projects \union {NoProject}]]

(* What somebody else commits: a database, or the row of one version.      *)
Committed ==
    \E x \in Worlds, i \in Rows :
        /\ Commit(x, i)
        /\ i = index \/ (x = w /\ \E v \in Versions : i = [index EXCEPT ![v] = Row(w, v)])

LEMMA OthersCommit ==
    ASSUME IInv,
           \/ \E p \in Projects, x \in Grantees, e \in {"allow", "deny"} : AddProjectGrant(p, x, e)
           \/ \E d \in Docs, x \in Grantees, e \in {"allow", "deny"} : AddDocumentGrant(d, x, e)
           \/ \E o \in Objects, m \in Memberships : SyncCommits(o, m)
           \/ \E v \in Versions, d \in Docs, p \in Projects \union {NoProject} : Relate(v, d, p)
           \/ \E v \in Versions : IndexVersion(v)
    PROVE  Committed
<1>1. w \in Worlds /\ index \in Rows
  BY DEF IInv, Typed, TypeOK, Rows
<1>2. ASSUME NEW acl \in Acls, NEW x \in Grantees, NEW e PROVE With(acl, x, e) \in Acls
  BY CallersAssumption DEF With, Acls
<1>3. ASSUME NEW p \in Projects, NEW x \in Grantees, NEW e, AddProjectGrant(p, x, e) PROVE Committed
  <2>1. [w EXCEPT !.pacl[p] = With(w.pacl[p], x, e)] \in Worlds
    BY <1>1, <1>2 DEF Worlds
  <2> QED
    BY <1>1, <1>3, <2>1 DEF Committed, AddProjectGrant
<1>4. ASSUME NEW d \in Docs, NEW x \in Grantees, NEW e, AddDocumentGrant(d, x, e) PROVE Committed
  <2>1. [w EXCEPT !.dacl[d] = With(w.dacl[d], x, e)] \in Worlds
    BY <1>1, <1>2 DEF Worlds
  <2> QED
    BY <1>1, <1>4, <2>1 DEF Committed, AddDocumentGrant
<1>5. ASSUME NEW o \in Objects, NEW m \in Memberships, SyncCommits(o, m) PROVE Committed
  <2>1. m \in SUBSET (Principals \X Groups) /\ MirroredAcls \subseteq Acls
    BY ReportsAssumption
  <2>2. \A acl \in MirroredAcls :
          [w EXCEPT !.oacl[o] = acl, !.gone = w.gone \ {o}, !.members = m] \in Worlds
    BY <1>1, <2>1 DEF Worlds
  <2>3. [w EXCEPT !.gone = w.gone \union {o}, !.members = m] \in Worlds
    BY <1>1, <2>1 DEF Worlds
  <2> QED
    BY <1>1, <1>5, <2>2, <2>3 DEF Committed, SyncCommits
<1>6. ASSUME NEW v \in Versions, NEW d \in Docs, NEW p \in Projects \union {NoProject},
             Relate(v, d, p)
      PROVE  Committed
  <2> DEFINE x == [w EXCEPT !.doc[v] = d, !.project[d] = p]
  <2>1. x \in Worlds
    BY <1>1 DEF Worlds
  <2>2. NoGrants \in Acls
    BY DEF NoGrants, Acls
  <2> HIDE DEF x
  <2>3. [x EXCEPT !.dacl = [e \in Docs |-> IF Existing(x, e) THEN x.dacl[e] ELSE NoGrants]]
          \in Worlds
    BY <2>1, <2>2 DEF Worlds
  <2> QED
    BY <1>1, <1>6, <2>3 DEF Committed, Relate, x
<1>7. ASSUME NEW v \in Versions, IndexVersion(v) PROVE Committed
  <2>1. [index EXCEPT ![v] = Row(w, v)] \in Rows
    BY <1>1, RowsTyped DEF Rows
  <2> QED
    BY <1>1, <1>7, <2>1 DEF Committed, IndexVersion
<1> QED
  BY <1>3, <1>4, <1>5, <1>6, <1>7

LEMMA OthersKeep == IInv /\ Committed => IInv'
  BY CommitKeeps DEF Committed, Rows

(***************************************************************************)
(* The request                                                             *)
(***************************************************************************)
LEMMA BeginKeeps ==
    ASSUME IInv, UNCHANGED <<w, index, changes, links>>, requests' \in 0 .. MaxEvents,
           Began(req'.caller, req'.asked), Request(req'), req'.phase \in {"begun", "warm"},
           req'.caller \in Callers, req'.objects \subseteq Objects, req'.sources = {},
           req'.rows \subseteq Versions, req'.authorized = {}
    PROVE  IInv'
<1>1. /\ since' = [readable |-> since'.readable, shown |-> since'.shown,
                   steady |-> since'.steady, mixed |-> since'.mixed]
      /\ since'.readable = ReadableVersions(w, req'.caller)
      /\ since'.shown = ShownNow(w, req'.caller)
      /\ since'.mixed = FALSE
  BY DEF Began
<1>2. since'.readable \subseteq Versions /\ since'.shown \subseteq Objects
  BY <1>1 DEF ReadableVersions, ShownNow
<1>3. Typed'
  BY <1>1, <1>2 DEF IInv, Typed, TypeOK, Shaped, Request, InFlight, Links
<1> QED
  BY <1>1, <1>3 DEF IInv, Recorded, Trusted, UnmixedAnswers, UnmixedCitations

LEMMA RequestsKeep ==
    ASSUME IInv,
           \/ \E c \in Callers :
                 \/ \E p \in Projects \union {NoProject} : BeginSearch(c, p)
                 \/ \E v \in Versions : BeginExport(c, v, Objects)
           \/ \E l \in links : BeginFetch(l)
    PROVE  IInv'
<1>1. ASSUME NEW c \in Callers, NEW p, BeginSearch(c, p) PROVE IInv'
  <2>1. /\ UNCHANGED <<w, index, changes, links>> /\ requests' = requests + 1
        /\ changes + requests < MaxEvents /\ Began(c, p)
        /\ Request(req') /\ req'.phase = "begun" /\ req'.caller = c /\ req'.asked = p
        /\ req'.objects = Objects /\ req'.sources = {} /\ req'.rows = {} /\ req'.authorized = {}
    BY <1>1 DEF BeginSearch, Begin, Goes, NoRequest, Request
  <2>2. requests' \in 0 .. MaxEvents
    BY <2>1, BoundAssumption DEF IInv, Typed, TypeOK
  <2> QED
    BY <2>1, <2>2, BeginKeeps
<1>2. ASSUME NEW c \in Callers, NEW v \in Versions, BeginExport(c, v, Objects) PROVE IInv'
  <2>1. /\ UNCHANGED <<w, index, changes, links>> /\ requests' = requests + 1
        /\ changes + requests < MaxEvents /\ Began(c, NoProject)
        /\ Request(req') /\ req'.phase = "warm" /\ req'.caller = c /\ req'.asked = NoProject
        /\ req'.objects = Objects /\ req'.sources = {} /\ req'.rows = {v} /\ req'.authorized = {}
    BY <1>2 DEF BeginExport, Begin, Goes, NoRequest, Request
  <2>2. requests' \in 0 .. MaxEvents
    BY <2>1, BoundAssumption DEF IInv, Typed, TypeOK
  <2> QED
    BY <2>1, <2>2, BeginKeeps
<1>3. ASSUME NEW l \in links, BeginFetch(l) PROVE IInv'
  <2>1. l.caller \in Callers /\ l.version \in Versions /\ l.object \in Objects
    BY DEF IInv, Typed, TypeOK, Links
  <2>2. /\ UNCHANGED <<w, index, changes, links>> /\ requests' = requests + 1
        /\ changes + requests < MaxEvents /\ Began(l.caller, NoProject)
        /\ Request(req') /\ req'.phase = "warm" /\ req'.caller = l.caller /\ req'.asked = NoProject
        /\ req'.objects = {l.object} /\ req'.sources = {} /\ req'.rows = {l.version}
        /\ req'.authorized = {}
    BY <1>3 DEF BeginFetch, Begin, Goes, NoRequest, Request
  <2>3. requests' \in 0 .. MaxEvents
    BY <2>2, BoundAssumption DEF IInv, Typed, TypeOK
  <2> QED
    BY <2>1, <2>2, <2>3, BeginKeeps
<1> QED
  BY <1>1, <1>2, <1>3

(* A statement of the request leaves the database, the links and the       *)
(* history alone.                                                          *)
Quiet == UNCHANGED <<w, index, changes, links, since, requests>>

LEMMA StatementKeeps ==
    ASSUME IInv, Quiet, InFlight, Request(req'), InFlight', req'.caller = req.caller,
           req'.objects = req.objects, req'.sources \subseteq Objects,
           req'.rows \subseteq Versions, req'.authorized \subseteq Versions
    PROVE  Typed' /\ Recorded' /\ UnmixedAnswers' /\ UnmixedCitations'
<1>1. Typed'
  BY DEF IInv, Typed, TypeOK, Shaped, InFlight, Links, Quiet
<1>2. Recorded' /\ UnmixedAnswers' /\ UnmixedCitations'
  BY DEF IInv, Recorded, InFlight, UnmixedAnswers, UnmixedCitations, Quiet
<1> QED
  BY <1>1, <1>2

LEMMA PassesKeep ==
    ASSUME IInv, Identify \/ FindReadable \/ Compile \/ Query \/ Warm
    PROVE  IInv'
<1>1. Request(req) /\ req.rows \subseteq Versions /\ req.authorized \subseteq Versions
      /\ req.sources \subseteq Objects
  BY DEF IInv, Typed, TypeOK, Shaped
<1> DEFINE Passed(next) ==
      /\ Quiet /\ InFlight /\ Request(req') /\ req'.phase = next /\ req'.caller = req.caller
      /\ req'.objects = req.objects /\ req'.sources = req.sources
      /\ req'.rows \subseteq Versions /\ req'.authorized = req.authorized
<1>2. Identify => Passed("identified")
  BY <1>1 DEF Identify, Step, Goes, Quiet, Request, InFlight
<1>3. FindReadable => Passed("found")
  BY <1>1 DEF FindReadable, Step, Goes, Quiet, Request, InFlight
<1>4. Compile => Passed("compiled")
  BY <1>1 DEF Compile, Step, Goes, Quiet, Request, InFlight
<1>5. Query => Passed("queried")
  BY <1>1 DEF Query, Step, Goes, Quiet, Request, InFlight
<1>6. Warm => Passed("warm")
  BY <1>1 DEF Warm, Step, Goes, Quiet, Request, InFlight
<1>7. PICK next \in {"identified", "found", "compiled", "queried", "warm"} : Passed(next)
  BY <1>2, <1>3, <1>4, <1>5, <1>6
<1>8. InFlight'
  BY <1>7 DEF InFlight
<1>9. Typed' /\ Recorded' /\ UnmixedAnswers' /\ UnmixedCitations'
  BY <1>1, <1>7, <1>8, StatementKeeps
<1>10. CASE req'.phase = "identified"
  <2>1. req'.ps = Resolved(w.members, req.caller)
    BY <1>1, <1>10 DEF Identify, FindReadable, Compile, Query, Warm, Step, Goes, Request
  <2> QED
    BY <1>7, <1>9, <1>10, <2>1 DEF IInv, Trusted, Quiet
<1>11. CASE req'.phase # "identified"
  BY <1>7, <1>9, <1>11 DEF IInv, Trusted
<1> QED
  BY <1>10, <1>11

(* _bulk_authorized_sources: what is authorized was readable, what is      *)
(* shown was to be seen.                                                   *)
LEMMA ChecksKeep ==
    ASSUME IInv, Recognise \/ Authorize \/ LoadSources \/ LoadGrants
    PROVE  IInv'
<1>1. Request(req) /\ req.rows \subseteq Versions /\ req.authorized \subseteq Versions
      /\ req.sources \subseteq Objects /\ w \in Worlds
  BY DEF IInv, Typed, TypeOK, Shaped
<1>2. CASE Recognise
  <2>1. /\ Quiet /\ InFlight /\ Request(req') /\ req'.phase = "recognised"
        /\ req'.caller = req.caller /\ req'.objects = req.objects /\ req'.sources = req.sources
        /\ req'.rows = req.rows /\ req'.authorized = req.authorized
        /\ req'.ps = Resolved(w.members, req.caller)
    BY <1>1, <1>2 DEF Recognise, Step, Goes, Quiet, Request, InFlight
  <2>2. Typed' /\ Recorded' /\ UnmixedAnswers' /\ UnmixedCitations'
    BY <1>1, <2>1, StatementKeeps DEF InFlight
  <2> QED
    BY <2>1, <2>2 DEF IInv, Trusted, Quiet
<1>3. CASE Authorize
  <2>1. /\ Quiet /\ InFlight /\ req.phase = "recognised" /\ Request(req')
        /\ req'.phase = "authorized" /\ req'.caller = req.caller /\ req'.objects = req.objects
        /\ req'.sources = req.sources /\ req'.rows = req.rows
        /\ req'.authorized = Authorized(req.rows)
    BY <1>1, <1>3 DEF Authorize, Step, Goes, Quiet, Request, InFlight
  <2>2. Authorized(req.rows) \subseteq Versions
    BY <1>1 DEF Authorized
  <2>3. Typed' /\ Recorded' /\ UnmixedAnswers' /\ UnmixedCitations'
    BY <1>1, <2>1, <2>2, StatementKeeps DEF InFlight
  <2>4. ~since.mixed => Authorized(req.rows) \subseteq since.readable
    BY <1>1, <2>1 DEF IInv, Trusted, Recorded, Authorized, ReadableVersions, Readable
  <2> QED
    BY <2>1, <2>3, <2>4 DEF IInv, Trusted, Quiet
<1>4. CASE LoadSources
  <2>1. /\ Quiet /\ InFlight /\ req.phase = "authorized" /\ Request(req')
        /\ req'.phase = "sourced" /\ req'.caller = req.caller /\ req'.objects = req.objects
        /\ req'.sources = UNION {Observations(w, v) : v \in req.authorized}
        /\ req'.rows = req.rows /\ req'.authorized = req.authorized
    BY <1>1, <1>4 DEF LoadSources, Step, Goes, Quiet, Request, InFlight
  <2>2. req'.sources \subseteq Objects
    BY <2>1 DEF Observations
  <2>3. Typed' /\ Recorded' /\ UnmixedAnswers' /\ UnmixedCitations'
    BY <1>1, <2>1, <2>2, StatementKeeps DEF InFlight
  <2> QED
    BY <2>1, <2>3 DEF IInv, Trusted, Quiet
<1>5. CASE LoadGrants
  <2>1. /\ Quiet /\ InFlight /\ req.phase = "sourced" /\ Request(req')
        /\ req'.phase = "granted" /\ req'.caller = req.caller /\ req'.objects = req.objects
        /\ req'.sources = req.sources /\ req'.grants = w.oacl
        /\ req'.rows = req.rows /\ req'.authorized = req.authorized
    BY <1>1, <1>5 DEF LoadGrants, Step, Goes, Quiet, Request, InFlight
  <2>2. Typed' /\ Recorded' /\ UnmixedAnswers' /\ UnmixedCitations'
    BY <1>1, <2>1, StatementKeeps DEF InFlight
  <2>3. \A S \in SUBSET Objects :
          Shown(S, w.oacl, Resolved(w.members, req.caller), req.caller) \subseteq since.shown
    BY <1>1, <2>1, ShownIsGated DEF IInv, Recorded
  <2> QED
    BY <2>1, <2>2, <2>3 DEF IInv, Trusted, Quiet
<1> QED
  BY <1>2, <1>3, <1>4, <1>5

LEMMA HitsSound ==
    ASSUME IInv, req.phase = "granted", NEW hit \in Hits
    PROVE  /\ hit.version \in Versions /\ hit.objects \subseteq req.objects
           /\ ~since.mixed => hit.version \in since.readable /\ hit.objects \subseteq since.shown
<1>1. PICK v \in req.authorized : hit = [version |-> v, doc |-> req.warm[v], objects |-> ShownOf(v)]
  BY DEF Hits
<1>2. v \in Versions /\ {o \in req.sources : VersionOf[o] = v} \in SUBSET Objects
  BY DEF IInv, Typed, TypeOK
<1>3. ShownOf(v) \subseteq req.objects
  BY DEF ShownOf
<1>4. ~since.mixed => v \in since.readable /\ ShownOf(v) \subseteq since.shown
  BY <1>2 DEF IInv, Trusted, ShownOf
<1> QED
  BY <1>1, <1>2, <1>3, <1>4

LEMMA AnswersKeep ==
    ASSUME IInv, AnswerSearch \/ AnswerExport \/ AnswerFetch
    PROVE  IInv'
<1>1. req.phase = "granted"
  BY DEF AnswerSearch, AnswerExport, AnswerFetch
<1>2. PICK hits \in SUBSET Hits : Answered(hits)
  BY DEF AnswerSearch, AnswerExport, AnswerFetch
<1>3. /\ UNCHANGED <<w, index, changes, since, requests>> /\ Request(req')
      /\ req'.phase = "answered" /\ req'.caller = req.caller /\ req'.answer = hits
      /\ req'.objects = {} /\ req'.sources = {} /\ req'.rows = {} /\ req'.authorized = {}
  BY <1>2 DEF Answered, Goes, NoRequest, Request
<1>4. links' \subseteq Links
  <2>1. links \subseteq Links /\ req.caller \in Callers /\ req.objects \subseteq Objects
    BY <1>1 DEF IInv, Typed, TypeOK, InFlight
  <2>2. \A h \in Hits : \A o \in h.objects :
          [caller |-> req.caller, version |-> h.version, object |-> o] \in Links
    BY <1>1, <2>1, HitsSound DEF Links
  <2> QED
    BY <2>1, <2>2 DEF AnswerSearch, AnswerExport, AnswerFetch
<1>5. Typed'
  BY <1>1, <1>3, <1>4 DEF IInv, Typed, TypeOK, Shaped, InFlight
<1>6. UnmixedAnswers' /\ UnmixedCitations'
  BY <1>1, <1>2, <1>3, HitsSound DEF UnmixedAnswers, UnmixedCitations
<1> QED
  BY <1>3, <1>5, <1>6 DEF IInv, Recorded, Trusted, InFlight

LEMMA StepHolds == IInv /\ [Next]_vars => IInv'
<1> SUFFICES ASSUME IInv, [Next]_vars PROVE IInv'
  OBVIOUS
<1>1. CASE UNCHANGED vars
  BY <1>1 DEF vars, IInv, Typed, TypeOK, Shaped, Request, InFlight, Recorded, Trusted,
              UnmixedAnswers, UnmixedCitations, Links
<1>2. ASSUME NEW l \in links, LinkExpires(l) PROVE IInv'
  BY <1>2 DEF LinkExpires, IInv, Typed, TypeOK, Shaped, Request, InFlight, Recorded, Trusted,
              UnmixedAnswers, UnmixedCitations, Links
<1>3. CASE RequestStep
  BY <1>3, PassesKeep, ChecksKeep, AnswersKeep DEF RequestStep
<1> QED
  BY <1>1, <1>2, <1>3, OthersCommit, OthersKeep, RequestsKeep DEF Next

THEOREM Invariant == Spec => []IInv
  BY InitHolds, StepHolds, PTL DEF Spec

(* The type invariant, for any firm.                                       *)
THEOREM TypeCorrect == Spec => []TypeOK
<1>1. IInv => TypeOK
  BY DEF IInv, Typed
<1> QED
  BY <1>1, Invariant, PTL

(* Whatever the statements of a request interleave with, a version is in   *)
(* its answer only if its caller could read it at some moment since the    *)
(* request began: scope, index and link add nothing.                       *)
THEOREM AnswersWereReadable == Spec => []UnmixedAnswers
<1>1. IInv => UnmixedAnswers
  BY DEF IInv
<1> QED
  BY <1>1, Invariant, PTL

(* The observations cited are ones that, alone, the predicate would have   *)
(* let the caller see at some moment since the request began.              *)
THEOREM CitationsWereShown == Spec => []UnmixedCitations
<1>1. IInv => UnmixedCitations
  BY DEF IInv
<1> QED
  BY <1>1, Invariant, PTL

(* What a request compares grants with is the smallest set that membership *)
(* closes, with its aliases, for groups nested to any depth and in rings.  *)
THEOREM GroupsAreClosed == Spec => []ExpansionIsClosure
<1>1. IInv => ExpansionIsClosure
  <2> SUFFICES ASSUME IInv, req.phase \in {"identified", "recognised"}, ~since.mixed
               PROVE  req.ps = ApplyAliases(Closure(w.members, ApplyAliases(req.caller)))
    BY DEF ExpansionIsClosure
  <2>1. req.ps = ApplyAliases(Expanded(w.members, ApplyAliases(req.caller)))
    BY DEF IInv, Trusted, Resolved
  <2>2. req.caller \in SUBSET Principals /\ w.members \in SUBSET (Principals \X Groups)
    BY CallersAssumption DEF IInv, Typed, TypeOK, InFlight, Worlds
  <2>3. ApplyAliases(req.caller) \in SUBSET Principals
    BY <2>2, AliasesAssumption DEF ApplyAliases
  <2> QED
    BY <2>1, <2>2, <2>3, ExpandedIsClosure
<1> QED
  BY <1>1, Invariant, PTL

(***************************************************************************)
(* What a search finds                                                     *)
(*                                                                         *)
(* What has been findable all along, a triple of a version, its document   *)
(* and an observation, has the same row in the index all along, and is in  *)
(* whatever the statements so far have computed (Reached).                 *)
(***************************************************************************)
(* Shown is not narrower than the predicate, administrators through an     *)
(* alias aside.                                                            *)
LEMMA GatedIsShown ==
    ASSUME NEW x \in Worlds, NEW caller, NEW o \in ShownNow(x, caller),
           IsAdmin(Resolved(x.members, caller)) => IsAdmin(caller)
    PROVE  o \in Shown({o}, x.oacl, Resolved(x.members, caller), caller)
<1> DEFINE ps == Resolved(x.members, caller)
<1>1. CASE IsAdmin(caller)
  BY <1>1 DEF Shown
<1>2. CASE ~IsAdmin(caller)
  <2>1. o \in Objects /\ SourceGate(Alone(x, o), ps, VersionOf[o])
        /\ NoSourceDeny(Alone(x, o), ps, VersionOf[o])
    BY <1>2 DEF ShownNow
  <2>2. Observations(Alone(x, o), VersionOf[o]) = {o} /\ Alone(x, o).oacl = x.oacl
    BY <2>1 DEF Observations, Alone, Worlds
  <2>3. ~Denied(x.oacl[o], ps)
    BY <2>1, <2>2 DEF NoSourceDeny
  <2>4. Allowed(x.oacl[o], ps) \/ (o \in LocalObjects /\ x.oacl[o] = NoGrants)
    BY <2>1, <2>2 DEF SourceGate, SourceAllow, ProjectScoped
  <2>5. ~Allowed(NoGrants, ps)
    BY DEF Allowed, NoGrants
  <2> QED
    BY <1>2, <2>3, <2>4, <2>5 DEF Shown
<1> QED
  BY <1>1, <1>2

Searching == InFlight /\ req.kind = "search"

Reached(x) ==
    /\ req.phase = "found" => index[x[1]] \in req.found
    /\ req.phase = "compiled" => Matches(index[x[1]], req.scope)
    /\ req.phase \in {"queried", "warm", "recognised"} => x[1] \in req.rows
    /\ req.phase \in {"warm", "recognised", "authorized", "sourced", "granted"}
       => req.warm[x[1]] = x[2]
    /\ req.phase \in {"authorized", "sourced", "granted"} => x[1] \in req.authorized
    /\ req.phase \in {"sourced", "granted"} => x[3] \in req.sources
    /\ req.phase = "granted"
       => x[3] \in Shown({x[3]}, req.grants, Resolved(w.members, req.caller), req.caller)

Ahead ==
    Searching =>
        /\ req.asked \in Projects \union {NoProject} /\ req.objects = Objects
        /\ since.steady \subseteq Findable(w, index, req.caller, req.asked)
        /\ ~since.mixed => \A x \in since.steady : Reached(x)

Seeks == IInv /\ Ahead /\ UnmixedFinds

(* A findable triple, spelt out.                                           *)
LEMMA FindableParts ==
    \A base, rows, caller, asked : \A f \in Findable(base, rows, caller, asked) :
        /\ f[1] \in Versions /\ f[2] = base.doc[f[1]] /\ f[3] \in Objects
        /\ f[3] \in ShownNow(base, caller) \ base.gone /\ VersionOf[f[3]] = f[1]
        /\ ReadableBy(base, Resolved(base.members, caller), f[1])
        /\ IsAdmin(Resolved(base.members, caller)) => IsAdmin(caller)
        /\ rows[f[1]] = Row(base, f[1])
        /\ asked = NoProject => rows[f[1]].project \in Projects
        /\ asked # NoProject => rows[f[1]].project = asked
<1> SUFFICES ASSUME NEW x, NEW i, NEW caller, NEW asked, NEW t \in Findable(x, i, caller, asked)
             PROVE  /\ t[1] \in Versions /\ t[2] = x.doc[t[1]] /\ t[3] \in Objects
                    /\ t[3] \in ShownNow(x, caller) \ x.gone /\ VersionOf[t[3]] = t[1]
                    /\ ReadableBy(x, Resolved(x.members, caller), t[1])
                    /\ IsAdmin(Resolved(x.members, caller)) => IsAdmin(caller)
                    /\ i[t[1]] = Row(x, t[1])
                    /\ asked = NoProject => i[t[1]].project \in Projects
                    /\ asked # NoProject => i[t[1]].project = asked
  OBVIOUS
<1>1. PICK o \in ShownNow(x, caller) \ x.gone :
         /\ t = <<VersionOf[o], x.doc[VersionOf[o]], o>>
         /\ VersionOf[o] \in {y \in ReadableVersions(x, caller) :
              /\ IsAdmin(Resolved(x.members, caller)) => IsAdmin(caller)
              /\ i[y] = Row(x, y)
              /\ i[y].project \in (IF asked = NoProject THEN Projects ELSE {asked})}
  BY DEF Findable
<1>2. o \in Objects
  BY <1>1 DEF ShownNow
<1> QED
  BY <1>1, <1>2 DEF ReadableVersions, Readable

LEMMA CommitSeeks ==
    ASSUME Seeks, IInv', NEW x \in Worlds, NEW i, Commit(x, i),
           i = index \/ (x = w /\ \E v \in Versions : i = [index EXCEPT ![v] = Row(w, v)])
    PROVE  Seeks'
<1>1. w' = x /\ index' = i /\ req' = req
  BY DEF Commit
<1>2. CASE ~InFlight
  <2>1. since' = since
    BY <1>2 DEF Commit, Noted, InFlight
  <2> QED
    BY <1>1, <1>2, <2>1 DEF Seeks, Ahead, Searching, InFlight, UnmixedFinds
<1>3. CASE InFlight
  <2>1. /\ since'.steady = since.steady \intersect Findable(w', index', req.caller, req.asked)
        /\ since'.mixed = (since.mixed \/ (/\ req.phase \in {"identified", "recognised", "granted"}
                                          /\ w'.members # w.members))
    BY <1>3 DEF Commit, Noted, InFlight
  <2>2. UnmixedFinds'
    BY <1>1, <1>3 DEF UnmixedFinds, InFlight
  <2>3. SUFFICES ASSUME Searching PROVE Ahead'
    BY <1>1, <2>2 DEF Seeks, Ahead, Searching, InFlight
  <2>4. since'.steady \subseteq Findable(w', index', req'.caller, req'.asked)
    BY <1>1, <2>1
  <2>5. ASSUME ~since'.mixed PROVE \A t \in since'.steady : Reached(t)'
    <3>1. ~since.mixed /\ (req.phase = "granted" => w'.members = w.members)
      BY <2>1, <2>5
    <3>2. ASSUME NEW t \in since'.steady PROVE Reached(t)'
      <4>1. Reached(t) /\ t \in Findable(w, index, req.caller, req.asked)
        BY <2>1, <2>3, <3>1 DEF Seeks, Ahead
      <4>2. t[1] \in Versions /\ index[t[1]] = Row(w, t[1])
        BY <4>1, FindableParts
      <4>3. index'[t[1]] = index[t[1]]
        BY <1>1, <4>2 DEF IInv, Typed, TypeOK
      <4> QED
        BY <1>1, <3>1, <4>1, <4>3 DEF Reached
    <3> QED
      BY <1>1, <2>3, <3>1, <3>2 DEF Seeks, Ahead
  <2> QED
    BY <1>1, <2>3, <2>4, <2>5 DEF Seeks, Ahead
<1> QED
  BY <1>2, <1>3

LEMMA OthersSeek == Seeks /\ IInv' /\ Committed => Seeks'
  BY CommitSeeks DEF Committed

LEMMA RequestsSeek ==
    ASSUME Seeks, IInv',
           \/ \E c \in Callers :
                 \/ \E p \in Projects \union {NoProject} : BeginSearch(c, p)
                 \/ \E v \in Versions : BeginExport(c, v, Objects)
           \/ \E l \in links : BeginFetch(l)
    PROVE  Seeks'
<1>1. ASSUME NEW c \in Callers, NEW p \in Projects \union {NoProject}, BeginSearch(c, p)
      PROVE  Seeks'
  <2>1. /\ UNCHANGED <<w, index>> /\ Began(c, p)
        /\ req'.phase = "begun" /\ req'.caller = c /\ req'.asked = p /\ req'.objects = Objects
    BY <1>1 DEF BeginSearch, Begin, Goes, NoRequest
  <2>2. since'.steady = Findable(w', index', req'.caller, req'.asked)
    BY <2>1 DEF Began
  <2>3. \A x : Reached(x)'
    BY <2>1 DEF Reached
  <2> QED
    BY <2>1, <2>2, <2>3 DEF Seeks, Ahead, UnmixedFinds
<1>2. ASSUME NEW c \in Callers, NEW v \in Versions, BeginExport(c, v, Objects) PROVE Seeks'
  <2>1. req'.kind = "export"
    BY <1>2 DEF BeginExport, Begin, Goes, NoRequest
  <2> QED
    BY <2>1 DEF Seeks, Ahead, Searching, UnmixedFinds
<1>3. ASSUME NEW l \in links, BeginFetch(l) PROVE Seeks'
  <2>1. req'.kind = "fetch"
    BY <1>3 DEF BeginFetch, Begin, Goes, NoRequest
  <2> QED
    BY <2>1 DEF Seeks, Ahead, Searching, UnmixedFinds
<1> QED
  BY <1>1, <1>2, <1>3

(* A statement of a search need only bring along what was found so far.    *)
LEMMA StatementSeeks ==
    ASSUME Seeks, IInv', Quiet, InFlight, InFlight',
           req'.kind = req.kind, req'.caller = req.caller, req'.asked = req.asked,
           req'.objects = req.objects,
           Searching /\ ~since.mixed => \A x \in since.steady : Reached(x)'
    PROVE  Seeks'
  BY DEF Seeks, Ahead, Searching, UnmixedFinds, Quiet, InFlight

(* What is steady, as it is now.                                           *)
LEMMA SteadyParts ==
    ASSUME Seeks, Searching, ~since.mixed, NEW x \in since.steady
    PROVE  /\ Reached(x)
           /\ x[1] \in Versions /\ x[2] = w.doc[x[1]] /\ x[3] \in Objects
           /\ x[3] \in ShownNow(w, req.caller) \ w.gone /\ VersionOf[x[3]] = x[1]
           /\ ReadableBy(w, Resolved(w.members, req.caller), x[1])
           /\ IsAdmin(Resolved(w.members, req.caller)) => IsAdmin(req.caller)
           /\ index[x[1]] = Row(w, x[1])
           /\ req.asked = NoProject => index[x[1]].project \in Projects
           /\ req.asked # NoProject => index[x[1]].project = req.asked
<1>1. Reached(x) /\ x \in Findable(w, index, req.caller, req.asked)
  BY DEF Seeks, Ahead
<1> QED
  BY <1>1, FindableParts

(* The row of a document that is readable passes the compiled filter.      *)
LEMMA RowMatches ==
    ASSUME NEW base, NEW caller, NEW found, NEW row \in found,
           NEW asked \in Projects \union {NoProject},
           asked = NoProject => row.project \in Projects,
           asked # NoProject => row.project = asked
    PROVE  Matches(row, CompiledScope(base, caller, found, asked))
<1>1. row.project \in Projects
  OBVIOUS
<1>2. row.project \in VisibleProjects(base, caller, found)
  BY <1>1, NoProjectAssumption DEF VisibleProjects
<1>3. CASE asked = NoProject
  BY <1>2, <1>3 DEF CompiledScope, Matches
<1>4. CASE asked # NoProject
  BY <1>2, <1>4 DEF CompiledScope, Matches
<1> QED
  BY <1>3, <1>4

LEMMA PassesSeek ==
    ASSUME Seeks, IInv', Identify \/ FindReadable \/ Compile \/ Query \/ Warm
    PROVE  Seeks'
<1>1. Request(req)
  BY DEF Seeks, IInv, Typed, Shaped
<1> DEFINE Passed(from, to) ==
      /\ Quiet /\ req.phase = from /\ req'.phase = to /\ req'.kind = req.kind
      /\ req'.caller = req.caller /\ req'.asked = req.asked /\ req'.objects = req.objects
<1> SUFFICES ASSUME Searching, ~since.mixed PROVE \A x \in since.steady : Reached(x)'
  <2>1. \E from, to \in {"begun", "identified", "found", "compiled", "queried", "warm"} :
          Passed(from, to)
    BY <1>1 DEF Identify, FindReadable, Compile, Query, Warm, Step, Goes, Quiet, Request
  <2>2. InFlight /\ InFlight'
    BY <2>1 DEF InFlight
  <2> QED
    BY <2>1, <2>2, StatementSeeks
<1>2. CASE Identify
  <2>1. Passed("begun", "identified")
    BY <1>1, <1>2 DEF Identify, Step, Goes, Quiet, Request
  <2> QED
    BY <2>1 DEF Reached
<1>3. CASE FindReadable
  <2>1. Passed("identified", "found") /\ req'.found = ReadableRows(w, req.ps) /\ index' = index
    BY <1>1, <1>3 DEF FindReadable, Step, Goes, Quiet, Request
  <2>2. req.ps = Resolved(w.members, req.caller)
    BY <2>1 DEF Seeks, IInv, Trusted
  <2>3. \A x \in since.steady : index[x[1]] \in req'.found
    BY <2>1, <2>2, SteadyParts DEF ReadableRows
  <2> QED
    BY <2>1, <2>3 DEF Reached
<1>4. CASE Compile
  <2>1. Passed("found", "compiled") /\ index' = index
        /\ req'.scope = CompiledScope(w, req.caller, req.found, req.asked)
    BY <1>1, <1>4 DEF Compile, Step, Goes, Quiet, Request
  <2>2. ASSUME NEW x \in since.steady PROVE Matches(index[x[1]], req'.scope)
    <3>1. index[x[1]] \in req.found
      BY <2>1, SteadyParts DEF Reached
    <3>2. req.asked \in Projects \union {NoProject}
      BY DEF Seeks, Ahead
    <3> QED
      BY <2>1, <3>1, <3>2, SteadyParts, RowMatches
  <2> QED
    BY <2>1, <2>2 DEF Reached
<1>5. CASE Query
  <2>1. Passed("compiled", "queried")
        /\ req'.rows = {v \in Versions : /\ Matches(index[v], req.scope)
                                         /\ req.asked = NoProject \/ index[v].project = req.asked}
    BY <1>1, <1>5 DEF Query, Step, Goes, Quiet, Request
  <2>2. \A x \in since.steady : x[1] \in req'.rows
    BY <2>1, SteadyParts DEF Reached
  <2> QED
    BY <2>1, <2>2 DEF Reached
<1>6. CASE Warm
  <2>1. Passed("queried", "warm") /\ req'.warm = w.doc
        /\ req'.rows = {v \in req.rows : index[v].doc = w.doc[v]}
    BY <1>1, <1>6 DEF Warm, Step, Goes, Quiet, Request
  <2>2. ASSUME NEW x \in since.steady PROVE x[1] \in req'.rows /\ req'.warm[x[1]] = x[2]
    <3>1. x[1] \in req.rows /\ index[x[1]] = Row(w, x[1]) /\ x[2] = w.doc[x[1]]
      BY <2>1, SteadyParts DEF Reached
    <3>2. index[x[1]].doc = w.doc[x[1]]
      BY <3>1 DEF Row
    <3> QED
      BY <2>1, <3>1, <3>2
  <2> QED
    BY <2>1, <2>2 DEF Reached
<1> QED
  BY <1>2, <1>3, <1>4, <1>5, <1>6

(* _bulk_authorized_sources loses nothing steady: its version is read, its *)
(* observation is loaded, and the grants of the observation show it.       *)
LEMMA ChecksSeek ==
    ASSUME Seeks, IInv', Recognise \/ Authorize \/ LoadSources \/ LoadGrants
    PROVE  Seeks'
<1>1. Request(req)
  BY DEF Seeks, IInv, Typed, Shaped
<1> DEFINE Passed(from, to) ==
      /\ Quiet /\ req.phase = from /\ req'.phase = to /\ req'.kind = req.kind
      /\ req'.caller = req.caller /\ req'.asked = req.asked /\ req'.objects = req.objects
      /\ req'.warm = req.warm
<1> SUFFICES ASSUME Searching, ~since.mixed PROVE \A x \in since.steady : Reached(x)'
  <2>1. \E from, to \in {"warm", "recognised", "authorized", "sourced", "granted"} :
          Passed(from, to)
    BY <1>1 DEF Recognise, Authorize, LoadSources, LoadGrants, Step, Goes, Quiet, Request
  <2>2. InFlight /\ InFlight'
    BY <2>1 DEF InFlight
  <2> QED
    BY <2>1, <2>2, StatementSeeks
<1>2. CASE Recognise
  <2>1. Passed("warm", "recognised") /\ req'.rows = req.rows
    BY <1>1, <1>2 DEF Recognise, Step, Goes, Quiet, Request
  <2> QED
    BY <2>1, SteadyParts DEF Reached
<1>3. CASE Authorize
  <2>1. Passed("recognised", "authorized")
        /\ req'.authorized = {v \in req.rows : ReadableBy(w, req.ps, v)}
    BY <1>1, <1>3 DEF Authorize, Authorized, Step, Goes, Quiet, Request
  <2>2. req.ps = Resolved(w.members, req.caller)
    BY <2>1 DEF Seeks, IInv, Trusted
  <2>3. \A x \in since.steady : x[1] \in req'.authorized /\ req.warm[x[1]] = x[2]
    BY <2>1, <2>2, SteadyParts DEF Reached
  <2> QED
    BY <2>1, <2>3 DEF Reached
<1>4. CASE LoadSources
  <2>1. Passed("authorized", "sourced") /\ req'.authorized = req.authorized
        /\ req'.sources = UNION {Observations(w, v) : v \in req.authorized}
    BY <1>1, <1>4 DEF LoadSources, Step, Goes, Quiet, Request
  <2>2. ASSUME NEW x \in since.steady
        PROVE  x[1] \in req.authorized /\ req.warm[x[1]] = x[2] /\ x[3] \in req'.sources
    <3>1. x[1] \in req.authorized /\ req.warm[x[1]] = x[2] /\ x[3] \in Observations(w, x[1])
      BY <2>1, SteadyParts DEF Reached, Observations
    <3> QED
      BY <2>1, <3>1
  <2> QED
    BY <2>1, <2>2 DEF Reached
<1>5. CASE LoadGrants
  <2>1. Passed("sourced", "granted") /\ req'.authorized = req.authorized
        /\ req'.sources = req.sources /\ req'.grants = w.oacl /\ w' = w
    BY <1>1, <1>5 DEF LoadGrants, Step, Goes, Quiet, Request
  <2>2. ASSUME NEW x \in since.steady
        PROVE  /\ x[1] \in req.authorized /\ req.warm[x[1]] = x[2] /\ x[3] \in req.sources
               /\ x[3] \in Shown({x[3]}, w.oacl, Resolved(w.members, req.caller), req.caller)
    <3>1. w \in Worlds /\ x[3] \in ShownNow(w, req.caller)
      BY SteadyParts DEF Seeks, IInv, Typed, TypeOK
    <3>2. IsAdmin(Resolved(w.members, req.caller)) => IsAdmin(req.caller)
      BY SteadyParts
    <3>3. x[3] \in Shown({x[3]}, w.oacl, Resolved(w.members, req.caller), req.caller)
      BY <3>1, <3>2, GatedIsShown
    <3> QED
      BY <2>1, <3>3, SteadyParts DEF Reached
  <2> QED
    BY <2>1, <2>2 DEF Reached
<1> QED
  BY <1>2, <1>3, <1>4, <1>5

(* An observation that is shown alone is shown with others.                *)
LEMMA ShownAmong ==
    ASSUME NEW S, NEW o \in S, NEW oacl, NEW ps, NEW caller, o \in Shown({o}, oacl, ps, caller)
    PROVE  o \in Shown(S, oacl, ps, caller)
  BY DEF Shown

LEMMA AnswersSeek ==
    ASSUME Seeks, IInv', AnswerSearch \/ AnswerExport \/ AnswerFetch
    PROVE  Seeks'
<1>1. Request(req)
  BY DEF Seeks, IInv, Typed, Shaped
<1>2. PICK hits \in SUBSET Hits : Answered(hits)
  BY DEF AnswerSearch, AnswerExport, AnswerFetch
<1>3. req'.phase = "answered" /\ req'.kind = req.kind /\ since' = since
  BY <1>1, <1>2 DEF Answered, Goes, NoRequest
<1>4. Ahead'
  BY <1>3 DEF Ahead, Searching, InFlight
<1>5. ASSUME req.kind = "search", ~since.mixed, NEW x \in since.steady
      PROVE  \E h \in req'.answer : h.doc = x[2]
  <2>1. AnswerSearch /\ req.phase = "granted" /\ Searching
    BY <1>5 DEF AnswerSearch, AnswerExport, AnswerFetch, Searching, InFlight
  <2>2. PICK found \in SUBSET Hits : (\A d \in {h.doc : h \in Hits} : \E h \in found : h.doc = d)
                                     /\ Answered(found)
    BY <2>1 DEF AnswerSearch
  <2>3. req'.answer = found
    BY <1>1, <2>2 DEF Answered, Goes, NoRequest
  <2>4. /\ x[1] \in req.authorized /\ x[3] \in req.sources /\ req.warm[x[1]] = x[2]
        /\ x[3] \in Shown({x[3]}, req.grants, Resolved(w.members, req.caller), req.caller)
        /\ VersionOf[x[3]] = x[1] /\ x[3] \in req.objects
    BY <1>5, <2>1, SteadyParts DEF Reached, Seeks, Ahead
  <2>5. x[3] \in ShownOf(x[1])
    BY <2>4, ShownAmong DEF ShownOf
  <2>6. [version |-> x[1], doc |-> req.warm[x[1]], objects |-> ShownOf(x[1])] \in Hits
    BY <2>4, <2>5 DEF Hits
  <2>7. x[2] \in {h.doc : h \in Hits}
    BY <2>4, <2>6
  <2> QED
    BY <2>2, <2>3, <2>7
<1>6. UnmixedFinds'
  BY <1>3, <1>5 DEF UnmixedFinds
<1> QED
  BY <1>4, <1>6 DEF Seeks

LEMMA StepSeeks == Seeks /\ [Next]_vars => Seeks'
<1> SUFFICES ASSUME Seeks, [Next]_vars PROVE Seeks'
  OBVIOUS
<1>1. IInv'
  BY StepHolds DEF Seeks
<1>2. CASE UNCHANGED vars
  BY <1>1, <1>2 DEF vars, Seeks, Ahead, Searching, InFlight, UnmixedFinds, Reached
<1>3. ASSUME NEW l \in links, LinkExpires(l) PROVE Seeks'
  BY <1>1, <1>3 DEF LinkExpires, Seeks, Ahead, Searching, InFlight, UnmixedFinds, Reached
<1>4. CASE RequestStep
  BY <1>1, <1>4, PassesSeek, ChecksSeek, AnswersSeek DEF RequestStep
<1>5. Committed => Seeks'
  BY <1>1, OthersSeek
<1> QED
  BY <1>1, <1>2, <1>3, <1>4, <1>5, OthersCommit, RequestsSeek DEF Next, Seeks

(* Whatever the statements of a search interleave with, a document that    *)
(* was findable all along is found: neither the scope compiled from rows   *)
(* read earlier, nor the filter of the index, nor the second computation   *)
(* of who may see which observation loses it.                              *)
THEOREM SearchFinds == Spec => []UnmixedFinds
<1>1. Init => Seeks
  <2>1. Init => req.phase = "idle"
    BY DEF Init, NoRequest
  <2> QED
    BY <2>1, InitHolds DEF Seeks, Ahead, Searching, InFlight, UnmixedFinds
<1>2. Seeks => UnmixedFinds
  BY DEF Seeks
<1> QED
  BY <1>1, <1>2, StepSeeks, PTL DEF Spec

=============================================================================
