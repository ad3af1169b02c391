---------------------------- MODULE MatterProofs ----------------------------
(* Proofs about what a matter is made of: the relations of its files, for  *)
(* any finite number of files, any statements, any number of identifiers,  *)
(* workers and failures; then its profile, for any number of documents,    *)
(* marks, retries and failures.                                            *)
EXTENDS FileRelations, MatterProfiles, FiniteSetTheorems, SequenceTheorems,
        WellFoundedInduction, TLAPS

Fields == {"link", "doc", "ord", "final", "docs", "crown", "supersedes", "refers",
           "intents", "assigned", "derived", "fresh"}
Shaped(k) == DOMAIN k = Fields /\ k.fresh \in Nat

SameRows(k, r) == r.link = k.link /\ r.doc = k.doc /\ r.docs = k.docs /\ r.fresh = k.fresh
SameEdges(k, r) == r.supersedes = k.supersedes /\ r.refers = k.refers
SameRest(k, r) == r.intents = k.intents /\ r.assigned = k.assigned /\ r.derived = k.derived
SameRefers(k, r) == r.refers = k.refers
SameSupersedes(k, r) == r.supersedes = k.supersedes
SameMarks(k, r) == r.ord = k.ord /\ r.crown = k.crown /\ r.final = k.final
Put(g, x, e) == [g EXCEPT ![x] = e]

LEMMA TablesShaped == ASSUME fresh \in Nat PROVE Shaped(Tables)
BY DEF Tables, Shaped, Fields

LEMMA WithVersionFields ==
    ASSUME NEW k, Shaped(k), NEW d, NEW f, NEW r, r = WithVersion(k, d, f)
    PROVE  /\ Shaped(r) /\ SameEdges(k, r) /\ SameRest(k, r)
           /\ r.docs = k.docs /\ r.crown = k.crown /\ r.fresh = k.fresh + 1
           /\ r.link = Put(k.link, f, k.fresh)
           /\ r.doc = Put(k.doc, k.fresh, d)
           /\ r.ord = Put(k.ord, k.fresh, 1)
           /\ r.final = k.final \ {k.fresh}
BY DEF WithVersion, Shaped, Fields, Put, SameEdges, SameRest

LEMMA WithEntityFields ==
    ASSUME NEW k, Shaped(k), NEW f, NEW r, r = WithEntity(k, f)
    PROVE  /\ Shaped(r) /\ SameEdges(k, r) /\ SameRest(k, r)
           /\ r.crown = k.crown /\ r.fresh = k.fresh + 1
           /\ r.link = Put(k.link, f, k.fresh)
           /\ r.doc = Put(k.doc, k.fresh, k.fresh)
           /\ r.ord = Put(k.ord, k.fresh, 1)
           /\ r.final = k.final \ {k.fresh}
           /\ r.docs = k.docs \union {k.fresh}
<1> DEFINE w == WithVersion(k, k.fresh, f)
<1>1. r = [w EXCEPT !.docs = w.docs \union {k.fresh}]
  BY DEF WithEntity
<1>w. w = WithVersion(k, k.fresh, f)
  OBVIOUS
<1> HIDE DEF w
<1>2. /\ Shaped(w) /\ SameEdges(k, w) /\ SameRest(k, w)
      /\ w.docs = k.docs /\ w.crown = k.crown /\ w.fresh = k.fresh + 1
      /\ w.link = Put(k.link, f, k.fresh)
      /\ w.doc = Put(k.doc, k.fresh, k.fresh)
      /\ w.ord = Put(k.ord, k.fresh, 1)
      /\ w.final = k.final \ {k.fresh}
  BY <1>w, WithVersionFields
<1> QED
  BY <1>1, <1>2 DEF Shaped, Fields, SameEdges, SameRest

LEMMA CrownedFields ==
    ASSUME NEW k, Shaped(k), NEW d, NEW r, r = Crowned(k, d)
    PROVE  /\ Shaped(r) /\ SameRows(k, r) /\ SameEdges(k, r) /\ SameRest(k, r)
           /\ r.ord = k.ord /\ r.final = k.final
BY DEF Crowned, Shaped, Fields, SameRows, SameEdges, SameRest

LEMMA RenumberedFields ==
    ASSUME NEW k, Shaped(k), NEW d, NEW r, r = Renumbered(k, d)
    PROVE  /\ Shaped(r) /\ SameRows(k, r) /\ SameEdges(k, r) /\ SameRest(k, r)
           /\ r.final = k.final
<1> PICK o : r = Crowned([k EXCEPT !.ord = o], d)
  BY DEF Renumbered
<1> DEFINE w == [k EXCEPT !.ord = o]
<1>1. Shaped(w) /\ SameRows(k, w) /\ SameEdges(k, w) /\ SameRest(k, w) /\ w.final = k.final
  BY DEF Shaped, Fields, SameRows, SameEdges, SameRest
<1>2. r = Crowned(w, d)
  OBVIOUS
<1> HIDE DEF w
<1>3. /\ Shaped(r) /\ SameRows(w, r) /\ SameEdges(w, r) /\ SameRest(w, r)
      /\ r.final = w.final
  BY <1>1, <1>2, CrownedFields
<1> QED
  BY <1>1, <1>3 DEF SameRows, SameEdges, SameRest

(* What rows of edges a step may leave: old ones as they were, and new     *)
(* ones between the ends given.                                            *)
Grown(old, new, ends) ==
    \A q \in DOMAIN new :
        (q \in DOMAIN old /\ new[q] = old[q]) \/ (q \in ends \X ends /\ new[q] = q)

LEMMA InsertedGrown ==
    ASSUME NEW edges, NEW kept, kept \subseteq DOMAIN edges, NEW ends,
           NEW new, new \subseteq ends \X ends, NEW r, r = Inserted(Restrict(edges, kept), new)
    PROVE  Grown(edges, r, ends)
<1> DEFINE m == Restrict(edges, kept)
<1>1. DOMAIN m = kept /\ \A q \in kept : m[q] = edges[q]
  BY DEF Restrict
<1>2. r = Inserted(m, new)
  OBVIOUS
<1> HIDE DEF m
<1>3. /\ DOMAIN r = kept \union (new \ Range(m))
      /\ \A q \in DOMAIN r : r[q] = IF q \in kept THEN m[q] ELSE q
  BY <1>1, <1>2 DEF Inserted
<1> QED
  BY <1>1, <1>3 DEF Grown

LEMMA GrownSame == \A edges, ends : Grown(edges, edges, ends)
BY DEF Grown

LEMMA OrderedFields ==
    ASSUME NEW k, Shaped(k), NEW v, NEW t, NEW order, NEW r, r = Ordered(k, v, t, order)
    PROVE  /\ Shaped(r) /\ SameRows(k, r) /\ SameRest(k, r) /\ SameRefers(k, r)
           /\ Grown(k.supersedes, r.supersedes, {v, t})
<1> DEFINE edge == CASE order = "before" -> {<<t, v>>}
                     [] order = "after" -> {<<v, t>>}
                     [] OTHER -> {}
           contrary == {<<v, t>>, <<t, v>>} \ edge
           kept == {q \in DOMAIN k.supersedes : k.supersedes[q] \notin contrary}
           grown == Inserted(Restrict(k.supersedes, kept), edge)
<1>1. PICK o : r = Renumbered([k EXCEPT !.ord = o, !.supersedes = grown], k.doc[v])
  BY DEF Ordered
<1>2. Grown(k.supersedes, grown, {v, t})
  <2>1. edge \subseteq {v, t} \X {v, t}
    OBVIOUS
  <2>2. kept \subseteq DOMAIN k.supersedes
    OBVIOUS
  <2>3. grown = Inserted(Restrict(k.supersedes, kept), edge)
    OBVIOUS
  <2> HIDE DEF edge, kept, grown
  <2> QED
    BY <2>1, <2>2, <2>3, InsertedGrown
<1> HIDE DEF grown
<1> DEFINE w == [k EXCEPT !.ord = o, !.supersedes = grown]
<1>3. /\ Shaped(w) /\ SameRows(k, w) /\ SameRest(k, w)
      /\ w.refers = k.refers /\ w.supersedes = grown
  BY DEF Shaped, Fields, SameRows, SameRest
<1>4. r = Renumbered(w, k.doc[v])
  BY <1>1
<1> HIDE DEF w
<1>5. /\ Shaped(r) /\ SameRows(w, r) /\ SameEdges(w, r) /\ SameRest(w, r)
  BY <1>3, <1>4, RenumberedFields
<1> QED
  BY <1>2, <1>3, <1>5 DEF SameRows, SameEdges, SameRest, SameRefers

LEMMA JudgedFields ==
    ASSUME NEW k, Shaped(k), NEW f, NEW a, NEW r, r = Judged(k, f, a)
    PROVE  /\ Shaped(r) /\ SameRows(k, r) /\ SameEdges(k, r) /\ SameRest(k, r)
           /\ r.ord = k.ord /\ r.crown = k.crown
           /\ r.final \in {k.final \union {k.link[f]}, k.final \ {k.link[f]}}
BY DEF Judged, Shaped, Fields, SameRows, SameEdges, SameRest

LEMMA ParkedFields ==
    ASSUME NEW k, Shaped(k), NEW f, NEW t, NEW intent, NEW a,
           NEW r, r = Parked(k, f, t, intent, a)
    PROVE  /\ Shaped(r) /\ SameRows(k, r) /\ SameEdges(k, r)
           /\ r.ord = k.ord /\ r.crown = k.crown /\ r.final = k.final
           /\ r.assigned = k.assigned /\ r.derived = k.derived
           /\ \/ r.intents = k.intents
              \/ r.intents = k.intents \union
                    {[origin |-> f, target |-> t, intent |-> intent,
                      identity |-> a.identity, order |-> a.order, status |-> "pending"]}
<1>1. CASE r = k
  BY <1>1 DEF SameRows, SameEdges
<1>2. CASE r # k
  <2>1. r = [k EXCEPT !.intents = @ \union
               {[origin |-> f, target |-> t, intent |-> intent,
                 identity |-> a.identity, order |-> a.order, status |-> "pending"]}]
    BY <1>2 DEF Parked
  <2> QED
    BY <2>1 DEF Shaped, Fields, SameRows, SameEdges
<1> QED
  BY <1>1, <1>2

LEMMA RelatedFields ==
    ASSUME NEW k, Shaped(k), NEW f, NEW g, NEW r, r = Related(k, f, g)
    PROVE  /\ Shaped(r) /\ SameRows(k, r) /\ SameRest(k, r)
           /\ SameMarks(k, r) /\ SameSupersedes(k, r)
           /\ Grown(k.refers, r.refers, {k.doc[k.link[f]], k.doc[k.link[g]]})
<1> DEFINE here == k.doc[k.link[f]]
           there == k.doc[k.link[g]]
           grown == Inserted(k.refers, {<<here, there>>})
<1>1. CASE here = there
  BY <1>1, GrownSame DEF Related, SameRows, SameRest, SameMarks, SameSupersedes
<1>2. CASE here # there
  <2>1. r = [k EXCEPT !.refers = grown]
    BY <1>2 DEF Related
  <2>2. Grown(k.refers, grown, {here, there})
    BY DEF Inserted, Grown
  <2> HIDE DEF here, there, grown
  <2>3. /\ Shaped(r) /\ SameRows(k, r) /\ SameRest(k, r)
        /\ SameMarks(k, r) /\ SameSupersedes(k, r) /\ r.refers = grown
    BY <2>1 DEF Shaped, Fields, SameRows, SameRest, SameMarks, SameSupersedes
  <2> QED
    BY <2>2, <2>3 DEF here, there
<1> QED
  BY <1>1, <1>2

(* What is left of the rows when a ghost gives way to its survivor.        *)
Heir(x, ghost, survivor) == IF x = ghost THEN survivor ELSE x
Inherited(old, new, ghost, survivor) ==
    \A q \in DOMAIN new : /\ q \in DOMAIN old
                         /\ new[q] = <<Heir(old[q][1], ghost, survivor),
                                      Heir(old[q][2], ghost, survivor)>>

LEMMA RepointedInherited ==
    ASSUME NEW edges, NEW ghost, NEW survivor
    PROVE  Inherited(edges, Repointed(edges, ghost, survivor), ghost, survivor)
BY DEF Inherited, Repointed, Restrict, Heir

LEMMA VersionAbsorbedFields ==
    ASSUME NEW k, Shaped(k), NEW g, NEW s, NEW r, r = VersionAbsorbed(k, g, s)
    PROVE  \/ r = k /\ (g = s \/ Sources(k, g) # {})
           \/ /\ g # s /\ Sources(k, g) = {}
              /\ Shaped(r) /\ SameRest(k, r) /\ r.link = k.link /\ r.docs = k.docs
              /\ r.fresh = k.fresh /\ r.crown = k.crown /\ r.refers = k.refers
              /\ r.doc = Put(k.doc, g, 0) /\ r.ord = Put(k.ord, g, 0)
              /\ r.final = k.final \ {g}
              /\ Inherited(k.supersedes, r.supersedes, g, s)
<1>1. CASE g = s \/ Sources(k, g) # {}
  BY <1>1 DEF VersionAbsorbed
<1>2. CASE ~(g = s \/ Sources(k, g) # {})
  <2> DEFINE heirs == Repointed(k.supersedes, g, s)
  <2>1. Inherited(k.supersedes, heirs, g, s)
    BY RepointedInherited
  <2>2. r = [k EXCEPT !.doc[g] = 0, !.ord[g] = 0, !.final = @ \ {g}, !.supersedes = heirs]
    BY <1>2 DEF VersionAbsorbed
  <2> HIDE DEF heirs
  <2>3. /\ Shaped(r) /\ SameRest(k, r) /\ r.link = k.link /\ r.docs = k.docs
        /\ r.fresh = k.fresh /\ r.crown = k.crown /\ r.refers = k.refers
        /\ r.doc = Put(k.doc, g, 0) /\ r.ord = Put(k.ord, g, 0)
        /\ r.final = k.final \ {g} /\ r.supersedes = heirs
    BY <2>2 DEF Shaped, Fields, SameRest, Put
  <2> QED
    BY <1>2, <2>1, <2>3
<1> QED
  BY <1>1, <1>2

LEMMA DocumentAbsorbedFields ==
    ASSUME NEW k, Shaped(k), NEW g, NEW s, NEW r, r = DocumentAbsorbed(k, g, s)
    PROVE  \/ r = k /\ (g = s \/ Chain(k, g) # {})
           \/ /\ g # s /\ Chain(k, g) = {}
              /\ Shaped(r) /\ SameRest(k, r) /\ r.link = k.link /\ r.doc = k.doc
              /\ r.fresh = k.fresh /\ r.ord = k.ord /\ r.final = k.final
              /\ r.supersedes = k.supersedes
              /\ r.docs = k.docs \ {g} /\ r.crown = Put(k.crown, g, 0)
              /\ Inherited(k.refers, r.refers, g, s)
<1>1. CASE g = s \/ Chain(k, g) # {}
  BY <1>1 DEF DocumentAbsorbed
<1>2. CASE ~(g = s \/ Chain(k, g) # {})
  <2> DEFINE heirs == Repointed(k.refers, g, s)
  <2>1. Inherited(k.refers, heirs, g, s)
    BY RepointedInherited
  <2>2. r = [k EXCEPT !.docs = @ \ {g}, !.crown[g] = 0, !.refers = heirs]
    BY <1>2 DEF DocumentAbsorbed
  <2> HIDE DEF heirs
  <2>3. /\ Shaped(r) /\ SameRest(k, r) /\ r.link = k.link /\ r.doc = k.doc
        /\ r.fresh = k.fresh /\ r.ord = k.ord /\ r.final = k.final
        /\ r.supersedes = k.supersedes /\ r.refers = heirs
        /\ r.docs = k.docs \ {g} /\ r.crown = Put(k.crown, g, 0)
    BY <2>2 DEF Shaped, Fields, SameRest, Put
  <2> QED
    BY <1>2, <2>1, <2>3
<1> QED
  BY <1>1, <1>2

LEMMA PutType ==
    ASSUME NEW S, NEW T, NEW g \in [S -> T], NEW x, NEW e \in T
    PROVE  Put(g, x, e) \in [S -> T]
BY DEF Put

LEMMA PutAt ==
    ASSUME NEW S, NEW T, NEW g \in [S -> T], NEW x, NEW e, NEW y \in S
    PROVE  Put(g, x, e)[y] = IF y = x THEN e ELSE g[y]
BY DEF Put

(***************************************************************************)
(* Places, statuses and crowns                                             *)
(***************************************************************************)
Marks(k) == k.ord \in [Ids -> Nat] /\ k.crown \in [Ids -> 0 .. MaxIds] /\ k.final \subseteq Ids

(* Every set of numbers has a least one: an induction is the search for a  *)
(* least counterexample.                                                   *)
LEMMA Least == \A T \in SUBSET Nat : T # {} => \E n \in T : \A m \in T : ~(m < n)
<1> DEFINE R == {p \in Nat \X Nat : p[1] < p[2]}
<1>1. IsWellFoundedOn(R, Nat)
  BY NatLessThanWellFounded DEF OpToRel
<1>2. \A n, m \in Nat : m < n => <<m, n>> \in R
  OBVIOUS
<1> HIDE DEF R
<1>3. \A T \in SUBSET Nat : T # {} => \E n \in T : \A m \in T : <<m, n>> \notin R
  BY <1>1, WFMin
<1> QED
  BY <1>2, <1>3

LEMMA IdsNat == \A v \in Ids : v \in Nat /\ 1 <= v /\ v <= MaxIds
BY BoundsAssumption DEF Ids

LEMMA FiniteIds == \A V \in SUBSET Ids : IsFiniteSet(V)
<1>1. IsFiniteSet(Ids)
  BY FS_Interval, BoundsAssumption DEF Ids
<1> QED
  BY <1>1, FS_Subset

(* Newest finds a version wherever there is one.                           *)
LEMMA NewestIn ==
    ASSUME NEW k, k.ord \in [Ids -> Nat], NEW V, V \subseteq Ids, V # {}
    PROVE  Newest(k, V) \in V
<1> DEFINE Below(w, v) == k.ord[w] < k.ord[v] \/ (k.ord[w] = k.ord[v] /\ w <= v)
           UpTo(n) == {v \in V : v <= n}
           Has(n) == \E v \in UpTo(n) : \A w \in UpTo(n) : Below(w, v)
           Bad == {n \in Nat : UpTo(n) # {} /\ ~Has(n)}
<1>1. Bad = {}
  <2> SUFFICES ASSUME Bad # {} PROVE FALSE
    OBVIOUS
  <2>1. PICK n \in Bad : \A m \in Bad : ~(m < n)
    BY Least
  <2>2. n \in Nat /\ UpTo(n) # {} /\ ~Has(n)
    BY <2>1
  <2>3. n # 0
    BY <2>2, IdsNat
  <2>4. n - 1 \in Nat /\ n - 1 < n
    BY <2>2, <2>3
  <2>5. UpTo(n) = UpTo(n - 1) \union (V \intersect {n})
    BY <2>2, <2>4, IdsNat
  <2>6. UpTo(n - 1) = {} \/ Has(n - 1)
    BY <2>1, <2>4
  <2>7. \A v \in V : k.ord[v] \in Nat /\ v \in Nat
    BY IdsNat
  <2>8. CASE n \notin V
    BY <2>2, <2>5, <2>6, <2>8
  <2>9. CASE n \in V /\ UpTo(n - 1) = {}
    <3>1. UpTo(n) = {n} /\ Below(n, n)
      BY <2>5, <2>7, <2>9
    <3> QED
      BY <2>2, <3>1
  <2>10. CASE n \in V /\ Has(n - 1)
    <3>1. PICK v \in UpTo(n - 1) : \A w \in UpTo(n - 1) : Below(w, v)
      BY <2>10
    <3>2. v \in V /\ v <= n /\ Below(n, n) /\ Below(v, v)
      BY <2>7, <2>10, <2>2, <2>4
    <3>3. CASE Below(n, v)
      <4>1. \A w \in UpTo(n) : Below(w, v)
        BY <2>5, <3>1, <3>3
      <4> QED
        BY <2>2, <4>1, <3>2
    <3>4. CASE ~Below(n, v)
      <4>1. k.ord[v] < k.ord[n]
        BY <2>7, <2>10, <3>1, <3>2, <3>4
      <4>2. \A w \in UpTo(n) : Below(w, n)
        <5> TAKE w \in UpTo(n)
        <5>1. CASE w = n
          BY <3>2, <5>1
        <5>2. CASE w # n
          <6>1. Below(w, v) /\ w \in V
            BY <2>5, <3>1, <5>2
          <6> QED
            BY <2>7, <2>10, <3>2, <4>1, <6>1
        <5> QED
          BY <5>1, <5>2
      <4> QED
        BY <2>2, <2>10, <4>2
    <3> QED
      BY <3>3, <3>4
  <2> QED
    BY <2>6, <2>8, <2>9, <2>10
<1>2. UpTo(MaxIds) = V
  BY IdsNat
<1>3. Has(MaxIds)
  BY <1>1, <1>2, BoundsAssumption
<1> QED
  BY <1>2, <1>3 DEF Newest

LEMMA CrownedMarks ==
    ASSUME NEW k, Shaped(k), Marks(k), NEW d, NEW r, r = Crowned(k, d)
    PROVE  Marks(r)
<1> DEFINE finals == Chain(k, d) \intersect k.final
           crowned == IF finals = {} THEN 0 ELSE Newest(k, finals)
<1>1. crowned \in 0 .. MaxIds
  <2>1. finals \subseteq Ids
    BY DEF Chain
  <2>2. finals # {} => Newest(k, finals) \in finals
    BY <2>1, NewestIn DEF Marks
  <2> QED
    BY <2>1, <2>2, BoundsAssumption DEF Ids
<1>2. r = [k EXCEPT !.crown[d] = crowned]
  BY DEF Crowned
<1> HIDE DEF crowned
<1>3. r.crown = Put(k.crown, d, crowned)
  BY <1>2 DEF Shaped, Fields, Put
<1>4. r.crown \in [Ids -> 0 .. MaxIds]
  BY <1>1, <1>3 DEF Marks, Put
<1>5. r.ord = k.ord /\ r.final = k.final
  BY CrownedFields
<1> QED
  BY <1>4, <1>5 DEF Marks

LEMMA RungType ==
    ASSUME NEW k, NEW V, V \subseteq Ids
    PROVE  Cardinality({k.ord[w] : w \in V}) \in Nat
<1> DEFINE o == [w \in V |-> k.ord[w]]
           T == {k.ord[w] : w \in V}
<1>1. IsFiniteSet(V)
  BY FiniteIds
<1>2. o \in Surjection(V, T)
  BY DEF Surjection
<1>3. IsFiniteSet(T)
  BY <1>1, <1>2, FS_Surjection
<1> QED
  BY <1>3, FS_CardinalityType

LEMMA RenumberedMarks ==
    ASSUME NEW k, Shaped(k), Marks(k), NEW d, NEW r, r = Renumbered(k, d)
    PROVE  Marks(r)
<1> DEFINE placed == {v \in Chain(k, d) : k.ord[v] # 0}
           Rung(v) == Cardinality({k.ord[w] : w \in {u \in placed : k.ord[u] <= k.ord[v]}})
           o == [v \in Ids |-> IF v \in placed THEN Rung(v) ELSE k.ord[v]]
           w == [k EXCEPT !.ord = o]
<1>1. \A v \in Ids : Rung(v) \in Nat
  <2> TAKE v \in Ids
  <2> DEFINE V == {u \in placed : k.ord[u] <= k.ord[v]}
  <2>1. V \subseteq Ids
    BY DEF Chain
  <2> HIDE DEF V
  <2> QED
    BY <2>1, RungType DEF V
<1>2. r = Crowned(w, d)
  BY DEF Renumbered
<1>3. o \in [Ids -> Nat]
  BY <1>1 DEF Marks
<1> HIDE DEF o
<1>4. Shaped(w) /\ Marks(w)
  BY <1>3 DEF Shaped, Fields, Marks
<1> HIDE DEF w
<1> QED
  BY <1>2, <1>4, CrownedMarks

LEMMA WithVersionMarks ==
    ASSUME NEW k, Shaped(k), Marks(k), NEW d, NEW f, NEW r, r = WithVersion(k, d, f)
    PROVE  Marks(r)
<1>1. r.crown = k.crown /\ r.ord = Put(k.ord, k.fresh, 1) /\ r.final = k.final \ {k.fresh}
  BY WithVersionFields
<1>2. r.ord \in [Ids -> Nat]
  <2>1. k.ord \in [Ids -> Nat] /\ 1 \in Nat
    BY DEF Marks
  <2>2. Put(k.ord, k.fresh, 1) \in [Ids -> Nat]
    BY <2>1, PutType, Zenon
  <2> QED
    BY <1>1, <2>2, Zenon
<1> QED
  BY <1>1, <1>2 DEF Marks

LEMMA WithEntityMarks ==
    ASSUME NEW k, Shaped(k), Marks(k), NEW f, NEW r, r = WithEntity(k, f)
    PROVE  Marks(r)
<1>1. r.crown = k.crown /\ r.ord = Put(k.ord, k.fresh, 1) /\ r.final = k.final \ {k.fresh}
  BY WithEntityFields
<1>2. r.ord \in [Ids -> Nat]
  <2>1. k.ord \in [Ids -> Nat] /\ 1 \in Nat
    BY DEF Marks
  <2>2. Put(k.ord, k.fresh, 1) \in [Ids -> Nat]
    BY <2>1, PutType, Zenon
  <2> QED
    BY <1>1, <2>2, Zenon
<1> QED
  BY <1>1, <1>2 DEF Marks

LEMMA OrderedMarks ==
    ASSUME NEW k, Shaped(k), Marks(k), NEW v, NEW t \in Ids, NEW order, NEW r, r = Ordered(k, v, t, order)
    PROVE  Marks(r)
<1> DEFINE moved == Displaced(k, Chain(k, k.doc[v]) \ {v}, t, order)
           mine == CASE order = "before" -> Place(k, t)
                     [] order = "after" -> Place(k, t) + 1
                     [] order = "same" -> k.ord[t]
                     [] OTHER -> 0
           o == [u \in Ids |-> IF u = v THEN mine
                               ELSE IF u \in moved THEN Place(k, u) + 1 ELSE k.ord[u]]
<1>1. \A u \in Ids : Place(k, u) \in Nat /\ k.ord[u] \in Nat
  BY DEF Place, Marks
<1>2. mine \in Nat
  BY <1>1
<1> HIDE DEF mine, moved
<1>3. o \in [Ids -> Nat]
  BY <1>1, <1>2
<1>4. PICK s : r = Renumbered([k EXCEPT !.ord = o, !.supersedes = s], k.doc[v])
  BY DEF Ordered, mine, moved
<1> HIDE DEF o
<1> DEFINE w == [k EXCEPT !.ord = o, !.supersedes = s]
<1>5. Shaped(w) /\ Marks(w)
  BY <1>3 DEF Shaped, Fields, Marks
<1>6. r = Renumbered(w, k.doc[v])
  BY <1>4
<1> HIDE DEF w
<1> QED
  BY <1>5, <1>6, RenumberedMarks

(***************************************************************************)
(* What a step on the tables leaves of them                                *)
(***************************************************************************)
Intents == [origin : Files, target : Files, intent : {"identity", "relation"},
            identity : Identities, order : Orders, status : {"pending", "applied"}]
Filed(k) == IsFiniteSet(k.intents) /\ k.intents \subseteq Intents
Ends(edges) == \A q \in DOMAIN edges : q \in Ids \X Ids /\ edges[q] \in Ids \X Ids
Linked(k) == \A x \in Files : k.link[x] # 0 => k.doc[k.link[x]] # 0
Rows(k) ==
    /\ k.link \in [Files -> 0 .. MaxIds] /\ k.derived \in [Files -> 0 .. MaxIds]
    /\ k.doc \in [Ids -> 0 .. MaxIds] /\ k.docs \subseteq Ids /\ k.assigned \subseteq Files
    /\ k.fresh \in 1 .. MaxIds
    /\ Linked(k)

Typed(k) ==
    /\ Shaped(k) /\ Rows(k) /\ Marks(k) /\ Filed(k)
    /\ Ends(k.supersedes) /\ Ends(k.refers)

(* Identifiers only grow, a link only moves, what was derived only falls.  *)
Lasts(k, r) ==
    /\ k.fresh <= r.fresh
    /\ \A x \in Files : k.link[x] # 0 => r.link[x] # 0
    /\ \A x \in Files : r.derived[x] = k.derived[x] \/ r.derived[x] = 0

Home(k, x) == IF k.link[x] = 0 THEN 0 ELSE k.doc[k.link[x]]
Homes(k, L) == {Home(k, x) : x \in L} \ {0}

(* Whole: every version, but for those of V0, is observed at a file and    *)
(* belongs to a document that exists, every document, but for those of D0, *)
(* has a version, and every edge joins two rows that exist.                *)
Whole(k, V0, D0) ==
    /\ \A v \in Ids : k.doc[v] # 0 => k.doc[v] \in k.docs /\ (v \in V0 \/ \E x \in Files : k.link[x] = v)
    /\ \A d \in k.docs \ D0 : \E v \in Ids : k.doc[v] = d
    /\ \A q \in DOMAIN k.supersedes : k.doc[k.supersedes[q][1]] # 0 /\ k.doc[k.supersedes[q][2]] # 0
    /\ \A q \in DOMAIN k.refers : k.refers[q][1] \in k.docs /\ k.refers[q][2] \in k.docs
    /\ \A v \in Ids : v >= k.fresh => k.doc[v] = 0 /\ k.ord[v] = 0
    /\ \A d \in k.docs : d < k.fresh
Follows(k, X) ==
    \A x \in Files \ X : k.derived[x] # 0 => k.link[x] # 0 /\ k.derived[x] = k.doc[k.link[x]]

(* The scope of a transaction: files R, their documents O and the versions *)
(* V of those.  Inside: no row leads into the scope or out of it.  Frame:  *)
(* from b to a, only rows of the scope change.                             *)
Inside(k, R, O, V) ==
    /\ R \subseteq Files /\ O \subseteq Ids /\ V \subseteq Ids
    /\ \A x \in R : k.link[x] \in V \union {0}
    /\ \A x \in Files \ R : k.link[x] \notin V
    /\ \A v \in V : k.doc[v] \in O \union {0}
    /\ \A v \in Ids \ V : k.doc[v] \notin O
Edge(before, after, S) ==
    \A q \in DOMAIN after : \A c \in {1, 2} :
        after[q][c] \in S \/ (q \in DOMAIN before /\ after[q][c] = before[q][c])
Frame(b, a, R, O, V) ==
    /\ b.fresh <= a.fresh
    /\ \A x \in Files \ R : a.link[x] = b.link[x] /\ a.derived[x] = b.derived[x]
    /\ \A x \in R : a.link[x] \in V \union {0}
    /\ \A v \in Ids \ V : a.doc[v] = b.doc[v] /\ a.ord[v] = b.ord[v]
    /\ \A v \in V : a.doc[v] \in O \union {0}
    /\ \A d \in Ids \ O : d \in a.docs <=> d \in b.docs
    /\ Edge(b.supersedes, a.supersedes, V) /\ Edge(b.refers, a.refers, O)
Open(b, R, O, V) == Inside(b, R, O, V) /\ \A i \in Ids : i >= b.fresh => i \in O /\ i \in V

Held(b, k, R, O, V, V0, D0, X) ==
    Open(b, R, O, V) /\ Frame(b, k, R, O, V) /\ Whole(k, V0, D0) /\ Follows(k, X)

LEMMA FrameInside ==
    ASSUME NEW b, NEW k, NEW R, NEW O, NEW V, Open(b, R, O, V), Frame(b, k, R, O, V),
           b.fresh \in Nat, k.fresh \in Nat
    PROVE  Open(k, R, O, V)
<1>1. Inside(k, R, O, V)
  BY DEF Inside, Open, Frame
<1>2. \A i \in Ids : i >= k.fresh => i >= b.fresh
  BY IdsNat DEF Frame
<1> QED
  BY <1>1, <1>2 DEF Open

(* A file f placed at version e of document d: a version of its own in a   *)
(* new document, one in a document that exists, or one that exists.        *)
Homed(k) == {k.doc[v] : v \in Ids} \ {0}
Reordered(k, r, e, D) == \A v \in Ids : r.ord[v] # k.ord[v] => v = e \/ r.doc[v] \in D \ {0}
Placed(k, r, f, e, d) ==
    /\ Shaped(r) /\ SameRest(k, r) /\ Reordered(k, r, e, {d, Home(k, f)})
    /\ r.link = Put(k.link, f, e) /\ r.doc = Put(k.doc, e, d)
    /\ r.refers = k.refers /\ Grown(k.supersedes, r.supersedes, Chain(r, d))
    /\ \/ /\ e = k.fresh /\ d = k.fresh /\ r.fresh = k.fresh + 1
          /\ r.docs = k.docs \union {d}
       \/ /\ e = k.fresh /\ d \in Homed(k) /\ r.fresh = k.fresh + 1
          /\ r.docs = k.docs
       \/ /\ e \in Ids /\ d \in Homed(k) /\ r.fresh = k.fresh
          /\ r.docs = k.docs
          /\ k.doc[e] = d \/ (k.link[f] = e /\ Sources(k, e) = {f})

LEMMA PlacedRows ==
    ASSUME NEW k, Typed(k), NEW f \in Files, NEW r, NEW e, NEW d, Placed(k, r, f, e, d),
           r.fresh <= MaxIds
    PROVE  /\ e \in Ids /\ d \in Ids /\ r.fresh \in 1 .. MaxIds /\ k.fresh <= r.fresh
           /\ r.link[f] = e /\ \A x \in Files \ {f} : r.link[x] = k.link[x]
           /\ r.doc[e] = d /\ \A v \in Ids \ {e} : r.doc[v] = k.doc[v]
           /\ r.derived = k.derived /\ r.assigned = k.assigned /\ r.intents = k.intents
           /\ k.docs \subseteq r.docs /\ r.docs \subseteq k.docs \union {d} /\ d \notin {0}
           /\ r.link \in [Files -> 0 .. MaxIds] /\ r.doc \in [Ids -> 0 .. MaxIds]
<1>1. k.fresh \in Nat /\ 1 <= k.fresh /\ MaxIds \in Nat
  BY BoundsAssumption DEF Typed, Rows
<1>2. Homed(k) \subseteq Ids
  BY BoundsAssumption DEF Homed, Typed, Rows, Ids
<1>3. /\ e \in Ids /\ d \in Ids /\ r.fresh \in 1 .. MaxIds /\ k.fresh <= r.fresh
      /\ k.docs \subseteq r.docs /\ r.docs \subseteq k.docs \union {d}
  BY <1>1, <1>2 DEF Placed, Ids
<1>4. e \in 0 .. MaxIds /\ d \in 0 .. MaxIds /\ d \notin {0}
  BY <1>1, <1>3 DEF Ids
<1>5. r.link = Put(k.link, f, e) /\ r.doc = Put(k.doc, e, d)
  BY DEF Placed
<1>6. k.link \in [Files -> 0 .. MaxIds] /\ k.doc \in [Ids -> 0 .. MaxIds]
  BY DEF Typed, Rows
<1>7. /\ Put(k.link, f, e) \in [Files -> 0 .. MaxIds]
      /\ Put(k.doc, e, d) \in [Ids -> 0 .. MaxIds]
  BY <1>4, <1>6, PutType
<1>8. /\ \A x \in Files : Put(k.link, f, e)[x] = IF x = f THEN e ELSE k.link[x]
      /\ \A v \in Ids : Put(k.doc, e, d)[v] = IF v = e THEN d ELSE k.doc[v]
  BY <1>6 DEF Put
<1>9. /\ r.link \in [Files -> 0 .. MaxIds] /\ r.doc \in [Ids -> 0 .. MaxIds]
      /\ r.link[f] = e /\ r.doc[e] = d
      /\ \A x \in Files \ {f} : r.link[x] = k.link[x]
      /\ \A v \in Ids \ {e} : r.doc[v] = k.doc[v]
  BY <1>3, <1>5, <1>7, <1>8, Zenon
<1> QED
  BY <1>3, <1>4, <1>9 DEF Placed, SameRest

LEMMA PlacedTyped ==
    ASSUME NEW k, Typed(k), NEW f \in Files, NEW r, NEW e, NEW d, Placed(k, r, f, e, d),
           Marks(r), r.fresh <= MaxIds
    PROVE  Typed(r) /\ Lasts(k, r)
<1>1. /\ e \in Ids /\ d \in Ids /\ r.fresh \in 1 .. MaxIds /\ k.fresh <= r.fresh
      /\ r.link[f] = e /\ \A x \in Files \ {f} : r.link[x] = k.link[x]
      /\ r.doc[e] = d /\ \A v \in Ids \ {e} : r.doc[v] = k.doc[v]
      /\ r.derived = k.derived /\ r.assigned = k.assigned /\ r.intents = k.intents
      /\ k.docs \subseteq r.docs /\ r.docs \subseteq k.docs \union {d} /\ d \notin {0}
      /\ r.link \in [Files -> 0 .. MaxIds] /\ r.doc \in [Ids -> 0 .. MaxIds]
  BY PlacedRows
<1>2. Rows(k) /\ Filed(k) /\ Ends(k.supersedes) /\ Ends(k.refers)
  BY DEF Typed
<1>3. Linked(r)
  <2> SUFFICES ASSUME NEW x \in Files, r.link[x] # 0 PROVE r.doc[r.link[x]] # 0
    BY DEF Linked
  <2>1. CASE r.link[x] = e
    BY <1>1, <2>1
  <2>2. CASE r.link[x] # e
    <3>1. x # f /\ r.link[x] = k.link[x] /\ r.link[x] \in Ids
      BY <1>1, <2>2 DEF Ids
    <3>2. k.doc[k.link[x]] # 0
      BY <1>2, <3>1 DEF Rows, Linked
    <3> QED
      BY <1>1, <2>2, <3>1, <3>2
  <2> QED
    BY <2>1, <2>2
<1>4. Rows(r)
  BY <1>1, <1>2, <1>3 DEF Rows
<1>5. Ends(r.supersedes)
  <2>1. Chain(r, d) \subseteq Ids
    BY DEF Chain
  <2> QED
    BY <1>2, <2>1 DEF Placed, Grown, Ends
<1>6. Ends(r.refers) /\ Shaped(r)
  BY <1>2 DEF Placed
<1>7. 0 \notin Ids
  BY IdsNat
<1>8. Lasts(k, r)
  BY <1>1, <1>7 DEF Lasts
<1> QED
  BY <1>1, <1>2, <1>4, <1>5, <1>6, <1>8 DEF Typed, Filed

LEMMA PlacedWhole ==
    ASSUME NEW k, Typed(k), NEW f \in Files, NEW r, NEW e, NEW d, Placed(k, r, f, e, d),
           r.fresh <= MaxIds, NEW V0, NEW D0, Whole(k, V0, D0)
    PROVE  Whole(r, V0 \union {k.link[f]}, D0 \union Homes(k, {f}))
<1>1. /\ e \in Ids /\ d \in Ids /\ r.fresh \in 1 .. MaxIds /\ k.fresh <= r.fresh
      /\ r.link[f] = e /\ \A x \in Files \ {f} : r.link[x] = k.link[x]
      /\ r.doc[e] = d /\ \A v \in Ids \ {e} : r.doc[v] = k.doc[v]
      /\ k.docs \subseteq r.docs /\ r.docs \subseteq k.docs \union {d} /\ d \notin {0}
  BY PlacedRows
<1>2. /\ k.link \in [Files -> 0 .. MaxIds] /\ k.doc \in [Ids -> 0 .. MaxIds]
      /\ k.docs \subseteq Ids /\ k.fresh \in 1 .. MaxIds /\ Linked(k)
      /\ Ends(k.supersedes)
  BY DEF Typed, Rows
<1>3. /\ \A v \in Ids : k.doc[v] # 0 =>
            k.doc[v] \in k.docs /\ (v \in V0 \/ \E x \in Files : k.link[x] = v)
      /\ \A c \in k.docs \ D0 : \E v \in Ids : k.doc[v] = c
      /\ \A q \in DOMAIN k.supersedes : k.doc[k.supersedes[q][1]] # 0 /\ k.doc[k.supersedes[q][2]] # 0
      /\ \A q \in DOMAIN k.refers : k.refers[q][1] \in k.docs /\ k.refers[q][2] \in k.docs
      /\ \A v \in Ids : v >= k.fresh => k.doc[v] = 0 /\ k.ord[v] = 0
      /\ \A c \in k.docs : c < k.fresh
  BY DEF Whole
<1>4. d \in r.docs
  BY <1>3 DEF Placed, Homed
<1>5. e < r.fresh /\ d < r.fresh
  <2>1. CASE e = k.fresh /\ r.fresh = k.fresh + 1
    <3>1. d = k.fresh \/ d < k.fresh
      BY <1>3, <1>4, <2>1, <1>1 DEF Placed
    <3> QED
      BY <1>1, <1>2, <2>1, <3>1, IdsNat, BoundsAssumption
  <2>2. CASE ~(e = k.fresh /\ r.fresh = k.fresh + 1)
    <3>1. /\ d \in Homed(k) /\ r.fresh = k.fresh
          /\ k.doc[e] = d \/ k.link[f] = e
      BY <2>2 DEF Placed
    <3>2. k.doc[e] # 0
      BY <1>1, <1>2, <3>1, IdsNat DEF Linked
    <3>3. d \in k.docs
      BY <1>3, <3>1 DEF Homed
    <3> QED
      BY <1>1, <1>2, <1>3, <3>1, <3>2, <3>3, IdsNat
  <2> QED
    BY <2>1, <2>2
<1>6. ASSUME NEW v \in Ids, r.doc[v] # 0
      PROVE  r.doc[v] \in r.docs /\ (v \in V0 \union {k.link[f]} \/ \E x \in Files : r.link[x] = v)
  BY <1>1, <1>3, <1>4, <1>6
<1>7. ASSUME NEW c \in r.docs \ (D0 \union Homes(k, {f})) PROVE \E v \in Ids : r.doc[v] = c
  <2>1. CASE c = d
    BY <1>1, <2>1
  <2>2. CASE c # d
    <3>1. PICK v \in Ids : k.doc[v] = c
      BY <1>1, <1>3, <2>2
    <3>2. c # 0
      BY <1>1, <1>2, <2>2, IdsNat
    <3>3. v # e
      <4> SUFFICES ASSUME v = e PROVE FALSE
        OBVIOUS
      <4>1. e # k.fresh
        BY <1>1, <1>2, <1>3, <3>1, <3>2
      <4>2. k.link[f] = e
        BY <4>1, <3>1, <2>2 DEF Placed
      <4>3. Home(k, f) = c
        BY <4>2, <3>1, <1>1, IdsNat DEF Home
      <4> QED
        BY <1>7, <3>2, <4>3 DEF Homes
    <3> QED
      BY <1>1, <3>1, <3>3
  <2> QED
    BY <2>1, <2>2
<1>8. ASSUME NEW q \in DOMAIN r.supersedes
      PROVE  r.doc[r.supersedes[q][1]] # 0 /\ r.doc[r.supersedes[q][2]] # 0
  <2>1. CASE q \in DOMAIN k.supersedes /\ r.supersedes[q] = k.supersedes[q]
    <3>1. k.supersedes[q][1] \in Ids /\ k.supersedes[q][2] \in Ids
      BY <1>2, <2>1 DEF Ends
    <3>2. \A v \in Ids : k.doc[v] # 0 => r.doc[v] # 0
      BY <1>1
    <3> QED
      BY <1>3, <2>1, <3>1, <3>2
  <2>2. CASE q \in Chain(r, d) \X Chain(r, d) /\ r.supersedes[q] = q
    <3>1. r.doc[q[1]] = d /\ r.doc[q[2]] = d
      BY <2>2 DEF Chain
    <3> QED
      BY <1>1, <2>2, <3>1
  <2> QED
    BY <2>1, <2>2 DEF Placed, Grown
<1>9. \A q \in DOMAIN r.refers : r.refers[q][1] \in r.docs /\ r.refers[q][2] \in r.docs
  BY <1>1, <1>3 DEF Placed
<1>10. \A v \in Ids : v >= r.fresh => r.doc[v] = 0 /\ r.ord[v] = 0
  <2> TAKE v \in Ids
  <2> HAVE v >= r.fresh
  <2>1. v # e /\ v >= k.fresh
    BY <1>1, <1>2, <1>5, IdsNat
  <2>2. r.doc[v] = 0 /\ k.ord[v] = 0
    BY <1>1, <1>3, <2>1
  <2>3. r.ord[v] = k.ord[v]
    BY <2>1, <2>2 DEF Placed, Reordered
  <2> QED
    BY <2>2, <2>3
<1>11. \A c \in r.docs : c < r.fresh
  <2> TAKE c \in r.docs
  <2>1. c = d \/ c \in k.docs
    BY <1>1
  <2>2. c \in Nat
    BY <1>1, <1>2, <2>1, IdsNat
  <2> QED
    BY <1>1, <1>2, <1>3, <1>5, <2>1, <2>2
<1> QED
  BY <1>6, <1>7, <1>8, <1>9, <1>10, <1>11 DEF Whole

LEMMA PlacedFollows ==
    ASSUME NEW k, Typed(k), NEW f \in Files, NEW r, NEW e, NEW d, Placed(k, r, f, e, d),
           r.fresh <= MaxIds, \A v \in Ids : v >= k.fresh => k.doc[v] = 0,
           NEW X, Follows(k, X)
    PROVE  Follows(r, X \union {f})
<1>1. /\ e \in Ids /\ r.derived = k.derived
      /\ r.link[f] = e /\ \A x \in Files \ {f} : r.link[x] = k.link[x]
      /\ r.doc[e] = d /\ \A v \in Ids \ {e} : r.doc[v] = k.doc[v]
  BY PlacedRows
<1> SUFFICES ASSUME NEW x \in Files \ (X \union {f}), r.derived[x] # 0
             PROVE  r.link[x] # 0 /\ r.derived[x] = r.doc[r.link[x]]
  BY DEF Follows
<1>2. k.link[x] # 0 /\ k.derived[x] = k.doc[k.link[x]] /\ r.link[x] = k.link[x]
  BY <1>1 DEF Follows
<1>3. k.link[x] \in Ids /\ k.doc[k.link[x]] # 0 /\ k.fresh \in Nat
  BY <1>2 DEF Typed, Rows, Linked, Ids
<1>4. CASE k.link[x] = e
  <2>1. e # k.fresh
    BY <1>3, <1>4, <1>1
  <2>2. x \in Sources(k, e)
    BY <1>4 DEF Sources
  <2>3. k.doc[e] = d
    BY <2>1, <2>2 DEF Placed
  <2> QED
    BY <1>1, <1>2, <1>4, <2>3
<1>5. CASE k.link[x] # e
  BY <1>1, <1>2, <1>3, <1>5
<1> QED
  BY <1>4, <1>5

LEMMA PlacedFrame ==
    ASSUME NEW k, Typed(k), NEW f \in Files, NEW r, NEW e, NEW d, Placed(k, r, f, e, d),
           r.fresh <= MaxIds, NEW b, b.fresh \in Nat, NEW R, NEW O, NEW V,
           Open(b, R, O, V), Frame(b, k, R, O, V), f \in R, d \in O, e \in V
    PROVE  Frame(b, r, R, O, V)
<1>1. /\ e \in Ids /\ d \in Ids /\ r.fresh \in 1 .. MaxIds /\ k.fresh <= r.fresh
      /\ r.link[f] = e /\ \A x \in Files \ {f} : r.link[x] = k.link[x]
      /\ r.doc[e] = d /\ \A v \in Ids \ {e} : r.doc[v] = k.doc[v]
      /\ k.docs \subseteq r.docs /\ r.docs \subseteq k.docs \union {d}
      /\ r.derived = k.derived
  BY PlacedRows
<1>2. k.fresh \in Nat
  BY DEF Typed, Shaped
<1>3. /\ b.fresh <= k.fresh
      /\ \A x \in Files \ R : k.link[x] = b.link[x] /\ k.derived[x] = b.derived[x]
      /\ \A x \in R : k.link[x] \in V \union {0}
      /\ \A v \in Ids \ V : k.doc[v] = b.doc[v] /\ k.ord[v] = b.ord[v]
      /\ \A v \in V : k.doc[v] \in O \union {0}
      /\ \A c \in Ids \ O : c \in k.docs <=> c \in b.docs
      /\ Edge(b.supersedes, k.supersedes, V) /\ Edge(b.refers, k.refers, O)
  BY DEF Frame
<1>4. R \subseteq Files /\ V \subseteq Ids /\ \A v \in Ids \ V : b.doc[v] \notin O
  BY DEF Open, Inside
<1>5. Chain(r, d) \subseteq V
  BY <1>1, <1>3, <1>4 DEF Chain
<1>6. Edge(b.supersedes, r.supersedes, V)
  <2> SUFFICES ASSUME NEW q \in DOMAIN r.supersedes, NEW c \in {1, 2}
               PROVE  \/ r.supersedes[q][c] \in V
                      \/ q \in DOMAIN b.supersedes /\ r.supersedes[q][c] = b.supersedes[q][c]
    BY DEF Edge
  <2>1. CASE q \in DOMAIN k.supersedes /\ r.supersedes[q] = k.supersedes[q]
    BY <1>3, <2>1 DEF Edge
  <2>2. CASE q \in Chain(r, d) \X Chain(r, d) /\ r.supersedes[q] = q
    BY <1>5, <2>2
  <2> QED
    BY <2>1, <2>2 DEF Placed, Grown
<1>7. Edge(b.refers, r.refers, O)
  BY <1>3 DEF Placed
<1>8. /\ b.fresh <= r.fresh
      /\ \A x \in Files \ R : r.link[x] = b.link[x] /\ r.derived[x] = b.derived[x]
      /\ \A x \in R : r.link[x] \in V \union {0}
  BY <1>1, <1>2, <1>3, <1>4
<1>9. /\ \A v \in Ids \ V : r.doc[v] = b.doc[v]
      /\ \A v \in V : r.doc[v] \in O \union {0}
      /\ \A c \in Ids \ O : c \in r.docs <=> c \in b.docs
  BY <1>1, <1>3, <1>4
<1>10. \A v \in Ids \ V : r.ord[v] = b.ord[v]
  <2> SUFFICES ASSUME NEW v \in Ids \ V PROVE r.ord[v] = k.ord[v]
    BY <1>3
  <2>1. v # e /\ r.doc[v] = k.doc[v] /\ k.doc[v] \notin O
    BY <1>1, <1>3, <1>4
  <2>2. Home(k, f) \in O \union {0}
    BY <1>3 DEF Home
  <2> QED
    BY <2>1, <2>2 DEF Placed, Reordered
<1> QED
  BY <1>6, <1>7, <1>8, <1>9, <1>10 DEF Frame

LEMMA PlacedHeld ==
    ASSUME NEW k, Typed(k), NEW f \in Files, NEW r, NEW e, NEW d, Placed(k, r, f, e, d),
           r.fresh <= MaxIds, NEW b, b.fresh \in Nat, NEW R, NEW O, NEW V, NEW V0, NEW D0, NEW X,
           Held(b, k, R, O, V, V0, D0, X), f \in R, d \in O, e \in V
    PROVE  Held(b, r, R, O, V, V0 \union {k.link[f]}, D0 \union Homes(k, {f}), X \union {f})
<1>1. Open(b, R, O, V) /\ Frame(b, k, R, O, V) /\ Whole(k, V0, D0) /\ Follows(k, X)
  BY DEF Held
<1>2. \A v \in Ids : v >= k.fresh => k.doc[v] = 0
  BY <1>1 DEF Whole
<1>3. Frame(b, r, R, O, V)
  BY <1>1, PlacedFrame
<1>4. Whole(r, V0 \union {k.link[f]}, D0 \union Homes(k, {f}))
  BY <1>1, PlacedWhole
<1>5. Follows(r, X \union {f})
  BY <1>1, <1>2, PlacedFollows
<1> QED
  BY <1>1, <1>3, <1>4, <1>5 DEF Held

(* A step that moves no row: it judges, crowns, parks or refers.           *)
Quiet(k, r, S) ==
    /\ Shaped(r) /\ SameRows(k, r) /\ r.assigned = k.assigned /\ r.derived = k.derived
    /\ r.supersedes = k.supersedes /\ r.ord = k.ord /\ Grown(k.refers, r.refers, S)

LEMMA QuietTyped ==
    ASSUME NEW k, Typed(k), NEW r, NEW S, Quiet(k, r, S), S \subseteq Ids, Marks(r), Filed(r)
    PROVE  Typed(r) /\ Lasts(k, r)
<1>1. Rows(k) /\ Ends(k.supersedes) /\ Ends(k.refers)
  BY DEF Typed
<1>2. Rows(r)
  BY <1>1 DEF Quiet, SameRows, Rows, Linked
<1>3. Ends(r.supersedes)
  BY <1>1 DEF Quiet
<1>4. Ends(r.refers)
  BY <1>1 DEF Quiet, Grown, Ends
<1>5. Lasts(k, r)
  BY DEF Lasts, Quiet, SameRows, Typed, Shaped
<1>6. Shaped(r)
  BY DEF Quiet
<1> QED
  BY <1>2, <1>3, <1>4, <1>5, <1>6 DEF Typed

LEMMA QuietHeld ==
    ASSUME NEW k, NEW r, NEW S, Quiet(k, r, S),
           NEW b, NEW R, NEW O, NEW V, NEW V0, NEW D0, NEW X,
           Held(b, k, R, O, V, V0, D0, X), S \subseteq k.docs, S \subseteq O
    PROVE  Held(b, r, R, O, V, V0, D0, X)
<1>1. Open(b, R, O, V) /\ Frame(b, k, R, O, V) /\ Whole(k, V0, D0) /\ Follows(k, X)
  BY DEF Held
<1>2. /\ r.link = k.link /\ r.doc = k.doc /\ r.docs = k.docs /\ r.fresh = k.fresh
      /\ r.derived = k.derived /\ r.supersedes = k.supersedes /\ r.ord = k.ord
      /\ \A q \in DOMAIN r.refers : \/ q \in DOMAIN k.refers /\ r.refers[q] = k.refers[q]
                                    \/ q \in S \X S /\ r.refers[q] = q
  BY DEF Quiet, SameRows, Grown
<1>3. \A q \in DOMAIN r.refers : r.refers[q][1] \in r.docs /\ r.refers[q][2] \in r.docs
  BY <1>1, <1>2 DEF Whole
<1>4. Whole(r, V0, D0)
  BY <1>1, <1>2, <1>3 DEF Whole
<1>5. Follows(r, X)
  BY <1>1, <1>2 DEF Follows
<1>6. Edge(b.refers, r.refers, O)
  <2> SUFFICES ASSUME NEW q \in DOMAIN r.refers, NEW c \in {1, 2}
               PROVE  r.refers[q][c] \in O \/ (q \in DOMAIN b.refers /\ r.refers[q][c] = b.refers[q][c])
    BY DEF Edge
  <2>1. CASE q \in DOMAIN k.refers /\ r.refers[q] = k.refers[q]
    BY <1>1, <2>1 DEF Frame, Edge
  <2>2. CASE q \in S \X S /\ r.refers[q] = q
    BY <2>2
  <2> QED
    BY <1>2, <2>1, <2>2
<1>7. Frame(b, r, R, O, V)
  BY <1>1, <1>2, <1>6 DEF Frame
<1> QED
  BY <1>1, <1>4, <1>5, <1>7 DEF Held

LEMMA InheritedEnds ==
    ASSUME NEW old, Ends(old), NEW new, NEW g, NEW s \in Ids, Inherited(old, new, g, s)
    PROVE  Ends(new)
<1> SUFFICES ASSUME NEW q \in DOMAIN new PROVE q \in Ids \X Ids /\ new[q] \in Ids \X Ids
  BY DEF Ends
<1>1. /\ q \in DOMAIN old /\ new[q] = <<Heir(old[q][1], g, s), Heir(old[q][2], g, s)>>
  BY DEF Inherited
<1>2. q \in Ids \X Ids /\ old[q] \in Ids \X Ids
  BY <1>1 DEF Ends
<1> QED
  BY <1>1, <1>2 DEF Heir

LEMMA InheritedEdge ==
    ASSUME NEW b, NEW old, NEW S, Edge(b, old, S), NEW new, NEW g, NEW s \in S, Inherited(old, new, g, s)
    PROVE  Edge(b, new, S)
<1> SUFFICES ASSUME NEW q \in DOMAIN new, NEW c \in {1, 2}
             PROVE  new[q][c] \in S \/ (q \in DOMAIN b /\ new[q][c] = b[q][c])
  BY DEF Edge
<1>1. /\ q \in DOMAIN old /\ new[q] = <<Heir(old[q][1], g, s), Heir(old[q][2], g, s)>>
  BY DEF Inherited
<1>2. new[q][c] = Heir(old[q][c], g, s)
  BY <1>1
<1>3. old[q][c] \in S \/ (q \in DOMAIN b /\ old[q][c] = b[q][c])
  BY <1>1 DEF Edge
<1> QED
  BY <1>2, <1>3 DEF Heir

(* An end of an inherited row is one of the old row's, or the survivor.    *)
LEMMA InheritedLive ==
    ASSUME NEW old, NEW new, NEW g, NEW s, Inherited(old, new, g, s),
           NEW S, s \in S, \A q \in DOMAIN old : old[q][1] \in S \union {g} /\ old[q][2] \in S \union {g}
    PROVE  \A q \in DOMAIN new : new[q][1] \in S /\ new[q][2] \in S
<1> TAKE q \in DOMAIN new
<1>1. /\ q \in DOMAIN old /\ new[q] = <<Heir(old[q][1], g, s), Heir(old[q][2], g, s)>>
  BY DEF Inherited
<1>2. old[q][1] \in S \union {g} /\ old[q][2] \in S \union {g}
  BY <1>1
<1> QED
  BY <1>1, <1>2 DEF Heir

LEMMA VersionAbsorbedRows ==
    ASSUME NEW k, Typed(k), NEW g \in Ids, NEW s \in Ids, NEW r, r = VersionAbsorbed(k, g, s),
           g # s, Sources(k, g) = {}
    PROVE  /\ Shaped(r) /\ SameRest(k, r)
           /\ r.link = k.link /\ r.docs = k.docs /\ r.fresh = k.fresh /\ r.refers = k.refers
           /\ r.doc \in [Ids -> 0 .. MaxIds] /\ r.doc[g] = 0 /\ r.ord[g] = 0
           /\ \A v \in Ids \ {g} : r.doc[v] = k.doc[v] /\ r.ord[v] = k.ord[v]
           /\ \A x \in Files : k.link[x] # g
           /\ Inherited(k.supersedes, r.supersedes, g, s) /\ Marks(r)
<1>1. Shaped(k) /\ k.doc \in [Ids -> 0 .. MaxIds] /\ Marks(k)
  BY DEF Typed, Rows
<1>2. /\ Shaped(r) /\ SameRest(k, r)
      /\ r.link = k.link /\ r.docs = k.docs /\ r.fresh = k.fresh /\ r.refers = k.refers
      /\ r.crown = k.crown
      /\ r.doc = Put(k.doc, g, 0) /\ r.ord = Put(k.ord, g, 0) /\ r.final = k.final \ {g}
      /\ Inherited(k.supersedes, r.supersedes, g, s)
  BY <1>1, VersionAbsorbedFields
<1>3. 0 \in 0 .. MaxIds /\ 0 \in Nat
  BY BoundsAssumption
<1>4. Put(k.doc, g, 0) \in [Ids -> 0 .. MaxIds]
  BY <1>1, <1>3, PutType
<1>5. k.ord \in [Ids -> Nat]
  BY <1>1 DEF Marks
<1>6. Put(k.ord, g, 0) \in [Ids -> Nat]
  BY <1>3, <1>5, PutType
<1>7. r.ord \in [Ids -> Nat]
  BY <1>2, <1>6, Zenon
<1>8. Marks(r)
  BY <1>1, <1>2, <1>7 DEF Marks
<1>9. /\ r.doc \in [Ids -> 0 .. MaxIds] /\ r.doc[g] = 0 /\ r.ord[g] = 0
      /\ \A v \in Ids \ {g} : r.doc[v] = k.doc[v] /\ r.ord[v] = k.ord[v]
  BY <1>1, <1>2, <1>4, <1>5 DEF Put
<1>10. \A x \in Files : k.link[x] # g
  BY <1>2 DEF Sources
<1> QED
  BY <1>2, <1>8, <1>9, <1>10

SameLinks(k, r) == r.link = k.link /\ r.fresh = k.fresh
SameHomes(k, r) == r.doc = k.doc
Stays(k, r, v) == r.doc[v] = k.doc[v]

LEMMA VersionAbsorbedTyped ==
    ASSUME NEW k, Typed(k), NEW g \in Ids, NEW s \in Ids, NEW r, r = VersionAbsorbed(k, g, s)
    PROVE  Typed(r) /\ Lasts(k, r) /\ SameRest(k, r) /\ SameLinks(k, r) /\ Stays(k, r, s)
<1>1. CASE g = s \/ Sources(k, g) # {}
  <2>1. r = k
    BY <1>1 DEF VersionAbsorbed
  <2> QED
    BY <2>1 DEF Lasts, SameRest, Typed, Shaped, SameLinks, Stays
<1>2. CASE g # s /\ Sources(k, g) = {}
  <2>1. /\ g # s /\ Shaped(r) /\ SameRest(k, r)
        /\ r.link = k.link /\ r.docs = k.docs /\ r.fresh = k.fresh /\ r.refers = k.refers
        /\ r.doc \in [Ids -> 0 .. MaxIds]
        /\ \A v \in Ids \ {g} : r.doc[v] = k.doc[v]
        /\ \A x \in Files : k.link[x] # g
        /\ Inherited(k.supersedes, r.supersedes, g, s) /\ Marks(r)
    BY <1>2, VersionAbsorbedRows
  <2>2. Rows(k) /\ Filed(k) /\ Ends(k.supersedes) /\ Ends(k.refers)
    BY DEF Typed
  <2>3. Linked(r)
    <3> SUFFICES ASSUME NEW x \in Files, r.link[x] # 0 PROVE r.doc[r.link[x]] # 0
      BY DEF Linked
    <3>1. k.doc[k.link[x]] # 0 /\ k.link[x] \in Ids /\ k.link[x] # g
      BY <2>1, <2>2 DEF Rows, Linked, Ids
    <3> QED
      BY <2>1, <3>1
  <2>4. Rows(r)
    BY <2>1, <2>2, <2>3 DEF Rows, SameRest
  <2>5. Ends(r.supersedes) /\ Ends(r.refers)
    BY <2>1, <2>2, InheritedEnds
  <2>6. Lasts(k, r)
    BY <2>1 DEF Lasts, SameRest, Typed, Shaped
  <2> QED
    BY <2>1, <2>2, <2>4, <2>5, <2>6 DEF Typed, Filed, SameRest, SameLinks, Stays
<1> QED
  BY <1>1, <1>2

LEMMA VersionAbsorbedHeld ==
    ASSUME NEW k, Typed(k), NEW g \in Ids, NEW s \in Ids, NEW r, r = VersionAbsorbed(k, g, s),
           NEW h, NEW f \in Files, s = k.link[f], k.doc[g] = h \/ s = g,
           NEW b, NEW R, NEW O, NEW V, NEW X,
           Held(b, k, R, O, V, {g}, {h}, X), f \in R, g \in V
    PROVE  Held(b, r, R, O, V, {}, {h}, X)
<1>1. Open(b, R, O, V) /\ Frame(b, k, R, O, V) /\ Whole(k, {g}, {h}) /\ Follows(k, X)
  BY DEF Held
<1>2. CASE g = s \/ Sources(k, g) # {}
  <2>1. r = k
    BY <1>2 DEF VersionAbsorbed
  <2>2. \E x \in Files : k.link[x] = g
    BY <1>2 DEF Sources
  <2>3. Whole(k, {}, {h})
    BY <1>1, <2>2 DEF Whole
  <2> QED
    BY <1>1, <2>1, <2>3 DEF Held
<1>3. CASE g # s /\ Sources(k, g) = {}
  <2>1. /\ Shaped(r) /\ SameRest(k, r)
        /\ r.link = k.link /\ r.docs = k.docs /\ r.fresh = k.fresh /\ r.refers = k.refers
        /\ r.doc[g] = 0 /\ r.ord[g] = 0
        /\ \A v \in Ids \ {g} : r.doc[v] = k.doc[v] /\ r.ord[v] = k.ord[v]
        /\ \A x \in Files : k.link[x] # g
        /\ Inherited(k.supersedes, r.supersedes, g, s)
    BY <1>3, VersionAbsorbedRows
  <2>2. /\ k.doc[s] # 0 /\ k.link \in [Files -> 0 .. MaxIds] /\ Linked(k) /\ Ends(k.supersedes)
    BY IdsNat DEF Typed, Rows, Linked
  <2>3. \A v \in Ids : r.doc[v] # 0 => r.doc[v] \in r.docs /\ \E x \in Files : r.link[x] = v
    BY <1>1, <2>1 DEF Whole
  <2>4. \A d \in r.docs \ {h} : \E v \in Ids : r.doc[v] = d
    <3> TAKE d \in r.docs \ {h}
    <3>1. PICK v \in Ids : k.doc[v] = d
      BY <1>1, <2>1 DEF Whole
    <3> QED
      BY <1>3, <2>1, <3>1
  <2>5. \A q \in DOMAIN r.supersedes : r.doc[r.supersedes[q][1]] # 0 /\ r.doc[r.supersedes[q][2]] # 0
    <3> DEFINE live == {v \in Ids : k.doc[v] # 0} \ {g}
    <3>1. s \in live
      BY <1>3, <2>2
    <3>2. \A q \in DOMAIN k.supersedes :
             k.supersedes[q][1] \in live \union {g} /\ k.supersedes[q][2] \in live \union {g}
      BY <1>1, <2>2 DEF Whole, Ends
    <3>3. \A v \in live : r.doc[v] # 0
      BY <2>1
    <3> HIDE DEF live
    <3>4. \A q \in DOMAIN r.supersedes : r.supersedes[q][1] \in live /\ r.supersedes[q][2] \in live
      BY <2>1, <3>1, <3>2, InheritedLive
    <3> QED
      BY <3>3, <3>4
  <2>6. Whole(r, {}, {h})
    <3>1. \A v \in Ids : v >= r.fresh => r.doc[v] = 0 /\ r.ord[v] = 0
      BY <1>1, <2>1 DEF Whole
    <3> QED
      BY <1>1, <2>1, <2>3, <2>4, <2>5, <3>1 DEF Whole
  <2>7. Follows(r, X)
    <3> SUFFICES ASSUME NEW x \in Files \ X, r.derived[x] # 0
                 PROVE  r.link[x] # 0 /\ r.derived[x] = r.doc[r.link[x]]
      BY DEF Follows
    <3>1. k.link[x] # 0 /\ k.derived[x] = k.doc[k.link[x]]
      BY <1>1, <2>1 DEF Follows, SameRest
    <3>2. k.link[x] \in Ids \ {g}
      BY <2>1, <2>2, <3>1 DEF Ids
    <3> QED
      BY <2>1, <3>1, <3>2 DEF SameRest
  <2>8. Frame(b, r, R, O, V)
    <3>1. s \in V /\ V \subseteq Ids
      BY <1>1, <2>2, IdsNat DEF Frame, Open, Inside
    <3>2. Edge(b.supersedes, k.supersedes, V)
      BY <1>1 DEF Frame
    <3>3. Edge(b.supersedes, r.supersedes, V)
      BY <2>1, <3>1, <3>2, InheritedEdge
    <3>4. /\ \A v \in Ids \ V : r.doc[v] = b.doc[v] /\ r.ord[v] = b.ord[v]
          /\ \A v \in V : r.doc[v] \in O \union {0}
      BY <1>1, <2>1, <3>1 DEF Frame
    <3> QED
      BY <1>1, <2>1, <3>3, <3>4 DEF Frame, SameRest
  <2> QED
    BY <1>1, <2>6, <2>7, <2>8 DEF Held
<1> QED
  BY <1>2, <1>3

LEMMA DocumentAbsorbedTyped ==
    ASSUME NEW k, Typed(k), NEW h \in Ids, NEW t \in Ids, NEW r, r = DocumentAbsorbed(k, h, t)
    PROVE  Typed(r) /\ Lasts(k, r) /\ SameRest(k, r) /\ SameLinks(k, r) /\ SameHomes(k, r)
<1>1. CASE h = t \/ Chain(k, h) # {}
  <2>1. r = k
    BY <1>1 DEF DocumentAbsorbed
  <2> QED
    BY <2>1 DEF Lasts, SameRest, Typed, Shaped, SameLinks, SameHomes
<1>2. CASE h # t /\ Chain(k, h) = {}
  <2>1. /\ Shaped(r) /\ SameRest(k, r) /\ r.link = k.link /\ r.doc = k.doc
        /\ r.fresh = k.fresh /\ r.ord = k.ord /\ r.final = k.final
        /\ r.supersedes = k.supersedes
        /\ r.docs = k.docs \ {h} /\ r.crown = Put(k.crown, h, 0)
        /\ Inherited(k.refers, r.refers, h, t)
    BY <1>2, DocumentAbsorbedFields DEF Typed
  <2>2. Rows(k) /\ Filed(k) /\ Marks(k) /\ Ends(k.supersedes) /\ Ends(k.refers)
    BY DEF Typed
  <2>3. 0 \in 0 .. MaxIds /\ k.crown \in [Ids -> 0 .. MaxIds]
    BY <2>2, BoundsAssumption DEF Marks
  <2>4. Put(k.crown, h, 0) \in [Ids -> 0 .. MaxIds]
    BY <2>3, PutType
  <2>5. Marks(r)
    BY <2>1, <2>2, <2>4 DEF Marks
  <2>6. Rows(r)
    BY <2>1, <2>2 DEF Rows, SameRest, Linked
  <2>7. Ends(r.refers)
    BY <2>1, <2>2, InheritedEnds
  <2>8. Lasts(k, r)
    BY <2>1 DEF Lasts, SameRest, Typed, Shaped
  <2> QED
    BY <2>1, <2>2, <2>5, <2>6, <2>7, <2>8 DEF Typed, Filed, SameRest, SameLinks, SameHomes
<1> QED
  BY <1>1, <1>2

LEMMA DocumentAbsorbedHeld ==
    ASSUME NEW k, Typed(k), NEW h \in Ids, NEW t \in Ids, NEW r, r = DocumentAbsorbed(k, h, t),
           NEW s \in Ids, k.doc[s] = t,
           NEW b, NEW R, NEW O, NEW V, NEW X,
           Held(b, k, R, O, V, {}, {h}, X), h \in O, t \in O
    PROVE  Held(b, r, R, O, V, {}, {}, X)
<1>1. Open(b, R, O, V) /\ Frame(b, k, R, O, V) /\ Whole(k, {}, {h}) /\ Follows(k, X)
  BY DEF Held
<1>2. s \in Chain(k, t)
  BY DEF Chain
<1>3. CASE h = t \/ Chain(k, h) # {}
  <2>1. r = k
    BY <1>3 DEF DocumentAbsorbed
  <2>2. \E v \in Ids : k.doc[v] = h
    BY <1>2, <1>3 DEF Chain
  <2>3. Whole(k, {}, {})
    BY <1>1, <2>2 DEF Whole
  <2> QED
    BY <1>1, <2>1, <2>3 DEF Held
<1>4. CASE h # t /\ Chain(k, h) = {}
  <2>1. /\ SameRest(k, r) /\ r.link = k.link /\ r.doc = k.doc
        /\ r.fresh = k.fresh /\ r.supersedes = k.supersedes /\ r.ord = k.ord
        /\ r.docs = k.docs \ {h}
        /\ Inherited(k.refers, r.refers, h, t)
    BY <1>4, DocumentAbsorbedFields DEF Typed
  <2>2. t \in k.docs /\ \A v \in Ids : k.doc[v] # h
    BY <1>1, <1>4, IdsNat DEF Whole, Chain
  <2>3. \A q \in DOMAIN r.refers : r.refers[q][1] \in r.docs /\ r.refers[q][2] \in r.docs
    <3>1. \A q \in DOMAIN k.refers :
             k.refers[q][1] \in r.docs \union {h} /\ k.refers[q][2] \in r.docs \union {h}
      BY <1>1, <2>1 DEF Whole
    <3>2. t \in r.docs
      BY <1>4, <2>1, <2>2
    <3> QED
      BY <2>1, <3>1, <3>2, InheritedLive
  <2>4. Whole(r, {}, {})
    BY <1>1, <2>1, <2>2, <2>3 DEF Whole
  <2>5. Follows(r, X)
    BY <1>1, <2>1 DEF Follows, SameRest
  <2>6. Edge(b.refers, k.refers, O)
    BY <1>1 DEF Frame
  <2>7. Edge(b.refers, r.refers, O)
    BY <2>1, <2>6, InheritedEdge
  <2>8. Frame(b, r, R, O, V)
    BY <1>1, <2>1, <2>7 DEF Frame, SameRest
  <2> QED
    BY <1>1, <2>4, <2>5, <2>8 DEF Held
<1> QED
  BY <1>3, <1>4

LEMMA AbsorbedTyped ==
    ASSUME NEW k, Typed(k), NEW g \in Ids, NEW h \in Ids, NEW s \in Ids, k.doc[s] # 0,
           NEW r, r = Absorbed(k, g, h, s)
    PROVE  Typed(r) /\ Lasts(k, r) /\ SameRest(k, r) /\ SameLinks(k, r) /\ Stays(k, r, s)
<1> DEFINE w == VersionAbsorbed(k, g, s)
<1>1. w = VersionAbsorbed(k, g, s)
  OBVIOUS
<1>2. r = DocumentAbsorbed(w, h, k.doc[s])
  BY DEF Absorbed
<1> HIDE DEF w
<1>3. k.doc[s] \in Ids
  BY BoundsAssumption DEF Typed, Rows, Ids
<1>4. Typed(w) /\ Lasts(k, w) /\ SameRest(k, w) /\ SameLinks(k, w) /\ Stays(k, w, s)
  BY <1>1, VersionAbsorbedTyped
<1>5. Typed(r) /\ Lasts(w, r) /\ SameRest(w, r) /\ SameLinks(w, r) /\ SameHomes(w, r)
  BY <1>2, <1>3, <1>4, DocumentAbsorbedTyped
<1>6. Lasts(k, r) /\ SameRest(k, r)
  BY <1>4, <1>5 DEF Lasts, SameRest, Typed, Shaped
<1> QED
  BY <1>4, <1>5, <1>6 DEF SameLinks, SameHomes, Stays

(* What was left of the version and of the document a file has left goes,  *)
(* and nothing dangles.                                                    *)
LEMMA AbsorbedHeld ==
    ASSUME NEW k, Typed(k), NEW g \in Ids, NEW h \in Ids, NEW s \in Ids,
           NEW f \in Files, s = k.link[f], k.doc[g] = h \/ s = g,
           NEW r, r = Absorbed(k, g, h, s),
           NEW b, NEW R, NEW O, NEW V, NEW X,
           Held(b, k, R, O, V, {g}, {h}, X), f \in R, g \in V, h \in O
    PROVE  Held(b, r, R, O, V, {}, {}, X)
<1> DEFINE w == VersionAbsorbed(k, g, s)
<1>1. w = VersionAbsorbed(k, g, s)
  OBVIOUS
<1>2. r = DocumentAbsorbed(w, h, k.doc[s])
  BY DEF Absorbed
<1> HIDE DEF w
<1>3. k.doc[s] \in Ids
  BY IdsNat, BoundsAssumption DEF Typed, Rows, Ids, Linked
<1>4. Typed(w) /\ Stays(k, w, s)
  BY <1>1, VersionAbsorbedTyped
<1>5. Held(b, w, R, O, V, {}, {h}, X)
  BY <1>1, VersionAbsorbedHeld
<1>6. k.doc[s] \in O
  BY <1>3, IdsNat DEF Held, Frame
<1> QED
  BY <1>2, <1>3, <1>4, <1>5, <1>6, DocumentAbsorbedHeld DEF Stays

(***************************************************************************)
(* Whatever the tables hold, identifiers only grow, no file gets or loses  *)
(* its matter, and what is parked is parked on the files N.                *)
(***************************************************************************)
Grows(k, r, N) ==
    /\ Shaped(r) /\ k.fresh <= r.fresh /\ r.assigned = k.assigned
    /\ \A i \in r.intents \ k.intents : i.target \in N

LEMMA GrowsSame == ASSUME NEW k, Shaped(k), NEW N PROVE Grows(k, k, N)
BY DEF Grows, Shaped

LEMMA GrowsShaped == ASSUME NEW k, NEW r, NEW N, Grows(k, r, N) PROVE Shaped(r)
BY DEF Grows

LEMMA GrowsOn ==
    ASSUME NEW k, Shaped(k), NEW w, NEW r, NEW N, Grows(k, w, N), Grows(w, r, N)
    PROVE  Grows(k, r, N)
<1>1. k.fresh <= r.fresh
  BY DEF Grows, Shaped
<1> QED
  BY <1>1 DEF Grows

LEMMA GrowsWithVersion ==
    ASSUME NEW k, Shaped(k), NEW d, NEW f, NEW r, r = WithVersion(k, d, f), NEW N
    PROVE  Grows(k, r, N)
BY WithVersionFields DEF Grows, Shaped, SameRest

LEMMA GrowsWithEntity ==
    ASSUME NEW k, Shaped(k), NEW f, NEW r, r = WithEntity(k, f), NEW N
    PROVE  Grows(k, r, N)
BY WithEntityFields DEF Grows, Shaped, SameRest

LEMMA GrowsEnsured ==
    ASSUME NEW k, Shaped(k), NEW f, NEW r, r = Ensured(k, f), NEW N
    PROVE  Grows(k, r, N)
<1>1. CASE r = k
  BY <1>1, GrowsSame
<1>2. CASE r # k
  <2>1. r = WithEntity(k, f)
    BY <1>2 DEF Ensured
  <2> QED
    BY <2>1, GrowsWithEntity
<1> QED
  BY <1>1, <1>2

LEMMA GrowsResolved ==
    ASSUME NEW k, Shaped(k), NEW f, NEW r, r = Resolved(k, f), NEW N
    PROVE  Grows(k, r, N)
<1>1. r = k \/ r = Ensured(k, f)
  BY DEF Resolved
<1> QED
  BY <1>1, GrowsSame, GrowsEnsured

LEMMA GrowsCrowned ==
    ASSUME NEW k, Shaped(k), NEW d, NEW r, r = Crowned(k, d), NEW N
    PROVE  Grows(k, r, N)
BY CrownedFields DEF Grows, Shaped, SameRest, SameRows

LEMMA GrowsRenumbered ==
    ASSUME NEW k, Shaped(k), NEW d, NEW r, r = Renumbered(k, d), NEW N
    PROVE  Grows(k, r, N)
BY RenumberedFields DEF Grows, Shaped, SameRest, SameRows

LEMMA GrowsOrdered ==
    ASSUME NEW k, Shaped(k), NEW v, NEW t, NEW order, NEW r, r = Ordered(k, v, t, order), NEW N
    PROVE  Grows(k, r, N)
<1>1. Shaped(r) /\ SameRows(k, r) /\ SameRest(k, r)
  BY OrderedFields
<1> QED
  BY <1>1 DEF Grows, Shaped, SameRest, SameRows

LEMMA GrowsMerged ==
    ASSUME NEW k, Shaped(k), NEW f, NEW t, NEW identity, NEW order,
           NEW r, r = Merged(k, f, t, identity, order), NEW N
    PROVE  Grows(k, r, N)
<1> DEFINE d == k.doc[t]
           mine == k.link[f]
           apart == mine = t \/ Cardinality(Sources(k, mine)) > 1
           joined == IF apart THEN WithVersion(k, d, f) ELSE [k EXCEPT !.doc[mine] = d]
<1>1. CASE identity = "duplicate"
  <2>1. r = [k EXCEPT !.link[f] = t]
    BY <1>1 DEF Merged
  <2> QED
    BY <2>1 DEF Grows, Shaped, Fields
<1>2. CASE identity # "duplicate"
  <2>1. r = Ordered(joined, joined.link[f], t, order)
    BY <1>2 DEF Merged
  <2>2. Grows(k, joined, N)
    <3>1. CASE apart
      <4>1. joined = WithVersion(k, d, f)
        BY <3>1
      <4> HIDE DEF joined, d
      <4> QED
        BY <4>1, GrowsWithVersion
    <3>2. CASE ~apart
      <4>1. joined = [k EXCEPT !.doc[mine] = d]
        BY <3>2
      <4> HIDE DEF joined, d
      <4> QED
        BY <4>1 DEF Grows, Shaped, Fields
    <3> QED
      BY <3>1, <3>2
  <2> HIDE DEF joined
  <2>3. Shaped(joined)
    BY <2>2 DEF Grows
  <2>4. Grows(joined, r, N)
    BY <2>1, <2>3, GrowsOrdered
  <2> QED
    BY <2>2, <2>4, GrowsOn
<1> QED
  BY <1>1, <1>2

LEMMA GrowsAbsorbed ==
    ASSUME NEW k, Shaped(k), NEW g, NEW h, NEW s, NEW r, r = Absorbed(k, g, h, s), NEW N
    PROVE  Grows(k, r, N)
<1> DEFINE w == VersionAbsorbed(k, g, s)
<1>1. w = VersionAbsorbed(k, g, s)
  OBVIOUS
<1>2. r = DocumentAbsorbed(w, h, k.doc[s])
  BY DEF Absorbed
<1> HIDE DEF w
<1>3. w = k \/ (Shaped(w) /\ SameRest(k, w) /\ w.fresh = k.fresh)
  BY <1>1, VersionAbsorbedFields
<1>4. Grows(k, w, N) /\ Shaped(w)
  BY <1>3, GrowsSame DEF Grows, Shaped, SameRest
<1>5. r = w \/ (Shaped(r) /\ SameRest(w, r) /\ r.fresh = w.fresh)
  BY <1>2, <1>4, DocumentAbsorbedFields
<1>6. Grows(w, r, N)
  BY <1>4, <1>5, GrowsSame DEF Grows, Shaped, SameRest
<1> QED
  BY <1>4, <1>6, GrowsOn

LEMMA GrowsJudged ==
    ASSUME NEW k, Shaped(k), NEW f, NEW a, NEW r, r = Judged(k, f, a), NEW N
    PROVE  Grows(k, r, N)
BY JudgedFields DEF Grows, Shaped, SameRest, SameRows

LEMMA GrowsParked ==
    ASSUME NEW k, Shaped(k), NEW f, NEW t, NEW intent, NEW a,
           NEW r, r = Parked(k, f, t, intent, a), NEW N, t \in N
    PROVE  Grows(k, r, N)
<1>1. /\ Shaped(r) /\ r.fresh = k.fresh /\ r.assigned = k.assigned
      /\ \/ r.intents = k.intents
         \/ r.intents = k.intents \union
               {[origin |-> f, target |-> t, intent |-> intent,
                 identity |-> a.identity, order |-> a.order, status |-> "pending"]}
  BY ParkedFields DEF SameRows
<1>2. \A i \in r.intents \ k.intents : i.target \in N
  BY <1>1
<1> QED
  BY <1>1, <1>2 DEF Grows, Shaped

LEMMA GrowsRelated ==
    ASSUME NEW k, Shaped(k), NEW f, NEW g, NEW r, r = Related(k, f, g), NEW N
    PROVE  Grows(k, r, N)
<1>1. Shaped(r) /\ SameRows(k, r) /\ SameRest(k, r)
  BY RelatedFields
<1> QED
  BY <1>1 DEF Grows, Shaped, SameRest, SameRows

LEMMA GrowsSetApart ==
    ASSUME NEW k, Shaped(k), NEW f, NEW r, r = SetApart(k, f), NEW N
    PROVE  Grows(k, r, N)
<1> DEFINE w == WithEntity(k, f)
<1>1. r = k \/ r = Renumbered(w, k.doc[k.link[f]])
  BY DEF SetApart
<1>2. Grows(k, w, N)
  BY GrowsWithEntity
<1> HIDE DEF w
<1>3. CASE r = k
  BY <1>3, GrowsSame
<1>4. CASE r # k
  <2>1. Shaped(w)
    BY <1>2 DEF Grows
  <2>2. Grows(w, r, N)
    BY <1>1, <1>4, <2>1, GrowsRenumbered
  <2> QED
    BY <1>2, <2>2, GrowsOn
<1> QED
  BY <1>3, <1>4

LEMMA GrowsIdentified ==
    ASSUME NEW k, Shaped(k), NEW f, NEW a, NEW r, r = Identified(k, f, a),
           NEW N, a.identity = "new_document" \/ Resolves(k, a.of) \/ a.of \in N
    PROVE  Grows(k, r, N)
<1> DEFINE w == SetApart(k, f)
<1>1. Grows(k, w, N)
  BY GrowsSetApart
<1> HIDE DEF w
<1>2. CASE a.identity = "new_document"
  <2>1. r = w
    BY <1>2 DEF Identified, w
  <2> QED
    BY <1>1, <2>1
<1>3. CASE a.identity # "new_document" /\ Resolves(k, a.of)
  <2>1. r = Merged(k, f, k.link[a.of], a.identity, a.order)
    BY <1>3 DEF Identified
  <2> QED
    BY <2>1, GrowsMerged
<1>4. CASE a.identity # "new_document" /\ ~Resolves(k, a.of)
  <2>1. r = Parked(w, f, a.of, "identity", a)
    BY <1>4 DEF Identified, w
  <2>2. Shaped(w)
    BY <1>1 DEF Grows
  <2>3. Grows(w, r, N)
    BY <1>4, <2>1, <2>2, GrowsParked
  <2> QED
    BY <1>1, <2>3, GrowsOn
<1> QED
  BY <1>2, <1>3, <1>4

LEMMA GrowsReferred ==
    ASSUME NEW k, Shaped(k), NEW f, NEW a, NEW r, r = Referred(k, f, a),
           NEW N, a.refers = NoFile \/ Resolves(k, a.refers) \/ a.refers \in N
    PROVE  Grows(k, r, N)
<1> DEFINE w == Ensured(k, a.refers)
<1>1. Grows(k, w, N)
  BY GrowsEnsured
<1> HIDE DEF w
<1>2. CASE a.refers = NoFile
  <2>1. r = k
    BY <1>2 DEF Referred
  <2> QED
    BY <2>1, GrowsSame
<1>3. CASE a.refers # NoFile /\ Resolves(k, a.refers)
  <2>1. r = Related(w, f, a.refers)
    BY <1>3 DEF Referred, w
  <2>2. Shaped(w)
    BY <1>1 DEF Grows
  <2>3. Grows(w, r, N)
    BY <2>1, <2>2, GrowsRelated
  <2> QED
    BY <1>1, <2>3, GrowsOn
<1>4. CASE a.refers # NoFile /\ ~Resolves(k, a.refers)
  <2>1. r = Parked(k, f, a.refers, "relation", a)
    BY <1>4 DEF Referred
  <2> QED
    BY <1>4, <2>1, GrowsParked
<1> QED
  BY <1>2, <1>3, <1>4

LEMMA GrowsRequeued ==
    ASSUME NEW k, Shaped(k), NEW f, NEW r, r = Requeued(k, f), NEW N
    PROVE  Grows(k, r, N)
BY DEF Requeued, Grows, Shaped, Fields

LEMMA GrowsMergeReplayed ==
    ASSUME NEW k, Shaped(k), NEW i, NEW r, r = MergeReplayed(k, i), NEW N
    PROVE  Grows(k, r, N)
<1> DEFINE version == k.link[i.origin]
           merged == Merged(k, i.origin, k.link[i.target], i.identity, i.order)
           kept == Absorbed(merged, version, k.doc[version], merged.link[i.origin])
           crowned == Crowned(kept, kept.doc[kept.link[i.origin]])
<1>1. r = k \/ r = Requeued(crowned, i.origin)
  BY DEF MergeReplayed
<1>2. Grows(k, merged, N)
  BY GrowsMerged
<1>3. kept = Absorbed(merged, version, k.doc[version], merged.link[i.origin])
  OBVIOUS
<1>4. crowned = Crowned(kept, kept.doc[kept.link[i.origin]])
  OBVIOUS
<1> HIDE DEF version, merged, kept, crowned
<1>5. Grows(merged, kept, N)
  BY <1>2, <1>3, GrowsAbsorbed DEF Grows
<1>6. Grows(kept, crowned, N)
  BY <1>5, <1>4, GrowsCrowned DEF Grows
<1>7. Grows(k, crowned, N)
  BY <1>2, <1>5, <1>6, GrowsOn DEF Grows
<1>8. CASE r = k
  BY <1>8, GrowsSame
<1>9. CASE r = Requeued(crowned, i.origin)
  <2>1. Shaped(crowned)
    BY <1>6 DEF Grows
  <2>2. Grows(crowned, r, N)
    BY <1>9, <2>1, GrowsRequeued
  <2> QED
    BY <1>7, <2>2, GrowsOn
<1> QED
  BY <1>1, <1>8, <1>9

(***************************************************************************)
(* The operations of the relate stage, one by one                          *)
(***************************************************************************)
Keeps(k, r) ==
    /\ \A x \in Files : k.link[x] # 0 => r.link[x] = k.link[x]
    /\ \A v \in Ids : k.doc[v] # 0 => r.doc[v] = k.doc[v]

LEMMA HeldWeaker ==
    ASSUME NEW b, NEW k, NEW R, NEW O, NEW V, NEW X, Held(b, k, R, O, V, {}, {}, X), NEW V0, NEW D0, NEW x
    PROVE  Held(b, k, R, O, V, V0, D0, X \union {x})
<1>1. Whole(k, V0, D0)
  BY DEF Held, Whole
<1>2. Follows(k, X \union {x})
  BY DEF Held, Follows
<1> QED
  BY <1>1, <1>2 DEF Held

LEMMA HeldInside ==
    ASSUME NEW b, b.fresh \in Nat, NEW k, Typed(k), NEW R, NEW O, NEW V, NEW V0, NEW D0, NEW X,
           Held(b, k, R, O, V, V0, D0, X), NEW x \in R, k.link[x] # 0
    PROVE  k.link[x] \in V /\ k.doc[k.link[x]] \in O /\ k.doc[k.link[x]] \in k.docs
<1>1. Open(k, R, O, V)
  BY FrameInside DEF Held, Typed, Shaped
<1>2. x \in Files /\ k.link[x] \in V /\ k.link[x] \in Ids
  BY <1>1 DEF Open, Inside
<1>3. k.doc[k.link[x]] # 0
  BY <1>2 DEF Typed, Rows, Linked
<1>4. k.doc[k.link[x]] \in O
  BY <1>1, <1>2, <1>3 DEF Open, Inside
<1>5. k.doc[k.link[x]] \in k.docs
  BY <1>2, <1>3 DEF Held, Whole
<1> QED
  BY <1>2, <1>4, <1>5

(* A renumbering stays within its chain, and leaves it in the order it was *)
(* in; so does a placing, but for the version it places.                   *)
Strict(k, v, w) ==
    k.doc[v] # 0 /\ k.doc[v] = k.doc[w] /\ 0 < k.ord[v] /\ k.ord[v] < k.ord[w]
Sorted(k, r, X) == \A v, w \in Ids \ X : Strict(k, v, w) => Strict(r, v, w)
SameOutside(k, r, d) == \A v \in Ids : k.doc[v] # d => r.ord[v] = k.ord[v]

LEMMA RenumberedSorted ==
    ASSUME NEW k, Shaped(k), Marks(k), NEW d, NEW r, r = Renumbered(k, d)
    PROVE  SameOutside(k, r, d) /\ Sorted(k, r, {})
<1> DEFINE placed == {v \in Chain(k, d) : k.ord[v] # 0}
           Upto(v) == {u \in placed : k.ord[u] <= k.ord[v]}
           T(v) == {k.ord[w] : w \in Upto(v)}
           Rung(v) == Cardinality(T(v))
           o == [v \in Ids |-> IF v \in placed THEN Rung(v) ELSE k.ord[v]]
           w0 == [k EXCEPT !.ord = o]
<1>1. /\ k.ord \in [Ids -> Nat] /\ placed \subseteq Ids
      /\ \A v \in Ids : v \in placed <=> k.doc[v] = d /\ k.ord[v] # 0
  BY DEF Marks, Chain
<1>2. r = Crowned(w0, d)
  BY DEF Renumbered
<1>3. w0.ord = o /\ Shaped(w0)
  BY DEF Shaped, Fields
<1> HIDE DEF w0
<1>4. r.ord = o /\ r.doc = k.doc
  <2>1. r.ord = w0.ord
    BY <1>2, <1>3, CrownedFields
  <2>2. r.doc = k.doc
    BY RenumberedFields DEF SameRows
  <2> QED
    BY <1>3, <2>1, <2>2
<1>5. ASSUME NEW v \in Ids PROVE IsFiniteSet(T(v))
  <2>1. IsFiniteSet(Upto(v))
    <3>1. Upto(v) \subseteq Ids
      BY <1>1
    <3> HIDE DEF Upto
    <3> QED
      BY <3>1, FiniteIds
  <2> DEFINE g == [w \in Upto(v) |-> k.ord[w]]
  <2>2. g \in Surjection(Upto(v), T(v))
    BY DEF Surjection
  <2> HIDE DEF Upto, T, g
  <2> QED
    BY <2>1, <2>2, FS_Surjection
<1>6. SameOutside(k, r, d)
  BY <1>1, <1>4 DEF SameOutside
<1>7. ASSUME NEW v \in placed, NEW w \in placed, k.ord[v] < k.ord[w]
      PROVE  0 < Rung(v) /\ Rung(v) < Rung(w)
  <2>1. v \in Ids /\ w \in Ids /\ k.ord[v] \in Nat /\ k.ord[w] \in Nat
    BY <1>1
  <2>2. IsFiniteSet(T(v)) /\ IsFiniteSet(T(w))
    BY <1>5, <2>1
  <2>3. k.ord[v] \in T(v) /\ k.ord[w] \in T(w)
    BY <2>1
  <2>4. k.ord[w] \notin T(v)
    BY <1>1, <1>7, <2>1
  <2>5. T(v) \subseteq T(w)
    <3> SUFFICES ASSUME NEW u \in placed, k.ord[u] <= k.ord[v] PROVE k.ord[u] <= k.ord[w]
      OBVIOUS
    <3> QED
      BY <1>1, <1>7, <2>1
  <2> HIDE DEF T
  <2>6. Cardinality(T(v)) \in Nat /\ Cardinality(T(v)) # 0
    BY <2>2, <2>3, FS_CardinalityType, FS_EmptySet
  <2>7. Cardinality(T(w)) \in Nat /\ Cardinality(T(v)) < Cardinality(T(w))
    <3>1. T(v) \union {k.ord[w]} \subseteq T(w)
      BY <2>3, <2>5
    <3>2. Cardinality(T(v) \union {k.ord[w]}) = Cardinality(T(v)) + 1
      BY <2>2, <2>4, FS_AddElement
    <3>3. Cardinality(T(v) \union {k.ord[w]}) <= Cardinality(T(w))
      BY <2>2, <3>1, FS_Subset
    <3> QED
      BY <2>2, <2>6, <3>2, <3>3, FS_CardinalityType
  <2> QED
    BY <2>6, <2>7
<1>8. \A v \in Ids : r.ord[v] = IF v \in placed THEN Rung(v) ELSE k.ord[v]
  BY <1>4
<1> HIDE DEF Rung, placed, o
<1>9. ASSUME NEW v \in Ids, NEW w \in Ids, Strict(k, v, w) PROVE Strict(r, v, w)
  <2>1. k.doc[v] # 0 /\ k.doc[v] = k.doc[w] /\ 0 < k.ord[v] /\ k.ord[v] < k.ord[w]
    BY <1>9 DEF Strict
  <2>2. k.ord[v] \in Nat /\ k.ord[w] \in Nat
    BY <1>1
  <2>3. v \in placed <=> w \in placed
    BY <1>1, <2>1, <2>2
  <2>4. 0 < r.ord[v] /\ r.ord[v] < r.ord[w]
    BY <1>7, <1>8, <2>1, <2>3
  <2> QED
    BY <1>4, <2>1, <2>4 DEF Strict
<1> QED
  BY <1>6, <1>9 DEF Sorted

LEMMA OrderedSorted ==
    ASSUME NEW k, Shaped(k), Marks(k), NEW e \in Ids, NEW t \in Ids, NEW order,
           NEW r, r = Ordered(k, e, t, order)
    PROVE  SameOutside(k, r, k.doc[e]) /\ Sorted(k, r, {e})
<1> DEFINE others == Chain(k, k.doc[e]) \ {e}
           moved == Displaced(k, others, t, order)
           mine == CASE order = "before" -> Place(k, t)
                     [] order = "after" -> Place(k, t) + 1
                     [] order = "same" -> k.ord[t]
                     [] OTHER -> 0
           o == [u \in Ids |-> IF u = e THEN mine
                               ELSE IF u \in moved THEN Place(k, u) + 1 ELSE k.ord[u]]
<1>1. \A u \in Ids : Place(k, u) \in Nat /\ k.ord[u] \in Nat /\ (k.ord[u] # 0 => Place(k, u) = k.ord[u])
  BY DEF Place, Marks
<1>2. mine \in Nat
  BY <1>1
<1>3. moved \subseteq others
  BY DEF Displaced
<1>4. ASSUME NEW v \in others, NEW w \in others, k.ord[v] # 0, k.ord[v] < k.ord[w], v \in moved
      PROVE  w \in moved
  <2>1. v \in Ids /\ w \in Ids
    BY DEF Chain
  <2>2. k.ord[w] # 0 /\ Place(k, v) < Place(k, w)
    BY <1>1, <1>4, <2>1
  <2> HIDE DEF others
  <2> QED
    BY <1>1, <1>4, <2>1, <2>2 DEF Displaced
<1>5. \A v \in Ids : v \in others <=> v # e /\ k.doc[v] = k.doc[e]
  BY DEF Chain
<1> HIDE DEF mine, moved, others
<1>6. o \in [Ids -> Nat] /\ \A u \in Ids \ {e} : o[u] = IF u \in moved THEN Place(k, u) + 1 ELSE k.ord[u]
  BY <1>1, <1>2
<1>7. PICK s : r = Renumbered([k EXCEPT !.ord = o, !.supersedes = s], k.doc[e])
  BY DEF Ordered, mine, moved, others
<1> HIDE DEF o
<1> DEFINE w0 == [k EXCEPT !.ord = o, !.supersedes = s]
<1>8. Shaped(w0) /\ Marks(w0) /\ w0.ord = o /\ w0.doc = k.doc
  BY <1>6 DEF Shaped, Fields, Marks
<1>9. r = Renumbered(w0, k.doc[e])
  BY <1>7
<1> HIDE DEF w0
<1>10. SameOutside(w0, r, k.doc[e]) /\ Sorted(w0, r, {})
  BY <1>8, <1>9, RenumberedSorted
<1>11. SameOutside(k, r, k.doc[e])
  BY <1>3, <1>5, <1>6, <1>8, <1>10 DEF SameOutside
<1>12. ASSUME NEW v \in Ids \ {e}, NEW w \in Ids \ {e}, Strict(k, v, w) PROVE Strict(w0, v, w)
  <2>1. k.doc[v] # 0 /\ k.doc[v] = k.doc[w] /\ 0 < k.ord[v] /\ k.ord[v] < k.ord[w]
    BY <1>12 DEF Strict
  <2>2. v \in others <=> w \in others
    BY <1>5, <2>1
  <2>3. v \in moved => w \in moved
    BY <1>1, <1>3, <1>4, <2>1, <2>2
  <2>4. 0 < o[v] /\ o[v] < o[w]
    <3>1. k.ord[v] # 0 /\ k.ord[w] # 0
      BY <1>1, <2>1
    <3> QED
      BY <1>1, <1>6, <2>1, <2>3, <3>1
  <2> QED
    BY <1>8, <2>1, <2>4 DEF Strict
<1>13. Sorted(k, r, {e})
  BY <1>10, <1>12 DEF Sorted
<1> QED
  BY <1>11, <1>13

LEMMA EntityPlaced ==
    ASSUME NEW k, Typed(k), NEW f \in Files, NEW r, r = WithEntity(k, f)
    PROVE  Placed(k, r, f, k.fresh, k.fresh) /\ Marks(r)
<1>1. /\ Shaped(r) /\ SameEdges(k, r) /\ SameRest(k, r) /\ r.fresh = k.fresh + 1
      /\ r.link = Put(k.link, f, k.fresh)
      /\ r.doc = Put(k.doc, k.fresh, k.fresh)
      /\ r.docs = k.docs \union {k.fresh} /\ r.ord = Put(k.ord, k.fresh, 1)
  BY WithEntityFields DEF Typed
<1>0. \A D : Reordered(k, r, k.fresh, D)
  BY <1>1 DEF Reordered, Put, Typed, Marks
<1>2. Marks(r)
  BY WithEntityMarks DEF Typed
<1>3. Grown(k.supersedes, r.supersedes, Chain(r, k.fresh)) /\ r.refers = k.refers
  BY <1>1, GrownSame DEF SameEdges
<1> QED
  BY <1>0, <1>1, <1>2, <1>3 DEF Placed

LEMMA EnsuredTyped ==
    ASSUME NEW k, Typed(k), NEW f \in Files, NEW r, r = Ensured(k, f), r.fresh <= MaxIds
    PROVE  Typed(r) /\ Lasts(k, r) /\ r.link[f] # 0
<1>1. CASE k.link[f] # 0
  <2>1. r = k
    BY <1>1 DEF Ensured
  <2> QED
    BY <1>1, <2>1 DEF Lasts, Typed, Shaped
<1>2. CASE k.link[f] = 0
  <2>1. Placed(k, r, f, k.fresh, k.fresh) /\ Marks(r)
    BY <1>2, EntityPlaced DEF Ensured
  <2>2. Typed(r) /\ Lasts(k, r)
    BY <2>1, PlacedTyped
  <2>3. r.link[f] = k.fresh /\ k.fresh \in Ids
    BY <2>1, PlacedRows
  <2> QED
    BY <2>2, <2>3, IdsNat
<1> QED
  BY <1>1, <1>2

LEMMA EnsuredHeld ==
    ASSUME NEW k, Typed(k), NEW f \in Files, NEW r, r = Ensured(k, f), r.fresh <= MaxIds,
           NEW b, b.fresh \in Nat, NEW R, NEW O, NEW V, NEW V0, NEW D0, NEW X,
           Held(b, k, R, O, V, V0, D0, X), f \in R
    PROVE  Held(b, r, R, O, V, V0, D0, X) /\ Keeps(k, r)
<1>1. CASE k.link[f] # 0
  <2>1. r = k
    BY <1>1 DEF Ensured
  <2> QED
    BY <2>1 DEF Keeps
<1>2. CASE k.link[f] = 0
  <2>1. Placed(k, r, f, k.fresh, k.fresh)
    BY <1>2, EntityPlaced DEF Ensured
  <2>2. /\ k.fresh \in Ids /\ r.derived = k.derived
        /\ r.link[f] = k.fresh /\ \A x \in Files \ {f} : r.link[x] = k.link[x]
        /\ \A v \in Ids \ {k.fresh} : r.doc[v] = k.doc[v]
    BY <2>1, PlacedRows
  <2>3. Open(k, R, O, V)
    BY FrameInside DEF Held, Typed, Shaped
  <2>4. k.fresh \in V /\ k.fresh \in O
    BY <2>2, <2>3, IdsNat DEF Open
  <2>5. Held(b, r, R, O, V, V0 \union {k.link[f]}, D0 \union Homes(k, {f}), X \union {f})
    BY <2>1, <2>4, PlacedHeld
  <2>6. Homes(k, {f}) = {}
    BY <1>2 DEF Homes, Home
  <2>7. Whole(r, V0, D0)
    <3>1. Whole(r, V0 \union {0}, D0)
      BY <1>2, <2>5, <2>6 DEF Held
    <3>2. \A v \in Ids : v \in V0 \union {0} => v \in V0
      BY IdsNat
    <3> QED
      BY <3>1, <3>2 DEF Whole
  <2>8. Follows(r, X)
    <3>1. f \notin X => r.derived[f] = 0
      BY <1>2, <2>2 DEF Held, Follows
    <3> QED
      BY <2>5, <3>1 DEF Held, Follows
  <2>9. k.doc[k.fresh] = 0
    BY <2>2, IdsNat DEF Held, Whole
  <2> QED
    BY <1>2, <2>2, <2>5, <2>7, <2>8, <2>9 DEF Held, Keeps
<1> QED
  BY <1>1, <1>2

LEMMA ResolvedTyped ==
    ASSUME NEW k, Typed(k), NEW f \in Files \union {NoFile}, NEW r, r = Resolved(k, f), r.fresh <= MaxIds
    PROVE  Typed(r) /\ Lasts(k, r) /\ (Resolves(k, f) => r.link[f] # 0)
<1>1. CASE Resolves(k, f)
  <2>1. r = Ensured(k, f) /\ f \in Files
    BY <1>1 DEF Resolved, Resolves
  <2> QED
    BY <2>1, EnsuredTyped
<1>2. CASE ~Resolves(k, f)
  BY <1>2 DEF Resolved, Lasts, Typed, Shaped
<1> QED
  BY <1>1, <1>2

LEMMA ResolvedHeld ==
    ASSUME NEW k, Typed(k), NEW f \in Files \union {NoFile}, NEW r, r = Resolved(k, f), r.fresh <= MaxIds,
           NEW b, b.fresh \in Nat, NEW R, NEW O, NEW V, NEW V0, NEW D0, NEW X,
           Held(b, k, R, O, V, V0, D0, X), f # NoFile => f \in R
    PROVE  Held(b, r, R, O, V, V0, D0, X) /\ Keeps(k, r)
<1>1. CASE Resolves(k, f)
  <2>1. r = Ensured(k, f) /\ f \in Files /\ f \in R
    BY <1>1 DEF Resolved, Resolves
  <2> QED
    BY <2>1, EnsuredHeld
<1>2. CASE ~Resolves(k, f)
  BY <1>2 DEF Resolved, Keeps
<1> QED
  BY <1>1, <1>2

LEMMA GrownWider ==
    ASSUME NEW old, NEW new, NEW A, NEW B, Grown(old, new, A), A \subseteq B
    PROVE  Grown(old, new, B)
BY DEF Grown

(* One source, and no other.                                               *)
LEMMA SoleSource ==
    ASSUME NEW k, NEW f \in Files, ~(Cardinality(Sources(k, k.link[f])) > 1)
    PROVE  Sources(k, k.link[f]) = {f}
<1> DEFINE S == Sources(k, k.link[f])
<1>1. f \in S /\ S \subseteq Files
  BY DEF Sources
<1> HIDE DEF S
<1>2. IsFiniteSet(S)
  BY <1>1, FilesAssumption, FS_Subset
<1>3. Cardinality(S) \in Nat /\ Cardinality(S) # 0
  BY <1>1, <1>2, FS_CardinalityType, FS_EmptySet
<1>4. Cardinality(S) = 1
  BY <1>3 DEF S
<1>5. PICK x : S = {x}
  BY <1>2, <1>4, FS_Singleton
<1> QED
  BY <1>1, <1>5 DEF S

(* What follows a placing within the document stays a placing.             *)
LEMMA RenumberedPlaced ==
    ASSUME NEW k, NEW f, NEW e, NEW d, NEW j, Placed(k, j, f, e, d), Marks(j),
           NEW c, c \in {d, Home(k, f)}, c # 0, NEW r, r = Renumbered(j, c)
    PROVE  Placed(k, r, f, e, d) /\ Marks(r)
<1>1. Shaped(j)
  BY DEF Placed
<1>2. Shaped(r) /\ SameRows(j, r) /\ SameEdges(j, r) /\ SameRest(j, r)
  BY <1>1, RenumberedFields
<1>3. Chain(r, d) = Chain(j, d) /\ SameRest(k, r)
  BY <1>2 DEF Chain, SameRows, SameRest, Placed
<1>4. Marks(r)
  BY <1>1, RenumberedMarks
<1>5. Reordered(k, r, e, {d, Home(k, f)})
  <2>1. SameOutside(j, r, c) /\ Reordered(k, j, e, {d, Home(k, f)})
    BY <1>1, RenumberedSorted DEF Placed
  <2> QED
    BY <1>2, <2>1 DEF Reordered, SameOutside, SameRows
<1> QED
  BY <1>2, <1>3, <1>4, <1>5 DEF Placed, SameRows, SameEdges

LEMMA OrderedPlaced ==
    ASSUME NEW k, NEW f, NEW e, NEW d, NEW j, Placed(k, j, f, e, d), Marks(j),
           NEW t \in Ids, e \in Ids, j.doc[e] = d, j.doc[t] = d, d # 0,
           NEW order, NEW r, r = Ordered(j, e, t, order)
    PROVE  Placed(k, r, f, e, d) /\ Marks(r)
<1>1. Shaped(j)
  BY DEF Placed
<1>2. /\ Shaped(r) /\ SameRows(j, r) /\ SameRest(j, r)
      /\ SameRefers(j, r) /\ Grown(j.supersedes, r.supersedes, {e, t})
  BY <1>1, OrderedFields
<1>3. Chain(r, d) = Chain(j, d) /\ SameRest(k, r)
  BY <1>2 DEF Chain, SameRows, SameRest, Placed
<1>4. {e, t} \subseteq Chain(j, d)
  BY DEF Chain
<1>5. Grown(j.supersedes, r.supersedes, Chain(j, d))
  BY <1>2, <1>4, GrownWider
<1>6. Grown(k.supersedes, r.supersedes, Chain(r, d))
  BY <1>3, <1>5 DEF Grown, Placed
<1>7. Marks(r)
  BY <1>1, OrderedMarks
<1>8. Reordered(k, r, e, {d, Home(k, f)})
  <2>1. SameOutside(j, r, d) /\ Reordered(k, j, e, {d, Home(k, f)})
    BY <1>1, OrderedSorted DEF Placed
  <2> QED
    BY <1>2, <2>1 DEF Reordered, SameOutside, SameRows
<1> QED
  BY <1>2, <1>3, <1>6, <1>7, <1>8 DEF Placed, SameRows, SameRefers

(* Where a merge leads: to a version of the target's document.             *)
LEMMA MergedPlaced ==
    ASSUME NEW k, Typed(k), NEW f \in Files, NEW g \in Files, k.link[f] # 0, k.link[g] # 0,
           NEW identity, NEW order, NEW r, r = Merged(k, f, k.link[g], identity, order),
           r.fresh <= MaxIds
    PROVE  \E e \in {k.fresh, k.link[f], k.link[g]} :
             Placed(k, r, f, e, k.doc[k.link[g]]) /\ Marks(r)
<1> DEFINE t == k.link[g]
           d == k.doc[t]
           mine == k.link[f]
           apart == mine = t \/ Cardinality(Sources(k, mine)) > 1
           joined == IF apart THEN WithVersion(k, d, f) ELSE [k EXCEPT !.doc[mine] = d]
<1>1. t \in Ids /\ mine \in Ids /\ d # 0
  BY DEF Typed, Rows, Linked, Ids
<1>2. d \in Homed(k)
  BY <1>1 DEF Homed
<1>3. Shaped(k) /\ Marks(k) /\ k.link \in [Files -> 0 .. MaxIds] /\ k.doc \in [Ids -> 0 .. MaxIds]
  BY DEF Typed, Rows
<1>4. CASE identity = "duplicate"
  <2>1. r = [k EXCEPT !.link[f] = t]
    BY <1>4 DEF Merged
  <2> HIDE DEF t, d, mine
  <2>2. /\ Shaped(r) /\ SameRest(k, r) /\ r.link = Put(k.link, f, t) /\ r.doc = k.doc
        /\ r.refers = k.refers /\ r.supersedes = k.supersedes /\ r.docs = k.docs
        /\ r.fresh = k.fresh /\ r.ord = k.ord /\ r.crown = k.crown /\ r.final = k.final
    BY <1>3, <2>1 DEF Shaped, Fields, SameRest, Put
  <2>3. r.doc = Put(k.doc, t, d)
    <3>1. Put(k.doc, t, d) = k.doc
      BY <1>1, <1>3 DEF Put, d
    <3> QED
      BY <2>2, <3>1
  <2>4. Grown(k.supersedes, r.supersedes, Chain(r, d))
    BY <2>2, GrownSame
  <2>5. k.doc[t] = d
    BY DEF d
  <2>6. Placed(k, r, f, t, d)
    BY <1>1, <1>2, <2>2, <2>3, <2>4, <2>5 DEF Placed, Reordered
  <2>7. Marks(r)
    BY <1>3, <2>2 DEF Marks
  <2> QED
    BY <2>6, <2>7 DEF t, d
<1>5. CASE identity # "duplicate"
  <2>1. r = Ordered(joined, joined.link[f], t, order)
    BY <1>5 DEF Merged
  <2>2. Shaped(joined) => joined.fresh <= MaxIds
    <3> SUFFICES ASSUME Shaped(joined) PROVE joined.fresh <= MaxIds
      OBVIOUS
    <3> HIDE DEF joined, t
    <3>1. SameRows(joined, r)
      BY <2>1, OrderedFields
    <3> QED
      BY <3>1 DEF SameRows
  <2>3. CASE apart
    <3>1. joined = WithVersion(k, d, f)
      BY <2>3
    <3> HIDE DEF joined, apart, mine, d, t
    <3>2. /\ Shaped(joined) /\ SameEdges(k, joined) /\ SameRest(k, joined)
          /\ joined.docs = k.docs /\ joined.fresh = k.fresh + 1
          /\ joined.link = Put(k.link, f, k.fresh)
          /\ joined.doc = Put(k.doc, k.fresh, d) /\ joined.ord = Put(k.ord, k.fresh, 1)
      BY <1>3, <3>1, WithVersionFields
    <3>3. Marks(joined)
      BY <1>3, <3>1, WithVersionMarks
    <3>4. Placed(k, joined, f, k.fresh, d)
      <4>1. Grown(k.supersedes, joined.supersedes, Chain(joined, d))
        BY <3>2, GrownSame DEF SameEdges
      <4>2. Reordered(k, joined, k.fresh, {d, Home(k, f)})
        BY <1>3, <3>2 DEF Reordered, Put, Marks
      <4> QED
        BY <1>2, <3>2, <4>1, <4>2 DEF Placed, SameEdges
    <3>5. /\ k.fresh \in Ids /\ joined.link[f] = k.fresh /\ joined.doc[k.fresh] = d
          /\ \A v \in Ids \ {k.fresh} : joined.doc[v] = k.doc[v]
      BY <2>2, <3>2, <3>4, PlacedRows
    <3>6. joined.doc[t] = d
      BY <1>1, <3>5 DEF d
    <3>7. Placed(k, r, f, k.fresh, d) /\ Marks(r)
      BY <1>1, <2>1, <3>3, <3>4, <3>5, <3>6, OrderedPlaced
    <3> QED
      BY <3>7 DEF d, t
  <2>4. CASE ~apart
    <3>1. joined = [k EXCEPT !.doc[mine] = d] /\ Sources(k, mine) = {f}
      BY <2>4, SoleSource
    <3>2. k.link[f] = mine
      OBVIOUS
    <3> HIDE DEF joined, apart, mine, d, t
    <3>3. /\ Shaped(joined) /\ SameEdges(k, joined) /\ SameRest(k, joined)
          /\ joined.docs = k.docs /\ joined.fresh = k.fresh /\ joined.link = k.link
          /\ joined.ord = k.ord /\ joined.crown = k.crown /\ joined.final = k.final
          /\ joined.doc = Put(k.doc, mine, d)
      BY <1>3, <3>1 DEF Shaped, Fields, SameEdges, SameRest, Put
    <3>4. Marks(joined)
      BY <1>3, <3>3 DEF Marks
    <3>5. Placed(k, joined, f, mine, d)
      <4>1. Grown(k.supersedes, joined.supersedes, Chain(joined, d))
        BY <3>3, GrownSame DEF SameEdges
      <4>2. Put(k.link, f, mine) = k.link
        BY <1>3, <3>2 DEF Put
      <4> QED
        BY <1>1, <1>2, <3>1, <3>2, <3>3, <4>1, <4>2 DEF Placed, SameEdges, Reordered
    <3>6. /\ joined.link[f] = mine /\ joined.doc[mine] = d
          /\ \A v \in Ids \ {mine} : joined.doc[v] = k.doc[v]
      BY <2>2, <3>3, <3>5, PlacedRows
    <3>7. joined.doc[t] = d
      BY <1>1, <3>6 DEF d
    <3>8. Placed(k, r, f, mine, d) /\ Marks(r)
      BY <1>1, <2>1, <3>4, <3>5, <3>6, <3>7, OrderedPlaced
    <3> QED
      BY <3>8 DEF d, t, mine
  <2> QED
    BY <2>3, <2>4
<1> QED
  BY <1>4, <1>5

(* The version and the document a file had: it still has the version, or   *)
(* the version is where it was.                                            *)
Leaves(k, r, f) == r.doc[k.link[f]] = k.doc[k.link[f]] \/ r.link[f] = k.link[f]

LEMMA PlacedLeaves ==
    ASSUME NEW k, Typed(k), NEW f \in Files, k.link[f] # 0, NEW r, NEW e, NEW d,
           Placed(k, r, f, e, d), Marks(r), r.fresh <= MaxIds
    PROVE  Typed(r) /\ Lasts(k, r) /\ Leaves(k, r, f)
<1>1. Typed(r) /\ Lasts(k, r)
  BY PlacedTyped
<1>2. /\ r.link[f] = e /\ \A v \in Ids \ {e} : r.doc[v] = k.doc[v]
  BY PlacedRows
<1>3. k.link[f] \in Ids
  BY DEF Typed, Rows, Ids
<1> QED
  BY <1>1, <1>2, <1>3 DEF Leaves

LEMMA MergedTyped ==
    ASSUME NEW k, Typed(k), NEW f \in Files, NEW g \in Files, k.link[f] # 0, k.link[g] # 0,
           NEW identity, NEW order, NEW r, r = Merged(k, f, k.link[g], identity, order),
           r.fresh <= MaxIds
    PROVE  Typed(r) /\ Lasts(k, r) /\ Leaves(k, r, f)
<1> DEFINE d == k.doc[k.link[g]]
<1>1. PICK e : Placed(k, r, f, e, d) /\ Marks(r)
  BY MergedPlaced
<1> HIDE DEF d
<1> QED
  BY <1>1, PlacedLeaves

LEMMA MergedHeld ==
    ASSUME NEW k, Typed(k), NEW f \in Files, NEW g \in Files, k.link[f] # 0, k.link[g] # 0,
           NEW identity, NEW order, NEW r, r = Merged(k, f, k.link[g], identity, order),
           r.fresh <= MaxIds,
           NEW b, b.fresh \in Nat, NEW R, NEW O, NEW V, NEW X,
           Held(b, k, R, O, V, {}, {}, X), f \in R, g \in R
    PROVE  Held(b, r, R, O, V, {k.link[f]}, Homes(k, {f}), X \union {f})
<1> DEFINE d == k.doc[k.link[g]]
<1>1. PICK e \in {k.fresh, k.link[f], k.link[g]} : Placed(k, r, f, e, d)
  BY MergedPlaced
<1>2. k.link[f] \in V /\ k.link[g] \in V /\ d \in O
  BY HeldInside
<1> HIDE DEF d
<1>3. e \in Ids
  BY <1>1, PlacedRows
<1>4. Open(k, R, O, V)
  BY FrameInside DEF Held, Typed, Shaped
<1>5. e \in V
  BY <1>1, <1>2, <1>3, <1>4, IdsNat DEF Open
<1>6. Held(b, r, R, O, V, {} \union {k.link[f]}, {} \union Homes(k, {f}), X \union {f})
  BY <1>1, <1>2, <1>5, PlacedHeld
<1> QED
  BY <1>6

LEMMA SetApartPlaced ==
    ASSUME NEW k, Typed(k), NEW f \in Files, k.link[f] # 0, NEW r, r = SetApart(k, f), r # k
    PROVE  Placed(k, r, f, k.fresh, k.fresh) /\ Marks(r)
<1> DEFINE w == WithEntity(k, f)
<1>1. r = Renumbered(w, k.doc[k.link[f]])
  BY DEF SetApart
<1>2. Placed(k, w, f, k.fresh, k.fresh) /\ Marks(w)
  BY EntityPlaced
<1>3. Home(k, f) = k.doc[k.link[f]] /\ Home(k, f) # 0
  BY DEF Home, Typed, Rows, Linked
<1> HIDE DEF w
<1> QED
  BY <1>1, <1>2, <1>3, RenumberedPlaced

LEMMA SetApartTyped ==
    ASSUME NEW k, Typed(k), NEW f \in Files, k.link[f] # 0, NEW r, r = SetApart(k, f), r.fresh <= MaxIds
    PROVE  Typed(r) /\ Lasts(k, r) /\ Leaves(k, r, f)
<1>1. CASE r = k
  BY <1>1 DEF Lasts, Typed, Shaped, Leaves
<1>2. CASE r # k
  BY <1>2, SetApartPlaced, PlacedLeaves
<1> QED
  BY <1>1, <1>2

LEMMA SetApartHeld ==
    ASSUME NEW k, Typed(k), NEW f \in Files, k.link[f] # 0, NEW r, r = SetApart(k, f), r.fresh <= MaxIds,
           NEW b, b.fresh \in Nat, NEW R, NEW O, NEW V, NEW X,
           Held(b, k, R, O, V, {}, {}, X), f \in R
    PROVE  Held(b, r, R, O, V, {k.link[f]}, Homes(k, {f}), X \union {f})
<1>1. CASE r = k
  BY <1>1, HeldWeaker
<1>2. CASE r # k
  <2>1. Placed(k, r, f, k.fresh, k.fresh)
    BY <1>2, SetApartPlaced
  <2>2. k.fresh \in Ids
    BY <2>1, PlacedRows
  <2>3. Open(k, R, O, V)
    BY FrameInside DEF Held, Typed, Shaped
  <2>4. k.fresh \in V /\ k.fresh \in O
    BY <2>2, <2>3, IdsNat DEF Open
  <2>5. Held(b, r, R, O, V, {} \union {k.link[f]}, {} \union Homes(k, {f}), X \union {f})
    BY <2>1, <2>4, PlacedHeld
  <2> QED
    BY <2>5
<1> QED
  BY <1>1, <1>2

LEMMA ParkedQuiet ==
    ASSUME NEW k, Typed(k), NEW f \in Files, NEW t \in Files, NEW a \in Statements,
           NEW intent \in {"identity", "relation"}, NEW r, r = Parked(k, f, t, intent, a)
    PROVE  Quiet(k, r, {}) /\ Marks(r) /\ Filed(r) /\ Keeps(k, r)
<1> DEFINE parked == [origin |-> f, target |-> t, intent |-> intent,
                      identity |-> a.identity, order |-> a.order, status |-> "pending"]
<1>1. /\ Shaped(r) /\ SameRows(k, r) /\ SameEdges(k, r)
      /\ r.ord = k.ord /\ r.crown = k.crown /\ r.final = k.final
      /\ r.assigned = k.assigned /\ r.derived = k.derived
      /\ r.intents = k.intents \/ r.intents = k.intents \union {parked}
  BY ParkedFields DEF Typed
<1>2. parked \in Intents
  BY StatementsAssumption DEF Intents
<1> HIDE DEF parked
<1>3. IsFiniteSet(k.intents) /\ k.intents \subseteq Intents /\ Marks(k)
  BY DEF Typed, Filed
<1>4. IsFiniteSet(r.intents) /\ r.intents \subseteq Intents
  BY <1>1, <1>2, <1>3, FS_AddElement
<1>5. Grown(k.refers, r.refers, {})
  BY <1>1, GrownSame DEF SameEdges
<1> QED
  BY <1>1, <1>3, <1>4, <1>5 DEF Quiet, Marks, Filed, SameEdges, Keeps, SameRows

LEMMA ParkedTyped ==
    ASSUME NEW k, Typed(k), NEW f \in Files, NEW t \in Files, NEW a \in Statements,
           NEW intent \in {"identity", "relation"}, NEW r, r = Parked(k, f, t, intent, a)
    PROVE  Typed(r) /\ Lasts(k, r) /\ Keeps(k, r)
<1>1. Quiet(k, r, {}) /\ Marks(r) /\ Filed(r) /\ Keeps(k, r)
  BY ParkedQuiet
<1> QED
  BY <1>1, QuietTyped

LEMMA ParkedHeld ==
    ASSUME NEW k, Typed(k), NEW f \in Files, NEW t \in Files, NEW a \in Statements,
           NEW intent \in {"identity", "relation"}, NEW r, r = Parked(k, f, t, intent, a),
           NEW b, NEW R, NEW O, NEW V, NEW V0, NEW D0, NEW X,
           Held(b, k, R, O, V, V0, D0, X)
    PROVE  Held(b, r, R, O, V, V0, D0, X)
<1>1. Quiet(k, r, {})
  BY ParkedQuiet
<1> QED
  BY <1>1, QuietHeld

LEMMA LeavesKept ==
    ASSUME NEW k, Typed(k), NEW f \in Files, k.link[f] # 0, NEW w, NEW r, Lasts(k, w),
           Leaves(k, w, f), Keeps(w, r)
    PROVE  Leaves(k, r, f)
<1>1. w.link[f] # 0 /\ k.link[f] \in Ids /\ k.doc[k.link[f]] # 0
  BY DEF Lasts, Typed, Rows, Linked, Ids
<1> QED
  BY <1>1 DEF Leaves, Keeps

LEMMA LastsOn ==
    ASSUME NEW k, Typed(k), NEW w, Typed(w), NEW r, Typed(r), Lasts(k, w), Lasts(w, r)
    PROVE  Lasts(k, r)
<1>1. k.fresh \in Nat /\ w.fresh \in Nat /\ r.fresh \in Nat
  BY DEF Typed, Shaped
<1>2. k.fresh <= r.fresh
  BY <1>1 DEF Lasts
<1> QED
  BY <1>2 DEF Lasts

LEMMA IdentifiedTyped ==
    ASSUME NEW k, Typed(k), NEW f \in Files, k.link[f] # 0, NEW a \in Statements,
           Resolves(k, a.of) => k.link[a.of] # 0,
           NEW r, r = Identified(k, f, a), r.fresh <= MaxIds
    PROVE  Typed(r) /\ Lasts(k, r) /\ Leaves(k, r, f)
<1> DEFINE w == SetApart(k, f)
<1>1. a.of \in Files \union {NoFile} /\ (a.identity = "new_document" <=> a.of = NoFile)
  BY StatementsAssumption
<1>2. w = SetApart(k, f)
  OBVIOUS
<1> HIDE DEF w
<1>3. w.fresh <= MaxIds => Typed(w) /\ Lasts(k, w) /\ Leaves(k, w, f)
  BY <1>2, SetApartTyped
<1>4. CASE a.identity = "new_document"
  <2>1. r = w
    BY <1>4 DEF Identified, w
  <2> QED
    BY <1>3, <2>1
<1>5. CASE a.identity # "new_document" /\ Resolves(k, a.of)
  <2>1. r = Merged(k, f, k.link[a.of], a.identity, a.order)
    BY <1>5 DEF Identified
  <2> QED
    BY <1>1, <1>5, <2>1, MergedTyped
<1>6. CASE a.identity # "new_document" /\ ~Resolves(k, a.of)
  <2>1. r = Parked(w, f, a.of, "identity", a) /\ a.of \in Files
    BY <1>1, <1>6 DEF Identified, w
  <2>2. Shaped(w)
    BY <1>2, GrowsSetApart DEF Grows, Typed
  <2>3. w.fresh = r.fresh
    BY <2>1, <2>2, ParkedFields DEF SameRows
  <2>4. Typed(r) /\ Lasts(w, r) /\ Keeps(w, r)
    BY <1>3, <2>1, <2>3, ParkedTyped
  <2>5. Lasts(k, r) /\ Leaves(k, r, f)
    BY <1>3, <2>3, <2>4, LastsOn, LeavesKept
  <2> QED
    BY <2>4, <2>5
<1> QED
  BY <1>4, <1>5, <1>6

LEMMA IdentifiedHeld ==
    ASSUME NEW k, Typed(k), NEW f \in Files, k.link[f] # 0, NEW a \in Statements,
           Resolves(k, a.of) => k.link[a.of] # 0,
           NEW r, r = Identified(k, f, a), r.fresh <= MaxIds,
           NEW b, b.fresh \in Nat, NEW R, NEW O, NEW V, NEW X,
           Held(b, k, R, O, V, {}, {}, X), f \in R, a.of # NoFile => a.of \in R
    PROVE  Held(b, r, R, O, V, {k.link[f]}, Homes(k, {f}), X \union {f})
<1> DEFINE w == SetApart(k, f)
<1>1. a.of \in Files \union {NoFile} /\ (a.identity = "new_document" <=> a.of = NoFile)
  BY StatementsAssumption
<1>2. w = SetApart(k, f)
  OBVIOUS
<1> HIDE DEF w
<1>3. w.fresh <= MaxIds => Held(b, w, R, O, V, {k.link[f]}, Homes(k, {f}), X \union {f})
  BY <1>2, SetApartHeld
<1>4. CASE a.identity = "new_document"
  <2>1. r = w
    BY <1>4 DEF Identified, w
  <2> QED
    BY <1>3, <2>1
<1>5. CASE a.identity # "new_document" /\ Resolves(k, a.of)
  <2>1. r = Merged(k, f, k.link[a.of], a.identity, a.order)
    BY <1>5 DEF Identified
  <2>2. a.of \in Files /\ a.of \in R
    BY <1>1, <1>5 DEF Resolves
  <2> QED
    BY <1>5, <2>1, <2>2, MergedHeld
<1>6. CASE a.identity # "new_document" /\ ~Resolves(k, a.of)
  <2>1. r = Parked(w, f, a.of, "identity", a) /\ a.of \in Files
    BY <1>1, <1>6 DEF Identified, w
  <2>2. Shaped(w)
    BY <1>2, GrowsSetApart DEF Grows, Typed
  <2>3. w.fresh = r.fresh
    BY <2>1, <2>2, ParkedFields DEF SameRows
  <2>4. Typed(w)
    BY <1>2, <2>3, SetApartTyped
  <2> QED
    BY <1>3, <2>1, <2>3, <2>4, ParkedHeld
<1> QED
  BY <1>4, <1>5, <1>6

(***************************************************************************)
(* The order within the chains                                             *)
(***************************************************************************)
Blank(k) == \A v \in Ids : v >= k.fresh => k.doc[v] = 0

LEMMA WholeBlank == ASSUME NEW k, NEW V0, NEW D0, Whole(k, V0, D0) PROVE Blank(k)
BY DEF Whole, Blank

LEMMA SortedSame == ASSUME NEW k, NEW r, r.doc = k.doc, r.ord = k.ord, NEW X PROVE Sorted(k, r, X)
BY DEF Sorted, Strict

LEMMA SortedOn == ASSUME NEW k, NEW w, NEW r, NEW X, Sorted(k, w, X), Sorted(w, r, X) PROVE Sorted(k, r, X)
BY DEF Sorted

LEMMA SortedWider == ASSUME NEW k, NEW r, Sorted(k, r, {}), NEW X PROVE Sorted(k, r, X)
BY DEF Sorted

(* A new version disturbs none.                                            *)
LEMMA FreshSorted ==
    ASSUME NEW k, Typed(k), Blank(k), NEW r, NEW d, NEW n,
           r.doc = Put(k.doc, k.fresh, d), r.ord = Put(k.ord, k.fresh, n)
    PROVE  /\ Sorted(k, r, {})
           /\ \A v \in Ids : v < k.fresh => r.doc[v] = k.doc[v]
<1>1. k.doc \in [Ids -> 0 .. MaxIds] /\ k.ord \in [Ids -> Nat] /\ k.fresh \in Nat
  BY DEF Typed, Rows, Marks, Shaped
<1>2. \A v \in Ids : k.doc[v] # 0 => v # k.fresh
  BY <1>1 DEF Blank
<1>3. \A v \in Ids : v # k.fresh => r.doc[v] = k.doc[v] /\ r.ord[v] = k.ord[v]
  BY <1>1 DEF Put
<1>4. \A v \in Ids : v < k.fresh => v # k.fresh
  BY <1>1, IdsNat
<1> QED
  BY <1>2, <1>3, <1>4 DEF Sorted, Strict

LEMMA EnsuredSorted ==
    ASSUME NEW k, Typed(k), Blank(k), NEW f \in Files, NEW r, r = Ensured(k, f)
    PROVE  /\ Sorted(k, r, {})
           /\ \A v \in Ids : v < k.fresh => r.doc[v] = k.doc[v]
<1>1. CASE r = k
  BY <1>1, SortedSame
<1>2. CASE r # k
  <2>1. r.doc = Put(k.doc, k.fresh, k.fresh) /\ r.ord = Put(k.ord, k.fresh, 1)
    BY <1>2, WithEntityFields DEF Ensured, Typed
  <2> QED
    BY <2>1, FreshSorted
<1> QED
  BY <1>1, <1>2

LEMMA ResolvedSorted ==
    ASSUME NEW k, Typed(k), Blank(k), NEW f \in Files \union {NoFile}, NEW r, r = Resolved(k, f)
    PROVE  Sorted(k, r, {})
<1>1. CASE Resolves(k, f)
  <2>1. r = Ensured(k, f) /\ f \in Files
    BY <1>1 DEF Resolved, Resolves
  <2> QED
    BY <2>1, EnsuredSorted
<1>2. CASE ~Resolves(k, f)
  BY <1>2, SortedSame DEF Resolved
<1> QED
  BY <1>1, <1>2

LEMMA SetApartSorted ==
    ASSUME NEW k, Typed(k), Blank(k), NEW f \in Files, NEW r, r = SetApart(k, f)
    PROVE  Sorted(k, r, {})
<1> DEFINE w == WithEntity(k, f)
<1>1. r = k \/ r = Renumbered(w, k.doc[k.link[f]])
  BY DEF SetApart
<1>2. Shaped(w) /\ w.doc = Put(k.doc, k.fresh, k.fresh) /\ w.ord = Put(k.ord, k.fresh, 1) /\ Marks(w)
  BY WithEntityFields, WithEntityMarks DEF Typed
<1> HIDE DEF w
<1>3. Sorted(k, w, {})
  BY <1>2, FreshSorted
<1>4. CASE r = Renumbered(w, k.doc[k.link[f]])
  <2>1. Sorted(w, r, {})
    BY <1>2, <1>4, RenumberedSorted
  <2> QED
    BY <1>3, <2>1, SortedOn
<1> QED
  BY <1>1, <1>4, SortedSame

(* A merge moves the version of the file at most, and where it leaves it   *)
(* in another document nothing else.                                       *)
LEMMA MergedSorted ==
    ASSUME NEW k, Typed(k), Blank(k), NEW f \in Files, NEW g \in Files, k.link[f] # 0, k.link[g] # 0,
           NEW identity, NEW order, NEW r, r = Merged(k, f, k.link[g], identity, order),
           r.fresh <= MaxIds
    PROVE  /\ Sorted(k, r, {k.link[f]})
           /\ k.doc[k.link[f]] # k.doc[k.link[g]] /\ r.doc[k.link[f]] = k.doc[k.link[f]] => Sorted(k, r, {})
<1> DEFINE t == k.link[g]
           d == k.doc[t]
           mine == k.link[f]
           apart == mine = t \/ Cardinality(Sources(k, mine)) > 1
           joined == IF apart THEN WithVersion(k, d, f) ELSE [k EXCEPT !.doc[mine] = d]
<1>1. t \in Ids /\ mine \in Ids
  BY DEF Typed, Rows, Ids
<1>2. Shaped(k) /\ Marks(k) /\ k.link \in [Files -> 0 .. MaxIds] /\ k.doc \in [Ids -> 0 .. MaxIds]
      /\ k.fresh \in 1 .. MaxIds
  BY DEF Typed, Rows
<1>m. mine = k.link[f] /\ t = k.link[g] /\ d = k.doc[t]
  OBVIOUS
<1>3. CASE identity = "duplicate"
  <2>1. r = [k EXCEPT !.link[f] = t]
    BY <1>3 DEF Merged
  <2> HIDE DEF t, d, mine
  <2>2. r.doc = k.doc /\ r.ord = k.ord
    BY <1>2, <2>1 DEF Shaped, Fields
  <2> QED
    BY <2>2, SortedSame
<1>4. CASE identity # "duplicate" /\ apart
  <2>1. r = Ordered(joined, joined.link[f], t, order) /\ joined = WithVersion(k, d, f)
    BY <1>4 DEF Merged
  <2> HIDE DEF joined, apart, mine, d, t
  <2>2. /\ Shaped(joined) /\ Marks(joined) /\ joined.link = Put(k.link, f, k.fresh)
        /\ joined.doc = Put(k.doc, k.fresh, d) /\ joined.ord = Put(k.ord, k.fresh, 1)
    BY <1>2, <2>1, WithVersionFields, WithVersionMarks
  <2>3. joined.link[f] = k.fresh /\ k.fresh \in Ids
    BY <1>2, <2>2 DEF Put, Ids
  <2>4. Sorted(k, joined, {})
    BY <2>2, FreshSorted
  <2>5. Sorted(joined, r, {k.fresh})
    BY <1>1, <2>1, <2>2, <2>3, OrderedSorted
  <2>6. \A v \in Ids : k.doc[v] # 0 => v # k.fresh
    BY <1>2 DEF Blank
  <2>7. Sorted(k, r, {})
    BY <2>4, <2>5, <2>6 DEF Sorted, Strict
  <2> QED
    BY <2>7, SortedWider
<1>5. CASE identity # "duplicate" /\ ~apart
  <2>1. r = Ordered(joined, joined.link[f], t, order) /\ joined = [k EXCEPT !.doc[mine] = d]
    BY <1>5 DEF Merged
  <2> HIDE DEF joined, apart, mine, d, t
  <2>2. /\ Shaped(joined) /\ joined.link = k.link /\ joined.doc = Put(k.doc, mine, d)
        /\ joined.ord = k.ord /\ joined.crown = k.crown /\ joined.final = k.final
    BY <1>2, <2>1 DEF Shaped, Fields, Put
  <2>3. joined.link[f] = mine /\ Marks(joined)
    BY <1>2, <1>m, <2>2 DEF Marks
  <2>4. /\ joined.doc[mine] = d
        /\ \A v \in Ids \ {mine} : joined.doc[v] = k.doc[v]
    BY <1>1, <1>2, <2>2 DEF Put
  <2>5. Sorted(k, joined, {mine})
    BY <2>2, <2>4 DEF Sorted, Strict
  <2>6. Sorted(joined, r, {mine})
    BY <1>1, <2>1, <2>2, <2>3, OrderedSorted
  <2>7. r.doc = joined.doc
    <3>1. SameRows(joined, r)
      BY <2>1, <2>2, OrderedFields
    <3> QED
      BY <3>1 DEF SameRows
  <2>8. Sorted(k, r, {mine})
    BY <2>5, <2>6, SortedOn
  <2> QED
    BY <1>m, <2>4, <2>7, <2>8
<1> QED
  BY <1>3, <1>4, <1>5

LEMMA IdentifiedSorted ==
    ASSUME NEW k, Typed(k), Blank(k), NEW f \in Files, k.link[f] # 0, NEW a \in Statements,
           Resolves(k, a.of) => k.link[a.of] # 0,
           NEW r, r = Identified(k, f, a), r.fresh <= MaxIds
    PROVE  Sorted(k, r, {k.link[f]})
<1> DEFINE w == SetApart(k, f)
<1>1. a.of \in Files \union {NoFile} /\ (a.identity = "new_document" <=> a.of = NoFile)
  BY StatementsAssumption
<1>2. w = SetApart(k, f)
  OBVIOUS
<1> HIDE DEF w
<1>3. Sorted(k, w, {}) /\ Shaped(w)
  BY <1>2, SetApartSorted, GrowsSetApart DEF Grows, Typed
<1>4. CASE a.identity = "new_document"
  <2>1. r = w
    BY <1>4 DEF Identified, w
  <2> QED
    BY <1>3, <2>1, SortedWider
<1>5. CASE a.identity # "new_document" /\ Resolves(k, a.of)
  <2>1. r = Merged(k, f, k.link[a.of], a.identity, a.order)
    BY <1>5 DEF Identified
  <2> QED
    BY <1>1, <1>5, <2>1, MergedSorted
<1>6. CASE a.identity # "new_document" /\ ~Resolves(k, a.of)
  <2>1. r = Parked(w, f, a.of, "identity", a)
    BY <1>6 DEF Identified, w
  <2>2. r.doc = w.doc /\ r.ord = w.ord
    BY <1>3, <2>1, ParkedFields DEF SameRows
  <2>3. Sorted(w, r, {})
    BY <2>2, SortedSame
  <2>4. Sorted(k, r, {})
    BY <1>3, <2>3, SortedOn
  <2> QED
    BY <2>4, SortedWider
<1> QED
  BY <1>4, <1>5, <1>6

LEMMA ReferredSorted ==
    ASSUME NEW k, Typed(k), Blank(k), NEW f \in Files, NEW a \in Statements, NEW r, r = Referred(k, f, a)
    PROVE  Sorted(k, r, {})
<1>1. a.refers \in Files \union {NoFile} /\ Shaped(k)
  BY StatementsAssumption DEF Typed
<1>2. CASE a.refers = NoFile
  BY <1>2, SortedSame DEF Referred
<1>3. CASE a.refers # NoFile /\ Resolves(k, a.refers)
  <2> DEFINE w == Ensured(k, a.refers)
  <2>1. r = Related(w, f, a.refers) /\ w = Ensured(k, a.refers)
    BY <1>3 DEF Referred
  <2> HIDE DEF w
  <2>2. Sorted(k, w, {}) /\ Shaped(w)
    BY <1>1, <1>3, <2>1, EnsuredSorted, GrowsEnsured DEF Grows
  <2>3. r.doc = w.doc /\ r.ord = w.ord
    <3>1. SameRows(w, r) /\ SameMarks(w, r)
      BY <2>1, <2>2, RelatedFields
    <3> QED
      BY <3>1 DEF SameRows, SameMarks
  <2>4. Sorted(w, r, {})
    BY <2>3, SortedSame
  <2> QED
    BY <2>2, <2>4, SortedOn
<1>4. CASE a.refers # NoFile /\ ~Resolves(k, a.refers)
  <2>1. r = Parked(k, f, a.refers, "relation", a)
    BY <1>4 DEF Referred
  <2>2. r.doc = k.doc /\ r.ord = k.ord
    BY <1>1, <2>1, ParkedFields DEF SameRows
  <2> QED
    BY <2>2, SortedSame
<1> QED
  BY <1>2, <1>3, <1>4

(* What is abandoned leaves the others where they were.                    *)
Abandons(k, r, g) ==
    /\ r.link = k.link
    /\ \A v \in Ids : r.doc[v] # k.doc[v] => v = g /\ r.doc[v] = 0
    /\ Sorted(k, r, {g})
    /\ k.doc[g] # 0 /\ r.doc[g] = k.doc[g] => Sorted(k, r, {})

LEMMA AbsorbedSorted ==
    ASSUME NEW k, Typed(k), NEW g \in Ids, NEW h, NEW s, NEW r, r = Absorbed(k, g, h, s)
    PROVE  Abandons(k, r, g)
<1> DEFINE w == VersionAbsorbed(k, g, s)
<1>1. w = VersionAbsorbed(k, g, s) /\ r = DocumentAbsorbed(w, h, k.doc[s])
  BY DEF Absorbed
<1> HIDE DEF w
<1>2. Shaped(k) /\ k.doc \in [Ids -> 0 .. MaxIds] /\ k.ord \in [Ids -> Nat]
  BY DEF Typed, Rows, Marks
<1>3. \/ w = k
      \/ Shaped(w) /\ w.link = k.link /\ w.doc = Put(k.doc, g, 0) /\ w.ord = Put(k.ord, g, 0)
  BY <1>1, <1>2, VersionAbsorbedFields
<1>4. r.link = w.link /\ r.doc = w.doc /\ r.ord = w.ord
  <2>1. Shaped(w)
    BY <1>2, <1>3
  <2> QED
    BY <1>1, <2>1, DocumentAbsorbedFields
<1>5. CASE w = k
  BY <1>4, <1>5, SortedSame DEF Abandons
<1>6. CASE w.link = k.link /\ w.doc = Put(k.doc, g, 0) /\ w.ord = Put(k.ord, g, 0)
  <2>1. r.doc[g] = 0 /\ \A v \in Ids \ {g} : r.doc[v] = k.doc[v] /\ r.ord[v] = k.ord[v]
    BY <1>2, <1>4, <1>6 DEF Put
  <2>2. Sorted(k, r, {g})
    BY <2>1 DEF Sorted, Strict
  <2> QED
    BY <1>4, <1>6, <2>1, <2>2 DEF Abandons
<1> QED
  BY <1>3, <1>5, <1>6

LEMMA QuietSorted == ASSUME NEW k, NEW r, NEW S, Quiet(k, r, S), NEW X PROVE Sorted(k, r, X)
<1>1. r.doc = k.doc /\ r.ord = k.ord
  BY DEF Quiet, SameRows
<1> QED
  BY <1>1, SortedSame

LEMMA JudgedQuiet ==
    ASSUME NEW k, Typed(k), NEW f \in Files, k.link[f] # 0, NEW a, NEW r, r = Judged(k, f, a)
    PROVE  Quiet(k, r, {}) /\ Marks(r) /\ Filed(r) /\ Keeps(k, r)
<1>1. /\ Shaped(r) /\ SameRows(k, r) /\ SameEdges(k, r) /\ SameRest(k, r)
      /\ r.ord = k.ord /\ r.crown = k.crown
      /\ r.final \in {k.final \union {k.link[f]}, k.final \ {k.link[f]}}
  BY JudgedFields DEF Typed
<1>2. k.link[f] \in Ids /\ Marks(k) /\ Filed(k)
  BY DEF Typed, Rows, Ids
<1>3. Grown(k.refers, r.refers, {})
  BY <1>1, GrownSame DEF SameEdges
<1> QED
  BY <1>1, <1>2, <1>3 DEF Quiet, Marks, Filed, SameEdges, SameRest, Keeps, SameRows

LEMMA CrownedQuiet ==
    ASSUME NEW k, Typed(k), NEW d, NEW r, r = Crowned(k, d)
    PROVE  Quiet(k, r, {}) /\ Marks(r) /\ Filed(r) /\ Keeps(k, r)
<1>1. Shaped(r) /\ SameRows(k, r) /\ SameEdges(k, r) /\ SameRest(k, r) /\ r.ord = k.ord
  BY CrownedFields DEF Typed
<1>2. Marks(r)
  BY CrownedMarks DEF Typed
<1>3. Grown(k.refers, r.refers, {})
  BY <1>1, GrownSame DEF SameEdges
<1>4. Filed(k)
  BY DEF Typed
<1> QED
  BY <1>1, <1>2, <1>3, <1>4 DEF Quiet, Filed, SameEdges, SameRest, Keeps, SameRows

LEMMA RelatedQuiet ==
    ASSUME NEW k, Typed(k), NEW f, NEW g, NEW r, r = Related(k, f, g)
    PROVE  /\ Quiet(k, r, {k.doc[k.link[f]], k.doc[k.link[g]]})
           /\ Marks(r) /\ Filed(r) /\ Keeps(k, r)
<1>1. /\ Shaped(r) /\ SameRows(k, r) /\ SameRest(k, r)
      /\ SameMarks(k, r) /\ SameSupersedes(k, r)
      /\ Grown(k.refers, r.refers, {k.doc[k.link[f]], k.doc[k.link[g]]})
  BY RelatedFields DEF Typed
<1>2. Marks(k) /\ Filed(k)
  BY DEF Typed
<1>3. Quiet(k, r, {k.doc[k.link[f]], k.doc[k.link[g]]})
  BY <1>1 DEF Quiet, SameRest, SameSupersedes, SameMarks
<1> QED
  BY <1>1, <1>2, <1>3 DEF Marks, Filed, SameRest, Keeps, SameRows, SameMarks

LEMMA RelatedTyped ==
    ASSUME NEW k, Typed(k), NEW f \in Files, NEW g \in Files, k.link[f] # 0, k.link[g] # 0,
           NEW r, r = Related(k, f, g)
    PROVE  Typed(r) /\ Lasts(k, r) /\ Keeps(k, r)
<1> DEFINE S == {k.doc[k.link[f]], k.doc[k.link[g]]}
<1>1. Quiet(k, r, S) /\ Marks(r) /\ Filed(r) /\ Keeps(k, r)
  BY RelatedQuiet
<1>2. S \subseteq Ids
  BY BoundsAssumption DEF Typed, Rows, Linked, Ids
<1> HIDE DEF S
<1> QED
  BY <1>1, <1>2, QuietTyped

LEMMA RelatedHeld ==
    ASSUME NEW k, Typed(k), NEW f \in Files, NEW g \in Files, k.link[f] # 0, k.link[g] # 0,
           NEW r, r = Related(k, f, g),
           NEW b, b.fresh \in Nat, NEW R, NEW O, NEW V, NEW V0, NEW D0, NEW X,
           Held(b, k, R, O, V, V0, D0, X), f \in R, g \in R
    PROVE  Held(b, r, R, O, V, V0, D0, X)
<1> DEFINE S == {k.doc[k.link[f]], k.doc[k.link[g]]}
<1>1. Quiet(k, r, S)
  BY RelatedQuiet
<1>2. S \subseteq k.docs /\ S \subseteq O
  BY HeldInside
<1> HIDE DEF S
<1> QED
  BY <1>1, <1>2, QuietHeld

LEMMA KeepsOn ==
    ASSUME NEW k, NEW w, NEW r, Keeps(k, w), Keeps(w, r)
    PROVE  Keeps(k, r)
BY DEF Keeps

(* Referred, and what of it is done under a lock on both files.            *)
LEMMA ReferredSound ==
    ASSUME NEW k, Typed(k), NEW f \in Files, k.link[f] # 0, NEW a \in Statements,
           NEW r, r = Referred(k, f, a), r.fresh <= MaxIds
    PROVE  /\ Typed(r) /\ Lasts(k, r)
           /\ \A b, R, O, V, V0, D0, X :
                b.fresh \in Nat /\ Held(b, k, R, O, V, V0, D0, X) /\ f \in R
                  /\ (a.refers # NoFile => a.refers \in R)
                => Held(b, r, R, O, V, V0, D0, X) /\ Keeps(k, r)
<1>1. a.refers \in Files \union {NoFile}
  BY StatementsAssumption
<1>2. CASE a.refers = NoFile
  <2>1. r = k
    BY <1>2 DEF Referred
  <2> QED
    BY <2>1 DEF Lasts, Typed, Shaped, Keeps
<1>3. CASE a.refers # NoFile /\ Resolves(k, a.refers)
  <2> DEFINE w == Ensured(k, a.refers)
  <2>1. r = Related(w, f, a.refers)
    BY <1>3 DEF Referred
  <2>2. w = Ensured(k, a.refers)
    OBVIOUS
  <2> HIDE DEF w
  <2>3. Shaped(w)
    BY <2>2, GrowsEnsured DEF Grows, Typed
  <2>4. w.fresh <= MaxIds
    <3>1. SameRows(w, r)
      BY <2>1, <2>3, RelatedFields
    <3> QED
      BY <3>1 DEF SameRows
  <2>5. Typed(w) /\ Lasts(k, w) /\ w.link[a.refers] # 0
    BY <1>1, <1>3, <2>2, <2>4, EnsuredTyped
  <2>6. w.link[f] # 0
    BY <2>5 DEF Lasts
  <2>7. Typed(r) /\ Lasts(w, r) /\ Keeps(w, r)
    BY <1>1, <1>3, <2>1, <2>5, <2>6, RelatedTyped
  <2>8. Lasts(k, r)
    BY <2>5, <2>7, LastsOn
  <2>9. ASSUME NEW b, NEW R, NEW O, NEW V, NEW V0, NEW D0, NEW X, b.fresh \in Nat,
               Held(b, k, R, O, V, V0, D0, X), f \in R, a.refers # NoFile => a.refers \in R
        PROVE  Held(b, r, R, O, V, V0, D0, X) /\ Keeps(k, r)
    <3>1. a.refers \in R /\ a.refers \in Files
      BY <1>1, <1>3, <2>9
    <3>2. Held(b, w, R, O, V, V0, D0, X) /\ Keeps(k, w)
      BY <2>2, <2>4, <2>9, <3>1, EnsuredHeld
    <3>3. Held(b, r, R, O, V, V0, D0, X)
      BY <2>1, <2>5, <2>6, <2>9, <3>1, <3>2, RelatedHeld
    <3>4. Keeps(k, r)
      BY <2>7, <3>2, KeepsOn
    <3> QED
      BY <3>3, <3>4
  <2> QED
    BY <2>7, <2>8, <2>9
<1>4. CASE a.refers # NoFile /\ ~Resolves(k, a.refers)
  <2>1. r = Parked(k, f, a.refers, "relation", a) /\ a.refers \in Files
    BY <1>1, <1>4 DEF Referred
  <2>2. Typed(r) /\ Lasts(k, r) /\ Keeps(k, r)
    BY <2>1, ParkedTyped
  <2>3. ASSUME NEW b, NEW R, NEW O, NEW V, NEW V0, NEW D0, NEW X,
               Held(b, k, R, O, V, V0, D0, X)
        PROVE  Held(b, r, R, O, V, V0, D0, X)
    BY <2>1, <2>3, ParkedHeld
  <2> QED
    BY <2>2, <2>3
<1> QED
  BY <1>2, <1>3, <1>4

(* What a file has, or had, is within the scope.                           *)
LEMMA MaterializedSound ==
    ASSUME NEW k, Typed(k), NEW f \in Files, NEW a \in Statements,
           NEW r, r = Materialized(k, f, a), r.fresh <= MaxIds
    PROVE  /\ Typed(r) /\ Lasts(k, r) /\ r.link[f] # 0
           /\ Grows(k, r, {g \in {a.of, a.refers} : g \notin k.assigned})
           /\ \A b, R, O, V, X :
                b.fresh \in Nat /\ Held(b, k, R, O, V, {}, {}, X) /\ f \in R
                  /\ {a.of, a.refers} \ {NoFile} \subseteq R
                => Held(b, r, R, O, V, {}, {}, X \union {f}) /\ Sorted(k, r, {k.link[f]})
<1> DEFINE N == {g \in {a.of, a.refers} : g \notin k.assigned}
           undelivered == {i \in k.intents : i.origin = f /\ i.status = "pending"}
           k0 == [k EXCEPT !.intents = @ \ undelivered]
           k1 == Ensured(k0, f)
           version == k1.link[f]
           gone == k1.doc[version]
           k2 == Resolved(k1, a.of)
           k3 == Identified(k2, f, a)
           k4 == Judged(k3, f, a)
           k5 == Referred(k4, f, a)
           k6 == Absorbed(k5, version, gone, k5.link[f])
<1>d1. k1 = Ensured(k0, f)
  OBVIOUS
<1>d2. k2 = Resolved(k1, a.of)
  OBVIOUS
<1>d3. k3 = Identified(k2, f, a)
  OBVIOUS
<1>d4. k4 = Judged(k3, f, a)
  OBVIOUS
<1>d5. k5 = Referred(k4, f, a)
  OBVIOUS
<1>d6. k6 = Absorbed(k5, version, gone, k5.link[f])
  OBVIOUS
<1>d7. \E d : r = Crowned(k6, d)
  BY DEF Materialized
<1>stmt. a.of \in Files \union {NoFile} /\ a.refers \in Files \union {NoFile}
         /\ (a.identity = "new_document" <=> a.of = NoFile)
  BY StatementsAssumption
<1> HIDE DEF k1, k2, k3, k4, k5, k6
<1>typ. Shaped(k) /\ Rows(k) /\ Marks(k) /\ Filed(k)
  BY DEF Typed
<1>0. /\ Shaped(k0) /\ SameRows(k, k0) /\ SameEdges(k, k0)
      /\ k0.ord = k.ord /\ k0.crown = k.crown /\ k0.final = k.final
      /\ k0.assigned = k.assigned /\ k0.derived = k.derived
      /\ k0.intents \subseteq k.intents
  BY <1>typ DEF Shaped, Fields, SameRows, SameEdges
<1> HIDE DEF k0
(* Identifiers only grow on the way.                                       *)
<1>g0. Grows(k, k0, N)
  BY <1>typ, <1>0 DEF Grows, SameRows, Shaped
<1>g1. Grows(k0, k1, N)
  BY <1>0, <1>d1, GrowsEnsured
<1>g2. Grows(k1, k2, N)
  BY <1>g1, <1>d2, GrowsShaped, GrowsResolved
<1>as. k2.assigned = k.assigned
  BY <1>g0, <1>g1, <1>g2 DEF Grows
<1>g3. Grows(k2, k3, N)
  <2>1. a.identity = "new_document" \/ Resolves(k2, a.of) \/ a.of \in N
    BY <1>as, <1>stmt DEF Resolves
  <2>2. Shaped(k2)
    BY <1>g2 DEF Grows
  <2> HIDE DEF N
  <2> QED
    BY <1>d3, <2>1, <2>2, GrowsIdentified
<1>g4. Grows(k3, k4, N)
  BY <1>g3, <1>d4, GrowsShaped, GrowsJudged
<1>g5. Grows(k4, k5, N)
  <2>1. a.refers = NoFile \/ Resolves(k4, a.refers) \/ a.refers \in N
    BY <1>as, <1>g3, <1>g4 DEF Resolves, Grows
  <2>2. Shaped(k4)
    BY <1>g4 DEF Grows
  <2> HIDE DEF N
  <2> QED
    BY <1>d5, <2>1, <2>2, GrowsReferred
<1>g6. Grows(k5, k6, N)
  BY <1>g5, <1>d6, GrowsShaped, GrowsAbsorbed
<1>g7. Grows(k6, r, N)
  BY <1>g6, <1>d7, GrowsShaped, GrowsCrowned
<1>sh. Shaped(k1) /\ Shaped(k2) /\ Shaped(k3) /\ Shaped(k4) /\ Shaped(k5) /\ Shaped(k6) /\ Shaped(r)
  BY <1>g1, <1>g2, <1>g3, <1>g4, <1>g5, <1>g6, <1>g7 DEF Grows
<1>grow. Grows(k, r, N)
  <2> HIDE DEF N
  <2> QED
    BY <1>typ, <1>g0, <1>g1, <1>g2, <1>g3, <1>g4, <1>g5, <1>g6, <1>g7, GrowsOn
<1>fr. /\ k1.fresh <= MaxIds /\ k2.fresh <= MaxIds /\ k3.fresh <= MaxIds
       /\ k4.fresh <= MaxIds /\ k5.fresh <= MaxIds
  <2>1. /\ k1.fresh \in Nat /\ k2.fresh \in Nat /\ k3.fresh \in Nat /\ k4.fresh \in Nat
        /\ k5.fresh \in Nat /\ k6.fresh \in Nat /\ r.fresh \in Nat
    BY <1>sh DEF Shaped
  <2>2. /\ k1.fresh <= k2.fresh /\ k2.fresh <= k3.fresh /\ k3.fresh <= k4.fresh
        /\ k4.fresh <= k5.fresh /\ k5.fresh <= k6.fresh /\ k6.fresh <= r.fresh
    BY <1>g2, <1>g3, <1>g4, <1>g5, <1>g6, <1>g7 DEF Grows
  <2> QED
    BY <2>1, <2>2, BoundsAssumption
(* The types, and what became of the version the file came with.           *)
<1>q0. Quiet(k, k0, {}) /\ Marks(k0) /\ Filed(k0)
  <2>1. Grown(k.refers, k0.refers, {})
    BY <1>0, GrownSame DEF SameEdges
  <2>2. IsFiniteSet(k0.intents)
    BY <1>0, <1>typ, FS_Subset DEF Filed
  <2> QED
    BY <1>0, <1>typ, <2>1, <2>2 DEF Quiet, Marks, Filed, SameEdges
<1>t0. Typed(k0) /\ Lasts(k, k0)
  BY <1>q0, QuietTyped
<1>t1. Typed(k1) /\ Lasts(k0, k1) /\ k1.link[f] # 0
  BY <1>t0, <1>fr, <1>d1, EnsuredTyped
<1>t2. Typed(k2) /\ Lasts(k1, k2) /\ (Resolves(k1, a.of) => k2.link[a.of] # 0)
  BY <1>t1, <1>fr, <1>d2, <1>stmt, ResolvedTyped
<1>f2. k2.link[f] # 0 /\ (Resolves(k2, a.of) => k2.link[a.of] # 0)
  BY <1>t1, <1>t2, <1>g2 DEF Lasts, Resolves, Grows
<1>t3. Typed(k3) /\ Lasts(k2, k3) /\ Leaves(k2, k3, f)
  BY <1>t2, <1>f2, <1>fr, <1>d3, IdentifiedTyped
<1>f3. k3.link[f] # 0
  BY <1>f2, <1>t3 DEF Lasts
<1>q4. Quiet(k3, k4, {}) /\ Marks(k4) /\ Filed(k4) /\ Keeps(k3, k4)
  BY <1>t3, <1>f3, <1>d4, JudgedQuiet
<1>t4. Typed(k4) /\ Lasts(k3, k4)
  BY <1>t3, <1>q4, QuietTyped
<1>f4. k4.link[f] # 0
  BY <1>f3, <1>t4 DEF Lasts
<1>t5. Typed(k5) /\ Lasts(k4, k5)
  BY <1>t4, <1>f4, <1>fr, <1>d5, ReferredSound
<1>f5. k5.link[f] \in Ids /\ k5.doc[k5.link[f]] # 0
  BY <1>f4, <1>t5 DEF Lasts, Typed, Rows, Linked, Ids
<1>v. version \in Ids /\ gone \in Ids
  BY <1>t1, BoundsAssumption DEF Typed, Rows, Linked, Ids
<1>t6. Typed(k6) /\ Lasts(k5, k6) /\ SameLinks(k5, k6)
  <2> DEFINE s == k5.link[f]
  <2> HIDE DEF version, gone, s
  <2>1. s \in Ids /\ k5.doc[s] # 0 /\ k6 = Absorbed(k5, version, gone, s)
    BY <1>f5, <1>d6 DEF s
  <2> QED
    BY <1>t5, <1>v, <2>1, AbsorbedTyped
<1>q7. Quiet(k6, r, {}) /\ Marks(r) /\ Filed(r) /\ Keeps(k6, r)
  BY <1>t6, <1>d7, CrownedQuiet
<1>t7. Typed(r) /\ Lasts(k6, r)
  BY <1>t6, <1>q7, QuietTyped
<1>lasts. Lasts(k, r)
  BY <1>t0, <1>t1, <1>t2, <1>t3, <1>t4, <1>t5, <1>t6, <1>t7, LastsOn
<1>f7. r.link[f] # 0
  BY <1>f5, <1>t6, <1>t7, IdsNat DEF Lasts, SameLinks
(* And nothing outside the scope is touched, nothing dangles.              *)
<1>held. ASSUME NEW b, NEW R, NEW O, NEW V, NEW X, b.fresh \in Nat,
                Held(b, k, R, O, V, {}, {}, X), f \in R, {a.of, a.refers} \ {NoFile} \subseteq R
         PROVE  Held(b, r, R, O, V, {}, {}, X \union {f}) /\ Sorted(k, r, {k.link[f]})
  <2> DEFINE Y == X \union {f}
             D0 == Homes(k2, {f})
  <2>0. Held(b, k0, R, O, V, {}, {}, X)
    BY <1>q0, <1>held, QuietHeld
  <2>1. Held(b, k1, R, O, V, {}, {}, X)
    BY <2>0, <1>held, <1>t0, <1>fr, <1>d1, EnsuredHeld
  <2>2. Held(b, k2, R, O, V, {}, {}, X) /\ Keeps(k1, k2)
    <3>1. a.of # NoFile => a.of \in R
      BY <1>held
    <3> QED
      BY <2>1, <3>1, <1>held, <1>stmt, <1>t1, <1>fr, <1>d2, ResolvedHeld
  <2>kept. k2.link[f] = version /\ k2.doc[version] = gone /\ version \in Ids
    BY <1>t1, <1>v, <2>2 DEF Keeps, Typed, Rows, Linked
  <2>home. Homes(k2, {f}) = {gone}
    BY <2>kept, <1>v, IdsNat DEF Homes, Home
  <2>3. Held(b, k3, R, O, V, {k2.link[f]}, D0, Y)
    <3>1. a.of # NoFile => a.of \in R
      BY <1>held
    <3> QED
      BY <2>2, <3>1, <1>held, <1>t2, <1>f2, <1>fr, <1>d3, IdentifiedHeld
  <2>3a. Held(b, k3, R, O, V, {version}, {gone}, Y)
    BY <2>3, <2>kept, <2>home
  <2> HIDE DEF Y
  <2>4. Held(b, k4, R, O, V, {version}, {gone}, Y)
    BY <2>3a, <1>q4, QuietHeld
  <2>5. Held(b, k5, R, O, V, {version}, {gone}, Y) /\ Keeps(k4, k5)
    <3>1. a.refers # NoFile => a.refers \in R
      BY <1>held
    <3> QED
      BY <2>4, <3>1, <1>held, <1>t4, <1>f4, <1>fr, <1>d5, ReferredSound
  <2>left. Leaves(k2, k5, f)
    BY <1>t2, <1>f2, <1>t3, <1>q4, <2>5, KeepsOn, LeavesKept
  <2>6. Held(b, k6, R, O, V, {}, {}, Y)
    <3>1. k5.doc[version] = gone \/ k5.link[f] = version
      BY <2>left, <2>kept DEF Leaves
    <3>2. version \in V /\ gone \in O
      BY <2>2, <2>kept, <1>held, <1>t2, <1>f2, HeldInside
    <3> DEFINE s == k5.link[f]
    <3>3. s \in Ids /\ s = k5.link[f] /\ k6 = Absorbed(k5, version, gone, s)
      BY <1>f5, <1>d6
    <3> HIDE DEF version, gone, s
    <3> QED
      BY <3>1, <3>2, <3>3, <2>5, <1>t5, <1>v, <1>held, AbsorbedHeld
  <2>7. Held(b, r, R, O, V, {}, {}, Y)
    BY <2>6, <1>q7, QuietHeld
  <2>8. Sorted(k, r, {version})
    <3>0. Blank(k0) /\ Blank(k1) /\ Blank(k2) /\ Blank(k4)
      BY <2>0, <2>1, <2>2, <2>4, WholeBlank DEF Held
    <3> HIDE DEF version, gone
    <3>1. Sorted(k, k0, {version})
      BY <1>q0, QuietSorted
    <3>2. Sorted(k0, k1, {version})
      BY <3>0, <1>t0, <1>d1, EnsuredSorted, SortedWider
    <3>3. Sorted(k1, k2, {version})
      BY <3>0, <1>t1, <1>d2, <1>stmt, ResolvedSorted, SortedWider
    <3>4. Sorted(k2, k3, {version})
      <4>1. Sorted(k2, k3, {k2.link[f]})
        BY <3>0, <1>t2, <1>f2, <1>fr, <1>d3, IdentifiedSorted
      <4> QED
        BY <4>1, <2>kept
    <3>5. Sorted(k3, k4, {version})
      BY <1>q4, QuietSorted
    <3>6. Sorted(k4, k5, {version})
      BY <3>0, <1>t4, <1>d5, ReferredSorted, SortedWider
    <3>7. Sorted(k5, k6, {version})
      <4> DEFINE s == k5.link[f]
      <4>1. k6 = Absorbed(k5, version, gone, s) /\ version \in Ids
        BY <1>d6, <1>v
      <4> HIDE DEF s
      <4> QED
        BY <1>t5, <4>1, AbsorbedSorted DEF Abandons
    <3>8. Sorted(k6, r, {version})
      BY <1>q7, QuietSorted
    <3>9. Sorted(k, k4, {version})
      BY <3>1, <3>2, <3>3, <3>4, <3>5, SortedOn
    <3> QED
      BY <3>6, <3>7, <3>8, <3>9, SortedOn
  <2>9. Sorted(k, r, {k.link[f]})
    <3>1. CASE k.link[f] # 0
      <4>1. k1 = k0 /\ version = k.link[f]
        BY <3>1, <1>0, <1>d1 DEF Ensured, SameRows
      <4> QED
        BY <2>8, <4>1
    <3>2. CASE k.link[f] = 0
      <4>1. version = k.fresh
        <5>1. k1 = WithEntity(k0, f) /\ k0.fresh = k.fresh
          BY <3>2, <1>0, <1>d1 DEF Ensured, SameRows
        <5>2. k1.link = Put(k0.link, f, k0.fresh) /\ k0.link \in [Files -> 0 .. MaxIds]
          BY <5>1, <1>0, <1>t0, WithEntityFields DEF Typed, Rows
        <5> QED
          BY <5>1, <5>2 DEF Put
      <4>2. k.doc[version] = 0
        <5>1. Blank(k) /\ k.fresh \in Nat
          BY <1>held, <1>typ, WholeBlank DEF Held, Shaped
        <5> QED
          BY <4>1, <5>1, <1>v DEF Blank
      <4> QED
        BY <2>8, <4>2 DEF Sorted, Strict
    <3> QED
      BY <3>1, <3>2
  <2> QED
    BY <2>7, <2>9 DEF Y
<1> QED
  BY <1>t7, <1>lasts, <1>f7, <1>grow, <1>held

(***************************************************************************)
(* The replay of what was parked                                           *)
(***************************************************************************)
LEMMA RequeuedSound ==
    ASSUME NEW k, Typed(k), NEW f \in Files, NEW r, r = Requeued(k, f)
    PROVE  /\ Typed(r) /\ Lasts(k, r)
           /\ \A b, R, O, V, X : Held(b, k, R, O, V, {}, {}, X \union {f}) /\ f \in R
                => Held(b, r, R, O, V, {}, {}, X)
<1>1. Shaped(k) /\ Rows(k) /\ Marks(k) /\ Filed(k) /\ Ends(k.supersedes) /\ Ends(k.refers)
  BY DEF Typed
<1>2. /\ Shaped(r) /\ SameRows(k, r) /\ SameEdges(k, r) /\ SameMarks(k, r)
      /\ r.assigned = k.assigned /\ r.intents = k.intents
      /\ r.derived = Put(k.derived, f, 0)
  BY <1>1 DEF Requeued, Shaped, Fields, SameRows, SameEdges, SameMarks, Put
<1>3. k.derived \in [Files -> 0 .. MaxIds] /\ 0 \in 0 .. MaxIds
  BY <1>1, BoundsAssumption DEF Rows
<1>4. /\ r.derived \in [Files -> 0 .. MaxIds] /\ r.derived[f] = 0
      /\ \A x \in Files \ {f} : r.derived[x] = k.derived[x]
  BY <1>2, <1>3 DEF Put
<1>5. Rows(r)
  BY <1>1, <1>2, <1>4 DEF Rows, SameRows, Linked
<1>6. Typed(r)
  BY <1>1, <1>2, <1>5 DEF Typed, Marks, Filed, SameEdges, SameMarks
<1>7. Lasts(k, r)
  BY <1>1, <1>2, <1>4 DEF Lasts, SameRows, Shaped
<1>8. ASSUME NEW b, NEW R, NEW O, NEW V, NEW X, Held(b, k, R, O, V, {}, {}, X \union {f}), f \in R
      PROVE  Held(b, r, R, O, V, {}, {}, X)
  <2>1. Open(b, R, O, V) /\ Frame(b, k, R, O, V) /\ Whole(k, {}, {}) /\ Follows(k, X \union {f})
    BY <1>8 DEF Held
  <2>2. Whole(r, {}, {})
    BY <1>2, <2>1 DEF Whole, SameRows, SameEdges, SameMarks
  <2>3. Follows(r, X)
    BY <1>2, <1>4, <2>1 DEF Follows, SameRows
  <2>4. Frame(b, r, R, O, V)
    BY <1>2, <1>4, <1>8, <2>1 DEF Frame, SameRows, SameEdges, SameMarks
  <2> QED
    BY <2>1, <2>2, <2>3, <2>4 DEF Held
<1> QED
  BY <1>6, <1>7, <1>8

LEMMA MergeReplayedSound ==
    ASSUME NEW k, Typed(k), NEW i, i.origin \in Files, i.target \in Files,
           k.link[i.origin] # 0, k.link[i.target] # 0,
           NEW r, r = MergeReplayed(k, i), r.fresh <= MaxIds
    PROVE  /\ Typed(r) /\ Lasts(k, r)
           /\ \A b, R, O, V, X :
                b.fresh \in Nat /\ Held(b, k, R, O, V, {}, {}, X) /\ i.origin \in R /\ i.target \in R
                => Held(b, r, R, O, V, {}, {}, X)
<1> DEFINE o == i.origin
           t == i.target
           version == k.link[o]
           gone == k.doc[version]
           merged == Merged(k, o, k.link[t], i.identity, i.order)
           kept == Absorbed(merged, version, gone, merged.link[o])
           crowned == Crowned(kept, kept.doc[kept.link[o]])
<1>d1. merged = Merged(k, o, k.link[t], i.identity, i.order)
  OBVIOUS
<1>d2. kept = Absorbed(merged, version, gone, merged.link[o])
  OBVIOUS
<1>d3. \E d : crowned = Crowned(kept, d)
  OBVIOUS
<1>d4. r = k \/ r = Requeued(crowned, o)
  BY DEF MergeReplayed
<1>f. o \in Files /\ t \in Files /\ version = k.link[o] /\ version # 0 /\ k.link[t] # 0
  OBVIOUS
<1> HIDE DEF merged, kept, crowned
<1>1. CASE r = k
  BY <1>1 DEF Lasts, Typed, Shaped
<1>2. CASE r = Requeued(crowned, o)
  <2> HIDE DEF o, t
  <2>g1. Shaped(merged) /\ Grows(k, merged, {})
    BY <1>d1, GrowsMerged, GrowsShaped DEF Typed
  <2>g2. Shaped(kept) /\ Grows(merged, kept, {})
    BY <1>d2, <2>g1, GrowsAbsorbed, GrowsShaped
  <2>g3. Shaped(crowned) /\ Grows(kept, crowned, {})
    BY <1>d3, <2>g2, GrowsCrowned, GrowsShaped
  <2>g4. Shaped(r) /\ Grows(crowned, r, {})
    BY <1>2, <2>g3, GrowsRequeued, GrowsShaped
  <2>fr. merged.fresh <= MaxIds
    BY <2>g1, <2>g2, <2>g3, <2>g4, BoundsAssumption DEF Grows, Shaped
  <2>1. Typed(merged) /\ Lasts(k, merged) /\ Leaves(k, merged, o)
    BY <1>d1, <1>f, <2>fr, MergedTyped
  <2>2. merged.link[o] \in Ids /\ merged.doc[merged.link[o]] # 0
    BY <1>f, <2>1 DEF Lasts, Typed, Rows, Linked, Ids
  <2>3. version \in Ids /\ gone \in Ids
    BY <1>f, BoundsAssumption DEF Typed, Rows, Linked, Ids
  <2>4. Typed(kept) /\ Lasts(merged, kept)
    <3> DEFINE s == merged.link[o]
    <3>1. s \in Ids /\ merged.doc[s] # 0 /\ kept = Absorbed(merged, version, gone, s)
      BY <1>d2, <2>2
    <3> HIDE DEF version, gone, s
    <3> QED
      BY <2>1, <2>3, <3>1, AbsorbedTyped
  <2>5. Quiet(kept, crowned, {}) /\ Marks(crowned) /\ Filed(crowned)
    BY <1>d3, <2>4, CrownedQuiet
  <2>6. Typed(crowned) /\ Lasts(kept, crowned)
    BY <2>4, <2>5, QuietTyped
  <2>7. Typed(r) /\ Lasts(crowned, r)
    BY <1>2, <1>f, <2>6, RequeuedSound
  <2>8. Lasts(k, r)
    BY <2>1, <2>4, <2>6, <2>7, LastsOn
  <2>9. ASSUME NEW b, NEW R, NEW O, NEW V, NEW X, b.fresh \in Nat,
               Held(b, k, R, O, V, {}, {}, X), o \in R, t \in R
        PROVE  Held(b, r, R, O, V, {}, {}, X)
    <3>1. Held(b, merged, R, O, V, {k.link[o]}, Homes(k, {o}), X \union {o})
      BY <1>d1, <1>f, <2>9, <2>fr, MergedHeld
    <3>2. Homes(k, {o}) = {gone}
      BY <1>f, <2>3, IdsNat DEF Homes, Home
    <3>3. Held(b, merged, R, O, V, {version}, {gone}, X \union {o})
      BY <3>1, <3>2
    <3>4. version \in V /\ gone \in O
      BY <1>f, <2>9, HeldInside
    <3>5. merged.doc[version] = gone \/ merged.link[o] = version
      BY <2>1 DEF Leaves
    <3>6. Held(b, kept, R, O, V, {}, {}, X \union {o})
      <4> DEFINE s == merged.link[o]
      <4>1. s \in Ids /\ s = merged.link[o] /\ kept = Absorbed(merged, version, gone, s)
        BY <1>d2, <2>2
      <4> HIDE DEF version, gone, s
      <4> QED
        BY <1>f, <2>1, <2>3, <2>9, <3>3, <3>4, <3>5, <4>1, AbsorbedHeld
    <3>7. Held(b, crowned, R, O, V, {}, {}, X \union {o})
      BY <2>5, <3>6, QuietHeld
    <3> QED
      BY <1>2, <1>f, <2>6, <2>9, <3>7, RequeuedSound
  <2> QED
    BY <2>7, <2>8, <2>9 DEF o, t
<1> QED
  BY <1>d4, <1>1, <1>2

(* One intent is applied, and no other is parked.                          *)
Waits(k, i) == i \in k.intents /\ i.status = "pending"

By(k, i, one, ready, done, r) ==
    /\ one = Ensured(k, i.target) /\ ready = Ensured(one, i.origin)
    /\ done = Related(ready, i.origin, i.target) \/ done = MergeReplayed(ready, i)
    /\ Shaped(one) /\ Shaped(ready) /\ Shaped(done)
    /\ one.fresh <= r.fresh /\ ready.fresh <= r.fresh /\ done.fresh = r.fresh
    /\ done.intents \subseteq k.intents
    /\ r = [done EXCEPT !.intents = (done.intents \ {i}) \union {[i EXCEPT !.status = "applied"]}]

LEMMA ReplayedGrows ==
    ASSUME NEW k, Shaped(k), NEW i \in Intents, NEW r, r = Replayed(k, i)
    PROVE  /\ Shaped(r) /\ k.fresh <= r.fresh /\ r.assigned = k.assigned
           /\ \A j : Waits(r, j) => Waits(k, j) /\ j # i
           /\ \E one, ready, done : By(k, i, one, ready, done, r)
<1> DEFINE one == Ensured(k, i.target)
           ready == Ensured(one, i.origin)
           done == IF i.intent = "relation" THEN Related(ready, i.origin, i.target)
                   ELSE MergeReplayed(ready, i)
<1>d1. one = Ensured(k, i.target)
  OBVIOUS
<1>d2. ready = Ensured(one, i.origin)
  OBVIOUS
<1>d3. done = Related(ready, i.origin, i.target) \/ done = MergeReplayed(ready, i)
  OBVIOUS
<1>d4. r = [done EXCEPT !.intents = (done.intents \ {i}) \union {[i EXCEPT !.status = "applied"]}]
  BY DEF Replayed
<1> HIDE DEF one, ready, done
<1>1. Shaped(one) /\ Grows(k, one, {})
  BY <1>d1, GrowsEnsured, GrowsShaped
<1>2. Shaped(ready) /\ Grows(one, ready, {})
  BY <1>d2, <1>1, GrowsEnsured, GrowsShaped
<1>3. Shaped(done) /\ Grows(ready, done, {})
  BY <1>d3, <1>2, GrowsRelated, GrowsMergeReplayed, GrowsShaped
<1>4. /\ Shaped(r) /\ r.fresh = done.fresh /\ r.assigned = done.assigned
      /\ r.intents = (done.intents \ {i}) \union {[i EXCEPT !.status = "applied"]}
  BY <1>d4, <1>3 DEF Shaped, Fields
<1>5. Grows(k, done, {})
  BY <1>1, <1>2, <1>3, GrowsOn
<1>6. done.intents \subseteq k.intents
  BY <1>5 DEF Grows
<1>7. \A j : Waits(r, j) => Waits(k, j) /\ j # i
  <2> SUFFICES ASSUME NEW j, Waits(r, j) PROVE Waits(k, j) /\ j # i
    OBVIOUS
  <2>1. j.status = "pending" /\ j \in r.intents
    BY DEF Waits
  <2>2. CASE j \in done.intents \ {i}
    BY <1>6, <2>1, <2>2 DEF Waits
  <2>3. CASE j = [i EXCEPT !.status = "applied"]
    <3>1. j.status = "applied"
      BY <2>3 DEF Intents
    <3> QED
      BY <2>1, <3>1
  <2> QED
    BY <1>4, <2>1, <2>2, <2>3
<1>8. /\ one.fresh <= r.fresh /\ ready.fresh <= r.fresh /\ k.fresh <= r.fresh
      /\ r.assigned = k.assigned
  BY <1>1, <1>2, <1>3, <1>4, <1>5 DEF Grows, Shaped
<1>9. By(k, i, one, ready, done, r)
  BY <1>d1, <1>d2, <1>d3, <1>d4, <1>1, <1>2, <1>3, <1>4, <1>6, <1>8 DEF By
<1> QED
  BY <1>4, <1>7, <1>8, <1>9

LEMMA ReplayedSound ==
    ASSUME NEW k, Typed(k), NEW i \in Intents, NEW r, r = Replayed(k, i), r.fresh <= MaxIds
    PROVE  /\ Typed(r) /\ Lasts(k, r)
           /\ \A b, R, O, V, X :
                b.fresh \in Nat /\ Held(b, k, R, O, V, {}, {}, X) /\ i.origin \in R /\ i.target \in R
                => Held(b, r, R, O, V, {}, {}, X)
<1>1. Shaped(k)
  BY DEF Typed
<1>p. PICK one, ready, done : By(k, i, one, ready, done, r)
  BY <1>1, ReplayedGrows
<1>2. /\ one = Ensured(k, i.target) /\ ready = Ensured(one, i.origin)
      /\ done = Related(ready, i.origin, i.target) \/ done = MergeReplayed(ready, i)
      /\ Shaped(one) /\ Shaped(ready) /\ Shaped(done)
      /\ one.fresh <= r.fresh /\ ready.fresh <= r.fresh /\ done.fresh = r.fresh
  BY <1>p DEF By
<1>e. r = [done EXCEPT !.intents = (done.intents \ {i}) \union {[i EXCEPT !.status = "applied"]}]
  BY <1>p DEF By
<1>f. i.origin \in Files /\ i.target \in Files
  BY DEF Intents
<1>3. one.fresh <= MaxIds /\ ready.fresh <= MaxIds /\ done.fresh <= MaxIds
  <2>1. one.fresh \in Nat /\ ready.fresh \in Nat /\ done.fresh \in Nat
    BY <1>2 DEF Shaped
  <2> QED
    BY <1>2, <2>1, BoundsAssumption
<1>4. Typed(one) /\ Lasts(k, one) /\ one.link[i.target] # 0
  BY <1>2, <1>3, <1>f, EnsuredTyped
<1>5. Typed(ready) /\ Lasts(one, ready) /\ ready.link[i.origin] # 0
  BY <1>2, <1>3, <1>4, <1>f, EnsuredTyped
<1>6. ready.link[i.target] # 0
  BY <1>4, <1>5, <1>f DEF Lasts
<1>7. Typed(done) /\ Lasts(ready, done)
  <2>1. CASE done = Related(ready, i.origin, i.target)
    BY <1>5, <1>6, <1>f, <2>1, RelatedTyped
  <2>2. CASE done = MergeReplayed(ready, i)
    BY <1>3, <1>5, <1>6, <1>f, <2>2, MergeReplayedSound
  <2> QED
    BY <1>2, <2>1, <2>2
<1> DEFINE applied == [i EXCEPT !.status = "applied"]
<1>8. applied \in Intents
  BY DEF Intents
<1> HIDE DEF applied
<1>9. /\ Shaped(r) /\ SameRows(done, r) /\ SameEdges(done, r) /\ SameMarks(done, r)
      /\ r.assigned = done.assigned /\ r.derived = done.derived
      /\ r.intents = (done.intents \ {i}) \union {applied}
  BY <1>2, <1>e DEF Shaped, Fields, SameRows, SameEdges, SameMarks, applied
<1>10. Filed(r)
  <2>1. IsFiniteSet(done.intents) /\ done.intents \subseteq Intents
    BY <1>7 DEF Typed, Filed
  <2>2. IsFiniteSet(done.intents \ {i})
    BY <2>1, FS_RemoveElement
  <2>3. IsFiniteSet((done.intents \ {i}) \union {applied})
    BY <2>2, FS_AddElement
  <2> QED
    BY <1>8, <1>9, <2>1, <2>3 DEF Filed
<1>11. Typed(r)
  BY <1>7, <1>9, <1>10 DEF Typed, Rows, Linked, Marks, SameRows, SameEdges, SameMarks
<1>12. Lasts(done, r)
  BY <1>7, <1>9 DEF Lasts, SameRows, Typed, Shaped
<1>13. Lasts(k, r)
  <2>1. Lasts(k, ready)
    BY <1>4, <1>5, LastsOn
  <2>2. Lasts(k, done)
    BY <1>5, <1>7, <2>1, LastsOn
  <2> QED
    BY <1>7, <1>11, <1>12, <2>2, LastsOn
<1>14. ASSUME NEW b, NEW R, NEW O, NEW V, NEW X, b.fresh \in Nat,
              Held(b, k, R, O, V, {}, {}, X), i.origin \in R, i.target \in R
       PROVE  Held(b, r, R, O, V, {}, {}, X)
  <2>1. Held(b, one, R, O, V, {}, {}, X)
    BY <1>2, <1>3, <1>f, <1>14, EnsuredHeld
  <2>2. Held(b, ready, R, O, V, {}, {}, X)
    BY <1>2, <1>3, <1>4, <1>f, <1>14, <2>1, EnsuredHeld
  <2>3. Held(b, done, R, O, V, {}, {}, X)
    <3>1. CASE done = Related(ready, i.origin, i.target)
      BY <1>5, <1>6, <1>f, <1>14, <2>2, <3>1, RelatedHeld
    <3>2. CASE done = MergeReplayed(ready, i)
      BY <1>3, <1>5, <1>6, <1>f, <1>14, <2>2, <3>2, MergeReplayedSound
    <3> QED
      BY <1>2, <3>1, <3>2
  <2> QED
    BY <1>9, <2>3 DEF Held, Frame, Whole, Follows, SameRows, SameEdges, SameMarks
<1> QED
  BY <1>11, <1>13, <1>14

(* Two versions that stay where they are keep their order.                 *)
Steady(k, r) ==
    \A v, w \in Ids : Strict(k, v, w) /\ r.doc[v] = k.doc[v] /\ r.doc[w] = k.doc[w] => Strict(r, v, w)

(* What the replays on a file f may do: they draw versions into its        *)
(* document, out of which none is ever drawn, or abandon them.             *)
Drawn(k, r, f) ==
    /\ Home(k, f) # 0 => Home(r, f) = Home(k, f)
    /\ \A v \in Ids : v < k.fresh /\ r.doc[v] # k.doc[v] =>
         Home(r, f) # 0 /\ k.doc[v] \notin {0, Home(r, f)} /\ r.doc[v] \in {0, Home(r, f)}
    /\ Steady(k, r)

LEMMA DrawnSame ==
    ASSUME NEW k, NEW r, r.link = k.link, r.doc = k.doc, r.ord = k.ord, NEW f
    PROVE  Drawn(k, r, f)
BY DEF Drawn, Steady, Strict, Home

LEMMA DrawnOn ==
    ASSUME NEW k, Blank(k), Shaped(k), NEW w, Shaped(w), k.fresh <= w.fresh, NEW r, NEW f,
           Drawn(k, w, f), Drawn(w, r, f)
    PROVE  Drawn(k, r, f)
<1>1. \A v \in Ids : /\ v < k.fresh => v < w.fresh
                     /\ k.doc[v] # 0 => v < k.fresh
  <2>1. k.fresh \in Nat /\ w.fresh \in Nat
    BY DEF Shaped
  <2> QED
    BY <2>1, IdsNat DEF Blank
<1>2. ASSUME NEW v \in Ids, v < k.fresh, w.doc[v] # k.doc[v]
      PROVE  /\ Home(r, f) = Home(w, f) /\ Home(w, f) # 0 /\ r.doc[v] = w.doc[v]
             /\ k.doc[v] \notin {0, Home(w, f)} /\ w.doc[v] \in {0, Home(w, f)}
  <2>1. Home(w, f) # 0 /\ k.doc[v] \notin {0, Home(w, f)} /\ w.doc[v] \in {0, Home(w, f)}
    BY <1>2 DEF Drawn
  <2>2. Home(r, f) = Home(w, f)
    BY <2>1 DEF Drawn
  <2>3. r.doc[v] = w.doc[v]
    BY <1>1, <1>2, <2>1, <2>2 DEF Drawn
  <2> QED
    BY <2>1, <2>2, <2>3
<1>3. ASSUME NEW v \in Ids, v < k.fresh, r.doc[v] # k.doc[v]
      PROVE  Home(r, f) # 0 /\ k.doc[v] \notin {0, Home(r, f)} /\ r.doc[v] \in {0, Home(r, f)}
  <2>1. CASE w.doc[v] # k.doc[v]
    BY <1>2, <1>3, <2>1
  <2>2. CASE w.doc[v] = k.doc[v]
    BY <1>1, <1>3, <2>2 DEF Drawn
  <2> QED
    BY <2>1, <2>2
<1>4. \A v \in Ids : v < k.fresh /\ r.doc[v] = k.doc[v] => w.doc[v] = k.doc[v]
  BY <1>2
<1>5. Steady(k, r)
  <2> SUFFICES ASSUME NEW v \in Ids, NEW x \in Ids,
                      Strict(k, v, x), r.doc[v] = k.doc[v], r.doc[x] = k.doc[x]
               PROVE  Strict(r, v, x)
    BY DEF Steady
  <2>1. w.doc[v] = k.doc[v] /\ w.doc[x] = k.doc[x]
    BY <1>1, <1>4 DEF Strict
  <2>2. Strict(w, v, x)
    BY <2>1 DEF Drawn, Steady
  <2> QED
    BY <2>1, <2>2 DEF Drawn, Steady
<1>6. Home(k, f) # 0 => Home(r, f) = Home(k, f)
  BY DEF Drawn
<1> QED
  BY <1>3, <1>5, <1>6 DEF Drawn

LEMMA EnsuredDrawn ==
    ASSUME NEW k, Typed(k), Blank(k), NEW g \in Files, NEW r, r = Ensured(k, g), r.fresh <= MaxIds,
           NEW f \in Files
    PROVE  Drawn(k, r, f)
<1>1. Sorted(k, r, {}) /\ \A v \in Ids : v < k.fresh => r.doc[v] = k.doc[v]
  BY EnsuredSorted
<1>2. Home(k, f) # 0 => Home(r, f) = Home(k, f)
  <2>1. CASE r = k
    BY <2>1
  <2>2. CASE r # k
    <3>1. Placed(k, r, g, k.fresh, k.fresh) /\ k.link[g] = 0
      BY <2>2, EntityPlaced DEF Ensured
    <3>2. \A x \in Files \ {g} : r.link[x] = k.link[x]
      BY <3>1, PlacedRows
    <3>3. ASSUME Home(k, f) # 0 PROVE Home(r, f) = Home(k, f)
      <4>1. k.link[f] # 0 /\ k.link[f] \in Ids /\ k.doc[k.link[f]] # 0
        BY <3>3 DEF Home, Typed, Rows, Ids
      <4>2. k.link[f] < k.fresh
        BY <4>1, IdsNat DEF Blank, Typed, Shaped
      <4> QED
        BY <1>1, <3>1, <3>2, <4>1, <4>2 DEF Home
    <3> QED
      BY <3>3
  <2> QED
    BY <2>1, <2>2
<1> QED
  BY <1>1, <1>2 DEF Drawn, Steady, Sorted

Leads(k, r, f, g) == \E e \in {k.fresh, k.link[f], k.link[g]} : Placed(k, r, f, e, k.doc[k.link[g]])

LEMMA MergedLeads ==
    ASSUME NEW k, Typed(k), NEW f \in Files, NEW g \in Files, k.link[f] # 0, k.link[g] # 0,
           NEW identity, NEW order, NEW r, r = Merged(k, f, k.link[g], identity, order),
           r.fresh <= MaxIds
    PROVE  Leads(k, r, f, g)
BY MergedPlaced DEF Leads

(* The version of the origin is drawn into the document of the target.     *)
LEMMA MergeReplayedDrawn ==
    ASSUME NEW k, Typed(k), Blank(k), NEW i, i.origin \in Files, i.target \in Files,
           k.link[i.origin] # 0, k.link[i.target] # 0,
           NEW r, r = MergeReplayed(k, i), r.fresh <= MaxIds
    PROVE  Drawn(k, r, i.target)
<1> DEFINE o == i.origin
           t == i.target
           version == k.link[o]
           gone == k.doc[version]
           home == k.doc[k.link[t]]
           merged == Merged(k, o, k.link[t], i.identity, i.order)
           kept == Absorbed(merged, version, gone, merged.link[o])
           crowned == Crowned(kept, kept.doc[kept.link[o]])
<1>d1. merged = Merged(k, o, k.link[t], i.identity, i.order)
  OBVIOUS
<1>d2. kept = Absorbed(merged, version, gone, merged.link[o])
  OBVIOUS
<1>d3. \E d : crowned = Crowned(kept, d)
  OBVIOUS
<1>d4. r = k \/ (r = Requeued(crowned, o) /\ gone # home)
  BY DEF MergeReplayed
<1>f. /\ o \in Files /\ t \in Files /\ version = k.link[o] /\ version # 0 /\ k.link[t] # 0
      /\ home = k.doc[k.link[t]] /\ gone = k.doc[version] /\ t = i.target
  OBVIOUS
<1> HIDE DEF merged, kept, crowned, home
<1>1. CASE r = k
  BY <1>1, DrawnSame
<1>2. CASE r = Requeued(crowned, o) /\ gone # home
  <2> HIDE DEF o, t
  <2>g1. Shaped(merged) /\ Grows(k, merged, {})
    BY <1>d1, GrowsMerged, GrowsShaped DEF Typed
  <2>g2. Shaped(kept) /\ Grows(merged, kept, {})
    BY <1>d2, <2>g1, GrowsAbsorbed, GrowsShaped
  <2>g3. Shaped(crowned) /\ Grows(kept, crowned, {})
    BY <1>d3, <2>g2, GrowsCrowned, GrowsShaped
  <2>g4. Shaped(r) /\ Grows(crowned, r, {})
    BY <1>2, <2>g3, GrowsRequeued, GrowsShaped
  <2>fr. merged.fresh <= MaxIds
    BY <2>g1, <2>g2, <2>g3, <2>g4, BoundsAssumption DEF Grows, Shaped
  <2>1. Typed(merged)
    BY <1>d1, <1>f, <2>fr, MergedTyped
  <2>2. version \in Ids /\ k.link[t] \in Ids /\ home # 0 /\ gone # 0
    BY <1>f DEF Typed, Rows, Linked, Ids
  <2>3. PICK e \in {k.fresh, version, k.link[t]} : Placed(k, merged, o, e, home)
    <3>1. Leads(k, merged, o, t)
      BY <1>d1, <1>f, <2>fr, MergedLeads
    <3> QED
      BY <1>f, <3>1 DEF Leads
  <2>4. /\ e \in Ids /\ merged.doc[e] = home
        /\ \A x \in Files \ {o} : merged.link[x] = k.link[x]
        /\ \A v \in Ids \ {e} : merged.doc[v] = k.doc[v]
    BY <1>f, <2>fr, <2>3, PlacedRows
  <2>5. /\ Sorted(k, merged, {version})
        /\ merged.doc[version] = gone => Sorted(k, merged, {})
    BY <1>d1, <1>2, <1>f, <2>fr, MergedSorted
  <2>6. /\ kept.link = merged.link
        /\ \A v \in Ids : kept.doc[v] # merged.doc[v] => v = version /\ kept.doc[v] = 0
        /\ Sorted(merged, kept, {version})
        /\ merged.doc[version] # 0 /\ kept.doc[version] = merged.doc[version] => Sorted(merged, kept, {})
    <3> DEFINE s == merged.link[o]
    <3>1. kept = Absorbed(merged, version, gone, s)
      BY <1>d2
    <3> HIDE DEF version, gone, s
    <3>2. Abandons(merged, kept, version)
      BY <2>1, <2>2, <3>1, AbsorbedSorted
    <3> QED
      BY <3>2 DEF Abandons
  <2>7. r.link = kept.link /\ r.doc = kept.doc /\ r.ord = kept.ord
    <3>1. SameRows(kept, crowned) /\ crowned.ord = kept.ord
      BY <1>d3, <2>g2, CrownedFields
    <3>2. r.link = crowned.link /\ r.doc = crowned.doc /\ r.ord = crowned.ord
      BY <1>2, <2>g3 DEF Requeued, Shaped, Fields
    <3> QED
      BY <3>1, <3>2 DEF SameRows
  <2> HIDE DEF gone, version
  <2>8. t # o
    BY <1>2, <1>f
  <2>9. Home(k, t) = home /\ Home(r, t) = home
    <3>1. k.link[t] # version
      BY <1>2, <1>f
    <3>2. r.link[t] = k.link[t] /\ merged.doc[k.link[t]] = home
      BY <1>f, <2>2, <2>4, <2>6, <2>7, <2>8
    <3>3. kept.doc[k.link[t]] = home
      BY <2>2, <2>6, <3>1, <3>2
    <3> QED
      BY <1>f, <2>7, <3>2, <3>3 DEF Home
  <2>10. ASSUME NEW v \in Ids, v < k.fresh, r.doc[v] # k.doc[v]
         PROVE  v = version /\ r.doc[v] \in {0, home}
    <3>1. v # k.fresh
      BY <2>10, IdsNat DEF Typed, Shaped
    <3>2. CASE v = version
      BY <2>4, <2>6, <2>7, <2>10, <3>2
    <3>3. CASE v # version
      <4>1. merged.doc[v] # k.doc[v]
        BY <2>6, <2>7, <2>10, <3>3
      <4>2. v = k.link[t]
        BY <2>3, <2>4, <3>1, <3>3, <4>1
      <4> QED
        BY <1>f, <2>4, <4>1, <4>2
    <3> QED
      BY <3>2, <3>3
  <2>11. Steady(k, r)
    <3> SUFFICES ASSUME NEW v \in Ids, NEW w \in Ids, Strict(k, v, w),
                        r.doc[v] = k.doc[v], r.doc[w] = k.doc[w]
                 PROVE  Strict(r, v, w)
      BY DEF Steady
    <3>1. CASE r.doc[version] = gone
      <4>1. merged.doc[version] = gone
        BY <2>2, <2>6, <2>7, <3>1
      <4>2. Sorted(k, merged, {}) /\ Sorted(merged, kept, {})
        BY <2>2, <2>5, <2>6, <2>7, <3>1, <4>1
      <4>3. Strict(kept, v, w)
        BY <4>2 DEF Sorted
      <4> QED
        BY <2>7, <4>3 DEF Strict
    <3>2. CASE r.doc[version] # gone
      <4>1. v # version /\ w # version
        BY <1>f, <3>2
      <4>2. Strict(kept, v, w)
        BY <2>5, <2>6, <4>1 DEF Sorted
      <4> QED
        BY <2>7, <4>2 DEF Strict
    <3> QED
      BY <3>1, <3>2
  <2>12. Drawn(k, r, t)
    BY <1>2, <1>f, <2>2, <2>9, <2>10, <2>11 DEF Drawn
  <2> QED
    BY <1>f, <2>12
<1> QED
  BY <1>d4, <1>1, <1>2

LEMMA ReplayedDrawn ==
    ASSUME NEW k, Typed(k), NEW i \in Intents, NEW r, r = Replayed(k, i), r.fresh <= MaxIds,
           NEW b, b.fresh \in Nat, NEW R, NEW O, NEW V, NEW X,
           Held(b, k, R, O, V, {}, {}, X), i.origin \in R, i.target \in R
    PROVE  Drawn(k, r, i.target)
<1>1. Shaped(k)
  BY DEF Typed
<1>p. PICK one, ready, done : By(k, i, one, ready, done, r)
  BY <1>1, ReplayedGrows
<1>2. /\ one = Ensured(k, i.target) /\ ready = Ensured(one, i.origin)
      /\ done = Related(ready, i.origin, i.target) \/ done = MergeReplayed(ready, i)
      /\ Shaped(one) /\ Shaped(ready) /\ Shaped(done)
      /\ one.fresh <= r.fresh /\ ready.fresh <= r.fresh /\ done.fresh = r.fresh
  BY <1>p DEF By
<1>e. r = [done EXCEPT !.intents = (done.intents \ {i}) \union {[i EXCEPT !.status = "applied"]}]
  BY <1>p DEF By
<1>f. i.origin \in Files /\ i.target \in Files
  BY DEF Intents
<1>3. one.fresh <= MaxIds /\ ready.fresh <= MaxIds /\ done.fresh <= MaxIds
  <2>1. one.fresh \in Nat /\ ready.fresh \in Nat /\ done.fresh \in Nat
    BY <1>2 DEF Shaped
  <2> QED
    BY <1>2, <2>1, BoundsAssumption
<1>4. Typed(one) /\ Lasts(k, one) /\ one.link[i.target] # 0
  BY <1>2, <1>3, <1>f, EnsuredTyped
<1>5. Typed(ready) /\ Lasts(one, ready) /\ ready.link[i.origin] # 0
  BY <1>2, <1>3, <1>4, <1>f, EnsuredTyped
<1>6. ready.link[i.target] # 0
  BY <1>4, <1>5, <1>f DEF Lasts
<1>7. Held(b, one, R, O, V, {}, {}, X)
  BY <1>2, <1>3, <1>f, EnsuredHeld
<1>8. Held(b, ready, R, O, V, {}, {}, X)
  BY <1>2, <1>3, <1>4, <1>f, <1>7, EnsuredHeld
<1>9. Blank(k) /\ Blank(one) /\ Blank(ready)
  BY <1>7, <1>8, WholeBlank DEF Held
<1>10. Drawn(k, one, i.target)
  BY <1>2, <1>3, <1>f, <1>9, EnsuredDrawn
<1>11. Drawn(one, ready, i.target)
  BY <1>2, <1>3, <1>4, <1>f, <1>9, EnsuredDrawn
<1>12. Drawn(ready, done, i.target)
  <2>1. CASE done = Related(ready, i.origin, i.target)
    <3>1. SameRows(ready, done) /\ SameMarks(ready, done)
      BY <1>2, <2>1, RelatedFields
    <3>2. done.link = ready.link /\ done.doc = ready.doc /\ done.ord = ready.ord
      BY <3>1 DEF SameRows, SameMarks
    <3> QED
      BY <3>2, DrawnSame
  <2>2. CASE done = MergeReplayed(ready, i)
    BY <1>3, <1>5, <1>6, <1>9, <1>f, <2>2, MergeReplayedDrawn
  <2> QED
    BY <1>2, <2>1, <2>2
<1>13. Drawn(k, ready, i.target)
  BY <1>1, <1>2, <1>4, <1>9, <1>10, <1>11, DrawnOn DEF Lasts
<1>14. Drawn(k, done, i.target)
  <2>1. k.fresh <= ready.fresh
    BY <1>1, <1>2, <1>4, <1>5 DEF Lasts, Shaped
  <2> QED
    BY <1>1, <1>2, <1>9, <1>12, <1>13, <2>1, DrawnOn
<1>15. r.link = done.link /\ r.doc = done.doc /\ r.ord = done.ord
  BY <1>2, <1>e DEF Shaped, Fields
<1> QED
  BY <1>14, <1>15 DEF Drawn, Steady, Strict, Home

(* The replays of a classify, one after the other.                         *)
Runs(k, order, n, up) == up = [m \in 0 .. n |-> IF m = 0 THEN k ELSE Replayed(up[m - 1], order[m])]

LEMMA RunExists ==
    ASSUME NEW k, NEW order, NEW N \in Nat
    PROVE  \E up : Runs(k, order, N, up)
<1> DEFINE T == {n \in Nat : ~\E up : Runs(k, order, n, up)}
<1>1. SUFFICES ASSUME T # {} PROVE FALSE
  OBVIOUS
<1>2. PICK n \in T : \A m \in T : ~(m < n)
  BY <1>1, Least
<1>3. CASE n = 0
  <2>1. Runs(k, order, 0, [m \in 0 .. 0 |-> k])
    BY DEF Runs
  <2> QED
    BY <1>3, <2>1
<1>4. CASE n # 0
  <2>1. n - 1 \in Nat /\ n - 1 \notin T
    BY <1>2, <1>4
  <2>2. PICK g : Runs(k, order, n - 1, g)
    BY <2>1
  <2> DEFINE up == [m \in 0 .. n |-> IF m = n THEN Replayed(g[n - 1], order[n]) ELSE g[m]]
  <2>3. \A m \in 0 .. n - 1 : g[m] = IF m = 0 THEN k ELSE Replayed(g[m - 1], order[m])
    BY <2>2 DEF Runs
  <2>4. \A m \in 0 .. n : up[m] = IF m = 0 THEN k ELSE Replayed(up[m - 1], order[m])
    <3> SUFFICES ASSUME NEW m \in 0 .. n
                 PROVE  up[m] = IF m = 0 THEN k ELSE Replayed(up[m - 1], order[m])
      OBVIOUS
    <3>1. CASE m = n
      <4>1. up[m] = Replayed(g[n - 1], order[n]) /\ up[m - 1] = g[n - 1]
        BY <1>4, <2>1, <3>1
      <4> QED
        BY <1>4, <3>1, <4>1
    <3>2. CASE m # n
      <4>1. m \in 0 .. n - 1 /\ up[m] = g[m] /\ (m # 0 => up[m - 1] = g[m - 1])
        BY <2>1, <3>2
      <4> QED
        BY <2>3, <4>1
    <3> QED
      BY <3>1, <3>2
  <2>5. up = [m \in 0 .. n |-> IF m = 0 THEN k ELSE Replayed(up[m - 1], order[m])]
    <3>1. up = [m \in 0 .. n |-> up[m]]
      OBVIOUS
    <3> HIDE DEF up
    <3> QED
      BY <2>4, <3>1
  <2>6. Runs(k, order, n, up)
    BY <2>5 DEF Runs
  <2> QED
    BY <2>6
<1> QED
  BY <1>3, <1>4

LEMMA ReplaysRun ==
    ASSUME NEW k, NEW order, Len(order) \in Nat
    PROVE  \E up : Runs(k, order, Len(order), up) /\ Replays(k, order) = up[Len(order)]
<1> DEFINE ran == CHOOSE up : Runs(k, order, Len(order), up)
<1>1. Runs(k, order, Len(order), ran)
  BY RunExists
<1>2. Replays(k, order) = ran[Len(order)]
  BY DEF Replays, Runs
<1> QED
  BY <1>1, <1>2

LEMMA IntervalEnd == ASSUME NEW m \in Nat, NEW n \in Nat, 1 .. m = 1 .. n PROVE m = n
<1>1. CASE m < n
  <2>1. n \in 1 .. n /\ n \notin 1 .. m
    BY <1>1
  <2> QED
    BY <2>1
<1>2. CASE n < m
  <2>1. m \in 1 .. m /\ m \notin 1 .. n
    BY <1>2
  <2> QED
    BY <2>1
<1> QED
  BY <1>1, <1>2

(* What the first n replays have made of the tables.                       *)
Reached(k, order, n, r, f, S) ==
    /\ Shaped(r) /\ r.assigned = k.assigned
    /\ \A j : Waits(r, j) => Waits(k, j) /\ \A m \in 1 .. n : j # order[m]
    /\ r.fresh <= MaxIds =>
         /\ Typed(r) /\ Lasts(k, r)
         /\ \A b, R, O, V, X : b.fresh \in Nat /\ Held(b, k, R, O, V, {}, {}, X) /\ S \subseteq R
              => Held(b, r, R, O, V, {}, {}, X) /\ Drawn(k, r, f)

LEMMA ReachedNext ==
    ASSUME NEW k, Typed(k), NEW order, NEW n \in Nat, n # 0, NEW w, NEW f \in Files, NEW S,
           Reached(k, order, n - 1, w, f, S), f \in S,
           order[n] \in Intents, order[n].origin \in S, order[n].target = f,
           NEW r, r = Replayed(w, order[n])
    PROVE  Reached(k, order, n, r, f, S)
<1> DEFINE i == order[n]
<1>1. i \in Intents /\ i.origin \in S /\ i.target = f /\ f \in S /\ r = Replayed(w, i)
  OBVIOUS
<1>2. Shaped(w) /\ w.assigned = k.assigned
  BY DEF Reached
<1>3. /\ Shaped(r) /\ w.fresh <= r.fresh /\ r.assigned = w.assigned
      /\ \A j : Waits(r, j) => Waits(w, j) /\ j # i
  <2> HIDE DEF i
  <2> QED
    BY <1>1, <1>2, ReplayedGrows
<1>4. ASSUME NEW j, Waits(r, j) PROVE Waits(k, j) /\ \A m \in 1 .. n : j # order[m]
  <2>1. Waits(w, j) /\ j # order[n]
    BY <1>3, <1>4
  <2>2. Waits(k, j) /\ \A m \in 1 .. n - 1 : j # order[m]
    BY <2>1 DEF Reached
  <2> QED
    BY <2>1, <2>2
<1>5. ASSUME r.fresh <= MaxIds
      PROVE  /\ Typed(r) /\ Lasts(k, r)
             /\ \A b, R, O, V, X : b.fresh \in Nat /\ Held(b, k, R, O, V, {}, {}, X) /\ S \subseteq R
                  => Held(b, r, R, O, V, {}, {}, X) /\ Drawn(k, r, f)
  <2>1. w.fresh <= MaxIds
    BY <1>2, <1>3, <1>5, BoundsAssumption DEF Shaped
  <2>2. /\ Typed(w) /\ Lasts(k, w)
        /\ \A b, R, O, V, X : b.fresh \in Nat /\ Held(b, k, R, O, V, {}, {}, X) /\ S \subseteq R
              => Held(b, w, R, O, V, {}, {}, X) /\ Drawn(k, w, f)
    BY <2>1 DEF Reached
  <2> HIDE DEF i
  <2>3. /\ Typed(r) /\ Lasts(w, r)
        /\ \A b, R, O, V, X :
             b.fresh \in Nat /\ Held(b, w, R, O, V, {}, {}, X) /\ i.origin \in R /\ i.target \in R
             => Held(b, r, R, O, V, {}, {}, X)
    BY <1>1, <1>5, <2>2, ReplayedSound
  <2>4. Lasts(k, r)
    BY <2>2, <2>3, LastsOn
  <2>5. ASSUME NEW b, NEW R, NEW O, NEW V, NEW X,
               b.fresh \in Nat, Held(b, k, R, O, V, {}, {}, X), S \subseteq R
        PROVE  Held(b, r, R, O, V, {}, {}, X) /\ Drawn(k, r, f)
    <3>1. Held(b, w, R, O, V, {}, {}, X) /\ Drawn(k, w, f)
      BY <2>2, <2>5
    <3>2. i.origin \in R /\ i.target \in R
      BY <1>1, <2>5
    <3>3. Drawn(w, r, i.target)
      BY <1>1, <1>5, <2>2, <2>5, <3>1, <3>2, ReplayedDrawn
    <3>4. Blank(k) /\ Shaped(k) /\ k.fresh <= w.fresh
      BY <2>2, <2>5, WholeBlank DEF Held, Typed, Lasts
    <3>5. Drawn(k, r, f)
      BY <1>1, <1>2, <3>1, <3>3, <3>4, DrawnOn
    <3> QED
      BY <2>3, <2>5, <3>1, <3>2, <3>5
  <2> QED
    BY <2>3, <2>4, <2>5
<1> QED
  BY <1>2, <1>3, <1>4, <1>5 DEF Reached

LEMMA RunReached ==
    ASSUME NEW k, Typed(k), NEW order, NEW N \in Nat, NEW up, Runs(k, order, N, up),
           NEW f \in Files, NEW S, f \in S,
           \A n \in 1 .. N : order[n] \in Intents /\ order[n].origin \in S /\ order[n].target = f
    PROVE  Reached(k, order, N, up[N], f, S)
<1> DEFINE T == {n \in Nat : n <= N /\ ~ Reached(k, order, n, up[n], f, S)}
<1>1. SUFFICES ASSUME T # {} PROVE FALSE
  OBVIOUS
<1>2. PICK n \in T : \A m \in T : ~(m < n)
  BY <1>1, Least
<1>3. \A m \in 0 .. N : up[m] = IF m = 0 THEN k ELSE Replayed(up[m - 1], order[m])
  BY DEF Runs
<1>4. CASE n = 0
  <2>1. up[0] = k
    BY <1>3
  <2>2. Reached(k, order, 0, k, f, S)
    BY DrawnSame DEF Reached, Typed, Lasts, Shaped
  <2> QED
    BY <1>2, <1>4, <2>1, <2>2
<1>5. CASE n # 0
  <2>1. n - 1 \in Nat /\ n - 1 \notin T /\ n \in 1 .. N /\ n \in Nat
    BY <1>2, <1>5
  <2>2. Reached(k, order, n - 1, up[n - 1], f, S)
    BY <1>2, <2>1
  <2>3. up[n] = Replayed(up[n - 1], order[n])
    BY <1>3, <1>5, <2>1
  <2>4. Reached(k, order, n, up[n], f, S)
    BY <1>5, <2>1, <2>2, <2>3, ReachedNext
  <2> QED
    BY <1>2, <2>4
<1> QED
  BY <1>4, <1>5

(* The files that a classify names: the file, and those that wait on it.   *)
Asked(k, f) == {f} \union {i.origin : i \in PendingOn(k, f)}
SameAssigned(k, r) == r.assigned = k.assigned

(* Whatever scope holds the files S, what held of k in it holds of r, and  *)
(* versions were only drawn to f.                                          *)
Carries(k, r, f, S) ==
    \A b, R, O, V, X : b.fresh \in Nat /\ Held(b, k, R, O, V, {}, {}, X) /\ S \subseteq R
        => Held(b, r, R, O, V, {}, {}, X) /\ Drawn(k, r, f)

(* All that waits on a file is replayed when the file is classified.       *)
LEMMA ReplaysSound ==
    ASSUME NEW k, Typed(k), NEW f \in Files, NEW order \in SetToSeqs(PendingOn(k, f)),
           NEW r, r = Replays(k, order), r.fresh <= MaxIds
    PROVE  /\ Typed(r) /\ Lasts(k, r) /\ SameAssigned(k, r)
           /\ \A j : Waits(r, j) => Waits(k, j) /\ j.target # f
           /\ Carries(k, r, f, Asked(k, f))
<1> DEFINE W == PendingOn(k, f)
           N == Cardinality(W)
           S == {f} \union {i.origin : i \in W}
<1>1. IsFiniteSet(W) /\ W \subseteq Intents /\ \A i \in W : i.target = f
  <2>1. IsFiniteSet(k.intents) /\ k.intents \subseteq Intents
    BY DEF Typed, Filed
  <2> QED
    BY <2>1, FS_Subset DEF PendingOn
<1>2. N \in Nat
  BY <1>1, FS_CardinalityType
<1>3. order \in [1 .. N -> W] /\ \A m, n \in 1 .. N : m # n => order[m] # order[n]
  BY DEF SetToSeqs
<1>4. Len(order) = N
  <2> HIDE DEF W, N
  <2>1. order \in Seq(W)
    BY <1>2, <1>3, SeqDef
  <2>2. DOMAIN order = 1 .. Len(order) /\ Len(order) \in Nat
    BY <2>1, LenProperties
  <2>3. 1 .. Len(order) = 1 .. N
    BY <1>3, <2>2
  <2>4. Len(order) \in Nat
    BY <2>2
  <2> QED
    BY <1>2, <2>3, <2>4, IntervalEnd
<1>5. PICK up : Runs(k, order, N, up) /\ r = up[N]
  BY <1>2, <1>4, ReplaysRun
<1>6. f \in S /\ \A n \in 1 .. N : order[n] \in Intents /\ order[n].origin \in S /\ order[n].target = f
  BY <1>1, <1>3
<1>7. Reached(k, order, N, r, f, S)
  <2> HIDE DEF N, S, W
  <2> QED
    BY <1>2, <1>5, <1>6, RunReached
<1>8. \A j \in W : \E m \in 1 .. N : order[m] = j
  <2> HIDE DEF W
  <2>1. IsFiniteSet(1 .. N) /\ Cardinality(1 .. N) = N
    BY <1>2, FS_Interval
  <2>2. order \in Injection(1 .. N, W)
    BY <1>3 DEF Injection, IsInjective
  <2>3. order \in Surjection(1 .. N, W)
    BY <1>1, <2>1, <2>2, FS_Injection
  <2> QED
    BY <2>3 DEF Surjection
<1>9. ASSUME NEW j, Waits(r, j) PROVE Waits(k, j) /\ j.target # f
  <2>1. Waits(k, j) /\ \A m \in 1 .. N : j # order[m]
    BY <1>7, <1>9 DEF Reached
  <2>2. j \notin W
    BY <1>8, <2>1
  <2> QED
    BY <2>1, <2>2 DEF Waits, PendingOn
<1>10. S = Asked(k, f)
  BY DEF Asked
<1> HIDE DEF S, N, W
<1> QED
  BY <1>7, <1>9, <1>10 DEF Reached, SameAssigned, Carries

(***************************************************************************)
(* The scope of a transaction that names the files L in the tables k and   *)
(* gives identifiers up to hi: those files and the files that share a      *)
(* document with them, these documents and the new ones, their versions.   *)
(***************************************************************************)
Region(k, L) == L \union {x \in Files : Home(k, x) \in Homes(k, L)}
New(k, hi) == {i \in Ids : k.fresh <= i /\ i < hi}
Own(k, L, hi) == Homes(k, L) \union New(k, hi)
Chains(k, L) == {v \in Ids : k.doc[v] \in Homes(k, L)}
Ver(k, L, hi) == Chains(k, L) \union New(k, hi)

LEMMA HomesIds ==
    ASSUME NEW k, Typed(k), NEW L \in SUBSET Files
    PROVE  /\ Homes(k, L) \subseteq Ids /\ 0 \notin Homes(k, L)
           /\ \A x \in L : k.link[x] # 0 => k.doc[k.link[x]] \in Homes(k, L)
           /\ \A d \in Homes(k, L) : \E x \in L : k.link[x] \in Ids /\ k.doc[k.link[x]] = d
<1>1. /\ \A x \in Files : k.link[x] \in 0 .. MaxIds /\ (k.link[x] # 0 => k.doc[k.link[x]] # 0)
      /\ \A v \in Ids : k.doc[v] \in 0 .. MaxIds
  BY DEF Typed, Rows, Linked
<1>2. \A i \in 0 .. MaxIds : i # 0 <=> i \in Ids
  BY BoundsAssumption DEF Ids
<1>3. \A x \in L : k.link[x] # 0 => /\ k.link[x] \in Ids /\ k.doc[k.link[x]] \in Ids
                                   /\ k.doc[k.link[x]] # 0
  BY <1>1, <1>2
<1> QED
  BY <1>3 DEF Homes, Home

LEMMA ScopeInside ==
    ASSUME NEW k, Typed(k), Whole(k, {}, {}), NEW L \in SUBSET Files, NEW hi
    PROVE  Inside(k, Region(k, L), Own(k, L, hi), Ver(k, L, hi))
<1>1. /\ Homes(k, L) \subseteq Ids /\ 0 \notin Homes(k, L)
      /\ \A x \in L : k.link[x] # 0 => k.doc[k.link[x]] \in Homes(k, L)
  BY HomesIds
<1>2. \A x \in Files : k.link[x] # 0 => k.link[x] \in Ids /\ k.doc[k.link[x]] # 0
  BY DEF Typed, Rows, Linked, Ids
<1>3. New(k, hi) \subseteq Ids /\ \A i \in New(k, hi) : k.doc[i] = 0 /\ i \notin k.docs
  <2>1. \A i \in New(k, hi) : i \in Ids /\ k.fresh <= i
    BY DEF New
  <2>2. k.fresh \in Nat /\ \A i \in Ids : i \in Nat
    BY IdsNat DEF Typed, Shaped
  <2>3. \A i \in Ids : k.fresh <= i => i >= k.fresh /\ ~(i < k.fresh)
    BY <2>2
  <2> QED
    BY <2>1, <2>3 DEF Whole
<1>4. \A v \in Ids : k.doc[v] # 0 => k.doc[v] \in k.docs
  BY DEF Whole
<1>5. 0 \notin Ids
  BY IdsNat
<1>6. \A x \in Files : Home(k, x) = IF k.link[x] = 0 THEN 0 ELSE k.doc[k.link[x]]
  BY DEF Home
<1>7. Region(k, L) \subseteq Files /\ Own(k, L, hi) \subseteq Ids /\ Ver(k, L, hi) \subseteq Ids
  BY <1>1, <1>3 DEF Region, Own, Ver, Chains
<1>8. ASSUME NEW x \in Region(k, L) PROVE k.link[x] \in Ver(k, L, hi) \union {0}
  <2>1. x \in Files
    BY <1>7
  <2>2. CASE k.link[x] # 0
    <3>1. k.doc[k.link[x]] \in Homes(k, L)
      BY <1>1, <1>6, <2>1, <2>2 DEF Region
    <3> QED
      BY <1>2, <2>1, <2>2, <3>1 DEF Ver, Chains
  <2> QED
    BY <2>2
<1>9. ASSUME NEW x \in Files \ Region(k, L) PROVE k.link[x] \notin Ver(k, L, hi)
  <2>1. CASE k.link[x] \in Chains(k, L)
    <3>1. k.link[x] # 0 /\ k.doc[k.link[x]] \in Homes(k, L)
      BY <1>5, <2>1 DEF Chains
    <3>2. x \in Region(k, L)
      BY <1>6, <3>1 DEF Region
    <3> QED
      BY <3>2
  <2>2. CASE k.link[x] \in New(k, hi)
    BY <1>2, <1>3, <1>5, <2>2
  <2> QED
    BY <2>1, <2>2 DEF Ver
<1>10. \A v \in Ver(k, L, hi) : k.doc[v] \in Own(k, L, hi) \union {0}
  BY <1>3 DEF Ver, Own, Chains
<1>11. \A v \in Ids \ Ver(k, L, hi) : k.doc[v] \notin Own(k, L, hi)
  BY <1>3, <1>4, <1>5 DEF Ver, Own, Chains
<1> QED
  BY <1>7, <1>8, <1>9, <1>10, <1>11 DEF Inside

LEMMA ScopeHeld ==
    ASSUME NEW k, Typed(k), Whole(k, {}, {}), NEW X, Follows(k, X), NEW L \in SUBSET Files
    PROVE  Held(k, k, Region(k, L), Own(k, L, MaxIds + 1), Ver(k, L, MaxIds + 1), {}, {}, X)
<1> DEFINE R == Region(k, L)
           O == Own(k, L, MaxIds + 1)
           V == Ver(k, L, MaxIds + 1)
<1>1. Inside(k, R, O, V)
  BY ScopeInside
<1>2. k.fresh \in Nat /\ \A i \in Ids : i \in Nat /\ i < MaxIds + 1
  BY BoundsAssumption DEF Typed, Shaped, Ids
<1>3. \A i \in Ids : i >= k.fresh => i \in O /\ i \in V
  BY <1>2 DEF Own, Ver, New
<1> HIDE DEF R, O, V
<1>4. Frame(k, k, R, O, V)
  BY <1>1, <1>2 DEF Frame, Inside, Edge
<1> QED
  BY <1>1, <1>3, <1>4 DEF Held, Open, R, O, V

LEMMA FrameNarrow ==
    ASSUME NEW b, Typed(b), NEW a, Typed(a), Whole(b, {}, {}), Whole(a, {}, {}), NEW L \in SUBSET Files,
           Frame(b, a, Region(b, L), Own(b, L, MaxIds + 1), Ver(b, L, MaxIds + 1))
    PROVE  Frame(b, a, Region(b, L), Own(b, L, a.fresh), Ver(b, L, a.fresh))
<1> DEFINE R == Region(b, L)
           O0 == Own(b, L, MaxIds + 1)
           V0 == Ver(b, L, MaxIds + 1)
           O == Own(b, L, a.fresh)
           V == Ver(b, L, a.fresh)
<1>1. b.fresh \in Nat /\ a.fresh \in Nat /\ b.fresh <= a.fresh /\ \A i \in Ids : i \in Nat /\ i # 0
  BY IdsNat DEF Typed, Shaped, Frame
<1>2. \A i \in Ids : i < a.fresh \/ (i >= a.fresh /\ i >= b.fresh)
  BY <1>1
<1>3. \A i \in Ids : i < a.fresh => (i \in O0 => i \in O) /\ (i \in V0 => i \in V)
  BY DEF Own, Ver, New
<1>4. O0 \subseteq Ids /\ V0 \subseteq Ids
  BY ScopeInside DEF Inside
<1>5. O \subseteq O0 /\ V \subseteq V0
  <2>1. \A i \in Ids : i < MaxIds + 1
    BY BoundsAssumption DEF Ids
  <2> QED
    BY <2>1 DEF Own, Ver, New
<1>6. /\ \A i \in Ids : i >= a.fresh => a.doc[i] = 0 /\ a.ord[i] = 0 /\ i \notin a.docs
      /\ \A i \in Ids : i >= b.fresh => b.doc[i] = 0 /\ b.ord[i] = 0 /\ i \notin b.docs
  <2>1. /\ \A i \in Ids : i >= a.fresh => ~(i < a.fresh)
        /\ \A i \in Ids : i >= b.fresh => ~(i < b.fresh)
    BY <1>1
  <2> QED
    BY <2>1 DEF Whole
<1>7. /\ a.docs \subseteq Ids /\ Ends(a.supersedes)
      /\ \A x \in Files : a.link[x] # 0 => a.link[x] \in Ids /\ a.doc[a.link[x]] # 0
      /\ \A v \in Ids : a.doc[v] # 0 => a.doc[v] \in a.docs
  BY DEF Typed, Rows, Linked, Ids, Whole
<1>8. \A i \in Ids : (i \in O0 /\ i \in a.docs => i \in O) /\ (i \in V0 /\ a.doc[i] # 0 => i \in V)
  BY <1>2, <1>3, <1>6
<1>9. R \subseteq Files
  BY DEF Region
<1>f. Frame(b, a, R, O0, V0)
  OBVIOUS
<1> HIDE DEF R, O, O0, V, V0
<1>10. \A x \in R : a.link[x] \in V \union {0}
  BY <1>f, <1>7, <1>8, <1>9 DEF Frame
<1>11. \A v \in Ids \ V : a.doc[v] = b.doc[v] /\ a.ord[v] = b.ord[v]
  BY <1>f, <1>2, <1>3, <1>6 DEF Frame
<1>12. \A v \in V : a.doc[v] \in O \union {0}
  BY <1>f, <1>4, <1>5, <1>7, <1>8 DEF Frame
<1>13. \A d \in Ids \ O : d \in a.docs <=> d \in b.docs
  BY <1>f, <1>2, <1>3, <1>6 DEF Frame
<1>14. Edge(b.supersedes, a.supersedes, V)
  <2> SUFFICES ASSUME NEW q \in DOMAIN a.supersedes, NEW c \in {1, 2}, a.supersedes[q][c] \notin V
               PROVE  q \in DOMAIN b.supersedes /\ a.supersedes[q][c] = b.supersedes[q][c]
    BY DEF Edge
  <2>1. a.supersedes[q] \in Ids \X Ids
    BY <1>7 DEF Ends
  <2>2. a.supersedes[q][c] \in Ids /\ a.doc[a.supersedes[q][c]] # 0
    BY <2>1 DEF Whole
  <2>3. a.supersedes[q][c] \notin V0
    BY <1>8, <2>2
  <2> QED
    BY <1>f, <2>3 DEF Frame, Edge
<1>15. Edge(b.refers, a.refers, O)
  <2> SUFFICES ASSUME NEW q \in DOMAIN a.refers, NEW c \in {1, 2}, a.refers[q][c] \notin O
               PROVE  q \in DOMAIN b.refers /\ a.refers[q][c] = b.refers[q][c]
    BY DEF Edge
  <2>1. a.refers[q][c] \in a.docs
    BY DEF Whole
  <2>2. a.refers[q][c] \notin O0
    BY <1>7, <1>8, <2>1
  <2> QED
    BY <1>f, <2>2 DEF Frame, Edge
<1>16. Frame(b, a, R, O, V)
  BY <1>f, <1>10, <1>11, <1>12, <1>13, <1>14, <1>15 DEF Frame
<1> QED
  BY <1>16 DEF R, O, V

(***************************************************************************)
(* A transaction of a file f: what it read and what it will write.         *)
(***************************************************************************)
TheFiles(t) == Region(t.before, t.names)
TheDocs(t) == Own(t.before, t.names, t.after.fresh)
TheVersions(t) == Ver(t.before, t.names, t.after.fresh)

Sound(f, t) ==
    /\ t # Idle /\ t.kind \in {"relate", "classify"} /\ f \in t.names /\ t.names \subseteq Files
    /\ Typed(t.before) /\ Typed(t.after) /\ Lasts(t.before, t.after)
    /\ t.kind = "relate" =>
         /\ t.after.link[f] # 0 /\ t.after.assigned = t.before.assigned
         /\ \A i \in t.after.intents \ t.before.intents :
              i.target \in t.names /\ i.target \notin t.before.assigned
    /\ t.kind = "classify" =>
         /\ t.after.assigned = t.before.assigned \union {f}
         /\ \A i : Waits(t.after, i) => i \in t.before.intents /\ i.target # f

Scoped(t) ==
    /\ Whole(t.before, {}, {}) /\ Whole(t.after, {}, {}) /\ Follows(t.after, {})
    /\ Frame(t.before, t.after, TheFiles(t), TheDocs(t), TheVersions(t))

(* Two versions that stay where they are keep their order, unless one is   *)
(* the version of the file that is placed.                                 *)
Orderly(f, t) ==
    \A v, w \in Ids \ {t.before.link[f]} :
        Strict(t.before, v, w) /\ t.after.doc[v] = t.before.doc[v] /\ t.after.doc[w] = t.before.doc[w]
        => Strict(t.after, v, w)

LEMMA RelateSound ==
    ASSUME NEW k, Typed(k), NEW f \in Files, NEW a \in Statements, f \notin {a.of, a.refers},
           NEW t, t.kind = "relate", t.names = Named(f, a), t.before = k,
           t.after = Materialized(k, f, a), t.after.fresh <= MaxIds
    PROVE  /\ Sound(f, t)
           /\ Whole(k, {}, {}) /\ Follows(k, {}) /\ k.derived[f] = 0 => Scoped(t) /\ Orderly(f, t)
<1> DEFINE r == t.after
           L == t.names
<1>a. a.of \in Files \union {NoFile} /\ a.refers \in Files \union {NoFile}
  BY StatementsAssumption
<1>1. f \in L /\ L \in SUBSET Files /\ {a.of, a.refers} \ {NoFile} \subseteq L
  BY <1>a, FilesAssumption DEF Named
<1>r. r = Materialized(k, f, a) /\ r.fresh <= MaxIds
  OBVIOUS
<1>2. /\ Typed(r) /\ Lasts(k, r) /\ r.link[f] # 0
      /\ Grows(k, r, {g \in {a.of, a.refers} : g \notin k.assigned})
      /\ \A b, R, O, V, X :
           b.fresh \in Nat /\ Held(b, k, R, O, V, {}, {}, X) /\ f \in R
             /\ {a.of, a.refers} \ {NoFile} \subseteq R
           => Held(b, r, R, O, V, {}, {}, X \union {f}) /\ Sorted(k, r, {k.link[f]})
  <2> HIDE DEF r
  <2> QED
    BY <1>r, MaterializedSound
<1>3. r.assigned = k.assigned
  BY <1>2 DEF Grows
<1>4. \A i \in r.intents \ k.intents : i.target \in L /\ i.target \notin k.assigned
  <2>1. r.intents \subseteq Intents
    BY <1>2 DEF Typed, Filed
  <2> SUFFICES ASSUME NEW i \in r.intents \ k.intents PROVE i.target \in L /\ i.target \notin k.assigned
    OBVIOUS
  <2>2. i.target \in Files
    BY <2>1 DEF Intents
  <2>3. i.target \in {a.of, a.refers} /\ i.target \notin k.assigned
    BY <1>2 DEF Grows
  <2> QED
    BY <1>1, <2>2, <2>3, FilesAssumption
<1>5. t # Idle
  BY DEF Idle
<1>6. Sound(f, t)
  BY <1>1, <1>2, <1>3, <1>4, <1>5 DEF Sound
<1>7. ASSUME Whole(k, {}, {}), Follows(k, {}), k.derived[f] = 0
      PROVE  Scoped(t) /\ Orderly(f, t)
  <2> DEFINE R == Region(k, L)
             O == Own(k, L, MaxIds + 1)
             V == Ver(k, L, MaxIds + 1)
  <2>b. k.fresh \in Nat
    BY DEF Typed, Shaped
  <2> HIDE DEF r, L
  <2>1. Held(k, k, R, O, V, {}, {}, {})
    BY <1>1, <1>7, ScopeHeld
  <2>2. L \subseteq R
    BY DEF Region
  <2> HIDE DEF R, O, V
  <2>3. Held(k, r, R, O, V, {}, {}, {} \union {f}) /\ Sorted(k, r, {k.link[f]})
    BY <1>1, <1>2, <2>b, <2>1, <2>2
  <2>4. Frame(k, r, R, O, V) /\ Whole(r, {}, {}) /\ Follows(r, {f})
    BY <2>3 DEF Held
  <2>5. r.derived[f] = 0
    BY <1>2, <1>7 DEF Lasts
  <2>6. Follows(r, {})
    BY <2>4, <2>5 DEF Follows
  <2>7. Frame(k, r, Region(k, L), Own(k, L, r.fresh), Ver(k, L, r.fresh))
    BY <1>1, <1>2, <1>7, <2>4, FrameNarrow DEF R, O, V
  <2>8. Scoped(t)
    BY <1>7, <2>4, <2>6, <2>7 DEF Scoped, TheFiles, TheDocs, TheVersions, r, L
  <2>9. Orderly(f, t)
    BY <2>3 DEF Orderly, Sorted, r
  <2> QED
    BY <2>8, <2>9
<1> QED
  BY <1>6, <1>7

LEMMA ClassifySound ==
    ASSUME NEW k, Typed(k), NEW f \in Files,
           NEW j, j = [k EXCEPT !.assigned = @ \union {f}], NEW order \in SetToSeqs(PendingOn(k, f)),
           NEW t, t.kind = "classify",
           t.names = Asked(k, f), t.before = k,
           t.after = Replays(j, order), t.after.fresh <= MaxIds
    PROVE  /\ Sound(f, t)
           /\ Whole(k, {}, {}) /\ Follows(k, {}) => Scoped(t) /\ Orderly(f, t)
<1> DEFINE r == t.after
           L == t.names
<1>1. L \in SUBSET Files /\ f \in L
  BY DEF Asked, PendingOn, Typed, Filed, Intents
<1>2. /\ Shaped(j) /\ SameRows(k, j) /\ SameEdges(k, j) /\ SameMarks(k, j)
      /\ j.derived = k.derived /\ j.intents = k.intents /\ j.assigned = k.assigned \union {f}
  BY DEF Typed, Shaped, Fields, SameRows, SameEdges, SameMarks
<1>3. Typed(j) /\ Lasts(k, j)
  BY <1>2 DEF Typed, Rows, Linked, Marks, Filed, Lasts, SameRows, SameEdges, SameMarks, Shaped
<1>4. PendingOn(j, f) = PendingOn(k, f)
  BY <1>2 DEF PendingOn
<1>r. r = Replays(j, order) /\ r.fresh <= MaxIds /\ order \in SetToSeqs(PendingOn(j, f))
  BY <1>4
<1>5. /\ Typed(r) /\ Lasts(j, r) /\ SameAssigned(j, r)
      /\ \A i : Waits(r, i) => Waits(j, i) /\ i.target # f
      /\ Carries(j, r, f, Asked(j, f))
  <2> HIDE DEF r
  <2>1. Typed(r) /\ Lasts(j, r)
    BY <1>3, <1>r, ReplaysSound
  <2>2. SameAssigned(j, r)
    BY <1>3, <1>r, ReplaysSound
  <2>3. \A i : Waits(r, i) => Waits(j, i) /\ i.target # f
    BY <1>3, <1>r, ReplaysSound
  <2>4. Carries(j, r, f, Asked(j, f))
    BY <1>3, <1>r, ReplaysSound
  <2> QED
    BY <2>1, <2>2, <2>3, <2>4
<1>6. Lasts(k, r)
  BY <1>3, <1>5, LastsOn
<1>7. t # Idle
  BY DEF Idle
<1>8. Sound(f, t)
  <2>1. r.assigned = k.assigned \union {f}
    BY <1>2, <1>5 DEF SameAssigned
  <2>2. \A i : Waits(r, i) => i \in k.intents /\ i.target # f
    BY <1>2, <1>5 DEF Waits
  <2> QED
    BY <1>1, <1>5, <1>6, <1>7, <2>1, <2>2 DEF Sound
<1>9. ASSUME Whole(k, {}, {}), Follows(k, {})
      PROVE  Scoped(t) /\ Orderly(f, t)
  <2> DEFINE R == Region(k, L)
             O == Own(k, L, MaxIds + 1)
             V == Ver(k, L, MaxIds + 1)
  <2>b. k.fresh \in Nat
    BY DEF Typed, Shaped
  <2>l. L = Asked(j, f)
    BY <1>4 DEF Asked
  <2> HIDE DEF r, L
  <2>1. Held(k, k, R, O, V, {}, {}, {})
    BY <1>1, <1>9, ScopeHeld
  <2>2. L \subseteq R
    BY DEF Region
  <2> HIDE DEF R, O, V
  <2>3. Held(k, j, R, O, V, {}, {}, {})
    <3>1. Open(k, R, O, V) /\ Frame(k, k, R, O, V)
      BY <2>1 DEF Held
    <3>2. Frame(k, j, R, O, V)
      BY <1>2, <3>1 DEF Frame, SameRows, SameEdges
    <3>3. Whole(j, {}, {}) /\ Follows(j, {})
      BY <1>2, <1>9 DEF Whole, Follows, SameRows, SameEdges
    <3> QED
      BY <3>1, <3>2, <3>3 DEF Held
  <2>4. Held(k, r, R, O, V, {}, {}, {}) /\ Drawn(j, r, f)
    BY <1>5, <2>b, <2>l, <2>2, <2>3 DEF Carries
  <2>5. Frame(k, r, R, O, V) /\ Whole(r, {}, {}) /\ Follows(r, {})
    BY <2>4 DEF Held
  <2>6. Frame(k, r, Region(k, L), Own(k, L, r.fresh), Ver(k, L, r.fresh))
    BY <1>1, <1>5, <1>9, <2>5, FrameNarrow DEF R, O, V
  <2>7. Scoped(t)
    BY <1>9, <2>5, <2>6 DEF Scoped, TheFiles, TheDocs, TheVersions, r, L
  <2>8. Orderly(f, t)
    <3>1. Steady(j, r)
      BY <2>4 DEF Drawn
    <3>2. j.doc = k.doc /\ j.ord = k.ord
      BY <1>2 DEF SameRows, SameMarks
    <3>3. Steady(k, r)
      BY <3>1, <3>2 DEF Steady, Strict
    <3> QED
      BY <3>3 DEF Orderly, Steady, r
  <2> QED
    BY <2>7, <2>8
<1> QED
  BY <1>8, <1>9

(* Agree: in the scope R, O, V the tables n still are what b read.         *)
Kept(now, b, S) ==
    \A q \in DOMAIN now : \A c \in {1, 2} :
        now[q][c] \in S => q \in DOMAIN b /\ b[q][c] = now[q][c]
Agree(n, b, R, O, V) ==
    /\ \A x \in R : /\ n.link[x] = b.link[x] /\ n.derived[x] = b.derived[x]
                    /\ x \in n.assigned <=> x \in b.assigned
    /\ \A x \in Files \ R : n.link[x] \notin V
    /\ \A v \in V : n.doc[v] = b.doc[v] /\ n.ord[v] = b.ord[v]
    /\ \A v \in Ids \ V : n.doc[v] \notin O
    /\ \A d \in O : d \in n.docs <=> d \in b.docs
    /\ Kept(n.supersedes, b.supersedes, V) /\ Kept(n.refers, b.refers, O)
    /\ \A i : Waits(n, i) /\ i.target \in R => i \in b.intents

Agrees(n, t) == Agree(n, t.before, TheFiles(t), TheDocs(t), TheVersions(t))
Apart(t, w) ==
    /\ TheFiles(t) \intersect TheFiles(w) = {} /\ TheDocs(t) \intersect TheDocs(w) = {}
    /\ TheVersions(t) \intersect TheVersions(w) = {}

(* All but the next identifier.                                            *)
SameKnown(k, r) ==
    /\ r.link = k.link /\ r.doc = k.doc /\ r.docs = k.docs /\ SameEdges(k, r) /\ SameMarks(k, r)
    /\ r.intents = k.intents /\ r.assigned = k.assigned /\ r.derived = k.derived

LEMMA AgreesSame ==
    ASSUME NEW n, NEW m, SameKnown(n, m), NEW t, Agrees(n, t)
    PROVE  Agrees(m, t)
BY DEF Agrees, Agree, SameKnown, SameEdges, SameMarks, Waits

LEMMA AgreesAtFirst ==
    ASSUME NEW n, Typed(n), Whole(n, {}, {}), NEW t, t.before = n, t.names \subseteq Files,
           NEW m, SameKnown(n, m)
    PROVE  Agrees(m, t)
<1> DEFINE R == TheFiles(t)
           O == TheDocs(t)
           V == TheVersions(t)
<1>1. Inside(n, R, O, V)
  BY ScopeInside DEF TheFiles, TheDocs, TheVersions
<1> HIDE DEF R, O, V
<1>2. Agree(n, n, R, O, V)
  BY <1>1 DEF Agree, Inside, Kept, Waits
<1> QED
  BY <1>2, AgreesSame DEF Agrees, R, O, V

LEMMA ScopesApart ==
    ASSUME NEW n, Typed(n), Whole(n, {}, {}),
           NEW t, t.names \subseteq Files, Typed(t.before), Whole(t.before, {}, {}),
           t.before.fresh <= t.after.fresh, t.after.fresh \in Nat, t.after.fresh <= n.fresh,
           Agrees(n, t),
           NEW L \in SUBSET Files, Region(n, t.names) \intersect Region(n, L) = {}, NEW hi
    PROVE  /\ TheFiles(t) \intersect Region(n, L) = {}
           /\ TheDocs(t) \intersect Own(n, L, hi) = {}
           /\ TheVersions(t) \intersect Ver(n, L, hi) = {}
<1> DEFINE b == t.before
           M == t.names
           R == TheFiles(t)
           O == TheDocs(t)
           V == TheVersions(t)
<1>b. Typed(b) /\ Whole(b, {}, {}) /\ M \in SUBSET Files /\ t.after.fresh \in Nat
      /\ b.fresh <= t.after.fresh /\ t.after.fresh <= n.fresh
  OBVIOUS
<1>1. Inside(b, R, O, V)
  BY ScopeInside DEF TheFiles, TheDocs, TheVersions
<1>2. Agree(n, b, R, O, V)
  BY DEF Agrees
<1>3. M \subseteq R /\ R \subseteq Files
  BY DEF TheFiles, Region
<1>4. \A x \in R : n.link[x] = b.link[x] /\ Home(n, x) = Home(b, x)
  <2> HIDE DEF R, O, V
  <2>1. \A x \in R : n.link[x] = b.link[x] /\ b.link[x] \in V \union {0}
    BY <1>1, <1>2 DEF Inside, Agree
  <2>2. \A v \in V : n.doc[v] = b.doc[v]
    BY <1>2 DEF Agree
  <2> QED
    BY <2>1, <2>2 DEF Home
<1>5. Homes(n, M) = Homes(b, M)
  BY <1>3, <1>4 DEF Homes
<1>6. R \subseteq Region(n, M)
  BY <1>3, <1>4, <1>5 DEF TheFiles, Region
<1>7. R \intersect Region(n, L) = {}
  BY <1>6
<1>8. L \subseteq Region(n, L)
  BY DEF Region
<1>9. /\ b.fresh \in Nat /\ n.fresh \in Nat /\ b.fresh <= n.fresh
      /\ \A i \in Ids : i \in Nat /\ i # 0
      /\ \A i \in New(n, hi) : i \in Ids /\ n.fresh <= i
      /\ \A i \in New(b, t.after.fresh) : i \in Ids /\ i < t.after.fresh
  BY <1>b, IdsNat DEF Typed, Shaped, New
<1>10. /\ \A d \in Homes(b, M) : d \in Ids /\ d < b.fresh
       /\ \A v \in Chains(b, M) : v \in Ids /\ v < b.fresh
  <2>1. Homes(b, M) \subseteq Ids /\ 0 \notin Homes(b, M)
        /\ \A d \in Homes(b, M) : \E x \in M : b.link[x] \in Ids /\ b.doc[b.link[x]] = d
    BY <1>b, HomesIds
  <2>2. \A d \in Homes(b, M) : d \in b.docs
    BY <1>b, <2>1 DEF Whole
  <2>3. \A v \in Chains(b, M) : v \in Ids /\ b.doc[v] # 0
    BY <2>1 DEF Chains
  <2>4. \A v \in Ids : b.doc[v] # 0 => v < b.fresh
    BY <1>b, <1>9 DEF Whole
  <2> QED
    BY <1>b, <2>1, <2>2, <2>3, <2>4 DEF Whole
<1>11. \A i \in O : i \in Ids /\ i < n.fresh
  BY <1>b, <1>9, <1>10 DEF TheDocs, Own
<1>12. \A i \in V : i \in Ids /\ i < n.fresh
  BY <1>b, <1>9, <1>10 DEF TheVersions, Ver
<1>13. Homes(n, L) \intersect O = {}
  <2> HIDE DEF R, O, V
  <2> SUFFICES ASSUME NEW d \in Homes(n, L), d \in O PROVE FALSE
    OBVIOUS
  <2>1. PICK x \in L : n.link[x] \in Ids /\ n.doc[n.link[x]] = d
    BY HomesIds
  <2>2. n.link[x] \in V
    BY <1>2, <2>1 DEF Agree
  <2>3. x \in R
    BY <1>2, <2>2 DEF Agree
  <2> QED
    BY <1>7, <1>8, <2>1, <2>3
<1>14. Chains(n, L) \intersect V = {}
  <2> HIDE DEF R, O, V
  <2> SUFFICES ASSUME NEW v \in Ids, n.doc[v] \in Homes(n, L), v \in V PROVE FALSE
    BY DEF Chains
  <2>1. n.doc[v] = b.doc[v] /\ b.doc[v] \in O \union {0}
    BY <1>1, <1>2 DEF Agree, Inside
  <2>2. 0 \notin Homes(n, L)
    BY HomesIds
  <2> QED
    BY <1>13, <2>1, <2>2
<1> HIDE DEF R, O, V
<1>15. \A i \in New(n, hi) : i \notin O /\ i \notin V
  BY <1>9, <1>11, <1>12
<1> QED
  BY <1>7, <1>13, <1>14, <1>15 DEF Own, Ver, R, O, V

(***************************************************************************)
(* The inductive invariant, of tables n, stages u and transactions t: what *)
(* always holds, and what holds as long as nothing was disturbed.          *)
(***************************************************************************)
Flying(t) == {f \in Files : t[f] # Idle}

Current(n, u, f, t) ==
    /\ u[f] = t.kind /\ t.after.fresh <= n.fresh
    /\ \A x \in Files : t.before.link[x] # 0 => n.link[x] # 0

Delivers(n, u) == \A i : Waits(n, i) /\ i.target \in n.assigned => u[i.target] = "classify"

Calm(n, u, t) ==
    /\ Whole(n, {}, {}) /\ Follows(n, {}) /\ Delivers(n, u)
    /\ \A f \in Files : u[f] # "derive" => n.derived[f] = 0
    /\ \A f \in Flying(t) : Scoped(t[f]) /\ Orderly(f, t[f]) /\ Agrees(n, t[f])
    /\ \A f, g \in Flying(t) : f # g => Apart(t[f], t[g])

State(n, u, t, s) ==
    /\ Typed(n) /\ s \in BOOLEAN /\ DOMAIN t = Files
    /\ u \in [Files -> {"classify", "relate", "derive"}]
    /\ \A f \in Files : u[f] = "derive" => n.link[f] # 0
    /\ \A f \in Flying(t) : Sound(f, t[f]) /\ Current(n, u, f, t[f])
    /\ ~ s => Calm(n, u, t)

LEMMA ApartSym == \A t, w : Apart(t, w) => Apart(w, t)
BY DEF Apart

(* No transaction is near the files L.                                     *)
Clear(n, t, L) == \A g \in Flying(t) : Region(n, t[g].names) \intersect Region(n, L) = {}

(* A transaction begins.                                                   *)
LEMMA BeginState ==
    ASSUME NEW n, NEW u, NEW t, NEW s, State(n, u, t, s),
           NEW f \in Files, NEW x, Sound(f, x), x.before = n, x.kind = u[f],
           (Whole(n, {}, {}) /\ Follows(n, {}) /\ n.derived[f] = 0) => Scoped(x) /\ Orderly(f, x),
           NEW m, Shaped(m), SameKnown(n, m), m.fresh = x.after.fresh, m.fresh <= MaxIds,
           NEW w, w = [t EXCEPT ![f] = x], NEW z \in BOOLEAN,
           ~ z => ~ s /\ Clear(n, t, x.names)
    PROVE  State(m, u, w, z)
<1>1. /\ Typed(n) /\ DOMAIN t = Files /\ u \in [Files -> {"classify", "relate", "derive"}]
      /\ \A g \in Files : u[g] = "derive" => n.link[g] # 0
      /\ \A g \in Flying(t) : Sound(g, t[g]) /\ Current(n, u, g, t[g])
  BY DEF State
<1>2. Typed(x.after) /\ Lasts(n, x.after) /\ x.names \subseteq Files
  BY DEF Sound
<1>3. n.fresh \in Nat /\ m.fresh \in Nat /\ n.fresh <= m.fresh /\ m.fresh \in 1 .. MaxIds
  BY <1>1, <1>2, BoundsAssumption DEF Typed, Shaped, Lasts, Rows
<1>4. Typed(m)
  BY <1>1, <1>3 DEF Typed, Rows, Linked, Marks, Filed, SameKnown, SameEdges, SameMarks
<1>5. DOMAIN w = Files /\ w[f] = x /\ \A g \in Files \ {f} : w[g] = t[g]
  BY <1>1
<1>6. Flying(w) \subseteq Flying(t) \union {f}
  BY <1>5 DEF Flying
<1>7. \A g \in Flying(t) \ {f} : t[g].after.fresh \in Nat /\ t[g].after.fresh <= m.fresh
  <2> SUFFICES ASSUME NEW g \in Flying(t) \ {f} PROVE t[g].after.fresh \in Nat /\ t[g].after.fresh <= m.fresh
    OBVIOUS
  <2>1. t[g].after.fresh \in Nat /\ t[g].after.fresh <= n.fresh
    BY <1>1 DEF Sound, Current, Typed, Shaped
  <2> QED
    BY <1>3, <2>1
<1>8. ASSUME NEW g \in Flying(w) PROVE Sound(g, w[g]) /\ Current(m, u, g, w[g])
  <2>1. CASE g = f
    <3>1. Current(m, u, f, x)
      BY <1>3 DEF Current, SameKnown
    <3> QED
      BY <1>5, <2>1, <3>1
  <2>2. CASE g # f
    <3>1. g \in Flying(t) /\ g \in Files /\ w[g] = t[g]
      BY <1>5, <1>6, <2>2 DEF Flying
    <3>2. Sound(g, t[g]) /\ Current(n, u, g, t[g])
      BY <1>1, <3>1
    <3>3. Current(m, u, g, t[g])
      BY <1>7, <2>2, <3>1, <3>2 DEF Current, SameKnown
    <3> QED
      BY <3>1, <3>2, <3>3
  <2> QED
    BY <2>1, <2>2
<1>9. ASSUME ~ z PROVE Calm(m, u, w)
  <2>1. /\ Whole(n, {}, {}) /\ Follows(n, {}) /\ Delivers(n, u)
        /\ \A g \in Files : u[g] # "derive" => n.derived[g] = 0
        /\ \A g \in Flying(t) : Scoped(t[g]) /\ Orderly(g, t[g]) /\ Agrees(n, t[g])
        /\ \A g, h \in Flying(t) : g # h => Apart(t[g], t[h])
    BY <1>9 DEF State, Calm
  <2>2. Whole(m, {}, {})
    <3>1. \A i \in Ids : i >= m.fresh => i >= n.fresh
      BY <1>3, IdsNat
    <3>2. \A i \in n.docs : i < n.fresh => i < m.fresh
      BY <1>1, <1>3, IdsNat DEF Typed, Rows
    <3> QED
      BY <2>1, <3>1, <3>2 DEF Whole, SameKnown, SameEdges, SameMarks
  <2>3. Follows(m, {}) /\ Delivers(m, u)
    BY <2>1 DEF Follows, Delivers, SameKnown, Waits
  <2>4. \A g \in Files : u[g] # "derive" => m.derived[g] = 0
    BY <2>1 DEF SameKnown
  <2>5. n.derived[f] = 0
    BY <2>1 DEF Sound
  <2>6. Scoped(x) /\ Orderly(f, x)
    BY <2>1, <2>5
  <2>7. Agrees(m, x)
    BY <1>1, <1>2, <2>1, AgreesAtFirst
  <2>8. \A g \in Flying(w) : Scoped(w[g]) /\ Orderly(g, w[g]) /\ Agrees(m, w[g])
    BY <1>5, <1>6, <2>1, <2>6, <2>7, AgreesSame DEF Flying
  <2>9. ASSUME NEW g \in Flying(t) \ {f} PROVE Apart(t[g], x)
    <3>1. Region(n, t[g].names) \intersect Region(n, x.names) = {}
      BY <1>9, <2>9 DEF Clear
    <3>2. t[g].names \subseteq Files /\ Typed(t[g].before) /\ Lasts(t[g].before, t[g].after)
      BY <1>1, <2>9 DEF Sound
    <3>3. Whole(t[g].before, {}, {}) /\ Agrees(n, t[g]) /\ t[g].after.fresh <= n.fresh
          /\ t[g].after.fresh \in Nat /\ t[g].before.fresh <= t[g].after.fresh
      BY <1>1, <1>7, <2>1, <2>9, <3>2 DEF Scoped, Current, Lasts
    <3>4. /\ TheFiles(t[g]) \intersect Region(n, x.names) = {}
          /\ TheDocs(t[g]) \intersect Own(n, x.names, x.after.fresh) = {}
          /\ TheVersions(t[g]) \intersect Ver(n, x.names, x.after.fresh) = {}
      BY <1>1, <1>2, <2>1, <3>1, <3>2, <3>3, ScopesApart
    <3> QED
      BY <3>4 DEF Apart, TheFiles, TheDocs, TheVersions
  <2>10. ASSUME NEW g \in Flying(w), NEW h \in Flying(w), g # h PROVE Apart(w[g], w[h])
    <3>1. CASE g = f
      BY <1>5, <1>6, <2>9, <2>10, <3>1, ApartSym DEF Flying
    <3>2. CASE h = f
      BY <1>5, <1>6, <2>9, <2>10, <3>2 DEF Flying
    <3>3. CASE g # f /\ h # f
      BY <1>5, <1>6, <2>1, <2>10, <3>3 DEF Flying
    <3> QED
      BY <3>1, <3>2, <3>3
  <2> QED
    BY <2>2, <2>3, <2>4, <2>8, <2>10 DEF Calm
<1> QED
  BY <1>1, <1>4, <1>5, <1>8, <1>9 DEF State, SameKnown

(***************************************************************************)
(* A commit: what was read as b and written as a, over the tables n.       *)
(***************************************************************************)
Overlay(b, a, n, m) ==
    /\ Shaped(m) /\ m.fresh = n.fresh
    /\ m.link = OverRows(b.link, a.link, n.link) /\ m.doc = OverRows(b.doc, a.doc, n.doc)
    /\ m.derived = OverRows(b.derived, a.derived, n.derived)
    /\ m.ord = OverRows(b.ord, a.ord, n.ord) /\ m.crown = OverRows(b.crown, a.crown, n.crown)
    /\ m.final = OverSet(b.final, a.final, n.final) /\ m.docs = OverSet(b.docs, a.docs, n.docs)
    /\ m.intents = OverSet(b.intents, a.intents, n.intents)
    /\ m.assigned = OverSet(b.assigned, a.assigned, n.assigned)
    /\ m.supersedes = OverEdges(b.supersedes, a.supersedes, n.supersedes)
    /\ m.refers = OverEdges(b.refers, a.refers, n.refers)

LEMMA OverRowsType ==
    ASSUME NEW S, NEW T, NEW b, NEW a \in [S -> T], NEW n \in [S -> T]
    PROVE  OverRows(b, a, n) \in [S -> T]
BY DEF OverRows

LEMMA OverSetType ==
    ASSUME NEW T, NEW b, NEW a \in SUBSET T, NEW n \in SUBSET T, NEW m, m = OverSet(b, a, n)
    PROVE  m \subseteq T
BY DEF OverSet

LEMMA OverEdgesCases ==
    ASSUME NEW b, NEW a, NEW n, NEW m, m = OverEdges(b, a, n), NEW q \in DOMAIN m, NEW c \in {1, 2}
    PROVE  \/ /\ q \in DOMAIN a /\ m[q][c] = a[q][c]
              /\ ~(q \in DOMAIN b /\ a[q][c] = b[q][c])
           \/ /\ q \in DOMAIN n /\ m[q][c] = n[q][c]
              /\ q \in DOMAIN b => q \in DOMAIN a /\ a[q][c] = b[q][c]
<1> DEFINE kept == DOMAIN n \ (DOMAIN b \ DOMAIN a)
           Column(r, d) == IF r \in DOMAIN b /\ a[r][d] = b[r][d] THEN n[r][d] ELSE a[r][d]
<1>1. m = [r \in kept \union (DOMAIN a \ DOMAIN b) |->
             IF r \in DOMAIN a THEN <<Column(r, 1), Column(r, 2)>> ELSE n[r]]
  BY DEF OverEdges
<1>2. q \in kept \union (DOMAIN a \ DOMAIN b)
      /\ m[q] = IF q \in DOMAIN a THEN <<Column(q, 1), Column(q, 2)>> ELSE n[q]
  BY <1>1
<1>3. q \in DOMAIN a => m[q][c] = Column(q, c)
  BY <1>2
<1> QED
  BY <1>2, <1>3

LEMMA OverEdgesEnds ==
    ASSUME NEW b, NEW a, Ends(a), NEW n, Ends(n), NEW m, m = OverEdges(b, a, n)
    PROVE  Ends(m)
<1> DEFINE kept == DOMAIN n \ (DOMAIN b \ DOMAIN a)
           Column(r, d) == IF r \in DOMAIN b /\ a[r][d] = b[r][d] THEN n[r][d] ELSE a[r][d]
<1>1. m = [r \in kept \union (DOMAIN a \ DOMAIN b) |->
             IF r \in DOMAIN a THEN <<Column(r, 1), Column(r, 2)>> ELSE n[r]]
  BY DEF OverEdges
<1> SUFFICES ASSUME NEW q \in DOMAIN m PROVE q \in Ids \X Ids /\ m[q] \in Ids \X Ids
  BY DEF Ends
<1>2. q \in kept \union (DOMAIN a \ DOMAIN b)
      /\ m[q] = IF q \in DOMAIN a THEN <<Column(q, 1), Column(q, 2)>> ELSE n[q]
  BY <1>1
<1>3. q \in Ids \X Ids
  BY <1>2 DEF Ends
<1>4. CASE q \in DOMAIN a
  <2>1. a[q][1] \in Ids /\ a[q][2] \in Ids
    BY <1>4 DEF Ends
  <2>2. q \in DOMAIN b => n[q][1] \in Ids /\ n[q][2] \in Ids
    BY <1>2 DEF Ends
  <2>3. Column(q, 1) \in Ids /\ Column(q, 2) \in Ids
    BY <2>1, <2>2
  <2>4. m[q] = <<Column(q, 1), Column(q, 2)>>
    BY <1>2, <1>4
  <2> HIDE DEF Column
  <2> QED
    BY <1>3, <2>3, <2>4
<1>5. CASE q \notin DOMAIN a
  BY <1>2, <1>3, <1>5 DEF Ends
<1> QED
  BY <1>4, <1>5

(* What a commit writes, row by row.                                       *)
Written(b, a, n, m) ==
    /\ \A x \in Files : /\ m.link[x] = IF a.link[x] # b.link[x] THEN a.link[x] ELSE n.link[x]
                        /\ m.derived[x] = IF a.derived[x] # b.derived[x] THEN a.derived[x]
                                          ELSE n.derived[x]
    /\ \A v \in Ids : /\ m.doc[v] = IF a.doc[v] # b.doc[v] THEN a.doc[v] ELSE n.doc[v]
                      /\ m.ord[v] = IF a.ord[v] # b.ord[v] THEN a.ord[v] ELSE n.ord[v]

LEMMA OverlayWritten ==
    ASSUME NEW b, Typed(b), NEW a, Typed(a), NEW n, Typed(n), NEW m, Overlay(b, a, n, m)
    PROVE  Written(b, a, n, m)
<1>1. /\ a.link \in [Files -> 0 .. MaxIds] /\ n.link \in [Files -> 0 .. MaxIds]
      /\ a.derived \in [Files -> 0 .. MaxIds] /\ n.derived \in [Files -> 0 .. MaxIds]
      /\ a.doc \in [Ids -> 0 .. MaxIds] /\ n.doc \in [Ids -> 0 .. MaxIds]
      /\ a.ord \in [Ids -> Nat] /\ n.ord \in [Ids -> Nat]
  BY DEF Typed, Rows, Marks
<1>2. /\ m.link = OverRows(b.link, a.link, n.link) /\ m.doc = OverRows(b.doc, a.doc, n.doc)
      /\ m.derived = OverRows(b.derived, a.derived, n.derived)
      /\ m.ord = OverRows(b.ord, a.ord, n.ord)
  BY DEF Overlay
<1> QED
  BY <1>1, <1>2 DEF OverRows, Written

LEMMA OverlayTyped ==
    ASSUME NEW b, Typed(b), NEW a, Typed(a), NEW n, Typed(n), NEW m, Overlay(b, a, n, m), Linked(m)
    PROVE  Typed(m)
<1>1. Rows(a) /\ Rows(n) /\ Marks(a) /\ Marks(n) /\ Filed(a) /\ Filed(n)
      /\ Ends(a.supersedes) /\ Ends(n.supersedes) /\ Ends(a.refers) /\ Ends(n.refers)
  BY DEF Typed
<1>2. /\ m.link \in [Files -> 0 .. MaxIds] /\ m.derived \in [Files -> 0 .. MaxIds]
      /\ m.doc \in [Ids -> 0 .. MaxIds]
  <2>1. /\ OverRows(b.link, a.link, n.link) \in [Files -> 0 .. MaxIds]
        /\ OverRows(b.derived, a.derived, n.derived) \in [Files -> 0 .. MaxIds]
        /\ OverRows(b.doc, a.doc, n.doc) \in [Ids -> 0 .. MaxIds]
    BY <1>1, OverRowsType DEF Rows
  <2> QED
    BY <2>1 DEF Overlay
<1>3. m.docs \subseteq Ids /\ m.assigned \subseteq Files
  BY <1>1, OverSetType DEF Rows, Overlay
<1>4. Rows(m) /\ Shaped(m)
  BY <1>1, <1>2, <1>3 DEF Rows, Overlay
<1>5. Marks(m)
  <2>1. m.final \subseteq Ids
    BY <1>1, OverSetType DEF Marks, Overlay
  <2>2. /\ OverRows(b.ord, a.ord, n.ord) \in [Ids -> Nat]
        /\ OverRows(b.crown, a.crown, n.crown) \in [Ids -> 0 .. MaxIds]
    BY <1>1, OverRowsType DEF Marks
  <2> QED
    BY <2>1, <2>2 DEF Marks, Overlay
<1>6. Filed(m)
  <2>1. m.intents = (n.intents \ (b.intents \ a.intents)) \union (a.intents \ b.intents)
    BY DEF Overlay, OverSet
  <2>2. IsFiniteSet(n.intents \ (b.intents \ a.intents)) /\ IsFiniteSet(a.intents \ b.intents)
    BY <1>1, FS_Subset DEF Filed
  <2>3. IsFiniteSet(m.intents)
    BY <2>1, <2>2, FS_Union
  <2> QED
    BY <1>1, <2>1, <2>3 DEF Filed
<1>7. Ends(m.supersedes) /\ Ends(m.refers)
  BY <1>1, OverEdgesEnds DEF Overlay
<1> QED
  BY <1>4, <1>5, <1>6, <1>7 DEF Typed

(* What a commit leaves when nothing overlapped: in the scope the rows of  *)
(* the transaction, outside it the rows that were there.                   *)
JoinedEdges(a, n, m, S) ==
    \A q \in DOMAIN m : \A c \in {1, 2} :
        \/ m[q][c] \in S /\ q \in DOMAIN a /\ a[q][c] = m[q][c]
        \/ m[q][c] \notin S /\ q \in DOMAIN n /\ n[q][c] = m[q][c]
Joined(a, n, m, R, O, V) ==
    /\ \A x \in Files : IF x \in R THEN m.link[x] = a.link[x] /\ m.derived[x] = a.derived[x]
                        ELSE m.link[x] = n.link[x] /\ m.derived[x] = n.derived[x]
    /\ \A v \in Ids : IF v \in V THEN m.doc[v] = a.doc[v] /\ m.ord[v] = a.ord[v]
                      ELSE m.doc[v] = n.doc[v] /\ m.ord[v] = n.ord[v]
    /\ \A d \in Ids : d \in m.docs <=> IF d \in O THEN d \in a.docs ELSE d \in n.docs
    /\ JoinedEdges(a.supersedes, n.supersedes, m.supersedes, V)
    /\ JoinedEdges(a.refers, n.refers, m.refers, O)

LEMMA EdgesJoined ==
    ASSUME NEW b, NEW a, NEW n, NEW S, Edge(b, a, S), Kept(n, b, S), NEW m, m = OverEdges(b, a, n)
    PROVE  JoinedEdges(a, n, m, S)
<1> SUFFICES ASSUME NEW q \in DOMAIN m, NEW c \in {1, 2}
             PROVE  \/ m[q][c] \in S /\ q \in DOMAIN a /\ a[q][c] = m[q][c]
                    \/ m[q][c] \notin S /\ q \in DOMAIN n /\ n[q][c] = m[q][c]
  BY DEF JoinedEdges
<1>1. CASE /\ q \in DOMAIN a /\ m[q][c] = a[q][c]
           /\ ~(q \in DOMAIN b /\ a[q][c] = b[q][c])
  BY <1>1 DEF Edge
<1>2. CASE /\ q \in DOMAIN n /\ m[q][c] = n[q][c]
           /\ q \in DOMAIN b => q \in DOMAIN a /\ a[q][c] = b[q][c]
  BY <1>2 DEF Kept
<1> QED
  BY <1>1, <1>2, OverEdgesCases

LEMMA OverlayJoined ==
    ASSUME NEW b, Typed(b), NEW a, Typed(a), NEW n, Typed(n), NEW m, Overlay(b, a, n, m),
           NEW R, NEW O, NEW V, Inside(b, R, O, V), Frame(b, a, R, O, V), Agree(n, b, R, O, V)
    PROVE  Joined(a, n, m, R, O, V)
<1>1. Written(b, a, n, m)
  BY OverlayWritten
<1>2. R \subseteq Files /\ O \subseteq Ids /\ V \subseteq Ids
  BY DEF Inside
<1>3. \A x \in Files : IF x \in R THEN m.link[x] = a.link[x] /\ m.derived[x] = a.derived[x]
                       ELSE m.link[x] = n.link[x] /\ m.derived[x] = n.derived[x]
  BY <1>1, <1>2 DEF Written, Frame, Agree
<1>4. \A v \in Ids : IF v \in V THEN m.doc[v] = a.doc[v] /\ m.ord[v] = a.ord[v]
                    ELSE m.doc[v] = n.doc[v] /\ m.ord[v] = n.ord[v]
  BY <1>1, <1>2 DEF Written, Frame, Agree
<1>5. \A d \in Ids : d \in m.docs <=> IF d \in O THEN d \in a.docs ELSE d \in n.docs
  <2>1. m.docs = (n.docs \ (b.docs \ a.docs)) \union (a.docs \ b.docs)
    BY DEF Overlay, OverSet
  <2>2. /\ \A d \in O : d \in n.docs <=> d \in b.docs
        /\ \A d \in Ids \ O : d \in a.docs <=> d \in b.docs
    BY DEF Agree, Frame
  <2> QED
    BY <2>1, <2>2
<1>6. JoinedEdges(a.supersedes, n.supersedes, m.supersedes, V)
  <2>1. Edge(b.supersedes, a.supersedes, V) /\ Kept(n.supersedes, b.supersedes, V)
        /\ m.supersedes = OverEdges(b.supersedes, a.supersedes, n.supersedes)
    BY DEF Frame, Agree, Overlay
  <2> QED
    BY <2>1, EdgesJoined
<1>7. JoinedEdges(a.refers, n.refers, m.refers, O)
  <2>1. Edge(b.refers, a.refers, O) /\ Kept(n.refers, b.refers, O)
        /\ m.refers = OverEdges(b.refers, a.refers, n.refers)
    BY DEF Frame, Agree, Overlay
  <2> QED
    BY <2>1, EdgesJoined
<1> QED
  BY <1>3, <1>4, <1>5, <1>6, <1>7 DEF Joined

LEMMA JoinedWhole ==
    ASSUME NEW b, Typed(b), NEW a, Typed(a), NEW n, Typed(n), NEW m, Typed(m),
           m.fresh = n.fresh, a.fresh <= n.fresh,
           NEW R, NEW O, NEW V, Inside(b, R, O, V), Frame(b, a, R, O, V), Agree(n, b, R, O, V),
           Joined(a, n, m, R, O, V), Whole(a, {}, {}), Whole(n, {}, {})
    PROVE  Whole(m, {}, {})
<1>1. R \subseteq Files /\ O \subseteq Ids /\ V \subseteq Ids /\ 0 \notin Ids
  BY IdsNat DEF Inside
<1>2. /\ a.docs \subseteq Ids /\ n.docs \subseteq Ids /\ m.docs \subseteq Ids
      /\ Ends(m.supersedes) /\ Ends(m.refers)
  BY DEF Typed, Rows
<1>3. /\ \A x \in Files : IF x \in R THEN m.link[x] = a.link[x] ELSE m.link[x] = n.link[x]
      /\ \A v \in Ids : m.doc[v] = IF v \in V THEN a.doc[v] ELSE n.doc[v]
      /\ \A d \in Ids : d \in m.docs <=> IF d \in O THEN d \in a.docs ELSE d \in n.docs
  BY DEF Joined
<1>4. \A x \in Files : /\ x \in R => a.link[x] \in V \union {0} /\ n.link[x] \in V \union {0}
                       /\ x \notin R => a.link[x] \notin V /\ n.link[x] \notin V
  BY DEF Inside, Frame, Agree
<1>5. \A v \in Ids : /\ v \in V => a.doc[v] \in O \union {0} /\ n.doc[v] \in O \union {0}
                     /\ v \notin V => a.doc[v] \notin O /\ n.doc[v] \notin O
  BY <1>1 DEF Inside, Frame, Agree
<1>6. /\ \A v \in Ids : a.doc[v] # 0 => a.doc[v] \in a.docs /\ \E x \in Files : a.link[x] = v
      /\ \A v \in Ids : n.doc[v] # 0 => n.doc[v] \in n.docs /\ \E x \in Files : n.link[x] = v
      /\ \A d \in a.docs : \E v \in Ids : a.doc[v] = d
      /\ \A d \in n.docs : \E v \in Ids : n.doc[v] = d
  BY DEF Whole
<1>7. ASSUME NEW v \in Ids, m.doc[v] # 0
      PROVE  m.doc[v] \in m.docs /\ \E x \in Files : m.link[x] = v
  <2>1. CASE v \in V
    <3>1. m.doc[v] = a.doc[v] /\ m.doc[v] \in O /\ m.doc[v] \in a.docs
      BY <1>3, <1>5, <1>6, <1>7, <2>1
    <3>2. PICK x \in Files : a.link[x] = v
      BY <1>6, <1>7, <3>1
    <3>3. m.link[x] = v
      BY <1>3, <1>4, <2>1, <3>2
    <3> QED
      BY <1>1, <1>3, <3>1, <3>3
  <2>2. CASE v \notin V
    <3>1. m.doc[v] = n.doc[v] /\ m.doc[v] \notin O /\ m.doc[v] \in n.docs
      BY <1>3, <1>5, <1>6, <1>7, <2>2
    <3>2. PICK x \in Files : n.link[x] = v
      BY <1>6, <1>7, <3>1
    <3>3. m.link[x] = v
      BY <1>1, <1>3, <1>4, <2>2, <3>2
    <3> QED
      BY <1>2, <1>3, <3>1, <3>3
  <2> QED
    BY <2>1, <2>2
<1>8. ASSUME NEW d \in m.docs PROVE \E v \in Ids : m.doc[v] = d
  <2>1. CASE d \in O
    <3>1. PICK v \in Ids : a.doc[v] = d
      BY <1>2, <1>3, <1>6, <2>1
    <3> QED
      BY <1>1, <1>3, <1>5, <2>1, <3>1
  <2>2. CASE d \notin O
    <3>1. PICK v \in Ids : n.doc[v] = d
      BY <1>2, <1>3, <1>6, <2>2
    <3> QED
      BY <1>1, <1>2, <1>3, <1>5, <2>2, <3>1
  <2> QED
    BY <2>1, <2>2
<1>9. ASSUME NEW q \in DOMAIN m.supersedes, NEW c \in {1, 2} PROVE m.doc[m.supersedes[q][c]] # 0
  <2> DEFINE e == m.supersedes[q][c]
  <2>1. e \in Ids
    BY <1>2 DEF Ends
  <2>2. CASE e \in V /\ q \in DOMAIN a.supersedes /\ a.supersedes[q][c] = e
    <3>1. a.doc[e] # 0
      BY <2>2 DEF Whole
    <3> QED
      BY <1>3, <2>1, <2>2, <3>1
  <2>3. CASE e \notin V /\ q \in DOMAIN n.supersedes /\ n.supersedes[q][c] = e
    <3>1. n.doc[e] # 0
      BY <2>3 DEF Whole
    <3> QED
      BY <1>3, <2>1, <2>3, <3>1
  <2> QED
    BY <2>2, <2>3 DEF Joined, JoinedEdges
<1>10. ASSUME NEW q \in DOMAIN m.refers, NEW c \in {1, 2} PROVE m.refers[q][c] \in m.docs
  <2> DEFINE e == m.refers[q][c]
  <2>1. e \in Ids
    BY <1>2 DEF Ends
  <2>2. CASE e \in O /\ q \in DOMAIN a.refers /\ a.refers[q][c] = e
    <3>1. e \in a.docs
      BY <2>2 DEF Whole
    <3> QED
      BY <1>3, <2>1, <2>2, <3>1
  <2>3. CASE e \notin O /\ q \in DOMAIN n.refers /\ n.refers[q][c] = e
    <3>1. e \in n.docs
      BY <2>3 DEF Whole
    <3> QED
      BY <1>3, <2>1, <2>3, <3>1
  <2> QED
    BY <2>2, <2>3 DEF Joined, JoinedEdges
<1>11. \A i \in Ids : i >= m.fresh => i >= n.fresh /\ i >= a.fresh
  BY IdsNat DEF Typed, Shaped
<1>12. \A v \in Ids : v >= m.fresh => m.doc[v] = 0 /\ m.ord[v] = 0
  <2>1. \A v \in Ids : m.ord[v] = IF v \in V THEN a.ord[v] ELSE n.ord[v]
    BY DEF Joined
  <2> QED
    BY <1>3, <1>11, <2>1 DEF Whole
<1>13. \A d \in m.docs : d < m.fresh
  <2>1. \A d \in m.docs : d < n.fresh \/ d < a.fresh
    BY <1>2, <1>3 DEF Whole
  <2> QED
    BY <1>2, <2>1, IdsNat DEF Typed, Shaped
<1> QED
  BY <1>7, <1>8, <1>9, <1>10, <1>12, <1>13 DEF Whole

LEMMA JoinedFollows ==
    ASSUME NEW b, NEW a, Typed(a), NEW n, Typed(n), NEW m,
           NEW R, NEW O, NEW V, Inside(b, R, O, V), Frame(b, a, R, O, V), Agree(n, b, R, O, V),
           Joined(a, n, m, R, O, V), Follows(a, {}), Follows(n, {})
    PROVE  Follows(m, {})
<1> SUFFICES ASSUME NEW x \in Files, m.derived[x] # 0
             PROVE  m.link[x] # 0 /\ m.derived[x] = m.doc[m.link[x]]
  BY DEF Follows
<1>1. /\ IF x \in R THEN m.link[x] = a.link[x] /\ m.derived[x] = a.derived[x]
         ELSE m.link[x] = n.link[x] /\ m.derived[x] = n.derived[x]
      /\ \A v \in Ids : m.doc[v] = IF v \in V THEN a.doc[v] ELSE n.doc[v]
  BY DEF Joined
<1>2. /\ a.link[x] # 0 => a.link[x] \in Ids
      /\ n.link[x] # 0 => n.link[x] \in Ids
  BY DEF Typed, Rows, Ids
<1>3. CASE x \in R
  <2>1. a.link[x] # 0 /\ a.derived[x] = a.doc[a.link[x]]
    BY <1>1, <1>3 DEF Follows
  <2>2. a.link[x] \in V
    BY <1>3, <2>1 DEF Frame
  <2> QED
    BY <1>1, <1>2, <1>3, <2>1, <2>2
<1>4. CASE x \notin R
  <2>1. n.link[x] # 0 /\ n.derived[x] = n.doc[n.link[x]]
    BY <1>1, <1>4 DEF Follows
  <2>2. n.link[x] \notin V
    BY <1>4 DEF Agree
  <2> QED
    BY <1>1, <1>2, <1>4, <2>1, <2>2
<1> QED
  BY <1>3, <1>4

(* What was committed did not touch the scope of another transaction.      *)
LEMMA JoinedAgree ==
    ASSUME NEW b, NEW a, NEW n, NEW m, NEW R, NEW O, NEW V,
           Inside(b, R, O, V), Frame(b, a, R, O, V), Joined(a, n, m, R, O, V),
           NEW x, NEW P, NEW D, NEW W, Inside(x, P, D, W), Agree(n, x, P, D, W),
           R \intersect P = {}, O \intersect D = {}, V \intersect W = {},
           \A y \in Files \ R : y \in m.assigned <=> y \in n.assigned,
           \A i : Waits(m, i) /\ i.target \notin R => Waits(n, i)
    PROVE  Agree(m, x, P, D, W)
<1>1. /\ P \subseteq Files /\ D \subseteq Ids /\ W \subseteq Ids /\ 0 \notin Ids
      /\ \A y \in P : y \notin R /\ \A d \in D : d \notin O /\ \A v \in W : v \notin V
  BY IdsNat DEF Inside
<1>d. D \subseteq Ids \ O /\ W \subseteq Ids \ V /\ P \subseteq Files \ R
  BY <1>1
<1>2. /\ \A y \in Files : IF y \in R THEN m.link[y] = a.link[y] /\ m.derived[y] = a.derived[y]
                          ELSE m.link[y] = n.link[y] /\ m.derived[y] = n.derived[y]
      /\ \A v \in Ids : IF v \in V THEN m.doc[v] = a.doc[v] /\ m.ord[v] = a.ord[v]
                        ELSE m.doc[v] = n.doc[v] /\ m.ord[v] = n.ord[v]
      /\ \A d \in Ids : d \in m.docs <=> IF d \in O THEN d \in a.docs ELSE d \in n.docs
      /\ JoinedEdges(a.supersedes, n.supersedes, m.supersedes, V)
      /\ JoinedEdges(a.refers, n.refers, m.refers, O)
  BY DEF Joined
<1>3. /\ \A y \in R : a.link[y] \in V \union {0}
      /\ \A v \in V : a.doc[v] \in O \union {0}
  BY DEF Frame
<1>4. \A y \in P : /\ m.link[y] = x.link[y] /\ m.derived[y] = x.derived[y]
                   /\ y \in m.assigned <=> y \in x.assigned
  BY <1>2, <1>d DEF Agree
<1>5. \A y \in Files \ P : m.link[y] \notin W
  BY <1>2, <1>3, <1>d, <1>1 DEF Agree
<1>6. \A v \in W : m.doc[v] = x.doc[v] /\ m.ord[v] = x.ord[v]
  BY <1>2, <1>d DEF Agree
<1>7. \A v \in Ids \ W : m.doc[v] \notin D
  BY <1>2, <1>3, <1>d, <1>1 DEF Agree
<1>8. \A d \in D : d \in m.docs <=> d \in x.docs
  BY <1>2, <1>d DEF Agree
<1>9. Kept(m.supersedes, x.supersedes, W)
  <2>1. Kept(n.supersedes, x.supersedes, W)
    BY DEF Agree
  <2> QED
    BY <1>2, <1>d, <2>1 DEF Kept, JoinedEdges
<1>10. Kept(m.refers, x.refers, D)
  <2>1. Kept(n.refers, x.refers, D)
    BY DEF Agree
  <2> QED
    BY <1>2, <1>d, <2>1 DEF Kept, JoinedEdges
<1>11. \A i : Waits(m, i) /\ i.target \in P => i \in x.intents
  BY <1>d DEF Agree
<1> QED
  BY <1>4, <1>5, <1>6, <1>7, <1>8, <1>9, <1>10, <1>11 DEF Agree

(* The matters, and the decisions that wait, after a commit.               *)
Waited(f, x, n, m) ==
    /\ \A y : y # f => (y \in m.assigned <=> y \in n.assigned)
    /\ x.kind = "relate" => m.assigned = n.assigned
    /\ \A i : Waits(m, i) => Waits(n, i) \/ (x.kind = "relate" /\ i.target \in x.names
                                            /\ i.target \notin x.before.assigned)
    /\ x.kind = "classify" => \A i : Waits(m, i) =>
          Waits(n, i) /\ (i \in x.before.intents => i.target # f)

LEMMA OverlayWaits ==
    ASSUME NEW f, NEW x, Sound(f, x), NEW n, NEW m, Overlay(x.before, x.after, n, m)
    PROVE  Waited(f, x, n, m)
<1>1. /\ m.assigned = (n.assigned \ (x.before.assigned \ x.after.assigned))
                        \union (x.after.assigned \ x.before.assigned)
      /\ m.intents = (n.intents \ (x.before.intents \ x.after.intents))
                        \union (x.after.intents \ x.before.intents)
  BY DEF Overlay, OverSet
<1>2. \/ x.kind = "relate" /\ x.after.assigned = x.before.assigned
         /\ \A i \in x.after.intents \ x.before.intents :
              i.target \in x.names /\ i.target \notin x.before.assigned
      \/ x.kind = "classify" /\ x.after.assigned = x.before.assigned \union {f}
         /\ \A i : Waits(x.after, i) => i \in x.before.intents /\ i.target # f
  BY DEF Sound
<1> DEFINE b == x.before
           a == x.after
<1> HIDE DEF b, a
<1>3. ASSUME NEW i, Waits(m, i)
      PROVE  \/ Waits(n, i) /\ ~(i \in x.before.intents /\ i \notin x.after.intents)
             \/ Waits(x.after, i) /\ i \in x.after.intents \ x.before.intents
  BY <1>1, <1>3 DEF Waits
<1>4. \A y : y # f => (y \in m.assigned <=> y \in n.assigned)
  BY <1>1, <1>2
<1>5. x.kind = "relate" => m.assigned = n.assigned
  BY <1>1, <1>2
<1>6. \A i : Waits(m, i) => Waits(n, i) \/ (x.kind = "relate" /\ i.target \in x.names
                                            /\ i.target \notin x.before.assigned)
  BY <1>2, <1>3
<1>7. ASSUME x.kind = "classify", NEW i, Waits(m, i)
      PROVE  Waits(n, i) /\ (i \in x.before.intents => i.target # f)
  <2>1. Waits(n, i) /\ ~(i \in x.before.intents /\ i \notin x.after.intents)
    BY <1>2, <1>3, <1>7
  <2>2. i \in x.before.intents => Waits(x.after, i)
    BY <2>1 DEF Waits
  <2> QED
    BY <1>2, <1>7, <2>1, <2>2
<1> QED
  BY <1>4, <1>5, <1>6, <1>7 DEF Waited

LEMMA ScopeOf ==
    ASSUME NEW f, NEW x, Sound(f, x), Scoped(x)
    PROVE  /\ Inside(x.before, TheFiles(x), TheDocs(x), TheVersions(x))
           /\ x.names \subseteq TheFiles(x) /\ TheFiles(x) \subseteq Files
<1>1. Typed(x.before) /\ Whole(x.before, {}, {}) /\ x.names \in SUBSET Files
  BY DEF Sound, Scoped
<1> QED
  BY <1>1, ScopeInside DEF TheFiles, TheDocs, TheVersions, Region

LEMMA CommitCalm ==
    ASSUME NEW n, NEW u, NEW t, State(n, u, t, FALSE), NEW f \in Flying(t),
           NEW m, Overlay(t[f].before, t[f].after, n, m), Typed(m),
           NEW z, z = [u EXCEPT ![f] = IF t[f].kind = "classify" THEN "relate" ELSE "derive"],
           NEW w, w = [t EXCEPT ![f] = Idle]
    PROVE  Calm(m, z, w)
<1> DEFINE x == t[f]
           b == x.before
           a == x.after
           R == TheFiles(x)
           O == TheDocs(x)
           V == TheVersions(x)
<1>1. /\ Typed(n) /\ DOMAIN t = Files /\ u \in [Files -> {"classify", "relate", "derive"}]
      /\ \A g \in Flying(t) : Sound(g, t[g]) /\ Current(n, u, g, t[g])
      /\ Calm(n, u, t) /\ f \in Files
  BY DEF State, Flying
<1>2. /\ Whole(n, {}, {}) /\ Follows(n, {}) /\ Delivers(n, u)
      /\ \A g \in Files : u[g] # "derive" => n.derived[g] = 0
      /\ \A g \in Flying(t) : Scoped(t[g]) /\ Orderly(g, t[g]) /\ Agrees(n, t[g])
      /\ \A g, h \in Flying(t) : g # h => Apart(t[g], t[h])
  BY <1>1 DEF Calm
<1>x. Sound(f, x) /\ Current(n, u, f, x) /\ Scoped(x) /\ Agrees(n, x)
  BY <1>1, <1>2
<1>y. Overlay(b, a, n, m)
  OBVIOUS
<1> HIDE DEF x
<1>3. Inside(b, R, O, V) /\ x.names \subseteq R /\ f \in x.names
  BY <1>x, ScopeOf DEF Sound
<1>4. Typed(b) /\ Typed(a) /\ Lasts(b, a)
  BY <1>x DEF Sound
<1>5. Frame(b, a, R, O, V) /\ Whole(a, {}, {}) /\ Follows(a, {})
  BY <1>x DEF Scoped
<1>6. Agree(n, b, R, O, V)
  BY <1>x DEF Agrees
<1>7. a.fresh <= n.fresh /\ m.fresh = n.fresh
  BY <1>x, <1>y DEF Current, Overlay
<1> HIDE DEF b, a, R, O, V
<1>8. Joined(a, n, m, R, O, V)
  BY <1>1, <1>3, <1>4, <1>5, <1>6, <1>y, OverlayJoined
<1>9. Whole(m, {}, {})
  BY <1>1, <1>2, <1>3, <1>4, <1>5, <1>6, <1>7, <1>8, JoinedWhole
<1>10. Follows(m, {})
  BY <1>1, <1>2, <1>3, <1>4, <1>5, <1>6, <1>8, JoinedFollows
<1>11. /\ z \in [Files -> {"classify", "relate", "derive"}]
       /\ \A g \in Files \ {f} : z[g] = u[g]
       /\ u[f] = x.kind /\ x.kind \in {"relate", "classify"}
  BY <1>1, <1>x DEF x, Current, Sound
<1>12. /\ \A y : y # f => (y \in m.assigned <=> y \in n.assigned)
       /\ x.kind = "relate" => m.assigned = n.assigned
       /\ \A i : Waits(m, i) => Waits(n, i) \/ (x.kind = "relate" /\ i.target \in x.names
                                                /\ i.target \notin b.assigned)
       /\ x.kind = "classify" => \A i : Waits(m, i) =>
             Waits(n, i) /\ (i \in b.intents => i.target # f)
  <2>1. Overlay(x.before, x.after, n, m)
    BY <1>y DEF b, a
  <2>2. Waited(f, x, n, m)
    BY <1>x, <2>1, OverlayWaits
  <2> QED
    BY <2>2 DEF Waited, b
<1>13. Delivers(m, z)
  <2> SUFFICES ASSUME NEW i, Waits(m, i), i.target \in m.assigned PROVE z[i.target] = "classify"
    BY DEF Delivers
  <2>1. i.target \in Files
    BY DEF Typed, Rows
  <2>2. CASE x.kind = "relate"
    <3>1. i.target \in n.assigned
      BY <1>12, <2>2
    <3>2. i.target \in x.names => i.target \in b.assigned
      BY <1>3, <1>6, <3>1 DEF Agree
    <3>3. Waits(n, i)
      BY <1>12, <3>2
    <3>4. u[i.target] = "classify"
      BY <1>2, <3>1, <3>3 DEF Delivers
    <3>5. i.target # f
      BY <1>11, <2>2, <3>4
    <3> QED
      BY <1>11, <2>1, <3>4, <3>5
  <2>3. CASE x.kind = "classify"
    <3>1. Waits(n, i) /\ (i \in b.intents => i.target # f)
      BY <1>12, <2>3
    <3>2. i.target # f
      BY <1>3, <1>6, <3>1 DEF Agree
    <3>3. i.target \in n.assigned
      BY <1>12, <3>2
    <3>4. u[i.target] = "classify"
      BY <1>2, <3>1, <3>3 DEF Delivers
    <3> QED
      BY <1>11, <2>1, <3>2, <3>4
  <2> QED
    BY <1>11, <2>2, <2>3
<1>14. ASSUME NEW g \in Files, z[g] # "derive" PROVE m.derived[g] = 0
  <2>1. u[g] # "derive"
    BY <1>11, <1>14
  <2>2. n.derived[g] = 0
    BY <1>2, <2>1
  <2>3. CASE g \in R
    <3>1. b.derived[g] = 0
      BY <1>6, <2>2, <2>3 DEF Agree
    <3>2. a.derived[g] = 0
      BY <1>4, <3>1 DEF Lasts
    <3> QED
      BY <1>8, <2>3, <3>2 DEF Joined
  <2>4. CASE g \notin R
    BY <1>8, <2>2, <2>4 DEF Joined
  <2> QED
    BY <2>3, <2>4
<1>15. /\ \A g \in Files \ {f} : w[g] = t[g]
       /\ Flying(w) \subseteq Flying(t) \ {f}
  <2>1. w = [t EXCEPT ![f] = Idle]
    OBVIOUS
  <2>2. w[f] = Idle /\ \A g \in Files \ {f} : w[g] = t[g]
    BY <1>1, <2>1
  <2> QED
    BY <2>2 DEF Flying
<1>16. ASSUME NEW g \in Flying(w) PROVE Scoped(w[g]) /\ Orderly(g, w[g]) /\ Agrees(m, w[g])
  <2> DEFINE y == t[g]
  <2>1. w[g] = y /\ g \in Flying(t) /\ g # f /\ g \in Files
    BY <1>15, <1>16 DEF Flying
  <2>2. Sound(g, y) /\ Scoped(y) /\ Orderly(g, y) /\ Agrees(n, y)
    BY <1>1, <1>2, <2>1
  <2>3. Apart(x, y)
    BY <1>2, <2>1 DEF x
  <2> HIDE DEF y
  <2>4. Inside(y.before, TheFiles(y), TheDocs(y), TheVersions(y))
    BY <2>2, ScopeOf
  <2>5. R \intersect TheFiles(y) = {} /\ O \intersect TheDocs(y) = {} /\ V \intersect TheVersions(y) = {}
    BY <2>3 DEF Apart, R, O, V
  <2>6. \A q \in Files \ R : q \in m.assigned <=> q \in n.assigned
    BY <1>3, <1>12
  <2>7. \A i : Waits(m, i) /\ i.target \notin R => Waits(n, i)
    BY <1>3, <1>12
  <2>8. Agree(n, y.before, TheFiles(y), TheDocs(y), TheVersions(y))
    BY <2>2 DEF Agrees
  <2>9. Agree(m, y.before, TheFiles(y), TheDocs(y), TheVersions(y))
    BY <1>3, <1>5, <1>8, <2>4, <2>5, <2>6, <2>7, <2>8, JoinedAgree
  <2> QED
    BY <2>1, <2>2, <2>9 DEF Agrees
<1>17. \A g, h \in Flying(w) : g # h => Apart(w[g], w[h])
  BY <1>2, <1>15 DEF Flying
<1> QED
  BY <1>9, <1>10, <1>13, <1>14, <1>16, <1>17 DEF Calm

(* A transaction commits.                                                  *)
LEMMA CommitState ==
    ASSUME NEW n, NEW u, NEW t, NEW s, State(n, u, t, s), NEW f \in Flying(t),
           NEW m, Overlay(t[f].before, t[f].after, n, m), Linked(m),
           NEW z, z = [u EXCEPT ![f] = IF t[f].kind = "classify" THEN "relate" ELSE "derive"],
           NEW w, w = [t EXCEPT ![f] = Idle]
    PROVE  State(m, z, w, s)
<1> DEFINE x == t[f]
           b == x.before
           a == x.after
<1>1. /\ Typed(n) /\ DOMAIN t = Files /\ u \in [Files -> {"classify", "relate", "derive"}]
      /\ \A g \in Files : u[g] = "derive" => n.link[g] # 0
      /\ \A g \in Flying(t) : Sound(g, t[g]) /\ Current(n, u, g, t[g])
      /\ s \in BOOLEAN /\ f \in Files
  BY DEF State, Flying
<1>2. Sound(f, x) /\ Current(n, u, f, x)
  BY <1>1
<1>y. Overlay(b, a, n, m)
  OBVIOUS
<1>z. z = [u EXCEPT ![f] = IF x.kind = "classify" THEN "relate" ELSE "derive"] /\ w = [t EXCEPT ![f] = Idle]
  OBVIOUS
<1> HIDE DEF x
<1>3. Typed(b) /\ Typed(a) /\ Lasts(b, a)
  BY <1>2 DEF Sound
<1>4. \A y \in Files : b.link[y] # 0 => n.link[y] # 0
  BY <1>2 DEF Current
<1>k. x.kind = "relate" => a.link[f] # 0
  BY <1>2 DEF Sound
<1> HIDE DEF b, a
<1>5. Typed(m)
  BY <1>1, <1>3, <1>y, OverlayTyped
<1>6. \A y \in Files : m.link[y] = IF a.link[y] # b.link[y] THEN a.link[y] ELSE n.link[y]
  BY <1>1, <1>3, <1>y, OverlayWritten DEF Written
<1>7. \A y \in Files : (n.link[y] # 0 => m.link[y] # 0) /\ (a.link[y] # 0 => m.link[y] # 0)
  BY <1>3, <1>4, <1>6 DEF Lasts
<1>8. /\ z \in [Files -> {"classify", "relate", "derive"}]
      /\ \A g \in Files \ {f} : z[g] = u[g]
      /\ z[f] = "derive" => x.kind = "relate"
      /\ DOMAIN w = Files /\ \A g \in Files \ {f} : w[g] = t[g]
      /\ Flying(w) \subseteq Flying(t) \ {f}
  <2>1. x.kind \in {"relate", "classify"}
    BY <1>2 DEF Sound
  <2>2. w[f] = Idle /\ \A g \in Files \ {f} : w[g] = t[g]
    BY <1>1, <1>z
  <2> QED
    BY <1>1, <1>z, <2>1, <2>2 DEF Flying
<1>9. ASSUME NEW g \in Files, z[g] = "derive" PROVE m.link[g] # 0
  BY <1>1, <1>k, <1>7, <1>8, <1>9
<1>f. m.fresh = n.fresh
  BY <1>y DEF Overlay
<1>10. ASSUME NEW g \in Flying(w) PROVE Sound(g, w[g]) /\ Current(m, z, g, w[g])
  <2>1. g \in Flying(t) /\ g # f /\ g \in Files /\ w[g] = t[g] /\ z[g] = u[g]
    BY <1>8, <1>10 DEF Flying
  <2>2. Sound(g, t[g]) /\ Current(n, u, g, t[g])
    BY <1>1, <2>1
  <2>3. Current(m, z, g, t[g])
    BY <1>7, <1>f, <2>1, <2>2 DEF Current
  <2> QED
    BY <2>1, <2>2, <2>3
<1>11. ASSUME ~ s PROVE Calm(m, z, w)
  <2>1. s = FALSE
    BY <1>1, <1>11
  <2>2. State(n, u, t, FALSE)
    BY <2>1
  <2> QED
    BY <1>5, <2>2, CommitCalm
<1> QED
  BY <1>1, <1>5, <1>8, <1>9, <1>10, <1>11 DEF State

Elsewhere(u, z, f) == \A g \in Files \ {f} : z[g] = u[g]

(* What is derived for a file, or forgotten, outside every scope.          *)
LEMMA DerivedState ==
    ASSUME NEW n, NEW u, NEW t, NEW s, State(n, u, t, s),
           NEW f \in Files, t[f] = Idle, u[f] = "derive",
           NEW e, e = 0 \/ e = n.doc[n.link[f]],
           NEW m, Shaped(m), SameRows(n, m), SameEdges(n, m), SameMarks(n, m),
           m.intents = n.intents, m.assigned = n.assigned, m.derived = Put(n.derived, f, e),
           NEW z \in [Files -> {"classify", "relate", "derive"}],
           Elsewhere(u, z, f), z[f] = "derive" \/ e = 0,
           NEW v \in BOOLEAN,
           ~ v => ~ s /\ Clear(n, t, {f})
    PROVE  State(m, z, t, v)
<1>1. /\ Typed(n) /\ DOMAIN t = Files /\ u \in [Files -> {"classify", "relate", "derive"}]
      /\ \A g \in Files : u[g] = "derive" => n.link[g] # 0
      /\ \A g \in Flying(t) : Sound(g, t[g]) /\ Current(n, u, g, t[g])
  BY DEF State
<1>2. n.link[f] # 0 /\ n.link[f] \in Ids /\ e \in 0 .. MaxIds
  BY <1>1, BoundsAssumption DEF Typed, Rows, Ids
<1>3. /\ m.derived \in [Files -> 0 .. MaxIds] /\ m.derived[f] = e
      /\ \A g \in Files \ {f} : m.derived[g] = n.derived[g]
  BY <1>1, <1>2 DEF Typed, Rows, Put
<1>4. Typed(m)
  BY <1>1, <1>3 DEF Typed, Rows, Linked, Marks, Filed, SameRows, SameEdges, SameMarks
<1>5. \A g \in Flying(t) : g # f /\ z[g] = u[g]
  BY DEF Flying, Elsewhere
<1>6. \A g \in Flying(t) : Sound(g, t[g]) /\ Current(m, z, g, t[g])
  BY <1>1, <1>5 DEF Current, SameRows
<1>7. \A g \in Files : z[g] = "derive" => m.link[g] # 0
  BY <1>1, <1>2 DEF SameRows, Elsewhere
<1>8. ASSUME ~ v PROVE Calm(m, z, t)
  <2>1. /\ Whole(n, {}, {}) /\ Follows(n, {}) /\ Delivers(n, u)
        /\ \A g \in Files : u[g] # "derive" => n.derived[g] = 0
        /\ \A g \in Flying(t) : Scoped(t[g]) /\ Orderly(g, t[g]) /\ Agrees(n, t[g])
        /\ \A g, h \in Flying(t) : g # h => Apart(t[g], t[h])
    BY <1>8 DEF State, Calm
  <2>2. Whole(m, {}, {})
    BY <2>1 DEF Whole, SameRows, SameEdges, SameMarks
  <2>3. Follows(m, {})
    BY <1>2, <1>3, <2>1 DEF Follows, SameRows
  <2>4. Delivers(m, z)
    <3> SUFFICES ASSUME NEW i, Waits(m, i), i.target \in m.assigned PROVE z[i.target] = "classify"
      BY DEF Delivers
    <3>1. i.target \in Files /\ u[i.target] = "classify"
      BY <1>1, <2>1 DEF Delivers, Waits, Typed, Rows
    <3> QED
      BY <3>1 DEF Elsewhere
  <2>5. \A g \in Files : z[g] # "derive" => m.derived[g] = 0
    BY <1>3, <2>1 DEF Elsewhere
  <2>6. ASSUME NEW g \in Flying(t) PROVE Agrees(m, t[g])
    <3> DEFINE x == t[g]
    <3>1. Region(n, x.names) \intersect Region(n, {f}) = {}
      BY <1>8 DEF Clear
    <3>2. Sound(g, x) /\ Current(n, u, g, x) /\ Scoped(x) /\ Agrees(n, x)
      BY <1>1, <2>1
    <3> HIDE DEF x
    <3>3. x.names \subseteq Files /\ Typed(x.before) /\ Whole(x.before, {}, {})
          /\ x.before.fresh <= x.after.fresh /\ x.after.fresh \in Nat /\ x.after.fresh <= n.fresh
      BY <3>2 DEF Sound, Scoped, Current, Lasts, Typed, Shaped
    <3>4. TheFiles(x) \intersect Region(n, {f}) = {}
      BY <1>1, <2>1, <3>1, <3>2, <3>3, ScopesApart
    <3>5. f \notin TheFiles(x) /\ TheFiles(x) \subseteq Files
      BY <3>2, <3>4, ScopeOf DEF Region
    <3>6. Agrees(m, x)
      <4> DEFINE R == TheFiles(x)
      <4>1. \A y \in R : m.derived[y] = n.derived[y]
        BY <1>3, <3>5
      <4>2. \A i : Waits(m, i) <=> Waits(n, i)
        BY DEF Waits
      <4> QED
        BY <3>2, <4>1, <4>2 DEF Agrees, Agree, SameRows, SameEdges, SameMarks
    <3> QED
      BY <3>6 DEF x
  <2> QED
    BY <2>1, <2>2, <2>3, <2>4, <2>5, <2>6 DEF Calm
<1> QED
  BY <1>1, <1>4, <1>6, <1>7, <1>8 DEF State

LEMMA RollBackState ==
    ASSUME NEW n, NEW u, NEW t, NEW s, State(n, u, t, s), NEW f \in Files,
           NEW w, w = [t EXCEPT ![f] = Idle]
    PROVE  State(n, u, w, s)
<1>1. DOMAIN w = Files /\ \A g \in Flying(w) : g \in Flying(t) /\ w[g] = t[g]
  BY DEF State, Flying
<1> QED
  BY <1>1 DEF State, Calm

(***************************************************************************)
(* The inductive invariant of the specification                            *)
(***************************************************************************)
IInv == State(Tables, due, tx, disturbed)

LEMMA NearRegion == ASSUME NEW L PROVE Near(L) = Region(Tables, L)
<1>1. \A x : Home(Tables, x) = IF link[x] = 0 THEN 0 ELSE doc[link[x]]
  BY DEF Home, Tables
<1> QED
  BY <1>1 DEF Near, Region, Homes

LEMMA InitState == Init => IInv
<1> SUFFICES ASSUME Init PROVE IInv
  OBVIOUS
<1>1. /\ Shaped(Tables) /\ Tables.link = [x \in Files |-> 0] /\ Tables.derived = [x \in Files |-> 0]
      /\ Tables.doc = [x \in Ids |-> 0] /\ Tables.ord = [x \in Ids |-> 0]
      /\ Tables.crown = [x \in Ids |-> 0] /\ Tables.final = {} /\ Tables.docs = {}
      /\ Tables.intents = {} /\ Tables.assigned = {} /\ Tables.supersedes = <<>>
      /\ Tables.refers = <<>> /\ Tables.fresh = 1
  BY DEF Init, Tables, Shaped, Fields
<1> DEFINE n == Tables
<1> HIDE DEF n
<1>2. 0 \in 0 .. MaxIds /\ 1 \in 1 .. MaxIds /\ DOMAIN (<<>>) = {}
  BY BoundsAssumption
<1>3. Rows(Tables)
  BY <1>1, <1>2 DEF Rows, Linked
<1>4. Marks(Tables)
  BY <1>1, <1>2 DEF Marks
<1>5. Filed(Tables) /\ Ends(Tables.supersedes) /\ Ends(Tables.refers)
  BY <1>1, <1>2, FS_EmptySet DEF Filed, Ends
<1>6. Typed(Tables)
  BY <1>1, <1>3, <1>4, <1>5 DEF Typed
<1>7. /\ due = [f \in Files |-> "classify"] /\ tx = [f \in Files |-> Idle] /\ disturbed = FALSE
  BY DEF Init
<1>8. Flying(tx) = {}
  BY <1>7 DEF Flying
<1>9. Whole(Tables, {}, {}) /\ Follows(Tables, {}) /\ Delivers(Tables, due)
  BY <1>1, <1>2 DEF Whole, Follows, Delivers, Waits
<1>10. Calm(Tables, due, tx)
  BY <1>1, <1>8, <1>9 DEF Calm
<1> QED
  BY <1>6, <1>7, <1>8, <1>10 DEF IInv, State

(* The same tables, but for the next identifier.                           *)
LEMMA TablesKnown ==
    ASSUME UNCHANGED knowledge
    PROVE  SameKnown(Tables, Tables')
BY DEF knowledge, Tables, SameKnown, SameEdges, SameMarks

LEMMA NoneNear ==
    ASSUME NEW STATE L, ~ Overlaps(L)
    PROVE  Clear(Tables, tx, L)
BY NearRegion DEF Overlaps, Flying, InFlight, Clear

LEMMA RelateStep == ASSUME IInv, NEW f \in Files, RelateBegins(f) PROVE IInv'
<1>1. PICK a \in Statements :
        /\ f \notin {a.of, a.refers}
        /\ Begins(f, "relate", Named(f, a), Named(f, a), Materialized(Tables, f, a))
  BY DEF RelateBegins
<1> DEFINE r == Materialized(Tables, f, a)
           x == [kind |-> "relate", locks |-> Named(f, a), names |-> Named(f, a),
                 before |-> Tables, after |-> r]
<1>2. State(Tables, due, tx, disturbed) /\ Typed(Tables) /\ disturbed \in BOOLEAN
  BY DEF IInv, State
<1>3. /\ due[f] = "relate" /\ r.fresh <= MaxIds
      /\ tx' = [tx EXCEPT ![f] = x] /\ fresh' = r.fresh
      /\ disturbed' = (disturbed \/ Overlaps(Named(f, a)))
      /\ UNCHANGED knowledge /\ due' = due
  BY <1>1 DEF RelateBegins, Begins
<1>4. /\ x.kind = "relate" /\ x.names = Named(f, a) /\ x.before = Tables
      /\ x.after = r
  OBVIOUS
<1>r. r = Materialized(Tables, f, a)
  OBVIOUS
<1> HIDE DEF r, x
<1>5. /\ Sound(f, x)
      /\ Whole(Tables, {}, {}) /\ Follows(Tables, {}) /\ Tables.derived[f] = 0 => Scoped(x) /\ Orderly(f, x)
  <2>1. x.after = Materialized(Tables, f, a) /\ x.after.fresh <= MaxIds
    BY <1>3, <1>4, <1>r
  <2> QED
    BY <1>1, <1>2, <1>4, <2>1, RelateSound
<1>6. SameKnown(Tables, Tables') /\ Shaped(Tables') /\ Tables'.fresh = x.after.fresh
  <2>1. fresh' \in Nat
    BY <1>3, <1>4, <1>5 DEF Sound, Typed, Shaped
  <2> QED
    BY <1>3, <1>4, <2>1, TablesKnown DEF Tables, Shaped, Fields
<1>7. /\ disturbed' \in BOOLEAN
      /\ ~ disturbed' => ~ disturbed /\ Clear(Tables, tx, x.names)
  BY <1>2, <1>3, <1>4, NoneNear DEF Overlaps
<1>8. State(Tables', due, tx', disturbed')
  BY <1>2, <1>3, <1>4, <1>5, <1>6, <1>7, BeginState
<1> QED
  BY <1>3, <1>8 DEF IInv

LEMMA ClassifyStep == ASSUME IInv, NEW f \in Files, ClassifyBegins(f) PROVE IInv'
<1> DEFINE waiting == PendingOn(Tables, f)
           locks == IF waiting = {} THEN {} ELSE {f} \union {i.origin : i \in waiting}
           j == [Tables EXCEPT !.assigned = @ \union {f}]
<1>1. PICK order \in SetToSeqs(waiting) :
        Begins(f, "classify", locks, {f} \union locks, Replays(j, order))
  BY DEF ClassifyBegins
<1> DEFINE r == Replays(j, order)
           x == [kind |-> "classify", locks |-> locks, names |-> {f} \union locks,
                 before |-> Tables, after |-> r]
<1>2. State(Tables, due, tx, disturbed) /\ Typed(Tables) /\ disturbed \in BOOLEAN
  BY DEF IInv, State
<1>3. /\ due[f] = "classify" /\ r.fresh <= MaxIds
      /\ tx' = [tx EXCEPT ![f] = x] /\ fresh' = r.fresh
      /\ disturbed' = (disturbed \/ Overlaps({f} \union locks))
      /\ UNCHANGED knowledge /\ due' = due
  BY <1>1 DEF ClassifyBegins, Begins
<1>4. /\ x.kind = "classify" /\ x.names = {f} \union locks /\ x.before = Tables
      /\ x.after = r
  OBVIOUS
<1>n. {f} \union locks = Asked(Tables, f)
  BY DEF Asked
<1>r. r = Replays(j, order)
  OBVIOUS
<1>j. j = [Tables EXCEPT !.assigned = @ \union {f}] /\ order \in SetToSeqs(PendingOn(Tables, f))
  OBVIOUS
<1> HIDE DEF r, x, j, locks
<1>5. /\ Sound(f, x)
      /\ Whole(Tables, {}, {}) /\ Follows(Tables, {}) => Scoped(x) /\ Orderly(f, x)
  <2>1. /\ x.after = Replays(j, order) /\ x.after.fresh <= MaxIds
        /\ x.names = Asked(Tables, f)
    BY <1>3, <1>4, <1>r, <1>n
  <2> QED
    BY <1>j, <1>2, <1>4, <2>1, ClassifySound
<1>6. SameKnown(Tables, Tables') /\ Shaped(Tables') /\ Tables'.fresh = x.after.fresh
  <2>1. fresh' \in Nat
    BY <1>3, <1>4, <1>5 DEF Sound, Typed, Shaped
  <2> QED
    BY <1>3, <1>4, <2>1, TablesKnown DEF Tables, Shaped, Fields
<1>7. /\ disturbed' \in BOOLEAN
      /\ ~ disturbed' => ~ disturbed /\ Clear(Tables, tx, x.names)
  BY <1>2, <1>3, <1>4, NoneNear DEF Overlaps
<1>8. State(Tables', due, tx', disturbed')
  BY <1>2, <1>3, <1>4, <1>5, <1>6, <1>7, BeginState
<1> QED
  BY <1>3, <1>8 DEF IInv

LEMMA CommitStep == ASSUME IInv, NEW f \in Files, Commits(f) PROVE IInv'
<1> DEFINE b == tx[f].before
           a == tx[f].after
<1>1. State(Tables, due, tx, disturbed) /\ f \in Flying(tx) /\ Typed(Tables)
  BY DEF IInv, State, Commits, Flying
<1>2. Overlay(b, a, Tables, Tables')
  <2>1. fresh' = fresh /\ fresh \in Nat
    BY <1>1 DEF Commits, Typed, Shaped, Tables
  <2> QED
    BY <2>1 DEF Commits, Overlay, Tables, Shaped, Fields
<1>3. Linked(Tables')
  BY DEF Commits, Permitted, Linked, Tables
<1>4. /\ due' = [due EXCEPT ![f] = IF tx[f].kind = "classify" THEN "relate" ELSE "derive"]
      /\ tx' = [tx EXCEPT ![f] = Idle] /\ disturbed' = disturbed
  BY DEF Commits
<1>5. State(Tables', due', tx', disturbed)
  BY <1>1, <1>2, <1>3, <1>4, CommitState
<1> QED
  BY <1>4, <1>5 DEF IInv

LEMMA RollBackStep == ASSUME IInv, NEW f \in Files, RollsBack(f) PROVE IInv'
<1>1. /\ tx' = [tx EXCEPT ![f] = Idle] /\ Tables' = Tables /\ due' = due /\ disturbed' = disturbed
  BY DEF RollsBack, Tables, knowledge
<1>2. State(Tables, due, tx', disturbed)
  BY <1>1, RollBackState DEF IInv
<1> QED
  BY <1>1, <1>2 DEF IInv

LEMMA DeriveStep == ASSUME IInv, NEW f \in Files, Derives(f) PROVE IInv'
<1>1. State(Tables, due, tx, disturbed) /\ Typed(Tables) /\ disturbed \in BOOLEAN
      /\ due \in [Files -> {"classify", "relate", "derive"}]
  BY DEF IInv, State
<1>2. /\ due[f] = "derive" /\ tx[f] = Idle /\ due' = due /\ tx' = tx
      /\ disturbed' = (disturbed \/ Overlaps({f}))
  BY DEF Derives
<1>3. /\ SameRows(Tables, Tables') /\ SameEdges(Tables, Tables') /\ SameMarks(Tables, Tables')
      /\ Tables'.intents = Tables.intents /\ Tables'.assigned = Tables.assigned
      /\ Tables'.derived = Put(Tables.derived, f, Tables.doc[Tables.link[f]])
  BY DEF Derives, Tables, SameRows, SameEdges, SameMarks, Put
<1>4. Shaped(Tables')
  BY <1>1 DEF Derives, Tables, Typed, Shaped, Fields
<1>5. /\ disturbed' \in BOOLEAN
      /\ ~ disturbed' => ~ disturbed /\ Clear(Tables, tx, {f})
  BY <1>1, <1>2, NoneNear DEF Overlaps
<1>6. State(Tables', due, tx, disturbed')
  <2>1. Elsewhere(due, due, f)
    BY DEF Elsewhere
  <2> QED
    BY <1>1, <1>2, <1>3, <1>4, <1>5, <2>1, DerivedState
<1> QED
  BY <1>2, <1>6 DEF IInv

LEMMA PutBackStep ==
    ASSUME IInv, NEW f \in Files, NEW step \in {"classify", "relate"}, PutsBack(f, step) PROVE IInv'
<1>1. State(Tables, due, tx, disturbed) /\ Typed(Tables) /\ disturbed \in BOOLEAN
      /\ due \in [Files -> {"classify", "relate", "derive"}]
  BY DEF IInv, State
<1>2. /\ due[f] = "derive" /\ tx[f] = Idle /\ tx' = tx /\ due' = [due EXCEPT ![f] = step]
      /\ disturbed' = (disturbed \/ Overlaps({f}))
  BY DEF PutsBack
<1>3. /\ SameRows(Tables, Tables') /\ SameEdges(Tables, Tables') /\ SameMarks(Tables, Tables')
      /\ Tables'.intents = Tables.intents /\ Tables'.assigned = Tables.assigned
      /\ Tables'.derived = Put(Tables.derived, f, 0)
  BY DEF PutsBack, Tables, SameRows, SameEdges, SameMarks, Put
<1>4. Shaped(Tables')
  BY <1>1 DEF PutsBack, Tables, Typed, Shaped, Fields
<1>5. /\ disturbed' \in BOOLEAN
      /\ ~ disturbed' => ~ disturbed /\ Clear(Tables, tx, {f})
  BY <1>1, <1>2, NoneNear DEF Overlaps
<1>6. due' \in [Files -> {"classify", "relate", "derive"}] /\ Elsewhere(due, due', f)
  BY <1>1, <1>2 DEF Elsewhere
<1>7. State(Tables', due', tx, disturbed')
  BY <1>1, <1>2, <1>3, <1>4, <1>5, <1>6, DerivedState
<1> QED
  BY <1>2, <1>7 DEF IInv

(* Every step keeps the inductive invariant.                               *)
LEMMA Step == IInv /\ [Next]_vars => IInv'
<1> SUFFICES ASSUME IInv, [Next]_vars PROVE IInv'
  OBVIOUS
<1>1. CASE UNCHANGED vars
  BY <1>1 DEF vars, IInv, Tables
<1>2. CASE Next
  <2>1. PICK f \in Files :
          \/ RelateBegins(f) \/ ClassifyBegins(f) \/ Commits(f) \/ RollsBack(f) \/ Derives(f)
          \/ \E step \in {"classify", "relate"} : PutsBack(f, step)
    BY <1>2 DEF Next
  <2> QED
    BY <2>1, RelateStep, ClassifyStep, CommitStep, RollBackStep, DeriveStep, PutBackStep
<1> QED
  BY <1>1, <1>2

LEMMA Invariant == Spec => []IInv
BY InitState, Step, PTL DEF Spec

(* Every link leads to a version that is there and the tables, the stages  *)
(* and the counters have their types: TypeOK.                              *)
THEOREM TypeCorrect == Spec => []TypeOK
<1>1. IInv => TypeOK
  <2> SUFFICES ASSUME IInv PROVE TypeOK
    OBVIOUS
  <2>1. Typed(Tables) /\ due \in [Files -> {"classify", "relate", "derive"}]
        /\ DOMAIN tx = Files /\ disturbed \in BOOLEAN
    BY DEF IInv, State
  <2>2. /\ link \in [Files -> 0 .. MaxIds] /\ derived \in [Files -> 0 .. MaxIds]
        /\ doc \in [Ids -> 0 .. MaxIds] /\ docs \subseteq Ids /\ assigned \subseteq Files
        /\ fresh \in 1 .. MaxIds
    BY <2>1 DEF Typed, Rows, Tables
  <2>3. ord \in [Ids -> Nat] /\ crown \in [Ids -> 0 .. MaxIds] /\ final \subseteq Ids
    BY <2>1 DEF Typed, Marks, Tables
  <2>4. \A edges \in {supersedes, refers} : \A r \in DOMAIN edges : {r, edges[r]} \subseteq Ids \X Ids
    <3>1. Ends(supersedes) /\ Ends(refers)
      BY <2>1 DEF Typed, Tables
    <3> QED
      BY <3>1 DEF Ends
  <2>5. \A i \in intents : i.origin \in Files /\ i.target \in Files /\ i.status \in {"pending", "applied"}
    BY <2>1 DEF Typed, Filed, Intents, Tables
  <2> QED
    BY <2>1, <2>2, <2>3, <2>4, <2>5 DEF TypeOK
<1> QED
  BY <1>1, Invariant, PTL

(* As long as no two transactions on one document overlapped, every        *)
(* version is observed at some file and every document has a version.      *)
THEOREM NoHusks == Spec => []UndisturbedNoHusks
<1>1. IInv => UndisturbedNoHusks
  <2> SUFFICES ASSUME IInv, ~ disturbed PROVE UndisturbedNoHusks
    BY DEF UndisturbedNoHusks
  <2>1. Whole(Tables, {}, {})
    BY DEF IInv, State, Calm
  <2>2. \A v \in Ids : doc[v] # 0 => \E x \in Files : Tables.link[x] = v
    BY <2>1 DEF Whole, Tables
  <2>3. \A d \in docs : \E v \in Ids : Tables.doc[v] = d
    BY <2>1 DEF Whole, Tables
  <2> QED
    BY <2>2, <2>3 DEF UndisturbedNoHusks, Sources, Chain
<1> QED
  BY <1>1, Invariant, PTL

(* And every edge joins rows that exist, whatever has been repointed.      *)
THEOREM EdgesHold == Spec => []UndisturbedEdges
<1>1. IInv => UndisturbedEdges
  <2> SUFFICES ASSUME IInv, ~ disturbed PROVE UndisturbedEdges
    BY DEF UndisturbedEdges
  <2>1. Whole(Tables, {}, {})
    BY DEF IInv, State, Calm
  <2>2. /\ \A q \in DOMAIN supersedes : doc[supersedes[q][1]] # 0 /\ doc[supersedes[q][2]] # 0
        /\ \A q \in DOMAIN refers : refers[q][1] \in docs /\ refers[q][2] \in docs
    BY <2>1 DEF Whole, Tables
  <2> QED
    BY <2>2 DEF UndisturbedEdges, Range
<1> QED
  BY <1>1, Invariant, PTL

(* And what was derived for a file names the document it belongs to.       *)
THEOREM DerivedFollows == Spec => []UndisturbedDerived
<1>1. IInv => UndisturbedDerived
  <2> SUFFICES ASSUME IInv, ~ disturbed PROVE UndisturbedDerived
    BY DEF UndisturbedDerived
  <2>1. Follows(Tables, {})
    BY DEF IInv, State, Calm
  <2> QED
    BY <2>1 DEF Follows, Tables, UndisturbedDerived
<1> QED
  BY <1>1, Invariant, PTL

(* And no decision is left waiting for a file that has its matter.         *)
THEOREM DeliveredAll == Spec => []UndisturbedDelivered
<1>1. IInv => UndisturbedDelivered
  <2> SUFFICES ASSUME IInv, ~ disturbed PROVE UndisturbedDelivered
    BY DEF UndisturbedDelivered
  <2>1. Delivers(Tables, due)
    BY DEF IInv, State, Calm
  <2> QED
    BY <2>1 DEF Delivers, Waits, Tables, UndisturbedDelivered
<1> QED
  BY <1>1, Invariant, PTL

(* A commit leaves two versions of a chain in their order, when it takes   *)
(* neither out of it and neither is the one of its own file.               *)
LEMMA CommitOrdered ==
    ASSUME NEW n, NEW u, NEW t, State(n, u, t, FALSE), NEW f \in Flying(t),
           NEW m, Overlay(t[f].before, t[f].after, n, m),
           NEW v \in Ids, NEW w \in Ids, Strict(n, v, w), n.link[f] \notin {v, w},
           m.doc[v] = n.doc[v], m.doc[w] = n.doc[w]
    PROVE  m.ord[v] < m.ord[w]
<1> DEFINE x == t[f]
           b == x.before
           a == x.after
           R == TheFiles(x)
           O == TheDocs(x)
           V == TheVersions(x)
<1>1. Typed(n) /\ f \in Files
  BY DEF State, Flying
<1>x. Sound(f, x) /\ Scoped(x) /\ Orderly(f, x) /\ Agrees(n, x)
  BY DEF State, Calm
<1>y. Overlay(b, a, n, m)
  OBVIOUS
<1> HIDE DEF x
<1>2. Inside(b, R, O, V) /\ x.names \subseteq R /\ f \in x.names
  BY <1>x, ScopeOf DEF Sound
<1>3. Typed(b) /\ Typed(a) /\ Frame(b, a, R, O, V) /\ Agree(n, b, R, O, V)
  BY <1>x DEF Sound, Scoped, Agrees
<1>4. \A q, p \in Ids \ {b.link[f]} :
        Strict(b, q, p) /\ a.doc[q] = b.doc[q] /\ a.doc[p] = b.doc[p] => Strict(a, q, p)
  BY <1>x DEF Orderly
<1> HIDE DEF b, a, R, O, V
<1>5. Joined(a, n, m, R, O, V)
  BY <1>1, <1>2, <1>3, <1>y, OverlayJoined
<1>6. b.link[f] = n.link[f]
  BY <1>2, <1>3 DEF Agree
<1>7. n.doc[v] # 0 /\ n.doc[v] = n.doc[w] /\ n.ord[v] < n.ord[w]
  BY DEF Strict
<1>8. ASSUME NEW p \in V, NEW q \in Ids, n.doc[p] = n.doc[v], n.doc[q] = n.doc[v] PROVE q \in V
  <2>1. b.doc[p] \in O \union {0} /\ n.doc[p] = b.doc[p]
    BY <1>2, <1>3 DEF Inside, Agree
  <2>2. n.doc[q] \in O
    BY <1>7, <1>8, <2>1
  <2> QED
    BY <1>3, <2>2 DEF Agree
<1>9. CASE v \in V
  <2>1. w \in V
    BY <1>7, <1>8, <1>9
  <2>2. /\ n.doc[v] = b.doc[v] /\ n.ord[v] = b.ord[v]
        /\ n.doc[w] = b.doc[w] /\ n.ord[w] = b.ord[w]
    BY <1>3, <1>9, <2>1 DEF Agree
  <2>3. /\ m.doc[v] = a.doc[v] /\ m.ord[v] = a.ord[v]
        /\ m.doc[w] = a.doc[w] /\ m.ord[w] = a.ord[w]
    BY <1>5, <1>9, <2>1 DEF Joined
  <2>4. Strict(b, v, w)
    BY <2>2 DEF Strict
  <2>5. Strict(a, v, w)
    BY <1>4, <1>6, <2>2, <2>3, <2>4
  <2> QED
    BY <2>3, <2>5 DEF Strict
<1>10. CASE v \notin V
  <2>1. w \notin V
    BY <1>7, <1>8, <1>10
  <2> QED
    BY <1>5, <1>7, <1>10, <2>1 DEF Joined
<1> QED
  BY <1>9, <1>10

LEMMA StepOrdered ==
    ASSUME IInv, Next, ~ disturbed', NEW v \in Ids, NEW w \in Ids,
           doc[v] = doc[w], doc'[v] = doc[v], doc'[w] = doc[w], doc[v] # 0,
           \A f \in Sources(Tables, v) \union Sources(Tables, w) : tx[f] = tx'[f],
           ord[v] # 0, ord[w] # 0, ord[v] < ord[w]
    PROVE  ord'[v] < ord'[w]
<1>1. CASE ord' = ord
  BY <1>1
<1>2. CASE \E f \in Files : Commits(f)
  <2>1. PICK f \in Files : Commits(f)
    BY <1>2
  <2>2. /\ tx[f] # Idle /\ tx' = [tx EXCEPT ![f] = Idle] /\ disturbed' = disturbed
    BY <2>1 DEF Commits
  <2>3. State(Tables, due, tx, FALSE) /\ Typed(Tables) /\ DOMAIN tx = Files
    <3>1. disturbed = FALSE
      BY <2>2 DEF IInv, State
    <3> QED
      BY <3>1 DEF IInv, State
  <2>4. Overlay(tx[f].before, tx[f].after, Tables, Tables')
    <3>1. fresh' = fresh /\ fresh \in Nat
      BY <2>1, <2>3 DEF Commits, Typed, Shaped, Tables
    <3> QED
      BY <2>1, <3>1 DEF Commits, Overlay, Tables, Shaped, Fields
  <2>5. f \in Flying(tx)
    BY <2>2 DEF Flying
  <2>6. Tables.link[f] \notin {v, w}
    <3>1. tx'[f] = Idle
      BY <2>2, <2>3
    <3>2. f \notin Sources(Tables, v) \union Sources(Tables, w)
      BY <2>2, <3>1
    <3> QED
      BY <3>2 DEF Sources
  <2>7. /\ Tables.doc = doc /\ Tables'.doc = doc' /\ Tables.ord = ord /\ Tables'.ord = ord'
    BY DEF Tables
  <2>8. Strict(Tables, v, w)
    <3>1. ord[v] \in Nat
      BY <2>3, <2>7 DEF Typed, Marks
    <3> QED
      BY <2>7, <3>1 DEF Strict
  <2>9. Tables'.doc[v] = Tables.doc[v] /\ Tables'.doc[w] = Tables.doc[w]
    BY <2>7
  <2>10. Tables'.ord[v] < Tables'.ord[w]
    BY <2>3, <2>4, <2>5, <2>6, <2>8, <2>9, CommitOrdered
  <2> QED
    BY <2>7, <2>10
<1>3. ord' = ord \/ \E f \in Files : Commits(f)
  BY DEF Next, RelateBegins, ClassifyBegins, Begins, RollsBack, Derives, PutsBack, knowledge
<1> QED
  BY <1>1, <1>2, <1>3

(* Placing one file never swaps two others of a chain: as long as no two   *)
(* transactions on one document overlapped, two versions that stay in it   *)
(* keep their order when another file is placed among them, leaves the     *)
(* chain or is drawn into it (_order_file_version, _renumber_chain).       *)
THEOREM ChainOrderKept == Spec => OrderKept
<1> DEFINE A == ~ disturbed' => \A v, w \in Ids :
                  /\ doc[v] = doc[w] /\ doc'[v] = doc[v] /\ doc'[w] = doc[w] /\ doc[v] # 0
                  /\ \A f \in Sources(Tables, v) \union Sources(Tables, w) : tx[f] = tx'[f]
                  /\ ord[v] # 0 /\ ord[w] # 0 /\ ord[v] < ord[w]
                  => ord'[v] < ord'[w]
<1>1. IInv /\ [Next]_vars => [A]_vars
  <2> SUFFICES ASSUME IInv, Next PROVE A
    OBVIOUS
  <2> QED
    BY StepOrdered
<1>2. OrderKept <=> [][A]_vars
  BY DEF OrderKept
<1> QED
  BY <1>1, <1>2, Invariant, PTL DEF Spec

(***************************************************************************)
(* The queue and the profile of a matter (MatterProfiles)                  *)
(***************************************************************************)
LEMMA RetriedTyped == \A t \in Progress : Retried(t) \in Progress
<1> SUFFICES ASSUME NEW t \in Progress PROVE Retried(t) \in Progress
  OBVIOUS
<1>1. CASE t.left > 0
  <2>1. t.left - 1 \in 0 .. Retries
    BY <1>1, ProfileBounds DEF Progress
  <2> QED
    BY <1>1, <2>1 DEF Retried, Progress
<1>2. CASE ~(t.left > 0)
  BY <1>2 DEF Retried, Progress
<1> QED
  BY <1>1, <1>2

LEMMA ProfileTypeStep == ProfileTypeOK /\ [ProfileNext]_profileVars => ProfileTypeOK'
<1> SUFFICES ASSUME ProfileTypeOK, [ProfileNext]_profileVars PROVE ProfileTypeOK'
  OBVIOUS
<1> USE ProfileBounds
<1>1. ASSUME NEW d \in Docs, Classifies(d) PROVE ProfileTypeOK'
  <2>1. marks + 1 \in 0 .. MaxMarks
    BY <1>1 DEF ProfileTypeOK, Classifies
  <2>2. stage' \in [Docs -> {"new", "classified", "related"}]
    BY <1>1 DEF ProfileTypeOK, Classifies
  <2> QED
    BY <1>1, <2>1, <2>2 DEF ProfileTypeOK, Classifies, Marked
<1>2. ASSUME NEW d \in Docs, Relates(d) PROVE ProfileTypeOK'
  BY <1>2 DEF ProfileTypeOK, Relates
<1>3. CASE WindowPasses
  BY <1>3 DEF ProfileTypeOK, WindowPasses
<1>4. CASE Triggers
  <2>1. row \in MatterRuns
    BY <1>4 DEF ProfileTypeOK, Triggers, MatterRuns, MatterMarks
  <2>2. run' \in [MatterRuns -> Progress]
    BY <1>4, <2>1 DEF ProfileTypeOK, Triggers, Progress
  <2> QED
    BY <1>4, <2>2 DEF ProfileTypeOK, Triggers
<1>5. CASE Sweeps
  <2>1. run' \in [MatterRuns -> Progress]
    BY <1>5 DEF ProfileTypeOK, Sweeps, Progress, MatterRuns
  <2> QED
    BY <1>5, <2>1 DEF ProfileTypeOK, Sweeps
<1>6. ASSUME NEW r \in MatterRuns, Starts(r) PROVE ProfileTypeOK'
  <2>1. run' \in [MatterRuns -> Progress]
    BY <1>6 DEF ProfileTypeOK, Starts, Progress, Folder
  <2> QED
    BY <1>6, <2>1 DEF ProfileTypeOK, Starts
<1>7. ASSUME NEW r \in MatterRuns, Writes(r) PROVE ProfileTypeOK'
  <2>1. run' \in [MatterRuns -> Progress]
    BY <1>7 DEF ProfileTypeOK, Writes, Progress
  <2>2. run[r].view \subseteq Docs
    BY DEF ProfileTypeOK, Progress
  <2>3. 0 \in 0 .. MaxMarks
    OBVIOUS
  <2>4. quiet' \in BOOLEAN
    BY <1>7 DEF Writes
  <2> QED
    BY <1>7, <2>1, <2>2, <2>3, <2>4 DEF ProfileTypeOK, Writes
<1>8. ASSUME NEW r \in MatterRuns, Fails(r) PROVE ProfileTypeOK'
  <2>1. run' \in [MatterRuns -> Progress]
    BY <1>8, RetriedTyped DEF ProfileTypeOK, Fails, Progress
  <2> QED
    BY <1>8, <2>1 DEF ProfileTypeOK, Fails
<1>9. ASSUME NEW r \in MatterRuns, Checks(r) PROVE ProfileTypeOK'
  <2>1. run' \in [MatterRuns -> Progress]
    BY <1>9, RetriedTyped DEF ProfileTypeOK, Checks, Progress
  <2> QED
    BY <1>9, <2>1 DEF ProfileTypeOK, Checks
<1>10. CASE UNCHANGED profileVars
  BY <1>10 DEF ProfileTypeOK, profileVars
<1> QED
  BY <1>1, <1>2, <1>3, <1>4, <1>5, <1>6, <1>7, <1>8, <1>9, <1>10 DEF ProfileNext

(* Rows, marks, runs and profiles keep their types: a run never has a      *)
(* retry too many, and the sweep of the operator is no mark.               *)
THEOREM ProfileTypeCorrect == ProfileSpec => []ProfileTypeOK
<1>1. ProfileInit => ProfileTypeOK
  <2>1. Unread \in Progress /\ 0 \in 0 .. MaxMarks /\ 0 \in 0 .. MaxFails
    BY ProfileBounds DEF Unread, Progress
  <2>2. ProfileInit => quiet \in BOOLEAN /\ crossed \in BOOLEAN
    BY DEF ProfileInit
  <2> QED
    BY <2>1, <2>2 DEF ProfileInit, ProfileTypeOK
<1> QED
  BY <1>1, ProfileTypeStep, PTL DEF ProfileSpec

(* What agents have read, and what was written, is in the folder, which no *)
(* document leaves; and who has the folder open, alone, has read all that  *)
(* the profile is derived from.                                            *)
Grounded ==
    /\ profile \subseteq Folder
    /\ \A r \in Reading : run[r].view \subseteq Folder
    /\ ~crossed => \A r \in Reading : profile \subseteq run[r].view
    /\ ~crossed => \A r, s \in Reading : r = s

LEMMA FolderStays == ProfileTypeOK /\ [ProfileNext]_profileVars => Folder \subseteq Folder'
<1> SUFFICES ASSUME ProfileTypeOK, [ProfileNext]_profileVars, NEW d \in Docs, stage[d] = "related"
             PROVE  stage'[d] = "related"
  BY DEF Folder
<1>1. ASSUME NEW e \in Docs, Classifies(e) PROVE stage'[d] = "related"
  BY <1>1 DEF ProfileTypeOK, Classifies
<1>2. ASSUME NEW e \in Docs, Relates(e) PROVE stage'[d] = "related"
  BY <1>2 DEF ProfileTypeOK, Relates
<1>3. CASE UNCHANGED stage
  BY <1>3
<1> QED
  BY <1>1, <1>2, <1>3
  DEF ProfileNext, profileVars, WindowPasses, Triggers, Sweeps, Starts, Writes, Fails, Checks

(* A step that opens no folder and writes no profile.                      *)
LEMMA NothingRead ==
    ASSUME Grounded, ProfileTypeOK, [ProfileNext]_profileVars, UNCHANGED <<profile, crossed>>,
           \A r \in Reading' : r \in Reading /\ run'[r].view = run[r].view
    PROVE  Grounded'
  BY FolderStays DEF Grounded

LEMMA Unopened ==
    ASSUME Grounded, ProfileTypeOK, [ProfileNext]_profileVars, UNCHANGED <<profile, crossed>>,
           NEW r \in MatterRuns, run' = [run EXCEPT ![r] = run'[r]], run'[r].phase # "reading"
    PROVE  Grounded'
<1>1. \A s \in Reading' : s \in Reading /\ run'[s].view = run[s].view
  BY DEF Reading, ProfileTypeOK
<1> QED
  BY <1>1, NothingRead

LEMMA GroundedStep == ProfileTypeOK /\ Grounded /\ [ProfileNext]_profileVars => Grounded'
<1> SUFFICES ASSUME ProfileTypeOK, Grounded, [ProfileNext]_profileVars PROVE Grounded'
  OBVIOUS
<1> USE DEF Reading
<1>1. CASE UNCHANGED <<run, profile, crossed>>
  BY <1>1, NothingRead
<1>2. CASE Triggers \/ Sweeps
  <2>1. PICK r \in MatterRuns : /\ run' = [run EXCEPT ![r].phase = "queued"]
                          /\ UNCHANGED <<profile, crossed>>
    BY <1>2 DEF Triggers, Sweeps, ProfileTypeOK, MatterRuns, MatterMarks
  <2> QED
    <3>1. run' = [run EXCEPT ![r] = run'[r]] /\ run'[r].phase # "reading"
      BY <2>1 DEF ProfileTypeOK, Progress
    <3> QED
      BY <2>1, <3>1, Unopened
<1>3. ASSUME NEW r \in MatterRuns, Starts(r) PROVE Grounded'
  <2>1. CASE row = 0 /\ r # Operator
    <3>1. /\ run' = [run EXCEPT ![r] = run'[r]] /\ run'[r].phase # "reading"
          /\ UNCHANGED <<profile, crossed>>
      BY <1>3, <2>1 DEF Starts, ProfileTypeOK, Progress
    <3> QED
      BY <3>1, Unopened
  <2>2. CASE ~(row = 0 /\ r # Operator)
    <3>1. /\ Reading' = Reading \union {r} /\ r \notin Reading
          /\ run'[r].view = Folder
          /\ \A s \in Reading : run'[s].view = run[s].view
          /\ crossed' = (crossed \/ Reading # {}) /\ UNCHANGED <<profile, stage>>
      BY <1>3, <2>2 DEF Starts, ProfileTypeOK, Progress
    <3> QED
      BY <3>1 DEF Grounded, Folder
  <2> QED
    BY <2>1, <2>2
<1>4. ASSUME NEW r \in MatterRuns, Writes(r) PROVE Grounded'
  <2>1. /\ Reading' = Reading \ {r} /\ r \in Reading
        /\ \A s \in Reading' : run'[s].view = run[s].view
        /\ profile' = run[r].view /\ UNCHANGED <<crossed, stage>>
    BY <1>4 DEF Writes, ProfileTypeOK, Progress
  <2> QED
    BY <2>1 DEF Grounded, Folder
<1>5. ASSUME NEW r \in MatterRuns, Fails(r) \/ Checks(r) PROVE Grounded'
  <2>1. run[r] \in Progress /\ Retried(run[r]).phase # "reading"
    BY DEF ProfileTypeOK, Progress, Retried
  <2>2. PICK t : /\ run' = [run EXCEPT ![r] = t] /\ t.phase # "reading"
                 /\ UNCHANGED <<profile, crossed>>
    BY <1>5, <2>1 DEF Fails, Checks, Progress
  <2>3. run'[r] = t
    BY <2>2 DEF ProfileTypeOK
  <2> QED
    BY <2>2, <2>3, Unopened
<1> QED
  BY <1>1, <1>2, <1>3, <1>4, <1>5 DEF ProfileNext, profileVars, Classifies, Relates, WindowPasses

LEMMA ProfileInvariant == ProfileSpec => [](ProfileTypeOK /\ Grounded)
<1>1. ProfileInit => Grounded
  BY DEF ProfileInit, Grounded, Reading, Unread, Folder
<1> QED
  BY <1>1, ProfileTypeCorrect, GroundedStep, PTL DEF ProfileSpec

(* A profile is derived from all the documents the one before it was       *)
(* derived from, unless two agents had the folder open at once.            *)
THEOREM ProfileGrows == ProfileSpec => UncrossedGrows
<1>1. ProfileTypeOK /\ Grounded /\ [ProfileNext]_profileVars
          => [crossed \/ profile \subseteq profile']_profileVars
  <2> SUFFICES ASSUME ProfileTypeOK, Grounded, ProfileNext, ~crossed PROVE profile \subseteq profile'
    BY DEF profileVars
  <2>1. ASSUME NEW r \in MatterRuns, Writes(r) PROVE profile \subseteq profile'
    BY <2>1 DEF Writes, Grounded, Reading
  <2>2. CASE UNCHANGED profile
    BY <2>2
  <2> QED
    BY <2>1, <2>2 DEF ProfileNext, Classifies, Relates, WindowPasses, Triggers, Sweeps, Starts, Fails, Checks
<1> QED
  BY <1>1, ProfileInvariant, PTL DEF ProfileSpec, UncrossedGrows
=============================================================================
