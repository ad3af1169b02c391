--------------------------- MODULE FileRelations ---------------------------
(* The relate stage: which files are versions or copies of one document,   *)
(* in what order, and which documents refer to which.  Every arriving file *)
(* is judged on its own by a model that runs with no transaction open; its *)
(* answer is then written under advisory locks on the file and the files   *)
(* the answer names.  A decision about a file that has no matter yet is    *)
(* parked as an intent, and replayed when that file is classified.         *)
(*                                                                         *)
(* A transaction is two steps: it locks and reads, then it commits the     *)
(* rows it changed over whatever others have committed in between, as      *)
(* READ COMMITTED does.  One matter and one project; a file is fetched and *)
(* alive.  Redlines and threads, which follow the documents and never      *)
(* steer them, are left out.                                               *)
EXTENDS Integers, FiniteSets, SequencesExt, FiniteSetsExt

CONSTANTS
    Files,
    NoFile,
    Statements,     \* what the model may say: identity, order, relation, status
    Workers,        \* transactions at a time
    MaxIds,         \* bound: versions ever created
    MaxPutBack,     \* bound: stages put back in the queue
    MaxFaults       \* bound: transactions that fail

ASSUME BoundsAssumption ==
    Workers \in Nat /\ MaxIds \in Nat \ {0} /\ MaxPutBack \in Nat /\ MaxFaults \in Nat

ASSUME FilesAssumption == IsFiniteSet(Files) /\ NoFile \notin Files

Ids == 1 .. MaxIds
Orders == {"before", "after", "same", "unknown"}
Identities == {"new_document", "duplicate", "new_version"}

ASSUME StatementsAssumption ==
    \A a \in Statements :
        /\ a.identity \in Identities /\ a.order \in Orders /\ a.final \in BOOLEAN
        /\ a.of \in Files \union {NoFile} /\ a.refers \in Files \union {NoFile}
        /\ a.identity = "new_document" <=> a.of = NoFile

(* A document has the identifier of the version it was created with, and   *)
(* identifiers grow, so that they also tell which row is older.            *)
VARIABLES
    link,       \* file -> the one version it was observed as, 0 for none
    doc,        \* version -> its document, 0 when there is no such row
    ord,        \* version -> its place in the chain, 0 for NULL
    final,      \* the versions with a final or executed status
    docs,       \* the documents that exist
    crown,      \* document -> latest_final_version_id, 0 for NULL
    supersedes, \* rows of edges between versions
    refers,     \* rows of edges between documents
    intents,    \* the parked decisions, pending or applied
    assigned,   \* the files with a matter
    derived     \* file -> the document its metadata and chunks name, 0 when due

knowledge == <<link, doc, ord, final, docs, crown, supersedes, refers, intents,
               assigned, derived>>

VARIABLES
    due,        \* file -> its next stage: classify, relate, or what follows
    fresh,      \* the next identifier
    tx,         \* file -> the transaction that relates or classifies it
    budget,     \* what the bounds still allow
    disturbed   \* history: transactions on one document overlapped, or a file
                \* was related to one being classified

vars == <<link, doc, ord, final, docs, crown, supersedes, refers, intents, assigned,
          derived, due, fresh, tx, budget, disturbed>>

-----------------------------------------------------------------------------
(* The tables as one record, on which a transaction works.                 *)
Tables == [link |-> link, doc |-> doc, ord |-> ord, final |-> final, docs |-> docs,
           crown |-> crown, supersedes |-> supersedes, refers |-> refers,
           intents |-> intents, assigned |-> assigned, derived |-> derived, fresh |-> fresh]

Chain(k, d) == {v \in Ids : k.doc[v] = d}
Sources(k, v) == {f \in Files : k.link[f] = v}

(* Edges are rows, known by the two ends they were inserted with, which no *)
(* other row ever had: identifiers are not given twice.  _ensure_relation  *)
(* inserts what no row says yet.                                           *)
Inserted(edges, new) ==
    [r \in DOMAIN edges \union (new \ Range(edges)) |->
        IF r \in DOMAIN edges THEN edges[r] ELSE r]

(* _create_version: a row of its own in a document, observed at the file.  *)
WithVersion(k, d, f) ==
    [k EXCEPT !.link[f] = k.fresh, !.doc[k.fresh] = d, !.ord[k.fresh] = 1,
              !.final = @ \ {k.fresh}, !.fresh = k.fresh + 1]

(* _create_file_entity: a document with one version.                       *)
WithEntity(k, f) == [WithVersion(k, k.fresh, f) EXCEPT !.docs = @ \union {k.fresh}]

Ensured(k, f) == IF k.link[f] # 0 THEN k ELSE WithEntity(k, f)

(* _file_entity_for_ref: only a file with a matter has an entity.          *)
Resolves(k, f) == f # NoFile /\ f \in k.assigned
Resolved(k, f) == IF Resolves(k, f) THEN Ensured(k, f) ELSE k

Newest(k, V) == CHOOSE v \in V : \A w \in V : k.ord[w] < k.ord[v] \/ (k.ord[w] = k.ord[v] /\ w <= v)

(* _refresh_latest_final: an unknown place ranks lowest, age breaks ties.  *)
Crowned(k, d) ==
    LET finals == Chain(k, d) \intersect k.final
    IN  [k EXCEPT !.crown[d] = IF finals = {} THEN 0 ELSE Newest(k, finals)]

(* _renumber_chain: dense from 1, ties stay ties, NULL stays NULL.         *)
Renumbered(k, d) ==
    LET placed == {v \in Chain(k, d) : k.ord[v] # 0}
        Rung(v) == Cardinality({k.ord[w] : w \in {u \in placed : k.ord[u] <= k.ord[v]}})
    IN  Crowned([k EXCEPT !.ord = [v \in Ids |-> IF v \in placed THEN Rung(v) ELSE k.ord[v]]], d)

(* _version_is_chain_anchor: lowest place, NULL last, then the oldest.     *)
IsAnchor(k, v) ==
    \A w \in Chain(k, k.doc[v]) \ {v} :
        \/ k.ord[v] # 0 /\ (k.ord[w] = 0 \/ k.ord[v] < k.ord[w])
        \/ k.ord[v] = k.ord[w] /\ v < w

Exclusive(k, d, f) == UNION {Sources(k, v) : v \in Chain(k, d)} = {f}

Place(k, v) == IF k.ord[v] = 0 THEN 1 ELSE k.ord[v]

DisplacedTarget(k, others, target, order) == IF order = "before" THEN {target} ELSE {}

Displaced(k, others, target, order) ==
    CASE order = "before" -> {v \in others : Place(k, v) >= Place(k, target)}
      [] order = "after" -> {v \in others : Place(k, v) > Place(k, target)}
      [] OTHER -> {}

(* _order_file_version: beside the target, as far as the answer goes.      *)
Ordered(k, current, target, order) ==
    LET moved == Displaced(k, Chain(k, k.doc[current]) \ {current}, target, order)
        mine == CASE order = "before" -> Place(k, target)
                  [] order = "after" -> Place(k, target) + 1
                  [] order = "same" -> k.ord[target]
                  [] OTHER -> 0
        edge == CASE order = "before" -> {<<target, current>>}
                  [] order = "after" -> {<<current, target>>}
                  [] OTHER -> {}
        contrary == {<<current, target>>, <<target, current>>} \ edge
        placed == [v \in Ids |-> IF v = current THEN mine
                                 ELSE IF v \in moved THEN Place(k, v) + 1 ELSE k.ord[v]]
    IN  Renumbered([k EXCEPT !.ord = placed,
                             !.supersedes = Inserted(Restrict(@, {r \in DOMAIN @ : @[r] \notin contrary}), edge)],
                   k.doc[current])

RepointedNot(edges, ghost, survivor) == edges

(* _repoint_relations: every row that touches the ghost is moved, or       *)
(* deleted where it would double another row or lead back to itself.       *)
Repointed(edges, ghost, survivor) ==
    LET to(x) == IF x = ghost THEN survivor ELSE x
        moved == [r \in DOMAIN edges |-> <<to(edges[r][1]), to(edges[r][2])>>]
    IN  Restrict(moved, {r \in DOMAIN edges :
                           \/ moved[r] = edges[r]
                           \/ moved[r][1] # moved[r][2] /\ moved[r] \notin Range(edges)})

(* _absorb_abandoned_entity: what nothing is left in goes, its edges stay. *)
VersionAbsorbed(k, ghost, survivor) ==
    IF ghost = survivor \/ Sources(k, ghost) # {}
    THEN k
    ELSE [k EXCEPT !.doc[ghost] = 0, !.ord[ghost] = 0, !.final = @ \ {ghost},
                   !.supersedes = Repointed(@, ghost, survivor)]

DocumentAbsorbed(k, ghost, survivor) ==
    IF ghost = survivor \/ Chain(k, ghost) # {}
    THEN k
    ELSE [k EXCEPT !.docs = @ \ {ghost}, !.crown[ghost] = 0,
                   !.refers = Repointed(@, ghost, survivor)]

AbsorbedDocumentOnly(k, ghostVersion, ghostDoc, version) == DocumentAbsorbed(k, ghostDoc, k.doc[version])

Absorbed(k, ghostVersion, ghostDoc, version) ==
    DocumentAbsorbed(VersionAbsorbed(k, ghostVersion, version), ghostDoc, k.doc[version])

(* The identity decision: f is a copy or another version of target.        *)
Merged(k, f, target, identity, order) ==
    LET d == k.doc[target]
        mine == k.link[f]
        apart == mine = target \/ Cardinality(Sources(k, mine)) > 1
        joined == IF apart THEN WithVersion(k, d, f) ELSE [k EXCEPT !.doc[mine] = d]
    IN  IF identity = "duplicate"
        THEN [k EXCEPT !.link[f] = target]
        ELSE Ordered(joined, joined.link[f], target, order)

(* _park_intent: one row for each origin, target and kind of decision,     *)
(* whatever became of it.                                                  *)
Parked(k, f, target, intent, a) ==
    IF \E i \in k.intents : i.origin = f /\ i.target = target /\ i.intent = intent
    THEN k
    ELSE [k EXCEPT !.intents = @ \union
             {[origin |-> f, target |-> target, intent |-> intent,
               identity |-> a.identity, order |-> a.order, status |-> "pending"]}]

Related(k, f, g) ==
    LET here == k.doc[k.link[f]]
        there == k.doc[k.link[g]]
    IN  IF here = there THEN k ELSE [k EXCEPT !.refers = Inserted(@, {<<here, there>>})]

(* The new_document answer moves a file out of a document it shares,       *)
(* unless it is the one the others were attached to.                       *)
SetApart(k, f) ==
    LET d == k.doc[k.link[f]]
    IN  IF Exclusive(k, d, f) \/ IsAnchor(k, k.link[f]) THEN k ELSE Renumbered(WithEntity(k, f), d)

Identified(k, f, a) ==
    CASE a.identity = "new_document" -> SetApart(k, f)
      [] a.identity # "new_document" /\ Resolves(k, a.of) -> Merged(k, f, k.link[a.of], a.identity, a.order)
      [] OTHER -> Parked(SetApart(k, f), f, a.of, "identity", a)

Judged(k, f, a) ==
    [k EXCEPT !.final = IF a.final THEN @ \union {k.link[f]} ELSE @ \ {k.link[f]}]

ReferredParked(k, f, a) ==
    IF Resolves(k, a.refers) THEN Related(Ensured(k, a.refers), f, a.refers)
    ELSE Parked(k, f, a.refers, "relation", a)

Referred(k, f, a) ==
    CASE a.refers = NoFile -> k
      [] a.refers # NoFile /\ Resolves(k, a.refers) -> Related(Ensured(k, a.refers), f, a.refers)
      [] OTHER -> Parked(k, f, a.refers, "relation", a)

(* _materialize_file_relation.                                             *)
Materialized(k, f, a) ==
    LET undelivered == {i \in k.intents : i.origin = f /\ i.status = "pending"}
        ensured == Ensured([k EXCEPT !.intents = @ \ undelivered], f)
        version == ensured.link[f]
        written == Referred(Judged(Identified(Resolved(ensured, a.of), f, a), f, a), f, a)
        kept == Absorbed(written, version, ensured.doc[version], written.link[f])
    IN  Crowned(kept, kept.doc[kept.link[f]])

RequeuedNot(k, f) == k

Requeued(k, f) == [k EXCEPT !.derived[f] = 0]

MergeReplayed(k, i) ==
    LET version == k.link[i.origin]
        merged == Merged(k, i.origin, k.link[i.target], i.identity, i.order)
        kept == Absorbed(merged, version, k.doc[version], merged.link[i.origin])
    IN  IF k.doc[version] = k.doc[k.link[i.target]]
        THEN k
        ELSE Requeued(Crowned(kept, kept.doc[kept.link[i.origin]]), i.origin)

(* One intent of _apply_relation_intents, its target now with a matter.    *)
Replayed(k, i) ==
    LET ready == Ensured(Ensured(k, i.target), i.origin)
        done == IF i.intent = "relation" THEN Related(ready, i.origin, i.target) ELSE MergeReplayed(ready, i)
    IN  [done EXCEPT !.intents = (@ \ {i}) \union {[i EXCEPT !.status = "applied"]}]

PendingIdentity(k, f) == {i \in k.intents : i.target = f /\ i.status = "pending" /\ i.intent = "identity"}

PendingOn(k, f) == {i \in k.intents : i.target = f /\ i.status = "pending"}

Replays(k, order) ==
    LET upTo[n \in 0 .. Len(order)] ==
            IF n = 0 THEN k ELSE Replayed(upTo[n - 1], order[n])
    IN  upTo[Len(order)]
-----------------------------------------------------------------------------
Idle == [kind |-> "idle"]
Named(f, a) == {f, a.of, a.refers} \ {NoFile}
InFlight == {f \in Files : tx[f] # Idle}
Free(L) == \A g \in InFlight : tx[g].locks \intersect L = {}

(* The files whose rows a transaction that names L may read.               *)
Near(L) ==
    LET Home(f) == IF link[f] = 0 THEN 0 ELSE doc[link[f]]
    IN  L \union {f \in Files : Home(f) # 0 /\ \E g \in L : Home(g) = Home(f)}

Overlaps(L) == \E g \in InFlight : Near(tx[g].names) \intersect Near(L) # {}

Init ==
    /\ link = [f \in Files |-> 0] /\ derived = [f \in Files |-> 0]
    /\ doc = [v \in Ids |-> 0] /\ ord = [v \in Ids |-> 0] /\ crown = [d \in Ids |-> 0]
    /\ final = {} /\ docs = {} /\ intents = {} /\ assigned = {} /\ supersedes = <<>> /\ refers = <<>>
    /\ due = [f \in Files |-> "classify"] /\ tx = [f \in Files |-> Idle]
    /\ fresh = 1
    /\ budget = [putBack |-> MaxPutBack, faults |-> MaxFaults]
    /\ disturbed = FALSE

Begins(f, kind, locks, names, after) ==
    /\ Cardinality(InFlight) < Workers
    /\ Free(locks) /\ after.fresh <= MaxIds
    /\ tx' = [tx EXCEPT ![f] = [kind |-> kind, locks |-> locks, names |-> names,
                                before |-> Tables, after |-> after]]
    /\ fresh' = after.fresh
    /\ disturbed' = (disturbed \/ Overlaps(names))
    /\ UNCHANGED knowledge /\ UNCHANGED <<due, budget>>

(* _relate, from its locks on.                                             *)
RelateBegins(f) ==
    /\ due[f] = "relate" /\ tx[f] = Idle
    /\ \E a \in Statements :
         /\ f \notin {a.of, a.refers}
         /\ Begins(f, "relate", Named(f, a), Named(f, a), Materialized(Tables, f, a))

(* _classify_matter ends with the assignment and with what was parked on   *)
(* the file.  It locks only when it finds some; that it looks again after  *)
(* it has the locks (runner.py:1616-1633) is in the same step.             *)
ClassifyBegins(f) ==
    /\ due[f] = "classify" /\ tx[f] = Idle
    /\ LET waiting == PendingOn(Tables, f)
           locks == IF waiting = {} THEN {} ELSE {f} \union {i.origin : i \in waiting}
       IN  \E order \in SetToSeqs(waiting) :
             Begins(f, "classify", locks, {f} \union locks,
                    Replays([Tables EXCEPT !.assigned = @ \union {f}], order))

OverRows(before, after, now) ==
    [x \in DOMAIN now |-> IF after[x] # before[x] THEN after[x] ELSE now[x]]
OverSet(before, after, now) == (now \ (before \ after)) \union (after \ before)

(* An UPDATE of an edge writes the column that changed.                    *)
OverEdges(before, after, now) ==
    LET kept == DOMAIN now \ (DOMAIN before \ DOMAIN after)
        Column(r, c) == IF r \in DOMAIN before /\ after[r][c] = before[r][c]
                        THEN now[r][c] ELSE after[r][c]
    IN  [r \in kept \union (DOMAIN after \ DOMAIN before) |->
            IF r \in DOMAIN after THEN <<Column(r, 1), Column(r, 2)>> ELSE now[r]]

(* No row that has gone is updated (StaleDataError), and no two edges are  *)
(* alike (uq_relation).                                                    *)
EdgesPermitted(before, after, now) ==
    LET edges == OverEdges(before, after, now)
        updated == {r \in DOMAIN before \intersect DOMAIN after : after[r] # before[r]}
        new == DOMAIN after \ DOMAIN before
    IN  /\ updated \subseteq DOMAIN now /\ new \intersect DOMAIN now = {}
        /\ \A r \in updated \union new, q \in DOMAIN edges : edges[q] = edges[r] => q = r

(* Foreign keys hold, and no row that has gone is written.                 *)
Permitted(t) ==
    LET b == t.before
        a == t.after
        links == OverRows(b.link, a.link, link)
        homes == OverRows(b.doc, a.doc, doc)
        kept == OverSet(b.docs, a.docs, docs)
        Row(k, v) == <<k.doc[v], k.ord[v], v \in k.final>>
    IN  /\ \A f \in Files : links[f] # 0 => homes[links[f]] # 0
        /\ \A v \in Ids : homes[v] # 0 => homes[v] \in kept
        /\ \A v \in Ids : b.doc[v] # 0 /\ Row(a, v) # Row(b, v) => doc[v] # 0
        /\ \A d \in b.docs : a.crown[d] # b.crown[d] => d \in docs
        /\ EdgesPermitted(b.supersedes, a.supersedes, supersedes)
        /\ EdgesPermitted(b.refers, a.refers, refers)

Commits(f) ==
    LET b == tx[f].before
        a == tx[f].after
    IN  /\ tx[f] # Idle /\ Permitted(tx[f])
        /\ link' = OverRows(b.link, a.link, link)
        /\ doc' = OverRows(b.doc, a.doc, doc)
        /\ ord' = OverRows(b.ord, a.ord, ord)
        /\ crown' = OverRows(b.crown, a.crown, crown)
        /\ derived' = OverRows(b.derived, a.derived, derived)
        /\ final' = OverSet(b.final, a.final, final)
        /\ docs' = OverSet(b.docs, a.docs, docs)
        /\ supersedes' = OverEdges(b.supersedes, a.supersedes, supersedes)
        /\ refers' = OverEdges(b.refers, a.refers, refers)
        /\ intents' = OverSet(b.intents, a.intents, intents)
        /\ assigned' = OverSet(b.assigned, a.assigned, assigned)
        /\ due' = [due EXCEPT ![f] = IF tx[f].kind = "classify" THEN "relate" ELSE "derive"]
        /\ tx' = [tx EXCEPT ![f] = Idle]
        /\ UNCHANGED <<fresh, budget, disturbed>>

(* A claim, a content or an assignment that changed during the inference,  *)
(* an error, or a commit that the database refuses.                        *)
RollsBack(f) ==
    /\ tx[f] # Idle
    /\ Permitted(tx[f]) => budget.faults > 0
    /\ budget' = IF Permitted(tx[f]) THEN [budget EXCEPT !.faults = @ - 1] ELSE budget
    /\ tx' = [tx EXCEPT ![f] = Idle]
    /\ UNCHANGED knowledge /\ UNCHANGED <<due, fresh, disturbed>>

(* extract_metadata and what follows write under the document of the file: *)
(* one step, although extraction loads its entities first and writes after *)
(* a model call (runner.py:2011, 2109).                                    *)
Derives(f) ==
    /\ due[f] = "derive" /\ tx[f] = Idle /\ derived[f] = 0
    /\ derived' = [derived EXCEPT ![f] = doc[link[f]]]
    /\ disturbed' = (disturbed \/ Overlaps({f}))
    /\ UNCHANGED <<link, doc, ord, final, docs, crown, supersedes, refers, intents, assigned,
                   due, fresh, tx, budget>>

(* A new producer version, a retry or new content puts a stage back, and   *)
(* what follows it.                                                        *)
PutsBack(f, stage) ==
    /\ due[f] = "derive" /\ tx[f] = Idle /\ budget.putBack > 0
    /\ budget' = [budget EXCEPT !.putBack = @ - 1]
    /\ due' = [due EXCEPT ![f] = stage]
    /\ derived' = [derived EXCEPT ![f] = 0]
    /\ disturbed' = (disturbed \/ Overlaps({f}))
    /\ UNCHANGED <<link, doc, ord, final, docs, crown, supersedes, refers, intents, assigned,
                   fresh, tx>>

Next ==
    \E f \in Files :
        \/ RelateBegins(f) \/ ClassifyBegins(f) \/ Commits(f) \/ RollsBack(f) \/ Derives(f)
        \/ \E stage \in {"classify", "relate"} : PutsBack(f, stage)

Spec == Init /\ [][Next]_vars
-----------------------------------------------------------------------------
TypeOK ==
    /\ link \in [Files -> 0 .. MaxIds] /\ derived \in [Files -> 0 .. MaxIds]
    /\ doc \in [Ids -> 0 .. MaxIds] /\ ord \in [Ids -> Nat] /\ crown \in [Ids -> 0 .. MaxIds]
    /\ final \subseteq Ids /\ docs \subseteq Ids /\ assigned \subseteq Files
    /\ \A edges \in {supersedes, refers} : \A r \in DOMAIN edges : {r, edges[r]} \subseteq Ids \X Ids
    /\ \A i \in intents : i.origin \in Files /\ i.target \in Files /\ i.status \in {"pending", "applied"}
    /\ due \in [Files -> {"classify", "relate", "derive"}] /\ fresh \in 1 .. MaxIds
    /\ DOMAIN tx = Files /\ disturbed \in BOOLEAN

(* No husks: as long as no two transactions on one document overlapped,    *)
(* every version is observed at some file and every document has some      *)
(* version, whatever merges, leaves and replays (_absorb_abandoned_entity).*)
UndisturbedNoHusks ==
    ~ disturbed => /\ \A v \in Ids : doc[v] # 0 => Sources(Tables, v) # {}
                   /\ \A d \in docs : Chain(Tables, d) # {}

(* Edges follow the rows: a supersession joins two versions that exist,    *)
(* and a reference two documents that exist.                               *)
UndisturbedEdges ==
    ~ disturbed => /\ \A e \in Range(supersedes) : doc[e[1]] # 0 /\ doc[e[2]] # 0
                   /\ \A e \in Range(refers) : {e[1], e[2]} \subseteq docs

(* What was derived for a file names the document the file belongs to now: *)
(* a file moved by another file's classify has its stages put back.        *)
UndisturbedDerived ==
    ~ disturbed => \A f \in Files : derived[f] # 0 => derived[f] = doc[link[f]]

(* A decision parked on a file waits only as long as the file has no       *)
(* matter, unless the two were being written at the same time.             *)
UndisturbedDelivered ==
    \A i \in intents :
        i.status = "pending" /\ i.target \in assigned => disturbed \/ due[i.target] = "classify"

(* Placing one file never swaps two others of a chain.                     *)
OrderKept ==
    [][~ disturbed' => \A v, w \in Ids :
         /\ doc[v] = doc[w] /\ doc'[v] = doc[v] /\ doc'[w] = doc[w] /\ doc[v] # 0
         /\ \A f \in Sources(Tables, v) \union Sources(Tables, w) : tx[f] = tx'[f]
         /\ ord[v] # 0 /\ ord[w] # 0 /\ ord[v] < ord[w]
         => ord'[v] < ord'[w]]_vars

(* A decision waits only for a file that has no matter yet: whichever of   *)
(* relate and classify wins the lock sees what the other committed         *)
(* (_park_intent).                                                         *)
Delivered ==
    \A i \in intents : i.status = "pending" /\ i.target \in assigned => due[i.target] = "classify"
=============================================================================
