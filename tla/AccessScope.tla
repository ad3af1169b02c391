---------------------------- MODULE AccessScope ----------------------------
(***************************************************************************)
(* Who may read what (permissions.py, connectors/principals.py).  A world  *)
(* is the part of the database the decision is read from: the document of  *)
(* each version, the project of each document, the grants of projects,     *)
(* documents and source objects, the objects that are gone and the         *)
(* mirrored group memberships.                                             *)
(*                                                                         *)
(* A principal stands for its spellings: user: and username: with one      *)
(* address are one principal, and a group is named together with the       *)
(* source that reported it.                                                *)
(***************************************************************************)
EXTENDS Integers, FiniteSets

CONSTANTS
    Principals,
    Groups,             \* of the sources and of the firm
    Admins,             \* ADMIN_PRINCIPALS
    Aliases,            \* security.principal_aliases: pairs
    SourceAclMode,      \* "sufficient" or "intersect"
    Objects, Versions, Docs, Projects, NoProject,
    VersionOf,          \* the version each source object is an observation of
    LocalObjects        \* objects of a local_fs source

ASSUME PrincipalsAssumption == Groups \subseteq Principals /\ Admins \subseteq Principals
                               /\ IsFiniteSet(Groups)
ASSUME AliasesAssumption == Aliases \subseteq Principals \X Principals
ASSUME ModeAssumption == SourceAclMode \in {"sufficient", "intersect"}
ASSUME EstateAssumption == VersionOf \in [Objects -> Versions] /\ LocalObjects \subseteq Objects
ASSUME NoProjectAssumption == NoProject \notin Projects

Acls == [allow : SUBSET Principals, deny : SUBSET Principals]
NoGrants == [allow |-> {}, deny |-> {}]
Worlds == [doc : [Versions -> Docs], project : [Docs -> Projects \union {NoProject}],
           pacl : [Projects -> Acls], dacl : [Docs -> Acls], oacl : [Objects -> Acls],
           gone : SUBSET Objects, members : SUBSET (Principals \X Groups)]

(***************************************************************************)
(* Principals                                                              *)
(***************************************************************************)
(* Forwards once, then backwards once.                                     *)
ApplyAliases(ps) ==
    LET there == ps \union {a[2] : a \in {x \in Aliases : x[1] \in ps}}
    IN  there \union {a[1] : a \in {x \in Aliases : x[2] \in there}}

ParentsOf(members, ps) == {e[2] : e \in {x \in members : x[1] \in ps}}

(* Mutant of Expanded: the groups of groups are not looked up.             *)
ExpandedOnce(members, ps) == ps \union ParentsOf(members, ps)

(* Breadth first; a group that was seen is not looked up again.            *)
Expanded(members, ps) ==
    LET first == ParentsOf(members, ps)
        walk[n \in 0 .. Cardinality(Groups)] ==
            IF n = 0 THEN [frontier |-> first, seen |-> first]
            ELSE LET next == (ParentsOf(members, walk[n - 1].frontier) \ walk[n - 1].seen)
                 IN  [frontier |-> next, seen |-> walk[n - 1].seen \union next]
    IN  ps \union walk[Cardinality(Groups)].seen

Resolved(members, ps) == ApplyAliases(Expanded(members, ApplyAliases(ps)))

IsAdmin(ps) == ps \intersect Admins # {}

(***************************************************************************)
(* AccessService.version_predicate                                         *)
(***************************************************************************)
Observations(w, v) == {o \in Objects : VersionOf[o] = v /\ o \notin w.gone}

ProjectAcl(w, v) ==
    LET p == w.project[w.doc[v]] IN IF p = NoProject THEN NoGrants ELSE w.pacl[p]
DocumentAcl(w, v) == w.dacl[w.doc[v]]

Allowed(acl, ps) == acl.allow \intersect ps # {}
Denied(acl, ps) == acl.deny \intersect ps # {}

LocalAllow(w, ps, v) == Allowed(ProjectAcl(w, v), ps) \/ Allowed(DocumentAcl(w, v), ps)
SourceAllow(w, ps, v) == \E o \in Observations(w, v) : Allowed(w.oacl[o], ps)
(* A local folder without a readable ACL leaves it to the project.         *)
ProjectScoped(w, v) == \E o \in Observations(w, v) \intersect LocalObjects : w.oacl[o] = NoGrants

AnyAllow(w, ps, v) ==
    LocalAllow(w, ps, v) \/ (SourceAclMode = "sufficient" /\ SourceAllow(w, ps, v))
SourceGate(w, ps, v) == SourceAllow(w, ps, v) \/ ProjectScoped(w, v)
NoSourceDeny(w, ps, v) == \A o \in Observations(w, v) : ~Denied(w.oacl[o], ps)
NoDeny(w, ps, v) ==
    /\ ~Denied(ProjectAcl(w, v), ps) /\ ~Denied(DocumentAcl(w, v), ps)
    /\ NoSourceDeny(w, ps, v)

ReadableBy(w, ps, v) ==
    IF IsAdmin(ps) THEN Observations(w, v) # {}
    ELSE AnyAllow(w, ps, v) /\ SourceGate(w, ps, v) /\ NoDeny(w, ps, v)

Readable(w, caller, v) == ReadableBy(w, Resolved(w.members, caller), v)
ReadableVersions(w, caller) == {v \in Versions : Readable(w, caller, v)}

(* The observations of a readable version that the caller may be shown,    *)
(* by grants and principals that may have been read at other moments.      *)
(* Mutant of Shown: a gap in the ACL of any source leaves it to the project.*)
ShownWithGaps(objects, oacl, ps, caller) ==
    IF IsAdmin(caller) THEN objects
    ELSE {o \in objects : oacl[o] = NoGrants
                           \/ (Allowed(oacl[o], ps) /\ ~Denied(oacl[o], ps))}
Shown(objects, oacl, ps, caller) ==
    IF IsAdmin(caller) THEN objects
    ELSE {o \in objects :
            IF oacl[o] = NoGrants THEN o \in LocalObjects
            ELSE Allowed(oacl[o], ps) /\ ~Denied(oacl[o], ps)}

(***************************************************************************)
(* AccessService.compile_scope and the filter of the index                 *)
(***************************************************************************)
Row(w, v) == [doc |-> w.doc[v], project |-> w.project[w.doc[v]]]
ReadableRows(w, ps) == {Row(w, v) : v \in {x \in Versions : ReadableBy(w, ps, x)}}

(* Projects granted to the caller as it came, with neither its groups nor  *)
(* its aliases.                                                            *)
GrantedProjects(w, caller) ==
    {p \in Projects : Allowed(w.pacl[p], caller) /\ ~Denied(w.pacl[p], caller)}

(* Mutant of VisibleProjects: without the projects of the documents.       *)
VisibleProjectsGranted(w, caller, found) ==
    IF IsAdmin(caller) THEN Projects ELSE GrantedProjects(w, caller)
VisibleProjects(w, caller, found) ==
    IF IsAdmin(caller) THEN Projects
    ELSE GrantedProjects(w, caller) \union ({row.project : row \in found} \ {NoProject})

(* found: the rows of the documents the caller may read; asked: the        *)
(* project the search is narrowed to, or NoProject.                        *)
CompiledScope(w, caller, found, asked) ==
    LET visible == VisibleProjects(w, caller, found)
        narrowed == visible \intersect {asked}
    IN  IF asked = NoProject
        THEN [projects |-> visible, documents |-> {row.doc : row \in found}]
        ELSE [projects |-> narrowed,
              documents |-> {row.doc : row \in {r \in found : r.project \in narrowed}}]

(* A row without a project matches no list of projects.                    *)
Matches(row, scope) ==
    /\ row.doc \in scope.documents
    /\ scope.projects = {} \/ row.project \in scope.projects
=============================================================================
