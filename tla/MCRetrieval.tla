---------------------------- MODULE MCRetrieval ----------------------------
(* Instances of Retrieval for TLC.                                         *)
EXTENDS Retrieval, TLC

CONSTANTS u, ux, g, h, admin, d1, d2, v1, v2, o1, o2, o3, p1

(* The source knows u as ux; g and h are members of one another.           *)
Bridged == {<<u, ux>>}
SomeMemberships == {{}, {<<ux, h>>, <<h, g>>, <<g, h>>}}

Observed == (o1 :> v1) @@ (o2 :> v2) @@ (o3 :> v1)
Allow(S) == [allow |-> S, deny |-> {}]
SomeAcls == {Allow({g}), [allow |-> {u}, deny |-> {g}]}
SomeCallers == {{u}, {admin}}

(* The versions in one document or in two, all in p1, which u may see or   *)
(* not; one observation for g, one local and one that nobody was given.    *)
Starts ==
    {[doc |-> (v1 :> d1) @@ (v2 :> d), project |-> [e \in Docs |-> p1],
      pacl |-> pacl, dacl |-> [e \in Docs |-> NoGrants],
      oacl |-> (o1 :> Allow({g})) @@ (o2 :> NoGrants) @@ (o3 :> NoGrants),
      gone |-> {}, members |-> members] :
        d \in Docs, pacl \in [Projects -> {NoGrants, Allow({u})}], members \in SomeMemberships}
=============================================================================
