-------------------------- MODULE MCFileRelations --------------------------
(* Instances of FileRelations for TLC.                                     *)
EXTENDS FileRelations

CONSTANTS f1, f2, f3, Places

Statement(what, whom, how, ref, isFinal) ==
    [identity |-> what, of |-> whom, order |-> how, refers |-> ref, final |-> isFinal]

(* Every identity; one status for each, so that finals and drafts meet in  *)
(* a chain; a reference with a new document.                               *)
SomeStatements ==
         {Statement("new_document", NoFile, "unknown", r, FALSE) : r \in {NoFile} \union Files}
  \union {Statement("duplicate", f, "unknown", NoFile, FALSE) : f \in Files}
  \union {Statement("new_version", f, o, NoFile, TRUE) : f \in Files, o \in Places}

Alike == Permutations(Files)
=============================================================================
