---------------------------- MODULE MCSourceSync ----------------------------
(* Instances of SourceSync for TLC.                                        *)
EXTENDS SourceSync

CONSTANTS o1, o2

AllScopes == {"whole", "folder"}
MCScopeOf == [s \in AllScopes |-> IF s = "whole" THEN Objects ELSE Objects \ {o1}]
=============================================================================
