------------------------- MODULE MCMatterProfiles -------------------------
(* Instances of MatterProfiles for TLC.                                    *)
EXTENDS MatterProfiles

CONSTANTS d1, d2
=============================================================================
