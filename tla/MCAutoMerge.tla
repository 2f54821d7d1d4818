---------------------------- MODULE MCAutoMerge ----------------------------
(***************************************************************************)
(* Two workers of one incident.                                            *)
(***************************************************************************)
EXTENDS AutoMerge
=============================================================================
