-------------------------- MODULE MCIncidentIngest --------------------------
(***************************************************************************)
(* One failing incident beside another one, with one thread in the         *)
(* registry.  A unit of time is a minute: NewWindow is one unit, RegWindow *)
(* and Verify are two, the half minute of grace is rounded down.           *)
(***************************************************************************)
EXTENDS IncidentIngest
=============================================================================
