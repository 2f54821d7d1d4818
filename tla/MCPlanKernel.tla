---------------------------- MODULE MCPlanKernel ----------------------------
(***************************************************************************)
(* Instances of PlanKernel for TLC.                                        *)
(***************************************************************************)
EXTENDS PlanKernel, TLC

CONSTANTS j1, j2
Symmetry == Permutations(Jobs)
=============================================================================
