---------------------------- MODULE MCThreadRuns ----------------------------
(***************************************************************************)
(* Instances of ThreadRuns for TLC.                                        *)
(***************************************************************************)
EXTENDS ThreadRuns, TLC

CONSTANTS j1, j2
Symmetry == Permutations(Jobs)

FairSpec == Spec /\ Fairness

\* One conversation: the front's runs are chat messages.
ChatSpec == Init /\ ~Incident /\ [][Next]_vars
=============================================================================
