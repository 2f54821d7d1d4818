------------------------ MODULE MCIncidentLifecycle ------------------------
(***************************************************************************)
(* Instances of IncidentLifecycle for TLC.                                 *)
(***************************************************************************)
EXTENDS IncidentLifecycle, TLC

CONSTANTS f1, f2
Symmetry == Permutations(Fingerprints)

\* Progress of the watcher asks nothing of the other actors.
WatcherSpec == Spec /\ WatcherFairness

\* One backend lifetime in which every notification is delivered.
DeliveredSpec ==
    /\ Init
    /\ [][Step /\ \A f \in Fingerprints : ~NotifyFails(f)]_vars
    /\ RepairFairness
=============================================================================
