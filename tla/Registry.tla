------------------------------ MODULE Registry ------------------------------
(***************************************************************************)
(* What the callers of the incident registry may rely on, whatever the     *)
(* file does: a table in which one call changes the entry of one incident, *)
(* at once.  A call enters an incident or only touches its entry, gives it *)
(* a status, or notes its deployment; it forgets neither the status nor    *)
(* the time of the deployment, and it leaves other incidents alone.  That  *)
(* ends when calls overlap, or when the process dies in the middle of one. *)
(***************************************************************************)
EXTENDS Naturals

CONSTANTS
    Fingerprints,   \* the incidents
    Statuses,       \* "none" for an incident that has no entry
    MaxTime         \* the latest time of a deployment, 0 for none (a bound)

VARIABLES
    table,          \* the entries
    lost            \* calls have overlapped, or the process died in one

tableVars == <<table, lost>>

TableInit ==
    /\ table = [f \in Fingerprints |-> [status |-> "none", deployed |-> 0]]
    /\ lost = FALSE

\* The entry is there afterwards, and otherwise as it was.
Enter(f) ==
    /\ table' = IF table[f].status = "none" THEN [table EXCEPT ![f].status = "new"] ELSE table
    /\ UNCHANGED lost

Mark(f, s) ==
    /\ table' = [table EXCEPT ![f].status = s]
    /\ UNCHANGED lost

Deploy(f, t) ==
    /\ table' = [table EXCEPT ![f] = [status |-> "deployed", deployed |-> t]]
    /\ UNCHANGED lost

\* From here on the table may hold anything.
Lose ==
    /\ lost' = TRUE
    /\ table' \in [Fingerprints -> [status : Statuses, deployed : 0..MaxTime]]

TableNext ==
    \/ \E f \in Fingerprints :
        \/ Enter(f)
        \/ \E s \in Statuses \ {"none"} : Mark(f, s)
        \/ \E t \in 1..MaxTime : Deploy(f, t)
    \/ Lose

TableSpec == TableInit /\ [][TableNext]_tableVars
=============================================================================
