----------------------------- MODULE MCHookBus -----------------------------
(***************************************************************************)
(* Instances of HookBus for TLC.  Events 1 and 3 share thread "a", event 2 *)
(* is alone in thread "b".  One rerun on a locked database stands for the  *)
(* three that LOCK_RETRY_LIMIT allows: a second one repeats the first.     *)
(***************************************************************************)
EXTENDS HookBus

MCThreadOf == [e \in Events |-> IF e = 2 THEN "b" ELSE "a"]

\* Event 1 may be poison: its run may fail each time it is retried.
Reliable == Events \ {1}
FairSpec == Spec /\ Fairness(Reliable)

\* A readable result whose run can succeed is settled in the end, even when
\* another event of the same thread fails for ever and even if the pump died
\* while it held it, once pump deaths and backend stops cease.
ReliableResultsSettle ==
    <>[][~PumpDies /\ ~Stop]_vars =>
        \A e \in Reliable :
            (file[e] = "pending" /\ e \notin torn) ~> (file[e] = "absent")

=============================================================================
