----------------------------- MODULE PlanStates -----------------------------
(***************************************************************************)
(* The state machine of plan items (src/src/app/plan_state_machine.py),    *)
(* used for one item by ThreadRuns and for a whole plan by PlanKernel.     *)
(***************************************************************************)

\* Mutant of Allowed: an item in progress cannot fail.
AllowedWithoutFailure(s) ==
    CASE s = "pending" -> {"in_progress", "failed"}
      [] s = "in_progress" -> {"completed", "pending"}
      [] s = "failed" -> {"pending", "in_progress"}
      [] OTHER -> {}

\* Mutant of Allowed: a completed item can be started again.
AllowedFromCompleted(s) ==
    CASE s = "pending" -> {"in_progress", "failed"}
      [] s = "in_progress" -> {"completed", "failed", "pending"}
      [] s \in {"failed", "completed"} -> {"pending", "in_progress"}
      [] OTHER -> {}

Allowed(s) ==
    CASE s = "pending" -> {"in_progress", "failed"}
      [] s = "in_progress" -> {"completed", "failed", "pending"}
      [] s = "failed" -> {"pending", "in_progress"}
      [] OTHER -> {}

\* transition_plan_item: a forbidden transition leaves the item as it is.
Transition(s, t) == IF t \in Allowed(s) THEN t ELSE s
=============================================================================
