----------------------------- MODULE PlanTexts -----------------------------
(***************************************************************************)
(* What list_plan looks at in the texts of a plan: tasks with one title,   *)
(* or one file path in their details, are refused, and so is a plan that   *)
(* does not begin with the shared repository while its address is not      *)
(* known.  set and append check; update does not                           *)
(* (src/src/tools/list_plan_tool.py).  A text is its title, in lower case  *)
(* and with its spaces collapsed, and the paths its details mention; ids   *)
(* differ (IdsUnique of PlanKernel).                                       *)
(***************************************************************************)
EXTENDS Naturals, Sequences, SequencesExt

CONSTANTS
    Titles,
    Markers,    \* titles that name the repository, or an initialisation
    Paths,
    BatchLimit, \* 12 in the code
    MaxPlan     \* longest plan (a bound)

ASSUME TextsAssumption == BatchLimit \in Nat /\ MaxPlan \in Nat

Texts == [title : Titles, paths : SUBSET Paths]
Plans == SeqOf(Texts, MaxPlan)

-----------------------------------------------------------------------------
(* The two checks *)

NothingSeen == [titles |-> {}, paths |-> {}, conflict |-> FALSE]

See(seen, text) ==
    [titles |-> seen.titles \cup {text.title},
     paths |-> seen.paths \cup text.paths,
     conflict |-> \/ seen.conflict
                  \/ text.title \in seen.titles \/ text.paths \cap seen.paths # {}]

\* What the one pass has seen after n texts of the plan.
Scan(plan) ==
    LET scan[n \in 0..Len(plan)] ==
            IF n = 0 THEN NothingSeen ELSE See(scan[n - 1], plan[n])
    IN  scan

\* _validate_task_conflicts
InConflict(plan) == Scan(plan)[Len(plan)].conflict

\* _validate_execution_order
OutOfOrder(plan, address) ==
    ~address /\ Len(plan) > 1 /\ plan[1].title \notin Markers

Valid(plan, address) == ~InConflict(plan) /\ ~OutOfOrder(plan, address)

-----------------------------------------------------------------------------
(* The actions of the tool *)

Batch(tasks) == SubSeq(tasks, 1, IF Len(tasks) < BatchLimit THEN Len(tasks) ELSE BatchLimit)

\* A refused action answers without a plan: the old one stays
\* (_coerce_plan_from_observation).
OrElse(plan, old, fits) == IF fits THEN plan ELSE old

PlanSet(old, tasks, address) ==
    OrElse(Batch(tasks), old, tasks # <<>> /\ Valid(Batch(tasks), address))

\* Mutant of PlanAppend: the new tasks alone are checked.
PlanAppendAlone(old, tasks, address) ==
    OrElse(old \o Batch(tasks), old, tasks # <<>> /\ Valid(Batch(tasks), address))

PlanAppend(old, tasks, address) ==
    OrElse(old \o Batch(tasks), old, tasks # <<>> /\ Valid(old \o Batch(tasks), address))

PlanUpdate(old, i, text) == [old EXCEPT ![i] = text]

\* The plans a set or an append makes of one.
Checked(plan, address) ==
    {PlanSet(plan, tasks, address) : tasks \in Plans}
        \cup {PlanAppend(plan, tasks, address) :
                 tasks \in {t \in Plans : Len(t) + Len(plan) <= MaxPlan}}

\* The plans any action of the leader makes of one.
Actions(plan, address) ==
    Checked(plan, address)
        \cup {PlanUpdate(plan, i, text) : i \in DOMAIN plan, text \in Texts}

-----------------------------------------------------------------------------
(* What the checks promise *)

Apart(plan) ==
    \A i, j \in DOMAIN plan : i # j =>
        plan[i].title # plan[j].title /\ plan[i].paths \cap plan[j].paths = {}

\* The one pass finds every conflict, and nothing else.
ScanIsExact == \A plan \in Plans : InConflict(plan) <=> ~Apart(plan)

\* set and append make only plans whose texts are apart and that begin with
\* the repository or know its address, from any plan there may be, those that
\* update has put in conflict included; and a plan in conflict grows by no
\* action.
ChangesAreValid ==
    \A plan \in Plans, address \in BOOLEAN :
        /\ \A new \in Checked(plan, address) :
              new = plan \/ (Apart(new) /\ ~OutOfOrder(new, address))
        /\ \A new \in Actions(plan, address) :
              ~Apart(plan) /\ ~Apart(new) => Len(new) = Len(plan)
=============================================================================
