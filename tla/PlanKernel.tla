----------------------------- MODULE PlanKernel -----------------------------
(***************************************************************************)
(* The plan of one thread and the leader's reasoning loop that edits it.   *)
(*                                                                         *)
(* The plan is a list of items with ids task-0001, task-0002, ...; the     *)
(* counter behind the ids is stored in the workflow, beside the plan, and  *)
(* is absent until the first task is made (src/src/tools/list_plan_tool.py).*)
(* In every run the leader asks a language model, at most MaxSteps times,  *)
(* to replace the plan, append to it or call a worker for an item          *)
(* (src/src/agents/leader_events.py).  A worker's result comes back in a   *)
(* later run and names its item by id only.  A run whose write meets a     *)
(* locked database submits its input again, on the latest checkpoint, or,  *)
(* if the input is a fresh state, in place of it.                          *)
(*                                                                         *)
(* Every task ever put into a plan has an identity here that the code does *)
(* not have: comparing it with the id tells whether a result reaches the   *)
(* task it was produced for.  Runs are one at a time; ThreadRuns has the   *)
(* overlap of runs, the steps of saving and the age of worker records.     *)
(* PlanTexts has what the tool checks in the texts of a plan, which are    *)
(* not part of the state: the actions take any plan.                       *)
(***************************************************************************)
EXTENDS Integers, FiniteSets, PlanStates, PlanTexts

CONSTANTS
    Jobs,       \* the worker calls of a behaviour (a bound of the model)
    MaxSteps,   \* MAX_LEADER_STEPS
    MaxBatch,   \* tasks one tool call may make (12 in the code)
    MaxTasks    \* tasks made in a behaviour (a bound of the model)

ASSUME KernelAssumption ==
    MaxSteps \in Nat /\ MaxBatch \in Nat /\ MaxTasks \in Nat

VARIABLES
    incident,   \* an incident thread, or else a conversation
    known,      \* the API knows the conversation, or the incident has a
                \* checkpoint: the front resumes it
    saved,      \* the checkpoint: the plan and the number of the last id
    mem,        \* the same in the memory of the run under way
    phase,      \* what the run does
    afresh,     \* its input is a fresh state
    steps,      \* reasoning steps it has taken
    input,      \* the job whose result it delivers (at most one)
    started,    \* the jobs it has started
    job,        \* per worker call: its state, item id and task
    settled,    \* jobs whose result was acked, or cleared by a restart
    stray,      \* history: jobs whose run was never saved, or repeated from a
                \* fresh state
    made        \* history: how many tasks have been made

vars == <<incident, known, saved, mem, phase, afresh, steps, input, started, job,
          settled, stray, made>>

Absent == -1
Statuses == {"pending", "in_progress", "completed", "failed"}
JobStates == {"unused", "running", "completed", "failed", "dead"}
Items == [id : Nat, task : Nat, status : Statuses]

\* The item of an incident thread: id incident-<fingerprint>, 0 here.
IncidentItem(s) == [id |-> 0, task |-> 0, status |-> s]

Fresh == [plan |-> {}, number |-> Absent]
Unused == [state |-> "unused", id |-> 0, task |-> 0]

States == [plan : SUBSET Items, number : Nat \cup {Absent}]

TypeOK ==
    /\ incident \in BOOLEAN /\ known \in BOOLEAN
    /\ saved \in States /\ mem \in States
    /\ phase \in {"idle", "leader", "stepped", "saved"} /\ afresh \in BOOLEAN
    /\ steps \in 0..MaxSteps
    /\ input \in SUBSET Jobs /\ started \in SUBSET Jobs
    /\ job \in [Jobs -> [state : JobStates, id : Nat, task : Nat]]
    /\ settled \in SUBSET Jobs /\ stray \in SUBSET Jobs
    /\ made \in 0..MaxTasks

Init ==
    /\ incident \in BOOLEAN
    /\ known = FALSE
    /\ saved = Fresh /\ mem = Fresh
    /\ phase = "idle" /\ afresh = FALSE /\ steps = 0
    /\ input = {} /\ started = {}
    /\ job = [j \in Jobs |-> Unused]
    /\ settled = {} /\ stray = {}
    /\ made = 0

-----------------------------------------------------------------------------
(* Plan items *)

\* The plan with the items of that id moved to t, where that is allowed.
Marked(plan, id, t) ==
    {IF x.id = id THEN [x EXCEPT !.status = Transition(@, t)] ELSE x : x \in plan}

NewItems(base, n) ==
    {[id |-> base + k, task |-> made + k, status |-> "pending"] : k \in 1..n}

\* Mutant of SetBase: numbering starts again with every plan.
SetBaseZero(m) == 0

\* The number after which list_plan.set, and list_plan.append, go on.
SetBase(m) == IF m.number = Absent THEN 0 ELSE m.number

\* Mutant of AppendBase: numbering goes on from the length of the plan.
AppendBaseLength(m) == Cardinality(m.plan)

AppendBase(m) == IF m.number = Absent THEN Cardinality(m.plan) ELSE m.number

-----------------------------------------------------------------------------
(* Starting a run *)

StartLeader(m, fresh) ==
    /\ phase = "idle"
    /\ phase' = "leader"
    /\ afresh' = fresh
    /\ mem' = m
    /\ steps' = 0
    /\ started' = {}

\* A chat message for a conversation the API knows, or a wake-up of an
\* incident that has a checkpoint.
FrontResumes ==
    /\ known
    /\ StartLeader(saved, FALSE)
    /\ UNCHANGED <<incident, known, saved, input, job, settled, stray, made>>

\* The first chat message since the backend started, or the first wake-up of
\* the incident: a fresh state.
FrontStartsAfresh ==
    /\ ~known
    /\ known' = TRUE
    /\ saved' = Fresh
    /\ StartLeader(Fresh, TRUE)
    /\ UNCHANGED <<incident, input, job, settled, stray, made>>

\* on_subagent_result: the items with the result's id are moved, if the
\* state machine allows, and the leader goes on planning.
WithResult(m, j) == [m EXCEPT !.plan = Marked(@, job[j].id, job[j].state)]

Deliver(j) ==
    /\ job[j].state \in {"completed", "failed"}
    /\ j \notin settled
    /\ StartLeader(WithResult(saved, j), FALSE)
    /\ input' = {j}
    /\ UNCHANGED <<incident, known, saved, job, settled, stray, made>>

Started(j, id, task) ==
    /\ job[j].state = "unused"
    /\ job' = [job EXCEPT ![j] = [state |-> "running", id |-> id, task |-> task]]
    /\ started' = started \cup {j}

\* The incident branch of leader_node: the incident's item is found or made,
\* and a worker called for it unless one is at work (a free choice here: the
\* test is in ThreadRuns) or the tool refuses.
IncidentStep ==
    /\ incident /\ input = {}
    /\ phase = "leader"
    /\ phase' = "stepped"
    /\ LET others == {x \in mem.plan : x.id # 0}
           With(plan) == mem' = [mem EXCEPT !.plan = plan]
       IN  \/ /\ With(others \cup {IncidentItem("pending")})
              /\ UNCHANGED <<job, started>>
           \/ /\ IncidentItem("in_progress") \in mem.plan
              /\ UNCHANGED <<mem, job, started>>
           \/ /\ With(others \cup {IncidentItem("in_progress")})
              /\ \E j \in Jobs : Started(j, 0, 0)
    /\ UNCHANGED <<incident, known, saved, afresh, steps, input, settled, stray, made>>

-----------------------------------------------------------------------------
(* The reasoning loop *)

\* A chat message or a result is thought about; a wake-up is not.
Planning == phase = "leader" /\ (incident => input # {})

Reasons ==
    /\ Planning
    /\ steps < MaxSteps
    /\ steps' = steps + 1
    /\ UNCHANGED <<incident, known, saved, phase, afresh, input, settled, stray>>

\* list_plan.set: the tasks replace the plan.
SetPlan(n) ==
    /\ Reasons
    /\ made + n <= MaxTasks
    /\ mem' = [plan |-> NewItems(SetBase(mem), n), number |-> SetBase(mem) + n]
    /\ made' = made + n
    /\ UNCHANGED <<started, job>>

\* list_plan.append
AppendPlan(n) ==
    /\ Reasons
    /\ made + n <= MaxTasks
    /\ mem' = [plan |-> mem.plan \cup NewItems(AppendBase(mem), n),
               number |-> AppendBase(mem) + n]
    /\ made' = made + n
    /\ UNCHANGED <<started, job>>

\* call_code_worker for an existing item, whatever its status.
CallWorker(i) ==
    /\ Reasons
    /\ \E j \in Jobs : Started(j, i.id, i.task)
    /\ mem' = [mem EXCEPT !.plan = Marked(@, i.id, "in_progress")]
    /\ UNCHANGED made

\* list_plan.update, which edits texts, and every refused action.
ChangesNothing ==
    /\ Reasons
    /\ UNCHANGED <<mem, started, job, made>>

\* A reply, the same action twice in a row, or the limit on steps.
Finish ==
    /\ Planning
    /\ phase' = "stepped"
    /\ UNCHANGED <<incident, known, saved, mem, afresh, steps, input, started, job,
                   settled, stray, made>>

-----------------------------------------------------------------------------
(* Ending a run *)

Idle ==
    /\ phase' = "idle" /\ mem' = Fresh /\ afresh' = FALSE /\ steps' = 0
    /\ input' = {} /\ started' = {}

\* The checkpoint after the leader node.
SaveStep ==
    /\ phase = "stepped"
    /\ phase' = "saved"
    /\ saved' = mem
    /\ UNCHANGED <<incident, known, mem, afresh, steps, input, started, job,
                   settled, stray, made>>

\* The graph ends and the result is acked, unless the pump dies between the
\* two.
RunEnds ==
    /\ phase = "saved"
    /\ Idle
    /\ settled' \in {settled, settled \cup input}
    /\ UNCHANGED <<incident, known, saved, job, stray, made>>

\* "database is locked": the same input is submitted again; the workers the
\* run started go on.
RunsAgain ==
    LET m == IF afresh THEN Fresh ELSE saved
    IN  /\ phase \in {"stepped", "saved"}
        /\ phase' = "leader" /\ steps' = 0 /\ started' = {}
        /\ saved' = m
        /\ mem' \in IF input = {} THEN {m} ELSE {WithResult(m, j) : j \in input}
        /\ stray' = IF afresh \/ phase = "stepped" THEN stray \cup started ELSE stray
        /\ UNCHANGED <<incident, known, afresh, input, job, settled, made>>

\* The run raises, before or after its step was saved; the workers it started
\* go on.
RunFails ==
    /\ phase # "idle"
    /\ Idle
    /\ stray' = IF phase = "saved" THEN stray ELSE stray \cup started
    /\ UNCHANGED <<incident, known, saved, job, settled, made>>

-----------------------------------------------------------------------------
(* Workers and restarts *)

\* Every worker pushes a result, or dies without one.
WorkerEnds(j) ==
    /\ job[j].state = "running"
    /\ \E s \in {"completed", "failed", "dead"} :
          job' = [job EXCEPT ![j].state = s]
    /\ UNCHANGED <<incident, known, saved, mem, phase, afresh, steps, input, started,
                   settled, stray, made>>

\* The backend dies and starts again: the run and the workers are gone, the
\* starting API clears the bus.
Restart ==
    /\ Idle
    /\ known' = (incident /\ known)
    /\ job' = [j \in Jobs |-> IF job[j].state = "running"
                              THEN [job[j] EXCEPT !.state = "dead"] ELSE job[j]]
    /\ settled' = settled \cup {j \in Jobs : job[j].state \in {"completed", "failed"}}
    /\ stray' = IF phase = "saved" THEN stray ELSE stray \cup started
    /\ UNCHANGED <<incident, saved, made>>

-----------------------------------------------------------------------------
Next ==
    \/ FrontResumes \/ FrontStartsAfresh \/ IncidentStep
    \/ \E n \in 1..MaxBatch : SetPlan(n) \/ AppendPlan(n)
    \/ \E i \in mem.plan : CallWorker(i)
    \/ ChangesNothing \/ Finish
    \/ SaveStep \/ RunEnds \/ RunsAgain \/ RunFails
    \/ \E j \in Jobs : Deliver(j) \/ WorkerEnds(j)
    \/ Restart

Spec == Init /\ [][Next]_vars

-----------------------------------------------------------------------------
(* Properties *)

Distinct(plan) == \A x, y \in plan : x.id = y.id => x = y

\* No two items of a plan share an id, although ids restart with the
\* counter absent, set and append take its value from different places, and
\* an incident's item comes from outside the counter.
IdsUnique == Distinct(saved.plan) /\ Distinct(mem.plan)

\* An outcome shown by an item was produced for the task of that item: a
\* worker of that task reported it, in spite of plans replaced and extended
\* while workers ran, of results delivered twice, of reruns and of restarts.
\* The one way round: a worker whose run was never saved, or began again from
\* a fresh state, can hit the item that took its id.
OutcomeIsOwn ==
    \A x \in saved.plan :
        x.status \in {"completed", "failed"} =>
            \E j \in Jobs :
                /\ job[j].state = x.status
                /\ \/ job[j].task = x.task
                   \/ j \in stray /\ job[j].id = x.id

\* The one pass of list_plan over a plan that has tasks finds every pair of
\* tasks with one title or one path, and no other; set and append never put
\* into a plan what they refuse, even if what was in it before would be
\* refused now; and a plan that update, which is not checked, has put in
\* conflict grows no more until set or another update ends the conflict
\* (_validate_task_conflicts, _set, _append, _update).
PlansAreValid == made > 0 => ScanIsExact /\ ChangesAreValid
=============================================================================
