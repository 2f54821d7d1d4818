----------------------------- MODULE ThreadRuns -----------------------------
(***************************************************************************)
(* The runs of the runtime graph on one conversation or incident thread,   *)
(* seen through one plan item and the code workers called for it.          *)
(*                                                                         *)
(* run() loads the thread's latest checkpoint into memory, lets the leader *)
(* work on it (seconds to minutes: it asks a language model), and saves    *)
(* the whole state after the leader node and again at the end of the graph *)
(* (src/src/main.py, src/src/memory/graph_runtime.py).  Two callers start  *)
(* runs on a thread, each one run at a time: the hook pump with worker     *)
(* results, and the "front", which is a chat request on a conversation     *)
(* thread and the ingest loop on an incident thread.  Nothing in the code  *)
(* keeps the two apart: the last save wins.  With Overlap = FALSE the      *)
(* module is the system as it behaves when the two callers never meet.     *)
(*                                                                         *)
(* A run whose write meets a locked database submits its input again: the  *)
(* event on the latest checkpoint, or, if the caller began the thread with *)
(* a fresh state, that fresh state, whatever was saved meanwhile.          *)
(*                                                                         *)
(* The item is the one a task has in the plan at the moment.  The leader   *)
(* may replace the plan: then the item is gone, or listed anew under       *)
(* another task id, which results of earlier workers do not match.  The    *)
(* item of an incident has one id for good.                                *)
(*                                                                         *)
(* A worker thread reports into the memory of the run that started it, so  *)
(* its call record is closed in the checkpoint only if it ends before that *)
(* run does; otherwise the record stays in_progress until it is stale.     *)
(***************************************************************************)
EXTENDS PlanStates

CONSTANTS
    Jobs,       \* the worker calls of a behaviour (the bound of the model)
    Overlap     \* whether the two callers may have runs at the same time

ASSUME ThreadAssumption == Overlap \in BOOLEAN

VARIABLES
    saved,      \* the latest checkpoint: the item and its call records
    run,        \* per caller: the run's phase and its state in memory
    input,      \* the job whose result the pump's run delivers (at most one)
    started,    \* per caller: jobs whose record lives in the run's memory
    job,        \* the life of each worker call
    aged,       \* jobs accepted more than the stale threshold ago
    afresh,     \* the input of the front's run is a fresh state
    forgotten,  \* history: jobs whose step was never saved, or overwritten by a fresh state
    replanned,  \* history: callers whose unsaved step replaced the plan
    known,      \* the front resumes: the API knows the conversation, or the
                \* incident has a checkpoint
    kind        \* what the thread is of

jobVars == <<job, aged>>
threadVars == <<known, kind>>
vars == <<saved, run, input, started, job, aged, afresh, forgotten, replanned, known, kind>>

Callers == {"front", "pump"}
ItemStates == {"none", "pending", "in_progress", "completed", "failed"}
JobStates == {"unused", "running", "completed", "failed", "dead", "acked"}
\* calls: the jobs whose record says in_progress; own: those called for the
\* item under its present id.
Checkpoints == [item : ItemStates, calls : SUBSET Jobs, own : SUBSET Jobs]
Phases == {"idle", "loaded", "stepped", "saved"}

Incident == kind = "incident"

Fresh == [item |-> "none", calls |-> {}, own |-> {}]

TypeOK ==
    /\ saved \in Checkpoints
    /\ run \in [Callers -> [at : Phases, state : Checkpoints]]
    /\ input \in SUBSET Jobs
    /\ started \in [Callers -> SUBSET Jobs]
    /\ job \in [Jobs -> JobStates]
    /\ aged \in SUBSET Jobs
    /\ afresh \in BOOLEAN
    /\ forgotten \in SUBSET Jobs
    /\ replanned \in SUBSET Callers
    /\ known \in BOOLEAN
    /\ kind \in {"incident", "conversation"}

Init ==
    /\ saved = Fresh
    /\ run = [r \in Callers |-> [at |-> "idle", state |-> Fresh]]
    /\ input = {}
    /\ started = [r \in Callers |-> {}]
    /\ job = [j \in Jobs |-> "unused"]
    /\ aged = {}
    /\ afresh = FALSE
    /\ forgotten = {}
    /\ replanned = {}
    /\ known = FALSE
    /\ kind \in {"incident", "conversation"}

-----------------------------------------------------------------------------
(* Starting a run *)

MayStart(r) ==
    /\ run[r].at = "idle"
    /\ Overlap \/ \A q \in Callers : run[q].at = "idle"

Load(r, state) == run' = [run EXCEPT ![r] = [at |-> "loaded", state |-> state]]

\* A chat message for a conversation the API knows, or a wake-up of an
\* incident that has a checkpoint: resume = TRUE.
FrontLoads ==
    /\ known
    /\ MayStart("front")
    /\ Load("front", saved)
    /\ UNCHANGED <<saved, input, started, jobVars, afresh, forgotten, replanned, threadVars>>

\* The first chat message since the backend started, or the first wake-up of
\* an incident: resume = FALSE, the input is a fresh state and replaces
\* whatever the thread had.
FrontStartsAfresh ==
    /\ ~known
    /\ MayStart("front")
    /\ known' = TRUE
    /\ afresh' = TRUE
    /\ saved' = Fresh
    /\ Load("front", Fresh)
    /\ UNCHANGED <<input, started, jobVars, forgotten, replanned, kind>>

PumpLoads(j) ==
    /\ MayStart("pump")
    /\ job[j] \in {"completed", "failed"}
    /\ input' = {j}
    /\ Load("pump", saved)
    /\ UNCHANGED <<saved, started, jobVars, afresh, forgotten, replanned, threadVars>>

-----------------------------------------------------------------------------
(* The leader's step, in memory only *)

\* list_plan set replaces the plan; append may list a task the plan lacks.
\* A new id knows no workers; the item of an incident is not listed anew.
Relisted(state) ==
    {[state EXCEPT !.item = "none", !.own = {}]} \cup
    IF Incident THEN {} ELSE {[state EXCEPT !.item = "pending", !.own = {}]}

Steps(r, state) ==
    /\ run' = [run EXCEPT ![r] = [at |-> "stepped", state |-> state]]
    /\ UNCHANGED <<saved, input, afresh, forgotten, aged, threadVars>>

\* Mutant of Called: the call is not recorded.
CalledUnrecorded(state, j) ==
    [state EXCEPT !.item = Transition(@, "in_progress"), !.own = @ \cup {j}]

\* call_code_worker on the item: the call is recorded in the run's memory.
Called(state, j) ==
    [state EXCEPT !.item = Transition(@, "in_progress"), !.own = @ \cup {j},
                  !.calls = @ \cup {j}]

\* ... and a daemon thread starts.
Starts(r, j) ==
    /\ job[j] = "unused"
    /\ job' = [job EXCEPT ![j] = "running"]
    /\ started' = [started EXCEPT ![r] = @ \cup {j}]

NoStart == UNCHANGED <<job, started>>

\* Mutant of Active: the age test the wrong way round.
ActiveIfStale(state) == state.calls \cap aged # {}

\* _has_active_code_worker_call
Active(state) == state.calls \ aged # {}

\* The incident branch of leader_node.
IncidentStep ==
    LET state == run["front"].state
        reopened == [state EXCEPT !.item = "pending"]
    IN  /\ Incident
        /\ run["front"].at = "loaded"
        /\ UNCHANGED replanned
        /\ IF Active(state)
           THEN Steps("front", IF state.item = "in_progress" THEN state ELSE reopened) /\ NoStart
           ELSE \/ \E j \in Jobs : Steps("front", Called(reopened, j)) /\ Starts("front", j)
                \/ Steps("front", reopened) /\ NoStart      \* the tool refused

\* The leader's planning loop on a plan in memory: the language model may
\* replace the plan, before or after it calls a worker for the item whatever
\* its status, or do neither.
Plans(r, state) ==
    LET Outcomes(s) == {s} \cup Relisted(s)
    IN  \E before \in Outcomes(state) :
            \/ Steps(r, before) /\ NoStart
               /\ replanned' = IF before = state THEN replanned ELSE replanned \cup {r}
            \/ \E j \in Jobs : \E after \in Outcomes(Called(before, j)) :
                  /\ before.item # "none"
                  /\ Steps(r, after) /\ Starts(r, j)
                  /\ replanned' = IF before = state /\ after = Called(before, j)
                                  THEN replanned ELSE replanned \cup {r}

\* A chat message goes straight to the planning loop.
ChatStep ==
    /\ ~Incident
    /\ run["front"].at = "loaded"
    /\ Plans("front", run["front"].state)

\* Whether the task id of a result is the item's; the id of a worker that was
\* forgotten may have been given away again.
Matches(j, state) ==
    IF Incident \/ j \in state.own THEN {TRUE}
    ELSE IF j \in forgotten THEN BOOLEAN ELSE {FALSE}

\* on_subagent_result, then the planning loop.
ResultStep ==
    \E j \in input : \E matches \in Matches(j, run["pump"].state) :
        /\ run["pump"].at = "loaded"
        /\ Plans("pump", IF matches
                         THEN [run["pump"].state EXCEPT !.item = Transition(@, job[j])]
                         ELSE run["pump"].state)

-----------------------------------------------------------------------------
(* Saving and ending a run *)

\* The checkpoint after the leader node.
SaveStep(r) ==
    /\ run[r].at = "stepped"
    /\ saved' = run[r].state
    /\ run' = [run EXCEPT ![r].at = "saved"]
    /\ replanned' = replanned \ {r}
    /\ UNCHANGED <<input, started, jobVars, afresh, forgotten, threadVars>>

Leave(r) ==
    /\ run' = [run EXCEPT ![r] = [at |-> "idle", state |-> Fresh]]
    /\ started' = [started EXCEPT ![r] = {}]
    /\ input' = IF r = "pump" THEN {} ELSE input
    /\ afresh' = (afresh /\ r # "front")
    /\ replanned' = replanned \ {r}

\* "database is locked", before or after the leader's step was saved: the same
\* input is submitted again.  A fresh state takes the place of the checkpoint,
\* and the workers of the first attempt are forgotten.
RetryStep(r) ==
    LET fresh == afresh /\ r = "front"
        state == IF fresh THEN Fresh ELSE saved
    IN  /\ run[r].at \in {"stepped", "saved"}
        /\ Load(r, state)
        /\ saved' = state
        /\ started' = [started EXCEPT ![r] = {}]
        /\ forgotten' = IF fresh \/ run[r].at = "stepped"
                        THEN forgotten \cup started[r] ELSE forgotten
        /\ replanned' = replanned \ {r}
        /\ UNCHANGED <<input, jobVars, afresh, threadVars>>

\* The run raises: before its step, or with the step unsaved, or later.  The
\* front drops its event, the pump requeues the result.
RunFails(r) ==
    /\ run[r].at # "idle"
    /\ Leave(r)
    /\ forgotten' = IF run[r].at = "stepped" THEN forgotten \cup started[r] ELSE forgotten
    /\ UNCHANGED <<saved, jobVars, threadVars>>

\* The checkpoint at the end of the graph; then the pump acks the result,
\* unless storing the reply raises and the pump dies before it can.
RunEnds(r) ==
    /\ run[r].at = "saved"
    /\ saved' = run[r].state
    /\ Leave(r)
    /\ \/ job' = [j \in Jobs |-> IF r = "pump" /\ j \in input THEN "acked" ELSE job[j]]
       \/ r = "pump" /\ UNCHANGED job
    /\ UNCHANGED <<aged, forgotten, threadVars>>

-----------------------------------------------------------------------------
(* Workers, time and restarts *)

\* The worker reports: its record is closed in the memory of the run that
\* started it, if that run is not over, and the result is pushed.
WorkerEnds(j) ==
    /\ job[j] = "running"
    /\ \E result \in {"completed", "failed"} : job' = [job EXCEPT ![j] = result]
    /\ run' = [r \in Callers |->
                  IF j \in started[r] THEN [run[r] EXCEPT !.state.calls = @ \ {j}]
                  ELSE run[r]]
    /\ UNCHANGED <<saved, input, started, aged, afresh, forgotten, replanned, threadVars>>

\* The worker thread raises: no report, no result.
WorkerDies(j) ==
    /\ job[j] = "running"
    /\ job' = [job EXCEPT ![j] = "dead"]
    /\ UNCHANGED <<saved, run, input, started, aged, afresh, forgotten, replanned, threadVars>>

Ages(j) ==
    /\ job[j] # "unused"
    /\ j \notin aged
    /\ aged' = aged \cup {j}
    /\ UNCHANGED <<saved, run, input, started, job, afresh, forgotten, replanned, threadVars>>

\* The backend dies and starts again: runs, threads and queued results are
\* gone, the checkpoint is not.
Restart ==
    /\ run' = [r \in Callers |-> [at |-> "idle", state |-> Fresh]]
    /\ input' = {}
    /\ started' = [r \in Callers |-> {}]
    /\ job' = [j \in Jobs |-> IF job[j] \in {"running", "completed", "failed"}
                              THEN "dead" ELSE job[j]]
    /\ afresh' = FALSE
    /\ forgotten' = forgotten \cup
                    UNION {IF run[r].at = "stepped" THEN started[r] ELSE {} : r \in Callers}
    /\ replanned' = {}
    /\ known' = (Incident /\ known)
    /\ UNCHANGED <<saved, aged, kind>>

-----------------------------------------------------------------------------
Next ==
    \/ FrontLoads \/ FrontStartsAfresh
    \/ IncidentStep \/ ChatStep \/ ResultStep
    \/ \E r \in Callers : SaveStep(r) \/ RetryStep(r) \/ RunFails(r) \/ RunEnds(r)
    \/ \E j \in Jobs : PumpLoads(j) \/ WorkerEnds(j) \/ WorkerDies(j) \/ Ages(j)
    \/ Restart

Spec == Init /\ [][Next]_vars

(***************************************************************************)
(* Fairness.  Workers end; a run is awaited and comes to an end, well or   *)
(* badly (LOCK_RETRY_LIMIT bounds its reruns); the pump offers a result    *)
(* again until a run delivers it, and a delivery that is tried for ever    *)
(* gets through its step, its save and its ack in the end.                 *)
(***************************************************************************)
Fairness ==
    /\ \A j \in Jobs : WF_vars(WorkerEnds(j)) /\ SF_vars(PumpLoads(j))
    /\ \A r \in Callers : WF_vars(RunFails(r) \/ RunEnds(r))
    /\ SF_vars(ResultStep) /\ SF_vars(SaveStep("pump"))
    /\ SF_vars(RunEnds("pump") /\ job' # job)

-----------------------------------------------------------------------------
(* Properties *)

Live == {j \in Jobs : job[j] \in {"running", "completed", "failed"}}
Dead == {j \in Jobs : job[j] = "dead"}

\* The workers called for the item as a state has it that still run, wait to
\* report, or died without a word.
Backing(state) == {j \in Live \cup Dead : Incident \/ j \in state.own}

\* A saved item that is in progress is backed by a worker called for it that
\* still runs, by a result that is still to be delivered, or by a worker that
\* died without a word: it is never left in progress by a delivered result,
\* however often the plan was replaced or the run retried.
InProgressIsBacked == saved.item = "in_progress" => Backing(saved) # {}

\* The incident branch never puts a second worker beside one that is at work,
\* as long as that one is not stale and its dispatch was not forgotten.
IncidentDispatchIsExclusive ==
    [][IncidentStep /\ job' # job =>
          \A j \in Jobs : job[j] = "running" => j \in aged \cup forgotten]_vars

\* "completed is terminal", said plan_state_machine.py, but for three ways
\* past it: the first chat message after a restart forgets the item, the
\* incident branch of the front's run reopens it, and the leader replaces the
\* plan.  No late result, no worker called again for a completed item, no
\* rerun and no failing run takes it back.
CompletedStands ==
    [][saved.item = "completed" /\ saved'.item # "completed"
         => \/ FrontStartsAfresh
            \/ Incident /\ SaveStep("front")
            \/ \E r \in replanned : SaveStep(r)]_vars

\* Every worker at work has its record in the checkpoint, so that later runs
\* can see it, once its step was saved and no rerun put a fresh state over it.
RunningIsRecorded ==
    \A j \in Jobs :
        job[j] = "running" /\ j \notin forgotten
        /\ (\A r \in Callers : run[r].at = "stepped" => j \notin started[r])
        => j \in saved.calls

\* The leader calling the worker tool (again).
Dispatches == \E j \in Jobs : job[j] = "unused" /\ job'[j] = "running"

\* An item in progress does not stay so: the result of its worker reaches
\* the checkpoint, however many runs fail before, unless a worker dies
\* without reporting (by itself or with the backend) or the leader redispatches
\* a failing item for ever.
InProgressEnds ==
    <>[][~Dispatches]_vars =>
        (saved.item = "in_progress" ~> saved.item # "in_progress" \/ Dead # {})
=============================================================================
