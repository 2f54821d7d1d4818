-------------------------- MODULE ThreadRunsProofs --------------------------
(***************************************************************************)
(* Proofs about ThreadRuns for any set of worker calls, for incident and   *)
(* conversation threads, under the assumption that the two callers never   *)
(* have runs on the thread at the same time.  (With overlapping runs the   *)
(* properties are false: see the run thread_lost_result.)                  *)
(***************************************************************************)
EXTENDS ThreadRuns, TLAPS

\* One run at a time; a run has started nothing before its leader's step;
\* the result it delivers is still undelivered.
OneRun ==
    /\ \A q, r \in Callers : run[q].at # "idle" /\ run[r].at # "idle" => q = r
    /\ \A r \in Callers : run[r].at \in {"idle", "loaded"} => started[r] = {}
    /\ \A j \in input : input = {j} /\ job[j] \in {"completed", "failed"}

\* A thread the front does not resume has neither runs nor workers at work,
\* which is why replacing its checkpoint by a fresh one forgets no worker.
UnknownIsQuiet ==
    ~known =>
        /\ \A r \in Callers : run[r].at = "idle"
        /\ Live = {}

\* While the front's run may be rerun from a fresh state, every worker at work
\* is one it started itself or one that is forgotten already.
AfreshIsAlone ==
    afresh =>
        /\ run["front"].at # "idle"
        /\ \A j \in Jobs : job[j] = "running" => j \in started["front"] \cup forgotten

\* A run's memory knows the workers at work, and has a reason to consider
\* the item in progress other than the result it is delivering.
MemoryIsCurrent ==
    \A r \in Callers :
        run[r].at # "idle" =>
            /\ \A j \in Jobs :
                  job[j] = "running" /\ j \notin forgotten => j \in run[r].state.calls
            /\ run[r].state.item = "in_progress" =>
                  /\ Backing(run[r].state) # {}
                  /\ r = "pump" /\ run[r].at \in {"stepped", "saved"} =>
                        Backing(run[r].state) \ input # {}

IInv ==
    /\ TypeOK /\ OneRun /\ UnknownIsQuiet /\ AfreshIsAlone /\ MemoryIsCurrent
    /\ InProgressIsBacked /\ RunningIsRecorded

USE DEF Callers, Incident

\* The fresh thread satisfies the invariant.
LEMMA InitInv == Init => IInv
<1> SUFFICES ASSUME Init PROVE IInv
  OBVIOUS
<1> USE DEF Init, Fresh
<1>1. TypeOK
  <2>1. Fresh \in Checkpoints
    BY DEF Checkpoints, ItemStates
  <2>2. run \in [Callers -> [at : Phases, state : Checkpoints]]
    BY <2>1 DEF Phases
  <2>3. job \in [Jobs -> JobStates]
    BY DEF JobStates
  <2> QED
    BY <2>1, <2>2, <2>3 DEF TypeOK
<1>2. OneRun /\ UnknownIsQuiet /\ AfreshIsAlone /\ MemoryIsCurrent
  BY DEF OneRun, UnknownIsQuiet, AfreshIsAlone, MemoryIsCurrent, Live
<1>3. InProgressIsBacked /\ RunningIsRecorded
  BY DEF InProgressIsBacked, RunningIsRecorded
<1> QED
  BY <1>1, <1>2, <1>3 DEF IInv

\* What the planning loop makes of a plan in memory: without a call the item
\* as it was or listed anew, with a call of j the call recorded and the item,
\* if it is in progress under its id, j's.
Planned(state, next) ==
    /\ next.calls = state.calls
    /\ \/ next = state
       \/ next.item \in {"none", "pending"}

PlannedWith(state, next, j) ==
    /\ next.calls = state.calls \cup {j}
    /\ next.item = "in_progress" => j \in next.own
    /\ next.item = "completed" => state.item = "completed"

LEMMA PlansDo ==
    ASSUME NEW r \in Callers, NEW state \in Checkpoints, Plans(r, state)
    PROVE  \E next \in Checkpoints :
              /\ Steps(r, next)
              /\ replanned' = replanned \/ replanned' = replanned \cup {r}
              /\ state.item = "completed" /\ next.item # "completed" => r \in replanned'
              /\ \/ NoStart /\ Planned(state, next)
                 \/ \E j \in Jobs : Starts(r, j) /\ PlannedWith(state, next, j)
<1> DEFINE Outcomes(s) == {s} \cup Relisted(s)
<1>1. \A s \in Checkpoints : \A t \in Outcomes(s) :
         /\ t \in Checkpoints
         /\ t.calls = s.calls
         /\ t = s \/ t.item \in {"none", "pending"}
  BY DEF Relisted, Checkpoints, ItemStates
<1>2. \A s \in Checkpoints, j \in Jobs :
         /\ Called(s, j) \in Checkpoints
         /\ Called(s, j).calls = s.calls \cup {j}
         /\ j \in Called(s, j).own
         /\ Called(s, j).item = "completed" <=> s.item = "completed"
  BY DEF Called, Checkpoints, ItemStates, Transition, Allowed
<1>3. PICK before \in Outcomes(state) :
         \/ Steps(r, before) /\ NoStart
            /\ replanned' = IF before = state THEN replanned ELSE replanned \cup {r}
         \/ \E j \in Jobs : \E after \in Outcomes(Called(before, j)) :
               /\ Steps(r, after) /\ Starts(r, j)
               /\ replanned' = IF before = state /\ after = Called(before, j)
                               THEN replanned ELSE replanned \cup {r}
  BY DEF Plans
<1>4. /\ before \in Checkpoints
      /\ before.calls = state.calls
      /\ before = state \/ before.item \in {"none", "pending"}
  BY <1>1
<1> HIDE DEF Outcomes
<1>5. CASE Steps(r, before) /\ NoStart
           /\ replanned' = IF before = state THEN replanned ELSE replanned \cup {r}
  BY <1>4, <1>5 DEF Planned
<1>6. ASSUME NEW j \in Jobs, NEW after \in Outcomes(Called(before, j)),
             Steps(r, after), Starts(r, j),
             replanned' = IF before = state /\ after = Called(before, j)
                          THEN replanned ELSE replanned \cup {r}
      PROVE  \E next \in Checkpoints :
              /\ Steps(r, next)
              /\ replanned' = replanned \/ replanned' = replanned \cup {r}
              /\ state.item = "completed" /\ next.item # "completed" => r \in replanned'
              /\ \/ NoStart /\ Planned(state, next)
                 \/ \E k \in Jobs : Starts(r, k) /\ PlannedWith(state, next, k)
  <2>1. /\ after \in Checkpoints
        /\ after.calls = state.calls \cup {j}
        /\ after = Called(before, j) \/ after.item \in {"none", "pending"}
    BY <1>1, <1>2, <1>4
  <2>2. PlannedWith(state, after, j)
    BY <1>2, <1>4, <2>1 DEF PlannedWith
  <2>3. state.item = "completed" /\ after.item # "completed" => r \in replanned'
    BY <1>2, <1>4, <1>6
  <2> QED
    BY <1>6, <2>1, <2>2, <2>3
<1> QED
  BY <1>3, <1>5, <1>6

\* A leader's step that starts no worker preserves the invariant if the item
\* it leaves in progress is backed by more than the result it delivers.
LEMMA QuietStepInv ==
    ASSUME IInv, NEW r \in Callers, NEW next \in Checkpoints,
           run[r].at = "loaded", Steps(r, next), NoStart, replanned' \in SUBSET Callers,
           next.calls = run[r].state.calls,
           next.item = "in_progress" =>
               Backing(next) # {} /\ (r = "pump" => Backing(next) \ input # {})
    PROVE  IInv'
<1> USE DEF IInv, TypeOK, Phases, Steps, NoStart, threadVars
<1>1. TypeOK'
  OBVIOUS
<1>2. OneRun' /\ UnknownIsQuiet' /\ AfreshIsAlone'
  BY DEF OneRun, UnknownIsQuiet, AfreshIsAlone, Live
<1>3. \A q \in Callers : run'[q] = IF q = r THEN [at |-> "stepped", state |-> next] ELSE run[q]
  OBVIOUS
<1>4. \A q \in Callers \ {r} : run[q].at = "idle"
  BY DEF OneRun
<1>5. Backing(next)' = Backing(next)
  BY DEF Backing, Live, Dead
<1>6. MemoryIsCurrent'
  BY <1>3, <1>4, <1>5 DEF MemoryIsCurrent
<1>7. InProgressIsBacked' /\ RunningIsRecorded'
  BY <1>3 DEF InProgressIsBacked, RunningIsRecorded, Backing, Live, Dead
<1> QED
  BY <1>1, <1>2, <1>6, <1>7

\* So does one that records the worker it starts, if the item it leaves in
\* progress is that worker's.
LEMMA CallStepInv ==
    ASSUME IInv, NEW r \in Callers, NEW next \in Checkpoints, NEW j \in Jobs,
           run[r].at = "loaded", Steps(r, next), Starts(r, j), replanned' \in SUBSET Callers,
           next.calls = run[r].state.calls \cup {j},
           next.item = "in_progress" => Incident \/ j \in next.own
    PROVE  IInv'
<1> USE DEF IInv, TypeOK, Phases, Steps, Starts, threadVars
<1>1. TypeOK'
  BY DEF JobStates
<1>2. \A q \in Callers : run'[q] = IF q = r THEN [at |-> "stepped", state |-> next] ELSE run[q]
  OBVIOUS
<1>3. \A q \in Callers \ {r} : run[q].at = "idle"
  BY DEF OneRun
<1>4. /\ \A k \in Jobs : job'[k] = IF k = j THEN "running" ELSE job[k]
      /\ \A q \in Callers : started'[q] = IF q = r THEN started[q] \cup {j} ELSE started[q]
      /\ j \notin input
  BY DEF OneRun
<1>5. OneRun'
  BY <1>2, <1>3, <1>4 DEF OneRun
<1>6. UnknownIsQuiet'
  BY DEF UnknownIsQuiet
<1>7. AfreshIsAlone'
  <2>1. afresh => r = "front"
    BY <1>3 DEF AfreshIsAlone
  <2> QED
    BY <1>2, <1>4, <2>1 DEF AfreshIsAlone
<1>8. next.item = "in_progress" => j \in Backing(next)' \ input'
  BY <1>4 DEF Backing, Live
<1>9. MemoryIsCurrent'
  <2>1. \A k \in Jobs :
           job'[k] = "running" /\ k \notin forgotten' => k \in next.calls
    BY <1>4 DEF MemoryIsCurrent
  <2>2. next.item = "in_progress" => Backing(next)' # {} /\ Backing(next)' \ input' # {}
    BY <1>8
  <2> QED
    BY <1>2, <1>3, <2>1, <2>2 DEF MemoryIsCurrent
<1>10. InProgressIsBacked'
  BY <1>4 DEF InProgressIsBacked, Backing, Live, Dead
<1>11. RunningIsRecorded'
  BY <1>2, <1>4 DEF RunningIsRecorded
<1> QED
  BY <1>1, <1>5, <1>6, <1>7, <1>9, <1>10, <1>11

\* Every step preserves it if runs do not overlap.
LEMMA NextInv == ASSUME ~Overlap PROVE IInv /\ [Next]_vars => IInv'
<1> SUFFICES ASSUME IInv, [Next]_vars PROVE IInv'
  OBVIOUS
<1> USE ThreadAssumption
    DEF IInv, TypeOK, Checkpoints, ItemStates, JobStates, Phases, OneRun,
        UnknownIsQuiet, AfreshIsAlone, MemoryIsCurrent, InProgressIsBacked,
        RunningIsRecorded, Backing, Live, Dead, Fresh, MayStart, Load, jobVars, threadVars
<1>1. CASE FrontLoads
  BY <1>1 DEF FrontLoads
<1>2. CASE FrontStartsAfresh
  BY <1>2 DEF FrontStartsAfresh
<1>3. ASSUME NEW j \in Jobs, PumpLoads(j) PROVE IInv'
  BY <1>3 DEF PumpLoads
<1>4. CASE IncidentStep
  <2> DEFINE state == run["front"].state
             reopened == [state EXCEPT !.item = "pending"]
  <2>1. state \in Checkpoints /\ reopened \in Checkpoints
    OBVIOUS
  <2>2. CASE Steps("front", IF state.item = "in_progress" THEN state ELSE reopened) /\ NoStart
    BY <1>4, <2>1, <2>2, QuietStepInv DEF IncidentStep
  <2>3. ASSUME NEW j \in Jobs, Steps("front", Called(reopened, j)), Starts("front", j)
        PROVE  IInv'
    <3>1. /\ Called(reopened, j) \in Checkpoints
          /\ Called(reopened, j).calls = state.calls \cup {j}
      BY <2>1 DEF Called, Transition, Allowed
    <3> QED
      BY <1>4, <2>3, <3>1, CallStepInv DEF IncidentStep
  <2>4. CASE Steps("front", reopened) /\ NoStart
    BY <1>4, <2>1, <2>4, QuietStepInv DEF IncidentStep
  <2> QED
    BY <1>4, <2>2, <2>3, <2>4 DEF IncidentStep
<1>5. CASE ChatStep
  <2>1. PICK next \in Checkpoints :
           /\ Steps("front", next)
           /\ replanned' = replanned \/ replanned' = replanned \cup {"front"}
           /\ \/ NoStart /\ Planned(run["front"].state, next)
              \/ \E j \in Jobs : Starts("front", j) /\ PlannedWith(run["front"].state, next, j)
    BY <1>5, PlansDo DEF ChatStep
  <2>2. CASE NoStart /\ Planned(run["front"].state, next)
    BY <1>5, <2>1, <2>2, QuietStepInv DEF ChatStep, Planned
  <2>3. ASSUME NEW j \in Jobs, Starts("front", j), PlannedWith(run["front"].state, next, j)
        PROVE  IInv'
    BY <1>5, <2>1, <2>3, CallStepInv DEF ChatStep, PlannedWith
  <2> QED
    BY <2>1, <2>2, <2>3
<1>6. CASE ResultStep
  <2>1. PICK i \in input : \E matches \in Matches(i, run["pump"].state) :
           /\ run["pump"].at = "loaded"
           /\ Plans("pump", IF matches
                            THEN [run["pump"].state EXCEPT !.item = Transition(@, job[i])]
                            ELSE run["pump"].state)
    BY <1>6 DEF ResultStep
  <2>2. PICK matches \in Matches(i, run["pump"].state) :
           Plans("pump", IF matches
                         THEN [run["pump"].state EXCEPT !.item = Transition(@, job[i])]
                         ELSE run["pump"].state)
    BY <2>1
  <2> DEFINE state == IF matches
                      THEN [run["pump"].state EXCEPT !.item = Transition(@, job[i])]
                      ELSE run["pump"].state
  <2>3. /\ state \in Checkpoints
        /\ state.calls = run["pump"].state.calls
        /\ state.own = run["pump"].state.own
        /\ state.item = "in_progress" => Backing(state) \ input # {}
    <3>1. CASE matches
      BY <2>1, <3>1 DEF Transition, Allowed
    <3>2. CASE ~matches
      <4>1. ~Incident /\ i \notin run["pump"].state.own
        BY <2>2, <3>2 DEF Matches
      <4>2. input = {i}
        BY DEF OneRun
      <4> QED
        BY <2>1, <3>2, <4>1, <4>2
    <3> QED
      BY <3>1, <3>2, <2>2 DEF Matches
  <2> HIDE DEF state
  <2>4. PICK next \in Checkpoints :
           /\ Steps("pump", next)
           /\ replanned' = replanned \/ replanned' = replanned \cup {"pump"}
           /\ \/ NoStart /\ Planned(state, next)
              \/ \E j \in Jobs : Starts("pump", j) /\ PlannedWith(state, next, j)
    BY <2>2, <2>3, PlansDo DEF state
  <2>5. CASE NoStart /\ Planned(state, next)
    BY <2>1, <2>3, <2>4, <2>5, QuietStepInv DEF Planned
  <2>6. ASSUME NEW j \in Jobs, Starts("pump", j), PlannedWith(state, next, j)
        PROVE  IInv'
    BY <2>1, <2>3, <2>4, <2>6, CallStepInv DEF PlannedWith
  <2> QED
    BY <2>4, <2>5, <2>6
<1>7. ASSUME NEW r \in Callers, SaveStep(r) PROVE IInv'
  BY <1>7 DEF SaveStep
<1>8. ASSUME NEW r \in Callers, RetryStep(r) PROVE IInv'
  BY <1>8 DEF RetryStep
<1>9. ASSUME NEW r \in Callers, RunFails(r) PROVE IInv'
  BY <1>9 DEF RunFails, Leave
<1>10. ASSUME NEW r \in Callers, RunEnds(r) PROVE IInv'
  BY <1>10 DEF RunEnds, Leave
<1>11. ASSUME NEW j \in Jobs, WorkerEnds(j) PROVE IInv'
  BY <1>11 DEF WorkerEnds
<1>12. ASSUME NEW j \in Jobs, WorkerDies(j) PROVE IInv'
  BY <1>12 DEF WorkerDies
<1>13. ASSUME NEW j \in Jobs, Ages(j) PROVE IInv'
  BY <1>13 DEF Ages
<1>14. CASE Restart
  <2>1. known' \in BOOLEAN
    BY <1>14 DEF Restart
  <2>2. TypeOK'
    <3>1. run' \in [Callers -> [at : Phases, state : Checkpoints]]
      BY <1>14 DEF Restart
    <3>2. job' \in [Jobs -> JobStates] /\ forgotten' \in SUBSET Jobs
      BY <1>14 DEF Restart
    <3>3. /\ saved' \in Checkpoints /\ input' \in SUBSET Jobs /\ aged' \in SUBSET Jobs
          /\ started' \in [Callers -> SUBSET Jobs] /\ replanned' \in SUBSET Callers
          /\ afresh' \in BOOLEAN /\ kind' \in {"incident", "conversation"}
      BY <1>14 DEF Restart
    <3> QED
      BY <2>1, <3>1, <3>2, <3>3
  <2>3. OneRun' /\ AfreshIsAlone' /\ MemoryIsCurrent'
    BY <1>14 DEF Restart
  <2>4. UnknownIsQuiet' /\ RunningIsRecorded'
    BY <1>14 DEF Restart
  <2>5. Backing(saved) \subseteq Backing(saved)'
    BY <1>14 DEF Restart
  <2>6. InProgressIsBacked'
    BY <1>14, <2>5 DEF Restart
  <2> QED
    BY <2>2, <2>3, <2>4, <2>6
<1>15. CASE UNCHANGED vars
  BY <1>15 DEF vars
<1> QED
  BY <1>1, <1>2, <1>3, <1>4, <1>5, <1>6, <1>7, <1>8, <1>9, <1>10, <1>11,
     <1>12, <1>13, <1>14, <1>15 DEF Next

\* The inductive invariant holds in every reachable state.
THEOREM Invariance == ASSUME ~Overlap PROVE Spec => []IInv
<1>1. IInv /\ [Next]_vars => IInv'
  BY NextInv
<1> QED
  BY <1>1, InitInv, PTL DEF Spec

\* Checkpoints, runs and workers have their types.
THEOREM TypeCorrect == ASSUME ~Overlap PROVE Spec => []TypeOK
<1>1. IInv => TypeOK
  BY DEF IInv
<1> QED
  BY <1>1, Invariance, PTL

\* Every worker at work is visible to later runs once its dispatch was saved
\* and not overwritten by a rerun.
THEOREM WorkersAreRecorded == ASSUME ~Overlap PROVE Spec => []RunningIsRecorded
<1>1. IInv => RunningIsRecorded
  BY DEF IInv
<1> QED
  BY <1>1, Invariance, PTL

\* No delivered result leaves its item in progress.
THEOREM ProgressIsBacked == ASSUME ~Overlap PROVE Spec => []InProgressIsBacked
<1>1. IInv => InProgressIsBacked
  BY DEF IInv
<1> QED
  BY <1>1, Invariance, PTL

\* What IncidentDispatchIsExclusive says of one step.
Exclusive ==
    IncidentStep /\ job' # job =>
        \A j \in Jobs : job[j] = "running" => j \in aged \cup forgotten

\* The incident branch dispatches only if every recorded worker is stale, and
\* the run's memory records every saved one.
LEMMA DispatchLooks == IInv => Exclusive
BY DEF IInv, TypeOK, MemoryIsCurrent, Exclusive, IncidentStep, Active, Steps,
       NoStart

\* The incident branch puts no worker beside one that is at work.
THEOREM DispatchExclusive ==
    ASSUME ~Overlap PROVE Spec => IncidentDispatchIsExclusive
<1>1. IInv => [Exclusive]_vars
  BY DispatchLooks
<1> QED
  BY <1>1, Invariance, PTL DEF IncidentDispatchIsExclusive, Exclusive

\* What a run has in memory of the item, against the checkpoint: the same
\* until the leader's step and after its save; between them a completed item
\* is still completed unless the incident branch reopened it or the leader
\* replaced the plan.  A run that began afresh has completed nothing.
ItemTracked ==
    /\ afresh => saved.item # "completed" /\ run["front"].state.item # "completed"
    /\ \A r \in Callers :
        /\ run[r].at \in {"loaded", "saved"} => run[r].state.item = saved.item
        /\ run[r].at = "stepped" /\ saved.item = "completed" =>
               \/ run[r].state.item = "completed"
               \/ Incident /\ r = "front"
               \/ r \in replanned

\* What CompletedStands says of one step.
Stands ==
    saved.item = "completed" /\ saved'.item # "completed"
        => \/ FrontStartsAfresh
           \/ Incident /\ SaveStep("front")
           \/ \E r \in replanned : SaveStep(r)

\* No step breaks ItemTracked, and none takes a completed item back but three.
LEMMA StepTracksItem ==
    ASSUME ~Overlap PROVE IInv /\ ItemTracked /\ [Next]_vars => ItemTracked' /\ Stands
<1> SUFFICES ASSUME IInv, ItemTracked, [Next]_vars PROVE ItemTracked' /\ Stands
  OBVIOUS
<1> USE ThreadAssumption
    DEF IInv, TypeOK, Checkpoints, Phases, OneRun, AfreshIsAlone, ItemTracked, Stands, Fresh,
        MayStart, Load, jobVars, threadVars
<1>1. CASE FrontLoads
  BY <1>1 DEF FrontLoads
<1>2. CASE FrontStartsAfresh
  BY <1>2 DEF FrontStartsAfresh
<1>3. ASSUME NEW j \in Jobs, PumpLoads(j) PROVE ItemTracked' /\ Stands
  BY <1>3 DEF PumpLoads
<1>4. CASE IncidentStep
  <2>1. \A j \in Jobs :
           LET reopened == [run["front"].state EXCEPT !.item = "pending"]
           IN  Called(reopened, j).item = "in_progress"
    BY DEF Called, Transition, Allowed
  <2>2. PICK next : Steps("front", next) /\ next.item # "completed"
    BY <1>4, <2>1 DEF IncidentStep
  <2> QED
    BY <1>4, <2>2 DEF IncidentStep, Steps
<1>5. CASE ChatStep
  <2>1. PICK next \in Checkpoints :
           /\ Steps("front", next)
           /\ replanned' = replanned \/ replanned' = replanned \cup {"front"}
           /\ run["front"].state.item = "completed" /\ next.item # "completed"
                => "front" \in replanned'
           /\ \/ NoStart /\ Planned(run["front"].state, next)
              \/ \E j \in Jobs : Starts("front", j) /\ PlannedWith(run["front"].state, next, j)
    BY <1>5, PlansDo DEF ChatStep
  <2>2. next.item = "completed" => run["front"].state.item = "completed"
    BY <2>1 DEF Planned, PlannedWith
  <2> QED
    BY <1>5, <2>1, <2>2 DEF ChatStep, Steps
<1>6. CASE ResultStep
  <2>1. PICK i \in input : \E matches \in Matches(i, run["pump"].state) :
           /\ run["pump"].at = "loaded"
           /\ Plans("pump", IF matches
                            THEN [run["pump"].state EXCEPT !.item = Transition(@, job[i])]
                            ELSE run["pump"].state)
    BY <1>6 DEF ResultStep
  <2>2. PICK matches \in Matches(i, run["pump"].state) :
           Plans("pump", IF matches
                         THEN [run["pump"].state EXCEPT !.item = Transition(@, job[i])]
                         ELSE run["pump"].state)
    BY <2>1
  <2> DEFINE state == IF matches
                      THEN [run["pump"].state EXCEPT !.item = Transition(@, job[i])]
                      ELSE run["pump"].state
  <2>3. /\ state \in Checkpoints
        /\ run["pump"].state.item = "completed" => state.item = "completed"
    BY <2>1, <2>2 DEF ItemStates, Transition, Allowed
  <2> HIDE DEF state
  <2>4. PICK next \in Checkpoints :
           /\ Steps("pump", next)
           /\ replanned' = replanned \/ replanned' = replanned \cup {"pump"}
           /\ state.item = "completed" /\ next.item # "completed" => "pump" \in replanned'
    BY <2>2, <2>3, PlansDo DEF state
  <2> QED
    BY <2>1, <2>3, <2>4 DEF Steps
<1>7. ASSUME NEW r \in Callers, SaveStep(r) PROVE ItemTracked' /\ Stands
  <2>1. \A q \in Callers : q # r => run[q].at = "idle"
    BY <1>7 DEF SaveStep
  <2>2. afresh => r = "front"
    BY <2>1
  <2>3. ItemTracked'
    BY <1>7, <2>1, <2>2 DEF SaveStep
  <2>4. Stands
    BY <1>7 DEF SaveStep
  <2> QED
    BY <2>3, <2>4
<1>8. ASSUME NEW r \in Callers, RetryStep(r) PROVE ItemTracked' /\ Stands
  BY <1>8 DEF RetryStep
<1>9. ASSUME NEW r \in Callers, RunFails(r) PROVE ItemTracked' /\ Stands
  BY <1>9 DEF RunFails, Leave
<1>10. ASSUME NEW r \in Callers, RunEnds(r) PROVE ItemTracked' /\ Stands
  BY <1>10 DEF RunEnds, Leave
<1>11. ASSUME NEW j \in Jobs, WorkerEnds(j) PROVE ItemTracked' /\ Stands
  BY <1>11 DEF WorkerEnds
<1>12. ASSUME NEW j \in Jobs, WorkerDies(j) \/ Ages(j) PROVE ItemTracked' /\ Stands
  BY <1>12 DEF WorkerDies, Ages
<1>13. CASE Restart
  BY <1>13 DEF Restart
<1>14. CASE UNCHANGED vars
  BY <1>14 DEF vars
<1> QED
  BY <1>1, <1>2, <1>3, <1>4, <1>5, <1>6, <1>7, <1>8, <1>9, <1>10, <1>11,
     <1>12, <1>13, <1>14 DEF Next

\* A completed item stays completed, but for the three named ways past it.
THEOREM CompletedIsKept == ASSUME ~Overlap PROVE Spec => CompletedStands
<1>1. Init => ItemTracked
  BY DEF Init, Fresh, ItemTracked
<1>2. IInv /\ ItemTracked /\ [Next]_vars => ItemTracked' /\ [Stands]_vars
  BY StepTracksItem
<1> QED
  BY <1>1, <1>2, Invariance, PTL DEF Spec, CompletedStands, Stands
=============================================================================
