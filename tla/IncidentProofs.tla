--------------------------- MODULE IncidentProofs ---------------------------
(***************************************************************************)
(* Proofs about IncidentLifecycle for any set of incidents and any bound   *)
(* on the workers of one incident.                                         *)
(***************************************************************************)
EXTENDS IncidentLifecycle, TLAPS

IInv == TypeOK /\ TasksHoldOneIncident /\ MergedIsBeingDeployed

\* The registry is empty and every loop idle at first.
LEMMA InitInv == Init => IInv
<1> SUFFICES ASSUME Init PROVE IInv
  OBVIOUS
<1> USE MaxWorkersAssumption DEF Init
<1>1. TypeOK
  <2>1. status \in [Fingerprints -> Statuses \cup {"absent"}]
    BY DEF Statuses
  <2>2. 0 \in 0..MaxWorkers
    OBVIOUS
  <2> QED
    BY <2>1, <2>2 DEF TypeOK
<1>2. \A f \in Fingerprints : Outstanding(f) <= MaxWorkers
  <2> TAKE f \in Fingerprints
  <2>1. running[f] = 0 /\ completed[f] = 0 /\ failed[f] = 0
    OBVIOUS
  <2> QED
    BY <2>1 DEF Outstanding
<1>3. TasksHoldOneIncident
  BY <1>2 DEF TasksHoldOneIncident
<1>4. MergedIsBeingDeployed
  BY DEF MergedIsBeingDeployed
<1> QED
  BY <1>1, <1>3, <1>4 DEF IInv

\* Every step of an actor, and a restart, preserves the invariant.
LEMMA NextInv == IInv /\ [Next]_vars => IInv'
<1> SUFFICES ASSUME IInv, [Next]_vars PROVE IInv'
  OBVIOUS
<1> USE MaxWorkersAssumption
    DEF IInv, TypeOK, Statuses, WakeEvents, TasksHoldOneIncident,
        MergedIsBeingDeployed, Outstanding, SetStatus, StartWorker,
        MayRedispatch, AckResult, EntryDone, registryVars, workerVars,
        pumpVars, watcherVars, recordVars, ingestVars, LoopFree
<1>1. ASSUME NEW f \in Fingerprints, Ingest(f) PROVE IInv'
  <2>1. CASE RecordReads(f)
    BY <2>1 DEF RecordReads
  <2>2. CASE RecordEnters(f)
    BY <2>2 DEF RecordEnters
  <2>3. CASE RecordRereads(f)
    BY <2>3 DEF RecordRereads
  <2>4. CASE RecordTriages(f)
    BY <2>4 DEF RecordTriages, RecordWakes
  <2>5. CASE RecordRegresses(f)
    BY <2>5 DEF RecordRegresses, RecordWakes
  <2> QED
    BY <1>1, <2>1, <2>2, <2>3, <2>4, <2>5 DEF Ingest, RecordGoesOn
<1>2. ASSUME NEW f \in Fingerprints, LeaderWakes(f) PROVE IInv'
  <2>1. CASE LeaderDispatches(f)
    BY <2>1 DEF LeaderDispatches
  <2>2. CASE WakeEndsWithoutDispatch(f)
    BY <2>2 DEF WakeEndsWithoutDispatch
  <2> QED
    BY <1>2, <2>1, <2>2 DEF LeaderWakes
<1>3. ASSUME NEW f \in Fingerprints, WorkerEnds(f) PROVE IInv'
  BY <1>3 DEF WorkerEnds
<1>4. ASSUME NEW f \in Fingerprints, PumpRun(f) PROVE IInv'
  <2>1. CASE PumpClaims(f)
    BY <2>1 DEF PumpClaims
  <2>2. CASE HookRunReturns(f)
    BY <2>2 DEF HookRunReturns
  <2>3. CASE ResultNotAcked(f)
    BY <2>3 DEF ResultNotAcked
  <2>4. CASE PumpFailedResult(f)
    BY <2>4 DEF PumpFailedResult
  <2> QED
    BY <1>4, <2>1, <2>2, <2>3, <2>4 DEF PumpRun
<1>5. ASSUME NEW f \in Fingerprints, Review(f) PROVE IInv'
  <2>1. CASE ReviewChecks(f)
    BY <2>1 DEF ReviewChecks
  <2>2. CASE AutoMerge(f)
    BY <2>2 DEF AutoMerge
  <2>3. CASE NotifyAdmin(f)
    BY <2>3 DEF NotifyAdmin
  <2>4. CASE NotifyFails(f)
    BY <2>4 DEF NotifyFails
  <2> QED
    BY <1>5, <2>1, <2>2, <2>3, <2>4 DEF Review
<1>6. ASSUME NEW f \in Fingerprints, Admin(f) PROVE IInv'
  BY <1>6 DEF Admin, Feedback, IncidentAction
<1>7. CASE WatcherReads
  BY <1>7 DEF WatcherReads
<1>8. CASE WatcherSleeps
  BY <1>8 DEF WatcherSleeps
<1>9. ASSUME NEW f \in Fingerprints, Deploy(f) PROVE IInv'
  <2>1. CASE HandleApproved(f)
    BY <2>1 DEF HandleApproved
  <2>2. CASE PullFails(f)
    BY <2>2 DEF PullFails
  <2>3. CASE PullBringsNothing(f)
    BY <2>3 DEF PullBringsNothing
  <2>4. CASE PullBringsCommits(f)
    BY <2>4 DEF PullBringsCommits
  <2>5. CASE Unhealthy(f)
    BY <2>5 DEF Unhealthy
  <2>6. CASE Healthy(f)
    BY <2>6 DEF Healthy
  <2>7. CASE VerifyReads(f)
    BY <2>7 DEF VerifyReads
  <2>8. CASE VerifyResolves(f)
    BY <2>8 DEF VerifyResolves
  <2> QED
    BY <1>9, <2>1, <2>2, <2>3, <2>4, <2>5, <2>6, <2>7, <2>8 DEF Deploy, Pull, Verify
<1>10. CASE HumanMerges
  BY <1>10 DEF HumanMerges
<1>11. CASE Restart
  BY <1>11 DEF Restart
<1>12. CASE UNCHANGED vars
  BY <1>12 DEF vars
<1> QED
  BY <1>1, <1>2, <1>3, <1>4, <1>5, <1>6, <1>7, <1>8, <1>9, <1>10, <1>11,
     <1>12 DEF Next, Step, Watcher

\* The inductive invariant holds in every reachable state.
THEOREM Invariance == Spec => []IInv
BY InitInv, NextInv, PTL DEF Spec

\* Types: each loop works on at most one incident and no incident has more
\* than MaxWorkers workers and results, whatever the number of incidents.
THEOREM TypesHold == Spec => [](TypeOK /\ TasksHoldOneIncident)
<1>1. IInv => TypeOK /\ TasksHoldOneIncident
  BY DEF IInv
<1> QED
  BY <1>1, Invariance, PTL

\* "merged" is only ever the mark of the one deployment under way.
THEOREM MergedOwned == Spec => []MergedIsBeingDeployed
<1>1. IInv => MergedIsBeingDeployed
  BY DEF IInv
<1> QED
  BY <1>1, Invariance, PTL

\* What QuietVerdictsHold says of one step, and QuietVerdictsStayQuiet.
VerdictKept ==
    \A f \in Fingerprints :
        /\ status[f] \in {"suppressed", "resolved"} /\ Quiet(f)
        /\ status'[f] # status[f]
        => Admin(f)
QuietKept ==
    \A f \in Fingerprints :
        status[f] \in {"suppressed", "resolved"} /\ Quiet(f) /\ ~Quiet(f)'
        => status[f] = "resolved" /\ f \in deployedAt /\ RecordReads(f)

\* No actor but the administrator starts something about a quiet suppressed
\* incident, nor overrides a verdict without a decision it took before.
LEMMA StepKeepsVerdicts == IInv /\ [Next]_vars => VerdictKept /\ QuietKept
<1> SUFFICES ASSUME IInv, [Next]_vars PROVE VerdictKept /\ QuietKept
  OBVIOUS
<1> USE DEF IInv, TypeOK, TasksHoldOneIncident, SetStatus, StartWorker,
        MayRedispatch, AckResult, EntryDone, registryVars, workerVars,
        pumpVars, watcherVars, recordVars, ingestVars, LoopFree, Quiet, WakeEvents,
        VerdictKept, QuietKept
<1>1. ASSUME NEW g \in Fingerprints, Ingest(g) PROVE VerdictKept /\ QuietKept
  <2>1. CASE RecordReads(g)
    BY <2>1 DEF RecordReads
  <2>2. CASE RecordEnters(g)
    BY <2>2 DEF RecordEnters
  <2>3. CASE RecordRereads(g)
    BY <2>3 DEF RecordRereads
  <2>4. CASE RecordTriages(g)
    BY <2>4 DEF RecordTriages, RecordWakes
  <2>5. CASE RecordRegresses(g)
    BY <2>5 DEF RecordRegresses, RecordWakes
  <2> QED
    BY <1>1, <2>1, <2>2, <2>3, <2>4, <2>5 DEF Ingest, RecordGoesOn
<1>2. ASSUME NEW g \in Fingerprints, LeaderWakes(g) PROVE VerdictKept /\ QuietKept
  BY <1>2 DEF LeaderWakes, LeaderDispatches, WakeEndsWithoutDispatch
<1>3. ASSUME NEW g \in Fingerprints, WorkerEnds(g) PROVE VerdictKept /\ QuietKept
  BY <1>3 DEF WorkerEnds
<1>4. ASSUME NEW g \in Fingerprints, PumpRun(g) PROVE VerdictKept /\ QuietKept
  BY <1>4 DEF PumpRun, PumpClaims, HookRunReturns, ResultNotAcked, PumpFailedResult
<1>5. ASSUME NEW g \in Fingerprints, Review(g) PROVE VerdictKept /\ QuietKept
  BY <1>5 DEF Review, ReviewChecks, AutoMerge, NotifyAdmin, NotifyFails
<1>6. ASSUME NEW g \in Fingerprints, Admin(g) PROVE VerdictKept /\ QuietKept
  BY <1>6 DEF Admin, Feedback, IncidentAction
<1>7. CASE WatcherReads
  BY <1>7 DEF WatcherReads
<1>8. CASE WatcherSleeps
  BY <1>8 DEF WatcherSleeps
<1>9. ASSUME NEW g \in Fingerprints, Deploy(g) PROVE VerdictKept /\ QuietKept
  BY <1>9 DEF Deploy, HandleApproved, Pull, PullFails, PullBringsNothing,
              PullBringsCommits, Unhealthy, Healthy, Verify, VerifyReads, VerifyResolves
<1>10. CASE HumanMerges
  BY <1>10 DEF HumanMerges
<1>11. CASE Restart
  BY <1>11 DEF Restart
<1>12. CASE UNCHANGED vars
  BY <1>12 DEF vars
<1> QED
  BY <1>1, <1>2, <1>3, <1>4, <1>5, <1>6, <1>7, <1>8, <1>9, <1>10, <1>11,
     <1>12 DEF Next, Step, Watcher

\* The administrator's verdict on a quiet incident stands, for any number of
\* incidents and workers.
THEOREM VerdictsHold == Spec => QuietVerdictsHold
<1>1. IInv /\ [Next]_vars => [VerdictKept]_vars
  BY StepKeepsVerdicts
<1> QED
  BY <1>1, Invariance, PTL DEF Spec, QuietVerdictsHold, VerdictKept

\* Nobody starts anything about a quiet suppressed incident, nor about a quiet
\* resolved one except for a regression.
THEOREM QuietHolds == Spec => QuietVerdictsStayQuiet
<1>1. IInv /\ [Next]_vars => [QuietKept]_vars
  BY StepKeepsVerdicts
<1> QED
  BY <1>1, Invariance, PTL DEF Spec, QuietVerdictsStayQuiet, QuietKept

-----------------------------------------------------------------------------
(***************************************************************************)
(* The registry of the life cycle is used as a table with atomic calls.    *)
(***************************************************************************)

\* The entry of an incident in that table.
Entry(f) == [status   |-> IF status[f] = "absent" THEN "none" ELSE status[f],
             deployed |-> IF f \in deployedAt THEN 1 ELSE 0]

\* A step that gives an incident a status, and perhaps notes its deployment.
Gives ==
    \E f \in Fingerprints :
        \/ \E s \in Statuses : status' = [status EXCEPT ![f] = s] /\ UNCHANGED deployedAt
        \/ status' = [status EXCEPT ![f] = "deployed"] /\ deployedAt' = deployedAt \cup {f}

LEMMA StepsGive == TypeOK /\ Next => Gives \/ UNCHANGED registryVars
<1> SUFFICES ASSUME TypeOK, Next PROVE Gives \/ UNCHANGED registryVars
  OBVIOUS
<1> USE DEF SetStatus, EntryDone, Gives, Statuses, registryVars
<1>1. ASSUME NEW f \in Fingerprints, Ingest(f) \/ LeaderWakes(f)
      PROVE  Gives \/ UNCHANGED registryVars
  BY <1>1 DEF Ingest, RecordReads, RecordGoesOn, RecordEnters, RecordRereads,
              RecordTriages, RecordRegresses, RecordWakes, LeaderWakes,
              LeaderDispatches, WakeEndsWithoutDispatch
<1>2. ASSUME NEW f \in Fingerprints, WorkerEnds(f) \/ PumpRun(f)
      PROVE  UNCHANGED registryVars
  BY <1>2 DEF WorkerEnds, PumpRun, PumpClaims, HookRunReturns, ResultNotAcked, PumpFailedResult
<1>3. ASSUME NEW f \in Fingerprints, Review(f) PROVE Gives \/ UNCHANGED registryVars
  BY <1>3 DEF Review, ReviewChecks, AutoMerge, NotifyAdmin, NotifyFails
<1>4. ASSUME NEW f \in Fingerprints, Admin(f) PROVE Gives
  BY <1>4 DEF Admin, Feedback, IncidentAction
<1>5. CASE WatcherReads \/ WatcherSleeps \/ HumanMerges \/ Restart
  BY <1>5 DEF WatcherReads, WatcherSleeps, HumanMerges, Restart
<1>6. ASSUME NEW f \in Fingerprints, HandleApproved(f) \/ PullFails(f) \/ Unhealthy(f)
      PROVE  Gives
  BY <1>6 DEF HandleApproved, PullFails, Unhealthy
<1>7. ASSUME NEW f \in Fingerprints, PullBringsNothing(f) \/ Healthy(f) PROVE Gives
  BY <1>7 DEF PullBringsNothing, Healthy
<1>8. ASSUME NEW f \in Fingerprints, PullBringsCommits(f) PROVE UNCHANGED registryVars
  BY <1>8 DEF PullBringsCommits
<1>9. ASSUME NEW f \in Fingerprints, Verify(f) PROVE Gives \/ UNCHANGED registryVars
  BY <1>9 DEF Verify, VerifyReads, VerifyResolves
<1> QED
  BY <1>1, <1>2, <1>3, <1>4, <1>5, <1>6, <1>7, <1>8, <1>9
     DEF Next, Step, Watcher, Deploy, Pull

\* Which the table does in one of its operations.
LEMMA GivesIsCall ==
    ASSUME TypeOK, Gives PROVE Table!TableNext
<1> DEFINE t == [f \in Fingerprints |-> Entry(f)]
<1>1. PICK f \in Fingerprints :
        \/ \E s \in Statuses : status' = [status EXCEPT ![f] = s] /\ UNCHANGED deployedAt
        \/ status' = [status EXCEPT ![f] = "deployed"] /\ deployedAt' = deployedAt \cup {f}
  BY DEF Gives
<1>2. ASSUME NEW s \in Statuses, status' = [status EXCEPT ![f] = s], UNCHANGED deployedAt
      PROVE  Table!Mark(f, s)
  <2>1. s # "absent"
    BY DEF Statuses
  <2>2. Entry(f)' = [Entry(f) EXCEPT !.status = s]
    BY <1>2, <2>1 DEF Entry, TypeOK
  <2>3. \A g \in Fingerprints \ {f} : Entry(g)' = Entry(g)
    BY <1>2 DEF Entry, TypeOK
  <2>4. t' = [t EXCEPT ![f].status = s]
    BY <2>2, <2>3
  <2> QED
    BY <2>4 DEF Table!Mark, Entry
<1>3. ASSUME status' = [status EXCEPT ![f] = "deployed"], deployedAt' = deployedAt \cup {f}
      PROVE  Table!Deploy(f, 1)
  <2>1. Entry(f)' = [status |-> "deployed", deployed |-> 1]
    BY <1>3 DEF Entry, TypeOK
  <2>2. \A g \in Fingerprints \ {f} : Entry(g)' = Entry(g)
    BY <1>3 DEF Entry, TypeOK
  <2>3. t' = [t EXCEPT ![f] = [status |-> "deployed", deployed |-> 1]]
    BY <2>1, <2>2
  <2> QED
    BY <2>3 DEF Table!Deploy, Entry
<1>4. ASSUME NEW s \in Statuses, Table!Mark(f, s) PROVE Table!TableNext
  <2>1. s \in (Statuses \cup {"none"}) \ {"none"}
    BY DEF Statuses
  <2> QED
    BY <1>4, <2>1 DEF Table!TableNext
<1>5. ASSUME Table!Deploy(f, 1) PROVE Table!TableNext
  BY <1>5 DEF Table!TableNext
<1> QED
  BY <1>1, <1>2, <1>3, <1>4, <1>5

\* What a step of an incident's life does to the registry, one atomic call can
\* do: that is what Registry promises and RegistryFile implements.
THEOREM LifeUsesTable == Spec => UsesTable
<1>1. Init => Table!TableInit
  BY DEF Init, Table!TableInit
<1>2. IInv /\ [Next]_vars => [Table!TableNext]_(Table!tableVars)
  <2> SUFFICES ASSUME IInv, [Next]_vars, ~UNCHANGED registryVars PROVE Table!TableNext
    BY DEF Table!tableVars, registryVars
  <2>1. Next
    BY DEF vars, registryVars
  <2> QED
    BY <2>1, StepsGive, GivesIsCall DEF IInv
<1> QED
  BY <1>1, <1>2, Invariance, PTL DEF Spec, UsesTable, Table!TableSpec
=============================================================================
