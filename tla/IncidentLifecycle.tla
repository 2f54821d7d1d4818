------------------------- MODULE IncidentLifecycle -------------------------
(***************************************************************************)
(* The life of incidents in the registry (src/src/app/incident_registry.py)*)
(* and the independent actors that move them:                              *)
(*   - the ingest loop, which turns log records into wake-ups and awaits   *)
(*     one leader run before it reads the next record;                     *)
(*   - the leader's incident branch, which dispatches a code worker;       *)
(*   - worker threads, whose results the hook pump takes to the leader and *)
(*     then to automatic merge or to the administrator's review;           *)
(*   - the administrator, through two unguarded HTTP routes;               *)
(*   - the deploy watcher, which takes a snapshot of the registry, deploys *)
(*     its approved entries one by one and sleeps minutes in between.      *)
(* Nobody but the registry relates them, and it survives restarts while    *)
(* workers, queued results and all three loops do not.                     *)
(*                                                                         *)
(* One registry call is one step (the file behind it is not modelled       *)
(* here): a decision that reads an entry and writes it later is two steps, *)
(* and whoever writes in between is overwritten.                           *)
(* The three loops share one event loop: code of theirs that does not      *)
(* await keeps the others out, but not the administrator, whose routes run *)
(* in a thread pool, nor the leader and the workers, which run in threads. *)
(* Whether the leader dispatches depends on its thread's checkpoint (see   *)
(* ThreadRuns); here it is a free choice.  The sliding window and          *)
(* occurrence counters appear as "often enough": also a free choice.       *)
(***************************************************************************)
EXTENDS Naturals

CONSTANTS
    Fingerprints,
    MaxWorkers      \* bound: workers and unread results of one incident

ASSUME MaxWorkersAssumption == MaxWorkers \in Nat

VARIABLES
    status,         \* registry status, "absent" without an entry
    deployedAt,     \* incidents whose entry has a deployed_at
    wake,           \* wake-up event whose leader run the ingest loop awaits
    recordAt,       \* where process_record is with a log record
    recording,      \* the incident of that record (at most one)
    running,        \* worker threads alive, per incident
    completed,      \* completed results in the hook bus, per incident
    failed,         \* failed results in the hook bus, per incident
    pumpAt,         \* where the hook pump is with a completed result
    pumping,        \* the incident of that result (at most one)
    watcherAt,      \* where the deploy watcher is
    snapshot,       \* entries read as approved and not handled yet
    deploying,      \* the incident being deployed (at most one)
    ahead,          \* the deploy branch has commits the target checkout lacks
    abandoned       \* history: deployments a restart interrupted

registryVars == <<status, deployedAt>>
recordVars == <<recordAt, recording>>
ingestVars == <<wake, recordAt, recording>>
workerVars == <<running, completed, failed>>
pumpVars == <<pumpAt, pumping>>
watcherVars == <<watcherAt, snapshot, deploying>>
vars == <<status, deployedAt, wake, recordAt, recording, running, completed,
          failed, pumpAt, pumping, watcherAt, snapshot, deploying, ahead, abandoned>>

Statuses == {"new", "triaged", "running", "waiting_review", "approved",
             "merged", "deployed", "resolved", "failed", "suppressed",
             "regressed"}
WakeEvents == {"incident_new", "incident_regressed"}

TypeOK ==
    /\ status \in [Fingerprints -> Statuses \cup {"absent"}]
    /\ deployedAt \in SUBSET Fingerprints
    /\ wake \in SUBSET (Fingerprints \X WakeEvents)
    /\ recordAt \in {"idle", "enter", "reread", "triage", "regress"}
    /\ recording \in SUBSET Fingerprints
    /\ running \in [Fingerprints -> 0..MaxWorkers]
    /\ completed \in [Fingerprints -> 0..MaxWorkers]
    /\ failed \in [Fingerprints -> 0..MaxWorkers]
    /\ pumpAt \in {"idle", "run", "review", "decide"}
    /\ pumping \in SUBSET Fingerprints
    /\ watcherAt \in {"idle", "entries", "pull", "reload", "verify", "resolve"}
    /\ snapshot \in SUBSET Fingerprints
    /\ deploying \in SUBSET Fingerprints
    /\ ahead \in BOOLEAN
    /\ abandoned \in SUBSET Fingerprints

Init ==
    /\ status = [f \in Fingerprints |-> "absent"]
    /\ deployedAt = {}
    /\ wake = {}
    /\ recordAt = "idle" /\ recording = {}
    /\ running = [f \in Fingerprints |-> 0]
    /\ completed = [f \in Fingerprints |-> 0]
    /\ failed = [f \in Fingerprints |-> 0]
    /\ pumpAt = "idle" /\ pumping = {}
    /\ watcherAt = "idle" /\ snapshot = {} /\ deploying = {}
    /\ ahead = FALSE
    /\ abandoned = {}

-----------------------------------------------------------------------------
(* Helpers *)

SetStatus(f, s) == status' = [status EXCEPT ![f] = s]

\* No loop is in the middle of code that does not await.
LoopFree ==
    /\ pumpAt \notin {"review", "decide"}
    /\ watcherAt \notin {"entries", "pull", "resolve"}
    /\ recordAt = "idle"

Outstanding(f) == running[f] + completed[f] + failed[f]

\* CallCodeWorkerTool accepts the task: a daemon thread starts.
StartWorker(f) ==
    /\ Outstanding(f) < MaxWorkers
    /\ running' = [running EXCEPT ![f] = @ + 1]

\* After a result the leader's planning loop may call the worker tool again.
MayRedispatch(f) == UNCHANGED running \/ StartWorker(f)

-----------------------------------------------------------------------------
(* The ingest loop *)

\* Mutant of RecordReads: a triaged incident does not wake the leader again.
RecordReadsOnce(f) ==
    /\ LoopFree
    /\ wake = {}
    /\ recording' = {f}
    /\ \/ status[f] = "absent" /\ recordAt' = "enter"
       \/ status[f] = "new" /\ recordAt' = "triage"
       \/ status[f] = "resolved" /\ f \in deployedAt /\ recordAt' = "regress"
    /\ UNCHANGED <<registryVars, wake, workerVars, pumpVars, watcherVars, ahead, abandoned>>

\* process_record reads the entry once and decides by what it read: to enter
\* the incident, to wake the leader for a new or triaged one that is frequent
\* enough, or for a resolved one that was deployed before.
RecordReads(f) ==
    /\ LoopFree
    /\ wake = {}
    /\ recording' = {f}
    /\ \/ status[f] = "absent" /\ recordAt' = "enter"
       \/ status[f] \in {"new", "triaged"} /\ recordAt' = "triage"
       \/ status[f] = "resolved" /\ f \in deployedAt /\ recordAt' = "regress"
    /\ UNCHANGED <<registryVars, wake, workerVars, pumpVars, watcherVars, ahead, abandoned>>

\* upsert without a status: an entry made meanwhile keeps the one it has.
RecordEnters(f) ==
    /\ recordAt = "enter" /\ f \in recording
    /\ IF status[f] = "absent" THEN SetStatus(f, "new") ELSE UNCHANGED status
    /\ recordAt' = "reread"
    /\ UNCHANGED <<deployedAt, wake, recording, workerVars, pumpVars, watcherVars,
                   ahead, abandoned>>

\* The entry is read again; it is not woken yet if it is not frequent enough.
RecordRereads(f) ==
    /\ recordAt = "reread" /\ f \in recording
    /\ \/ status[f] \in {"new", "triaged"} /\ recordAt' = "triage" /\ UNCHANGED recording
       \/ recordAt' = "idle" /\ recording' = {}
    /\ UNCHANGED <<registryVars, wake, workerVars, pumpVars, watcherVars, ahead, abandoned>>

\* The decision is written, over whatever the entry says by now.
RecordWakes(f, at, s, event) ==
    /\ recordAt = at /\ f \in recording
    /\ SetStatus(f, s)
    /\ wake' = {<<f, event>>}
    /\ recordAt' = "idle" /\ recording' = {}
    /\ UNCHANGED <<deployedAt, workerVars, pumpVars, watcherVars, ahead, abandoned>>

RecordTriages(f) == RecordWakes(f, "triage", "triaged", "incident_new")
RecordRegresses(f) == RecordWakes(f, "regress", "regressed", "incident_regressed")

\* The leader's incident branch dispatches and marks the entry, whatever
\* happened to it since the record was processed.
LeaderDispatches(f) ==
    /\ \E e \in WakeEvents : <<f, e>> \in wake
    /\ StartWorker(f)
    /\ SetStatus(f, "running")
    /\ wake' = {}
    /\ UNCHANGED <<deployedAt, recordVars, completed, failed, pumpVars, watcherVars,
                   ahead, abandoned>>

\* The run raised, the tool refused, or a worker call counts as active.
WakeEndsWithoutDispatch(f) ==
    /\ LoopFree
    /\ \E e \in WakeEvents : <<f, e>> \in wake
    /\ wake' = {}
    /\ UNCHANGED <<registryVars, recordVars, workerVars, pumpVars, watcherVars,
                   ahead, abandoned>>

-----------------------------------------------------------------------------
(* Worker threads and the hook pump *)

WorkerEnds(f) ==
    /\ running[f] > 0
    /\ running' = [running EXCEPT ![f] = @ - 1]
    /\ \/ completed' = [completed EXCEPT ![f] = @ + 1] /\ UNCHANGED failed
       \/ failed' = [failed EXCEPT ![f] = @ + 1] /\ UNCHANGED completed
       \/ UNCHANGED <<completed, failed>>      \* the thread raised: no hook
    /\ UNCHANGED <<registryVars, ingestVars, pumpVars, watcherVars, ahead, abandoned>>

\* Mutant of PumpFailedResult: the registry is told, whatever it says.
PumpFailedResultMarks(f) ==
    /\ LoopFree
    /\ pumpAt = "idle"
    /\ failed[f] > 0
    /\ failed' = [failed EXCEPT ![f] = @ - 1]
    /\ SetStatus(f, "failed")
    /\ UNCHANGED <<deployedAt, ingestVars, running, completed, pumpVars, watcherVars,
                   ahead, abandoned>>

\* A failed result only reaches the leader: the registry is not told.
PumpFailedResult(f) ==
    /\ LoopFree
    /\ pumpAt = "idle"
    /\ failed[f] > 0
    /\ failed' = [failed EXCEPT ![f] = @ - 1]
    /\ MayRedispatch(f)
    /\ UNCHANGED <<registryVars, ingestVars, completed, pumpVars, watcherVars, ahead, abandoned>>

PumpClaims(f) ==
    /\ LoopFree
    /\ pumpAt = "idle"
    /\ completed[f] > 0
    /\ pumpAt' = "run"
    /\ pumping' = {f}
    /\ UNCHANGED <<registryVars, ingestVars, workerVars, watcherVars, ahead, abandoned>>

HookRunReturns(f) ==
    /\ LoopFree
    /\ pumpAt = "run" /\ f \in pumping
    /\ pumpAt' = "review"
    /\ MayRedispatch(f)
    /\ UNCHANGED <<registryVars, ingestVars, completed, failed, pumping, watcherVars,
                   ahead, abandoned>>

\* run() raised and the event is requeued, or storing the reply raised and
\* the pump died holding it: either way the result stays in the bus.
ResultNotAcked(f) ==
    /\ f \in pumping
    /\ (pumpAt = "run" /\ LoopFree) \/ pumpAt = "review"
    /\ pumpAt' = "idle"
    /\ pumping' = {}
    /\ MayRedispatch(f)
    /\ UNCHANGED <<registryVars, ingestVars, completed, failed, watcherVars, ahead, abandoned>>

AckResult(f) ==
    /\ completed' = [completed EXCEPT ![f] = @ - 1]
    /\ pumpAt' = "idle"
    /\ pumping' = {}

\* Mutant of ReviewChecks: suppressed incidents are reviewed too.
ReviewChecksResolvedOnly(f) ==
    /\ pumpAt = "review" /\ f \in pumping
    /\ IF status[f] \in {"absent", "resolved"}
       THEN AckResult(f)
       ELSE pumpAt' = "decide" /\ UNCHANGED <<pumping, completed>>
    /\ UNCHANGED <<registryVars, ingestVars, running, failed, watcherVars, ahead, abandoned>>

\* get_incident: nothing to review for resolved and suppressed incidents.
ReviewChecks(f) ==
    /\ pumpAt = "review" /\ f \in pumping
    /\ IF status[f] \in {"absent", "resolved", "suppressed"}
       THEN AckResult(f)
       ELSE pumpAt' = "decide" /\ UNCHANGED <<pumping, completed>>
    /\ UNCHANGED <<registryVars, ingestVars, running, failed, watcherVars, ahead, abandoned>>

\* Mutant of AutoMerge: merged without telling the registry.
AutoMergeSilently(f) ==
    /\ pumpAt = "decide" /\ f \in pumping
    /\ ahead' = TRUE
    /\ AckResult(f)
    /\ UNCHANGED <<registryVars, ingestVars, running, failed, watcherVars, abandoned>>

\* auto_review_merge_reload succeeded: the PR is merged on the deploy branch.
AutoMerge(f) ==
    /\ pumpAt = "decide" /\ f \in pumping
    /\ SetStatus(f, "approved")
    /\ ahead' = TRUE
    /\ AckResult(f)
    /\ UNCHANGED <<deployedAt, ingestVars, running, failed, watcherVars, abandoned>>

\* Manual mode, or automatic merge failed: the administrator is notified.
NotifyAdmin(f) ==
    /\ pumpAt = "decide" /\ f \in pumping
    /\ SetStatus(f, "waiting_review")
    /\ AckResult(f)
    /\ UNCHANGED <<deployedAt, ingestVars, running, failed, watcherVars, ahead, abandoned>>

\* The webhook did not answer; the error is swallowed and the event acked.
NotifyFails(f) ==
    /\ pumpAt = "decide" /\ f \in pumping
    /\ AckResult(f)
    /\ UNCHANGED <<registryVars, ingestVars, running, failed, watcherVars, ahead, abandoned>>

-----------------------------------------------------------------------------
(* The administrator; none of these looks at the current status *)

Feedback(f, s) ==
    /\ status[f] # "absent"
    /\ s \in {"approved", "failed", "suppressed"}
    /\ SetStatus(f, s)
    /\ UNCHANGED <<deployedAt, ingestVars, workerVars, pumpVars, watcherVars, ahead, abandoned>>

IncidentAction(f, s) ==
    /\ s \in {"suppressed", "resolved"}
    /\ SetStatus(f, s)
    /\ UNCHANGED <<deployedAt, ingestVars, workerVars, pumpVars, watcherVars, ahead, abandoned>>

\* A person merges a pull request on the deploy branch.
HumanMerges ==
    /\ ~ahead
    /\ ahead' = TRUE
    /\ UNCHANGED <<registryVars, ingestVars, workerVars, pumpVars, watcherVars, abandoned>>

-----------------------------------------------------------------------------
(* The deploy watcher *)

WatcherReads ==
    /\ LoopFree
    /\ watcherAt = "idle"
    /\ snapshot' = {f \in Fingerprints : status[f] = "approved"}
    /\ watcherAt' = "entries"
    /\ UNCHANGED <<registryVars, ingestVars, workerVars, pumpVars, deploying, ahead, abandoned>>

WatcherSleeps ==
    /\ watcherAt = "entries"
    /\ snapshot = {}
    /\ watcherAt' = "idle"
    /\ UNCHANGED <<registryVars, ingestVars, workerVars, pumpVars, snapshot, deploying,
                   ahead, abandoned>>

HandleApproved(f) ==
    /\ watcherAt = "entries"
    /\ f \in snapshot
    /\ snapshot' = snapshot \ {f}
    /\ deploying' = {f}
    /\ SetStatus(f, "merged")
    /\ watcherAt' = "pull"
    /\ UNCHANGED <<deployedAt, ingestVars, workerVars, pumpVars, ahead, abandoned>>

EntryDone(f, s) ==
    /\ SetStatus(f, s)
    /\ watcherAt' = "entries"
    /\ deploying' = {}
    /\ UNCHANGED snapshot

\* Mutant of PullFails: the early return forgets the status.
PullFailsSilently(f) ==
    /\ watcherAt = "pull" /\ f \in deploying
    /\ watcherAt' = "entries"
    /\ deploying' = {}
    /\ UNCHANGED <<registryVars, ingestVars, workerVars, pumpVars, snapshot, ahead, abandoned>>

PullFails(f) ==
    /\ watcherAt = "pull" /\ f \in deploying
    /\ EntryDone(f, "failed")
    /\ UNCHANGED <<deployedAt, ingestVars, workerVars, pumpVars, ahead, abandoned>>

\* HEAD did not move: deployed at once, without health check or verification.
PullBringsNothing(f) ==
    /\ watcherAt = "pull" /\ f \in deploying
    /\ ~ahead
    /\ EntryDone(f, "deployed")
    /\ deployedAt' = deployedAt \cup {f}
    /\ UNCHANGED <<ingestVars, workerVars, pumpVars, ahead, abandoned>>

PullBringsCommits(f) ==
    /\ watcherAt = "pull" /\ f \in deploying
    /\ ahead
    /\ ahead' = FALSE
    /\ watcherAt' = "reload"
    /\ UNCHANGED <<registryVars, ingestVars, workerVars, pumpVars, snapshot, deploying, abandoned>>

Unhealthy(f) ==
    /\ LoopFree
    /\ watcherAt = "reload" /\ f \in deploying
    /\ EntryDone(f, "failed")
    /\ UNCHANGED <<deployedAt, ingestVars, workerVars, pumpVars, ahead, abandoned>>

Healthy(f) ==
    /\ LoopFree
    /\ watcherAt = "reload" /\ f \in deploying
    /\ SetStatus(f, "deployed")
    /\ deployedAt' = deployedAt \cup {f}
    /\ watcherAt' = "verify"
    /\ UNCHANGED <<ingestVars, workerVars, pumpVars, snapshot, deploying, ahead, abandoned>>

\* Mutant of VerifyReads: the watcher waits for a status an actor changed.
VerifyReadsDeployed(f) ==
    /\ LoopFree
    /\ watcherAt = "verify" /\ f \in deploying
    /\ status[f] = "deployed"
    /\ watcherAt' = "resolve"
    /\ UNCHANGED <<registryVars, ingestVars, workerVars, pumpVars, snapshot, deploying,
                   ahead, abandoned>>

\* The verification window is over: the entry is read ...
VerifyReads(f) ==
    /\ LoopFree
    /\ watcherAt = "verify" /\ f \in deploying
    /\ IF status[f] = "deployed"
       THEN watcherAt' = "resolve" /\ UNCHANGED deploying
       ELSE watcherAt' = "entries" /\ deploying' = {}
    /\ UNCHANGED <<registryVars, ingestVars, workerVars, pumpVars, snapshot, ahead, abandoned>>

\* ... and resolved if it still said deployed then.
VerifyResolves(f) ==
    /\ watcherAt = "resolve" /\ f \in deploying
    /\ EntryDone(f, "resolved")
    /\ UNCHANGED <<deployedAt, ingestVars, workerVars, pumpVars, ahead, abandoned>>

-----------------------------------------------------------------------------
(* The backend stops or crashes and is started again *)

Restart ==
    /\ wake' = {}
    /\ recordAt' = "idle" /\ recording' = {}
    /\ running' = [f \in Fingerprints |-> 0]
    /\ completed' = [f \in Fingerprints |-> 0]
    /\ failed' = [f \in Fingerprints |-> 0]
    /\ pumpAt' = "idle" /\ pumping' = {}
    /\ watcherAt' = "idle" /\ snapshot' = {} /\ deploying' = {}
    /\ abandoned' = abandoned \cup deploying
    /\ UNCHANGED <<registryVars, ahead>>

-----------------------------------------------------------------------------
RecordGoesOn(f) ==
    RecordEnters(f) \/ RecordRereads(f) \/ RecordTriages(f) \/ RecordRegresses(f)
Ingest(f) == RecordReads(f) \/ RecordGoesOn(f)
LeaderWakes(f) == LeaderDispatches(f) \/ WakeEndsWithoutDispatch(f)
PumpRun(f) == PumpClaims(f) \/ HookRunReturns(f) \/ ResultNotAcked(f) \/ PumpFailedResult(f)
Review(f) == ReviewChecks(f) \/ AutoMerge(f) \/ NotifyAdmin(f) \/ NotifyFails(f)
Admin(f) ==
    \/ \E s \in {"approved", "failed", "suppressed"} : Feedback(f, s)
    \/ \E s \in {"suppressed", "resolved"} : IncidentAction(f, s)
Pull(f) == PullFails(f) \/ PullBringsNothing(f) \/ PullBringsCommits(f)
Verify(f) == VerifyReads(f) \/ VerifyResolves(f)
Deploy(f) == HandleApproved(f) \/ Pull(f) \/ Unhealthy(f) \/ Healthy(f) \/ Verify(f)
Watcher == WatcherReads \/ WatcherSleeps \/ \E f \in Fingerprints : Deploy(f)

\* What happens during one lifetime of the backend.
Step ==
    \/ \E f \in Fingerprints :
          \/ Ingest(f) \/ LeaderWakes(f) \/ WorkerEnds(f)
          \/ PumpRun(f) \/ Review(f) \/ Admin(f)
    \/ Watcher
    \/ HumanMerges

Next == Step \/ Restart

Spec == Init /\ [][Next]_vars

(***************************************************************************)
(* Fairness.  Code that does not await runs to its end, and asyncio serves *)
(* the tasks that are ready to go on in turn, hence strong fairness where  *)
(* the loop has to be free.  The watcher's sleeps and calls end.  Workers  *)
(* end, errors that persist are logged again, and a dispatch or a leader   *)
(* run on a result that is tried for ever succeeds in the end.             *)
(***************************************************************************)
LoopFairness ==
    /\ WF_vars(WatcherSleeps)
    /\ \A f \in Fingerprints :
        /\ WF_vars(RecordGoesOn(f)) /\ WF_vars(Review(f))
        /\ WF_vars(HandleApproved(f)) /\ WF_vars(Pull(f)) /\ WF_vars(VerifyResolves(f))

WatcherFairness ==
    /\ LoopFairness
    /\ SF_vars(WatcherReads)
    /\ \A f \in Fingerprints :
        SF_vars(Unhealthy(f) \/ Healthy(f)) /\ SF_vars(VerifyReads(f))

RepairFairness ==
    /\ LoopFairness
    /\ \A f \in Fingerprints :
        /\ SF_vars(RecordReads(f))
        /\ SF_vars(LeaderWakes(f)) /\ SF_vars(LeaderDispatches(f))
        /\ WF_vars(WorkerEnds(f))
        /\ SF_vars(PumpClaims(f)) /\ SF_vars(PumpFailedResult(f))
        /\ SF_vars(HookRunReturns(f)) /\ SF_vars(ReviewChecks(f))

-----------------------------------------------------------------------------
(* Properties *)

\* Each of the three loops holds one incident exactly while it works on it;
\* the result being delivered is still in the hook bus until its ack, and no
\* incident is deployed twice from one snapshot.
TasksHoldOneIncident ==
    /\ \A v, w \in wake : v = w
    /\ recordAt = "idle" <=> recording = {}
    /\ \A f, g \in recording : f = g
    /\ recordAt # "idle" => wake = {}
    /\ pumpAt = "idle" <=> pumping = {}
    /\ \A f, g \in pumping : f = g
    /\ \A f \in pumping : completed[f] > 0
    /\ watcherAt \in {"idle", "entries"} <=> deploying = {}
    /\ \A f, g \in deploying : f = g
    /\ snapshot \cap deploying = {}
    /\ \A f \in Fingerprints : Outstanding(f) <= MaxWorkers

\* An entry says "merged" only while the watcher is deploying it: between
\* pull and reload no other entry and no second deployment of the same entry
\* is under way, and only a restart can leave "merged" behind.
MergedIsBeingDeployed ==
    \A f \in Fingerprints :
        status[f] = "merged" =>
            \/ f \in deploying /\ watcherAt \in {"pull", "reload"}
            \/ f \in abandoned

\* No actor still holds a decision about f that it took earlier: from the
\* read that a write of the entry rests on until that write.
Quiet(f) ==
    /\ ~(recordAt \in {"triage", "regress"} /\ f \in recording)
    /\ \A e \in WakeEvents : <<f, e>> \notin wake
    /\ ~(pumpAt = "decide" /\ f \in pumping)
    /\ f \notin snapshot
    /\ ~(watcherAt \in {"pull", "reload", "resolve"} /\ f \in deploying)

\* An incident suppressed or resolved while no decision about it is in
\* flight keeps that status, whatever results of its workers are still to
\* come: only the administrator changes it, or a decision taken afterwards.
QuietVerdictsHold ==
    [][\A f \in Fingerprints :
          /\ status[f] \in {"suppressed", "resolved"} /\ Quiet(f)
          /\ status'[f] # status[f]
          => Admin(f)]_vars

\* And no such decision is taken: nobody starts anything about a quiet
\* suppressed incident, and about a quiet resolved one only process_record
\* does, if it was deployed and its error is back.
QuietVerdictsStayQuiet ==
    [][\A f \in Fingerprints :
          status[f] \in {"suppressed", "resolved"} /\ Quiet(f) /\ ~Quiet(f)'
          => status[f] = "resolved" /\ f \in deployedAt /\ RecordReads(f)]_vars

\* An approved incident does not wait for ever for the watcher, although it
\* deploys one entry at a time and works on snapshots minutes old.
ApprovedIsTakenUp ==
    <>[][~Restart]_vars =>
        \A f \in Fingerprints : status[f] = "approved" ~> status[f] # "approved"

\* The leader calling the worker tool again after a result.
Redispatch ==
    \E f \in Fingerprints :
        /\ PumpFailedResult(f) \/ HookRunReturns(f) \/ ResultNotAcked(f)
        /\ running' # running

\* A triaged incident whose leader run fails is woken again until a worker
\* is dispatched or somebody else decides about it (the leader may not keep
\* all MaxWorkers slots busy by redispatching for ever).
TriagedIsDispatched ==
    <>[][~Restart /\ ~Redispatch]_vars =>
        \A f \in Fingerprints : status[f] = "triaged" ~> status[f] # "triaged"

\* A repair that was completed gets its incident out of "running" (in runs
\* in which no restart and no failing notification loses the result).
CompletedRepairIsReviewed ==
    \A f \in Fingerprints :
        status[f] = "running" /\ completed[f] > 0 ~> status[f] # "running"

\* The deploy watcher "checks the incidents in status approved": it starts
\* no deployment of an incident that is not approved at that moment.
DeploysOnlyApproved ==
    [][\A f \in Fingerprints : HandleApproved(f) => status[f] = "approved"]_vars

\* The registry as the table its callers may rely on.
Table == INSTANCE Registry WITH
    Statuses <- Statuses \cup {"none"},
    MaxTime  <- 1,
    table    <- [f \in Fingerprints |->
                    [status   |-> IF status[f] = "absent" THEN "none" ELSE status[f],
                     deployed |-> IF f \in deployedAt THEN 1 ELSE 0]],
    lost     <- FALSE

\* No step of any actor does more to the registry than one call can do: to one
\* entry, its status, and its time of deployment with the status deployed only.
UsesTable == Table!TableSpec
=============================================================================
