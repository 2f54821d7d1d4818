# Formal models of the self-repairing incident system

This directory holds TLA+ models of the code under `src/`: a multi-agent
runtime that reads the logs of an e-commerce platform, turns repeated errors
into *incidents*, has a leader agent dispatch code workers to repair them, has
the repairs reviewed and merged, and deploys them. The same leader and workers
also serve conversations of users. The models are checked with TLC on small
instances, and most of their properties are proved with TLAPS for every value of
the constants.

`PROJECT.json` lists the components, the runs, the source lines each definition
models (`map`), the hazards each property is aimed at, the mutants that show that
a property can fail, and the theorems.

## The system

The backend is one process: an asyncio event loop with background tasks, a pool
of threads for the synchronous HTTP routes, daemon threads for code workers, and
threads in which the LangGraph nodes run. The e-commerce platform is a set of web
services with a database, Redis locks and Celery workers. All paths below are
relative to `src/src/` unless they start with `ecommerce-platform/`.

| Component | State | Operations | Module |
|---|---|---|---|
| Hook event bus (`app/hook_bus.py`) and hook pump (`api/services/runtime_service.py`) | one JSON file per worker result, in `pending/<thread>/` or `processing/<thread>/`; the pump's batch in memory | push, pop_all, ack, requeue, pending_thread_ids, stale recovery, clear; pump pass, death and re-creation, start and stop of the API | `HookBus` implements `Mailbox` |
| Incident life cycle (`app/incident_registry.py`, `incident_wakeup.py`, `deploy_watcher.py`, `review_bridge.py`, `auto_review_merge.py`, `api/routes/agent_control.py`, the incident branch of `app/graph.py`) | status and `deployed_at` per fingerprint; the local variables of three loops | process_record, leader dispatch, worker results, review, feedback and action routes, pull / reload / verify of the watcher | `IncidentLifecycle` |
| Runs of the runtime graph on one thread (`main.py`, `memory/graph_runtime.py`, `app/plan_state_machine.py`, `tools/call_code_worker_tool.py`) | the thread's latest checkpoint; the state each run holds in memory; worker call records | load, leader step, save after the leader, retry on a locked database, end, failure | `ThreadRuns`, `PlanStates` (partly) |
| Leader planning loop (`agents/leader_events.py`, `tools/list_plan_tool.py`) | the plan list, next task number, previous action | set, append, update, call worker, bounded reasoning steps, delivery of results; checks of the plan's texts | `PlanKernel`, `PlanTexts` |
| Registry file (`app/incident_registry.py`) | `registry.json`, re-read and rewritten as a whole | upsert, set_status, increment as read, open, write | `RegistryFile` implements `Registry` |
| Log ingest (`app/incidents.py`, `incident_wakeup.py`, `incident_fingerprinter.py`, `ecommerce-platform/services/shared/event_log.py`) | the log, the saved offset, the sliding windows | write a line, tail, count, triage, regress, rescan, restart | `IncidentIngest` |
| Code worker job pipeline (`agents/worker.py`, `call_code_worker_tool.py`) | job directories, docker client and container, result file | prepare, launch, poll, grace, deadline, report | `WorkerJob` |
| Automatic review and merge (`app/auto_review_merge.py`) | pull requests on GitHub, incident status | find, open, approve, merge, delete the branch, notify | `AutoMerge` with `WorkerJob` |
| Conversations and event streams (`app/runtime_event_bus.py`, conversation side of `runtime_service.py`, `api/routes/{chat,history,agents}.py`) | one queue per thread; the conversation and the plan in memory and in files; shown roles | send, stream, clear, push, pop_all, store, show | `Chat` |
| Reviewer agent and parallel dispatch node (`agents/{leader,reviewer,worker}.py`, `app/graph.py`) | units of one run and their outputs | plan, run_many, aggregate | `Chat` (partly) |
| E-commerce orders (`ecommerce-platform/services/{order,inventory,payment}`, `celery_app/`) | orders, stock counters, payments, task messages, retry table | create, cancel, reserve / confirm / release, pay, retry, replay, redelivery | `OrderSaga`, `Prices` |
| Settings, LLM calls, memory, small tools, logging, web console, generators, gateway | see "Not modelled" | | none |

How they interact. A service writes a line when a request ends in an exception
no route has caught. The ingest loop reads it, counts it, and awaits one leader
run (`run()` on thread `incident:<fingerprint>`) before it reads the next one.
The leader's incident branch calls the code worker tool, which starts a daemon
thread and returns. The thread runs a container, waits for its result file, and
pushes the result on the hook bus. The pump takes it from there, awaits another
leader run on the same thread, and, for a completed incident repair, asks for the
review: automatic merge, or a notification to an administrator. The administrator
answers through HTTP routes that write the registry. The deploy watcher reads the
registry, pulls, reloads and verifies. Conversations share the graph, the worker
tool, the bus and the pump, and have chat requests in the place of the ingest
loop; their runs emit events that streaming requests pass on.

What is hard about it:

- *Delivery.* Results are handed from threads to the event loop through files;
  a run that fails, a pump that dies or an API that restarts can lose them or
  repeat them.
- *Shared status without guards.* Five actors write an incident's status, most
  of them after awaiting something, none comparing it with what they read; and
  each write is a read and a rewrite of one file, without a lock. What an actor
  decides on was read a call earlier, or minutes.
- *Lost updates.* Two runs on one thread load the same checkpoint, and the last
  save wins. Threads that show a conversation put an older list in its place.
- *Retries.* A locked database makes a run submit its input again, after the
  leader's step too, which has started a worker or was saved; an aborted pass counts
  lines twice; Celery delivers a task again that has done its work.
- *Transactions in pieces.* An order commits item by item; nothing releases what
  a failure in the middle leaves, and cancels overtake payments. Locks run out
  and are given up after the commit they protect.
- *Outside systems.* Containers outlive their threads, GitHub does what its lost
  answer denies.
- *Serial loops that sleep.* The watcher verifies for minutes while other
  approved incidents wait in a snapshot.
- *Restarts.* The registry and the checkpoints survive; workers, queued results
  and wake-ups do not.

## Modules

History variables are marked as such where they are declared. Where a property
names exceptions, each one is a thing the code really does: the property fails
without it.

### Mailbox and HookBus

`Mailbox` is the abstract specification: each message is unsent, queued, gone or
wiped. A queued message may be handled any number of times, and leaves the
mailbox only if it was handled, or was damaged when written, or a new backend
wipes it.

`HookBus` is the detailed one. `file[e]` says in which directory the event's file
is; `torn` holds the events whose `write_text` was cut short; `old` the events
written longer than the stale threshold ago. Every bus operation takes the class
lock, so each is one action: `Push`, `Scan` (`pending_thread_ids`), `PopAll`
(recover, claim, drop unreadable files), the ack in `RunReturns`, the requeue in
`RunFails`. The awaited leader run lies between claim and ack: `LeaderHandles` is
the moment its leader node was checkpointed, so a run can fail after it, and a later
write can meet a locked database: `RunsAgain` is the loop of `GraphRuntime.invoke`,
which then submits the same input from the entry node, at most `LockRetryLimit`
times. `PumpDies` is an exception outside the `try` around the run; `EnsureHookPump`
its replacement by the next chat message; `Stop` and `Start` the API's shutdown (or
crash) and start, which clears the bus. `os.replace` keeps the modification time, so
`old` never becomes false again when a file is claimed. `peek_count` and
`recover_stale` have no caller and no action of their own.

Properties: no result is lost but by a restart or a truncated file (`NoResultLost`);
a result is handled twice only if a run that had handled it began again on a locked
database or ended without its ack, never through stale recovery
(`DuplicateOnlyIfUnsettled`); the refinement `ImplementsMailbox`; and a readable
result is settled in the end beside another of its thread that fails for ever
(`ReliableResultsSettle`).

### IncidentLifecycle

One `status` per fingerprint and, per actor, what it remembers between two
registry calls: where `process_record` is with a log record (`recordAt`,
`recording`) and the wake-up the ingest loop awaits (`wake`), workers alive and
their unread results (`running`, `completed`, `failed`), where the pump is with a
completed result (`pumpAt`, `pumping`), and the watcher's place, snapshot and
entry (`watcherAt`, `snapshot`, `deploying`). `ahead` says whether the deploy
branch has commits the target checkout lacks: one pull brings them all, whoever's
fix they are. A registry call is atomic here, a call of `Registry`; `RegistryFile`
takes it apart. A read and the write that rests on it are two steps, wherever the
code makes two calls: `RecordReads` (and `RecordRereads`, for an incident that has
just been entered) and `RecordTriages` or `RecordRegresses`, `ReviewChecks` and
`AutoMerge` or `NotifyAdmin`, `WatcherReads` and `HandleApproved`, `VerifyReads`
and `VerifyResolves`. The administrator can come between any two of them, and is
then overwritten.

The three loops are tasks of one asyncio loop, so code of theirs that does not
await excludes the other two: `LoopFree` is a guard of every step that begins
with the loop regaining control. `git pull` is a synchronous subprocess in the
watcher, so the watcher holds the loop from reading an entry to the end of its
pull. The administrator's routes are synchronous functions that FastAPI runs in a
thread pool, and the leader's node and the workers run in threads: their steps
have no such guard. Whether the leader dispatches on a wake-up (its thread's
checkpoint may show an active worker), whether automatic merge succeeds, whether
the sliding window is full, are free choices.

Properties: `merged` is the mark of the one deployment under way or was left by a
restart (`MergedIsBeingDeployed`); a verdict on an incident about which no actor
holds an earlier decision stands, whatever results still come
(`QuietVerdictsHold`), and nobody takes a decision about such an incident, but for
one that was resolved after a deployment and whose error is back
(`QuietVerdictsStayQuiet`); approved incidents are taken up
(`ApprovedIsTakenUp`), triaged ones dispatched (`TriagedIsDispatched`), completed
repairs reviewed (`CompletedRepairIsReviewed`). `Quiet(f)` says that no actor is
between a read of the entry and the write that rests on it. It is needed: without
any one of its conjuncts the code does overwrite a verdict, because the ingest loop,
the pump and the watcher write what they decided on a status that was read before.

### Registry, RegistryFile and IncidentIngest

`RegistryFile` is the table as a file and the calls on it. `Upsert` reads the
whole file (`Loaded`: what is not JSON is an empty table) and edits one entry in
memory, `Open` empties the file, `Write` fills it. Two writers that both emptied
it may leave a mixture (`garbled`). `verdict` is what was last written for an
incident, `lossy` that a writer has written back a table that was out of date.
`Registry` is the abstract specification: a table and three operations on it, to
enter an incident or touch its entry, to give it a status, to note its deployment;
each keeps the fields it does not name and every other entry. It is implemented
with the table that was written last, which is also what is meant while the file
is empty, and ends with the first loss (`Lose`).

`IncidentIngest` composes it with the log. Services append lines with one write
or two (`BeginLine`, `WriteLine`). A pass (`BeginPass` to `EndPass`) reads from the
saved offset to the end, skips half a line and counts its bytes, so that the next
pass starts in the middle, and saves its offset when it has reached the end and
only then. `TakeRecord` puts an error into its window; `GetResolved`, `GetNone`,
`GetAwake`, `GetOther`, `CountErrors` are the branches of `process_record`, each of
them a registry call by the loop that threads may interleave with
(`ThreadCalls`, `ThreadWrites`); `Wake` and `RunReturns` are the awaited run. The
watcher deploys and verifies between the loop's calls. `PassAborts` is a registry
call that raises, `Rescan` the administrator's deletion of the offset, `Restart`
loses windows and calls.

Properties: no error before the saved offset was missed (`RecordsAreSeen`, except
lines met half written); none is handled twice without a fault
(`RepeatsAreFaults`); a triage rests on enough different errors within the window
unless a pass was aborted or a rescan asked for (`TriagedIsRepeated`), and on a
verdict that allows it (`WakesOnlyAwake`, except with a thread in the registry at
the same moment); a verified incident regresses only because of errors after its
deployment (`RegressedIsRecent`, which rests on the verification being no shorter
than the window, as it is in the run and by default); the file holds what was
written last unless calls overlapped (`VerdictsAreKept`); and until two overlap or
the process dies in one, it implements `Registry`, a table in which a call changes
one entry at once (`ImplementsTable`).

### ThreadRuns and PlanStates

The life of one plan item and of the workers called for it, on one thread, which is
a conversation's or an incident's (`kind`). `saved` is the latest checkpoint (the
item's status and the calls recorded as in progress), `run[r]` the state in memory
of the run of caller `r`: the hook pump, or the "front" (a chat request, or the
ingest loop on an incident thread). A run loads (`FrontLoads`, `FrontStartsAfresh`,
`PumpLoads`), takes the leader's step in memory (`IncidentStep`, `ChatStep`,
`ResultStep`), saves (`SaveStep`) and ends (`RunEnds`) or fails at any point
(`RunFails`). `RetryStep` is the retry on "database is locked", before or after the
save: the run's input is submitted again, which is the event on the latest
checkpoint, or a fresh state in its place if the caller did not resume the thread
(`afresh`); the workers of the first attempt, which go on, are then in no checkpoint
(`forgotten`). `Plans` is the planning loop: the leader may replace the plan, before
or after it calls a worker (`Relisted`), and then the item is gone, or listed under
a new id that results of earlier workers do not match (`own` has the workers called
under the present one). A worker that ends closes its record in the memory of the
run that started it (`WorkerEnds`), so in the checkpoint the record is closed only
if that run is still to be saved; otherwise the record counts as active until it is
stale (`Ages`).

`Overlap` says whether the two callers may have runs at the same time. Nothing in
the code prevents it, and with overlap the last save wins and results are lost, as
the run `thread_lost_result` shows. With `Overlap = FALSE` the module is the
system in the behaviours in which the callers do not meet, and that is where the
positive properties hold.

Properties: an item in progress is backed by a live or dead worker, called for it
under its present id, or by an undelivered result (`InProgressIsBacked`); every
worker at work is recorded, once its dispatch was saved and unless a rerun put a
fresh state over it (`RunningIsRecorded`); the incident branch puts no second worker
beside one at work unless that is stale or forgotten
(`IncidentDispatchIsExclusive`); a completed item is taken back in three ways only,
by a fresh start, by the incident branch, or with the plan (`CompletedStands`); an
item in progress ends, once the leader stops calling workers (`InProgressEnds`).

`PlanStates` holds the state machine of plan items, for this module and the next.

### PlanKernel and PlanTexts

`PlanKernel` is the plan of one thread as a set of items, each with its id, its
status and a task identity the code does not have: every task that is ever put
into a plan gets a new one, and a worker carries the identity of the task it was
called for. `saved` and `mem` are the plan and `next_plan_task_number` in the
checkpoint and in the run under way; the number is absent until the first `set` or
`append`. A run starts with a chat message or a wake-up (`FrontResumes`,
`FrontStartsAfresh`) or a result (`Deliver`, which moves the items of the
result's id as far as the state machine allows). Then the leader takes at most
`MaxSteps` steps: `SetPlan`, `AppendPlan`, `CallWorker`, or one that changes
nothing here (a text edit, a refused action), and ends with `Finish`, which also
stands for the action repeated and refused. `SaveStep` saves, `RunEnds` acks or does
not; `RunFails` may come before or after the save, and so may `RunsAgain`, the
rerun on a locked database, on the latest checkpoint or from the fresh state the run
began with. The workers a run started go on in any case.

In the kernel, which tasks a plan has and whether the checks of titles and paths
refuse it are free choices. An incident's item has id and task 0. The ids of the
items of a run that is not saved, or that begins again from a fresh state, are given
again, because the number is saved with the plan: `stray` marks the workers that then
hold somebody else's id.

`PlanTexts`, which `PlanKernel` extends, has those checks as functions: `Scan` is
the one pass of `_validate_task_conflicts` with its two tables (a recursive
function, of the step `See`), `InConflict` its outcome, `OutOfOrder` is
`_validate_execution_order`, `PlanSet`, `PlanAppend` and `PlanUpdate` the tool's
actions with their refusals.

Properties: ids are unique in every plan (`IdsUnique`); an outcome shown by an
item was reported by a worker of that very task, or by a stray worker
(`OutcomeIsOwn`); the pass finds every conflict and nothing else, `set` and
`append` make valid plans only, and a plan that `update` has put in conflict no
longer grows (`PlansAreValid`).

### WorkerJob and AutoMerge

`WorkerJob` is one job per call: `thread[j]` is the daemon thread (prepare, poll,
grace period, report), `box[j]` the container, `exit[j]` and `file[Directory(j)]`
what its agent leaves. `AgentEnds` copies the last message to the result file;
`PollFindsResult` gives the docker client five seconds when that is a JSON object;
`ForceStop` counts the job as completed then; `TimesOut` stops the client and
leaves the container running; `ThreadsDie` is a restart, which containers survive.

`AutoMerge` composes the jobs of one incident with GitHub and the pump: agents push
to branches they name themselves and may open pull requests, a result claims any
branch or any pull request (`claim`: what the agent writes is compared with nothing
it has done), and the pump finds or opens one, approves,
merges, deletes the branch and approves the incident. A call may be refused, and
its answer may be lost after it took effect; whatever fails becomes a message to
the administrator.

Properties: a completed job's own agent has ended, and no other job's file was read
(`CompletedIsDone`); commits of jobs without a completed report reach main only
through a branch that a completed result names, or whose pull request it names
(`UnreportedOnlyIfNamed`: a merge takes the head of the branch); only what was
merged is approved, and a merge is approved or told to somebody unless interrupted
(`MergedIsSettled`); every job reports although its agent hangs (`JobReportsBack`).

### Chat

One conversation. A caller is a request (streaming or not) or a worker's result;
`at` is where it is, `run` its run of the graph. What coroutines do between two
awaits excludes the others: `loop` holds the caller for whom the event loop is
storing a message (`SaveOpens`, `SaveWrites`) or a plan (`Capture`, `PlanWrites`).
`events` is the thread's queue in `RuntimeEventBus`; `StartStream` clears it, `Emit`
fills it, `Poll` and `LastPop` pass it on. `Leave` is a client that goes away:
nobody catches the cancellation, so the run goes on and its answer is stored
nowhere. Threads that show the history read the file and put the list they read in
the place of the one in memory (`Reads`, `Assigns`), and do alike with the plan
(`LooksForPlan`, `LoadsPlan`, `KeepsPlan`). `Units`, `Outputs` and `Reply` are the
nodes behind the leader: a plan with open items has one unit per agent of the
graph, each unit is answered, and the outputs then replace what the leader said.

`crowded` are the requests that shared the thread with another run, `raced` and
`planRaced` say that a reader undid something newer, `appended` and `captured` are
all messages and the plan stored last.

Properties: a stream that is not crowded passes on exactly what its run emits
(`LoneStreamIsExact`); no message is lost and answers follow questions, unless
raced (`TranscriptIsKept`); the plan shown is the latest, unless raced
(`PlanIsLatest`); the leader is shown busy or in error for a reason (`BusyIsReal`);
when nothing is under way workers and answer are those of the last plan
(`WorkersMatchPlan`).

### OrderSaga and Prices

A job is a request under way or a task message of an order; `job[o, kind]` is its
step, the item it is at, and its retries. Every commit is a step: `Reserve`,
`Confirm` and `Release` take one item under its lock, `Pay` looks at no status,
`SendPayment` hands over to the payment task. Any of these can raise: before it has
done anything (`StepRaises`: no stock, no lock, the database or the broker fails),
or after its commit, since giving up a lock that has run out raises (`Unlocks`).
`Caught` says where the exception goes: a request's handler reads the status and
cancels (`HandlerReads`, `HandlerCancels`), a task logs, retries (`Retry`), is
parked in a table and replayed (`Replay`). `Crash` cuts a request off, or a handler
whose own query fails, and has a task delivered again (`task_acks_late`).
`CancelReads` and `CancelWrites` are the two halves of a cancellation. `sync` is
`SYNC_TASKS`; `level` the log level, because the task logger raises a `TypeError`
for its own keyword arguments when a call is enabled.

`redis_lock` ends after five seconds, and falls back to a lock of the process when it
has waited too long, so it does not keep writers of a row apart; `SELECT ... FOR
UPDATE` does, except on SQLite, on which the synchronous stack runs. There a job may
have read the counters of an item before another's commit (`ReadsUnlocked`, `seen`),
and writes them back as absolute numbers (`Writes`); `torn` records that one of them
was out of date.

`held` and `bought` are the units really reserved and sold to an order; the
counters `reserved` and `sold` are what the code keeps. `rerun` and `early` name
the orders one of whose tasks ran twice, or that were cancelled before they were
reserved or with work under way.

`Prices` computes amounts in cents as the payment service does, for the quote and
for the order, whose rates come from two tables.

Properties: the counters are the units, and no more is promised than there is, as
long as nothing is in `rerun` or `early` or was `torn` (`CountersAreUnits`); what is
sold is paid for (`SoldIsPaid`); a request's answer is true (`AnswersAreTrue`); the
stock left reserved by a settled order is that of an order cancelled in its
reservation (the first items, or all of them when its lock, its payment or the
sending of its task failed after the last), of a paid one whose confirmation failed
(the last items), or of one whose task died in its log call (`LeaksAreKnown`); an
order that is settled, with nobody at work on it and no payment parked, has been
decided (`QuietIsDecided`); a charge is the quote, within 1.04 cents of the exact
price, and negative only by a coupon (`ChargeIsExact`).

## Runs

| Run | Instance | Shows |
|---|---|---|
| `hook_bus` | 3 events, 2 threads, event 1 poison, 1 rerun | delivery, its refinement of `Mailbox`, and settlement |
| `incident_safety` | 2 fingerprints (symmetric), 1 worker each | the safety and action properties, with every actor and restarts |
| `incident_watcher` | 2 fingerprints, no workers | no approved incident starves |
| `incident_repair` | 1 fingerprint, 2 workers | progress from triaged to dispatched and from completed to reviewed |
| `incident_stale_snapshot` | 2 fingerprints | violation: an incident that the administrator rejects or suppresses between the watcher's copy of the entries and its write is deployed |
| `thread_runs` | 2 jobs, both kinds of thread | safety and progress of runs that do not overlap |
| `thread_lost_result` | 2 jobs, overlapping runs | violation: a delivered and acked result disappears |
| `plan_kernel` | 2 jobs, 3 tasks in batches of up to 2, 3 steps a run, both kinds of thread; lists of up to 3 texts from 3 titles and 2 paths | ids and outcomes of plans, checks of their texts |
| `worker_merge` | 2 jobs, 2 branches, 1 pull request | what reports, merges and approvals mean; that jobs report |
| `ingest` | 2 fingerprints, one of them failing, the loop and one thread, 3 minutes, 3 lines, 2 calls or faults | no error missed or counted twice; what triage, regression and the file rest on; the file's refinement of `Registry` |
| `order_saga` | 2 orders over 2 products with stock 1 and 2, 1 retry, 2 payments, 1 fault; totals 0.01 to 25.00 | counters, payments, answers, leaks, prices |
| `chat` | 2 requests (symmetric), 1 result, 1 reader, 1 event a run | streams, transcript, plan and shown roles |

Bounds. *hook_bus*: three events on two threads give two results competing on one
thread, one alone on another, and a batch of more than one file; a fourth adds
nothing that the pump, which handles one event at a time, could tell apart. One
rerun (three in the code) is what it takes to handle a result twice in one run, and
`NothingDuplicated` holds for any limit. *incident runs*: two fingerprints are what
it takes for one to wait in a snapshot while the other is deployed, or to hold the
pump while the other is wanted; `MaxWorkers` bounds the workers and unread results
of one incident (the code has no bound), and 2 allow a second dispatch beside a
first. *thread_runs*: two jobs allow a second dispatch beside one at work or a stale
one; reruns on a locked database are not counted, so that the safety properties hold
for any limit. *plan_kernel*: three tasks in batches of up to two give a plan that
is replaced or extended while an earlier task's worker runs, from each of the two
starting points of the numbering, and three steps are the least `MAX_LEADER_STEPS`
can be; three texts are two in conflict with a third before, between or behind them,
and a batch that is cut. *worker_merge*: two jobs on two branches are enough for a
branch that is shared and for two results that name one pull request, or for one
that names the branch of the other; the pump handles one result at a time. An agent
pushes to one branch. With one pull request, what is pushed after its merge is not
merged any more; the theorems cover a second one. *ingest*: a unit of time is a
minute, two errors make a triage, two a regression (three in the code, only the
count differs); three minutes and three lines allow two errors in one window, and
two with the window's length in between, and a regression after a verification of
two minutes; two calls or faults allow a thread to overlap a call of the loop, and a
call followed by a restart, a rescan or an aborted pass. A line is written in at
most two parts, and nobody else writes between them: that parts of two long lines of
different services may mix is not modelled; such a line is not JSON, and the pass
skips it like half a line. Steps that do not touch the registry wait until no call
is under way (`Quiet`): they commute with a call's steps. *order_saga*: the first
order needs both products, the second needs all of the scarce one, so that either
can fail, the first of them in the middle; clients, faults, locks, the database and
the broker trouble the first order (`Troubled`), and the second is the bystander
whose stock a wrong release would take. One retry reaches both the retry and the
table, two payments a double payment, one fault a redelivery, a crash or a replay.
*chat*: two requests and a result overlap pairwise and all three; a reader has
nothing in common with events, and a stream stores what any request stores, so the
constraint `Apart` cuts behaviours in which a reader is at work together with events
or with two streams, and a run emits one event, so that the order of several is left
to the theorem. The theorems of `ChatProofs` have no such restriction.

Deadlock is checked in every run but `order_saga`, `worker_merge` and
`ingest`, whose finite orders, jobs and log really come to an end.

Fairness. *HookBus*: the pump's own steps are weakly fair, as the event loop
schedules its task; files age; an awaited run ends (in success or failure); a
stopped backend is started and somebody chats (which is what replaces a dead
pump). A result that may be poison is given no more; for the others a run that is
retried for ever succeeds at some time (strong fairness of `LeaderHandles` and
`RunReturns`). `ReliableResultsSettle` assumes that pump deaths and stops cease.
*IncidentLifecycle*: code that does not await runs to its end (weak fairness);
steps that need the loop free get strong fairness, since asyncio serves ready
tasks in turn; workers end; an error that persists is logged again; a dispatch
that is tried for ever succeeds. The administrator, who may do nothing, has no
fairness. `incident_repair` uses behaviours without restarts and without failing
notifications, as each of them loses the result. *ThreadRuns*: workers end, awaited
runs end (`LOCK_RETRY_LIMIT` bounds their reruns), the pump offers a result again
until it is acked, and a delivery tried for ever gets through its step, its save and
its ack in the end. `InProgressEnds` excuses behaviours in which a worker
died without reporting: nothing in the code notices that. And it assumes that the
leader stops calling workers at some time: nothing in the code keeps a language model
from calling one again for every failure, and the finite set of jobs is not what the
property rests on. *AutoMerge*: the threads
of the service run on and their clock moves (weak fairness); agents and containers
have none, they may hang.

## Findings

- `incident_stale_snapshot`: a pass of the deploy watcher copies all entries and
  handles those that are approved in its copy. The administrator's feedback route,
  in a thread of its own, gives an approved incident another status between the copy
  and the write for that entry; it is marked `merged` and deployed all the same. (For
  a later entry of the same copy that window is as long as the deployments before it.)
- `thread_lost_result`: the leader of a chat run calls a worker, which reports before
  that step is saved. The pump delivers the result in a run that loads the checkpoint
  from before the call, saves and is acked; the chat run then saves over it, and the
  item is in progress with no worker and no result left.

What else the code does and a reader may not expect, found while modelling. What
limits a property is named in it.

*Incidents.* If a pull brings no new commit, `_handle_approved` marks the incident
deployed and returns before the verification that would mark it resolved: it stays
deployed. That happens whenever an earlier incident's pull brought both fixes. The
verification looks at the status only, and errors of a deployed incident are not
counted at all, so one that recurs at once is still resolved. An incident resolved
by hand has no deployment time and never regresses, or an old one and regresses
because of errors that are cured. Exceptions that a route answers with 500 itself
are logged under another event and never ingested. Half a line that a pass meets
is lost with its second half. Concurrent registry writers lose updates, and a
reader of a file that is being written takes it for empty and may save that. The
sliding windows are only cleaned when they are counted, so that of an incident in
work grows.

*Plans and workers.* `pop_all` orders a thread's results by random file names
while the class comment promises FIFO order. The incident branch sets a completed
plan item back to pending past the state machine, for which "completed is
terminal". `call_code_worker` accepts items of every status: for a completed one
the worker starts and the transition is refused with a log line. Of two workers
called for one item, a completion after a failure is refused. A worker of a run
that was never saved can complete another task's item. `list_plan.update` checks
nothing: it can put a plan in conflict, and every later append is refused.
Containers of jobs that timed out go on pushing, and a merge takes the head of a
branch, not what its job pushed. A result may name the branch or the pull request of
another job, and has it merged. A run that meets a locked database after the leader's
step repeats that step: it calls workers again, and a first message then forgets the
workers it called before.

*Conversations.* Two streams of one conversation take and clear each other's
events. A thread that shows the history (the web console asks every three
seconds) can undo a message appended meanwhile. A client that leaves orphans its
run: the answer is not stored and the leader stays busy in the status. Queues of
threads nobody streams from grow, as nothing pops them. With open plan items, the
user's answer is the in-graph agents' "# Worker Results" while the real worker has
only been started. `list_conversations` iterates over a dictionary that other
threads change.

*Orders.* At `--loglevel=info`, which the compose file uses, the reservation task
dies in its own log call after it has reserved: the order stays pending and its
stock reserved. An order cancelled during its reservation, or because its
payment, or the sending of its task, or the release of its last lock failed, or whose
confirmation fails, keeps reservations that nothing releases; an early cancel, or a
task that ran again, gives up stock of other orders. On SQLite two requests for one
product can overwrite each other's counters. Orders can be paid twice. A
coupon above the total makes a negative charge. `redis_lock` yields a second time
when the code under the lock raises, as for want of stock, so that callers see a
`RuntimeError` (500) and not the conflict (409).

## Proofs

Every theorem is for arbitrary constants, under the named assumptions of the
modules. Every invariant and every action property of the passing runs is stated
by a theorem. `TypeOK` is listed in no run: it is proved for all modules with a
specification (for `RegistryFile` as a part of `IncidentIngest`), and was checked
with TLC before. Each theorem follows one pattern: an inductive invariant, one
lemma or step per action, and a temporal step at the end.

What a recursion or a sequence says is proved by induction in the form of a least
counterexample: the lengths at which a claim fails are a set of natural numbers,
which has a least member if it is not empty (`Least`, from `NatLessThanWellFounded`
and `WFMin`), and the step below it holds. A recursive function is a choice in
TLA+, so the first such induction shows that there is one (`KeepsExists`,
`ScanSteps`).

`HookBusProofs`. The inductive invariant is the conjunction of the invariants the
run checks, `HeldIsClaimed` (the pump holds exactly the files it has claimed, which
is inductive alone, proved as `ClaimsHeld` and listed in no run) and
`EffectsAccountedFor`. The checked ones need the others: `NoResultLost` needs to
know, when a run returns, that the result was handled; `DuplicateOnlyIfUnsettled`
needs that the effect of an event still on disk is the current run's or was left
without its ack or its rerun; both are `EffectsAccountedFor`. From the invariant
follow `TypeCorrect`, `ClaimsHeld`, `NothingLost`, `NothingDuplicated`, and step by
step the refinement `BusIsAMailbox`: a push is a `Send`, the leader's handling a
`Handle`, an ack a `Settle`, the unreadable files of one `pop_all` a `Discard`, a
start a `Reset`, and everything else a stutter. Assumption: event numbers are
naturals (the order of file names), and so is the limit on reruns.

`IncidentProofs`. `TypeOK`, `TasksHoldOneIncident` and `MergedIsBeingDeployed` are
inductive together: the last needs that the watcher deploys one entry, which its
snapshot does not contain. `TypesHold` and `MergedOwned` follow from the invariant.
`VerdictsHold` and `QuietHolds` are action properties: `StepKeepsVerdicts` goes
through the actions and shows that each writer other than the administrator holds an
earlier decision about the incident (then it is not quiet), or enters an incident
that had no entry, and that each reader that goes on to decide has read a status the
property excludes, or a resolved one that regresses. `LifeUsesTable` relates this
module to the file: what any step does to the entries, one call of `Registry` can do
(`StepsGive`, `GivesIsCall`), and `RegistryFile` implements those calls while none
overlap. Assumption: `MaxWorkers` is a natural number.

`IngestProofs`. `SeenInv` says of both positions, the saved one and the pass's,
that the errors before it were handled and that a position in the middle of a line
is in a torn one: `NothingMissed`. `UnseenInv` says that without faults nothing
behind the pass was handled: `NothingRepeated`. `FileInv` is about the registry
alone, for any number of writers: unless lossy, a call that read a whole file
nobody wrote since knows the last status of every incident but its own, and an
empty file has its writer; `RegistrySteps` shows that every action is one of the
few steps of the file: `RegistryHolds`. `AwakeInv` follows the call in which an
incident is counted: `OnlyAwakeWoken`.

The windows and the dates need more. `WithinFacts` says what `_clean_window` keeps
of a window: errors that were in it, in their order, all recent. `CountedInv` says
that without a fault the errors in a window are the incident's own, each with the
time its line was handled last, from lines that rise and lie before the place the
pass has come to (`FrontSteps`: nothing behind that place changes, and it only
advances). `EnoughInv` says, while an incident is triaged, that enough of them are
recent. Rising lines are different lines, so a window of n errors has n lines
(`EnoughLines`): `TriagedForEnough`. For regressions, `Dates(f)` are the times of
deployment that the file, or a table some call may still write, has for an
incident. `DatesInv`: none is in the future or later than a verification under way;
`VerifiedInv`: what the watcher resolves has no date younger than the verification
is long. An error in a window of no greater length is then later than each of them:
`RegressedForNew`. That last theorem has the hypothesis `VerificationIsLong`
(`RegWindow <= Verify`). It holds for the settings of the code, 120 seconds each,
but `CODE_TERMINATOR_AGENT_REGRESSION_WINDOW_SECONDS` can be set to more: with a
window longer than the verification, by one unit of time and no more, TLC finds an
incident that is taken for a regression because of an error from before its fix.

The refinement `FileIsATable` needs `CallsInv`: a call that is not out of date will
write the table of the file with one entry edited, by the fields of some call that
the program makes (`Fields`). Then reading and opening are stutters, a `Write`
without loss is an `Enter`, a `Mark` or a `Deploy` (`EditIsChange`), and any other is
`Lose`.

Assumptions: the bounds are natural numbers, the loop is one of the writers.

`ThreadRunsProofs`. Every theorem assumes `~Overlap`, and is false without it. The
invariant adds to the checked ones: `OneRun` (one run at a time, it delivers an
undelivered result), `UnknownIsQuiet` (a thread the front does not resume has no
workers, so replacing its checkpoint forgets none), `AfreshIsAlone` (while a run may
be repeated from a fresh state, every worker at work is its own or forgotten already,
so that the rerun forgets no other) and `MemoryIsCurrent` (the
run's memory knows the workers at work and has a reason other than the delivered
result to hold the item in progress). `PlansDo` sums up what the planning loop makes
of a plan in memory, in four cases. `WorkersAreRecorded`, `ProgressIsBacked`,
`DispatchExclusive` and `TypeCorrect` follow. `CompletedIsKept` needs one more
invariant, `ItemTracked`, that relates the item in memory to the checkpoint in
each phase of a run: between step and save a completed item stays so unless the
incident branch or the leader's new plan took it.

`PlanKernelProofs`. The invariant says that the stored number bounds every id in
use, in the plan (`GoodState`) and with every worker whose result may still come
(`Agrees`); so new items never take an id that a result may name, and such a result
names its own task. Stray workers are excepted in `Agrees`, jobs of the run under
way only for the checkpoint; `AfreshIsAlone` says that a rerun from a fresh state,
which starts the numbers again, leaves only stray workers behind. With `OutcomesOwn`
for the plan in memory as well, `IdsAreUnique` and `OutcomesAreOwn` follow. `Bases`
is the lemma about the starting points of the numbering: the length of a plan that
has no number yet is 0 or 1, as all it can hold is the incident's item.

`PlansStayValid` is about the checks of texts, and any set of them. `SeeSeen` and
`ScanSees` say what is in the two tables after n items: the titles and paths of the
first n. So the pass meets a conflict where a later item has a title or a path of
an earlier one, and finds no other (`ScanFinds`). `CheckedPlans` goes through the
tool's actions. Assumption: the bounds are natural numbers.

`AutoMergeProofs`. `JobsInOrder` says how far a job is: no file before its agent
ended, a JSON file in the grace period; with it `JobCompletedIsDone` is inductive
(`CompletedHasEnded`). `PushedInv` says that the commits on a branch are of jobs
that pushed to it, `PumpInv` that up to the merge the pump works for one completed
job on a branch or pull request its result names, so a merge brings the commits of
jobs that pushed to such a branch (`MainIsReported`).
`SettledInv` says that a merge is settled or the pump is about to settle it
(`MergesAreSettled`). `OpeningPulls` and `MergingPulls` are the lemmas about the
sequence of pull requests. Assumption: `MaxPulls` is a natural number.

`OrderSagaProofs`. All invariants of `OrderSaga` about stock and orders are proved,
for any orders, carts, stock and bounds. The proof has three layers.

1. `IInv`: the types, and `PaidBeforeSold` (`SoldIsPaid`), which needs that a job
   confirms stock only for an order that was paid for (`ConfirmingIsPaid`), whatever
   job took the payment, as payments are never taken back; and for the types that a
   request is never retried (`RequestsRunOnce`).
2. `StockInv`, as long as nothing ran twice, nothing was cancelled too early and no
   counter was out of date when it was written (`WritesCurrent`: then a write is of
   the row as it is):
   `Phases` says what the loop position of a job means for the units its order holds,
   `OneAtATime` that one job of an order moves stock, `Ledger` that the counters are
   cardinalities of sets of units. An item's units are a finite set apart from every
   other's (`UnitCount`, `UnitsApart`), so a step adds to, or takes from, the right
   cardinality what it adds to the counter (`CountAdded`, `CountTaken`). It gives
   `StockIsCounted` (`CountersAreUnits`).
3. `WayInv`, which holds with every fault: `Modes` (a request's jobs or the tasks',
   never both) and, per order, `Flow`: an order that is not decided has a job at
   work on it (`Decision`), one job at a time unless a task ran twice (`Single`),
   or its payment is to be tried again or parked (`Pursued`); nobody has paid for an
   order that is to be cancelled (`Clean`), a request at its
   confirmation has sold the items before its place (`Served`), and what is held is a
   prefix or a suffix of the cart (`Leaks`). `MovesOn` is the lemma for a step of
   one job; each action has a lemma that meets its conditions, and other orders are
   `Untouched`. With it: `OrdersAreDecided` (`QuietIsDecided`),
   `RequestsTellTheTruth` (`AnswersAreTrue`), `LeaksAreOfThreeKinds`
   (`LeaksAreKnown`).

`ChargesAreExact` is about the arithmetic of `Prices`, for every total and not
those of the run: discount and tax are each rounded by half a cent at most, and
what the discount is off by is taxed as well, so the amount differs from the exact
one by 1.04 cents at most. The proof takes rates and coupons one at a time, as
no prover here multiplies two variables.

Assumptions: carts are not empty and quantities are positive; totals are whole
numbers of cents, VIP levels are 0 to 3.

`ChatProofs`. The invariant has a part per property. `LoopOK` says for whom the
loop stores what. `PlanInv` and `TextInv` relate memory, files and what each reader
has read: only an out-of-date reader differs (`PlanShownIsLatest`,
`TranscriptKept`, with `AnswersInv` for the order of questions and answers).
`BusyInv` gives `BusyIsTrue`; `PeaceInv` says what is shown between two requests
(`WorkersShown`). `RunsInv` relates a caller's place to its run, and with it
`LoneInv` says that a stream that is not crowded is the only one at work, and that
what it has passed on, with the queue behind it, is what its run has emitted
(`StreamsAreExact`); `Append` and `\o` commute by lemmas on sequences. Assumption:
requests and results are different, and `MaxEvents` is a natural number.

Only model-checked: the liveness properties (`ReliableResultsSettle`,
`ApprovedIsTakenUp`, `TriagedIsDispatched`, `CompletedRepairIsReviewed`,
`InProgressEnds`, `JobReportsBack`), which are out of the prover's reach, and the
two properties that are violated.

## Plan

Done: all modules above, with their runs and proofs. What a further step would
take up, in this order: liveness of the ingest loop (an error that goes on is
triaged); the gateway's and the mock worker's own behaviour.

## Not modelled, and why

- LLM calls, prompts, skills: their decisions are free choices of the models.
- Working and long-term memory, the small tools and their registry: sequential
  functions on one dictionary, or a store that nothing reads back for control.
- Runtime settings: one small file that is read and written as a whole. What it
  switches (automatic merge) is a free choice in `IncidentLifecycle` and
  `AutoMerge`.
- Logging, the web console: display. That the console polls is the reason for the
  readers in `Chat`.
- The development gateway, the traffic and log generators, operational scripts:
  clients and drivers of the system. The user service is in `Prices` as far as its
  discount rates go.
- The mock worker, which reports a fixed result: `WorkerEnds` of `PlanKernel`
  stands for it as for any worker. `agents/collaboration.py` has no caller.
- Prompts and outputs of the in-graph worker and reviewer agents, the progress
  lines a stream makes up by the clock and the chunks it cuts an answer into.
- The bytes of files and messages: whether a file is readable is modelled, what it
  says is not.
