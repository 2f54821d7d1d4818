------------------------------ MODULE HookBus ------------------------------
(***************************************************************************)
(* The hook event bus (src/src/app/hook_bus.py) together with its only     *)
(* consumer in the backend, the hook pump of RuntimeService                *)
(* (src/src/api/services/runtime_service.py).                              *)
(*                                                                         *)
(* Daemon threads of code workers push one result each: a file under       *)
(* pending/<thread>/.  The pump, a single asyncio task, asks which threads *)
(* have mail, claims the files of a thread by renaming them to             *)
(* processing/<thread>/, runs the leader on each and then unlinks the      *)
(* file (ack) or renames it back (requeue).  A file that sits in           *)
(* processing although it was WRITTEN more than the stale threshold ago is *)
(* renamed back: os.replace keeps the modification time, so the threshold  *)
(* says nothing about when the file was claimed.                           *)
(*                                                                         *)
(* Every bus operation holds the class lock, so it is one step here; the   *)
(* leader's run is awaited, so it is several.                              *)
(***************************************************************************)
EXTENDS Naturals

CONSTANTS
    Events,     \* the results pushed; the number is the rank of the file's name
    ThreadOf,   \* the thread directory of each event
    LockRetryLimit  \* reruns GraphRuntime.invoke allows on "database is locked"

\* File names are "hook-<uuid>.json": their rank says nothing about their age.
ASSUME EventsAssumption == Events \subseteq Nat
ASSUME LimitAssumption == LockRetryLimit \in Nat

VARIABLES
    file,       \* where the event's file is
    torn,       \* events whose write_text failed half-way: not readable JSON
    old,        \* events whose file was written at least stale_seconds ago
    up,         \* the backend process runs
    pc,         \* where the pump is
    todo,       \* threads this pass of the pump has still to visit
    batch,      \* claimed events the pump holds in memory, the current one included
    attempt,    \* reruns of the graph so far within the run awaited
    effects,    \* history: how often the leader's handling was saved (2: twice or more)
    wiped,      \* history: events whose file a starting backend removed
    unsettled   \* history: events the leader handled with no ack to follow: the run
                \* began again on a locked database, failed, or never ended

busVars == <<file, torn, old>>
pumpVars == <<pc, todo, batch, attempt>>
historyVars == <<effects, wiped, unsettled>>
vars == <<file, torn, old, up, pc, todo, batch, attempt, effects, wiped, unsettled>>

Threads == {ThreadOf[e] : e \in Events}
FileStates == {"unwritten", "pending", "processing", "absent"}
PumpStates == {"dead", "scan", "threads", "running", "handled"}

TypeOK ==
    /\ file \in [Events -> FileStates]
    /\ torn \in SUBSET Events
    /\ old \in SUBSET Events
    /\ up \in BOOLEAN
    /\ pc \in PumpStates
    /\ todo \in SUBSET Threads
    /\ batch \in SUBSET Events
    /\ attempt \in 0..LockRetryLimit
    /\ effects \in [Events -> 0..2]
    /\ wiped \in SUBSET Events
    /\ unsettled \in SUBSET Events

\* The API starts with an empty hook directory and a pump about to scan.
Init ==
    /\ file = [e \in Events |-> "unwritten"]
    /\ torn = {}
    /\ old = {}
    /\ up = TRUE
    /\ pc = "scan"
    /\ todo = {}
    /\ batch = {}
    /\ attempt = 0
    /\ effects = [e \in Events |-> 0]
    /\ wiped = {}
    /\ unsettled = {}

-----------------------------------------------------------------------------
(* Helpers *)

OnDisk(e) == file[e] \in {"pending", "processing"}
Once(n) == IF n = 2 THEN 2 ELSE n + 1

\* Mutant of Recovered: claimed files are never given back.
RecoveredNever(T) == file

\* _recover_stale_locked on the directories of the threads in T.
Recovered(T) ==
    [e \in Events |->
        IF file[e] = "processing" /\ e \in old /\ ThreadOf[e] \in T
        THEN "pending" ELSE file[e]]

\* pop_all sorts by file name: the event awaited is the least one held.
Current(e) == e \in batch /\ \A f \in batch : e <= f

\* The pump is done with event e: next of the batch, or next thread.
Advance(e) ==
    /\ batch' = batch \ {e}
    /\ pc' = IF batch = {e} THEN "threads" ELSE "running"
    /\ attempt' = 0
    /\ UNCHANGED todo

-----------------------------------------------------------------------------
(* Worker threads and the clock *)

\* HookEventBus.push; write_text may also fail and leave a truncated file.
Push(e) ==
    /\ up
    /\ file[e] = "unwritten"
    /\ file' = [file EXCEPT ![e] = "pending"]
    /\ \/ UNCHANGED torn
       \/ torn' = torn \cup {e}
    /\ UNCHANGED <<old, up, pumpVars, historyVars>>

\* The file's modification time falls behind the stale threshold.
Age(e) ==
    /\ OnDisk(e)
    /\ e \notin old
    /\ old' = old \cup {e}
    /\ UNCHANGED <<file, torn, up, pumpVars, historyVars>>

-----------------------------------------------------------------------------
(* The pump *)

\* pending_thread_ids: recover every thread, list those with pending files.
Scan ==
    /\ pc = "scan"
    /\ file' = Recovered(Threads)
    /\ todo' = {ThreadOf[e] : e \in {f \in Events : Recovered(Threads)[f] = "pending"}}
    /\ pc' = "threads"
    /\ UNCHANGED <<torn, old, up, batch, attempt, historyVars>>

\* pop_all: recover the thread, claim its pending files, drop unreadable ones.
PopAll(t) ==
    LET claimed == {e \in Events : ThreadOf[e] = t /\ Recovered({t})[e] = "pending"}
    IN  /\ pc = "threads"
        /\ t \in todo
        /\ file' = [e \in Events |->
                       IF e \notin claimed THEN Recovered({t})[e]
                       ELSE IF e \in torn THEN "absent" ELSE "processing"]
        /\ batch' = claimed \ torn
        /\ todo' = todo \ {t}
        /\ pc' = IF claimed \subseteq torn THEN "threads" ELSE "running"
        /\ UNCHANGED <<torn, old, up, attempt, historyVars>>

\* The for loop is over; the loop sleeps and scans again.
PassEnds ==
    /\ pc = "threads"
    /\ todo = {}
    /\ pc' = "scan"
    /\ UNCHANGED <<busVars, up, todo, batch, attempt, historyVars>>

\* The leader node of the awaited run has handled e and was checkpointed.
LeaderHandles(e) ==
    /\ pc = "running"
    /\ Current(e)
    /\ pc' = "handled"
    /\ effects' = [effects EXCEPT ![e] = Once(@)]
    /\ UNCHANGED <<busVars, up, todo, batch, attempt, wiped, unsettled>>

\* GraphRuntime.invoke: a write of the graph met a locked database.  The same
\* input runs again from the entry node, whatever was checkpointed before.
RunsAgain(e) ==
    /\ pc \in {"running", "handled"}
    /\ Current(e)
    /\ attempt < LockRetryLimit
    /\ attempt' = attempt + 1
    /\ pc' = "running"
    /\ unsettled' = IF pc = "handled" THEN unsettled \cup {e} ELSE unsettled
    /\ UNCHANGED <<busVars, up, todo, batch, effects, wiped>>

\* Mutant of RunReturns: the receipt is requeued, not unlinked.
RunReturnsRequeues(e) ==
    /\ pc = "handled"
    /\ Current(e)
    /\ file' = [file EXCEPT ![e] = "pending"]
    /\ Advance(e)
    /\ UNCHANGED <<torn, old, up, historyVars>>

\* run() returned: ack unlinks the receipt, if it still is in processing.
RunReturns(e) ==
    /\ pc = "handled"
    /\ Current(e)
    /\ file' = [file EXCEPT ![e] = IF @ = "processing" THEN "absent" ELSE @]
    /\ Advance(e)
    /\ UNCHANGED <<torn, old, up, historyVars>>

\* Mutant of RunFails: the event is acked whatever the run did.
RunFailsAcks(e) ==
    /\ pc \in {"running", "handled"}
    /\ Current(e)
    /\ file' = [file EXCEPT ![e] = "absent"]
    /\ unsettled' = IF pc = "handled" THEN unsettled \cup {e} ELSE unsettled
    /\ Advance(e)
    /\ UNCHANGED <<torn, old, up, effects, wiped>>

\* run() raised, before or after the leader's step was saved: requeue.
RunFails(e) ==
    /\ pc \in {"running", "handled"}
    /\ Current(e)
    /\ file' = [file EXCEPT ![e] = IF @ = "processing" THEN "pending" ELSE @]
    /\ unsettled' = IF pc = "handled" THEN unsettled \cup {e} ELSE unsettled
    /\ Advance(e)
    /\ UNCHANGED <<torn, old, up, effects, wiped>>

\* The task ends: memory is lost, files stay where they are.
DropPump ==
    /\ pc' = "dead"
    /\ todo' = {}
    /\ batch' = {}
    /\ attempt' = 0
    /\ unsettled' = unsettled \cup {e \in batch : pc = "handled" /\ Current(e)}

\* An exception outside the try around run(): listing or claiming files, or
\* storing the reply and the plan snapshot once the run has returned.
PumpDies ==
    /\ up
    /\ pc \in {"scan", "threads", "handled"}
    /\ DropPump
    /\ UNCHANGED <<busVars, up, effects, wiped>>

\* _ensure_hook_pump, called by every chat message, replaces a finished task.
EnsureHookPump ==
    /\ up
    /\ pc = "dead"
    /\ pc' = "scan"
    /\ UNCHANGED <<busVars, up, todo, batch, attempt, historyVars>>

-----------------------------------------------------------------------------
(* The backend process *)

\* stop_background_tasks cancels the pump, or the process is killed.
Stop ==
    /\ up
    /\ up' = FALSE
    /\ DropPump
    /\ UNCHANGED <<busVars, effects, wiped>>

\* Mutant of Start: only the pending directories are cleared.
StartClearsPendingOnly ==
    /\ ~up
    /\ up' = TRUE
    /\ file' = [e \in Events |-> IF file[e] = "pending" THEN "absent" ELSE file[e]]
    /\ wiped' = wiped \cup {e \in Events : file[e] = "pending"}
    /\ pc' = "scan"
    /\ UNCHANGED <<torn, old, todo, batch, attempt, effects, unsettled>>

\* start_background_tasks: _reset_startup_runtime_state clears the bus.
Start ==
    /\ ~up
    /\ up' = TRUE
    /\ file' = [e \in Events |-> IF OnDisk(e) THEN "absent" ELSE file[e]]
    /\ wiped' = wiped \cup {e \in Events : OnDisk(e)}
    /\ pc' = "scan"
    /\ UNCHANGED <<torn, old, todo, batch, attempt, effects, unsettled>>

-----------------------------------------------------------------------------
PumpStep(e) == LeaderHandles(e) \/ RunsAgain(e) \/ RunReturns(e) \/ RunFails(e)

Next ==
    \/ \E e \in Events : Push(e) \/ Age(e) \/ PumpStep(e)
    \/ \E t \in Threads : PopAll(t)
    \/ Scan \/ PassEnds
    \/ PumpDies \/ EnsureHookPump
    \/ Stop \/ Start

Spec == Init /\ [][Next]_vars

(***************************************************************************)
(* Fairness.  The event loop keeps running the pump and time passes; each  *)
(* awaited run ends, one way or the other; a stopped backend is started    *)
(* again and somebody chats, which restarts a dead pump.  Only for the     *)
(* events in R is a run that is retried for ever assumed to succeed in the *)
(* end: the others may be poison that fails each time.                     *)
(***************************************************************************)
Fairness(R) ==
    /\ WF_vars(Scan) /\ WF_vars(PassEnds)
    /\ WF_vars(EnsureHookPump) /\ WF_vars(Start)
    /\ \A t \in Threads : WF_vars(PopAll(t))
    /\ \A e \in Events : WF_vars(Age(e)) /\ WF_vars(PumpStep(e))
    /\ \A e \in R : SF_vars(LeaderHandles(e)) /\ SF_vars(RunReturns(e))

-----------------------------------------------------------------------------
(* Properties *)

\* While the pump lives, what it holds in memory is exactly what it has
\* claimed on disk since its last scan: no recovery pulls a file away from a
\* run in flight, so the later ack or requeue finds its receipt.
HeldIsClaimed ==
    /\ pc \in {"running", "handled"} <=> batch # {}
    /\ \A e \in batch : file[e] = "processing" /\ e \notin torn

\* No result is lost: a file that is gone was handled by the leader, unless
\* a starting backend wiped it or it could never be read.
NoResultLost ==
    \A e \in Events :
        file[e] = "absent" => effects[e] > 0 \/ e \in wiped \cup torn

\* A result reaches the leader twice only if a run that had handled it began
\* again on a locked database, or ended without its ack (the run failed late,
\* the pump died, the backend stopped); recovering stale files alone never
\* duplicates a delivery.
DuplicateOnlyIfUnsettled ==
    \A e \in Events : effects[e] = 2 => e \in unsettled

\* What an inductive argument needs beside them: the effect of an event
\* still on disk is the current run's, or was left without its ack or rerun; an
\* event not yet pushed and an event wiped are out of the pump's reach; a
\* stopped backend has no pump.
EffectsAccountedFor ==
    /\ \A e \in Events :
        /\ effects[e] > 0 /\ OnDisk(e) =>
               e \in unsettled \/ (pc = "handled" /\ Current(e))
        /\ pc = "handled" /\ Current(e) => effects[e] > 0
        /\ file[e] = "unwritten" => effects[e] = 0 /\ e \notin torn
        /\ e \in wiped => file[e] = "absent"
    /\ ~up => pc = "dead"

\* The abstract mailbox: queued is "on disk", wherever.
MailboxState(e) ==
    CASE file[e] = "unwritten" -> "unsent"
      [] OnDisk(e) -> "queued"
      [] e \in wiped -> "wiped"
      [] OTHER -> "gone"

Abstract == INSTANCE Mailbox WITH
    Messages <- Events,
    box      <- [e \in Events |-> MailboxState(e)],
    handled  <- effects,
    damaged  <- torn

\* The bus and its pump implement an at-least-once mailbox.
ImplementsMailbox == Abstract!MailboxSpec
=============================================================================
