-------------------------------- MODULE Chat --------------------------------
(***************************************************************************)
(* One conversation as the API keeps and shows it                          *)
(* (src/src/api/services/runtime_service.py,                               *)
(* src/src/app/runtime_event_bus.py).  A request stores the question, has  *)
(* a run of the graph answer it and stores the answer; so does the hook    *)
(* pump with a worker's result.  A run emits events to the queue of its    *)
(* thread as it goes; a streaming request polls that queue, and nothing    *)
(* says whose events are in it.                                            *)
(*                                                                         *)
(* Requests and pump are coroutines of one event loop: what they do        *)
(* between two awaits excludes the others (loop).  The routes that show    *)
(* the history and the plan run in threads: they read a conversation's     *)
(* file, and put what they read in the place of the list in memory.        *)
(*                                                                         *)
(* A run emits from a thread of its own.  Its steps touch nothing that the *)
(* loop touches while it stores something, so they are taken when the loop *)
(* is free.                                                                *)
(***************************************************************************)
EXTENDS Naturals, Sequences, FiniteSets, SequencesExt

CONSTANTS
    Requests,   \* chat requests, streaming or not
    Results,    \* workers' results, for the hook pump
    Readers,    \* threads that show the history or the plan
    MaxEvents   \* events a run emits (a bound)

Callers == Requests \cup Results
Nobody == "nobody"

ASSUME ChatAssumption ==
    /\ MaxEvents \in Nat
    /\ Requests \cap Results = {} /\ Nobody \notin Callers

VARIABLES
    at,         \* where a caller is
    way,        \* how a request is made
    run,        \* the run of a caller
    emitted,    \* how many events it has emitted
    events,     \* the queue of the conversation's thread
    got,        \* what a stream has passed on to its client
    crowded,    \* history: requests that shared their time with another run
    loop,       \* what the event loop is storing, and for whom
    messages,   \* the conversation in memory
    file,       \* the conversation's file
    appended,   \* history: all the messages, in order
    raced,      \* history: a reader undid a later message
    plan,       \* the plan shown: that of whose run
    planFile,   \* the plan's file
    captured,   \* history: whose plan was captured last
    planRaced,  \* history: a reader undid a later plan
    open,       \* the callers whose runs left plan items open
    leader,     \* the status shown for the leader
    worker,     \* ... and for the workers
    reader      \* where a reader is, and what it has read

storeVars == <<messages, file, appended, plan, planFile, captured>>
racedVars == <<raced, planRaced>>
shownVars == <<leader, worker>>
streamVars == <<events, got, crowded>>
vars == <<at, way, run, emitted, streamVars, loop, storeVars, racedVars, open,
          shownVars, reader>>

Messages == Callers \X {"user", "chat", "results"}
Places == {"unused", "asking", "asked", "polling", "ending", "queued", "retry",
           "waiting", "answering", "done", "failed", "gone"}
Free == [step |-> "free", by |-> Nobody]
AtRest == [at |-> "idle", text |-> <<>>, old |-> FALSE, plan |-> Nobody, oldPlan |-> FALSE]

TypeOK ==
    /\ at \in [Callers -> Places]
    /\ way \in [Requests -> {"stream", "send"}]
    /\ run \in [Callers -> {"none", "live", "over", "raised"}]
    /\ emitted \in [Callers -> 0..MaxEvents]
    /\ events \in Seq(Callers \X (1..MaxEvents))
    /\ got \in [Requests -> Seq(Callers \X (1..MaxEvents))]
    /\ crowded \subseteq Requests
    /\ loop \in [step : {"free", "save", "write", "capture", "plan"},
                 by : Callers \cup {Nobody}]
    /\ messages \in Seq(Messages) /\ appended \in Seq(Messages)
    /\ file \in [whole : BOOLEAN, text : Seq(Messages)]
    /\ planFile \in [whole : BOOLEAN, of : Callers \cup {Nobody}]
    /\ plan \in Callers \cup {Nobody} /\ captured \in Callers \cup {Nobody}
    /\ raced \in BOOLEAN /\ planRaced \in BOOLEAN
    /\ open \subseteq Callers
    /\ leader \in {"idle", "busy", "error"}
    /\ worker \in [status : {"idle", "busy"}, count : 0..1]
    /\ reader \in [Readers -> [at : {"idle", "assign", "look", "load", "keep"},
                               text : Seq(Messages), old : BOOLEAN,
                               plan : Callers \cup {Nobody}, oldPlan : BOOLEAN]]

Init ==
    /\ at = [c \in Callers |-> IF c \in Requests THEN "unused" ELSE "queued"]
    /\ way \in [Requests -> {"stream", "send"}]
    /\ run = [c \in Callers |-> "none"]
    /\ emitted = [c \in Callers |-> 0]
    /\ events = <<>> /\ got = [q \in Requests |-> <<>>] /\ crowded = {}
    /\ loop = Free
    /\ messages = <<>> /\ file = [whole |-> FALSE, text |-> <<>>] /\ appended = <<>>
    /\ plan = Nobody /\ planFile = [whole |-> FALSE, of |-> Nobody] /\ captured = Nobody
    /\ raced = FALSE /\ planRaced = FALSE
    /\ open = {}
    /\ leader = "idle" /\ worker = [status |-> "idle", count |-> 0]
    /\ reader = [r \in Readers |-> AtRest]

LoopFree == loop = Free
Streaming(c) == c \in Requests /\ way[c] = "stream"
Goto(c, place) == at' = [at EXCEPT ![c] = place]

-----------------------------------------------------------------------------
(* What a run returns *)

\* leader.plan makes a unit for each agent if the plan has open items,
\* whatever they are.
Units(c) == IF c \in open THEN {"worker", "reviewer"} ELSE {}

\* An agent of the graph answers each unit of its role at once, whatever the
\* code worker outside has come to (run_many, run_unit).
WorkerOutputs(units) == units \cap {"worker"}
ReviewerOutputs(units) == units \cap {"reviewer"}
Outputs(c) == WorkerOutputs(Units(c)) \cup ReviewerOutputs(Units(c))

\* aggregate_node: what the leader said is the answer only if no agent of the
\* graph has answered; otherwise the outputs are.
Reply(c) == IF Outputs(c) = {} THEN "chat" ELSE "results"

WorkersIn(units) == Cardinality(units \cap {"worker"})

-----------------------------------------------------------------------------
(* Storing a message and a plan: the loop does it in one go *)

\* _append_message adds to the list in memory.  A reader that has read the
\* file before will put an older list in its place.
Tells(c, what) ==
    /\ messages' = Append(messages, <<c, what>>)
    /\ appended' = Append(appended, <<c, what>>)
    /\ reader' = [r \in Readers |-> [reader[r] EXCEPT !.old = reader[r].at = "assign"]]
    /\ loop' = [step |-> "save", by |-> c]
    /\ UNCHANGED <<file, plan, planFile, captured, racedVars>>

\* _persist_conversation empties the file ...
SaveOpens ==
    /\ loop.step = "save"
    /\ file' = [whole |-> FALSE, text |-> messages]
    /\ loop' = [loop EXCEPT !.step = "write"]
    /\ UNCHANGED <<at, way, run, emitted, streamVars, messages, appended, plan,
                   planFile, captured, racedVars, open, shownVars, reader>>

Live(c) == run[c] = "live" \/ at[c] = "polling"

\* The run of c begins; whoever is at work on the thread is no more alone.
Begins(c) ==
    LET others == {d \in Callers \ {c} : Live(d)}
    IN  /\ run' = [run EXCEPT ![c] = "live"]
        /\ crowded' = crowded \cup
              (IF others = {} THEN {} ELSE Requests \cap (others \cup {c}))

\* ... and fills it.  Then a request that was just made goes on to its
\* client, or awaits its run; an answer goes on with its plan.
SaveWrites ==
    /\ loop.step = "write"
    /\ file' = [file EXCEPT !.whole = TRUE]
    /\ LET c == loop.by
       IN  \/ /\ at[c] = "answering"
              /\ loop' = [loop EXCEPT !.step = "capture"]
              /\ UNCHANGED <<at, run, crowded>>
           \/ /\ at[c] = "asking" /\ Streaming(c)
              /\ Goto(c, "asked") /\ loop' = Free
              /\ UNCHANGED <<run, crowded>>
           \/ /\ at[c] = "asking" /\ ~Streaming(c)
              /\ Goto(c, "waiting") /\ loop' = Free
              /\ Begins(c)
    /\ UNCHANGED <<way, emitted, events, got, messages, appended, plan, planFile,
                   captured, racedVars, open, shownVars, reader>>

\* Mutant of Capture: the counts stay as they were.
CaptureQuietly ==
    /\ loop.step = "capture"
    /\ plan' = loop.by /\ captured' = loop.by
    /\ planFile' = [whole |-> FALSE, of |-> loop.by]
    /\ reader' = [r \in Readers |-> [reader[r] EXCEPT !.oldPlan = reader[r].at = "keep"]]
    /\ leader' = "idle" /\ worker' = [worker EXCEPT !.status = "idle"]
    /\ loop' = [loop EXCEPT !.step = "plan"]
    /\ UNCHANGED <<at, way, run, emitted, streamVars, messages, file, appended,
                   racedVars, open>>

\* _reset_agent_role_counts and _capture_plan_snapshot
Capture ==
    /\ loop.step = "capture"
    /\ plan' = loop.by /\ captured' = loop.by
    /\ planFile' = [whole |-> FALSE, of |-> loop.by]
    /\ reader' = [r \in Readers |-> [reader[r] EXCEPT !.oldPlan = reader[r].at = "keep"]]
    /\ leader' = "idle" /\ worker' = [status |-> "idle", count |-> WorkersIn(Units(loop.by))]
    /\ loop' = [loop EXCEPT !.step = "plan"]
    /\ UNCHANGED <<at, way, run, emitted, streamVars, messages, file, appended,
                   racedVars, open>>

PlanWrites ==
    /\ loop.step = "plan"
    /\ planFile' = [planFile EXCEPT !.whole = TRUE]
    /\ Goto(loop.by, "done")
    /\ loop' = Free
    /\ UNCHANGED <<way, run, emitted, streamVars, messages, file, appended, plan,
                   captured, racedVars, open, shownVars, reader>>

Stores == SaveOpens \/ SaveWrites \/ Capture \/ PlanWrites

-----------------------------------------------------------------------------
(* Requests *)

IsBusy == leader' = "busy" /\ worker' = [status |-> "idle", count |-> 0]

\* A request shows the leader busy and stores its question.
Arrive(q) ==
    /\ LoopFree /\ at[q] = "unused"
    /\ IsBusy
    /\ Tells(q, "user")
    /\ Goto(q, "asking")
    /\ UNCHANGED <<way, run, emitted, streamVars, open>>

\* Mutant of StartStream: the queue is not cleared.
StartStreamUncleared(q) ==
    /\ LoopFree /\ at[q] = "asked"
    /\ Begins(q)
    /\ Goto(q, "polling")
    /\ UNCHANGED <<way, emitted, events, got, loop, storeVars, racedVars, open,
                   shownVars, reader>>

\* When the client has taken the first lines, the queue is cleared and the
\* run begins.
StartStream(q) ==
    /\ LoopFree /\ at[q] = "asked"
    /\ events' = <<>>
    /\ Begins(q)
    /\ Goto(q, "polling")
    /\ UNCHANGED <<way, emitted, got, loop, storeVars, racedVars, open, shownVars,
                   reader>>

\* RuntimeEventBus.pop_all, for a client
Pop(q) == got' = [got EXCEPT ![q] = @ \o events] /\ events' = <<>>

Poll(q) ==
    /\ LoopFree /\ at[q] = "polling" /\ run[q] = "live"
    /\ events # <<>>
    /\ Pop(q)
    /\ UNCHANGED <<at, way, run, emitted, crowded, loop, storeVars, racedVars, open,
                   shownVars, reader>>

\* The run is over: what it emitted since the last poll is passed on.
LastPop(q) ==
    /\ LoopFree /\ at[q] = "polling" /\ run[q] = "over"
    /\ Pop(q)
    /\ Goto(q, "ending")
    /\ UNCHANGED <<way, run, emitted, crowded, loop, storeVars, racedVars, open,
                   shownVars, reader>>

\* A stream that has passed on all, a request and a result whose run is over
\* store the answer.  The pump stores it and nothing else differs.
Answer(c) ==
    /\ LoopFree
    /\ at[c] = "ending" \/ (at[c] = "waiting" /\ run[c] = "over")
    /\ Tells(c, Reply(c))
    /\ Goto(c, "answering")
    /\ UNCHANGED <<way, run, emitted, streamVars, open, shownVars>>

\* Mutant of RequestFails: the leader goes on being shown as it was.
RequestFailsQuietly(q) ==
    /\ LoopFree /\ at[q] \in {"polling", "waiting"} /\ run[q] = "raised"
    /\ Goto(q, "failed")
    /\ UNCHANGED <<way, run, emitted, streamVars, loop, storeVars, racedVars, open,
                   shownVars, reader>>

\* A run that raises ends its request without an answer; a stream leaves the
\* events behind.
RequestFails(q) ==
    /\ LoopFree /\ at[q] \in {"polling", "waiting"} /\ run[q] = "raised"
    /\ leader' = "error"
    /\ Goto(q, "failed")
    /\ UNCHANGED <<way, run, emitted, streamVars, loop, storeVars, racedVars, open,
                   worker, reader>>

\* The client of a stream leaves.  The generator is cancelled or closed, which
\* is no Exception: the run goes on, its answer is stored by nobody, and the
\* leader stays as it was shown.
Leave(q) ==
    /\ LoopFree /\ Streaming(q) /\ at[q] \in {"asked", "polling", "ending"}
    /\ Goto(q, "gone")
    /\ UNCHANGED <<way, run, emitted, streamVars, loop, storeVars, racedVars, open,
                   shownVars, reader>>

-----------------------------------------------------------------------------
(* The hook pump, one result at a time *)

PumpTakes(h) ==
    /\ LoopFree /\ at[h] \in {"queued", "retry"}
    /\ \A g \in Results : at[g] \notin {"waiting", "answering"}
    /\ worker' = [status |-> "busy", count |-> 1]
    /\ Begins(h)
    /\ Goto(h, "waiting")
    /\ UNCHANGED <<way, emitted, events, got, loop, storeVars, racedVars, open, leader,
                   reader>>

\* A run that raises puts its result back; the worker stays busy.
PumpFails(h) ==
    /\ LoopFree /\ at[h] = "waiting" /\ run[h] = "raised"
    /\ Goto(h, "retry")
    /\ UNCHANGED <<way, run, emitted, streamVars, loop, storeVars, racedVars, open,
                   shownVars, reader>>

-----------------------------------------------------------------------------
(* Runs *)

\* RuntimeEventBus.push
Push(event) == events' = Append(events, event)

\* Deltas of the answer and lines of the log go to the queue of the thread.
Emit(c) ==
    /\ LoopFree /\ run[c] = "live" /\ emitted[c] < MaxEvents
    /\ emitted' = [emitted EXCEPT ![c] = @ + 1]
    /\ Push(<<c, emitted[c] + 1>>)
    /\ UNCHANGED <<at, way, run, got, crowded, loop, storeVars, racedVars, open,
                   shownVars, reader>>

\* build_dispatch_instructions: has the plan pending items, or items in
\* progress?  Of a run whose client left nobody asks.
DispatchQueue(c) == {open} \cup (IF at[c] = "gone" THEN {} ELSE {open \cup {c}})

\* leader_node leaves its queue, and the other nodes follow.
RunEnds(c) ==
    /\ LoopFree /\ run[c] = "live"
    /\ run' = [run EXCEPT ![c] = "over"]
    /\ open' \in DispatchQueue(c)
    /\ UNCHANGED <<at, way, emitted, streamVars, loop, storeVars, racedVars, shownVars,
                   reader>>

RunRaises(c) ==
    /\ LoopFree /\ run[c] = "live"
    /\ run' = [run EXCEPT ![c] = "raised"]
    /\ UNCHANGED <<at, way, emitted, streamVars, loop, storeVars, racedVars, open,
                   shownVars, reader>>

-----------------------------------------------------------------------------
(* Threads that show the history or the plan *)

readerKeeps == <<at, way, run, emitted, streamVars, loop, file, appended, planFile,
                 captured, open, shownVars>>
ReaderAt(r, place) == reader' = [reader EXCEPT ![r].at = place]

\* Mutant of Reads: a file that cannot be parsed is an empty conversation.
ReadsEmpty(r) ==
    /\ reader[r].at = "idle"
    /\ reader' = [reader EXCEPT ![r] =
          [AtRest EXCEPT !.at = "assign",
                         !.text = IF file.whole THEN file.text ELSE <<>>,
                         !.old = loop.step = "save"]]
    /\ UNCHANGED <<readerKeeps, messages, racedVars, plan>>

\* _load_conversation_from_disk reads the file; an empty one is no answer.
Reads(r) ==
    /\ reader[r].at = "idle"
    /\ reader' = [reader EXCEPT ![r] =
          IF file.whole
          THEN [AtRest EXCEPT !.at = "assign", !.text = file.text,
                              !.old = loop.step = "save"]
          ELSE [AtRest EXCEPT !.at = "look"]]
    /\ UNCHANGED <<readerKeeps, messages, racedVars, plan>>

\* What was read takes the place of the list in memory.
Assigns(r) ==
    /\ reader[r].at = "assign"
    /\ messages' = reader[r].text
    /\ raced' = (raced \/ reader[r].old)
    /\ reader' = [reader EXCEPT ![r] = [AtRest EXCEPT !.at = "look"]]
    /\ UNCHANGED <<readerKeeps, plan, planRaced>>

\* get_history is done; get_plan_snapshot returns the plan in memory ...
Shows(r) ==
    /\ reader[r].at = "look"
    /\ reader' = [reader EXCEPT ![r] = AtRest]
    /\ UNCHANGED <<readerKeeps, messages, racedVars, plan>>

\* ... or looks for its file ...
LooksForPlan(r) ==
    /\ reader[r].at = "look" /\ plan = Nobody
    /\ ReaderAt(r, "load")
    /\ UNCHANGED <<readerKeeps, messages, racedVars, plan>>

\* Mutant of LoadsPlan: an empty plan is kept when there is no file.
LoadsPlanAnyway(r) ==
    /\ reader[r].at = "load"
    /\ reader' = [reader EXCEPT ![r] =
          [AtRest EXCEPT !.at = "keep",
                         !.plan = IF planFile.whole THEN planFile.of ELSE Nobody]]
    /\ UNCHANGED <<readerKeeps, messages, racedVars, plan>>

LoadsPlan(r) ==
    /\ reader[r].at = "load"
    /\ reader' = [reader EXCEPT ![r] =
          IF planFile.whole THEN [AtRest EXCEPT !.at = "keep", !.plan = planFile.of]
                            ELSE AtRest]
    /\ UNCHANGED <<readerKeeps, messages, racedVars, plan>>

\* ... and keeps what it read, though a run may have stored its plan since.
KeepsPlan(r) ==
    /\ reader[r].at = "keep"
    /\ plan' = reader[r].plan
    /\ planRaced' = (planRaced \/ reader[r].oldPlan)
    /\ reader' = [reader EXCEPT ![r] = AtRest]
    /\ UNCHANGED <<readerKeeps, messages, raced>>

-----------------------------------------------------------------------------
Asks(q) == Arrive(q) \/ StartStream(q) \/ Poll(q) \/ LastPop(q) \/ RequestFails(q)
Pumps(h) == PumpTakes(h) \/ PumpFails(h)
Runs(c) == Emit(c) \/ RunEnds(c) \/ RunRaises(c)
Shown(r) ==
    Reads(r) \/ Assigns(r) \/ Shows(r) \/ LooksForPlan(r) \/ LoadsPlan(r) \/ KeepsPlan(r)

Next ==
    \/ Stores
    \/ \E q \in Requests : Asks(q) \/ Leave(q)
    \/ \E c \in Callers : Answer(c) \/ Runs(c)
    \/ \E h \in Results : Pumps(h)
    \/ \E r \in Readers : Shown(r)

Spec == Init /\ [][Next]_vars

-----------------------------------------------------------------------------
(* Properties *)

AsEmitted(c) == [i \in 1..emitted[c] |-> <<c, i>>]

\* A stream that has the thread for itself passes on what its run emits, all
\* of it and in order, and nothing that an earlier run left behind
\* (send_message_stream's clear_thread, its polls, and the pop after the run).
LoneStreamIsExact ==
    \A q \in Requests \ crowded : Streaming(q) =>
        /\ at[q] = "polling" => got[q] \o events = AsEmitted(q)
        /\ at[q] \in {"ending", "answering", "done"} => got[q] = AsEmitted(q)

\* No message of a conversation is lost, and every request and result that is
\* done has its answer after its question, unless a thread that read the file
\* before a message put that older list in the place of the newer one
\* (_append_message, _load_conversation_from_disk).
TranscriptIsKept ==
    ~raced =>
        /\ messages = appended
        /\ loop.step \notin {"save", "write"} =>
              file.text = appended /\ (file.whole \/ appended = <<>>)
        /\ \A q \in Requests : at[q] = "done" =>
              \E i, j \in DOMAIN messages :
                  i < j /\ messages[i] = <<q, "user">> /\ messages[j] = <<q, Reply(q)>>

\* The plan that is shown, or will be read from its file, is that of the run
\* stored last, unless a reader kept one that it read before
\* (get_plan_snapshot).
PlanIsLatest ==
    /\ ~planRaced => plan = captured
    /\ planFile.whole => planFile.of = captured

\* The leader is shown busy only for a request that is answered, or whose
\* client left and that nobody answers; in error only after one has failed
\* (_set_role).
BusyIsReal ==
    /\ leader = "busy" =>
          \E q \in Requests : at[q] \notin {"unused", "done", "failed"}
    /\ leader = "error" => \E q \in Requests : at[q] = "failed"

AtPeace == LoopFree /\ \A c \in Callers : at[c] \in {"unused", "queued", "done"}

\* When nothing is under way, workers are shown if and only if the run stored
\* last left open items in its plan, and then its answer is the agents'
\* outputs and not what the leader said (leader.plan, aggregate_node,
\* _reset_agent_role_counts).
WorkersMatchPlan ==
    AtPeace /\ captured # Nobody =>
        /\ worker = [status |-> "idle", count |-> IF captured \in open THEN 1 ELSE 0]
        /\ Last(appended) = <<captured, IF captured \in open THEN "results" ELSE "chat">>
        /\ leader = "idle"
=============================================================================
