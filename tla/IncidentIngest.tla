--------------------------- MODULE IncidentIngest ---------------------------
(***************************************************************************)
(* From a line of the platform's log to a wake-up of the leader            *)
(* (src/src/app/incidents.py, src/src/app/incident_wakeup.py,              *)
(* RuntimeService._incident_ingest_loop).  A pass reads the log from the   *)
(* saved offset to its end, counts errors of one fingerprint in a sliding  *)
(* window kept in memory, looks the incident up in the registry, and may   *)
(* wake the leader, whose run it awaits before it reads on.  The offset is *)
(* saved when the pass has reached the end, and only then: a pass that is  *)
(* cut short is read again.                                                *)
(*                                                                         *)
(* The services append a line with one or more writes; a pass that meets   *)
(* half a line skips it and counts its bytes, and the next pass starts in  *)
(* the middle.                                                             *)
(*                                                                         *)
(* Each call on the registry file is several steps, and the loop's calls   *)
(* and the threads' interleave.  Steps that have nothing to do with the    *)
(* file (the clock, lines written, lines skipped) are taken while no call  *)
(* is under way (Quiet): they commute with the steps of a call.            *)
(***************************************************************************)
EXTENDS RegistryFile, Sequences, FiniteSets

CONSTANTS
    Loop,           \* the event loop, one of the Writers; the others are threads
    Failing,        \* the fingerprints whose errors are logged
    NewCount, NewWindow,                \* two errors within a minute
    RegCount, RegWindow, Grace,         \* three within two, after a grace period
    Verify,         \* the watcher's verification window
    MaxLog,         \* lines of a behaviour (a bound)
    MaxOther,       \* how many of them are no errors (a bound)
    MaxEvents       \* calls of threads, and faults, of a behaviour (a bound)

Threads == Writers \ {Loop}

ASSUME IngestAssumption ==
    /\ Loop \in Writers /\ Failing \subseteq Fingerprints
    /\ {NewCount, NewWindow, RegCount, RegWindow, Grace} \subseteq Nat
    /\ {Verify, MaxTime, MaxLog, MaxOther, MaxEvents} \subseteq Nat
    /\ MaxTime # 0

VARIABLES
    now,            \* the clock
    log,            \* the lines: the fingerprint of an error, or another event
    half,           \* half a line is written after them
    offset,         \* the saved offset: whole lines, and whether half of the next
    cursor,         \* where the pass is
    step,           \* where the loop is
    record,         \* the line it handles, 0 for none
    window,         \* errors counted, with the time each was handled
    verify,         \* when the watcher's verification began, per incident
    seen,           \* history: when a line was handled last, 0 for never
    torn,           \* history: the lines a pass met half written
    meddled,        \* history: a thread was in the registry during this record
    calls,          \* how many calls of threads there were
    faults          \* how many restarts, rescans and registry errors there were

ingestVars == <<offset, cursor, step, record, window, seen, torn, meddled>>
vars == <<registryVars, now, log, half, ingestVars, verify, calls, faults>>

Other == "other"
Positions == [lines : 0..MaxLog, mid : BOOLEAN]
Counted == [line : 1..MaxLog, at : 1..MaxTime]
Steps == {"idle", "read", "get", "insert", "again", "count", "triage", "regress", "await"}

TypeOK ==
    /\ RegistryTypeOK
    /\ now \in 1..MaxTime
    /\ log \in Seq(Failing \cup {Other}) /\ Len(log) <= MaxLog
    /\ half \in BOOLEAN
    /\ offset \in Positions /\ cursor \in Positions
    /\ step \in Steps
    /\ record \in 0..MaxLog
    /\ window \in [Fingerprints -> Seq(Counted)]
    /\ verify \in [Fingerprints -> 0..MaxTime]
    /\ seen \in [1..MaxLog -> 0..MaxTime]
    /\ torn \subseteq 1..MaxLog
    /\ meddled \in BOOLEAN
    /\ calls \in 0..MaxEvents /\ faults \in 0..MaxEvents

Start == [lines |-> 0, mid |-> FALSE]

Init ==
    /\ RegistryInit
    /\ now = 1
    /\ log = <<>> /\ half = FALSE
    /\ offset = Start /\ cursor = Start
    /\ step = "idle" /\ record = 0
    /\ window = [f \in Fingerprints |-> <<>>]
    /\ verify = [f \in Fingerprints |-> 0]
    /\ seen = [i \in 1..MaxLog |-> 0] /\ torn = {} /\ meddled = FALSE
    /\ calls = 0 /\ faults = 0

Handling == step \notin {"idle", "read", "await"}
MoreEvents == calls + faults < MaxEvents
Free == Idle(Loop) /\ ~Handling
Quiet == ~Handling /\ \A w \in Writers : Idle(w)

-----------------------------------------------------------------------------
(* The services and the clock *)

Tick ==
    /\ now < MaxTime /\ Quiet
    /\ now' = now + 1
    /\ UNCHANGED <<registryVars, log, half, ingestVars, verify, calls, faults>>

\* write_event: a line, or first the half of it.
BeginLine ==
    /\ ~half /\ Len(log) < MaxLog /\ Quiet
    /\ half' = TRUE
    /\ UNCHANGED <<registryVars, now, log, ingestVars, verify, calls, faults>>

\* Only exceptions that no route has caught are logged as service_exception;
\* what a route answers with 500 has an event of its own, and is "other".
WriteLine(kind) ==
    /\ Len(log) < MaxLog /\ Quiet
    /\ kind = Other => Cardinality({i \in DOMAIN log : log[i] = Other}) < MaxOther
    /\ log' = Append(log, kind)
    /\ half' = FALSE
    /\ UNCHANGED <<registryVars, now, ingestVars, verify, calls, faults>>

-----------------------------------------------------------------------------
(* The pass *)

Fp == log[record]

BeginPass ==
    /\ step = "idle" /\ Quiet
    /\ step' = "read" /\ cursor' = offset
    /\ UNCHANGED <<registryVars, now, log, half, offset, record, window, verify,
                   seen, torn, meddled, calls, faults>>

\* Mutant of SkipLine: errors may be skipped.
SkipLineAny ==
    /\ step = "read" /\ Quiet
    /\ cursor.lines < Len(log)
    /\ cursor' = [lines |-> cursor.lines + 1, mid |-> FALSE]
    /\ UNCHANGED <<registryVars, now, log, half, offset, step, record, window,
                   verify, seen, torn, meddled, calls, faults>>

\* A line that is no JSON, or no error.
SkipLine ==
    /\ step = "read" /\ Quiet
    /\ cursor.lines < Len(log)
    /\ cursor.mid \/ log[cursor.lines + 1] = Other
    /\ cursor' = [lines |-> cursor.lines + 1, mid |-> FALSE]
    /\ UNCHANGED <<registryVars, now, log, half, offset, step, record, window,
                   verify, seen, torn, meddled, calls, faults>>

\* The half of a line at the end of the file.
SkipHalf ==
    /\ step = "read" /\ Quiet
    /\ cursor.lines = Len(log) /\ half /\ ~cursor.mid
    /\ cursor' = [cursor EXCEPT !.mid = TRUE]
    /\ torn' = torn \cup {Len(log) + 1}
    /\ UNCHANGED <<registryVars, now, log, half, offset, step, record, window,
                   verify, seen, meddled, calls, faults>>

\* An error is yielded to process_record, which counts it.
TakeRecord ==
    /\ step = "read" /\ Idle(Loop)
    /\ cursor.lines < Len(log) /\ ~cursor.mid
    /\ LET i == cursor.lines + 1
       IN  /\ log[i] # Other
           /\ cursor' = [lines |-> i, mid |-> FALSE]
           /\ record' = i
           /\ window' = [window EXCEPT ![log[i]] = Append(@, [line |-> i, at |-> now])]
           /\ seen' = [seen EXCEPT ![i] = now]
    /\ step' = "get"
    /\ UNCHANGED <<registryVars, now, log, half, offset, verify, torn, meddled, calls, faults>>

\* Mutant of EndPass: the end of the log is where it was when the pass began.
EndPassUnsaved ==
    /\ step = "read" /\ Quiet
    /\ cursor.lines = Len(log) /\ (half => cursor.mid)
    /\ cursor' = Start
    /\ step' = "idle"
    /\ UNCHANGED <<registryVars, now, log, half, offset, record, window,
                   verify, seen, torn, meddled, calls, faults>>

\* The end of the file: the offset is saved.
EndPass ==
    /\ step = "read" /\ Quiet
    /\ cursor.lines = Len(log) /\ (half => cursor.mid)
    /\ offset' = cursor /\ cursor' = Start
    /\ step' = "idle"
    /\ UNCHANGED <<registryVars, now, log, half, record, window, verify,
                   seen, torn, meddled, calls, faults>>

-----------------------------------------------------------------------------
(* process_record *)

Status == Loaded[Fp].status

\* The errors of a list that are within a length of a time.  A recursive
\* function, and not SelectSeq, so that it can be reasoned about.
Within(list, length, time) ==
    LET kept[n \in 0..Len(list)] ==
            IF n = 0 THEN <<>>
            ELSE IF list[n].at + length > time THEN Append(kept[n - 1], list[n])
            ELSE kept[n - 1]
    IN  kept[Len(list)]

\* What _clean_window leaves of a window.
Cleaned(f, length) == Within(window[f], length, now)

Proceed(next) ==
    /\ step' = next
    /\ record' = IF next = "read" THEN 0 ELSE record
    /\ meddled' = (meddled /\ next \notin {"read", "await"})
    /\ UNCHANGED <<now, log, half, offset, cursor, verify, seen, torn, calls, faults>>

Calls(next, fields) == Upsert(Loop, Fp, fields) /\ Proceed(next)

\* An incident that is resolved regresses if it was deployed, and enough
\* errors were counted since; one resolved by hand may never have been.
GetResolved ==
    /\ step = "get" /\ Status = "resolved"
    /\ LET deployed == Loaded[Fp].deployed
           counted == Cleaned(Fp, RegWindow)
       IN  IF deployed # 0 /\ now > deployed + Grace
           THEN /\ window' = [window EXCEPT ![Fp] = counted]
                /\ IF Len(counted) >= RegCount
                   THEN Calls("regress", SetTo("regressed"))
                   ELSE Proceed("read") /\ UNCHANGED registryVars
           ELSE Proceed("read") /\ UNCHANGED <<registryVars, window>>

\* An unknown incident is entered.
GetNone ==
    /\ step = "get" /\ Status = "none"
    /\ Calls("insert", Touch)
    /\ UNCHANGED window

Inserted ==
    /\ step = "insert" /\ Idle(Loop)
    /\ Proceed("again")
    /\ UNCHANGED <<registryVars, window>>

\* Mutant of Awake: an incident in work is counted, too.
AwakeAny == Status \notin {"none", "resolved"}

\* The statuses in which errors still lead to a wake-up.
Awake == Status \in {"new", "triaged"}

GetAwake ==
    /\ step \in {"get", "again"} /\ Awake
    /\ Calls("count", Touch)
    /\ UNCHANGED window

GetOther ==
    /\ \/ step = "get" /\ Status \notin {"none", "resolved"}
       \/ step = "again"
    /\ ~Awake
    /\ Proceed("read")
    /\ UNCHANGED <<registryVars, window>>

\* Mutant of CountErrors: the window is not cleaned before it is counted.
CountErrorsAll ==
    /\ step = "count" /\ Idle(Loop)
    /\ IF Len(window[Fp]) >= NewCount
       THEN Calls("triage", SetTo("triaged"))
       ELSE Proceed("read") /\ UNCHANGED registryVars
    /\ UNCHANGED window

\* The entry's total is incremented; are there enough errors in the window?
CountErrors ==
    /\ step = "count" /\ Idle(Loop)
    /\ LET counted == Cleaned(Fp, NewWindow)
       IN  /\ window' = [window EXCEPT ![Fp] = counted]
           /\ IF Len(counted) >= NewCount
              THEN Calls("triage", SetTo("triaged"))
              ELSE Proceed("read") /\ UNCHANGED registryVars

\* The status is written: the leader is woken and the pass waits for its run.
Wake ==
    /\ step \in {"triage", "regress"} /\ Idle(Loop)
    /\ Proceed("await")
    /\ UNCHANGED <<registryVars, window>>

\* The run is over, or has raised.
RunReturns ==
    /\ step = "await" /\ Idle(Loop)
    /\ Proceed("read")
    /\ UNCHANGED <<registryVars, window>>

ProcessRecord ==
    \/ GetResolved \/ GetNone \/ Inserted \/ GetAwake \/ GetOther
    \/ CountErrors \/ Wake \/ RunReturns

-----------------------------------------------------------------------------
(* Others in the registry *)

LoopWrites ==
    /\ Open(Loop) \/ Write(Loop)
    /\ UNCHANGED <<now, log, half, ingestVars, verify, calls, faults>>

ThreadMeddles ==
    /\ meddled' = (meddled \/ Handling)
    /\ UNCHANGED <<now, log, half, offset, cursor, step, record, window, verify,
                   seen, torn, faults>>

\* The administrator suppresses or resolves; the leader's node, in the run
\* that is awaited, marks the incident running.
ThreadCalls(w, f, s) ==
    /\ s = "running" => step = "await" /\ f = Fp
    /\ Upsert(w, f, SetTo(s))
    /\ MoreEvents /\ calls' = calls + 1
    /\ ThreadMeddles

ThreadWrites(w) == (Open(w) \/ Write(w)) /\ ThreadMeddles /\ UNCHANGED calls

\* The watcher has deployed a repair and begins to verify it ...
WatcherDeploys(f) ==
    /\ Free /\ verify[f] = 0
    /\ Loaded[f].status = "running"
    /\ Upsert(Loop, f, [status |-> "deployed", deployed |-> now])
    /\ verify' = [verify EXCEPT ![f] = now]
    /\ UNCHANGED <<now, log, half, ingestVars, calls, faults>>

\* Mutant of WatcherResolves: it does not wait.
WatcherResolvesAtOnce(f) ==
    /\ Free /\ verify[f] # 0
    /\ IF Loaded[f].status = "deployed"
       THEN Upsert(Loop, f, SetTo("resolved"))
       ELSE UNCHANGED registryVars
    /\ verify' = [verify EXCEPT ![f] = 0]
    /\ UNCHANGED <<now, log, half, ingestVars, calls, faults>>

\* ... and after its window looks at the status, and at nothing else.
WatcherResolves(f) ==
    /\ Free /\ verify[f] # 0 /\ now >= verify[f] + Verify
    /\ IF Loaded[f].status = "deployed"
       THEN Upsert(Loop, f, SetTo("resolved"))
       ELSE UNCHANGED registryVars
    /\ verify' = [verify EXCEPT ![f] = 0]
    /\ UNCHANGED <<now, log, half, ingestVars, calls, faults>>

-----------------------------------------------------------------------------
(* Faults *)

Fault == MoreEvents /\ faults' = faults + 1 /\ UNCHANGED calls

\* A registry call of process_record raises: the pass is over, unsaved.
PassAborts ==
    /\ Fault
    /\ Handling /\ Raises(Loop)
    /\ step' = "idle" /\ record' = 0 /\ cursor' = Start /\ meddled' = FALSE
    /\ UNCHANGED <<now, log, half, offset, window, verify, seen, torn>>

\* The administrator asks for a rescan: the offset file is deleted.  The end
\* of a pass that is under way writes it again.
Rescan ==
    /\ Fault /\ ~Handling
    /\ offset' = Start
    /\ UNCHANGED <<registryVars, now, log, half, cursor, step, record, window,
                   verify, seen, torn, meddled>>

Restart ==
    /\ Fault
    /\ CallsDie
    /\ step' = "idle" /\ record' = 0 /\ cursor' = Start /\ meddled' = FALSE
    /\ window' = [f \in Fingerprints |-> <<>>]
    /\ verify' = [f \in Fingerprints |-> 0]
    /\ UNCHANGED <<now, log, half, offset, seen, torn>>

-----------------------------------------------------------------------------
PassStep == BeginPass \/ SkipLine \/ SkipHalf \/ TakeRecord \/ EndPass

LoopStep == PassStep \/ ProcessRecord \/ LoopWrites

Next ==
    \/ Tick \/ BeginLine \/ \E kind \in Failing \cup {Other} : WriteLine(kind)
    \/ LoopStep
    \/ \E w \in Threads :
        \/ \E f \in Fingerprints, s \in {"running", "suppressed", "resolved"} :
               ThreadCalls(w, f, s)
        \/ ThreadWrites(w)
    \/ \E f \in Fingerprints : WatcherDeploys(f) \/ WatcherResolves(f)
    \/ PassAborts \/ Rescan \/ Restart

Spec == Init /\ [][Next]_vars

-----------------------------------------------------------------------------
(* Properties *)

\* No error before the saved offset has been missed: a pass that is cut
\* short, restarts and rescans do not skip a line.  The exception is a line
\* that a pass met while it was half written (incidents.py:51-58).
RecordsAreSeen ==
    \A i \in 1..offset.lines : log[i] # Other /\ i \notin torn => seen[i] # 0

\* No error is counted twice but after a fault.
RepeatsAreFaults ==
    [][faults = 0 => \A i \in 1..MaxLog : seen[i] # 0 => seen'[i] = seen[i]]_vars

\* An incident is triaged for enough different errors within the window; one
\* error can only count for two if a pass was cut short or a rescan asked for.
TriagedIsRepeated ==
    step = "triage" =>
        LET recent == {i \in 1..record : log[i] = Fp /\ seen[i] + NewWindow > now}
        IN  Cardinality(recent) >= NewCount \/ faults > 0

\* An incident that was verified regresses only because of errors that were
\* counted after its deployment, although the window goes back for minutes:
\* the verification is as long as the window.  Resolved by hand, it may
\* regress because of errors that the deployment cured.
RegressedIsRecent ==
    [][step = "get" /\ step' = "regress" /\ verdict[Fp].by = Loop /\ ~lossy =>
          \A i \in DOMAIN window'[Fp] : window'[Fp][i].at > Loaded[Fp].deployed]_vars

\* An incident is triaged only if its last verdict lets it be: not one that
\* is suppressed, resolved or in work.  Threads that are in the registry at
\* the same moment may break this.
WakesOnlyAwake ==
    step = "triage" /\ call[Loop].at # "idle" =>
        verdict[Fp].status \in {"new", "triaged"} \/ meddled \/ lossy

\* The registry file, with all these callers (see RegistryFile).
VerdictsAreKept == TableHolds

\* The table of the file that was written last, also while the file is empty.
Abstract == INSTANCE Registry WITH
    table <- file.table,
    lost  <- lossy

\* While no calls overlap and the process does not die in one, loading, editing
\* and writing the file is one change of one entry in a table.
ImplementsTable == Abstract!TableSpec
=============================================================================
