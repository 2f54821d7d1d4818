----------------------------- MODULE IngestProofs -----------------------------
(***************************************************************************)
(* Proofs about RegistryFile and IncidentIngest for any number of          *)
(* incidents, threads and log lines.                                       *)
(***************************************************************************)
EXTENDS IncidentIngest, SequenceTheorems, FiniteSetTheorems, WellFoundedInduction, TLAPS

CallRecords == [at : {"idle", "open", "write"}, of : SUBSET Fingerprints,
                table : Tables, stale : BOOLEAN]

FileOK ==
    /\ file \in [text : {"whole", "empty", "garbled"}, table : Tables]
    /\ call \in [Writers -> CallRecords]
    /\ verdict \in [Fingerprints -> [status : Statuses, by : Writers \cup {Nobody}]]
    /\ lossy \in BOOLEAN

ClockOK ==
    /\ now \in 1..MaxTime
    /\ calls \in 0..MaxEvents /\ faults \in 0..MaxEvents
    /\ verify \in [Fingerprints -> 0..MaxTime]

LogOK ==
    /\ log \in Seq(Failing \cup {Other}) /\ Len(log) <= MaxLog
    /\ half \in BOOLEAN

PositionsOK ==
    /\ offset \in Positions /\ cursor \in Positions
    /\ step \in Steps
    /\ record \in 0..MaxLog
    /\ meddled \in BOOLEAN

SeenOK == seen \in [1..MaxLog -> 0..MaxTime] /\ torn \subseteq 1..MaxLog

PassOK == ClockOK /\ LogOK /\ PositionsOK /\ SeenOK

\* There is room for the second half of a line, the line in work is an error
\* in the log, and neither position is behind the log's end.
PlacesOK ==
    /\ half => Len(log) < MaxLog
    /\ offset.lines <= Len(log) /\ cursor.lines <= Len(log)
    /\ step \notin {"idle", "read"} => record \in DOMAIN log /\ log[record] \in Failing

TInv == FileOK /\ PassOK /\ PlacesOK

\* The lines before n are seen, but for other events and torn lines; a
\* position in the middle of a line is in a torn one.
SeenBefore(p) ==
    /\ \A i \in 1..p.lines : log[i] # Other /\ i \notin torn => seen[i] # 0
    /\ p.mid => p.lines + 1 \in torn

SeenInv == SeenBefore(offset) /\ SeenBefore(cursor)

\* Without a fault, no line behind the pass, or behind the offset between two
\* passes, has been seen.
UnseenInv ==
    faults = 0 =>
        \A i \in 1..MaxLog :
            i > (IF step = "idle" THEN offset.lines ELSE cursor.lines) => seen[i] = 0

\* A call that read a whole file that nobody has written since knows the
\* last status of every incident but its own; an empty file has its writer.
FileInv ==
    lossy \/
        /\ file.text # "garbled"
        /\ file.text = "empty" => \E w \in Writers : call[w].at = "write"
        /\ file.text = "whole" =>
              \A f \in Fingerprints : file.table[f].status = verdict[f].status
        /\ \A w \in Writers : call[w].at # "idle" /\ ~call[w].stale =>
              \A f \in Fingerprints \ call[w].of :
                  call[w].table[f].status = verdict[f].status

AwakeStatuses == {"new", "triaged"}

\* While an incident is counted its last verdict lets it be triaged.
AwakeInv ==
    /\ step = "count" /\ call[Loop].at # "idle" =>
          /\ call[Loop].of = {Fp}
          /\ call[Loop].table[Fp].status \in AwakeStatuses
    /\ step = "count" \/ (step = "triage" /\ call[Loop].at # "idle") =>
          verdict[Fp].status \in AwakeStatuses \/ meddled \/ lossy

-----------------------------------------------------------------------------
(* Types *)

LEMMA Bounds ==
    /\ MaxTime \in Nat \ {0} /\ MaxLog \in Nat /\ MaxEvents \in Nat
    /\ Loop \in Writers /\ Failing \subseteq Fingerprints
  BY IngestAssumption DEF IngestAssumption

LEMMA EditedType ==
    ASSUME NEW table \in Tables, NEW f \in Fingerprints, NEW fields \in Entries
    PROVE  [table EXCEPT ![f] = Edited(@, fields)] \in Tables
  BY DEF Tables, Entries, Edited, Statuses

LEMMA LoadedType == FileOK => Loaded \in Tables
<1>1. 0 \in 0..MaxTime
  BY Bounds
<1>2. NoTable \in Tables
  BY <1>1 DEF NoTable, NoEntry, Tables, Entries, Statuses
<1> QED
  BY <1>2 DEF FileOK, Loaded

LEMMA FieldTypes ==
    /\ Touch \in Entries
    /\ \A s \in Statuses : SetTo(s) \in Entries
    /\ NoTable \in Tables
    /\ NoCall \in CallRecords
<1>1. 0 \in 0..MaxTime
  BY Bounds
<1>2. NoTable \in Tables
  BY <1>1 DEF NoTable, NoEntry, Tables, Entries, Statuses
<1> QED
  BY <1>1, <1>2 DEF Touch, SetTo, Entries, Statuses, NoCall, CallRecords

\* Each step of a registry call keeps the types.
LEMMA UpsertType ==
    ASSUME FileOK, NEW w \in Writers, NEW f \in Fingerprints, NEW fields \in Entries,
           Upsert(w, f, fields)
    PROVE  FileOK'
<1>1. [Loaded EXCEPT ![f] = Edited(@, fields)] \in Tables
  BY LoadedType, EditedType
<1> DEFINE c == [at |-> "open", of |-> {f},
                 table |-> [Loaded EXCEPT ![f] = Edited(@, fields)],
                 stale |-> file.text # "whole"]
<1>2. c \in CallRecords
  BY <1>1 DEF CallRecords
<1>3. call' = [call EXCEPT ![w] = c] /\ UNCHANGED <<file, verdict, lossy>>
  BY DEF Upsert
<1> QED
  BY <1>2, <1>3 DEF FileOK

LEMMA OpenType ==
    ASSUME FileOK, NEW w \in Writers, Open(w) PROVE FileOK'
  BY DEF FileOK, Open, CallRecords

LEMMA WriteType ==
    ASSUME FileOK, NEW w \in Writers, Write(w) PROVE FileOK'
<1>1. call[w] \in CallRecords
  BY DEF FileOK
<1>2. file' \in [text : {"whole", "empty", "garbled"}, table : Tables] /\ lossy' \in BOOLEAN
  BY <1>1 DEF FileOK, Write, CallRecords
<1>3. call' \in [Writers -> CallRecords]
  BY FieldTypes DEF FileOK, Write, CallRecords
<1>4. verdict' \in [Fingerprints -> [status : Statuses, by : Writers \cup {Nobody}]]
  BY <1>1 DEF FileOK, Write, CallRecords, Tables, Entries
<1> QED
  BY <1>2, <1>3, <1>4 DEF FileOK

LEMMA RaisesType ==
    ASSUME FileOK, NEW w \in Writers, Raises(w) PROVE FileOK'
  BY FieldTypes DEF FileOK, Raises

LEMMA CallsDieType ==
    ASSUME FileOK, CallsDie PROVE FileOK'
  BY FieldTypes DEF FileOK, CallsDie

\* The fields of the calls there are, and what a step does to the registry.
Fields ==
    {Touch} \cup {SetTo(s) : s \in Statuses \ {"none"}}
            \cup {[status |-> "deployed", deployed |-> t] : t \in 1..MaxTime}

RegistryStep ==
    \/ UNCHANGED registryVars
    \/ \E w \in Writers, f \in Fingerprints, fields \in Fields : Upsert(w, f, fields)
    \/ \E w \in Writers : Open(w) \/ Write(w) \/ Raises(w)
    \/ CallsDie

LEMMA FieldsAreEntries == Fields \subseteq Entries
<1>1. \A t \in 1..MaxTime : t \in 0..MaxTime
  BY Bounds
<1>2. \A t \in 1..MaxTime : [status |-> "deployed", deployed |-> t] \in Entries
  BY <1>1 DEF Entries, Statuses
<1> QED
  BY <1>2, FieldTypes DEF Fields

LEMMA RegistryStepType == ASSUME FileOK, RegistryStep PROVE FileOK'
<1>1. CASE UNCHANGED registryVars
  BY <1>1 DEF FileOK, registryVars
<1>2. CASE \E w \in Writers, f \in Fingerprints, fields \in Fields : Upsert(w, f, fields)
  BY <1>2, UpsertType, FieldsAreEntries
<1>3. CASE \E w \in Writers : Open(w) \/ Write(w) \/ Raises(w)
  BY <1>3, OpenType, WriteType, RaisesType
<1>4. CASE CallsDie
  BY <1>4, CallsDieType
<1> QED
  BY <1>1, <1>2, <1>3, <1>4 DEF RegistryStep

\* In a step of process_record the line in work is an error of an incident.
LEMMA LineInWork ==
    ASSUME TInv, step \notin {"idle", "read"}
    PROVE  Fp \in Fingerprints /\ Fp \in Failing
  BY Bounds DEF TInv, PlacesOK, Fp

LEMMA RegistrySteps == ASSUME TInv, Next PROVE RegistryStep
<1>1. Loop \in Writers /\ Threads \subseteq Writers
  BY Bounds DEF Threads
<1>2. CASE Tick \/ BeginLine \/ \E kind \in Failing \cup {Other} : WriteLine(kind)
  BY <1>2 DEF Tick, BeginLine, WriteLine, RegistryStep
<1>3. CASE PassStep
  BY <1>3 DEF PassStep, BeginPass, SkipLine, SkipHalf, TakeRecord, EndPass, RegistryStep
<1>4. CASE ProcessRecord
  <2>1. step \notin {"idle", "read"}
    BY <1>4 DEF ProcessRecord, GetResolved, GetNone, Inserted, GetAwake, GetOther,
                CountErrors, Wake, RunReturns
  <2>2. Fp \in Fingerprints
    BY <2>1, LineInWork
  <2>3. SetTo("regressed") \in Fields /\ SetTo("triaged") \in Fields /\ Touch \in Fields
    BY DEF Fields, Statuses
  <2> QED
    BY <1>1, <1>4, <2>2, <2>3
       DEF ProcessRecord, GetResolved, GetNone, Inserted, GetAwake, GetOther,
           CountErrors, Wake, RunReturns, Calls, RegistryStep
<1>5. CASE LoopWrites
  BY <1>1, <1>5 DEF LoopWrites, RegistryStep
<1>6. ASSUME NEW w \in Threads, NEW f \in Fingerprints,
             NEW s \in {"running", "suppressed", "resolved"}, ThreadCalls(w, f, s)
      PROVE  RegistryStep
  <2>1. SetTo(s) \in Fields
    BY DEF Fields, Statuses
  <2> QED
    BY <1>1, <1>6, <2>1 DEF ThreadCalls, RegistryStep
<1>7. ASSUME NEW w \in Threads, ThreadWrites(w) PROVE RegistryStep
  BY <1>1, <1>7 DEF ThreadWrites, RegistryStep
<1>8. ASSUME NEW f \in Fingerprints, WatcherDeploys(f) \/ WatcherResolves(f)
      PROVE  RegistryStep
  <2>1. now \in 1..MaxTime
    BY DEF TInv, PassOK, ClockOK
  <2>2. [status |-> "deployed", deployed |-> now] \in Fields /\ SetTo("resolved") \in Fields
    BY <2>1 DEF Fields, Statuses
  <2> QED
    BY <1>1, <1>8, <2>2 DEF WatcherDeploys, WatcherResolves, RegistryStep
<1>9. CASE PassAborts \/ Rescan \/ Restart
  BY <1>1, <1>9 DEF PassAborts, Rescan, Restart, RegistryStep
<1> QED
  BY <1>2, <1>3, <1>4, <1>5, <1>6, <1>7, <1>8, <1>9 DEF Next, LoopStep

-----------------------------------------------------------------------------
(* The table of the registry *)

LEMMA FileInvHolds == ASSUME FileOK, FileInv, RegistryStep PROVE FileInv'
<1>1. CASE UNCHANGED registryVars
  BY <1>1 DEF FileInv, registryVars
<1>2. ASSUME NEW w \in Writers, NEW f \in Fingerprints, NEW fields \in Fields,
             Upsert(w, f, fields)
      PROVE  FileInv'
  <2> DEFINE t == [Loaded EXCEPT ![f] = Edited(@, fields)]
  <2>1. /\ call' = [call EXCEPT ![w] = [at |-> "open", of |-> {f}, table |-> t,
                                         stale |-> file.text # "whole"]]
        /\ UNCHANGED <<file, verdict, lossy>> /\ call[w].at = "idle"
    BY <1>2 DEF Upsert, Idle
  <2>2. CASE lossy
    BY <2>1, <2>2 DEF FileInv
  <2>3. CASE ~lossy
    <3>1. \A v \in Writers \ {w} : call'[v] = call[v]
      BY <2>1 DEF FileOK
    <3>2. /\ call'[w].at = "open" /\ call'[w].of = {f} /\ call'[w].table = t
          /\ call'[w].stale = (file.text # "whole")
      BY <2>1 DEF FileOK
    <3>3. file.text = "whole" =>
              \A g \in Fingerprints \ {f} : t[g].status = verdict[g].status
      BY <2>3, LoadedType DEF FileInv, Loaded, Tables
    <3>4. file'.text = "empty" => \E v \in Writers : call'[v].at = "write"
      BY <2>1, <2>3, <3>1 DEF FileInv
    <3>5. \A v \in Writers : call'[v].at # "idle" /\ ~call'[v].stale =>
              \A g \in Fingerprints \ call'[v].of :
                  call'[v].table[g].status = verdict'[g].status
      <4> HIDE DEF t
      <4>1. verdict' = verdict
        BY <2>1
      <4>2. ASSUME NEW v \in Writers \ {w}, call'[v].at # "idle" /\ ~call'[v].stale
            PROVE  \A g \in Fingerprints \ call'[v].of :
                       call'[v].table[g].status = verdict'[g].status
        BY <2>3, <3>1, <4>1, <4>2 DEF FileInv
      <4>3. ~call'[w].stale => \A g \in Fingerprints \ call'[w].of :
                call'[w].table[g].status = verdict'[g].status
        BY <3>2, <3>3, <4>1
      <4> QED
        BY <4>2, <4>3
    <3> QED
      BY <2>1, <2>3, <3>4, <3>5 DEF FileInv
  <2> QED
    BY <2>2, <2>3
<1>3. ASSUME NEW w \in Writers, Open(w) PROVE FileInv'
  <2>1. /\ file' = [file EXCEPT !.text = "empty"] /\ UNCHANGED <<verdict, lossy>>
        /\ call'[w] = [call[w] EXCEPT !.at = "write"] /\ call[w].at = "open"
        /\ \A v \in Writers \ {w} : call'[v] = [call[v] EXCEPT !.stale = call[v].at # "idle"]
    BY <1>3 DEF Open
  <2>2. ASSUME NEW v \in Writers \ {w}, call'[v].at # "idle" PROVE call'[v].stale
    <3>1. call[v] \in CallRecords
      BY DEF FileOK
    <3>2. call'[v].at = call[v].at /\ call'[v].stale = (call[v].at # "idle")
      BY <2>1, <3>1 DEF CallRecords
    <3> QED
      BY <2>2, <3>2
  <2>3. /\ call'[w].at = "write" /\ call'[w].of = call[w].of
        /\ call'[w].table = call[w].table /\ call'[w].stale = call[w].stale
    BY <2>1 DEF FileOK, CallRecords
  <2>4. file'.text = "empty"
    BY <2>1 DEF FileOK
  <2>5. lossy' = lossy /\ verdict' = verdict
    BY <2>1
  <2>6. ~lossy /\ ~call[w].stale => \A f \in Fingerprints \ call[w].of :
            call[w].table[f].status = verdict[f].status
    BY <2>1 DEF FileInv
  <2> QED
    BY <2>2, <2>3, <2>4, <2>5, <2>6 DEF FileInv
<1>4. ASSUME NEW w \in Writers, Write(w) PROVE FileInv'
  <2>1. PICK text \in {"whole", "garbled"} :
            /\ text = "garbled" => file.text # "empty"
            /\ file' = [text |-> text, table |-> call[w].table]
            /\ lossy' = (lossy \/ call[w].stale \/ text = "garbled")
    BY <1>4 DEF Write
  <2>2. CASE lossy'
    BY <2>2 DEF FileInv
  <2>3. CASE ~lossy'
    <3>1. ~lossy /\ ~call[w].stale /\ text = "whole" /\ call[w].at = "write"
      BY <1>4, <2>1, <2>3 DEF Write, FileOK
    <3>2. /\ \A f \in call[w].of : verdict'[f].status = call[w].table[f].status
          /\ \A f \in Fingerprints \ call[w].of : verdict'[f] = verdict[f]
      BY <1>4 DEF Write, FileOK, CallRecords
    <3>3. \A f \in Fingerprints : call[w].table[f].status = verdict'[f].status
      BY <3>1, <3>2 DEF FileInv
    <3>4. \A v \in Writers : call'[v].at # "idle" => call'[v].stale
      BY <1>4 DEF Write, FileOK, CallRecords, NoCall
    <3> QED
      BY <2>1, <3>1, <3>3, <3>4 DEF FileInv
  <2> QED
    BY <2>2, <2>3
<1>5. ASSUME NEW w \in Writers, Raises(w) PROVE FileInv'
  <2>1. /\ call' = [call EXCEPT ![w] = NoCall] /\ call[w].at = "open"
        /\ UNCHANGED <<file, verdict, lossy>>
    BY <1>5 DEF Raises
  <2>2. call'[w].at = "idle" /\ \A v \in Writers \ {w} : call'[v] = call[v]
    BY <2>1 DEF FileOK, NoCall
  <2> QED
    BY <2>1, <2>2 DEF FileInv
<1>6. CASE CallsDie
  BY <1>6 DEF CallsDie, FileInv, NoCall
<1> QED
  BY <1>1, <1>2, <1>3, <1>4, <1>5, <1>6 DEF RegistryStep

LEMMA FileInvGivesTable == FileOK /\ FileInv => TableHolds
  BY DEF FileInv, TableHolds, FileOK

-----------------------------------------------------------------------------
(* The pass *)

LEMMA InitTypes == Init => TInv
<1> SUFFICES ASSUME Init PROVE TInv
  OBVIOUS
<1>1. 0 \in 0..MaxTime /\ 0 \in 0..MaxEvents /\ 0 \in 0..MaxLog /\ 1 \in 1..MaxTime
  BY Bounds
<1>2. FileOK
  BY FieldTypes DEF Init, RegistryInit, FileOK, Statuses
<1>3. ClockOK
  BY <1>1 DEF Init, ClockOK
<1>4. LogOK
  <2>1. log = <<>> /\ half = FALSE
    BY DEF Init
  <2>2. Len(<<>>) = 0 /\ 0 <= MaxLog
    BY Bounds
  <2>3. log \in Seq(Failing \cup {Other})
    BY <2>1
  <2> QED
    BY <2>1, <2>2, <2>3 DEF LogOK
<1>5. PositionsOK
  BY <1>1 DEF Init, PositionsOK, Start, Positions, Steps
<1>6. SeenOK
  BY <1>1 DEF Init, SeenOK
<1>7. PlacesOK
  BY <1>1 DEF Init, PlacesOK, Start
<1> QED
  BY <1>2, <1>3, <1>4, <1>5, <1>6, <1>7 DEF TInv, PassOK

passVars == <<now, log, half, offset, cursor, step, record, seen, torn, calls, faults>>

\* What is proved of the pass itself.
PassInv == PassOK /\ PlacesOK /\ SeenInv /\ UnseenInv

\* Steps that leave the pass where it is.
LEMMA PassUntouched ==
    ASSUME PassInv, UNCHANGED passVars, meddled' \in BOOLEAN,
           verify' \in [Fingerprints -> 0..MaxTime]
    PROVE  PassInv'
  BY DEF PassInv, PassOK, ClockOK, LogOK, PositionsOK, SeenOK, PlacesOK, SeenInv, SeenBefore, UnseenInv, passVars

\* Steps of process_record go on with the line in work, or leave it.
LEMMA ProceedKeepsPass ==
    ASSUME PassInv, NEW next \in Steps \ {"idle"}, Proceed(next),
           step \notin {"idle", "read"}
    PROVE  PassInv'
<1>1. /\ step' = next /\ record' \in {0, record} /\ (next # "read" => record' = record)
      /\ meddled' \in BOOLEAN
      /\ UNCHANGED <<now, log, half, offset, cursor, verify, seen, torn, calls, faults>>
  BY DEF Proceed, PassInv, PassOK, ClockOK, LogOK, PositionsOK, SeenOK
<1>2. PassOK'
  BY <1>1, Bounds DEF PassInv, PassOK, ClockOK, LogOK, PositionsOK, SeenOK
<1>3. PlacesOK'
  BY <1>1 DEF PassInv, PlacesOK
<1>4. SeenInv' /\ UnseenInv'
  BY <1>1 DEF PassInv, SeenInv, SeenBefore, UnseenInv
<1> QED
  BY <1>2, <1>3, <1>4 DEF PassInv

LEMMA RecordStepKeepsPass == ASSUME PassInv, ProcessRecord PROVE PassInv'
<1>1. step \notin {"idle", "read"}
  BY DEF ProcessRecord, GetResolved, GetNone, Inserted, GetAwake, GetOther,
         CountErrors, Wake, RunReturns
<1>2. \E next \in Steps \ {"idle"} : Proceed(next)
  BY DEF ProcessRecord, GetResolved, GetNone, Inserted, GetAwake, GetOther,
         CountErrors, Wake, RunReturns, Calls, Steps
<1> QED
  BY <1>1, <1>2, ProceedKeepsPass

LEMMA WriterKeepsPass ==
    ASSUME PassInv, NEW kind \in Failing \cup {Other}, BeginLine \/ WriteLine(kind)
    PROVE  PassInv'
<1>1. CASE BeginLine
  BY <1>1 DEF BeginLine, ingestVars, PassInv, PassOK, ClockOK, LogOK, PositionsOK, SeenOK, PlacesOK, SeenInv, SeenBefore, UnseenInv
<1>2. CASE WriteLine(kind)
  <2>1. /\ log' = Append(log, kind) /\ half' = FALSE /\ Len(log) < MaxLog
        /\ UNCHANGED <<now, offset, cursor, step, record, seen, torn, meddled, verify,
                       calls, faults>>
    BY <1>2 DEF WriteLine, ingestVars
  <2>2. /\ log' \in Seq(Failing \cup {Other}) /\ Len(log') = Len(log) + 1
        /\ \A i \in DOMAIN log : log'[i] = log[i] /\ i \in DOMAIN log'
    BY <2>1 DEF PassInv, PassOK, ClockOK, LogOK, PositionsOK, SeenOK
  <2>3. PassOK'
    <3>1. LogOK'
      <4>1. log \in Seq(Failing \cup {Other})
        BY DEF PassInv, PassOK, LogOK
      <4>2. Len(log) \in Nat /\ Len(log') <= MaxLog
        BY <2>1, <2>2, <4>1, Bounds
      <4> QED
        BY <2>1, <2>2, <4>2 DEF LogOK
    <3>2. ClockOK' /\ PositionsOK' /\ SeenOK'
      BY <2>1 DEF PassInv, PassOK, ClockOK, PositionsOK, SeenOK
    <3> QED
      BY <3>1, <3>2 DEF PassOK
  <2>4. PlacesOK'
    BY <2>1, <2>2 DEF PassInv, PassOK, ClockOK, LogOK, PositionsOK, SeenOK, PlacesOK, Positions
  <2>5. ASSUME NEW p \in Positions, p.lines <= Len(log), SeenBefore(p)
        PROVE  SeenBefore(p)'
    BY <2>1, <2>2, <2>5 DEF SeenBefore, PassInv, PassOK, ClockOK, LogOK, PositionsOK, SeenOK, Positions
  <2>6. SeenInv'
    BY <2>1, <2>5 DEF SeenInv, PassInv, PassOK, ClockOK, LogOK, PositionsOK, SeenOK, PlacesOK, SeenBefore
  <2>7. UnseenInv'
    BY <2>1 DEF PassInv, UnseenInv
  <2> QED
    BY <2>3, <2>4, <2>6, <2>7 DEF PassInv
<1> QED
  BY <1>1, <1>2

LEMMA PassStepKeepsPass == ASSUME PassInv, PassStep PROVE PassInv'
<1>1. CASE BeginPass
  BY <1>1 DEF BeginPass, PassInv, PassOK, ClockOK, LogOK, PositionsOK, SeenOK, PlacesOK, SeenInv, SeenBefore, UnseenInv, Steps
<1>2. CASE SkipLine
  <2>1. /\ step = "read" /\ cursor.lines < Len(log)
        /\ cursor.mid \/ log[cursor.lines + 1] = Other
        /\ cursor' = [lines |-> cursor.lines + 1, mid |-> FALSE]
        /\ UNCHANGED <<now, log, half, offset, step, record, seen, torn, meddled, verify,
                       calls, faults>>
    BY <1>2 DEF SkipLine
  <2>2. PassOK' /\ PlacesOK'
    BY <2>1, Bounds DEF PassInv, PassOK, ClockOK, LogOK, PositionsOK, SeenOK, PlacesOK, Positions
  <2>3. SeenInv'
    BY <2>1 DEF PassInv, PassOK, ClockOK, LogOK, PositionsOK, SeenOK, SeenInv, SeenBefore, Positions
  <2>4. UnseenInv'
    BY <2>1 DEF PassInv, PassOK, ClockOK, LogOK, PositionsOK, SeenOK, UnseenInv, Positions
  <2> QED
    BY <2>2, <2>3, <2>4 DEF PassInv
<1>3. CASE SkipHalf
  <2>1. /\ step = "read" /\ cursor.lines = Len(log) /\ half
        /\ cursor' = [cursor EXCEPT !.mid = TRUE]
        /\ torn' = torn \cup {Len(log) + 1}
        /\ UNCHANGED <<now, log, half, offset, step, record, seen, meddled, verify,
                       calls, faults>>
    BY <1>3 DEF SkipHalf
  <2>2. Len(log) \in Nat /\ Len(log) < MaxLog /\ cursor'.lines = cursor.lines
        /\ cursor' \in Positions
    <3>1. Len(log) \in Nat
      BY DEF PassInv, PassOK, LogOK
    <3>2. Len(log) < MaxLog
      BY <2>1 DEF PassInv, PlacesOK
    <3>3. cursor'.lines = cursor.lines /\ cursor' \in Positions
      BY <2>1 DEF PassInv, PassOK, PositionsOK, Positions
    <3> QED
      BY <3>1, <3>2, <3>3
  <2>3. PassOK' /\ PlacesOK'
    BY <2>1, <2>2, Bounds DEF PassInv, PassOK, ClockOK, LogOK, PositionsOK, SeenOK, PlacesOK
  <2>4. SeenInv'
    BY <2>1, <2>2 DEF PassInv, SeenInv, SeenBefore
  <2>5. UnseenInv'
    BY <2>1, <2>2 DEF PassInv, UnseenInv
  <2> QED
    BY <2>3, <2>4, <2>5 DEF PassInv
<1>4. CASE TakeRecord
  <2> DEFINE i == cursor.lines + 1
  <2>1. /\ step = "read" /\ cursor.lines < Len(log) /\ log[i] # Other
        /\ cursor' = [lines |-> i, mid |-> FALSE]
        /\ record' = i /\ step' = "get"
        /\ seen' = [seen EXCEPT ![i] = now]
        /\ UNCHANGED <<now, log, half, offset, torn, meddled, verify, calls, faults>>
    BY <1>4 DEF TakeRecord
  <2>2. i \in 1..MaxLog /\ i \in DOMAIN log /\ log[i] \in Failing
    BY <2>1, Bounds DEF PassInv, PassOK, ClockOK, LogOK, PositionsOK, SeenOK, Positions
  <2>3. PassOK' /\ PlacesOK'
    BY <2>1, <2>2, Bounds
       DEF PassInv, PassOK, ClockOK, LogOK, PositionsOK, SeenOK, PlacesOK, Positions, Steps
  <2>4. now # 0
    BY DEF PassInv, PassOK, ClockOK, LogOK, PositionsOK, SeenOK
  <2>5. \A k \in 1..MaxLog : seen'[k] = (IF k = i THEN now ELSE seen[k])
    BY <2>1 DEF PassInv, PassOK, ClockOK, LogOK, PositionsOK, SeenOK
  <2>6. offset.lines <= MaxLog /\ cursor.lines \in Nat /\ offset.lines \in Nat /\ MaxLog \in Nat
    BY Bounds DEF PassInv, PassOK, ClockOK, LogOK, PositionsOK, SeenOK, Positions
  <2>7. SeenInv'
    <3>1. SeenBefore(offset)'
      BY <2>1, <2>2, <2>4, <2>5, <2>6 DEF PassInv, SeenInv, SeenBefore
    <3>2. SeenBefore(cursor)'
      <4>1. \A k \in 1..i : k \in 1..MaxLog /\ (k = i \/ k \in 1..cursor.lines)
        BY <2>2, <2>6
      <4> QED
        BY <2>1, <2>4, <2>5, <4>1 DEF PassInv, SeenInv, SeenBefore
    <3> QED
      BY <3>1, <3>2 DEF SeenInv
  <2>8. UnseenInv'
    BY <2>1, <2>5, <2>6 DEF PassInv, UnseenInv
  <2> QED
    BY <2>3, <2>7, <2>8 DEF PassInv
<1>5. CASE EndPass
  <2>1. /\ step = "read" /\ offset' = cursor /\ cursor' = Start /\ step' = "idle"
        /\ UNCHANGED <<now, log, half, record, seen, torn, meddled, verify, calls, faults>>
    BY <1>5 DEF EndPass
  <2>2. Start \in Positions /\ Start.lines = 0 /\ ~Start.mid
    BY Bounds DEF Start, Positions
  <2>3. PassOK' /\ PlacesOK'
    BY <2>1, <2>2 DEF PassInv, PassOK, ClockOK, LogOK, PositionsOK, SeenOK, PlacesOK, Steps
  <2>4. SeenInv' /\ UnseenInv'
    BY <2>1, <2>2 DEF PassInv, SeenInv, SeenBefore, UnseenInv
  <2> QED
    BY <2>3, <2>4 DEF PassInv
<1> QED
  BY <1>1, <1>2, <1>3, <1>4, <1>5 DEF PassStep

LEMMA FaultKeepsPass == ASSUME PassInv, PassAborts \/ Rescan \/ Restart PROVE PassInv'
<1>1. faults' \in 0..MaxEvents /\ faults' # 0 /\ UNCHANGED <<calls, seen, torn, now, log, half>>
  BY Bounds DEF PassAborts, Rescan, Restart, Fault, MoreEvents,
     PassInv, PassOK, ClockOK, LogOK, PositionsOK, SeenOK
<1>2. Start \in Positions /\ Start.lines = 0 /\ ~Start.mid
  BY Bounds DEF Start, Positions
<1>3. /\ offset' \in {offset, Start} /\ cursor' \in {cursor, Start}
      /\ \/ step' = "idle" /\ record' = 0
         \/ step' = step /\ record' = record
      /\ meddled' \in BOOLEAN
      /\ verify' \in [Fingerprints -> 0..MaxTime]
  <2>1. CASE Rescan
    BY <2>1 DEF Rescan, PassInv, PassOK, PositionsOK, ClockOK
  <2>2. CASE PassAborts
    BY <2>2 DEF PassAborts, PassInv, PassOK, PositionsOK, ClockOK
  <2>3. CASE Restart
    <3>1. verify' = [f \in Fingerprints |-> 0] /\ 0 \in 0..MaxTime
      BY <2>3, Bounds DEF Restart
    <3> QED
      BY <2>3, <3>1 DEF Restart
  <2> QED
    BY <2>1, <2>2, <2>3
<1>4. PassOK'
  BY <1>1, <1>2, <1>3, Bounds DEF PassInv, PassOK, ClockOK, LogOK, PositionsOK, SeenOK, Steps
<1>5. PlacesOK'
  BY <1>1, <1>2, <1>3 DEF PassInv, PassOK, ClockOK, LogOK, PositionsOK, SeenOK, PlacesOK
<1>6. SeenInv'
  BY <1>1, <1>2, <1>3 DEF PassInv, SeenInv, SeenBefore
<1>7. UnseenInv'
  BY <1>1 DEF UnseenInv
<1> QED
  BY <1>4, <1>5, <1>6, <1>7 DEF PassInv

\* The steps of threads and of the watcher leave the pass alone.
LEMMA ThreadKeepsPass ==
    ASSUME PassInv, NEW w \in Threads,
           \/ ThreadWrites(w)
           \/ \E f \in Fingerprints, s \in {"running", "suppressed", "resolved"} :
                  ThreadCalls(w, f, s)
    PROVE  PassInv'
<1>1. CASE ThreadWrites(w)
  BY <1>1, PassUntouched
     DEF ThreadWrites, ThreadMeddles, Handling, passVars, PassInv, PassOK, PositionsOK, ClockOK
<1>2. ASSUME NEW f \in Fingerprints, NEW s \in {"running", "suppressed", "resolved"},
             ThreadCalls(w, f, s)
      PROVE  PassInv'
  <2>1. /\ calls' \in 0..MaxEvents /\ meddled' \in BOOLEAN
        /\ UNCHANGED <<now, log, half, offset, cursor, step, record, verify, seen, torn, faults>>
    BY <1>2, Bounds
       DEF ThreadCalls, ThreadMeddles, MoreEvents, Handling, PassInv, PassOK, ClockOK, PositionsOK
  <2>2. PassOK'
    BY <2>1 DEF PassInv, PassOK, ClockOK, LogOK, PositionsOK, SeenOK
  <2> QED
    BY <2>1, <2>2 DEF PassInv, PlacesOK, SeenInv, SeenBefore, UnseenInv
<1> QED
  BY <1>1, <1>2

LEMMA WatcherKeepsPass ==
    ASSUME PassInv, NEW f \in Fingerprints, WatcherDeploys(f) \/ WatcherResolves(f)
    PROVE  PassInv'
<1>1. UNCHANGED <<now, log, half, ingestVars, calls, faults>>
  BY DEF WatcherDeploys, WatcherResolves
<1>2. now \in 0..MaxTime /\ 0 \in 0..MaxTime /\ verify \in [Fingerprints -> 0..MaxTime]
  BY Bounds DEF PassInv, PassOK, ClockOK
<1>3. verify' \in [Fingerprints -> 0..MaxTime]
  BY <1>2 DEF WatcherDeploys, WatcherResolves
<1> QED
  BY <1>1, <1>3, PassUntouched DEF passVars, ingestVars, PassInv, PassOK, PositionsOK

LEMMA NextKeepsPass == ASSUME PassInv, Next PROVE PassInv'
<1>1. CASE Tick \/ LoopWrites
  <2>1. CASE Tick
    <3>1. now' \in 1..MaxTime
      BY <2>1, Bounds DEF Tick, PassInv, PassOK, ClockOK
    <3>2. UNCHANGED <<log, half, ingestVars, verify, calls, faults>>
      BY <2>1 DEF Tick
    <3>3. PassOK'
      BY <3>1, <3>2 DEF PassInv, PassOK, ClockOK, LogOK, PositionsOK, SeenOK, ingestVars
    <3> QED
      BY <3>2, <3>3 DEF PassInv, PlacesOK, SeenInv, SeenBefore, UnseenInv, ingestVars
  <2>2. CASE LoopWrites
    BY <2>2, PassUntouched
       DEF LoopWrites, passVars, ingestVars, PassInv, PassOK, PositionsOK, ClockOK
  <2> QED
    BY <1>1, <2>1, <2>2
<1>2. CASE BeginLine \/ \E kind \in Failing \cup {Other} : WriteLine(kind)
  BY <1>2, WriterKeepsPass
<1>3. CASE PassStep
  BY <1>3, PassStepKeepsPass
<1>4. CASE ProcessRecord
  BY <1>4, RecordStepKeepsPass
<1>5. CASE PassAborts \/ Rescan \/ Restart
  BY <1>5, FaultKeepsPass
<1> QED
  BY <1>1, <1>2, <1>3, <1>4, <1>5, ThreadKeepsPass, WatcherKeepsPass DEF Next, LoopStep

-----------------------------------------------------------------------------
(* The statuses that lead to a wake-up *)

\* In the steps in which an incident goes on being counted or triaged, only
\* the loop's own call and threads are in the registry.
LEMMA AwakeHolds == ASSUME TInv, FileInv, AwakeInv, Next PROVE AwakeInv'
<1>1. Loop \in Writers /\ Loop \notin Threads /\ call \in [Writers -> CallRecords]
  BY Bounds DEF Threads, TInv, FileOK
<1>2. CASE ProcessRecord
  <2>1. step \notin {"idle", "read"} /\ UNCHANGED log
    BY <1>2 DEF ProcessRecord, GetResolved, GetNone, Inserted, GetAwake, GetOther,
                CountErrors, Wake, RunReturns, Calls, Proceed
  <2>2. Fp \in Fingerprints
    BY <2>1, LineInWork
  <2>3. CASE GetAwake
    <3>1. /\ Loaded[Fp].status \in AwakeStatuses /\ Idle(Loop)
          /\ call' = [call EXCEPT ![Loop] =
                        [at |-> "open", of |-> {Fp},
                         table |-> [Loaded EXCEPT ![Fp] = Edited(@, Touch)],
                         stale |-> file.text # "whole"]]
          /\ UNCHANGED <<file, verdict, lossy, log, record>> /\ step' = "count"
      BY <2>3 DEF GetAwake, Awake, Status, Calls, Upsert, Proceed, AwakeStatuses
    <3>2. /\ call'[Loop].of = {Fp}
          /\ call'[Loop].table = [Loaded EXCEPT ![Fp] = Edited(@, Touch)]
      BY <1>1, <3>1
    <3>3. Edited(Loaded[Fp], Touch).status = Loaded[Fp].status
      BY <3>1 DEF Edited, Touch, AwakeStatuses
    <3>4. call'[Loop].table[Fp].status \in AwakeStatuses
      BY <2>2, <3>1, <3>2, <3>3, LoadedType DEF TInv, Tables
    <3>5. verdict[Fp].status \in AwakeStatuses \/ lossy
      <4>1. file.text = "whole"
        BY <2>2, <3>1 DEF Loaded, NoTable, NoEntry, AwakeStatuses
      <4> QED
        BY <2>2, <3>1, <4>1 DEF FileInv, Loaded
    <3>6. Fp' = Fp
      BY <3>1 DEF Fp
    <3> QED
      BY <3>1, <3>2, <3>4, <3>5, <3>6 DEF AwakeInv
  <2>4. CASE CountErrors
    <3>1. /\ step = "count" /\ step' \in {"read", "triage"}
          /\ UNCHANGED <<verdict, lossy, log>>
          /\ step' = "triage" => UNCHANGED <<meddled, record>>
      BY <2>4 DEF CountErrors, Calls, Upsert, Proceed, registryVars, TInv, PassOK, PositionsOK
    <3>2. step' = "triage" => Fp' = Fp
      BY <3>1 DEF Fp
    <3> QED
      BY <3>1, <3>2 DEF AwakeInv
  <2>5. CASE ~GetAwake /\ ~CountErrors
    <3>1. step' \notin {"count", "triage"}
      BY <1>2, <2>5 DEF ProcessRecord, GetResolved, GetNone, Inserted, GetOther, Wake,
                        RunReturns, Calls, Proceed
    <3> QED
      BY <3>1 DEF AwakeInv
  <2> QED
    BY <2>3, <2>4, <2>5
<1>3. CASE LoopWrites
  <2>1. UNCHANGED <<log, step, record, meddled>> /\ Fp' = Fp
    BY <1>3 DEF LoopWrites, ingestVars, Fp
  <2>2. CASE Open(Loop)
    <3>1. /\ call'[Loop] = [call[Loop] EXCEPT !.at = "write"] /\ call[Loop].at = "open"
          /\ UNCHANGED <<verdict, lossy>>
      BY <1>1, <2>2 DEF Open
    <3>2. call'[Loop].of = call[Loop].of /\ call'[Loop].table = call[Loop].table
      BY <1>1, <3>1 DEF CallRecords
    <3> QED
      BY <2>1, <3>1, <3>2 DEF AwakeInv
  <2>3. CASE Write(Loop)
    <3>1. call'[Loop].at = "idle" /\ call[Loop].at = "write"
      BY <1>1, <2>3 DEF Write, NoCall
    <3>2. CASE step = "count"
      <4>1. Fp \in Fingerprints
        BY <3>2, LineInWork
      <4>2. verdict'[Fp].status = call[Loop].table[Fp].status
        BY <2>3, <3>1, <3>2, <4>1 DEF Write, AwakeInv
      <4> QED
        BY <2>1, <3>1, <3>2, <4>2 DEF AwakeInv
    <3>3. CASE step # "count"
      BY <2>1, <3>1, <3>3 DEF AwakeInv
    <3> QED
      BY <3>2, <3>3
  <2> QED
    BY <1>3, <2>2, <2>3 DEF LoopWrites
<1>4. ASSUME NEW w \in Threads,
             \/ ThreadWrites(w)
             \/ \E f \in Fingerprints, s \in {"running", "suppressed", "resolved"} :
                    ThreadCalls(w, f, s)
      PROVE  AwakeInv'
  <2>1. /\ UNCHANGED <<log, step, record>> /\ meddled' = (meddled \/ Handling)
        /\ w \in Writers /\ w # Loop
    BY <1>1, <1>4 DEF ThreadWrites, ThreadCalls, ThreadMeddles, Threads
  <2>2. Fp' = Fp /\ (step' \in {"count", "triage"} => meddled')
    BY <2>1 DEF Fp, Handling
  <2>3. /\ call'[Loop].at = call[Loop].at /\ call'[Loop].of = call[Loop].of
        /\ call'[Loop].table = call[Loop].table
    <3>1. call[Loop] \in CallRecords
      BY <1>1
    <3>2. CASE ThreadWrites(w)
      <4>1. call'[Loop] = [call[Loop] EXCEPT !.stale = call[Loop].at # "idle"]
        BY <1>1, <2>1, <3>2 DEF ThreadWrites, Open, Write
      <4> QED
        BY <3>1, <4>1 DEF CallRecords
    <3>3. CASE \E f \in Fingerprints, s \in {"running", "suppressed", "resolved"} :
                    ThreadCalls(w, f, s)
      BY <1>1, <2>1, <3>3 DEF ThreadCalls, Upsert
    <3> QED
      BY <1>4, <3>2, <3>3
  <2> QED
    BY <2>1, <2>2, <2>3 DEF AwakeInv
<1>5. CASE step' \notin {"count", "triage"}
  BY <1>5 DEF AwakeInv
<1>6. CASE Tick \/ BeginLine \/ (\E kind \in Failing \cup {Other} : WriteLine(kind)) \/ PassStep
  <2>1. step' \notin {"count", "triage"}
    BY <1>6 DEF Tick, BeginLine, WriteLine, ingestVars, Quiet, Handling, PassStep, BeginPass,
                SkipLine, SkipHalf, TakeRecord, EndPass, TInv, PassOK, PositionsOK, Steps
  <2> QED
    BY <1>5, <2>1
<1>7. CASE \/ \E f \in Fingerprints : WatcherDeploys(f) \/ WatcherResolves(f)
           \/ PassAborts \/ Rescan \/ Restart
  <2>1. step' \notin {"count", "triage"}
    BY <1>7 DEF WatcherDeploys, WatcherResolves, ingestVars, Free, Handling, PassAborts,
                Rescan, Restart
  <2> QED
    BY <1>5, <2>1
<1> QED
  BY <1>2, <1>3, <1>4, <1>6, <1>7 DEF Next, LoopStep

-----------------------------------------------------------------------------
(* Theorems *)

IInv == TInv /\ SeenInv /\ UnseenInv /\ FileInv /\ AwakeInv

LEMMA InitInv == Init => IInv
<1> SUFFICES ASSUME Init PROVE IInv
  OBVIOUS
<1>1. SeenInv /\ UnseenInv
  BY DEF Init, SeenInv, SeenBefore, UnseenInv, Start
<1>2. FileInv
  BY DEF Init, RegistryInit, FileInv, NoTable, NoEntry, NoCall
<1>3. AwakeInv
  BY DEF Init, AwakeInv
<1> QED
  BY <1>1, <1>2, <1>3, InitTypes DEF IInv

LEMMA StepInv == IInv /\ [Next]_vars => IInv'
<1> SUFFICES ASSUME IInv, [Next]_vars PROVE IInv'
  OBVIOUS
<1>1. CASE Next
  <2>1. PassInv'
    BY <1>1, NextKeepsPass DEF IInv, TInv, PassInv
  <2>2. FileOK' /\ FileInv'
    BY <1>1, RegistrySteps, RegistryStepType, FileInvHolds DEF IInv, TInv
  <2>3. AwakeInv'
    BY <1>1, AwakeHolds DEF IInv
  <2> QED
    BY <2>1, <2>2, <2>3 DEF IInv, TInv, PassInv
<1>2. CASE UNCHANGED vars
  BY <1>2 DEF vars, registryVars, ingestVars, IInv, TInv, FileOK, PassOK, ClockOK, LogOK,
              PositionsOK, SeenOK, PlacesOK, SeenInv, SeenBefore, UnseenInv, FileInv,
              AwakeInv, Fp
<1> QED
  BY <1>1, <1>2

LEMMA Inductive == Spec => []IInv
  BY InitInv, StepInv, PTL DEF Spec

\* No error before the saved offset was missed, whatever is cut short, asked
\* for again or restarted, and however lines are written
\* (tail_new_records, _save_offset).
THEOREM NothingMissed == Spec => []RecordsAreSeen
<1>1. IInv => RecordsAreSeen
  BY DEF IInv, SeenInv, SeenBefore, RecordsAreSeen
<1> QED
  BY <1>1, Inductive, PTL

\* The registry file holds the statuses that were written last, for any number
\* of threads, unless calls overlapped or the process died (_load, _save).
THEOREM RegistryHolds == Spec => []VerdictsAreKept
<1>1. IInv => VerdictsAreKept
  BY FileInvGivesTable DEF IInv, TInv, VerdictsAreKept
<1> QED
  BY <1>1, Inductive, PTL

\* An incident is triaged only if its last verdict lets it be, unless a thread
\* was in the registry at the moment (process_record).
THEOREM OnlyAwakeWoken == Spec => []WakesOnlyAwake
<1>1. IInv => WakesOnlyAwake
  BY DEF IInv, AwakeInv, AwakeStatuses, WakesOnlyAwake
<1> QED
  BY <1>1, Inductive, PTL

\* Without a fault no error is handled twice (_load_offset, _save_offset).
THEOREM NothingRepeated == Spec => RepeatsAreFaults
<1> DEFINE Keeps == faults = 0 => \A i \in 1..MaxLog : seen[i] # 0 => seen'[i] = seen[i]
<1>1. IInv /\ [Next]_vars => [Keeps]_vars
  <2> SUFFICES ASSUME IInv, Next PROVE Keeps
    OBVIOUS
  <2>1. CASE TakeRecord
    <3>1. /\ step = "read" /\ seen' = [seen EXCEPT ![cursor.lines + 1] = now]
      BY <2>1 DEF TakeRecord
    <3>2. cursor.lines \in Nat /\ seen \in [1..MaxLog -> 0..MaxTime] /\ MaxLog \in Nat
      BY Bounds DEF IInv, TInv, PassOK, PositionsOK, SeenOK, Positions
    <3>3. faults = 0 => \A i \in 1..MaxLog : i > cursor.lines => seen[i] = 0
      BY <3>1 DEF IInv, UnseenInv
    <3> QED
      BY <3>1, <3>2, <3>3
  <2>2. CASE ~TakeRecord
    <3>1. seen' = seen
      BY <2>2 DEF Next, LoopStep, Tick, BeginLine, WriteLine, PassStep, BeginPass, SkipLine,
            SkipHalf, EndPass, ProcessRecord, GetResolved, GetNone, Inserted, GetAwake,
            GetOther, CountErrors, Wake, RunReturns, Calls, Proceed, LoopWrites, ThreadCalls,
            ThreadWrites, ThreadMeddles, WatcherDeploys, WatcherResolves, PassAborts, Rescan,
            Restart, ingestVars
    <3> QED
      BY <3>1
  <2> QED
    BY <2>1, <2>2
<1> QED
  BY <1>1, Inductive, PTL DEF Spec, RepeatsAreFaults

-----------------------------------------------------------------------------
(* The windows *)

\* Induction: a set of numbers that is not empty has a least one.
LEMMA Least ==
    ASSUME NEW T, T \subseteq Nat, T # {}
    PROVE  \E m \in T : \A k \in T : ~(k < m)
<1>1. PICK m \in T : \A k \in T : <<k, m>> \notin OpToRel(<, Nat)
  BY NatLessThanWellFounded, WFMin
<1>2. \A k \in T : <<k, m>> \in OpToRel(<, Nat) <=> k < m
  BY DEF OpToRel
<1> QED
  BY <1>1, <1>2

\* The errors of a list come from lines further and further on.
Rising(list) == \A j, k \in DOMAIN list : j < k => list[j].line < list[k].line

\* What the recursion of Within keeps of the first n errors of a list.
Keeps(kept, list, length, time, n) ==
    /\ kept \in [0..n -> Seq(Counted)]
    /\ kept[0] = <<>>
    /\ \A i \in 1..n :
          kept[i] = IF list[i].at + length > time THEN Append(kept[i - 1], list[i])
                    ELSE kept[i - 1]

\* There is a function that obeys the recursion, by induction on how far it goes.
LEMMA KeepsExists ==
    ASSUME NEW list \in Seq(Counted), NEW length, NEW time, NEW n \in 0..Len(list)
    PROVE  \E kept : Keeps(kept, list, length, time, n)
<1> DEFINE Short == {k \in 0..Len(list) : ~\E kept : Keeps(kept, list, length, time, k)}
<1>1. Len(list) \in Nat /\ \A k \in 1..Len(list) : list[k] \in Counted
  OBVIOUS
<1>2. Short = {}
  <2> SUFFICES ASSUME Short # {} PROVE FALSE
    OBVIOUS
  <2>1. PICK m \in Short : \A k \in Short : ~(k < m)
    <3>1. Short \subseteq Nat
      BY <1>1
    <3> HIDE DEF Short
    <3> QED
      BY <3>1, Least
  <2>2. m # 0
    <3> DEFINE kept == [i \in 0..0 |-> <<>>]
    <3>1. <<>> \in Seq(Counted)
      OBVIOUS
    <3>2. Keeps(kept, list, length, time, 0)
      <4>1. kept \in [0..0 -> Seq(Counted)]
        BY <3>1
      <4>2. kept[0] = <<>> /\ 1..0 = {}
        OBVIOUS
      <4> QED
        BY <4>1, <4>2 DEF Keeps
    <3> QED
      BY <3>2, <2>1
  <2>3. m \in 1..Len(list) /\ m - 1 \in 0..Len(list)
    BY <1>1, <2>1, <2>2
  <2>4. PICK g : Keeps(g, list, length, time, m - 1)
    <3>1. m - 1 \notin Short
      <4> HIDE DEF Short
      <4> QED
        BY <1>1, <2>1, <2>3
    <3> QED
      BY <2>3, <3>1
  <2> DEFINE last == IF list[m].at + length > time THEN Append(g[m - 1], list[m])
                     ELSE g[m - 1]
             h == [i \in 0..m |-> IF i = m THEN last ELSE g[i]]
  <2>5. last \in Seq(Counted)
    <3>1. g[m - 1] \in Seq(Counted)
      BY <1>1, <2>3, <2>4 DEF Keeps
    <3>2. list[m] \in Counted
      BY <1>1, <2>3
    <3> HIDE DEF Counted
    <3> QED
      BY <3>1, <3>2
  <2>6. h \in [0..m -> Seq(Counted)]
    <3>1. \A i \in 0..m : i # m => i \in 0..(m - 1)
      BY <1>1, <2>3
    <3>2. \A i \in 0..m : h[i] \in Seq(Counted)
      <4> HIDE DEF last, Counted
      <4> QED
        BY <2>4, <2>5, <3>1 DEF Keeps
    <3> HIDE DEF last
    <3> QED
      BY <3>2
  <2>7. h[0] = <<>>
    <3> HIDE DEF last
    <3> QED
      BY <1>1, <2>3, <2>4 DEF Keeps
  <2>8. ASSUME NEW i \in 1..m
        PROVE  h[i] = IF list[i].at + length > time THEN Append(h[i - 1], list[i])
                      ELSE h[i - 1]
    <3>1. CASE i = m
      <4>1. h[i - 1] = g[m - 1] /\ h[i] = last
        <5> HIDE DEF last
        <5> QED
          BY <1>1, <2>3, <3>1
      <4> HIDE DEF h
      <4> QED
        BY <3>1, <4>1
    <3>2. CASE i # m
      <4>1. /\ i \in 1..(m - 1) /\ i \in 0..m /\ i - 1 \in 0..m /\ i - 1 # m
        BY <1>1, <2>3, <3>2
      <4>2. h[i - 1] = g[i - 1] /\ h[i] = g[i]
        <5> HIDE DEF last
        <5> QED
          BY <3>2, <4>1
      <4> HIDE DEF h
      <4> QED
        BY <2>4, <4>1, <4>2 DEF Keeps
    <3> QED
      BY <3>1, <3>2
  <2>9. Keeps(h, list, length, time, m)
    <3> HIDE DEF h
    <3> QED
      BY <2>6, <2>7, <2>8 DEF Keeps
  <2> QED
    BY <2>1, <2>9
<1> QED
  BY <1>2

\* The recursive definition is a choice of such a function.
LEMMA WithinKeeps ==
    ASSUME NEW list \in Seq(Counted), NEW length, NEW time
    PROVE  \E kept : /\ Keeps(kept, list, length, time, Len(list))
                     /\ Within(list, length, time) = kept[Len(list)]
<1> DEFINE Last(f, n) == IF list[n].at + length > time THEN Append(f[n - 1], list[n])
                         ELSE f[n - 1]
           Rule(f) == f = [n \in 0..Len(list) |-> IF n = 0 THEN <<>> ELSE Last(f, n)]
<1>1. Len(list) \in 0..Len(list) /\ Len(list) \in Nat
  OBVIOUS
<1>2. PICK g : Keeps(g, list, length, time, Len(list))
  BY <1>1, KeepsExists
<1>3. Rule(g)
  <2>1. \A n \in 0..Len(list) : g[n] = IF n = 0 THEN <<>> ELSE Last(g, n)
    <3>1. \A n \in 0..Len(list) : n # 0 => n \in 1..Len(list)
      BY <1>1
    <3> QED
      BY <1>2, <3>1 DEF Keeps
  <2> HIDE DEF Last
  <2> QED
    BY <1>2, <2>1 DEF Keeps
<1> DEFINE f == CHOOSE f : Rule(f)
<1>4. Within(list, length, time) = f[Len(list)]
  BY DEF Within
<1>5. Rule(f)
  <2> HIDE DEF Rule
  <2> QED
    BY <1>3
<1> HIDE DEF f
<1>6. \A n \in 0..Len(list) : f[n] = IF n = 0 THEN <<>> ELSE Last(f, n)
  <2> HIDE DEF Last
  <2> QED
    BY <1>5
<1>7. \A n \in 0..Len(list) : f[n] = g[n]
  <2> DEFINE Differ == {n \in 0..Len(list) : f[n] # g[n]}
  <2> SUFFICES ASSUME Differ # {} PROVE FALSE
    OBVIOUS
  <2>1. PICK m \in Differ : \A k \in Differ : ~(k < m)
    <3>1. Differ \subseteq Nat
      BY <1>1
    <3> HIDE DEF Differ
    <3> QED
      BY <3>1, Least
  <2>2. m # 0
    BY <1>1, <1>2, <1>6, <2>1 DEF Keeps
  <2>3. m \in 1..Len(list) /\ m - 1 \in 0..Len(list) /\ m - 1 < m
    BY <1>1, <2>1, <2>2
  <2>4. f[m - 1] = g[m - 1]
    BY <2>1, <2>3
  <2>5. f[m] = Last(f, m) /\ g[m] = Last(g, m)
    BY <1>2, <1>6, <2>2, <2>3 DEF Keeps
  <2> QED
    BY <2>1, <2>4, <2>5
<1> QED
  BY <1>1, <1>2, <1>4, <1>7

\* Cleaning keeps errors of the list that are recent enough, in their order.
LEMMA WithinFacts ==
    ASSUME NEW list \in Seq(Counted), NEW length, NEW time
    PROVE  LET left == Within(list, length, time)
           IN  /\ left \in Seq(Counted)
               /\ \A k \in DOMAIN left : \E j \in DOMAIN list :
                     left[k] = list[j] /\ list[j].at + length > time
               /\ Rising(list) => Rising(left)
<1>1. PICK kept : /\ Keeps(kept, list, length, time, Len(list))
                  /\ Within(list, length, time) = kept[Len(list)]
  BY WithinKeeps
<1> DEFINE Recent(n) == \A k \in DOMAIN kept[n] : \E j \in 1..n :
                           kept[n][k] = list[j] /\ list[j].at + length > time
           Right(n) == Recent(n) /\ (Rising(list) => Rising(kept[n]))
           Wrong == {n \in 0..Len(list) : ~Right(n)}
<1>2. Len(list) \in Nat /\ DOMAIN list = 1..Len(list)
  OBVIOUS
<1>3. /\ kept \in [0..Len(list) -> Seq(Counted)] /\ kept[0] = <<>>
      /\ \A i \in 1..Len(list) :
            kept[i] = IF list[i].at + length > time THEN Append(kept[i - 1], list[i])
                      ELSE kept[i - 1]
  BY <1>1 DEF Keeps
<1>4. Right(0)
  BY <1>3 DEF Rising
<1>5. ASSUME NEW n \in 1..Len(list), Right(n - 1) PROVE Right(n)
  <2> DEFINE old == kept[n - 1]
             c == list[n]
  <2>1. n - 1 \in 0..Len(list) /\ n \in Nat /\ \A j \in 1..(n - 1) : j \in 1..n /\ j < n
    BY <1>2
  <2>2. old \in Seq(Counted) /\ c \in Counted
    <3> HIDE DEF Counted
    <3> QED
      BY <1>3, <2>1
  <2>3. CASE ~(c.at + length > time)
    <3>1. kept[n] = old
      BY <1>3, <2>3
    <3> QED
      BY <1>5, <2>1, <3>1
  <2>4. CASE c.at + length > time
    <3>1. kept[n] = Append(old, c)
      BY <1>3, <2>4
    <3> HIDE DEF old, c
    <3>2. /\ Len(old) \in Nat /\ DOMAIN old = 1..Len(old)
          /\ DOMAIN kept[n] = 1..(Len(old) + 1)
          /\ kept[n][Len(old) + 1] = c
          /\ \A k \in 1..Len(old) : kept[n][k] = old[k]
      <4> HIDE DEF Counted
      <4> QED
        BY <2>2, <3>1
    <3>3. \A k \in DOMAIN kept[n] : k \in DOMAIN old \/ k = Len(old) + 1
      BY <3>2
    <3>4. Recent(n)
      BY <1>5, <2>1, <2>4, <3>2, <3>3 DEF old, c
    <3>5. ASSUME Rising(list) PROVE Rising(kept[n])
      <4>1. Rising(old)
        BY <1>5, <3>5 DEF old
      <4>2. \A k \in DOMAIN old : old[k].line < c.line
        BY <1>2, <1>5, <2>1, <3>5 DEF Rising, old, c
      <4>3. ASSUME NEW j \in DOMAIN kept[n], NEW k \in DOMAIN kept[n], j < k
            PROVE  kept[n][j].line < kept[n][k].line
        <5>1. j \in DOMAIN old
          BY <3>2, <4>3
        <5>2. CASE k \in DOMAIN old
          BY <3>2, <4>1, <4>3, <5>1, <5>2 DEF Rising
        <5>3. CASE k = Len(old) + 1
          BY <3>2, <4>2, <5>1, <5>3
        <5> QED
          BY <3>3, <5>2, <5>3
      <4> QED
        BY <4>3 DEF Rising
    <3> QED
      BY <3>4, <3>5
  <2> QED
    BY <2>3, <2>4
<1>6. Wrong = {}
  <2> SUFFICES ASSUME Wrong # {} PROVE FALSE
    OBVIOUS
  <2>1. PICK m \in Wrong : \A k \in Wrong : ~(k < m)
    <3>1. Wrong \subseteq Nat
      BY <1>2
    <3> HIDE DEF Wrong
    <3> QED
      BY <3>1, Least
  <2>2. m \in 1..Len(list) /\ m - 1 \in 0..Len(list) /\ m - 1 < m
    BY <1>2, <1>4, <2>1
  <2>3. m - 1 \notin Wrong
    <3> HIDE DEF Wrong
    <3> QED
      BY <2>1, <2>2
  <2> HIDE DEF Right
  <2> QED
    BY <1>5, <2>1, <2>2, <2>3
<1>7. Right(Len(list)) /\ kept[Len(list)] \in Seq(Counted)
  <2>1. Len(list) \in 0..Len(list)
    BY <1>2
  <2> HIDE DEF Right, Counted
  <2> QED
    BY <1>3, <1>6, <2>1
<1> QED
  BY <1>1, <1>2, <1>7

WindowOK == window \in [Fingerprints -> Seq(Counted)]

LEMMA CleanedFacts ==
    ASSUME WindowOK, NEW f \in Fingerprints, NEW length
    PROVE  /\ Cleaned(f, length) \in Seq(Counted)
           /\ \A k \in DOMAIN Cleaned(f, length) : \E j \in DOMAIN window[f] :
                 Cleaned(f, length)[k] = window[f][j] /\ window[f][j].at + length > now
           /\ Rising(window[f]) => Rising(Cleaned(f, length))
<1>1. window[f] \in Seq(Counted)
  BY DEF WindowOK
<1> QED
  BY <1>1, WithinFacts DEF Cleaned

\* What a step does to the windows.
Cleans == \E length \in {NewWindow, RegWindow} :
             window' = [window EXCEPT ![Fp] = Cleaned(Fp, length)]

LEMMA WindowSteps ==
    ASSUME Next
    PROVE  \/ UNCHANGED window
           \/ TakeRecord
           \/ (GetResolved \/ CountErrors) /\ Cleans
           \/ Restart
<1>1. CASE GetResolved
  BY <1>1 DEF GetResolved, Cleans
<1>2. CASE CountErrors
  BY <1>2 DEF CountErrors, Cleans
<1> QED
  BY <1>1, <1>2 DEF Next, LoopStep, Tick, BeginLine, WriteLine, PassStep, BeginPass, SkipLine,
            SkipHalf, EndPass, ProcessRecord, GetNone, Inserted, GetAwake,
            GetOther, Wake, RunReturns, LoopWrites, ThreadCalls,
            ThreadWrites, ThreadMeddles, WatcherDeploys, WatcherResolves, PassAborts, Rescan,
            ingestVars

LEMMA WindowTypes == ASSUME TInv, WindowOK, Next PROVE WindowOK'
<1>1. CASE UNCHANGED window
  BY <1>1 DEF WindowOK
<1>2. CASE TakeRecord
  <2> DEFINE i == cursor.lines + 1
             c == [line |-> i, at |-> now]
  <2>1. /\ window' = [window EXCEPT ![log[i]] = Append(@, c)]
        /\ log[i] # Other /\ cursor.lines < Len(log)
    BY <1>2 DEF TakeRecord
  <2>2. /\ i \in DOMAIN log /\ i \in 1..MaxLog /\ now \in 1..MaxTime
        /\ log \in Seq(Failing \cup {Other})
    BY <2>1, Bounds DEF TInv, PassOK, ClockOK, LogOK, PositionsOK, Positions
  <2>3. c \in Counted /\ log[i] \in Fingerprints
    BY <2>1, <2>2, Bounds DEF Counted
  <2> HIDE DEF i, c
  <2>4. Append(window[log[i]], c) \in Seq(Counted)
    <3> HIDE DEF Counted
    <3> QED
      BY <2>3 DEF WindowOK
  <2> QED
    BY <2>1, <2>3, <2>4 DEF WindowOK
<1>3. CASE (GetResolved \/ CountErrors) /\ Cleans
  <2>1. Fp \in Fingerprints
    BY <1>3, LineInWork DEF GetResolved, CountErrors
  <2>2. PICK length \in {NewWindow, RegWindow} :
            window' = [window EXCEPT ![Fp] = Cleaned(Fp, length)]
    BY <1>3 DEF Cleans
  <2>3. Cleaned(Fp, length) \in Seq(Counted)
    BY <2>1, CleanedFacts
  <2> QED
    BY <2>1, <2>2, <2>3 DEF WindowOK
<1>4. CASE Restart
  <2>1. <<>> \in Seq(Counted)
    OBVIOUS
  <2> QED
    BY <1>4, <2>1 DEF Restart, WindowOK
<1> QED
  BY <1>1, <1>2, <1>3, <1>4, WindowSteps

\* How far the pass has come.
Front == IF step = "idle" THEN offset.lines ELSE cursor.lines

\* Without a fault the line in work is the last one taken, and the errors in a
\* window are errors of its incident before the front, in the order of their
\* lines and with the time they were handled last.
CountedInv ==
    faults = 0 =>
        /\ Handling => record = cursor.lines
        /\ \A f \in Fingerprints :
              /\ \A k \in DOMAIN window[f] :
                    /\ window[f][k].line <= Front
                    /\ log[window[f][k].line] = f
                    /\ seen[window[f][k].line] = window[f][k].at
              /\ Rising(window[f])

\* What triages an incident are enough errors, recent still.
EnoughInv ==
    step = "triage" =>
        /\ Len(window[Fp]) >= NewCount
        /\ \A k \in DOMAIN window[Fp] : window[Fp][k].at + NewWindow > now

\* Without a fault the front only advances, and nothing behind it changes.
LEMMA FrontSteps ==
    ASSUME TInv, Next, faults' = 0
    PROVE  /\ faults = 0 /\ Front \in 0..MaxLog /\ Front' \in 0..MaxLog /\ Front <= Front'
           /\ \A i \in 1..Front : log'[i] = log[i] /\ seen'[i] = seen[i]
           /\ (Handling => record = cursor.lines) => (Handling' => record' = cursor'.lines)
<1> DEFINE Goal == /\ faults = 0 /\ Front \in 0..MaxLog /\ Front' \in 0..MaxLog /\ Front <= Front'
                   /\ \A i \in 1..Front : log'[i] = log[i] /\ seen'[i] = seen[i]
                   /\ (Handling => record = cursor.lines)
                         => (Handling' => record' = cursor'.lines)
<1> SUFFICES Goal
  OBVIOUS
<1>1. faults \in Nat /\ ~(PassAborts \/ Rescan \/ Restart)
  BY Bounds DEF TInv, PassOK, ClockOK, PassAborts, Rescan, Restart, Fault
<1>2. /\ offset.lines \in 0..MaxLog /\ cursor.lines \in 0..MaxLog
      /\ offset.lines <= Len(log) /\ cursor.lines <= Len(log)
      /\ MaxLog \in Nat /\ Len(log) \in Nat /\ Len(log) <= MaxLog
      /\ log \in Seq(Failing \cup {Other}) /\ seen \in [1..MaxLog -> 0..MaxTime]
  BY Bounds DEF TInv, PassOK, LogOK, PositionsOK, Positions, PlacesOK, SeenOK
<1>3. Front \in 0..MaxLog /\ Front <= Len(log)
  BY <1>2 DEF Front
<1>4. ASSUME UNCHANGED <<log, offset, cursor, step, record, seen, faults>> PROVE Goal
  BY <1>2, <1>3, <1>4 DEF Front, Handling
<1>5. CASE \E kind \in Failing \cup {Other} : WriteLine(kind)
  <2>1. PICK kind \in Failing \cup {Other} : WriteLine(kind)
    BY <1>5
  <2>2. log' = Append(log, kind) /\ UNCHANGED <<offset, cursor, step, record, seen, faults>>
    BY <2>1 DEF WriteLine, ingestVars
  <2>3. \A i \in 1..Len(log) : log'[i] = log[i]
    BY <1>2, <2>2
  <2>4. \A i \in 1..Front : i \in 1..Len(log)
    BY <1>2, <1>3
  <2> QED
    BY <1>2, <1>3, <2>2, <2>3, <2>4 DEF Front, Handling
<1>6. CASE PassStep
  <2>1. UNCHANGED <<log, faults>>
    BY <1>6 DEF PassStep, BeginPass, SkipLine, SkipHalf, TakeRecord, EndPass
  <2>2. CASE BeginPass
    BY <1>2, <2>1, <2>2 DEF BeginPass, Front, Handling
  <2>3. CASE SkipLine
    BY <1>2, <2>1, <2>3 DEF SkipLine, Front, Handling
  <2>4. CASE SkipHalf
    <3>1. cursor'.lines = cursor.lines
      BY <2>4 DEF SkipHalf, TInv, PassOK, PositionsOK, Positions
    <3> QED
      BY <1>2, <2>1, <2>4, <3>1 DEF SkipHalf, Front, Handling
  <2>5. CASE TakeRecord
    <3>1. /\ step = "read" /\ step' = "get" /\ cursor.lines < Len(log)
          /\ cursor' = [lines |-> cursor.lines + 1, mid |-> FALSE]
          /\ record' = cursor.lines + 1
          /\ seen' = [seen EXCEPT ![cursor.lines + 1] = now]
      BY <2>5 DEF TakeRecord
    <3>2. Front = cursor.lines /\ Front' = cursor.lines + 1
      BY <3>1 DEF Front
    <3>3. \A i \in 1..Front : i # cursor.lines + 1
      BY <1>2, <3>2
    <3> QED
      BY <1>2, <2>1, <3>1, <3>2, <3>3
  <2>6. CASE EndPass
    BY <1>2, <2>1, <2>6 DEF EndPass, Front, Handling
  <2> QED
    BY <1>6, <2>2, <2>3, <2>4, <2>5, <2>6 DEF PassStep
<1>7. CASE ProcessRecord
  <2>1. /\ step \notin {"idle", "read"} /\ step' # "idle"
        /\ UNCHANGED <<log, offset, cursor, seen, faults>>
        /\ step' \notin {"read", "await"} => Handling /\ record' = record
    BY <1>7 DEF ProcessRecord, GetResolved, GetNone, Inserted, GetAwake, GetOther,
                CountErrors, Wake, RunReturns, Calls, Proceed, Handling
  <2> QED
    BY <1>2, <1>3, <2>1 DEF Front, Handling
<1> HIDE DEF Goal
<1>8. CASE Tick \/ BeginLine \/ LoopWrites
  BY <1>4, <1>8 DEF Tick, BeginLine, LoopWrites, ingestVars
<1>9. ASSUME NEW w \in Threads, NEW f \in Fingerprints,
             NEW s \in {"running", "suppressed", "resolved"}, ThreadCalls(w, f, s)
      PROVE  Goal
  BY <1>4, <1>9 DEF ThreadCalls, ThreadMeddles
<1>10. ASSUME NEW w \in Threads, ThreadWrites(w) PROVE Goal
  BY <1>4, <1>10 DEF ThreadWrites, ThreadMeddles
<1>11. ASSUME NEW f \in Fingerprints, WatcherDeploys(f) \/ WatcherResolves(f) PROVE Goal
  BY <1>4, <1>11 DEF WatcherDeploys, WatcherResolves, ingestVars
<1> QED
  BY <1>1, <1>5, <1>6, <1>7, <1>8, <1>9, <1>10, <1>11 DEF Next, LoopStep

LEMMA CountedHolds == ASSUME TInv, WindowOK, CountedInv, Next PROVE CountedInv'
<1> SUFFICES ASSUME faults' = 0
             PROVE  /\ Handling' => record' = cursor'.lines
                    /\ \A f \in Fingerprints :
                          /\ \A k \in DOMAIN window'[f] :
                                /\ window'[f][k].line <= Front'
                                /\ log'[window'[f][k].line] = f
                                /\ seen'[window'[f][k].line] = window'[f][k].at
                          /\ Rising(window'[f])
  BY DEF CountedInv, Rising
<1>1. /\ faults = 0 /\ Front \in 0..MaxLog /\ Front' \in 0..MaxLog /\ Front <= Front'
      /\ \A i \in 1..Front : log'[i] = log[i] /\ seen'[i] = seen[i]
      /\ (Handling => record = cursor.lines) => (Handling' => record' = cursor'.lines)
  BY FrontSteps
<1> DEFINE Old(c, f) == c.line <= Front /\ log[c.line] = f /\ seen[c.line] = c.at
           New(c, f) == c.line <= Front' /\ log'[c.line] = f /\ seen'[c.line] = c.at
<1>2. Handling' => record' = cursor'.lines
  BY <1>1 DEF CountedInv
<1>3. \A f \in Fingerprints :
          Rising(window[f]) /\ \A k \in DOMAIN window[f] : Old(window[f][k], f)
  BY <1>1 DEF CountedInv
<1>4. \A c \in Counted, f \in Fingerprints : Old(c, f) => New(c, f)
  BY <1>1, Bounds DEF Counted
<1>5. \A f \in Fingerprints : \A k \in DOMAIN window[f] :
          window[f][k] \in Counted /\ New(window[f][k], f)
  <2> HIDE DEF Old, New, Counted
  <2> QED
    BY <1>3, <1>4 DEF WindowOK
<1> HIDE DEF Old
<1>6. ASSUME NEW f \in Fingerprints
      PROVE  Rising(window'[f]) /\ \A k \in DOMAIN window'[f] : New(window'[f][k], f)
  <2>1. CASE window'[f] = window[f]
    <3> HIDE DEF New
    <3> QED
      BY <1>3, <1>5, <2>1
  <2>2. CASE TakeRecord /\ f = log[cursor.lines + 1]
    <3> DEFINE i == cursor.lines + 1
               c == [line |-> i, at |-> now]
    <3>1. /\ window' = [window EXCEPT ![f] = Append(@, c)] /\ step = "read" /\ step' = "get"
          /\ seen' = [seen EXCEPT ![i] = now] /\ log' = log
          /\ cursor' = [lines |-> i, mid |-> FALSE] /\ cursor.lines < Len(log)
      BY <2>2 DEF TakeRecord
    <3>2. i \in 1..MaxLog /\ now \in 1..MaxTime /\ seen \in [1..MaxLog -> 0..MaxTime]
      BY <3>1, Bounds DEF TInv, PassOK, ClockOK, LogOK, PositionsOK, Positions, SeenOK
    <3>3. Front = cursor.lines /\ Front' = i
      BY <3>1 DEF Front
    <3>4. New(c, f)
      BY <2>2, <3>1, <3>2, <3>3
    <3>5. c \in Counted
      BY <3>2 DEF Counted
    <3>6. /\ window[f] \in Seq(Counted) /\ Len(window[f]) \in Nat
          /\ DOMAIN window[f] = 1..Len(window[f])
      <4> HIDE DEF Counted
      <4> QED
        BY DEF WindowOK
    <3>7. window'[f] = Append(window[f], c)
      <4> HIDE DEF c
      <4> QED
        BY <3>1 DEF WindowOK
    <3>8. \A k \in DOMAIN window[f] : window[f][k].line < c.line
      <4> SUFFICES ASSUME NEW k \in DOMAIN window[f] PROVE window[f][k].line < c.line
        OBVIOUS
      <4>1. window[f][k].line \in Nat /\ window[f][k].line <= Front
        BY <1>3, <1>5, Bounds DEF Old, Counted
      <4>2. c.line = i
        OBVIOUS
      <4> QED
        BY <1>1, <3>3, <4>1, <4>2, Bounds
    <3> HIDE DEF c, New
    <3>9. /\ DOMAIN window'[f] = 1..(Len(window[f]) + 1)
          /\ window'[f][Len(window[f]) + 1] = c
          /\ \A k \in DOMAIN window[f] : window'[f][k] = window[f][k]
          /\ \A k \in DOMAIN window'[f] : k \in DOMAIN window[f] \/ k = Len(window[f]) + 1
      <4> HIDE DEF Counted
      <4> QED
        BY <3>5, <3>6, <3>7
    <3>10. \A k \in DOMAIN window'[f] : New(window'[f][k], f)
      BY <1>5, <3>4, <3>9
    <3>11. ASSUME NEW j \in DOMAIN window'[f], NEW k \in DOMAIN window'[f], j < k
           PROVE  window'[f][j].line < window'[f][k].line
      <4>1. j \in DOMAIN window[f]
        BY <3>6, <3>9, <3>11
      <4>2. CASE k \in DOMAIN window[f]
        BY <1>3, <3>9, <3>11, <4>1, <4>2 DEF Rising
      <4>3. CASE k = Len(window[f]) + 1
        BY <3>8, <3>9, <4>1, <4>3
      <4> QED
        BY <3>9, <4>2, <4>3
    <3> QED
      BY <3>10, <3>11 DEF Rising
  <2>3. CASE (GetResolved \/ CountErrors) /\ Cleans /\ f = Fp
    <3>1. PICK length \in {NewWindow, RegWindow} :
              window' = [window EXCEPT ![f] = Cleaned(f, length)]
      BY <2>3 DEF Cleans
    <3>2. window'[f] = Cleaned(f, length)
      BY <3>1 DEF WindowOK
    <3>3. /\ \A k \in DOMAIN window'[f] : \E j \in DOMAIN window[f] :
                window'[f][k] = window[f][j]
          /\ Rising(window[f]) => Rising(window'[f])
      BY <3>2, CleanedFacts
    <3> HIDE DEF New
    <3> QED
      BY <1>3, <1>5, <3>3
  <2>4. ~Restart
    BY <1>1 DEF Restart, Fault
  <2>5. TakeRecord /\ f # log[cursor.lines + 1] => window'[f] = window[f]
    BY DEF TakeRecord, WindowOK
  <2>6. (GetResolved \/ CountErrors) /\ Cleans /\ f # Fp => window'[f] = window[f]
    BY DEF Cleans, WindowOK
  <2> HIDE DEF New
  <2> QED
    BY <2>1, <2>2, <2>3, <2>4, <2>5, <2>6, WindowSteps
<1> QED
  BY <1>2, <1>6

LEMMA EnoughHolds == ASSUME TInv, WindowOK, EnoughInv, Next PROVE EnoughInv'
<1>1. CASE CountErrors
  <2> SUFFICES ASSUME step' = "triage" PROVE EnoughInv'
    BY DEF EnoughInv
  <2>1. Fp \in Fingerprints
    BY <1>1, LineInWork DEF CountErrors
  <2>2. /\ window' = [window EXCEPT ![Fp] = Cleaned(Fp, NewWindow)]
        /\ Len(Cleaned(Fp, NewWindow)) >= NewCount
        /\ UNCHANGED <<now, log, record>>
    BY <1>1 DEF CountErrors, Calls, Proceed
  <2>3. Fp' = Fp /\ window'[Fp] = Cleaned(Fp, NewWindow)
    BY <2>1, <2>2 DEF Fp, WindowOK
  <2>4. \A k \in DOMAIN Cleaned(Fp, NewWindow) : Cleaned(Fp, NewWindow)[k].at + NewWindow > now
    BY <2>1, CleanedFacts
  <2> QED
    BY <2>2, <2>3, <2>4 DEF EnoughInv
<1>2. CASE ~CountErrors
  <2>1. step' = "triage" => step = "triage" /\ UNCHANGED <<now, log, record, window>>
    BY <1>2 DEF Next, LoopStep, Tick, BeginLine, WriteLine, PassStep, BeginPass, SkipLine,
            SkipHalf, EndPass, TakeRecord, ProcessRecord, GetResolved, GetNone, Inserted,
            GetAwake, GetOther, Wake, RunReturns, Calls, Proceed, LoopWrites, ThreadCalls,
            ThreadWrites, ThreadMeddles, WatcherDeploys, WatcherResolves, PassAborts, Rescan,
            Restart, ingestVars, Quiet, Handling, Free
  <2> QED
    BY <2>1 DEF EnoughInv, Fp
<1> QED
  BY <1>1, <1>2

\* Enough recent errors in the window are as many different lines.
LEMMA EnoughLines ==
    ASSUME TInv, WindowOK, CountedInv, EnoughInv
    PROVE  TriagedIsRepeated
<1> SUFFICES ASSUME step = "triage", ~(faults > 0)
             PROVE  Cardinality({i \in 1..record : log[i] = Fp /\ seen[i] + NewWindow > now})
                        >= NewCount
  BY DEF TriagedIsRepeated
<1> DEFINE recent == {i \in 1..record : log[i] = Fp /\ seen[i] + NewWindow > now}
           list == window[Fp]
           line == [k \in 1..Len(list) |-> list[k].line]
<1>1. faults = 0 /\ Handling /\ record \in 0..MaxLog /\ Front = cursor.lines
  BY Bounds DEF TInv, PassOK, ClockOK, PositionsOK, Handling, Front
<1>2. Fp \in Fingerprints /\ record = cursor.lines
  BY <1>1, LineInWork DEF CountedInv
<1>3. /\ list \in Seq(Counted) /\ Len(list) \in Nat /\ DOMAIN list = 1..Len(list)
      /\ \A k \in DOMAIN list : list[k] \in Counted
  <2> HIDE DEF Counted
  <2> QED
    BY <1>2 DEF WindowOK
<1>4. \A k \in 1..Len(list) : list[k].line \in recent
  <2> SUFFICES ASSUME NEW k \in 1..Len(list) PROVE list[k].line \in recent
    OBVIOUS
  <2>1. list[k].line <= Front /\ log[list[k].line] = Fp /\ seen[list[k].line] = list[k].at
    BY <1>1, <1>2, <1>3 DEF CountedInv
  <2>2. list[k].line \in 1..MaxLog /\ list[k].at + NewWindow > now
    BY <1>1, <1>3 DEF EnoughInv, Counted
  <2>3. list[k].line \in 1..record
    BY <1>1, <1>2, <2>1, <2>2, Bounds
  <2> QED
    BY <2>1, <2>2, <2>3
<1>5. \A j, k \in 1..Len(list) : line[j] = line[k] => j = k
  <2> SUFFICES ASSUME NEW j \in 1..Len(list), NEW k \in 1..Len(list), j # k
               PROVE  list[j].line # list[k].line
    OBVIOUS
  <2>1. j < k \/ k < j
    BY <1>3
  <2>2. Rising(list)
    BY <1>1, <1>2 DEF CountedInv
  <2>3. list[j].line \in Nat /\ list[k].line \in Nat
    <3>1. list[j] \in Counted /\ list[k] \in Counted
      <4> HIDE DEF list, Counted
      <4> QED
        BY <1>3
    <3> HIDE DEF list
    <3> QED
      BY <3>1, Bounds DEF Counted
  <2> QED
    BY <1>3, <2>1, <2>2, <2>3 DEF Rising
<1>6. line \in Injection(1..Len(list), recent)
  <2>1. line \in [1..Len(list) -> recent]
    BY <1>4
  <2> HIDE DEF line
  <2> QED
    BY <1>5, <2>1 DEF Injection, IsInjective
<1>7. IsFiniteSet(recent)
  <2>1. IsFiniteSet(1..record)
    BY <1>1, FS_Interval, Bounds
  <2> QED
    BY <2>1, FS_Subset
<1>8. Cardinality(1..Len(list)) = Len(list)
  <2> HIDE DEF list
  <2> QED
    BY <1>3, FS_Interval
<1> HIDE DEF line
<1>9. Len(list) <= Cardinality(recent)
  <2> HIDE DEF recent, list
  <2> QED
    BY <1>6, <1>7, <1>8, FS_Injection
<1>10. Len(list) >= NewCount
  BY DEF EnoughInv
<1>11. Cardinality(recent) \in Nat
  <2> HIDE DEF recent
  <2> QED
    BY <1>7, FS_CardinalityType
<1>12. NewCount \in Nat
  BY IngestAssumption
<1> HIDE DEF recent, list
<1>13. Cardinality(recent) >= NewCount
  BY <1>3, <1>9, <1>10, <1>11, <1>12
<1> QED
  BY <1>13 DEF recent

-----------------------------------------------------------------------------
(* The dates of deployments *)

\* The tables that may still be read or written, and the deployment times of an
\* incident in them.
InPlay == {file.table} \cup {call[w].table : w \in Writers}
Dates(f) == {t[f].deployed : t \in InPlay} \cup {0}

\* No date is in the future, or later than a verification under way.
DatesInv ==
    \A f \in Fingerprints : \A d \in Dates(f) :
        d <= now /\ (verify[f] # 0 => d <= verify[f])

\* All that is known of f's deployment is as old as a verification is long.
Verified(f) == \A d \in Dates(f) : d + Verify <= now

\* The loop is about to write that f is resolved.
Resolving(f) ==
    /\ call[Loop].at # "idle" /\ f \in call[Loop].of
    /\ call[Loop].table[f].status = "resolved"

ResolvedByLoop(f) == verdict[f] = [status |-> "resolved", by |-> Loop]

\* The loop, that is the watcher, resolves only what has been verified.
VerifiedInv ==
    \A f \in Fingerprints :
        Resolving(f) \/ (ResolvedByLoop(f) /\ ~lossy) => Verified(f)

\* The registry steps that enter no new date.
Plain ==
    \/ UNCHANGED registryVars
    \/ \E w \in Writers, f \in Fingerprints, fields \in Entries :
          fields.deployed = 0 /\ Upsert(w, f, fields)
    \/ \E w \in Writers : Open(w) \/ Write(w) \/ Raises(w)
    \/ CallsDie

LEMMA PlainSteps ==
    ASSUME TInv, Next
    PROVE  Plain \/ \E f \in Fingerprints : WatcherDeploys(f)
<1>1. Loop \in Writers /\ Threads \subseteq Writers
  BY Bounds DEF Threads
<1>2. CASE Tick \/ BeginLine \/ \E kind \in Failing \cup {Other} : WriteLine(kind)
  BY <1>2 DEF Tick, BeginLine, WriteLine, Plain
<1>3. CASE PassStep
  BY <1>3 DEF PassStep, BeginPass, SkipLine, SkipHalf, TakeRecord, EndPass, Plain
<1>4. \A s \in Statuses : SetTo(s) \in Entries /\ SetTo(s).deployed = 0
  BY FieldTypes DEF SetTo
<1>5. Touch \in Entries /\ Touch.deployed = 0
  BY FieldTypes DEF Touch
<1>6. {"regressed", "triaged", "running", "suppressed", "resolved"} \subseteq Statuses
  BY DEF Statuses
<1>7. CASE ProcessRecord
  <2>1. step \notin {"idle", "read"}
    BY <1>7 DEF ProcessRecord, GetResolved, GetNone, Inserted, GetAwake, GetOther,
                CountErrors, Wake, RunReturns
  <2>2. Fp \in Fingerprints
    BY <2>1, LineInWork
  <2> QED
    BY <1>1, <1>4, <1>5, <1>6, <1>7, <2>2
       DEF ProcessRecord, GetResolved, GetNone, Inserted, GetAwake, GetOther,
           CountErrors, Wake, RunReturns, Calls, Plain
<1>8. CASE LoopWrites
  BY <1>1, <1>8 DEF LoopWrites, Plain
<1>9. ASSUME NEW w \in Threads, NEW f \in Fingerprints,
             NEW s \in {"running", "suppressed", "resolved"}, ThreadCalls(w, f, s)
      PROVE  Plain
  BY <1>1, <1>4, <1>6, <1>9 DEF ThreadCalls, Plain
<1>10. ASSUME NEW w \in Threads, ThreadWrites(w) PROVE Plain
  BY <1>1, <1>10 DEF ThreadWrites, Plain
<1>11. ASSUME NEW f \in Fingerprints, WatcherResolves(f) PROVE Plain
  BY <1>1, <1>4, <1>6, <1>11 DEF WatcherResolves, Plain
<1>12. CASE PassAborts \/ Rescan \/ Restart
  BY <1>1, <1>12 DEF PassAborts, Rescan, Restart, Plain
<1> QED
  BY <1>2, <1>3, <1>7, <1>8, <1>9, <1>10, <1>11, <1>12 DEF Next, LoopStep

\* A call that edits the entry of g copies the dates, and may enter a new one.
LEMMA UpsertDates ==
    ASSUME FileOK, NEW w \in Writers, NEW g \in Fingerprints, NEW fields \in Entries,
           Upsert(w, g, fields), NEW f \in Fingerprints
    PROVE  Dates(f)' \subseteq Dates(f) \cup (IF f = g THEN {fields.deployed} ELSE {})
<1> DEFINE t == [Loaded EXCEPT ![g] = Edited(@, fields)]
<1>1. /\ file' = file /\ \A v \in Writers \ {w} : call'[v] = call[v]
      /\ call'[w].table = t
  BY DEF Upsert, FileOK
<1>2. Loaded[f].deployed \in Dates(f)
  BY DEF Loaded, Dates, InPlay, NoTable, NoEntry
<1>3. t[f].deployed \in {Loaded[f].deployed} \cup (IF f = g THEN {fields.deployed} ELSE {})
  BY LoadedType DEF Tables, Edited
<1> HIDE DEF t
<1>4. \A u \in InPlay' : u \in InPlay \/ u = t
  BY <1>1 DEF InPlay
<1> QED
  BY <1>2, <1>3, <1>4 DEF Dates

LEMMA PlainDates ==
    ASSUME FileOK, Plain, NEW f \in Fingerprints
    PROVE  Dates(f)' \subseteq Dates(f)
<1>1. CASE UNCHANGED registryVars
  BY <1>1 DEF registryVars, Dates, InPlay
<1>2. CASE \E w \in Writers, g \in Fingerprints, fields \in Entries :
              fields.deployed = 0 /\ Upsert(w, g, fields)
  <2>1. PICK w \in Writers, g \in Fingerprints, fields \in Entries :
            fields.deployed = 0 /\ Upsert(w, g, fields)
    BY <1>2
  <2>2. 0 \in Dates(f)
    BY DEF Dates
  <2> QED
    BY <2>1, <2>2, UpsertDates
<1>3. NoCall.table[f].deployed = 0
  BY DEF NoCall, NoTable, NoEntry
<1>4. ASSUME InPlay' \subseteq InPlay \cup {NoCall.table} PROVE Dates(f)' \subseteq Dates(f)
  BY <1>3, <1>4 DEF Dates
<1>5. ASSUME NEW w \in Writers, Open(w) \/ Write(w) \/ Raises(w)
      PROVE  InPlay' \subseteq InPlay \cup {NoCall.table}
  <2>1. \A v \in Writers : call[v] \in CallRecords
    BY DEF FileOK
  <2>2. file'.table \in {file.table, call[w].table}
    BY <1>5 DEF Open, Write, Raises, FileOK
  <2>3. \A v \in Writers : call'[v].table \in {call[v].table, NoCall.table}
    <3> SUFFICES ASSUME NEW v \in Writers
                 PROVE  call'[v].table \in {call[v].table, NoCall.table}
      OBVIOUS
    <3>1. /\ [call[v] EXCEPT !.at = "write"].table = call[v].table
          /\ \A b \in BOOLEAN : [call[v] EXCEPT !.stale = b].table = call[v].table
      BY <2>1 DEF CallRecords
    <3>2. CASE Open(w)
      BY <3>1, <3>2 DEF Open
    <3>3. CASE Write(w)
      BY <3>1, <3>3 DEF Write
    <3>4. CASE Raises(w)
      BY <3>4 DEF Raises, FileOK
    <3> QED
      BY <1>5, <3>2, <3>3, <3>4
  <2> QED
    BY <2>2, <2>3 DEF InPlay
<1>6. CASE CallsDie
  BY <1>4, <1>6 DEF CallsDie, InPlay
<1> QED
  BY <1>1, <1>2, <1>4, <1>5, <1>6 DEF Plain

\* No step but its deployment gives an incident a new date.
LEMMA StepDates ==
    ASSUME TInv, Next, NEW f \in Fingerprints
    PROVE  /\ Dates(f)' \subseteq Dates(f) \cup {now}
           /\ ~WatcherDeploys(f) => Dates(f)' \subseteq Dates(f)
<1>1. FileOK /\ Loop \in Writers /\ now \in 0..MaxTime
  BY Bounds DEF TInv, PassOK, ClockOK
<1>2. CASE Plain
  BY <1>1, <1>2, PlainDates
<1>3. ASSUME NEW g \in Fingerprints, WatcherDeploys(g)
      PROVE  Dates(f)' \subseteq Dates(f) \cup (IF f = g THEN {now} ELSE {})
  <2> DEFINE fields == [status |-> "deployed", deployed |-> now]
  <2>1. fields \in Entries /\ fields.deployed = now
    BY <1>1 DEF Entries, Statuses
  <2>2. Upsert(Loop, g, fields)
    BY <1>3 DEF WatcherDeploys
  <2> HIDE DEF fields
  <2> QED
    BY <1>1, <2>1, <2>2, UpsertDates
<1> QED
  BY <1>2, <1>3, PlainSteps

LEMMA DatesTypes ==
    ASSUME FileOK, NEW f \in Fingerprints
    PROVE  Dates(f) \subseteq Nat /\ Loaded[f].deployed \in Dates(f)
<1>1. file.table \in Tables /\ \A w \in Writers : call[w].table \in Tables
  BY DEF FileOK, CallRecords
<1>2. \A t \in Tables : t[f].deployed \in Nat
  BY Bounds DEF Tables, Entries
<1>3. Loaded[f].deployed \in Dates(f)
  BY DEF Loaded, Dates, InPlay, NoTable, NoEntry
<1> QED
  BY <1>1, <1>2, <1>3 DEF Dates, InPlay

\* The clock, and what happens to the verifications.
LEMMA ClockSteps ==
    ASSUME TInv, Next
    PROVE  /\ now \in Nat /\ now' \in Nat /\ now <= now'
           /\ \A f \in Fingerprints :
                 \/ verify'[f] = 0
                 \/ verify'[f] = verify[f] /\ ~WatcherDeploys(f)
                 \/ verify'[f] = now
<1>1. now \in 1..MaxTime /\ MaxTime \in Nat /\ verify \in [Fingerprints -> 0..MaxTime]
  BY Bounds DEF TInv, PassOK, ClockOK
<1>2. now \in Nat /\ now' \in Nat /\ now <= now'
  <2>1. now' = now \/ now' = now + 1
    BY DEF Next, LoopStep, Tick, BeginLine, WriteLine, PassStep, BeginPass, SkipLine,
            SkipHalf, EndPass, TakeRecord, ProcessRecord, GetResolved, GetNone, Inserted,
            GetAwake, GetOther, CountErrors, Wake, RunReturns, Calls, Proceed, LoopWrites,
            ThreadCalls, ThreadWrites, ThreadMeddles, WatcherDeploys, WatcherResolves,
            PassAborts, Rescan, Restart
  <2> QED
    BY <1>1, <2>1
<1>3. ASSUME NEW f \in Fingerprints, WatcherDeploys(f)
      PROVE  \A g \in Fingerprints : verify'[g] = IF g = f THEN now ELSE verify[g]
  BY <1>1, <1>3 DEF WatcherDeploys
<1>4. ASSUME NEW f \in Fingerprints, WatcherResolves(f)
      PROVE  \A g \in Fingerprints : verify'[g] = IF g = f THEN 0 ELSE verify[g]
  BY <1>1, <1>4 DEF WatcherResolves
<1>5. ASSUME ~\E f \in Fingerprints : WatcherDeploys(f) \/ WatcherResolves(f)
      PROVE  verify' = verify \/ \A f \in Fingerprints : verify'[f] = 0
  BY <1>5 DEF Next, LoopStep, Tick, BeginLine, WriteLine, PassStep, BeginPass, SkipLine,
            SkipHalf, EndPass, TakeRecord, ProcessRecord, GetResolved, GetNone, Inserted,
            GetAwake, GetOther, CountErrors, Wake, RunReturns, Calls, Proceed, LoopWrites,
            ThreadCalls, ThreadWrites, ThreadMeddles, PassAborts, Rescan, Restart
<1>6. ASSUME NEW f \in Fingerprints, NEW g \in Fingerprints, f # g, WatcherDeploys(f)
      PROVE  ~WatcherDeploys(g)
  <2>1. now # 0 /\ verify'[f] = now /\ verify'[g] = verify[g]
    BY <1>1, <1>3, <1>6
  <2>2. WatcherDeploys(g) => verify[g] = 0 /\ verify'[g] = now
    BY <1>1 DEF WatcherDeploys
  <2> QED
    BY <2>1, <2>2
<1>7. ASSUME NEW f \in Fingerprints
      PROVE  \/ verify'[f] = 0
             \/ verify'[f] = verify[f] /\ ~WatcherDeploys(f)
             \/ verify'[f] = now
  <2>1. CASE \E g \in Fingerprints : WatcherDeploys(g)
    BY <1>3, <1>6, <2>1
  <2>2. CASE \E g \in Fingerprints : WatcherResolves(g) /\ ~WatcherDeploys(f)
    BY <1>4, <2>2
  <2>3. CASE ~\E g \in Fingerprints : WatcherDeploys(g) \/ WatcherResolves(g)
    BY <1>5, <2>3
  <2> QED
    BY <2>1, <2>2, <2>3
<1> QED
  BY <1>2, <1>7

LEMMA DatesHold == ASSUME TInv, DatesInv, Next PROVE DatesInv'
<1> SUFFICES ASSUME NEW f \in Fingerprints, NEW d \in Dates(f)'
             PROVE  d <= now' /\ (verify'[f] # 0 => d <= verify'[f])
  BY DEF DatesInv
<1>1. d \in Dates(f) \cup {now} /\ (~WatcherDeploys(f) => d \in Dates(f))
  BY StepDates
<1>2. Dates(f) \subseteq Nat
  BY DatesTypes DEF TInv
<1>3. /\ now \in Nat /\ now' \in Nat /\ now <= now'
      /\ \/ verify'[f] = 0
         \/ verify'[f] = verify[f] /\ ~WatcherDeploys(f)
         \/ verify'[f] = now
  BY ClockSteps
<1>4. \A e \in Dates(f) : e <= now /\ (verify[f] # 0 => e <= verify[f])
  BY DEF DatesInv
<1> QED
  BY <1>1, <1>2, <1>3, <1>4

\* A step that does not deploy f keeps it verified.
LEMMA StaysVerified ==
    ASSUME TInv, Next, NEW f \in Fingerprints, Verified(f), ~WatcherDeploys(f)
    PROVE  Verified(f)'
<1>1. Dates(f)' \subseteq Dates(f) /\ Dates(f) \subseteq Nat
  BY StepDates, DatesTypes DEF TInv
<1>2. now \in Nat /\ now' \in Nat /\ now <= now' /\ Verify \in Nat
  BY ClockSteps, IngestAssumption
<1> QED
  BY <1>1, <1>2 DEF Verified

\* A call of the loop that resolves f is the watcher's.
LEMMA ResolvingSteps ==
    ASSUME TInv, Next, NEW f \in Fingerprints, Resolving(f)'
    PROVE  (Resolving(f) \/ WatcherResolves(f)) /\ ~WatcherDeploys(f)
<1>1. /\ Loop \in Writers /\ Loop \notin Threads /\ Threads \subseteq Writers
      /\ call \in [Writers -> CallRecords] /\ FileOK
  BY Bounds DEF Threads, TInv, FileOK
<1>2. ASSUME NEW g \in Fingerprints, NEW fields \in Entries, Upsert(Loop, g, fields)
      PROVE  f = g /\ Edited(Loaded[g], fields).status = "resolved"
  <2>1. /\ call'[Loop].of = {g}
        /\ call'[Loop].table = [Loaded EXCEPT ![g] = Edited(@, fields)]
    BY <1>1, <1>2 DEF Upsert
  <2> QED
    BY <1>1, <2>1, LoadedType DEF Resolving, Tables
<1>3. \A s \in Statuses : SetTo(s) \in Entries /\ SetTo(s).status = s
  BY FieldTypes DEF SetTo
<1>4. ~WatcherDeploys(f)
  <2> SUFFICES ASSUME WatcherDeploys(f) PROVE FALSE
    OBVIOUS
  <2>1. [status |-> "deployed", deployed |-> now] \in Entries
    BY Bounds DEF TInv, PassOK, ClockOK, Entries, Statuses
  <2>2. Upsert(Loop, f, [status |-> "deployed", deployed |-> now])
    BY DEF WatcherDeploys
  <2>3. Edited(Loaded[f], [status |-> "deployed", deployed |-> now]).status = "resolved"
    BY <1>2, <2>1, <2>2
  <2> QED
    BY <2>3 DEF Edited
<1>5. CASE ProcessRecord
  <2>1. step \notin {"idle", "read"}
    BY <1>5 DEF ProcessRecord, GetResolved, GetNone, Inserted, GetAwake, GetOther,
                CountErrors, Wake, RunReturns
  <2>2. Fp \in Fingerprints
    BY <2>1, LineInWork
  <2>3. CASE call' = call
    BY <1>4, <2>3 DEF Resolving
  <2>4. CASE \E s \in {"triaged", "regressed"} : Upsert(Loop, Fp, SetTo(s))
    <3>1. PICK s \in {"triaged", "regressed"} : Upsert(Loop, Fp, SetTo(s))
      BY <2>4
    <3>2. SetTo(s) \in Entries /\ SetTo(s).status = s /\ s # "none" /\ s # "resolved"
      BY <1>3, <3>1 DEF Statuses
    <3>3. Edited(Loaded[Fp], SetTo(s)).status = s
      BY <3>2 DEF Edited
    <3> QED
      BY <1>2, <2>2, <3>1, <3>2, <3>3
  <2>5. CASE Upsert(Loop, Fp, Touch) /\ Loaded[Fp].status # "resolved"
    <3>1. Edited(Loaded[Fp], Touch).status # "resolved"
      BY <2>5 DEF Edited, Touch
    <3> QED
      BY <1>2, <2>2, <2>5, <3>1, FieldTypes
  <2> QED
    BY <1>5, <2>3, <2>4, <2>5
       DEF ProcessRecord, GetResolved, GetNone, Inserted, GetAwake, GetOther, Awake, Status,
           CountErrors, Wake, RunReturns, Calls, registryVars
<1>6. CASE LoopWrites
  <2>1. CASE Open(Loop)
    <3>1. /\ call'[Loop] = [call[Loop] EXCEPT !.at = "write"] /\ call[Loop].at = "open"
      BY <1>1, <2>1 DEF Open
    <3>2. call'[Loop].of = call[Loop].of /\ call'[Loop].table = call[Loop].table
      BY <1>1, <3>1 DEF CallRecords
    <3> QED
      BY <1>4, <3>1, <3>2 DEF Resolving
  <2>2. CASE Write(Loop)
    <3>1. call'[Loop].at = "idle"
      BY <1>1, <2>2 DEF Write, NoCall
    <3> QED
      BY <3>1 DEF Resolving
  <2> QED
    BY <1>6, <2>1, <2>2 DEF LoopWrites
<1>7. ASSUME NEW w \in Threads,
             \/ ThreadWrites(w)
             \/ \E g \in Fingerprints, s \in {"running", "suppressed", "resolved"} :
                    ThreadCalls(w, g, s)
      PROVE  Resolving(f)
  <2>1. w \in Writers /\ w # Loop /\ call[Loop] \in CallRecords
    BY <1>1
  <2>2. CASE ThreadWrites(w)
    <3>1. call'[Loop] = [call[Loop] EXCEPT !.stale = call[Loop].at # "idle"]
      BY <1>1, <2>1, <2>2 DEF ThreadWrites, Open, Write
    <3>2. /\ call'[Loop].at = call[Loop].at /\ call'[Loop].of = call[Loop].of
          /\ call'[Loop].table = call[Loop].table
      BY <2>1, <3>1 DEF CallRecords
    <3> QED
      BY <3>2 DEF Resolving
  <2>3. CASE \E g \in Fingerprints, s \in {"running", "suppressed", "resolved"} :
                    ThreadCalls(w, g, s)
    <3>1. call'[Loop] = call[Loop]
      BY <1>1, <2>1, <2>3 DEF ThreadCalls, Upsert
    <3> QED
      BY <3>1 DEF Resolving
  <2> QED
    BY <1>7, <2>2, <2>3
<1>8. ASSUME NEW g \in Fingerprints, WatcherDeploys(g) PROVE FALSE
  <2>1. [status |-> "deployed", deployed |-> now] \in Entries
    BY Bounds DEF TInv, PassOK, ClockOK, Entries, Statuses
  <2>2. Upsert(Loop, g, [status |-> "deployed", deployed |-> now])
    BY <1>8 DEF WatcherDeploys
  <2> QED
    BY <1>2, <1>4, <1>8, <2>1, <2>2
<1>9. ASSUME NEW g \in Fingerprints, WatcherResolves(g)
      PROVE  Resolving(f) \/ WatcherResolves(f)
  <2>1. SetTo("resolved") \in Entries
    BY <1>3 DEF Statuses
  <2>2. CASE Upsert(Loop, g, SetTo("resolved"))
    BY <1>2, <1>9, <2>1, <2>2
  <2>3. CASE call' = call
    BY <2>3 DEF Resolving
  <2> QED
    BY <1>9, <2>2, <2>3 DEF WatcherResolves, registryVars
<1>10. CASE PassAborts \/ Restart
  <2>1. call'[Loop].at = "idle"
    BY <1>1, <1>10 DEF PassAborts, Restart, Raises, CallsDie, NoCall
  <2> QED
    BY <2>1 DEF Resolving
<1>11. CASE Tick \/ BeginLine \/ (\E kind \in Failing \cup {Other} : WriteLine(kind))
            \/ PassStep \/ Rescan
  <2>1. call' = call
    BY <1>11 DEF Tick, BeginLine, WriteLine, PassStep, BeginPass, SkipLine, SkipHalf,
                 TakeRecord, EndPass, Rescan, registryVars
  <2> QED
    BY <1>4, <2>1 DEF Resolving
<1> QED
  BY <1>4, <1>5, <1>6, <1>7, <1>8, <1>9, <1>10, <1>11 DEF Next, LoopStep

\* The verdict that the loop has resolved f comes from such a call.
LEMMA VerdictSteps ==
    ASSUME TInv, Next, NEW f \in Fingerprints, ResolvedByLoop(f)', ~lossy'
    PROVE  ~lossy /\ (ResolvedByLoop(f) \/ Resolving(f))
<1>1. FileOK /\ RegistryStep
  BY RegistrySteps DEF TInv
<1>2. CASE UNCHANGED <<verdict, lossy>>
  BY <1>2 DEF ResolvedByLoop
<1>3. ASSUME NEW w \in Writers, Write(w) PROVE ~lossy /\ (ResolvedByLoop(f) \/ Resolving(f))
  <2>1. ~lossy
    BY <1>3 DEF Write
  <2>2. CASE f \in call[w].of
    <3>1. verdict'[f] = [status |-> call[w].table[f].status, by |-> w]
      BY <1>3, <2>2 DEF Write
    <3>2. w = Loop /\ call[w].table[f].status = "resolved"
      BY <3>1 DEF ResolvedByLoop
    <3>3. call[w].at = "write"
      BY <1>3 DEF Write
    <3> QED
      BY <2>1, <2>2, <3>2, <3>3 DEF Resolving
  <2>3. CASE f \notin call[w].of
    <3>1. verdict'[f] = verdict[f]
      BY <1>3, <2>3 DEF Write
    <3> QED
      BY <2>1, <3>1 DEF ResolvedByLoop
  <2> QED
    BY <2>2, <2>3
<1>4. CASE CallsDie
  BY <1>4 DEF CallsDie, ResolvedByLoop
<1>5. UNCHANGED <<verdict, lossy>> \/ CallsDie \/ \E w \in Writers : Write(w)
  BY <1>1 DEF RegistryStep, registryVars, Upsert, Open, Raises
<1> QED
  BY <1>2, <1>3, <1>4, <1>5

LEMMA VerifiedHolds ==
    ASSUME TInv, FileInv, DatesInv, VerifiedInv, Next
    PROVE  VerifiedInv'
<1> SUFFICES ASSUME NEW f \in Fingerprints,
                    Resolving(f)' \/ (ResolvedByLoop(f)' /\ ~lossy')
             PROVE  Verified(f)'
  BY DEF VerifiedInv
<1>1. ASSUME Verified(f), ~WatcherDeploys(f) PROVE Verified(f)'
  BY <1>1, StaysVerified
<1>2. CASE WatcherResolves(f) /\ ~WatcherDeploys(f)
  <2>1. verify[f] # 0 /\ now >= verify[f] + Verify
    BY <1>2 DEF WatcherResolves
  <2>2. \A d \in Dates(f) : d \in Nat /\ d <= verify[f]
    BY <2>1, DatesTypes DEF DatesInv, TInv
  <2>3. verify[f] \in Nat /\ now \in Nat /\ Verify \in Nat
    BY Bounds, IngestAssumption DEF TInv, PassOK, ClockOK
  <2>4. Verified(f)
    BY <2>1, <2>2, <2>3 DEF Verified
  <2> QED
    BY <1>1, <1>2, <2>4
<1>3. CASE Resolving(f) /\ ~WatcherDeploys(f)
  BY <1>1, <1>3 DEF VerifiedInv
<1>4. CASE ResolvedByLoop(f) /\ ~lossy /\ ~WatcherDeploys(f)
  BY <1>1, <1>4 DEF VerifiedInv
<1>5. CASE Resolving(f)'
  BY <1>2, <1>3, <1>5, ResolvingSteps
<1>6. CASE ResolvedByLoop(f)' /\ ~lossy'
  <2>1. ~lossy /\ (ResolvedByLoop(f) \/ Resolving(f))
    BY <1>6, VerdictSteps
  <2>2. ~WatcherDeploys(f)
    <3> SUFFICES ASSUME WatcherDeploys(f) PROVE FALSE
      OBVIOUS
    <3>1. Loaded[f].status = "running" /\ call[Loop].at = "idle"
      BY DEF WatcherDeploys, Free, Idle
    <3>2. file.text = "whole" /\ file.table[f].status = "running"
      BY <3>1 DEF Loaded, NoTable, NoEntry
    <3>3. verdict[f].status = "running"
      BY <2>1, <3>2 DEF FileInv
    <3>4. ~ResolvedByLoop(f) /\ ~Resolving(f)
      BY <3>1, <3>3 DEF ResolvedByLoop, Resolving
    <3> QED
      BY <2>1, <3>4
  <2> QED
    BY <1>3, <1>4, <2>1, <2>2
<1> QED
  BY <1>5, <1>6

\* The verification is no shorter than the window of regressions: by default both
\* take two minutes (_VERIFY_WINDOW_SECONDS, _REGRESSION_WINDOW_SECONDS).
VerificationIsLong == RegWindow <= Verify

\* So an incident the watcher resolved regresses for errors after its deployment.
LEMMA RegressesLate ==
    ASSUME VerificationIsLong, TInv, WindowOK, FileInv, VerifiedInv, Next,
           step = "get", step' = "regress", verdict[Fp].by = Loop, ~lossy
    PROVE  \A i \in DOMAIN window'[Fp] : window'[Fp][i].at > Loaded[Fp].deployed
<1>1. GetResolved /\ UNCHANGED now
  BY DEF Next, LoopStep, Tick, BeginLine, WriteLine, PassStep, BeginPass, SkipLine,
            SkipHalf, EndPass, TakeRecord, ProcessRecord, GetResolved, GetNone, Inserted,
            GetAwake, GetOther, CountErrors, Wake, RunReturns, Calls, Proceed, LoopWrites,
            ThreadCalls, ThreadWrites, ThreadMeddles, WatcherDeploys, WatcherResolves,
            PassAborts, Rescan, Restart, ingestVars
<1>2. Fp \in Fingerprints
  BY LineInWork
<1>3. /\ Loaded[Fp].status = "resolved"
      /\ window' = [window EXCEPT ![Fp] = Cleaned(Fp, RegWindow)]
  BY <1>1 DEF GetResolved, Calls, Proceed, Status
<1>4. Verified(Fp)
  <2>1. file.text = "whole" /\ file.table[Fp].status = "resolved"
    BY <1>3, <1>2 DEF Loaded, NoTable, NoEntry
  <2>2. verdict[Fp].status = "resolved"
    BY <1>2, <2>1 DEF FileInv
  <2>3. verdict[Fp] \in [status : Statuses, by : Writers \cup {Nobody}]
    BY <1>2 DEF TInv, FileOK
  <2>4. ResolvedByLoop(Fp)
    BY <2>2, <2>3 DEF ResolvedByLoop
  <2> QED
    BY <1>2, <2>4 DEF VerifiedInv
<1>5. Loaded[Fp].deployed \in Nat /\ Loaded[Fp].deployed + Verify <= now
  BY <1>2, <1>4, DatesTypes DEF Verified, TInv
<1>6. window'[Fp] = Cleaned(Fp, RegWindow)
  BY <1>2, <1>3 DEF WindowOK
<1>7. ASSUME NEW i \in DOMAIN window'[Fp] PROVE window'[Fp][i].at > Loaded[Fp].deployed
  <2>1. PICK j \in DOMAIN window[Fp] :
            window'[Fp][i] = window[Fp][j] /\ window[Fp][j].at + RegWindow > now
    BY <1>2, <1>6, CleanedFacts
  <2>2. window[Fp][j] \in Counted
    <3> HIDE DEF Counted
    <3> QED
      BY <1>2 DEF WindowOK
  <2>3. window[Fp][j].at \in Nat /\ now \in Nat /\ RegWindow \in Nat /\ Verify \in Nat
    BY <2>2, Bounds, IngestAssumption DEF Counted, TInv, PassOK, ClockOK
  <2> QED
    BY <1>5, <2>1, <2>3 DEF VerificationIsLong
<1> QED
  BY <1>7

-----------------------------------------------------------------------------
(* Theorems about the windows and the dates *)

WindowInv == WindowOK /\ CountedInv /\ EnoughInv

WInv == IInv /\ WindowInv /\ DatesInv /\ VerifiedInv

LEMMA WInvInductive == Spec => []WInv
<1>1. Init => WInv
  <2> SUFFICES ASSUME Init PROVE WInv
    OBVIOUS
  <2>1. IInv
    BY InitInv
  <2>2. WindowInv
    <3>1. \A f \in Fingerprints : window[f] = <<>>
      BY DEF Init
    <3>2. WindowOK
      <4>1. <<>> \in Seq(Counted)
        OBVIOUS
      <4> QED
        BY <4>1 DEF Init, WindowOK
    <3>3. CountedInv
      BY <3>1 DEF Init, CountedInv, Handling, Rising
    <3>4. EnoughInv
      BY DEF Init, EnoughInv
    <3> QED
      BY <3>2, <3>3, <3>4 DEF WindowInv
  <2>3. file.table = NoTable /\ \A w \in Writers : call[w] = NoCall
    BY DEF Init, RegistryInit
  <2>4. DatesInv
    <3>1. \A t \in InPlay : t = NoTable
      BY <2>3 DEF InPlay, NoCall
    <3>2. \A f \in Fingerprints : NoTable[f].deployed = 0
      BY DEF NoTable, NoEntry
    <3>3. \A f \in Fingerprints : \A d \in Dates(f) : d = 0
      BY <3>1, <3>2 DEF Dates
    <3>4. now = 1
      BY DEF Init
    <3> QED
      BY <3>3, <3>4 DEF Init, DatesInv
  <2>5. VerifiedInv
    <3>1. \A f \in Fingerprints : ~ResolvedByLoop(f)
      BY DEF Init, RegistryInit, ResolvedByLoop
    <3>2. call[Loop].at = "idle"
      BY <2>3, IngestAssumption DEF IngestAssumption, NoCall
    <3> QED
      BY <3>1, <3>2 DEF VerifiedInv, Resolving
  <2> QED
    BY <2>1, <2>2, <2>4, <2>5 DEF WInv
<1>2. WInv /\ [Next]_vars => WInv'
  <2> SUFFICES ASSUME WInv, [Next]_vars PROVE WInv'
    OBVIOUS
  <2>1. IInv'
    BY StepInv DEF WInv
  <2>2. CASE Next
    BY <2>1, <2>2, WindowTypes, CountedHolds, EnoughHolds, DatesHold, VerifiedHolds
       DEF WInv, IInv, WindowInv
  <2>3. CASE UNCHANGED vars
    <3>1. WindowInv'
      <4>1. UNCHANGED <<window, faults, step, record, cursor, offset, log, seen, now>>
        BY <2>3 DEF vars, ingestVars
      <4>2. WindowOK'
        BY <4>1 DEF WInv, WindowInv, WindowOK, Counted
      <4>3. Front' = Front /\ Handling' = Handling /\ Fp' = Fp
        BY <4>1 DEF Front, Handling, Fp
      <4>4. CountedInv'
        BY <4>1, <4>3 DEF WInv, WindowInv, CountedInv, Rising
      <4>5. EnoughInv'
        BY <4>1, <4>3 DEF WInv, WindowInv, EnoughInv
      <4> QED
        BY <4>2, <4>4, <4>5 DEF WindowInv
    <3>2. DatesInv' /\ VerifiedInv'
      <4>1. UNCHANGED <<file, call, verdict, lossy, now, verify>>
        BY <2>3 DEF vars, registryVars
      <4>2. \A f \in Fingerprints : Dates(f)' = Dates(f)
        BY <4>1 DEF Dates, InPlay
      <4>3. DatesInv'
        BY <4>1, <4>2 DEF WInv, DatesInv
      <4>4. \A f \in Fingerprints : /\ Verified(f)' = Verified(f)
                                    /\ Resolving(f)' = Resolving(f)
                                    /\ ResolvedByLoop(f)' = ResolvedByLoop(f)
        BY <4>1, <4>2 DEF Verified, Resolving, ResolvedByLoop
      <4>5. VerifiedInv'
        BY <4>1, <4>4 DEF WInv, VerifiedInv
      <4> QED
        BY <4>3, <4>5
    <3> QED
      BY <2>1, <3>1, <3>2 DEF WInv
  <2> QED
    BY <2>2, <2>3
<1> QED
  BY <1>1, <1>2, PTL DEF Spec

\* The types of the ingest, the windows and the registry file.
THEOREM TypeCorrect == Spec => []TypeOK
<1>1. WInv => TypeOK
  BY DEF WInv, WindowInv, WindowOK, IInv, TInv, FileOK, PassOK, ClockOK, LogOK, PositionsOK, SeenOK,
         TypeOK, RegistryTypeOK, CallRecords
<1> QED
  BY <1>1, WInvInductive, PTL

\* Without a fault an incident is triaged for enough different errors that were
\* all handled within the window (process_record, _clean_window).
THEOREM TriagedForEnough == Spec => []TriagedIsRepeated
<1>1. WInv => TriagedIsRepeated
  BY EnoughLines DEF WInv, WindowInv, IInv
<1> QED
  BY <1>1, WInvInductive, PTL

\* An incident that the watcher has verified regresses for errors that were all
\* handled after its deployment, if the window of regressions is no longer than
\* the verification.
THEOREM RegressedForNew ==
    ASSUME VerificationIsLong PROVE Spec => RegressedIsRecent
<1> DEFINE Late == step = "get" /\ step' = "regress" /\ verdict[Fp].by = Loop /\ ~lossy =>
                      \A i \in DOMAIN window'[Fp] : window'[Fp][i].at > Loaded[Fp].deployed
<1>1. WInv /\ [Next]_vars => [Late]_vars
  <2> SUFFICES ASSUME WInv, Next PROVE Late
    OBVIOUS
  <2> QED
    BY RegressesLate DEF WInv, WindowInv, IInv
<1> QED
  BY <1>1, WInvInductive, PTL DEF Spec, RegressedIsRecent

-----------------------------------------------------------------------------
(***************************************************************************)
(* Refinement: the registry file implements a table with atomic calls.     *)
(***************************************************************************)

\* A call that is not out of date will write the table of the file with one
\* entry changed as its fields say.
EditsOne(w) ==
    \E f \in Fingerprints, fields \in Fields :
        call[w].table = [file.table EXCEPT ![f] = Edited(@, fields)]

CallsInv ==
    \A w \in Writers : call[w].at # "idle" /\ ~call[w].stale => EditsOne(w)

LEMMA CallsHold == ASSUME FileOK, CallsInv, RegistryStep PROVE CallsInv'
<1>1. CASE UNCHANGED registryVars
  BY <1>1 DEF CallsInv, EditsOne, registryVars
<1>2. ASSUME NEW w \in Writers, NEW f \in Fingerprints, NEW fields \in Fields,
             Upsert(w, f, fields)
      PROVE  CallsInv'
  <2>1. /\ \A v \in Writers \ {w} : call'[v] = call[v]
        /\ call'[w].table = [Loaded EXCEPT ![f] = Edited(@, fields)]
        /\ call'[w].stale = (file.text # "whole")
        /\ file' = file
    BY <1>2 DEF FileOK, Upsert
  <2>2. ASSUME NEW v \in Writers \ {w}, call'[v].at # "idle", ~call'[v].stale
        PROVE  EditsOne(v)'
    BY <2>1, <2>2 DEF CallsInv, EditsOne
  <2>3. ASSUME ~call'[w].stale PROVE EditsOne(w)'
    BY <2>1, <2>3 DEF EditsOne, Loaded
  <2> QED
    BY <2>2, <2>3 DEF CallsInv
<1>3. ASSUME NEW w \in Writers, Open(w) PROVE CallsInv'
  <2>1. /\ file'.table = file.table /\ call[w].at = "open"
        /\ call'[w].table = call[w].table /\ call'[w].stale = call[w].stale
    BY <1>3 DEF FileOK, CallRecords, Open
  <2>2. ASSUME NEW v \in Writers \ {w}, call'[v].at # "idle" PROVE call'[v].stale
    <3>1. call[v] \in CallRecords /\ call'[v] = [call[v] EXCEPT !.stale = call[v].at # "idle"]
      BY <1>3 DEF FileOK, Open
    <3> QED
      BY <2>2, <3>1 DEF CallRecords
  <2>3. ASSUME ~call'[w].stale PROVE EditsOne(w)'
    BY <2>1, <2>3 DEF CallsInv, EditsOne
  <2> QED
    BY <2>2, <2>3 DEF CallsInv
<1>4. ASSUME NEW w \in Writers, Write(w) PROVE CallsInv'
  <2>1. \A v \in Writers : call'[v].at # "idle" => call'[v].stale
    BY <1>4 DEF Write, FileOK, CallRecords, NoCall
  <2> QED
    BY <2>1 DEF CallsInv
<1>5. ASSUME NEW w \in Writers, Raises(w) PROVE CallsInv'
  <2>1. /\ \A v \in Writers \ {w} : call'[v] = call[v]
        /\ call'[w].at = "idle" /\ file' = file
    BY <1>5 DEF FileOK, Raises, NoCall
  <2> QED
    BY <2>1 DEF CallsInv, EditsOne
<1>6. CASE CallsDie
  BY <1>6 DEF CallsDie, CallsInv, NoCall
<1> QED
  BY <1>1, <1>2, <1>3, <1>4, <1>5, <1>6 DEF RegistryStep

\* A change with fields is one of the three operations of the table.
LEMMA EditIsChange ==
    ASSUME FileOK, NEW f \in Fingerprints, NEW fields \in Fields,
           file'.table = [file.table EXCEPT ![f] = Edited(@, fields)], UNCHANGED lossy
    PROVE  Abstract!TableNext
<1>1. file.table \in Tables /\ file.table[f] \in Entries
  BY DEF FileOK, Tables
<1>2. file'.table = [file.table EXCEPT ![f] = Edited(file.table[f], fields)]
  BY <1>1 DEF Tables
<1>3. CASE fields = Touch
  <2>1. Edited(file.table[f], fields) =
            [status |-> IF file.table[f].status = "none" THEN "new" ELSE file.table[f].status,
             deployed |-> file.table[f].deployed]
    BY <1>3 DEF Edited, Touch
  <2>2. CASE file.table[f].status = "none"
    <3>1. Edited(file.table[f], fields) = [file.table[f] EXCEPT !.status = "new"]
      BY <1>1, <2>1, <2>2 DEF Entries
    <3> QED
      BY <1>2, <2>2, <3>1 DEF Abstract!TableNext, Abstract!Enter
  <2>3. CASE file.table[f].status # "none"
    <3>1. Edited(file.table[f], fields) = file.table[f]
      BY <1>1, <2>1, <2>3 DEF Entries
    <3>2. file'.table = file.table
      BY <1>1, <1>2, <3>1 DEF Tables
    <3> QED
      BY <2>3, <3>2 DEF Abstract!TableNext, Abstract!Enter
  <2> QED
    BY <2>2, <2>3
<1>4. ASSUME NEW s \in Statuses \ {"none"}, fields = SetTo(s) PROVE Abstract!TableNext
  <2>1. Edited(file.table[f], fields) = [file.table[f] EXCEPT !.status = s]
    BY <1>1, <1>4 DEF Edited, SetTo, Entries
  <2> QED
    BY <1>2, <2>1 DEF Abstract!TableNext, Abstract!Mark
<1>5. ASSUME NEW t \in 1..MaxTime, fields = [status |-> "deployed", deployed |-> t]
      PROVE  Abstract!TableNext
  <2>1. Edited(file.table[f], fields) = [status |-> "deployed", deployed |-> t]
    BY <1>5 DEF Edited
  <2> QED
    BY <1>2, <2>1 DEF Abstract!TableNext, Abstract!Deploy
<1> QED
  BY <1>3, <1>4, <1>5 DEF Fields

\* A step after which calls have overlapped is the table's last promise.
LEMMA LossIsLoss == ASSUME FileOK', lossy' PROVE Abstract!TableNext
  BY DEF FileOK, Tables, Entries, Abstract!TableNext, Abstract!Lose

\* Every step of the file is a step of the table, or leaves it unchanged.
LEMMA StepRefines ==
    ASSUME FileOK, CallsInv, RegistryStep
    PROVE  Abstract!TableNext \/ UNCHANGED Abstract!tableVars
<1>1. CASE UNCHANGED registryVars
  BY <1>1 DEF registryVars, Abstract!tableVars
<1>2. ASSUME NEW w \in Writers, NEW f \in Fingerprints, NEW fields \in Fields,
             Upsert(w, f, fields)
      PROVE  UNCHANGED Abstract!tableVars
  BY <1>2 DEF Upsert, Abstract!tableVars
<1>3. ASSUME NEW w \in Writers, Open(w) \/ Raises(w) PROVE UNCHANGED Abstract!tableVars
  BY <1>3 DEF FileOK, Open, Raises, Abstract!tableVars
<1>4. ASSUME NEW w \in Writers, Write(w), ~lossy' PROVE Abstract!TableNext
  <2>1. /\ ~lossy /\ ~call[w].stale /\ call[w].at # "idle"
        /\ file'.table = call[w].table
    <3>1. call[w].at = "write" /\ file'.table = call[w].table
      BY <1>4 DEF Write
    <3>2. ~lossy /\ ~call[w].stale
      BY <1>4 DEF FileOK, CallRecords, Write
    <3> QED
      BY <3>1, <3>2
  <2>2. PICK f \in Fingerprints, fields \in Fields :
            call[w].table = [file.table EXCEPT ![f] = Edited(@, fields)]
    BY <2>1 DEF CallsInv, EditsOne
  <2>3. UNCHANGED lossy
    BY <1>4, <2>1 DEF FileOK, Write
  <2> QED
    BY <2>1, <2>2, <2>3, EditIsChange
<1>5. ASSUME CallsDie, ~lossy' PROVE UNCHANGED Abstract!tableVars
  BY <1>5 DEF FileOK, CallsDie, Abstract!tableVars
<1>6. lossy' => Abstract!TableNext
  BY RegistryStepType, LossIsLoss
<1> QED
  BY <1>1, <1>2, <1>3, <1>4, <1>5, <1>6 DEF RegistryStep

\* The registry file, with all its callers, is a table with atomic calls until
\* two calls overlap or the process dies in one (incident_registry.py).
THEOREM FileIsATable == Spec => ImplementsTable
<1>1. Init => CallsInv /\ Abstract!TableInit
  BY DEF Init, RegistryInit, CallsInv, NoCall, NoTable, NoEntry, Abstract!TableInit
<1>2. WInv /\ CallsInv /\ [Next]_vars => CallsInv' /\ [Abstract!TableNext]_(Abstract!tableVars)
  <2> SUFFICES ASSUME WInv, CallsInv, [Next]_vars
               PROVE  CallsInv' /\ (Abstract!TableNext \/ UNCHANGED Abstract!tableVars)
    OBVIOUS
  <2>1. FileOK
    BY DEF WInv, IInv, TInv
  <2>2. RegistryStep
    <3>1. CASE Next
      BY <3>1, RegistrySteps DEF WInv, IInv
    <3>2. CASE UNCHANGED vars
      BY <3>2 DEF vars, RegistryStep
    <3> QED
      BY <3>1, <3>2
  <2> QED
    BY <2>1, <2>2, CallsHold, StepRefines
<1> QED
  BY <1>1, <1>2, WInvInductive, PTL DEF Spec, ImplementsTable, Abstract!TableSpec
=============================================================================
