----------------------------- MODULE ChatProofs -----------------------------
(***************************************************************************)
(* Proofs about Chat for any number of requests, results and readers.      *)
(***************************************************************************)
EXTENDS Chat, SequenceTheorems, FiniteSetTheorems, TLAPS

Someone == Callers \cup {Nobody}
Events == Callers \X (1..MaxEvents)
ReaderRecords ==
    [at : {"idle", "assign", "look", "load", "keep"}, text : Seq(Messages),
     old : BOOLEAN, plan : Someone, oldPlan : BOOLEAN]

\* Who is doing what.
CallersOK ==
    /\ at \in [Callers -> Places]
    /\ way \in [Requests -> {"stream", "send"}]
    /\ run \in [Callers -> {"none", "live", "over", "raised"}]
    /\ emitted \in [Callers -> 0..MaxEvents]
    /\ crowded \subseteq Requests
    /\ open \subseteq Callers

EventsOK == events \in Seq(Events) /\ got \in [Requests -> Seq(Events)]

\* The event loop holds on to a caller while it stores something for it.
LoopOK ==
    /\ loop \in [step : {"free", "save", "write", "capture", "plan"}, by : Someone]
    /\ loop.step # "free" => loop.by \in Callers
    /\ loop.step = "free" => loop.by = Nobody
    /\ loop.step \in {"save", "write"} => at[loop.by] \in {"asking", "answering"}
    /\ loop.step \in {"capture", "plan"} => at[loop.by] = "answering"

StoresOK ==
    /\ messages \in Seq(Messages) /\ appended \in Seq(Messages)
    /\ file \in [whole : BOOLEAN, text : Seq(Messages)]
    /\ planFile \in [whole : BOOLEAN, of : Someone]
    /\ plan \in Someone /\ captured \in Someone
    /\ raced \in BOOLEAN /\ planRaced \in BOOLEAN
    /\ leader \in {"idle", "busy", "error"}
    /\ worker \in [status : {"idle", "busy"}, count : 0..1]

ReadersOK == reader \in [Readers -> ReaderRecords]

TInv == CallersOK /\ EventsOK /\ LoopOK /\ StoresOK /\ ReadersOK

LEMMA TypeParts == TInv => TypeOK
  BY DEF TInv, CallersOK, EventsOK, LoopOK, StoresOK, ReadersOK, TypeOK, Someone, Events,
         ReaderRecords

LEMMA InitTypes == Init => TInv
<1> SUFFICES ASSUME Init PROVE TInv
  OBVIOUS
<1>1. CallersOK
  BY ChatAssumption DEF Init, CallersOK, Callers, Places
<1>2. EventsOK
  BY DEF Init, EventsOK
<1>5. LoopOK
  BY DEF Init, LoopOK, Free, Someone
<1>3. StoresOK
  <2>1. file \in [whole : BOOLEAN, text : Seq(Messages)]
    BY DEF Init
  <2>2. planFile \in [whole : BOOLEAN, of : Someone]
    BY DEF Init, Someone
  <2>3. worker \in [status : {"idle", "busy"}, count : 0..1] /\ leader \in {"idle", "busy", "error"}
    BY DEF Init
  <2>4. messages \in Seq(Messages) /\ appended \in Seq(Messages)
    BY DEF Init
  <2> QED
    BY <2>1, <2>2, <2>3, <2>4 DEF Init, StoresOK, Someone
<1>4. ReadersOK
  <2>1. AtRest \in ReaderRecords
    BY DEF ReaderRecords, AtRest, Someone
  <2> QED
    BY <2>1 DEF Init, ReadersOK
<1> QED
  BY <1>1, <1>2, <1>3, <1>4, <1>5 DEF TInv

LEMMA RepliesAreMessages ==
    ASSUME NEW c \in Callers
    PROVE  <<c, Reply(c)>> \in Messages /\ <<c, "user">> \in Messages
  BY DEF Reply, Messages

LEMMA WorkerCounts == \A c \in Callers : WorkersIn(Units(c)) \in 0..1
<1> SUFFICES ASSUME NEW c \in Callers PROVE WorkersIn(Units(c)) \in 0..1
  OBVIOUS
<1>1. CASE c \in open
  <2>1. Units(c) \cap {"worker"} = {"worker"}
    BY <1>1 DEF Units
  <2> QED
    BY <2>1, FS_Singleton DEF WorkersIn
<1>2. CASE c \notin open
  <2>1. Units(c) \cap {"worker"} = {}
    BY <1>2 DEF Units
  <2> QED
    BY <2>1, FS_EmptySet DEF WorkersIn
<1> QED
  BY <1>1, <1>2

-----------------------------------------------------------------------------
(* Types *)

\* The steps of a run are a caller's, those of a reader are a reader's.
LEMMA LoopSteps ==
    ASSUME TInv, Stores
    PROVE  TInv'
<1> USE DEF TInv
<1>1. PICK c \in Callers : loop.by = c
  BY DEF Stores, SaveOpens, SaveWrites, Capture, PlanWrites, LoopOK
<1>2. CASE SaveOpens
  BY <1>2 DEF SaveOpens, CallersOK, EventsOK, LoopOK, StoresOK, ReadersOK, streamVars,
              racedVars, shownVars
<1>3. CASE SaveWrites
  <2>1. CallersOK'
    BY <1>1, <1>3 DEF SaveWrites, Begins, Goto, CallersOK, Places
  <2>2. LoopOK'
    BY <1>1, <1>3 DEF SaveWrites, Goto, CallersOK, LoopOK, Free, Someone, Places
  <2>3. EventsOK' /\ StoresOK' /\ ReadersOK'
    BY <1>3 DEF SaveWrites, EventsOK, StoresOK, ReadersOK, racedVars, shownVars
  <2> QED
    BY <2>1, <2>2, <2>3
<1>4. CASE Capture
  <2>1. CallersOK' /\ EventsOK' /\ LoopOK'
    BY <1>1, <1>4 DEF Capture, CallersOK, EventsOK, LoopOK, streamVars
  <2>2. StoresOK'
    BY <1>1, <1>4, WorkerCounts DEF Capture, StoresOK, racedVars, Someone
  <2>3. ReadersOK'
    BY <1>4 DEF Capture, ReadersOK, ReaderRecords
  <2> QED
    BY <2>1, <2>2, <2>3
<1>5. CASE PlanWrites
  <2>1. CallersOK' /\ EventsOK' /\ LoopOK'
    BY <1>1, <1>5 DEF PlanWrites, Goto, CallersOK, EventsOK, LoopOK, streamVars, Free, Places, Someone
  <2>2. StoresOK' /\ ReadersOK'
    BY <1>5 DEF PlanWrites, StoresOK, ReadersOK, racedVars, shownVars
  <2> QED
    BY <2>1, <2>2
<1> QED
  BY <1>2, <1>3, <1>4, <1>5 DEF Stores

\* A message is added to the list in memory.
LEMMA Telling ==
    ASSUME StoresOK, ReadersOK, NEW c \in Callers, NEW m, <<c, m>> \in Messages, Tells(c, m)
    PROVE  /\ messages' \in Seq(Messages) /\ appended' \in Seq(Messages)
           /\ ReadersOK' /\ loop' = [step |-> "save", by |-> c]
           /\ UNCHANGED <<file, plan, planFile, captured, raced, planRaced>>
<1>1. messages' \in Seq(Messages) /\ appended' \in Seq(Messages)
  BY AppendProperties DEF Tells, StoresOK
<1>2. ReadersOK'
  BY DEF Tells, ReadersOK, ReaderRecords
<1> QED
  BY <1>1, <1>2 DEF Tells, racedVars

LEMMA AskSteps ==
    ASSUME TInv, NEW q \in Requests, Asks(q) \/ Leave(q)
    PROVE  TInv'
<1> USE DEF TInv
<1>1. q \in Callers
  BY DEF Callers
<1>2. CASE Arrive(q)
  <2>1. /\ messages' \in Seq(Messages) /\ appended' \in Seq(Messages)
        /\ ReadersOK' /\ loop' = [step |-> "save", by |-> q]
        /\ UNCHANGED <<file, plan, planFile, captured, raced, planRaced>>
    BY <1>1, <1>2, RepliesAreMessages, Telling DEF Arrive
  <2>2. CallersOK' /\ EventsOK'
    BY <1>1, <1>2 DEF Arrive, Goto, CallersOK, EventsOK, Places, streamVars
  <2>3. LoopOK'
    BY <1>1, <1>2, <2>1 DEF Arrive, Goto, LoopOK, CallersOK, Someone
  <2>4. StoresOK'
    BY <1>2, <2>1 DEF Arrive, IsBusy, StoresOK
  <2> QED
    BY <2>1, <2>2, <2>3, <2>4
<1>3. CASE ~Arrive(q)
  <2>1. CallersOK'
    <3>1. CASE StartStream(q)
      BY <1>1, <3>1 DEF StartStream, Begins, Goto, CallersOK, Places
    <3>2. CASE Poll(q)
      BY <3>2 DEF Poll, CallersOK
    <3>3. CASE LastPop(q) \/ RequestFails(q) \/ Leave(q)
      BY <1>1, <3>3 DEF LastPop, RequestFails, Leave, Goto, CallersOK, Places, streamVars
    <3> QED
      BY <1>3, <3>1, <3>2, <3>3 DEF Asks
  <2>2. EventsOK'
    <3>1. CASE Pop(q)
      <4>1. got[q] \o events \in Seq(Events)
        BY ConcatProperties DEF EventsOK
      <4> QED
        BY <3>1, <4>1 DEF Pop, EventsOK
    <3>2. CASE StartStream(q)
      <4>1. events' = <<>> /\ got' = got
        BY <3>2 DEF StartStream
      <4> QED
        BY <4>1 DEF EventsOK
    <3>3. CASE RequestFails(q) \/ Leave(q)
      BY <3>3 DEF RequestFails, Leave, EventsOK, streamVars
    <3> QED
      BY <1>3, <3>1, <3>2, <3>3 DEF Asks, Poll, LastPop
  <2>3. LoopOK'
    BY <1>1, <1>3 DEF Asks, StartStream, Poll, LastPop, RequestFails, Leave, LoopFree, LoopOK, Free
  <2>4. StoresOK' /\ ReadersOK'
    BY <1>3 DEF Asks, StartStream, Poll, LastPop, RequestFails, Leave, StoresOK, ReadersOK,
                storeVars, racedVars, shownVars
  <2> QED
    BY <2>1, <2>2, <2>3, <2>4
<1> QED
  BY <1>2, <1>3

LEMMA AnswerSteps ==
    ASSUME TInv, NEW c \in Callers, Answer(c)
    PROVE  TInv'
<1> USE DEF TInv
<1>1. /\ messages' \in Seq(Messages) /\ appended' \in Seq(Messages)
      /\ ReadersOK' /\ loop' = [step |-> "save", by |-> c]
      /\ UNCHANGED <<file, plan, planFile, captured, raced, planRaced>>
  BY RepliesAreMessages, Telling DEF Answer
<1>2. CallersOK' /\ EventsOK'
  BY DEF Answer, Goto, CallersOK, EventsOK, Places, streamVars
<1>3. LoopOK'
  BY <1>1 DEF Answer, Goto, LoopOK, CallersOK, Someone
<1>4. StoresOK'
  BY <1>1 DEF Answer, StoresOK, shownVars
<1> QED
  BY <1>1, <1>2, <1>3, <1>4

LEMMA RunSteps ==
    ASSUME TInv, NEW c \in Callers, Runs(c)
    PROVE  TInv'
<1> USE DEF TInv
<1>1. CallersOK'
  BY ChatAssumption DEF Runs, Emit, RunEnds, RunRaises, DispatchQueue, CallersOK, streamVars
<1>2. EventsOK'
  <2>1. CASE Emit(c)
    <3>1. <<c, emitted[c] + 1>> \in Events
      BY <2>1, ChatAssumption DEF Emit, CallersOK, Events
    <3> QED
      BY <2>1, <3>1, AppendProperties DEF Emit, Push, EventsOK
  <2>2. CASE ~Emit(c)
    BY <2>2 DEF Runs, RunEnds, RunRaises, EventsOK, streamVars
  <2> QED
    BY <2>1, <2>2
<1>3. LoopOK' /\ StoresOK' /\ ReadersOK'
  BY DEF Runs, Emit, RunEnds, RunRaises, LoopOK, StoresOK, ReadersOK, storeVars, racedVars,
         shownVars
<1> QED
  BY <1>1, <1>2, <1>3

LEMMA PumpSteps ==
    ASSUME TInv, NEW h \in Results, Pumps(h)
    PROVE  TInv'
<1> USE DEF TInv
<1>1. h \in Callers
  BY DEF Callers
<1>2. CallersOK' /\ EventsOK'
  BY <1>1 DEF Pumps, PumpTakes, PumpFails, Begins, Goto, CallersOK, EventsOK, Places, streamVars
<1>3. LoopOK'
  BY <1>1 DEF Pumps, PumpTakes, PumpFails, LoopOK, LoopFree, Free
<1>4. StoresOK' /\ ReadersOK'
  BY DEF Pumps, PumpTakes, PumpFails, StoresOK, ReadersOK, storeVars, racedVars, shownVars
<1> QED
  BY <1>2, <1>3, <1>4

LEMMA ReaderSteps ==
    ASSUME TInv, NEW r \in Readers, Shown(r)
    PROVE  TInv'
<1> USE DEF TInv
<1>1. CallersOK' /\ EventsOK' /\ LoopOK'
  BY DEF Shown, Reads, Assigns, Shows, LooksForPlan, LoadsPlan, KeepsPlan, readerKeeps,
         CallersOK, EventsOK, LoopOK, streamVars
<1>2. reader[r] \in ReaderRecords
  BY DEF ReadersOK
<1>3. StoresOK'
  BY <1>2 DEF Shown, Reads, Assigns, Shows, LooksForPlan, LoadsPlan, KeepsPlan, readerKeeps,
         StoresOK, ReaderRecords, racedVars, shownVars
<1>4. ReadersOK'
  <2>1. \E n \in ReaderRecords : reader' = [reader EXCEPT ![r] = n]
    <3>1. AtRest \in ReaderRecords
      BY DEF ReaderRecords, AtRest, Someone
    <3>2. CASE Reads(r)
      <4>1. [AtRest EXCEPT !.at = "assign", !.text = file.text, !.old = loop.step = "save"] \in ReaderRecords
        BY <3>1 DEF ReaderRecords, StoresOK
      <4>2. [AtRest EXCEPT !.at = "look"] \in ReaderRecords
        BY <3>1 DEF ReaderRecords
      <4> QED
        BY <3>2, <4>1, <4>2 DEF Reads
    <3>3. CASE Assigns(r)
      <4>1. [AtRest EXCEPT !.at = "look"] \in ReaderRecords
        BY <3>1 DEF ReaderRecords
      <4> QED
        BY <3>3, <4>1 DEF Assigns
    <3>4. CASE Shows(r) \/ KeepsPlan(r)
      BY <3>1, <3>4 DEF Shows, KeepsPlan
    <3>5. CASE LooksForPlan(r)
      <4>1. [reader[r] EXCEPT !.at = "load"] \in ReaderRecords
        BY <1>2 DEF ReaderRecords
      <4> QED
        BY <3>5, <4>1 DEF LooksForPlan, ReaderAt
    <3>6. CASE LoadsPlan(r)
      <4>1. [AtRest EXCEPT !.at = "keep", !.plan = planFile.of] \in ReaderRecords
        BY <3>1 DEF ReaderRecords, StoresOK
      <4> QED
        BY <3>1, <3>6, <4>1 DEF LoadsPlan
    <3> QED
      BY <3>2, <3>3, <3>4, <3>5, <3>6 DEF Shown
  <2> QED
    BY <2>1 DEF ReadersOK
<1> QED
  BY <1>1, <1>3, <1>4

LEMMA StepTypes == TInv /\ [Next]_vars => TInv'
<1> SUFFICES ASSUME TInv, [Next]_vars PROVE TInv'
  OBVIOUS
<1>1. CASE Next
  BY <1>1, LoopSteps, AskSteps, AnswerSteps, RunSteps, PumpSteps, ReaderSteps DEF Next
<1>2. CASE UNCHANGED vars
  <2>1. CallersOK' /\ EventsOK' /\ LoopOK'
    BY <1>2 DEF TInv, CallersOK, EventsOK, LoopOK, vars, streamVars
  <2>2. StoresOK' /\ ReadersOK'
    BY <1>2 DEF TInv, StoresOK, ReadersOK, vars, storeVars, racedVars, shownVars
  <2> QED
    BY <2>1, <2>2 DEF TInv
<1> QED
  BY <1>1, <1>2

-----------------------------------------------------------------------------
(* What is shown of the plan and of the leader *)

\* What a reader's step does: it reads the file or the plan as they are, or
\* puts what it has read in the place of what is shown.
LEMMA ReaderFacts ==
    ASSUME TInv, NEW r \in Readers, Shown(r)
    PROVE  /\ \A p \in Readers \ {r} : reader'[p] = reader[p]
           /\ reader'[r].at = "assign" =>
                 file.whole /\ reader'[r].text = file.text /\ reader'[r].old = (loop.step = "save")
           /\ reader'[r].at = "keep" => planFile.whole /\ reader'[r].plan = planFile.of
           /\ \/ messages' = messages /\ raced' = raced
              \/ reader[r].at = "assign" /\ messages' = reader[r].text
                 /\ raced' = (raced \/ reader[r].old)
           /\ \/ plan' = plan /\ planRaced' = planRaced
              \/ reader[r].at = "keep" /\ plan' = reader[r].plan
                 /\ planRaced' = (planRaced \/ reader[r].oldPlan)
           /\ UNCHANGED readerKeeps
<1>1. \A p \in Readers \ {r} : reader'[p] = reader[p]
  BY DEF TInv, ReadersOK, Shown, Reads, Assigns, Shows, LooksForPlan, ReaderAt, LoadsPlan, KeepsPlan
<1>2. reader \in [Readers -> ReaderRecords]
  BY DEF TInv, ReadersOK
<1>3. CASE Reads(r)
  <2> DEFINE n == IF file.whole
                  THEN [AtRest EXCEPT !.at = "assign", !.text = file.text, !.old = loop.step = "save"]
                  ELSE [AtRest EXCEPT !.at = "look"]
  <2>1. reader'[r] = n
    BY <1>2, <1>3 DEF Reads
  <2>2. /\ n.at = "assign" => file.whole /\ n.text = file.text /\ n.old = (loop.step = "save")
        /\ n.at # "keep"
    BY DEF AtRest
  <2> HIDE DEF n
  <2> QED
    BY <1>1, <1>3, <2>1, <2>2 DEF Reads, racedVars
<1>4. CASE Assigns(r)
  <2>1. reader'[r] = [AtRest EXCEPT !.at = "look"]
    BY <1>2, <1>4 DEF Assigns
  <2>2. reader'[r].at = "look"
    BY <2>1 DEF AtRest
  <2> QED
    BY <1>1, <1>4, <2>2 DEF Assigns
<1>5. CASE Shows(r)
  <2>1. reader'[r].at = "idle"
    BY <1>2, <1>5 DEF Shows, AtRest
  <2> QED
    BY <1>1, <1>5, <2>1 DEF Shows, racedVars
<1>6. CASE LooksForPlan(r)
  <2>1. reader'[r].at = "load"
    BY <1>2, <1>6 DEF LooksForPlan, ReaderAt, ReaderRecords
  <2> QED
    BY <1>1, <1>6, <2>1 DEF LooksForPlan, racedVars
<1>7. CASE LoadsPlan(r)
  <2> DEFINE n == IF planFile.whole THEN [AtRest EXCEPT !.at = "keep", !.plan = planFile.of]
                  ELSE AtRest
  <2>1. reader'[r] = n
    BY <1>2, <1>7 DEF LoadsPlan
  <2>2. n.at # "assign" /\ (n.at = "keep" => planFile.whole /\ n.plan = planFile.of)
    BY DEF AtRest
  <2> HIDE DEF n
  <2> QED
    BY <1>1, <1>7, <2>1, <2>2 DEF LoadsPlan, racedVars
<1>8. CASE KeepsPlan(r)
  <2>1. reader'[r].at = "idle"
    BY <1>2, <1>8 DEF KeepsPlan, AtRest
  <2> QED
    BY <1>1, <1>8, <2>1 DEF KeepsPlan
<1> QED
  BY <1>3, <1>4, <1>5, <1>6, <1>7, <1>8 DEF Shown

PlanInv ==
    /\ PlanIsLatest
    /\ loop.step = "plan" => planFile.of = captured
    /\ \A r \in Readers :
          reader[r].at = "keep" /\ ~reader[r].oldPlan => reader[r].plan = captured

\* Steps of callers that the plan has nothing to do with.
LEMMA PlanStays ==
    ASSUME TInv, PlanInv, UNCHANGED <<plan, planFile, captured, planRaced>>,
           loop' = loop \/ loop'.step # "plan",
           \/ reader' = reader
           \/ \A r \in Readers : /\ reader'[r].at = reader[r].at
                                 /\ reader'[r].plan = reader[r].plan
                                 /\ reader'[r].oldPlan = reader[r].oldPlan
    PROVE  PlanInv'
  BY DEF PlanInv, PlanIsLatest

\* Every other step but Capture, PlanWrites and the readers' leaves the plan.
LEMMA CallersKeepPlan ==
    ASSUME TInv, \/ SaveOpens \/ SaveWrites
                 \/ \E q \in Requests : Asks(q) \/ Leave(q)
                 \/ \E c \in Callers : Answer(c) \/ Runs(c)
                 \/ \E h \in Results : Pumps(h)
    PROVE  /\ UNCHANGED <<plan, planFile, captured, planRaced>>
           /\ loop' = loop \/ loop'.step # "plan"
           /\ \/ reader' = reader
              \/ \A r \in Readers : /\ reader'[r].at = reader[r].at
                                    /\ reader'[r].plan = reader[r].plan
                                    /\ reader'[r].oldPlan = reader[r].oldPlan
<1>1. CASE SaveOpens \/ SaveWrites
  BY <1>1 DEF SaveOpens, SaveWrites, racedVars, TInv, LoopOK, Free
<1>2. ASSUME NEW c \in Callers, NEW m, Tells(c, m)
      PROVE  /\ UNCHANGED <<plan, planFile, captured, planRaced>> /\ loop'.step # "plan"
             /\ \A r \in Readers : /\ reader'[r].at = reader[r].at
                                   /\ reader'[r].plan = reader[r].plan
                                   /\ reader'[r].oldPlan = reader[r].oldPlan
  BY <1>2 DEF Tells, racedVars, TInv, ReadersOK, ReaderRecords
<1>3. ASSUME NEW q \in Requests, Asks(q) \/ Leave(q)
      PROVE  \/ Tells(q, "user")
             \/ UNCHANGED <<plan, planFile, captured, planRaced, loop, reader>>
  BY <1>3 DEF Asks, Arrive, StartStream, Poll, LastPop, RequestFails, Leave, storeVars, racedVars
<1>4. ASSUME NEW c \in Callers, Answer(c) \/ Runs(c)
      PROVE  \/ Tells(c, Reply(c))
             \/ UNCHANGED <<plan, planFile, captured, planRaced, loop, reader>>
  BY <1>4 DEF Answer, Runs, Emit, RunEnds, RunRaises, storeVars, racedVars
<1>5. ASSUME NEW h \in Results, Pumps(h)
      PROVE  UNCHANGED <<plan, planFile, captured, planRaced, loop, reader>>
  BY <1>5 DEF Pumps, PumpTakes, PumpFails, storeVars, racedVars
<1>6. Requests \subseteq Callers
  BY DEF Callers
<1> QED
  BY <1>1, <1>2, <1>3, <1>4, <1>5, <1>6

LEMMA PlanSteps == TInv /\ PlanInv /\ [Next]_vars => PlanInv'
<1> SUFFICES ASSUME TInv, PlanInv, [Next]_vars PROVE PlanInv'
  OBVIOUS
<1>1. CASE \/ SaveOpens \/ SaveWrites
           \/ \E q \in Requests : Asks(q) \/ Leave(q)
           \/ \E c \in Callers : Answer(c) \/ Runs(c)
           \/ \E h \in Results : Pumps(h)
  BY <1>1, CallersKeepPlan, PlanStays
<1>2. CASE Capture
  <2>1. /\ plan' = captured' /\ planFile'.of = captured' /\ ~planFile'.whole
        /\ \A r \in Readers : reader'[r].at = "keep" => reader'[r].oldPlan
    BY <1>2 DEF Capture, TInv, ReadersOK, ReaderRecords
  <2> QED
    BY <2>1 DEF PlanInv, PlanIsLatest
<1>3. CASE PlanWrites
  <2>1. /\ UNCHANGED <<plan, captured, planRaced, reader>> /\ planFile'.of = planFile.of
        /\ loop'.step = "free" /\ loop.step = "plan"
    BY <1>3 DEF PlanWrites, TInv, StoresOK, racedVars, Free
  <2> QED
    BY <2>1 DEF PlanInv, PlanIsLatest
<1>4. ASSUME NEW r \in Readers, Shown(r) PROVE PlanInv'
  BY <1>4, ReaderFacts DEF PlanInv, PlanIsLatest, readerKeeps
<1>5. CASE UNCHANGED vars
  BY <1>5, PlanStays DEF vars, storeVars, racedVars
<1> QED
  BY <1>1, <1>2, <1>3, <1>4, <1>5 DEF Next, Stores

BusyInv == BusyIsReal /\ (loop.step = "plan" => leader = "idle")

LEMMA BusySteps == TInv /\ BusyInv /\ [Next]_vars => BusyInv'
<1> SUFFICES ASSUME TInv, BusyInv, [Next]_vars PROVE BusyInv'
  OBVIOUS
<1> USE DEF TInv, CallersOK, BusyInv, BusyIsReal
<1>1. Requests \subseteq Callers
  BY DEF Callers
<1>2. CASE SaveOpens \/ Capture
  BY <1>2 DEF SaveOpens, Capture, shownVars, LoopOK
<1>3. CASE SaveWrites
  <2>1. PICK c \in Callers : loop.by = c /\ at[c] \in {"asking", "answering"}
    BY <1>3 DEF SaveWrites, LoopOK
  <2>2. leader' = leader /\ loop'.step # "plan"
    BY <1>3 DEF SaveWrites, shownVars, Free, LoopOK
  <2>3. \/ at' = at
        \/ \E p \in {"asked", "waiting"} : at' = [at EXCEPT ![c] = p]
    BY <1>3, <2>1 DEF SaveWrites, Goto
  <2> QED
    BY <1>1, <2>1, <2>2, <2>3
<1>4. CASE PlanWrites
  <2>1. PICK c \in Callers : loop.by = c /\ at[c] = "answering"
    BY <1>4 DEF PlanWrites, LoopOK
  <2> QED
    BY <1>1, <1>4, <2>1 DEF PlanWrites, Goto, shownVars, Free
<1>5. ASSUME NEW q \in Requests, Asks(q) \/ Leave(q) PROVE BusyInv'
  <2>1. CASE Arrive(q)
    BY <1>1, <2>1 DEF Arrive, IsBusy, Goto, Tells
  <2>2. CASE StartStream(q) \/ LastPop(q) \/ Leave(q)
    BY <1>1, <2>2 DEF StartStream, LastPop, Leave, Goto, shownVars, LoopFree, Free
  <2>3. CASE Poll(q)
    BY <2>3 DEF Poll, shownVars
  <2>4. CASE RequestFails(q)
    BY <1>1, <2>4 DEF RequestFails, Goto, LoopFree, Free
  <2> QED
    BY <1>5, <2>1, <2>2, <2>3, <2>4 DEF Asks
<1>6. ASSUME NEW c \in Callers, Answer(c) \/ Runs(c) PROVE BusyInv'
  BY <1>1, <1>6 DEF Answer, Runs, Emit, RunEnds, RunRaises, Goto, Tells, shownVars, LoopFree, Free
<1>7. ASSUME NEW h \in Results, Pumps(h) PROVE BusyInv'
  <2>1. h \in Callers /\ h \notin Requests
    BY ChatAssumption DEF Callers
  <2> QED
    BY <1>1, <1>7, <2>1 DEF Pumps, PumpTakes, PumpFails, Goto, shownVars, LoopFree, Free
<1>8. ASSUME NEW r \in Readers, Shown(r) PROVE BusyInv'
  BY <1>8, ReaderFacts DEF readerKeeps, shownVars
<1>9. CASE UNCHANGED vars
  BY <1>9 DEF vars, shownVars
<1> QED
  BY <1>2, <1>3, <1>4, <1>5, <1>6, <1>7, <1>8, <1>9 DEF Next, Stores

-----------------------------------------------------------------------------
(* The transcript *)

\* The list in memory is the transcript, and so is what the file holds but
\* while it is rewritten, as long as no reader has put an older list back.
TextInv ==
    /\ file.whole => loop.step # "write"
    /\ ~raced =>
          /\ messages = appended
          /\ loop.step # "save" => file.text = appended
          /\ loop.step \notin {"save", "write"} => file.whole \/ appended = <<>>
          /\ \A r \in Readers :
                reader[r].at = "assign" /\ ~reader[r].old => reader[r].text = appended

\* Steps of callers and of their runs tell something, or leave the texts.
LEMMA CallersTell ==
    ASSUME TInv, \/ \E q \in Requests : Asks(q) \/ Leave(q)
                 \/ \E c \in Callers : Answer(c) \/ Runs(c)
                 \/ \E h \in Results : Pumps(h)
    PROVE  /\ loop = Free
           /\ \/ UNCHANGED <<messages, file, appended, raced, loop, reader>>
              \/ \E c \in Callers : Tells(c, "user") \/ Tells(c, Reply(c))
<1>1. ASSUME NEW q \in Requests, Asks(q) \/ Leave(q)
      PROVE  /\ loop = Free
             /\ Tells(q, "user") \/ UNCHANGED <<messages, file, appended, raced, loop, reader>>
  BY <1>1 DEF Asks, Arrive, StartStream, Poll, LastPop, RequestFails, Leave, storeVars, racedVars,
              LoopFree
<1>2. ASSUME NEW c \in Callers, Answer(c) \/ Runs(c)
      PROVE  /\ loop = Free
             /\ Tells(c, Reply(c)) \/ UNCHANGED <<messages, file, appended, raced, loop, reader>>
  BY <1>2 DEF Answer, Runs, Emit, RunEnds, RunRaises, storeVars, racedVars, LoopFree
<1>3. ASSUME NEW h \in Results, Pumps(h)
      PROVE  loop = Free /\ UNCHANGED <<messages, file, appended, raced, loop, reader>>
  BY <1>3 DEF Pumps, PumpTakes, PumpFails, storeVars, racedVars, LoopFree
<1>4. Requests \subseteq Callers
  BY DEF Callers
<1> QED
  BY <1>1, <1>2, <1>3, <1>4

LEMMA TextSteps == TInv /\ TextInv /\ [Next]_vars => TextInv'
<1> SUFFICES ASSUME TInv, TextInv, [Next]_vars PROVE TextInv'
  OBVIOUS
<1>1. CASE \/ \E q \in Requests : Asks(q) \/ Leave(q)
           \/ \E c \in Callers : Answer(c) \/ Runs(c)
           \/ \E h \in Results : Pumps(h)
  <2>1. CASE UNCHANGED <<messages, file, appended, raced, loop, reader>>
    BY <2>1 DEF TextInv
  <2>2. ASSUME NEW c \in Callers, NEW m, Tells(c, m) PROVE TextInv'
    <3>1. /\ UNCHANGED <<file, raced>> /\ loop'.step = "save"
          /\ messages = appended => messages' = appended'
          /\ \A r \in Readers : reader'[r].at = "assign" => reader'[r].old
      BY <2>2 DEF Tells, racedVars, TInv, ReadersOK, ReaderRecords
    <3> QED
      BY <3>1 DEF TextInv
  <2> QED
    BY <1>1, <2>1, <2>2, CallersTell
<1>2. CASE SaveOpens
  <2>1. /\ UNCHANGED <<messages, appended, raced, reader>> /\ loop'.step = "write"
        /\ ~file'.whole /\ file'.text = messages
    BY <1>2 DEF SaveOpens, racedVars, TInv, LoopOK
  <2> QED
    BY <2>1 DEF TextInv
<1>3. CASE SaveWrites
  <2>1. /\ UNCHANGED <<messages, appended, raced, reader>> /\ loop.step = "write"
        /\ file'.whole /\ file'.text = file.text
        /\ loop'.step \in {"free", "capture"}
    BY <1>3 DEF SaveWrites, racedVars, TInv, LoopOK, StoresOK, Free
  <2> QED
    BY <2>1 DEF TextInv
<1>4. CASE Capture
  <2>1. /\ UNCHANGED <<messages, appended, raced, file>>
        /\ loop.step = "capture" /\ loop'.step = "plan"
        /\ \A r \in Readers : /\ reader'[r].at = reader[r].at
                              /\ reader'[r].text = reader[r].text
                              /\ reader'[r].old = reader[r].old
    BY <1>4 DEF Capture, racedVars, TInv, LoopOK, ReadersOK, ReaderRecords
  <2> QED
    BY <2>1 DEF TextInv
<1>5. CASE PlanWrites
  <2>1. /\ UNCHANGED <<messages, appended, raced, file, reader>>
        /\ loop.step = "plan" /\ loop'.step = "free"
    BY <1>5 DEF PlanWrites, racedVars, Free
  <2> QED
    BY <2>1 DEF TextInv
<1>6. ASSUME NEW r \in Readers, Shown(r) PROVE TextInv'
  <2>1. UNCHANGED <<file, appended, loop>>
    BY <1>6, ReaderFacts DEF readerKeeps
  <2>2. raced \in BOOLEAN /\ reader[r].old \in BOOLEAN /\ reader'[r].old \in BOOLEAN
    <3>1. TInv'
      BY <1>6, ReaderSteps
    <3> QED
      BY <3>1 DEF TInv, StoresOK, ReadersOK, ReaderRecords
  <2>3. CASE raced'
    BY <2>1, <2>3 DEF TextInv
  <2>4. CASE ~raced'
    <3>1. ~raced /\ messages' = appended
      BY <1>6, <2>2, <2>4, ReaderFacts DEF TextInv
    <3>2. \A p \in Readers :
            reader'[p].at = "assign" /\ ~reader'[p].old => reader'[p].text = appended
      BY <1>6, <3>1, ReaderFacts DEF TextInv
    <3> QED
      BY <2>1, <3>1, <3>2 DEF TextInv
  <2> QED
    BY <2>2, <2>3, <2>4
<1>7. CASE UNCHANGED vars
  BY <1>7 DEF TextInv, vars, storeVars, racedVars
<1> QED
  BY <1>1, <1>2, <1>3, <1>4, <1>5, <1>6, <1>7 DEF Next, Stores

-----------------------------------------------------------------------------
(* Questions and answers *)

Told(m) == \E i \in 1..Len(appended) : appended[i] = m
ToldAfter(m, n) ==
    \E i, j \in 1..Len(appended) : i < j /\ appended[i] = m /\ appended[j] = n

\* What a run leaves open does not change once it is over, so its reply is
\* the same when it is stored and later on.
RunsInv ==
    \A c \in Callers :
        /\ at[c] \in {"ending", "answering", "done"} => run[c] = "over"
        /\ run[c] = "live" => at[c] \in {"polling", "waiting", "gone"}

AnswersInv ==
    \A q \in Requests :
        /\ at[q] # "unused" => Told(<<q, "user">>)
        /\ at[q] \in {"answering", "done"} => ToldAfter(<<q, "user">>, <<q, Reply(q)>>)

LEMMA RunsSteps == TInv /\ RunsInv /\ [Next]_vars => RunsInv'
<1> SUFFICES ASSUME TInv, RunsInv, [Next]_vars PROVE RunsInv'
  OBVIOUS
<1> USE DEF RunsInv, TInv, CallersOK
<1>1. Requests \subseteq Callers /\ Results \subseteq Callers
  BY DEF Callers
<1>2. CASE SaveOpens \/ Capture
  BY <1>2 DEF SaveOpens, Capture
<1>3. CASE SaveWrites
  <2>1. PICK c \in Callers : loop.by = c /\ at[c] \in {"asking", "answering"}
    BY <1>3 DEF SaveWrites, LoopOK
  <2>2. \/ UNCHANGED <<at, run>>
        \/ at[c] = "asking" /\ at' = [at EXCEPT ![c] = "asked"] /\ run' = run
        \/ /\ at[c] = "asking" /\ at' = [at EXCEPT ![c] = "waiting"]
           /\ run' = [run EXCEPT ![c] = "live"]
    BY <1>3, <2>1 DEF SaveWrites, Goto, Begins
  <2> QED
    BY <2>1, <2>2
<1>4. CASE PlanWrites
  <2>1. PICK c \in Callers : loop.by = c /\ at[c] = "answering"
    BY <1>4 DEF PlanWrites, LoopOK
  <2> QED
    BY <1>4, <2>1 DEF PlanWrites, Goto
<1>5. ASSUME NEW q \in Requests, Asks(q) \/ Leave(q) PROVE RunsInv'
  <2>1. CASE StartStream(q)
    BY <1>1, <2>1 DEF StartStream, Goto, Begins
  <2>2. CASE Poll(q)
    BY <2>2 DEF Poll
  <2>3. CASE Arrive(q) \/ LastPop(q) \/ RequestFails(q) \/ Leave(q)
    BY <1>1, <2>3 DEF Arrive, LastPop, RequestFails, Leave, Goto
  <2> QED
    BY <1>5, <2>1, <2>2, <2>3 DEF Asks
<1>6. ASSUME NEW c \in Callers, Answer(c) \/ Runs(c) PROVE RunsInv'
  BY <1>6 DEF Answer, Runs, Emit, RunEnds, RunRaises, Goto
<1>7. ASSUME NEW h \in Results, Pumps(h) PROVE RunsInv'
  BY <1>1, <1>7 DEF Pumps, PumpTakes, PumpFails, Goto, Begins
<1>8. ASSUME NEW r \in Readers, Shown(r) PROVE RunsInv'
  BY <1>8, ReaderFacts DEF readerKeeps
<1>9. CASE UNCHANGED vars
  BY <1>9 DEF vars
<1> QED
  BY <1>2, <1>3, <1>4, <1>5, <1>6, <1>7, <1>8, <1>9 DEF Next, Stores

LEMMA ReplyDepends ==
    ASSUME NEW c, c \in open' <=> c \in open
    PROVE  Reply(c)' = Reply(c)
  BY DEF Reply, Outputs, WorkerOutputs, ReviewerOutputs, Units

\* The replies of callers whose run is over do not change.
LEMMA RepliesStay ==
    ASSUME TInv, [Next]_vars
    PROVE  /\ \A c \in Callers : run[c] # "live" => (c \in open' <=> c \in open)
           /\ loop # Free => open' = open
<1> USE DEF TInv, CallersOK
<1>1. ASSUME NEW d \in Callers, RunEnds(d)
      PROVE  /\ \A c \in Callers : run[c] # "live" => (c \in open' <=> c \in open)
             /\ loop = Free
  BY <1>1 DEF RunEnds, DispatchQueue, LoopFree
<1>2. CASE \A d \in Callers : ~RunEnds(d)
  <2>1. ASSUME Stores \/ UNCHANGED vars PROVE open' = open
    BY <2>1 DEF Stores, SaveOpens, SaveWrites, Capture, PlanWrites, vars
  <2>2. ASSUME NEW q \in Requests, Asks(q) \/ Leave(q) PROVE open' = open
    BY <2>2 DEF Asks, Arrive, StartStream, Poll, LastPop, RequestFails, Leave
  <2>3. ASSUME NEW c \in Callers, Answer(c) \/ Runs(c) PROVE open' = open
    BY <1>2, <2>3 DEF Answer, Runs, Emit, RunRaises
  <2>4. ASSUME NEW h \in Results, Pumps(h) PROVE open' = open
    BY <2>4 DEF Pumps, PumpTakes, PumpFails
  <2>5. ASSUME NEW r \in Readers, Shown(r) PROVE open' = open
    BY <2>5, ReaderFacts DEF readerKeeps
  <2>6. open' = open
    BY <2>1, <2>2, <2>3, <2>4, <2>5 DEF Next
  <2> QED
    BY <2>6
<1> QED
  BY <1>1, <1>2

\* Telling keeps what has been told.
LEMMA TellingKeeps ==
    ASSUME TInv, NEW c \in Callers, NEW m, <<c, m>> \in Messages, Tells(c, m)
    PROVE  /\ \A x : Told(x) => Told(x)'
           /\ \A x, y : ToldAfter(x, y) => ToldAfter(x, y)'
           /\ Told(<<c, m>>)'
           /\ \A x : Told(x) => ToldAfter(x, <<c, m>>)'
           /\ Len(appended') > 0 /\ Last(appended') = <<c, m>>
<1>1. appended \in Seq(Messages) /\ appended' = Append(appended, <<c, m>>)
  BY DEF TInv, StoresOK, Tells
<1>2. /\ Len(appended) \in Nat /\ Len(appended') = Len(appended) + 1
      /\ \A i \in 1..Len(appended) : appended'[i] = appended[i]
      /\ appended'[Len(appended) + 1] = <<c, m>>
  BY <1>1, AppendProperties, LenProperties
<1> QED
  BY <1>2 DEF Told, ToldAfter, Last

LEMMA AnswersSteps == TInv /\ RunsInv /\ AnswersInv /\ [Next]_vars => AnswersInv'
<1> SUFFICES ASSUME TInv, RunsInv, AnswersInv, [Next]_vars PROVE AnswersInv'
  OBVIOUS
<1>0. Requests \subseteq Callers /\ Results \subseteq Callers /\ Requests \cap Results = {}
  BY ChatAssumption DEF Callers
\* Steps that tell nothing, and end no answer that was not under way.
<1>1. ASSUME appended' = appended,
             \A q \in Requests :
                /\ at'[q] # "unused" => at[q] # "unused"
                /\ at'[q] \in {"answering", "done"} => at[q] \in {"answering", "done"}
      PROVE  AnswersInv'
  <2>1. \A q \in Requests : at[q] \in {"answering", "done"} => Reply(q)' = Reply(q)
    BY <1>0, RepliesStay, ReplyDepends DEF RunsInv
  <2>2. \A q \in Requests : at'[q] # "unused" => Told(<<q, "user">>)'
    BY <1>1 DEF AnswersInv, Told
  <2>3. ASSUME NEW q \in Requests, at'[q] \in {"answering", "done"}
        PROVE  ToldAfter(<<q, "user">>, <<q, Reply(q)>>)'
    <3>1. at[q] \in {"answering", "done"}
      BY <1>1, <2>3
    <3>2. ToldAfter(<<q, "user">>, <<q, Reply(q)>>) /\ Reply(q)' = Reply(q)
      BY <2>1, <3>1 DEF AnswersInv
    <3> QED
      BY <1>1, <3>2 DEF ToldAfter
  <2> QED
    BY <2>2, <2>3 DEF AnswersInv
<1>2. CASE Stores \/ UNCHANGED vars
  <2>1. appended' = appended
    BY <1>2 DEF Stores, SaveOpens, SaveWrites, Capture, PlanWrites, vars, storeVars
  <2>2. CASE at' = at
    BY <1>1, <2>1, <2>2
  <2>3. CASE SaveWrites /\ at' # at
    <3>1. PICK c \in Callers : loop.by = c
      BY <2>3 DEF SaveWrites, TInv, LoopOK
    <3>2. at[c] = "asking" /\ \E p \in {"asked", "waiting"} : at' = [at EXCEPT ![c] = p]
      BY <2>3, <3>1 DEF SaveWrites, Goto
    <3> QED
      BY <1>0, <1>1, <2>1, <3>1, <3>2 DEF TInv, CallersOK
  <2>4. CASE PlanWrites
    <3>1. PICK c \in Callers : loop.by = c /\ at[c] = "answering"
      BY <2>4 DEF PlanWrites, TInv, LoopOK
    <3>2. at' = [at EXCEPT ![c] = "done"]
      BY <2>4, <3>1 DEF PlanWrites, Goto
    <3> QED
      BY <1>0, <1>1, <2>1, <3>1, <3>2 DEF TInv, CallersOK
  <2>5. CASE SaveOpens \/ Capture \/ UNCHANGED vars
    <3>1. at' = at
      BY <2>5 DEF SaveOpens, Capture, vars
    <3> QED
      BY <2>2, <3>1
  <2> QED
    BY <1>2, <2>2, <2>3, <2>4, <2>5 DEF Stores
<1>3. ASSUME NEW q \in Requests, Asks(q) \/ Leave(q), ~Arrive(q) PROVE AnswersInv'
  <2>1. appended' = appended
    BY <1>3 DEF Asks, StartStream, Poll, LastPop, RequestFails, Leave, storeVars
  <2>2. \/ at' = at
        \/ \E p \in {"polling", "ending", "failed", "gone"} :
              at[q] # "unused" /\ at' = [at EXCEPT ![q] = p]
    BY <1>3 DEF Asks, StartStream, Poll, LastPop, RequestFails, Leave, Goto
  <2> QED
    BY <1>0, <1>1, <2>1, <2>2 DEF TInv, CallersOK
<1>4. ASSUME NEW q \in Requests, Arrive(q) PROVE AnswersInv'
  <2>1. at[q] = "unused" /\ at' = [at EXCEPT ![q] = "asking"] /\ Tells(q, "user") /\ open' = open
    BY <1>4 DEF Arrive, Goto
  <2>2. \A p \in Requests : Reply(p)' = Reply(p)
    BY <2>1, ReplyDepends
  <2>3. /\ \A x : Told(x) => Told(x)'
        /\ \A x, y : ToldAfter(x, y) => ToldAfter(x, y)'
        /\ Told(<<q, "user">>)'
    BY <1>0, <2>1, RepliesAreMessages, TellingKeeps
  <2>4. /\ at'[q] = "asking" /\ \A p \in Requests \ {q} : at'[p] = at[p]
    BY <1>0, <2>1 DEF TInv, CallersOK
  <2>5. ASSUME NEW p \in Requests \ {q}
        PROVE  /\ at[p] # "unused" => Told(<<p, "user">>)'
               /\ at[p] \in {"answering", "done"} => ToldAfter(<<p, "user">>, <<p, Reply(p)>>)'
    <3>1. ToldAfter(<<p, "user">>, <<p, Reply(p)>>) =>
              ToldAfter(<<p, "user">>, <<p, Reply(p)>>)'
      BY <2>2, <2>3 DEF ToldAfter
    <3> QED
      BY <2>3, <3>1 DEF AnswersInv
  <2> QED
    BY <2>3, <2>4, <2>5 DEF AnswersInv
<1>5. ASSUME NEW c \in Callers, Runs(c) PROVE AnswersInv'
  BY <1>1, <1>5 DEF Runs, Emit, RunEnds, RunRaises, storeVars
<1>6. ASSUME NEW c \in Callers, Answer(c) PROVE AnswersInv'
  <2> PICK n \in {"chat", "results"} : Reply(c) = n
    BY DEF Reply
  <2>1. /\ at[c] \in {"ending", "waiting"} /\ at' = [at EXCEPT ![c] = "answering"]
        /\ Tells(c, n) /\ <<c, n>> \in Messages /\ open' = open
    BY <1>6 DEF Answer, Goto, Messages
  <2>2. \A p \in Callers : Reply(p)' = Reply(p)
    BY <2>1, ReplyDepends
  <2>3. /\ \A x : Told(x) => Told(x)'
        /\ \A x, y : ToldAfter(x, y) => ToldAfter(x, y)'
        /\ \A x : Told(x) => ToldAfter(x, <<c, n>>)'
    BY <2>1, TellingKeeps
  <2>4. /\ at'[c] = "answering" /\ \A p \in Callers \ {c} : at'[p] = at[p]
    BY <2>1 DEF TInv, CallersOK
  <2>5. ASSUME NEW p \in Requests
        PROVE  /\ at'[p] # "unused" => Told(<<p, "user">>)'
               /\ at'[p] \in {"answering", "done"} => ToldAfter(<<p, "user">>, <<p, Reply(p)>>)'
    <3> PICK k \in {"chat", "results"} : Reply(p) = k
      BY DEF Reply
    <3>0. Reply(p)' = k
      BY <1>0, <2>2
    <3>1. at'[p] # "unused" => Told(<<p, "user">>) /\ Told(<<p, "user">>)'
      BY <1>0, <2>1, <2>3, <2>4 DEF AnswersInv
    <3>2. at'[p] \in {"answering", "done"} => ToldAfter(<<p, "user">>, <<p, k>>)'
      <4>1. CASE p = c
        BY <2>3, <2>4, <3>1, <4>1
      <4>2. CASE p # c
        <5>1. at[p] \in {"answering", "done"} => ToldAfter(<<p, "user">>, <<p, k>>)
          BY DEF AnswersInv
        <5> QED
          BY <1>0, <2>3, <2>4, <4>2, <5>1
      <4> QED
        BY <4>1, <4>2
    <3>3. ToldAfter(<<p, "user">>, <<p, k>>)' => ToldAfter(<<p, "user">>, <<p, Reply(p)>>)'
      BY <3>0 DEF ToldAfter
    <3> QED
      BY <3>1, <3>2, <3>3
  <2> QED
    BY <2>5 DEF AnswersInv
<1>7. ASSUME NEW h \in Results, Pumps(h) PROVE AnswersInv'
  <2>1. appended' = appended /\ \E p \in Places : at' = [at EXCEPT ![h] = p]
    BY <1>7 DEF Pumps, PumpTakes, PumpFails, Goto, storeVars, Places
  <2>2. \A q \in Requests : at'[q] = at[q]
    BY <1>0, <2>1 DEF TInv, CallersOK
  <2> QED
    BY <1>1, <2>1, <2>2
<1>8. ASSUME NEW r \in Readers, Shown(r) PROVE AnswersInv'
  BY <1>1, <1>8, ReaderFacts DEF readerKeeps
<1> QED
  BY <1>2, <1>3, <1>4, <1>5, <1>6, <1>7, <1>8 DEF Next, Asks

LEMMA TranscriptFollows == TInv /\ TextInv /\ AnswersInv => TranscriptIsKept
<1> SUFFICES ASSUME TInv, TextInv, AnswersInv, ~raced PROVE TranscriptIsKept
  BY DEF TranscriptIsKept
<1>1. messages = appended /\ DOMAIN appended = 1..Len(appended)
  BY LenProperties DEF TInv, StoresOK, TextInv
<1>2. \A q \in Requests : at[q] = "done" =>
          \E i, j \in DOMAIN messages :
              i < j /\ messages[i] = <<q, "user">> /\ messages[j] = <<q, Reply(q)>>
  BY <1>1 DEF AnswersInv, ToldAfter
<1> QED
  BY <1>1, <1>2 DEF TextInv, TranscriptIsKept

-----------------------------------------------------------------------------
(* Workers shown when nothing is under way *)

\* What is shown after the plan of captured was stored.
CapturedShown ==
    /\ worker = [status |-> "idle", count |-> IF captured \in open THEN 1 ELSE 0]
    /\ Last(appended) = <<captured, IF captured \in open THEN "results" ELSE "chat">>
    /\ leader = "idle"

PeaceInv ==
    /\ AtPeace /\ captured # Nobody => CapturedShown
    /\ loop.step = "plan" => captured = loop.by /\ CapturedShown
    /\ loop.step \in {"save", "write", "capture"} /\ at[loop.by] = "answering" =>
          Last(appended) = <<loop.by, Reply(loop.by)>>

LEMMA ReplyOf ==
    ASSUME NEW c \in Callers
    PROVE  /\ Reply(c) = IF c \in open THEN "results" ELSE "chat"
           /\ WorkersIn(Units(c)) = IF c \in open THEN 1 ELSE 0
<1>1. CASE c \in open
  <2>1. Units(c) \cap {"worker"} = {"worker"} /\ Outputs(c) # {}
    BY <1>1 DEF Units, Outputs, WorkerOutputs, ReviewerOutputs
  <2> QED
    BY <1>1, <2>1, FS_Singleton DEF WorkersIn, Reply
<1>2. CASE c \notin open
  <2>1. Units(c) \cap {"worker"} = {} /\ Outputs(c) = {}
    BY <1>2 DEF Units, Outputs, WorkerOutputs, ReviewerOutputs
  <2> QED
    BY <1>2, <2>1, FS_EmptySet DEF WorkersIn, Reply
<1> QED
  BY <1>1, <1>2

\* Whoever is at work is not at peace.
LEMMA PeaceSteps == TInv /\ RunsInv /\ PeaceInv /\ [Next]_vars => PeaceInv'
<1> SUFFICES ASSUME TInv, RunsInv, PeaceInv, [Next]_vars PROVE PeaceInv'
  OBVIOUS
<1>0. Requests \subseteq Callers /\ Results \subseteq Callers /\ Requests \cap Results = {}
  BY ChatAssumption DEF Callers
\* A step of the free loop that leaves some caller at work.
<1>1. ASSUME loop' = Free, NEW c \in Callers, at'[c] \notin {"unused", "queued", "done"}
      PROVE  PeaceInv'
  BY <1>1 DEF PeaceInv, AtPeace, LoopFree, Free
\* A step that changes nothing of it.
<1>2. ASSUME UNCHANGED <<at, loop, worker, leader, captured, appended, open>>
      PROVE  PeaceInv'
  <2>1. \A c : Reply(c)' = Reply(c)
    BY <1>2, ReplyDepends
  <2> QED
    BY <1>2, <2>1 DEF PeaceInv, AtPeace, LoopFree, CapturedShown
<1>3. CASE SaveOpens
  <2>1. PICK c \in Callers : loop.by = c
    BY <1>3 DEF SaveOpens, TInv, LoopOK
  <2>2. /\ UNCHANGED <<at, worker, leader, captured, appended, open>>
        /\ loop'.step = "write" /\ loop'.by = c /\ loop.step = "save"
    BY <1>3, <2>1 DEF SaveOpens, shownVars, TInv, LoopOK
  <2>3. Reply(c)' = Reply(c)
    BY <2>2, ReplyDepends
  <2> QED
    BY <2>1, <2>2, <2>3 DEF PeaceInv, AtPeace, LoopFree, Free
<1>4. CASE SaveWrites
  <2>1. PICK c \in Callers : loop.by = c /\ at[c] \in {"asking", "answering"}
    BY <1>4 DEF SaveWrites, TInv, LoopOK
  <2>2. UNCHANGED <<worker, leader, captured, appended, open>> /\ loop.step = "write"
    BY <1>4 DEF SaveWrites, shownVars
  <2>3. CASE at[c] = "answering"
    <3>1. at' = at /\ loop' = [loop EXCEPT !.step = "capture"]
      BY <1>4, <2>1, <2>3 DEF SaveWrites
    <3>2. loop'.step = "capture" /\ loop'.by = c
      BY <2>1, <3>1 DEF TInv, LoopOK
    <3>3. Reply(c)' = Reply(c)
      BY <2>2, ReplyDepends
    <3> QED
      BY <2>1, <2>2, <2>3, <3>1, <3>2, <3>3 DEF PeaceInv, AtPeace, LoopFree, Free
  <2>4. CASE at[c] = "asking"
    <3>1. loop' = Free /\ \E p \in {"asked", "waiting"} : at' = [at EXCEPT ![c] = p]
      BY <1>4, <2>1, <2>4 DEF SaveWrites, Goto
    <3>2. at'[c] \in {"asked", "waiting"}
      BY <3>1 DEF TInv, CallersOK
    <3> QED
      BY <1>1, <3>1, <3>2
  <2> QED
    BY <2>1, <2>3, <2>4
<1>5. CASE Capture
  <2>1. PICK c \in Callers : loop.by = c /\ at[c] = "answering"
    BY <1>5 DEF Capture, TInv, LoopOK
  <2>2. /\ captured' = c /\ leader' = "idle"
        /\ worker' = [status |-> "idle", count |-> WorkersIn(Units(c))]
        /\ UNCHANGED <<at, appended, open>> /\ loop.step = "capture"
    BY <1>5, <2>1 DEF Capture
  <2>3. loop'.step = "plan" /\ loop'.by = c
    BY <1>5, <2>1 DEF Capture, TInv, LoopOK
  <2>4. Last(appended) = <<c, Reply(c)>>
    BY <2>1, <2>2 DEF PeaceInv
  <2>5. CapturedShown'
    BY <2>2, <2>4, ReplyOf DEF CapturedShown
  <2> QED
    BY <2>2, <2>3, <2>5 DEF PeaceInv, AtPeace, LoopFree, Free
<1>6. CASE PlanWrites
  <2>1. /\ loop.step = "plan" /\ loop' = Free
        /\ UNCHANGED <<worker, leader, captured, appended, open>>
    BY <1>6 DEF PlanWrites, shownVars
  <2>2. CapturedShown'
    BY <2>1 DEF PeaceInv, CapturedShown
  <2> QED
    BY <2>1, <2>2 DEF PeaceInv, Free
<1>7. ASSUME NEW c \in Callers, NEW m \in {"user", "chat", "results"},
             LoopFree, Tells(c, m), NEW p \in {"asking", "answering"},
             at' = [at EXCEPT ![c] = p], open' = open,
             p = "answering" => Reply(c) = m
      PROVE  PeaceInv'
  <2>1. Last(appended') = <<c, m>>
    BY <1>7, TellingKeeps DEF Messages
  <2>2. loop'.step = "save" /\ loop'.by = c /\ at'[c] = p
    BY <1>7 DEF Tells, TInv, CallersOK
  <2>3. Reply(c)' = Reply(c)
    BY <1>7, ReplyDepends
  <2> QED
    BY <1>7, <2>1, <2>2, <2>3 DEF PeaceInv, AtPeace, LoopFree, Free
<1>8. ASSUME NEW q \in Requests, Asks(q) \/ Leave(q) PROVE PeaceInv'
  <2>1. CASE Arrive(q)
    BY <1>0, <1>7, <2>1 DEF Arrive, Goto
  <2>2. CASE ~Arrive(q)
    <3>1. loop' = Free
      BY <1>8, <2>2 DEF Asks, StartStream, Poll, LastPop, RequestFails, Leave, LoopFree
    <3>2. at'[q] \in {"polling", "ending", "failed", "gone"}
      BY <1>0, <1>8, <2>2 DEF Asks, StartStream, Poll, LastPop, RequestFails, Leave, Goto,
                              TInv, CallersOK
    <3> QED
      BY <1>0, <1>1, <3>1, <3>2
  <2> QED
    BY <2>1, <2>2
<1>9. ASSUME NEW c \in Callers, Runs(c) PROVE PeaceInv'
  <2>1. loop' = Free /\ at' = at /\ run[c] = "live"
    BY <1>9 DEF Runs, Emit, RunEnds, RunRaises, LoopFree
  <2>2. at[c] \in {"polling", "waiting", "gone"}
    BY <2>1 DEF RunsInv
  <2> QED
    BY <1>1, <2>1, <2>2
<1>10. ASSUME NEW c \in Callers, Answer(c) PROVE PeaceInv'
  <2> PICK n \in {"chat", "results"} : Reply(c) = n
    BY DEF Reply
  <2>1. LoopFree /\ Tells(c, n) /\ at' = [at EXCEPT ![c] = "answering"] /\ open' = open
    BY <1>10 DEF Answer, Goto
  <2> QED
    BY <1>7, <2>1
<1>11. ASSUME NEW h \in Results, Pumps(h) PROVE PeaceInv'
  <2>1. loop' = Free /\ at'[h] \in {"waiting", "retry"}
    BY <1>0, <1>11 DEF Pumps, PumpTakes, PumpFails, LoopFree, Goto, TInv, CallersOK
  <2> QED
    BY <1>0, <1>1, <2>1
<1>12. ASSUME NEW r \in Readers, Shown(r) PROVE PeaceInv'
  BY <1>2, <1>12, ReaderFacts DEF readerKeeps, shownVars
<1>13. CASE UNCHANGED vars
  BY <1>2, <1>13 DEF vars, storeVars, shownVars
<1> QED
  BY <1>3, <1>4, <1>5, <1>6, <1>8, <1>9, <1>10, <1>11, <1>12, <1>13 DEF Next, Stores

LEMMA WorkersFollow == PeaceInv => WorkersMatchPlan
  BY DEF PeaceInv, CapturedShown, WorkersMatchPlan

-----------------------------------------------------------------------------
(* Streams *)

\* The first n events of a run.
FirstEvents(c, n) == [i \in 1..n |-> <<c, i>>]

LEMMA OneMoreEvent ==
    ASSUME NEW c \in Callers, NEW n \in Nat
    PROVE  /\ FirstEvents(c, n) \in Seq(Callers \X Nat)
           /\ Append(FirstEvents(c, n), <<c, n + 1>>) = FirstEvents(c, n + 1)
<1> DEFINE S == Callers \X Nat
<1>1. \A k \in Nat : FirstEvents(c, k) \in Seq(S) /\ Len(FirstEvents(c, k)) = k
  BY DEF FirstEvents
<1>2. <<c, n + 1>> \in S
  OBVIOUS
<1> DEFINE a == Append(FirstEvents(c, n), <<c, n + 1>>)
           b == FirstEvents(c, n + 1)
<1>3. /\ a \in Seq(S) /\ Len(a) = n + 1
      /\ \A i \in 1..n : a[i] = FirstEvents(c, n)[i]
      /\ a[n + 1] = <<c, n + 1>>
  <2> HIDE DEF S
  <2> QED
    BY <1>1, <1>2, AppendProperties
<1>4. b \in Seq(S) /\ Len(b) = n + 1
  BY <1>1
<1>5. \A i \in 1..(n + 1) : a[i] = b[i]
  <2> SUFFICES ASSUME NEW i \in 1..(n + 1) PROVE a[i] = b[i]
    OBVIOUS
  <2>1. b[i] = <<c, i>> /\ (i \in 1..n => FirstEvents(c, n)[i] = <<c, i>>)
    <3> HIDE DEF a
    <3> QED
      BY DEF FirstEvents
  <2> HIDE DEF a, b
  <2>2. CASE i \in 1..n
    BY <1>3, <2>1, <2>2
  <2>3. CASE i = n + 1
    BY <1>3, <2>1, <2>3
  <2> QED
    BY <2>2, <2>3
<1>6. a = b
  <2> HIDE DEF S, a, b
  <2> QED
    BY <1>3, <1>4, <1>5, SeqEqual
<1> QED
  BY <1>1, <1>6

LEMMA AppendOfConcat ==
    \A a, b \in Seq(Events) : \A e \in Events : a \o Append(b, e) = Append(a \o b, e)
<1> TAKE a, b \in Seq(Events)
<1> TAKE e \in Events
<1>1. Append(b, e) = b \o <<e>> /\ <<e>> \in Seq(Events)
  BY AppendIsConcat
<1>2. a \o b \in Seq(Events)
  BY ConcatProperties
<1>3. Append(a \o b, e) = (a \o b) \o <<e>>
  BY <1>2, AppendIsConcat
<1> QED
  BY <1>1, <1>3, ConcatAssociative

\* A stream that is not crowded is the only one at work, and what its client
\* has, with what is in the queue, is what its run has emitted.
LoneInv ==
    /\ \A q \in Requests :
          /\ Streaming(q) => at[q] # "waiting"
          /\ at[q] \in {"unused", "asking", "asked"} =>
                got[q] = <<>> /\ emitted[q] = 0 /\ run[q] = "none"
    /\ \A q \in Requests \ crowded :
          /\ Live(q) => \A d \in Callers \ {q} : ~Live(d)
          /\ Streaming(q) =>
                /\ at[q] = "polling" => got[q] \o events = FirstEvents(q, emitted[q])
                /\ at[q] \in {"ending", "answering", "done"} =>
                      got[q] = FirstEvents(q, emitted[q])

LEMMA LoneFollows == LoneInv => LoneStreamIsExact
  BY DEF LoneInv, LoneStreamIsExact, AsEmitted, FirstEvents

\* A run that begins crowds whoever is at work, and itself if anybody is.
LEMMA BeginningCrowds ==
    ASSUME TInv, LoneInv, NEW c \in Callers, Begins(c),
           at' = at \/ \E p \in {"polling", "waiting"} : at' = [at EXCEPT ![c] = p],
           at[c] # "polling"
    PROVE  /\ crowded \subseteq crowded'
           /\ \A q \in Requests \ crowded' :
                 /\ q # c => ~Live(q) /\ ~Live(q)'
                 /\ q = c => \A d \in Callers \ {q} : ~Live(d) /\ ~Live(d)'
<1>1. Requests \subseteq Callers
  BY DEF Callers
<1>2. \A d \in Callers \ {c} : Live(d)' <=> Live(d)
  BY DEF Begins, Live, TInv, CallersOK
<1>3. CASE \A d \in Callers \ {c} : ~Live(d)
  BY <1>1, <1>2, <1>3 DEF Begins
<1>4. CASE \E d \in Callers \ {c} : Live(d)
  <2>1. crowded' = crowded \cup (Requests \cap ({d \in Callers \ {c} : Live(d)} \cup {c}))
    BY <1>4 DEF Begins
  <2> QED
    BY <1>1, <1>2, <2>1
<1> QED
  BY <1>3, <1>4

\* A step that starts no run, moves no stream and emits nothing.
LEMMA LoneStays ==
    ASSUME LoneInv, UNCHANGED <<way, emitted, events, got, crowded>>,
           \A c \in Callers : Live(c)' => Live(c),
           \A q \in Requests :
              /\ at'[q] \in {"unused", "asking", "asked"} =>
                    at[q] \in {"unused", "asking", "asked"} /\ (run'[q] = run[q])
              /\ Streaming(q) =>
                /\ at'[q] = "waiting" => at[q] = "waiting"
                /\ at'[q] = "polling" => at[q] = "polling"
                /\ at'[q] \in {"ending", "answering", "done"} =>
                      at[q] \in {"ending", "answering", "done"}
    PROVE  LoneInv'
<1>1. Requests \subseteq Callers
  BY DEF Callers
<1>2. \A q \in Requests : Streaming(q)' <=> Streaming(q)
  BY DEF Streaming
<1> QED
  BY <1>1, <1>2 DEF LoneInv

LEMMA LoneSteps == TInv /\ RunsInv /\ LoneInv /\ [Next]_vars => LoneInv'
<1> SUFFICES ASSUME TInv, RunsInv, LoneInv, [Next]_vars PROVE LoneInv'
  OBVIOUS
<1>0. Requests \subseteq Callers /\ Results \subseteq Callers /\ Requests \cap Results = {}
  BY ChatAssumption DEF Callers
<1>1. CASE SaveOpens \/ Capture \/ UNCHANGED vars
  <2>1. UNCHANGED <<at, run, way, emitted, events, got, crowded>>
    BY <1>1 DEF SaveOpens, Capture, vars, streamVars
  <2> QED
    BY <2>1, LoneStays DEF Live
<1>2. CASE PlanWrites
  <2>1. PICK c \in Callers : loop.by = c /\ at[c] = "answering"
    BY <1>2 DEF PlanWrites, TInv, LoopOK
  <2>2. /\ UNCHANGED <<run, way, emitted, events, got, crowded>>
        /\ at' = [at EXCEPT ![c] = "done"]
    BY <1>2, <2>1 DEF PlanWrites, Goto, streamVars
  <2> QED
    BY <1>0, <2>1, <2>2, LoneStays DEF Live, TInv, CallersOK
<1>3. ASSUME NEW r \in Readers, Shown(r) PROVE LoneInv'
  <2>1. UNCHANGED <<at, run, way, emitted, events, got, crowded>>
    BY <1>3, ReaderFacts DEF readerKeeps, streamVars
  <2> QED
    BY <2>1, LoneStays DEF Live
<1>4. ASSUME NEW c \in Callers, Answer(c) PROVE LoneInv'
  <2>1. /\ at[c] = "ending" \/ at[c] = "waiting"
        /\ UNCHANGED <<run, way, emitted, events, got, crowded>>
        /\ at' = [at EXCEPT ![c] = "answering"]
    BY <1>4 DEF Answer, Goto, streamVars
  <2>2. Streaming(c) => at[c] # "waiting"
    BY DEF LoneInv, Streaming
  <2> QED
    BY <1>0, <2>1, <2>2, LoneStays DEF Live, TInv, CallersOK
<1>5. ASSUME NEW h \in Results, PumpFails(h) PROVE LoneInv'
  <2>1. /\ UNCHANGED <<run, way, emitted, events, got, crowded>> /\ at[h] = "waiting"
        /\ at' = [at EXCEPT ![h] = "retry"]
    BY <1>5 DEF PumpFails, Goto, streamVars
  <2> QED
    BY <1>0, <2>1, LoneStays DEF Live, TInv, CallersOK
<1>6. ASSUME NEW c \in Callers, RunRaises(c) \/ RunEnds(c) PROVE LoneInv'
  <2>1. /\ UNCHANGED <<at, way, emitted, events, got, crowded>> /\ run[c] = "live"
        /\ \E v \in {"raised", "over"} : run' = [run EXCEPT ![c] = v]
    BY <1>6 DEF RunRaises, RunEnds, streamVars
  <2>2. \A d \in Callers : Live(d)' => Live(d)
    BY <2>1 DEF Live, TInv, CallersOK
  <2>3. \A q \in Requests : at[q] \in {"unused", "asking", "asked"} => run'[q] = run[q]
    BY <1>0, <2>1 DEF RunsInv, TInv, CallersOK
  <2> QED
    BY <2>1, <2>2, <2>3, LoneStays
<1>7. ASSUME NEW q \in Requests, Arrive(q) \/ RequestFails(q) \/ Leave(q) PROVE LoneInv'
  <2>1. /\ UNCHANGED <<run, way, emitted, events, got, crowded>>
        /\ \/ at[q] = "unused" /\ at' = [at EXCEPT ![q] = "asking"]
           \/ \E p \in {"failed", "gone"} : at' = [at EXCEPT ![q] = p]
    BY <1>7 DEF Arrive, RequestFails, Leave, Goto, streamVars
  <2> QED
    BY <1>0, <2>1, LoneStays DEF Live, TInv, CallersOK
<1>8. CASE SaveWrites /\ UNCHANGED <<run, crowded>>
  <2>1. PICK c \in Callers : loop.by = c /\ at[c] \in {"asking", "answering"}
    BY <1>8 DEF SaveWrites, TInv, LoopOK
  <2>2. UNCHANGED <<way, emitted, events, got>>
    BY <1>8 DEF SaveWrites
  <2>3. CASE at' = at
    BY <1>8, <2>2, <2>3, LoneStays DEF Live
  <2>4. CASE at[c] = "asking" /\ at' = [at EXCEPT ![c] = "asked"]
    BY <1>0, <1>8, <2>2, <2>4, LoneStays DEF Live, TInv, CallersOK
  <2>5. CASE at[c] = "asking" /\ Begins(c)
    <3>1. run'[c] = "live" /\ run[c] = "live"
      BY <1>8, <2>5 DEF Begins, TInv, CallersOK
    <3> QED
      BY <2>5, <3>1 DEF RunsInv
  <2> QED
    BY <1>8, <2>1, <2>3, <2>4, <2>5 DEF SaveWrites, Goto
\* The beginnings of runs.
<1>9. ASSUME NEW c \in Callers, Begins(c), UNCHANGED <<way, emitted, got>>,
             at[c] \in {"asking", "asked", "queued", "retry"},
             c \in Requests => at[c] \in {"asking", "asked"},
             \/ events' = events /\ at' = [at EXCEPT ![c] = "waiting"]
             \/ events' = <<>> /\ at' = [at EXCEPT ![c] = "polling"],
             Streaming(c) => at'[c] # "waiting"
      PROVE  LoneInv'
  <2>1. /\ crowded \subseteq crowded'
        /\ \A q \in Requests \ crowded' :
              /\ q # c => ~Live(q) /\ ~Live(q)'
              /\ q = c => \A d \in Callers \ {q} : ~Live(d) /\ ~Live(d)'
    BY <1>9, BeginningCrowds
  <2>2. /\ \A q \in Callers \ {c} : at'[q] = at[q] /\ run'[q] = run[q]
        /\ at'[c] \in {"waiting", "polling"}
    BY <1>9 DEF Begins, TInv, CallersOK
  <2>3. \A q \in Requests :
          /\ Streaming(q)' => at'[q] # "waiting"
          /\ at'[q] \in {"unused", "asking", "asked"} =>
                got'[q] = <<>> /\ emitted'[q] = 0 /\ run'[q] = "none"
    BY <1>0, <1>9, <2>2 DEF LoneInv, Streaming
  <2>4. ASSUME NEW q \in Requests \ crowded'
        PROVE  /\ Live(q)' => \A d \in Callers \ {q} : ~Live(d)'
               /\ Streaming(q)' =>
                    /\ at'[q] = "polling" => got'[q] \o events' = FirstEvents(q, emitted'[q])
                    /\ at'[q] \in {"ending", "answering", "done"} =>
                          got'[q] = FirstEvents(q, emitted'[q])
    <3>1. CASE q # c
      <4>1. at'[q] # "polling" /\ at'[q] = at[q]
        BY <1>0, <2>1, <2>2, <3>1 DEF Live
      <4> QED
        BY <1>9, <2>1, <3>1, <4>1 DEF LoneInv, Streaming
    <3>2. CASE q = c
      <4>1. at[q] \in {"asking", "asked"}
        BY <1>9, <3>2
      <4>2. got'[q] = <<>> /\ emitted'[q] = 0
        BY <1>9, <4>1 DEF LoneInv
      <4>3. at'[q] = "polling" => events' = <<>>
        BY <1>9, <2>2, <3>2 DEF TInv, CallersOK
      <4>4. <<>> \o <<>> = FirstEvents(q, 0)
        BY DEF FirstEvents
      <4> QED
        BY <2>1, <2>2, <3>2, <4>2, <4>3, <4>4
    <3> QED
      BY <3>1, <3>2
  <2> QED
    BY <2>3, <2>4 DEF LoneInv
<1>10. CASE SaveWrites /\ ~UNCHANGED <<run, crowded>>
  <2>1. PICK c \in Callers : loop.by = c
    BY <1>10 DEF SaveWrites, TInv, LoopOK
  <2>2. /\ Begins(c) /\ UNCHANGED <<way, emitted, got, events>>
        /\ at[c] = "asking" /\ at' = [at EXCEPT ![c] = "waiting"] /\ ~Streaming(c)
    BY <1>10, <2>1 DEF SaveWrites, Goto
  <2> QED
    BY <1>9, <2>2
<1>11. ASSUME NEW q \in Requests, StartStream(q) PROVE LoneInv'
  <2>1. at'[q] = "polling"
    BY <1>0, <1>11 DEF StartStream, Goto, TInv, CallersOK
  <2>2. /\ Begins(q) /\ UNCHANGED <<way, emitted, got>> /\ events' = <<>>
        /\ at[q] = "asked" /\ at' = [at EXCEPT ![q] = "polling"]
    BY <1>11 DEF StartStream, Goto
  <2> QED
    BY <1>0, <1>9, <2>1, <2>2
<1>12. ASSUME NEW h \in Results, PumpTakes(h) PROVE LoneInv'
  <2>1. /\ Begins(h) /\ UNCHANGED <<way, emitted, got, events>>
        /\ at[h] \in {"queued", "retry"} /\ at' = [at EXCEPT ![h] = "waiting"]
        /\ h \in Callers /\ h \notin Requests /\ ~Streaming(h)
    BY <1>0, <1>12 DEF PumpTakes, Goto, Streaming
  <2> QED
    BY <1>9, <2>1
<1>13. ASSUME NEW c \in Callers, Emit(c) PROVE LoneInv'
  <2>1. /\ UNCHANGED <<at, way, run, got, crowded>> /\ run[c] = "live"
        /\ emitted' = [emitted EXCEPT ![c] = @ + 1]
        /\ events' = Append(events, <<c, emitted[c] + 1>>)
    BY <1>13 DEF Emit, Push
  <2>2. /\ emitted[c] \in Nat /\ emitted'[c] = emitted[c] + 1
        /\ \A d \in Callers \ {c} : emitted'[d] = emitted[d]
    BY <2>1, ChatAssumption DEF TInv, CallersOK
  <2>3. at[c] \in {"polling", "waiting", "gone"}
    BY <2>1 DEF RunsInv
  <2>4. \A q \in Requests :
          /\ Streaming(q)' => at'[q] # "waiting"
          /\ at'[q] \in {"unused", "asking", "asked"} =>
                got'[q] = <<>> /\ emitted'[q] = 0 /\ run'[q] = "none"
    BY <1>0, <2>1, <2>2, <2>3 DEF LoneInv, Streaming
  <2>5. ASSUME NEW q \in Requests \ crowded'
        PROVE  /\ Live(q)' => \A d \in Callers \ {q} : ~Live(d)'
               /\ Streaming(q)' =>
                    /\ at'[q] = "polling" => got'[q] \o events' = FirstEvents(q, emitted'[q])
                    /\ at'[q] \in {"ending", "answering", "done"} =>
                          got'[q] = FirstEvents(q, emitted'[q])
    <3>1. Live(q)' => \A d \in Callers \ {q} : ~Live(d)'
      BY <2>1, <2>5 DEF LoneInv, Live
    <3>2. CASE at[q] = "polling" /\ Streaming(q)
      <4>1. c = q
        BY <2>1, <2>5, <3>2 DEF LoneInv, Live
      <4>2. got[q] \o events = FirstEvents(q, emitted[q])
        BY <2>1, <2>5, <3>2 DEF LoneInv
      <4>3. got[q] \in Seq(Events) /\ events \in Seq(Events) /\ <<q, emitted[q] + 1>> \in Events
        BY <1>13, <4>1, ChatAssumption DEF Emit, TInv, CallersOK, EventsOK, Events
      <4>4. got[q] \o Append(events, <<q, emitted[q] + 1>>) =
                Append(got[q] \o events, <<q, emitted[q] + 1>>)
        BY <4>3, AppendOfConcat, Zenon
      <4>5. Append(FirstEvents(q, emitted[q]), <<q, emitted[q] + 1>>) =
                FirstEvents(q, emitted[q] + 1)
        BY <2>2, <4>1, OneMoreEvent
      <4>6. got'[q] \o events' = FirstEvents(q, emitted'[q])
        BY <2>1, <2>2, <4>1, <4>2, <4>4, <4>5
      <4> QED
        BY <2>1, <3>1, <3>2, <4>6
    <3>3. CASE ~(at[q] = "polling" /\ Streaming(q))
      <4>1. at[q] \in {"ending", "answering", "done"} => q # c
        BY <2>3
      <4> QED
        BY <1>0, <2>1, <2>2, <2>5, <3>1, <3>3, <4>1 DEF LoneInv, Streaming
    <3> QED
      BY <3>2, <3>3
  <2> QED
    BY <2>4, <2>5 DEF LoneInv
<1>14. ASSUME NEW q \in Requests, Poll(q) \/ LastPop(q) PROVE LoneInv'
  <2>1. /\ UNCHANGED <<way, run, emitted, crowded>> /\ at[q] = "polling"
        /\ got' = [got EXCEPT ![q] = @ \o events] /\ events' = <<>>
        /\ at' = at \/ at' = [at EXCEPT ![q] = "ending"]
    BY <1>14 DEF Poll, LastPop, Pop, Goto
  <2>2. /\ got'[q] = got[q] \o events /\ got'[q] \o events' = got[q] \o events
        /\ \A p \in Requests \ {q} : got'[p] = got[p]
    <3>1. got[q] \o events \in Seq(Events) /\ got'[q] = got[q] \o events
      BY <2>1, ConcatProperties DEF TInv, EventsOK
    <3>2. got'[q] \o <<>> = got'[q]
      BY <3>1, ConcatEmptySeq
    <3> QED
      BY <2>1, <3>1, <3>2 DEF TInv, EventsOK
  <2>3. /\ at'[q] \in {"polling", "ending"}
        /\ \A p \in Callers \ {q} : at'[p] = at[p]
    BY <1>0, <2>1 DEF TInv, CallersOK
  <2>4. \A p \in Requests :
          /\ Streaming(p)' => at'[p] # "waiting"
          /\ at'[p] \in {"unused", "asking", "asked"} =>
                got'[p] = <<>> /\ emitted'[p] = 0 /\ run'[p] = "none"
    BY <1>0, <2>1, <2>2, <2>3 DEF LoneInv, Streaming
  <2>5. ASSUME NEW p \in Requests \ crowded'
        PROVE  /\ Live(p)' => \A d \in Callers \ {p} : ~Live(d)'
               /\ Streaming(p)' =>
                    /\ at'[p] = "polling" => got'[p] \o events' = FirstEvents(p, emitted'[p])
                    /\ at'[p] \in {"ending", "answering", "done"} =>
                          got'[p] = FirstEvents(p, emitted'[p])
    <3>1. \A d \in Callers : Live(d)' => Live(d)
      BY <2>1, <2>3 DEF Live
    <3>2. Live(p)' => \A d \in Callers \ {p} : ~Live(d)'
      BY <1>0, <2>1, <2>5, <3>1 DEF LoneInv
    <3>3. CASE p = q
      BY <2>1, <2>2, <2>3, <2>5, <3>2, <3>3 DEF LoneInv, Streaming
    <3>4. CASE p # q
      <4>1. at[p] # "polling"
        BY <1>0, <2>1, <2>5, <3>4 DEF LoneInv, Live
      <4> QED
        BY <1>0, <2>1, <2>2, <2>3, <2>5, <3>2, <3>4, <4>1 DEF LoneInv, Streaming
    <3> QED
      BY <3>3, <3>4
  <2> QED
    BY <2>4, <2>5 DEF LoneInv
<1>15. Next \/ UNCHANGED vars
  OBVIOUS
<1> QED
  BY <1>1, <1>2, <1>3, <1>4, <1>5, <1>6, <1>7, <1>8, <1>10, <1>11, <1>12, <1>13, <1>14, <1>15
     DEF Next, Stores, Asks, Runs, Pumps

-----------------------------------------------------------------------------
(* Theorems *)

IInv ==
    /\ TInv /\ PlanInv /\ BusyInv
    /\ TextInv /\ RunsInv /\ AnswersInv /\ PeaceInv /\ LoneInv

LEMMA InitInv == Init => IInv
<1> SUFFICES ASSUME Init PROVE IInv
  OBVIOUS
<1>1. Requests \subseteq Callers /\ Nobody \notin Callers
  BY ChatAssumption DEF Callers
<1>2. \A c \in Callers : at[c] \in {"unused", "queued"} /\ run[c] = "none" /\ emitted[c] = 0
  BY DEF Init
<1>3. TInv
  BY InitTypes
<1>4. PlanInv
  BY DEF Init, PlanInv, PlanIsLatest, AtRest, Free
<1>5. BusyInv
  BY DEF Init, BusyInv, BusyIsReal, Free
<1>6. TextInv
  BY DEF Init, TextInv, AtRest, Free
<1>7. RunsInv
  BY <1>2 DEF RunsInv
<1>8. AnswersInv
  <2>1. \A q \in Requests : at[q] = "unused"
    BY <1>1 DEF Init
  <2> QED
    BY <2>1 DEF AnswersInv
<1>9. PeaceInv
  BY DEF Init, PeaceInv, Free
<1>10. LoneInv
  BY <1>1, <1>2 DEF Init, LoneInv, Live
<1> QED
  BY <1>3, <1>4, <1>5, <1>6, <1>7, <1>8, <1>9, <1>10 DEF IInv

LEMMA StepInv == IInv /\ [Next]_vars => IInv'
  BY StepTypes, PlanSteps, BusySteps, TextSteps, RunsSteps, AnswersSteps, PeaceSteps, LoneSteps
     DEF IInv

LEMMA Inductive == Spec => []IInv
  BY InitInv, StepInv, PTL DEF Spec

\* Every variable keeps its type, for any number of requests, results and
\* readers (runtime_service.py).
THEOREM TypeCorrect == Spec => []TypeOK
<1>1. IInv => TypeOK
  BY TypeParts DEF IInv
<1> QED
  BY <1>1, Inductive, PTL

\* A stream that has its thread for itself passes on what its run emits, all
\* of it, in order and nothing else (send_message_stream).
THEOREM StreamsAreExact == Spec => []LoneStreamIsExact
<1>1. IInv => LoneStreamIsExact
  BY LoneFollows DEF IInv
<1> QED
  BY <1>1, Inductive, PTL

\* No message is lost and every answer follows its question, unless a reader
\* put an older list back (_append_message, _load_conversation_from_disk).
THEOREM TranscriptKept == Spec => []TranscriptIsKept
<1>1. IInv => TranscriptIsKept
  BY TranscriptFollows DEF IInv
<1> QED
  BY <1>1, Inductive, PTL

\* The plan shown, and the one in its file, is that of the run stored last
\* (_capture_plan_snapshot, get_plan_snapshot).
THEOREM PlanShownIsLatest == Spec => []PlanIsLatest
<1>1. IInv => PlanIsLatest
  BY DEF IInv, PlanInv
<1> QED
  BY <1>1, Inductive, PTL

\* The leader is shown busy, or in error, for a reason (_set_role).
THEOREM BusyIsTrue == Spec => []BusyIsReal
<1>1. IInv => BusyIsReal
  BY DEF IInv, BusyInv
<1> QED
  BY <1>1, Inductive, PTL

\* When nothing is under way, the workers shown are those of the plan stored
\* last, and so is its answer (leader.plan, aggregate_node).
THEOREM WorkersShown == Spec => []WorkersMatchPlan
<1>1. IInv => WorkersMatchPlan
  BY WorkersFollow DEF IInv
<1> QED
  BY <1>1, Inductive, PTL
=============================================================================
