--------------------------- MODULE HookBusProofs ---------------------------
(***************************************************************************)
(* Proofs about HookBus for any set of events, any assignment of events to *)
(* threads and any number of reruns, failures, pump deaths and restarts.   *)
(***************************************************************************)
EXTENDS HookBus, TLAPS

\* Type correctness of the bus and the pump.
THEOREM TypeCorrect == Spec => []TypeOK
<1>1. Init => TypeOK
  BY LimitAssumption DEF Init, TypeOK, FileStates, PumpStates
<1>2. TypeOK /\ [Next]_vars => TypeOK'
  <2> SUFFICES ASSUME TypeOK, [Next]_vars PROVE TypeOK'
    OBVIOUS
  <2> USE LimitAssumption DEF TypeOK, FileStates, PumpStates, Threads
  <2>1. ASSUME NEW e \in Events, Push(e) PROVE TypeOK'
    BY <2>1 DEF Push, pumpVars, historyVars
  <2>2. ASSUME NEW e \in Events, Age(e) PROVE TypeOK'
    BY <2>2 DEF Age, pumpVars, historyVars
  <2>3. ASSUME NEW e \in Events, LeaderHandles(e) PROVE TypeOK'
    BY <2>3 DEF LeaderHandles, Once, busVars
  <2>14. ASSUME NEW e \in Events, RunsAgain(e) PROVE TypeOK'
    BY <2>14, LimitAssumption DEF RunsAgain, busVars
  <2>4. ASSUME NEW e \in Events, RunReturns(e) PROVE TypeOK'
    BY <2>4 DEF RunReturns, Advance, historyVars
  <2>5. ASSUME NEW e \in Events, RunFails(e) PROVE TypeOK'
    BY <2>5 DEF RunFails, Advance
  <2>6. ASSUME NEW t \in Threads, PopAll(t) PROVE TypeOK'
    BY <2>6 DEF PopAll, Recovered, historyVars
  <2>7. CASE Scan
    BY <2>7 DEF Scan, Recovered, historyVars
  <2>8. CASE PassEnds
    BY <2>8 DEF PassEnds, busVars, historyVars
  <2>9. CASE PumpDies
    BY <2>9 DEF PumpDies, DropPump, busVars
  <2>10. CASE EnsureHookPump
    BY <2>10 DEF EnsureHookPump, busVars, historyVars
  <2>11. CASE Stop
    <3>1. unsettled' \in SUBSET Events
      BY <2>11 DEF Stop, DropPump
    <3>2. /\ UNCHANGED <<file, torn, old, effects, wiped>>
          /\ pc' = "dead" /\ todo' = {} /\ batch' = {} /\ attempt' = 0
      BY <2>11 DEF Stop, DropPump, busVars
    <3>3. up' \in BOOLEAN
      BY <2>11 DEF Stop
    <3> QED
      BY <3>1, <3>2, <3>3
  <2>12. CASE Start
    BY <2>12 DEF Start, OnDisk
  <2>13. CASE UNCHANGED vars
    BY <2>13 DEF vars
  <2> QED
    BY <2>1, <2>2, <2>3, <2>4, <2>5, <2>6, <2>7, <2>8, <2>9, <2>10, <2>11,
       <2>12, <2>13, <2>14 DEF Next, PumpStep
<1> QED
  BY <1>1, <1>2, PTL DEF Spec

-----------------------------------------------------------------------------
(***************************************************************************)
(* The safety invariants.  None of the three is inductive alone: that      *)
(* nothing is lost or duplicated rests on the pump holding its claims on   *)
(* disk and on every effect being accounted for.                           *)
(***************************************************************************)
IInv ==
    /\ TypeOK
    /\ HeldIsClaimed
    /\ NoResultLost
    /\ DuplicateOnlyIfUnsettled
    /\ EffectsAccountedFor

\* The awaited event is unique: file names are totally ordered.
LEMMA CurrentUnique ==
    ASSUME NEW e \in Events, NEW f \in Events, Current(e), Current(f)
    PROVE  e = f
<1>1. e \in Nat /\ f \in Nat
  BY EventsAssumption
<1>2. e <= f /\ f <= e
  BY DEF Current
<1> QED
  BY <1>1, <1>2

\* The initial state satisfies the inductive invariant.
LEMMA InitInv == Init => IInv
BY LimitAssumption DEF Init, IInv, TypeOK, FileStates, PumpStates, HeldIsClaimed,
       NoResultLost, DuplicateOnlyIfUnsettled, EffectsAccountedFor, OnDisk, Current

\* Every step of the bus, the pump and the backend preserves it.
LEMMA NextInv == IInv /\ TypeOK' /\ [Next]_vars => IInv'
<1> SUFFICES ASSUME IInv, TypeOK', [Next]_vars PROVE IInv'
  OBVIOUS
<1> USE LimitAssumption DEF IInv, TypeOK, FileStates, PumpStates, Threads
<1> DEFINE Safe == /\ HeldIsClaimed
                   /\ NoResultLost
                   /\ DuplicateOnlyIfUnsettled
                   /\ EffectsAccountedFor
<1> USE DEF HeldIsClaimed, NoResultLost, DuplicateOnlyIfUnsettled,
            EffectsAccountedFor, OnDisk, Current
<1>1. ASSUME NEW e \in Events, Push(e) PROVE Safe'
  BY <1>1 DEF Push, pumpVars, historyVars
<1>2. ASSUME NEW e \in Events, Age(e) PROVE Safe'
  BY <1>2 DEF Age, pumpVars, historyVars
<1>3. ASSUME NEW e \in Events, LeaderHandles(e) PROVE Safe'
  BY <1>3, CurrentUnique DEF LeaderHandles, Once, busVars
<1>14. ASSUME NEW e \in Events, RunsAgain(e) PROVE Safe'
  BY <1>14, CurrentUnique DEF RunsAgain, busVars
<1>4. ASSUME NEW e \in Events, RunReturns(e) PROVE Safe'
  BY <1>4, CurrentUnique DEF RunReturns, Advance, historyVars
<1>5. ASSUME NEW e \in Events, RunFails(e) PROVE Safe'
  BY <1>5, CurrentUnique DEF RunFails, Advance
<1>6. ASSUME NEW t \in Threads, PopAll(t) PROVE Safe'
  BY <1>6 DEF PopAll, Recovered, historyVars
<1>7. CASE Scan
  BY <1>7 DEF Scan, Recovered, historyVars
<1>8. CASE PassEnds
  BY <1>8 DEF PassEnds, busVars, historyVars
<1>9. CASE PumpDies
  BY <1>9 DEF PumpDies, DropPump, busVars
<1>10. CASE EnsureHookPump
  BY <1>10 DEF EnsureHookPump, busVars, historyVars
<1>11. CASE Stop
  BY <1>11 DEF Stop, DropPump, busVars
<1>12. CASE Start
  BY <1>12 DEF Start
<1>13. CASE UNCHANGED vars
  BY <1>13 DEF vars
<1> QED
  BY <1>1, <1>2, <1>3, <1>4, <1>5, <1>6, <1>7, <1>8, <1>9, <1>10, <1>11,
     <1>12, <1>13, <1>14 DEF Next, PumpStep

\* The inductive invariant holds in every reachable state.
THEOREM Invariance == Spec => []IInv
<1>1. IInv /\ TypeOK' /\ [Next]_vars => IInv'
  BY NextInv
<1> QED
  BY <1>1, InitInv, TypeCorrect, PTL DEF Spec

\* No worker's result is lost within a backend lifetime.
THEOREM NothingLost == Spec => []NoResultLost
<1>1. IInv => NoResultLost
  BY DEF IInv
<1> QED
  BY <1>1, Invariance, PTL

\* The leader handles a result twice only if a run's ack was lost, or a run
\* began again on a locked database after the leader's step had been saved.
THEOREM NothingDuplicated == Spec => []DuplicateOnlyIfUnsettled
<1>1. IInv => DuplicateOnlyIfUnsettled
  BY DEF IInv
<1> QED
  BY <1>1, Invariance, PTL

\* Stale recovery never pulls a file away from the pump that holds it.
THEOREM ClaimsHeld == Spec => []HeldIsClaimed
<1>1. IInv => HeldIsClaimed
  BY DEF IInv
<1> QED
  BY <1>1, Invariance, PTL

-----------------------------------------------------------------------------
(***************************************************************************)
(* Refinement: the bus and its pump implement the at-least-once mailbox.   *)
(***************************************************************************)

\* Every step of the bus is a step of the mailbox or leaves it unchanged.
LEMMA StepRefines == IInv /\ IInv' /\ [Next]_vars => [Abstract!MailboxNext]_(Abstract!mailboxVars)
<1> SUFFICES ASSUME IInv, IInv', [Next]_vars
             PROVE  Abstract!MailboxNext \/ UNCHANGED Abstract!mailboxVars
  OBVIOUS
<1> USE DEF IInv, TypeOK, FileStates, PumpStates, Threads, HeldIsClaimed,
            EffectsAccountedFor, OnDisk, Current, MailboxState
<1>1. ASSUME NEW e \in Events, Push(e) PROVE Abstract!Send(e)
  BY <1>1 DEF Push, pumpVars, historyVars, Abstract!Send
<1>2. ASSUME NEW e \in Events, Age(e) PROVE UNCHANGED Abstract!mailboxVars
  BY <1>2 DEF Age, pumpVars, historyVars, Abstract!mailboxVars
<1>3. ASSUME NEW e \in Events, LeaderHandles(e) PROVE Abstract!Handle(e)
  BY <1>3 DEF LeaderHandles, Once, busVars, Abstract!Handle, Abstract!Once
<1>14. ASSUME NEW e \in Events, RunsAgain(e) PROVE UNCHANGED Abstract!mailboxVars
  BY <1>14 DEF RunsAgain, busVars, Abstract!mailboxVars
<1>4. ASSUME NEW e \in Events, RunReturns(e) PROVE Abstract!Settle(e)
  BY <1>4 DEF RunReturns, Advance, historyVars, Abstract!Settle
<1>5. ASSUME NEW e \in Events, RunFails(e) PROVE UNCHANGED Abstract!mailboxVars
  BY <1>5 DEF RunFails, Advance, Abstract!mailboxVars
<1>6. ASSUME NEW t \in Threads, PopAll(t) PROVE Abstract!Discard
  <2> DEFINE D == {e \in Events : /\ ThreadOf[e] = t
                                  /\ Recovered({t})[e] = "pending"
                                  /\ e \in torn}
  <2>1. D \in SUBSET {m \in torn : MailboxState(m) = "queued"}
    BY DEF Recovered
  <2> DEFINE box == [e \in Events |-> MailboxState(e)]
  <2>2. box' = [m \in Events |-> IF m \in D THEN "gone" ELSE box[m]]
    BY <1>6, <2>1 DEF PopAll, Recovered, historyVars
  <2>3. UNCHANGED <<effects, torn>>
    BY <1>6 DEF PopAll, historyVars
  <2>4. D \in SUBSET {m \in torn : box[m] = "queued"}
    BY <2>1
  <2> HIDE DEF D, MailboxState
  <2> QED
    BY <2>2, <2>3, <2>4 DEF Abstract!Discard
<1>7. CASE Scan
  BY <1>7 DEF Scan, Recovered, historyVars, Abstract!mailboxVars
<1>8. CASE PassEnds
  BY <1>8 DEF PassEnds, busVars, historyVars, Abstract!mailboxVars
<1>9. CASE PumpDies
  BY <1>9 DEF PumpDies, DropPump, busVars, Abstract!mailboxVars
<1>10. CASE EnsureHookPump
  BY <1>10 DEF EnsureHookPump, busVars, historyVars, Abstract!mailboxVars
<1>11. CASE Stop
  BY <1>11 DEF Stop, DropPump, busVars, Abstract!mailboxVars
<1>12. CASE Start
  BY <1>12 DEF Start, Abstract!Reset, Abstract!MailboxNext
<1>13. CASE UNCHANGED vars
  BY <1>13 DEF vars, Abstract!mailboxVars
<1> QED
  BY <1>1, <1>2, <1>3, <1>4, <1>5, <1>6, <1>7, <1>8, <1>9, <1>10, <1>11,
     <1>12, <1>13, <1>14 DEF Next, PumpStep, Abstract!MailboxNext

\* The hook bus, with its pump, its stale recovery and the restarts of the
\* backend, is an at-least-once mailbox.
THEOREM BusIsAMailbox == Spec => ImplementsMailbox
<1>1. Init => Abstract!MailboxInit
  BY DEF Init, Abstract!MailboxInit, MailboxState, OnDisk
<1> QED
  BY <1>1, StepRefines, Invariance, PTL DEF Spec, ImplementsMailbox, Abstract!MailboxSpec
=============================================================================
