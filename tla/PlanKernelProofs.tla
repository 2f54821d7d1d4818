-------------------------- MODULE PlanKernelProofs --------------------------
(***************************************************************************)
(* Proofs about PlanKernel for any number of worker calls, reasoning steps *)
(* and tasks.  The argument: the stored number is an upper bound of every  *)
(* id in use, in the plan and with the workers whose results are still to  *)
(* come, so a new item never takes an id that a result may still name.     *)
(* And what list_plan checks in the texts of plans of any length: what its *)
(* one pass has seen after each text, by induction over the plan.          *)
(***************************************************************************)
EXTENDS PlanKernel, FiniteSetTheorems, SequenceTheorems, WellFoundedInduction, TLAPS

\* The result of this worker may still be delivered.
Pending(j) ==
    \/ job[j].state = "running"
    \/ job[j].state \in {"completed", "failed"} /\ j \notin settled

\* The number bounds the id, or there is no number yet and the id is the
\* incident's.
Bounded(m, id) == IF m.number = Absent THEN id = 0 ELSE id <= m.number

\* In m, ids are distinct and below the number, only the incident's task is
\* 0 and only its id, and tasks are among those made.
GoodState(m) ==
    /\ Distinct(m.plan)
    /\ \A x \in m.plan : Bounded(m, x.id) /\ (x.id = 0 <=> x.task = 0)

\* A result of the jobs K that is still to come names its own task in m.
Agrees(m, K) ==
    \A j \in K :
        Pending(j) =>
            /\ Bounded(m, job[j].id)
            /\ \A x \in m.plan : x.id = job[j].id => x.task = job[j].task

\* The outcomes of m's items are their own.
OutcomesOwn(m) ==
    \A x \in m.plan :
        x.status \in {"completed", "failed"} =>
            \E j \in Jobs :
                /\ job[j].state = x.status
                /\ \/ job[j].task = x.task
                   \/ j \in stray /\ job[j].id = x.id

\* A thread the front does not resume has no run and no result to come.
UnknownIsQuiet ==
    ~known => phase = "idle" /\ \A j \in Jobs : ~Pending(j)

\* While a run may be repeated from a fresh state, every result to come is of
\* a worker it started itself, or of one that is stray already.
AfreshIsAlone ==
    afresh =>
        /\ phase # "idle" /\ input = {}
        /\ \A j \in Jobs : Pending(j) => j \in stray \cup started

\* The result a run delivers is not settled before the run ends.
ResultWaits ==
    \A j \in input :
        job[j].state \in {"completed", "failed"} /\ j \notin settled \cup started

\* After the save the checkpoint is what the run has in memory.
SavedIsMem == phase = "saved" => saved = mem

\* Only a worker of the incident's item works on the incident's task.
JobsNamed == \A j \in Jobs : job[j].id = 0 <=> job[j].task = 0

IdleIsEmpty == phase = "idle" => mem = Fresh /\ started = {} /\ input = {} /\ ~afresh

IInv ==
    /\ TypeOK /\ UnknownIsQuiet /\ IdleIsEmpty
    /\ AfreshIsAlone /\ ResultWaits /\ SavedIsMem
    /\ JobsNamed
    /\ GoodState(saved) /\ GoodState(mem)
    /\ Agrees(saved, Jobs \ (stray \cup started))
    /\ phase # "idle" => Agrees(mem, Jobs \ stray)
    /\ OutcomesOwn(saved) /\ OutcomesOwn(mem)

USE KernelAssumption

-----------------------------------------------------------------------------
(* The operators on plans *)

\* Moving items keeps everything but their status.
LEMMA MarkedItems ==
    ASSUME NEW plan, plan \subseteq Items, NEW id, NEW t \in Statuses
    PROVE  /\ Marked(plan, id, t) \subseteq Items
           /\ \A y \in Marked(plan, id, t) : \E x \in plan :
                 /\ y.id = x.id /\ y.task = x.task
                 /\ y = IF x.id = id THEN [x EXCEPT !.status = Transition(@, t)] ELSE x
  BY DEF Marked, Items, Transition

\* Moving items in a good state gives a good state.
LEMMA MarkedGood ==
    ASSUME NEW m \in States, GoodState(m), NEW id, NEW t \in Statuses
    PROVE  LET n == [m EXCEPT !.plan = Marked(@, id, t)]
           IN  n \in States /\ GoodState(n) /\ n.number = m.number
               /\ n.plan = Marked(m.plan, id, t)
<1> DEFINE n == [m EXCEPT !.plan = Marked(@, id, t)]
<1>1. n.number = m.number /\ n.plan = Marked(m.plan, id, t)
  BY DEF States
<1>2. n \in States
  BY <1>1, MarkedItems DEF States
<1>3. GoodState(n)
  <2>1. Distinct(n.plan)
    <3>1. SUFFICES ASSUME NEW x \in n.plan, NEW y \in n.plan, x.id = y.id
                   PROVE  x = y
      BY DEF Distinct
    <3>2. m.plan \subseteq Items
      BY DEF States
    <3>3. PICK v \in m.plan :
             x.id = v.id /\ x = IF v.id = id THEN [v EXCEPT !.status = Transition(@, t)] ELSE v
      BY <1>1, <3>2, MarkedItems
    <3>4. PICK w \in m.plan :
             y.id = w.id /\ y = IF w.id = id THEN [w EXCEPT !.status = Transition(@, t)] ELSE w
      BY <1>1, <3>2, MarkedItems
    <3>5. v = w
      BY <3>1, <3>3, <3>4 DEF GoodState, Distinct
    <3> QED
      BY <3>3, <3>4, <3>5
  <2>2. \A x \in n.plan : Bounded(n, x.id) /\ (x.id = 0 <=> x.task = 0)
    <3>1. ASSUME NEW y \in n.plan
          PROVE  \E x \in m.plan : y.id = x.id /\ y.task = x.task
      BY <1>1, <3>1, m.plan \subseteq Items, MarkedItems DEF States
    <3> QED
      BY ONLY <1>1, <3>1, GoodState(m) DEF GoodState, Bounded
  <2> QED
    BY <2>1, <2>2 DEF GoodState
<1> QED
  BY <1>1, <1>2, <1>3

\* The bases of the numbering are numbers and bound every id in use.
LEMMA Bases ==
    ASSUME NEW m \in States, GoodState(m)
    PROVE  /\ SetBase(m) \in Nat /\ AppendBase(m) \in Nat
           /\ \A id \in Nat : Bounded(m, id) => id <= SetBase(m) /\ id <= AppendBase(m)
<1>1. CASE m.number # Absent
  BY <1>1 DEF SetBase, AppendBase, Bounded, States
<1>2. CASE m.number = Absent
  <2>1. \A x, y \in m.plan : x = y
    BY <1>2 DEF GoodState, Distinct, Bounded
  <2>2. m.plan = {} \/ \E x : m.plan = {x}
    BY <2>1
  <2>3. Cardinality(m.plan) \in Nat
    <3>1. CASE m.plan = {}
      BY <3>1, FS_EmptySet
    <3>2. CASE \E x : m.plan = {x}
      <4>1. PICK x : m.plan = {x}
        BY <3>2
      <4>2. Cardinality({x}) = 1
        BY FS_Singleton
      <4> QED
        BY <4>1, <4>2
    <3> QED
      BY <2>2, <3>1, <3>2
  <2> QED
    BY <1>2, <2>3 DEF SetBase, AppendBase, Bounded
<1> QED
  BY <1>1, <1>2

\* New items are pending, distinct and numbered after the base.
LEMMA NewItemsFacts ==
    ASSUME NEW base \in Nat, NEW n \in Nat, made \in Nat
    PROVE  /\ NewItems(base, n) \subseteq Items
           /\ Distinct(NewItems(base, n))
           /\ \A x \in NewItems(base, n) :
                 /\ x.id > base /\ x.id <= base + n
                 /\ x.task > made
                 /\ x.status = "pending"
<1>1. \A k \in 1..n : [id |-> base + k, task |-> made + k, status |-> "pending"] \in Items
  BY DEF Items, Statuses
<1>2. NewItems(base, n) \subseteq Items
  BY <1>1 DEF NewItems
<1>3. Distinct(NewItems(base, n))
  BY DEF NewItems, Distinct
<1>4. \A x \in NewItems(base, n) :
         x.id > base /\ x.id <= base + n /\ x.task > made /\ x.status = "pending"
  BY DEF NewItems
<1> QED
  BY <1>2, <1>3, <1>4

-----------------------------------------------------------------------------
(* Initial states *)

\* The fresh thread satisfies the invariant.
LEMMA InitInv == Init => IInv
<1> SUFFICES ASSUME Init PROVE IInv
  OBVIOUS
<1> USE DEF Init
<1>1. TypeOK
  <2>1. Fresh \in States
    BY DEF States, Fresh
  <2>2. job \in [Jobs -> [state : JobStates, id : Nat, task : Nat]]
    BY DEF JobStates, Unused
  <2>3. steps \in 0..MaxSteps /\ made \in 0..MaxTasks
    OBVIOUS
  <2>4. saved \in States /\ mem \in States
    BY <2>1
  <2> QED
    BY <2>2, <2>3, <2>4, ZenonT(30) DEF TypeOK
<1>2. \A j \in Jobs : ~Pending(j) /\ job[j].id = 0 /\ job[j].task = 0
  BY DEF Pending, Unused
<1>3. GoodState(saved) /\ GoodState(mem)
  BY DEF GoodState, Distinct, Fresh
<1>4. OutcomesOwn(saved) /\ OutcomesOwn(mem)
  BY DEF OutcomesOwn, Fresh
<1>5. Agrees(saved, Jobs \ (stray \cup started))
  BY <1>2 DEF Agrees
<1> QED
  BY <1>1, <1>2, <1>3, <1>4, <1>5
     DEF IInv, UnknownIsQuiet, IdleIsEmpty, JobsNamed, AfreshIsAlone, ResultWaits, SavedIsMem

-----------------------------------------------------------------------------
(* One lemma per group of actions *)

\* The front begins with the checkpoint or with a fresh state.
LEMMA FrontInv == IInv /\ (FrontResumes \/ FrontStartsAfresh) => IInv'
<1> USE DEF IInv, StartLeader
<1>1. ASSUME IInv, FrontResumes PROVE IInv'
  <2> USE <1>1 DEF FrontResumes
  <2>1. TypeOK'
    <3>1. afresh' \in BOOLEAN
      OBVIOUS
    <3> QED
      BY <3>1 DEF TypeOK
  <2>2. \A j \in Jobs : Pending(j)' <=> Pending(j)
    BY DEF Pending
  <2>3. UnknownIsQuiet' /\ IdleIsEmpty' /\ JobsNamed'
    BY DEF UnknownIsQuiet, IdleIsEmpty, JobsNamed
  <2>6. AfreshIsAlone' /\ ResultWaits' /\ SavedIsMem'
    BY <2>2 DEF AfreshIsAlone, ResultWaits, SavedIsMem, IdleIsEmpty
  <2>4. GoodState(saved)' /\ GoodState(mem)' /\ OutcomesOwn(saved)' /\ OutcomesOwn(mem)'
    BY DEF GoodState, Distinct, Bounded, OutcomesOwn
  <2>5. Agrees(saved, Jobs \ (stray \cup started))' /\ Agrees(mem, Jobs \ stray)'
    BY <2>2 DEF Agrees, Bounded, IdleIsEmpty
  <2> QED
    BY <2>1, <2>3, <2>4, <2>5, <2>6
<1>2. ASSUME IInv, FrontStartsAfresh PROVE IInv'
  <2> USE <1>2 DEF FrontStartsAfresh
  <2>1. TypeOK'
    <3>1. afresh' \in BOOLEAN /\ known' \in BOOLEAN
      OBVIOUS
    <3> QED
      BY <3>1 DEF TypeOK, States, Fresh
  <2>2. \A j \in Jobs : ~Pending(j)'
    BY DEF Pending, UnknownIsQuiet
  <2>3. UnknownIsQuiet' /\ IdleIsEmpty' /\ JobsNamed'
    BY DEF UnknownIsQuiet, IdleIsEmpty, JobsNamed
  <2>6. AfreshIsAlone' /\ ResultWaits' /\ SavedIsMem'
    BY <2>2 DEF AfreshIsAlone, ResultWaits, SavedIsMem, IdleIsEmpty
  <2>4. GoodState(saved)' /\ GoodState(mem)' /\ OutcomesOwn(saved)' /\ OutcomesOwn(mem)'
    BY DEF GoodState, Distinct, OutcomesOwn, Fresh
  <2>5. Agrees(saved, Jobs \ (stray \cup started))' /\ Agrees(mem, Jobs \ stray)'
    BY <2>2 DEF Agrees
  <2> QED
    BY <2>1, <2>3, <2>4, <2>5, <2>6
<1> QED
  BY <1>1, <1>2

\* A delivered result moves the items of its id: they hold its task, or its
\* worker was started by a run that was never saved or began again.
LEMMA ResultFacts ==
    ASSUME TypeOK, NEW m \in States, GoodState(m), OutcomesOwn(m), NEW K, Agrees(m, K),
           NEW k \in Jobs, job[k].state \in {"completed", "failed"}, k \notin settled,
           k \in K \cup stray
    PROVE  LET n == WithResult(m, k)
           IN  n \in States /\ GoodState(n) /\ OutcomesOwn(n) /\ Agrees(n, K)
<1> DEFINE t == job[k].state
           n == WithResult(m, k)
<1>1. t \in Statuses
  BY DEF Statuses
<1>2. n \in States /\ GoodState(n) /\ n.number = m.number
      /\ n.plan = Marked(m.plan, job[k].id, t)
  BY <1>1, MarkedGood DEF WithResult
<1>3. \A y \in n.plan : \E x \in m.plan :
         /\ y.id = x.id /\ y.task = x.task
         /\ y = IF x.id = job[k].id THEN [x EXCEPT !.status = Transition(@, t)] ELSE x
  <2>1. m.plan \subseteq Items
    BY DEF States
  <2>2. \A y \in Marked(m.plan, job[k].id, t) : \E x \in m.plan :
           /\ y.id = x.id /\ y.task = x.task
           /\ y = IF x.id = job[k].id THEN [x EXCEPT !.status = Transition(@, t)] ELSE x
    BY ONLY <1>1, <2>1, MarkedItems, KernelAssumption
  <2> QED
    BY ONLY <1>2, <2>2
<1> HIDE DEF n
<1>4. Agrees(n, K)
  BY <1>2, <1>3 DEF Agrees, Bounded
<1>5. OutcomesOwn(n)
  <2>1. SUFFICES ASSUME NEW y \in n.plan, y.status \in {"completed", "failed"}
                 PROVE  \E j \in Jobs :
                            /\ job[j].state = y.status
                            /\ \/ job[j].task = y.task
                               \/ j \in stray /\ job[j].id = y.id
    BY DEF OutcomesOwn
  <2>2. PICK x \in m.plan :
           /\ y.id = x.id /\ y.task = x.task
           /\ y = IF x.id = job[k].id THEN [x EXCEPT !.status = Transition(@, t)] ELSE x
    BY <1>3
  <2>3. CASE x.id = job[k].id /\ t \in Allowed(x.status)
    <3>1. y.status = t
      BY <2>2, <2>3, <1>1 DEF States, Items, Transition
    <3>2. k \in stray \/ job[k].task = x.task
      BY <2>3 DEF Agrees, Pending
    <3> QED
      BY <3>1, <3>2, <2>2, <2>3
  <2>4. CASE ~(x.id = job[k].id /\ t \in Allowed(x.status))
    <3>1. y.status = x.status
      BY <2>2, <2>4, <1>1 DEF States, Items, Transition
    <3> QED
      BY <2>1, <2>2, <3>1 DEF OutcomesOwn
  <2> QED
    BY <2>3, <2>4
<1> QED
  BY <1>2, <1>4, <1>5 DEF n

LEMMA DeliverInv == ASSUME NEW k \in Jobs PROVE IInv /\ Deliver(k) => IInv'
<1> SUFFICES ASSUME IInv, Deliver(k) PROVE IInv'
  OBVIOUS
<1> USE DEF IInv, Deliver, StartLeader
<1> DEFINE n == WithResult(saved, k)
<1>1. started = {} /\ Agrees(saved, Jobs \ stray)
  BY DEF IdleIsEmpty
<1>2. n \in States /\ GoodState(n) /\ OutcomesOwn(n) /\ Agrees(n, Jobs \ stray)
  BY <1>1, ResultFacts DEF TypeOK
<1> HIDE DEF n
<1>3. /\ mem' = n /\ saved' = saved /\ job' = job /\ started' = {} /\ stray' = stray
      /\ settled' = settled /\ phase' = "leader" /\ afresh' = FALSE /\ input' = {k}
  BY DEF n
<1>4. TypeOK'
  <2>1. afresh' \in BOOLEAN
    BY <1>3
  <2> QED
    BY <1>2, <1>3, <2>1 DEF TypeOK
<1>5. \A j \in Jobs : Pending(j)' <=> Pending(j)
  BY <1>3 DEF Pending
<1>6. UnknownIsQuiet' /\ IdleIsEmpty' /\ JobsNamed'
  BY <1>3, <1>5 DEF UnknownIsQuiet, IdleIsEmpty, JobsNamed, Pending
<1>7. AfreshIsAlone' /\ ResultWaits' /\ SavedIsMem'
  BY <1>3 DEF AfreshIsAlone, ResultWaits, SavedIsMem
<1>8. GoodState(saved)' /\ GoodState(mem)' /\ OutcomesOwn(saved)' /\ OutcomesOwn(mem)'
  BY <1>2, <1>3 DEF GoodState, OutcomesOwn, Bounded
<1>9. Agrees(saved, Jobs \ (stray \cup started))' /\ Agrees(mem, Jobs \ stray)'
  BY <1>1, <1>2, <1>3, <1>5 DEF Agrees, Bounded
<1> QED
  BY <1>4, <1>6, <1>7, <1>8, <1>9

\* A job that was unused and now runs is no one's outcome.
LEMMA OutcomesKept ==
    ASSUME TypeOK, NEW k \in Jobs, NEW v,
           job[k].state \notin {"completed", "failed"},
           job' = [job EXCEPT ![k] = v], stray' = stray, NEW m, OutcomesOwn(m)
    PROVE  \A x \in m.plan :
             x.status \in {"completed", "failed"} =>
                 \E j \in Jobs :
                     /\ job'[j].state = x.status
                     /\ \/ job'[j].task = x.task
                        \/ j \in stray' /\ job'[j].id = x.id
<1> SUFFICES ASSUME NEW x \in m.plan, x.status \in {"completed", "failed"}
             PROVE  \E j \in Jobs :
                       /\ job'[j].state = x.status
                       /\ \/ job'[j].task = x.task
                          \/ j \in stray' /\ job'[j].id = x.id
  OBVIOUS
<1>1. PICK j \in Jobs :
         /\ job[j].state = x.status
         /\ \/ job[j].task = x.task
            \/ j \in stray /\ job[j].id = x.id
  BY DEF OutcomesOwn
<1>2. j # k /\ job'[j] = job[j]
  BY <1>1 DEF TypeOK
<1> QED
  BY <1>1, <1>2

\* The incident's item is the only one with id 0 and with task 0.
LEMMA IncidentInv == IInv /\ IncidentStep => IInv'
<1> SUFFICES ASSUME IInv, IncidentStep PROVE IInv'
  OBVIOUS
<1> USE DEF IInv
<1> DEFINE others == {x \in mem.plan : x.id # 0}
           With(plan) == [mem EXCEPT !.plan = plan]
<1>1. /\ phase = "leader" /\ phase' = "stepped" /\ incident /\ input = {}
      /\ UNCHANGED <<incident, known, saved, afresh, steps, input, settled, stray, made>>
  BY DEF IncidentStep
<1>2. /\ mem \in States /\ Agrees(mem, Jobs \ stray)
      /\ Agrees(saved, Jobs \ (stray \cup started))
  BY <1>1 DEF TypeOK
<1>3. ASSUME NEW s \in {"pending", "in_progress"}
      PROVE  LET n == With(others \cup {IncidentItem(s)})
             IN  n \in States /\ GoodState(n) /\ OutcomesOwn(n) /\ n.number = mem.number
                 /\ n.plan = others \cup {IncidentItem(s)}
  <2> DEFINE n == With(others \cup {IncidentItem(s)})
  <2>1. IncidentItem(s) \in Items /\ IncidentItem(s).id = 0 /\ IncidentItem(s).task = 0
        /\ IncidentItem(s).status = s
    BY DEF IncidentItem, Items, Statuses
  <2>2. n.number = mem.number /\ n.plan = others \cup {IncidentItem(s)}
    BY <1>2 DEF States
  <2>3. n \in States
    BY <1>2, <2>1 DEF States
  <2>4. Bounded(n, 0)
    BY <2>3 DEF Bounded, States
  <2>5. GoodState(n)
    BY <2>1, <2>2, <2>4 DEF GoodState, Distinct, Bounded
  <2>6. OutcomesOwn(n)
    BY <2>1, <2>2 DEF OutcomesOwn
  <2> QED
    BY <2>2, <2>3, <2>5, <2>6
<1>4. CASE job' = job /\ started' = started
           /\ \/ mem' = With(others \cup {IncidentItem("pending")})
              \/ mem' = mem
  <2>1. /\ mem' \in States /\ GoodState(mem') /\ OutcomesOwn(mem')
        /\ mem'.number = mem.number
        /\ mem'.plan \subseteq mem.plan \cup {IncidentItem("pending")}
    <3>1. CASE mem' = With(others \cup {IncidentItem("pending")})
      BY <1>3, <3>1
    <3>2. CASE mem' = mem
      BY <3>2, <1>2
    <3> QED
      BY <1>4, <3>1, <3>2
  <2>2. TypeOK'
    BY <1>1, <1>4, <2>1 DEF TypeOK
  <2>3. \A j \in Jobs : Pending(j)' <=> Pending(j)
    BY <1>1, <1>4 DEF Pending
  <2>4. Agrees(saved, Jobs \ (stray \cup started))'
    BY <1>1, <1>2, <1>4, <2>3 DEF Agrees, Bounded
  <2>5. Agrees(mem, Jobs \ stray)'
    BY <1>1, <1>2, <1>4, <2>1, <2>3 DEF Agrees, Bounded, IncidentItem, JobsNamed, TypeOK
  <2>6. GoodState(saved)' /\ OutcomesOwn(saved)' /\ GoodState(mem)' /\ OutcomesOwn(mem)'
    BY <1>1, <1>4, <2>1 DEF GoodState, OutcomesOwn, Bounded
  <2>7. UnknownIsQuiet' /\ IdleIsEmpty' /\ JobsNamed'
    BY <1>1, <1>4, <2>3 DEF UnknownIsQuiet, IdleIsEmpty, JobsNamed
  <2>8. AfreshIsAlone' /\ ResultWaits' /\ SavedIsMem'
    BY <1>1, <1>4, <2>3 DEF AfreshIsAlone, ResultWaits, SavedIsMem
  <2> QED
    BY <2>2, <2>4, <2>5, <2>6, <2>7, <2>8
<1>5. ASSUME NEW k \in Jobs, Started(k, 0, 0),
             mem' = With(others \cup {IncidentItem("in_progress")})
      PROVE  IInv'
  <2>1. /\ mem' \in States /\ GoodState(mem') /\ OutcomesOwn(mem')
        /\ mem'.number = mem.number
        /\ mem'.plan \subseteq mem.plan \cup {IncidentItem("in_progress")}
    BY <1>3, <1>5
  <2>2. /\ job' = [job EXCEPT ![k] = [state |-> "running", id |-> 0, task |-> 0]]
        /\ job[k].state = "unused" /\ started' = started \cup {k}
    BY <1>1, <1>5 DEF Started
  <2>3. TypeOK'
    BY <1>1, <2>1, <2>2 DEF TypeOK, JobStates
  <2>4. \A j \in Jobs : j # k => job'[j] = job[j] /\ (Pending(j)' <=> Pending(j))
    BY <1>1, <2>2 DEF Pending, TypeOK
  <2>5. job'[k].id = 0 /\ job'[k].task = 0
    BY <2>2 DEF TypeOK
  <2>6. Agrees(saved, Jobs \ (stray \cup started))'
    BY <1>1, <1>2, <2>2, <2>4 DEF Agrees, Bounded
  <2>7. Agrees(mem, Jobs \ stray)'
    <3>1. \A x \in mem'.plan : x.id = 0 <=> x.task = 0
      BY <2>1 DEF GoodState
    <3>2. Bounded(mem', 0)
      BY <2>1 DEF Bounded, States
    <3> QED
      BY <1>1, <1>2, <2>1, <2>4, <2>5, <3>1, <3>2
         DEF Agrees, Bounded, IncidentItem, JobsNamed
  <2>8. GoodState(saved)' /\ GoodState(mem)'
    BY <1>1, <2>1 DEF GoodState, Bounded
  <2>9. OutcomesOwn(saved)' /\ OutcomesOwn(mem)'
    BY <1>1, <2>1, <2>2, OutcomesKept DEF OutcomesOwn
  <2>10. UnknownIsQuiet' /\ IdleIsEmpty' /\ JobsNamed'
    BY <1>1, <2>2, <2>4, <2>5 DEF UnknownIsQuiet, IdleIsEmpty, JobsNamed
  <2>11. AfreshIsAlone' /\ ResultWaits' /\ SavedIsMem'
    BY <1>1, <2>2, <2>4 DEF AfreshIsAlone, ResultWaits, SavedIsMem
  <2> QED
    BY <2>3, <2>6, <2>7, <2>8, <2>9, <2>10, <2>11
<1> QED
  BY <1>4, <1>5, <1>1 DEF IncidentStep

\* New items come after every id in use.
LEMMA PlanInv ==
    ASSUME NEW n \in 1..MaxBatch
    PROVE  IInv /\ (SetPlan(n) \/ AppendPlan(n)) => IInv'
<1> SUFFICES ASSUME IInv, SetPlan(n) \/ AppendPlan(n) PROVE IInv'
  OBVIOUS
<1> USE DEF IInv
<1>1. /\ phase = "leader" /\ steps < MaxSteps /\ steps' = steps + 1
      /\ UNCHANGED <<incident, known, saved, phase, afresh, input, settled, stray,
                     started, job>>
      /\ made + n <= MaxTasks /\ made' = made + n
  BY DEF SetPlan, AppendPlan, Reasons, Planning
<1>2. PICK base \in Nat :
         /\ \A id \in Nat : Bounded(mem, id) => id <= base
         /\ mem'.number = base + n
         /\ mem' = [plan |-> mem'.plan, number |-> mem'.number]
         /\ \/ mem'.plan = NewItems(base, n)
            \/ mem'.plan = mem.plan \cup NewItems(base, n)
  BY Bases DEF TypeOK, SetPlan, AppendPlan
<1> DEFINE new == NewItems(base, n)
<1>3. /\ new \subseteq Items /\ Distinct(new)
      /\ \A x \in new : /\ x.id > base /\ x.id <= base + n /\ x.task > made
                       /\ x.status = "pending"
  BY NewItemsFacts DEF TypeOK
<1> HIDE DEF new
<1>4. mem.plan \subseteq Items /\ mem'.plan \subseteq mem.plan \cup new
  BY <1>2 DEF TypeOK, States, new
<1>5. mem' \in States
  BY <1>2, <1>3, <1>4 DEF States
<1>6. TypeOK'
  BY <1>1, <1>5 DEF TypeOK
<1>7. \A x \in mem.plan : x.id \in Nat /\ x.id <= base /\ Bounded(mem', x.id)
  <2>1. \A x \in mem.plan : x.id \in Nat /\ x.id <= base
    BY <1>2, <1>4 DEF GoodState, Items
  <2> QED
    BY <1>2, <2>1 DEF Bounded, Absent
<1>8. GoodState(mem)'
  <2>1. Distinct(mem'.plan)
    <3>1. \A x \in mem.plan, y \in new : x.id # y.id
      BY <1>3, <1>4, <1>7 DEF Items
    <3> QED
      BY <1>3, <1>4, <3>1 DEF Distinct, GoodState
  <2>2. \A x \in new : Bounded(mem', x.id) /\ x.id # 0 /\ x.task # 0
    BY <1>2, <1>3 DEF Bounded, Absent, Items, TypeOK
  <2>3. \A x \in mem'.plan : Bounded(mem', x.id) /\ (x.id = 0 <=> x.task = 0)
    BY <1>4, <1>7, <2>2 DEF GoodState
  <2> QED
    BY <2>1, <2>3 DEF GoodState, Bounded
<1>9. \A j \in Jobs : Pending(j)' <=> Pending(j)
  BY <1>1 DEF Pending
<1>10. Agrees(mem, Jobs \ stray)'
  <2>1. ASSUME NEW j \in Jobs \ stray, Pending(j)
        PROVE  /\ Bounded(mem', job[j].id)
               /\ \A x \in mem'.plan : x.id = job[j].id => x.task = job[j].task
    <3>1. job[j].id \in Nat /\ Bounded(mem, job[j].id)
          /\ \A x \in mem.plan : x.id = job[j].id => x.task = job[j].task
      BY <1>1, <2>1 DEF Agrees, TypeOK
    <3>2. job[j].id <= base
      BY <1>2, <3>1
    <3>3. Bounded(mem', job[j].id)
      BY <1>2, <3>1, <3>2 DEF Bounded, Absent
    <3>4. \A x \in new : x.id # job[j].id
      BY <1>3, <3>1, <3>2 DEF Items
    <3> QED
      BY <1>4, <3>1, <3>3, <3>4
  <2> QED
    BY <1>1, <1>9, <2>1 DEF Agrees, Bounded
<1>11. OutcomesOwn(mem)'
  BY <1>1, <1>3, <1>4 DEF OutcomesOwn
<1>12. GoodState(saved)' /\ OutcomesOwn(saved)'
       /\ Agrees(saved, Jobs \ (stray \cup started))'
  BY <1>1, <1>9 DEF GoodState, OutcomesOwn, Agrees, Bounded
<1>13. UnknownIsQuiet' /\ IdleIsEmpty' /\ JobsNamed'
  BY <1>1, <1>9 DEF UnknownIsQuiet, IdleIsEmpty, JobsNamed
<1>14. AfreshIsAlone' /\ ResultWaits' /\ SavedIsMem'
  BY <1>1, <1>9 DEF AfreshIsAlone, ResultWaits, SavedIsMem
<1> QED
  BY <1>6, <1>8, <1>10, <1>11, <1>12, <1>13, <1>14

\* A worker is called for the task of an item of the plan.
LEMMA CallInv ==
    ASSUME NEW i \in mem.plan
    PROVE  IInv /\ CallWorker(i) => IInv'
<1> SUFFICES ASSUME IInv, CallWorker(i) PROVE IInv'
  OBVIOUS
<1> USE DEF IInv
<1> DEFINE n == [mem EXCEPT !.plan = Marked(@, i.id, "in_progress")]
<1>1. PICK k \in Jobs : Started(k, i.id, i.task)
  BY DEF CallWorker
<1>2. /\ phase = "leader" /\ steps < MaxSteps /\ steps' = steps + 1
      /\ UNCHANGED <<incident, known, saved, phase, afresh, input, settled, stray, made>>
      /\ started' = started \cup {k}
      /\ job' = [job EXCEPT ![k] = [state |-> "running", id |-> i.id, task |-> i.task]]
      /\ job[k].state = "unused"
      /\ mem' = n
  BY <1>1 DEF CallWorker, Reasons, Planning, Started
<1>3. mem \in States /\ "in_progress" \in Statuses /\ mem.plan \subseteq Items
  BY DEF TypeOK, States, Statuses
<1>4. n \in States /\ GoodState(n) /\ n.number = mem.number
      /\ n.plan = Marked(mem.plan, i.id, "in_progress")
  BY <1>3, MarkedGood
<1> HIDE DEF n
<1>5. \A y \in n.plan : \E x \in mem.plan :
         /\ y.id = x.id /\ y.task = x.task
         /\ y.status = x.status \/ y.status = "in_progress"
  <2>1. \A y \in Marked(mem.plan, i.id, "in_progress") : \E x \in mem.plan :
           /\ y.id = x.id /\ y.task = x.task
           /\ y.status = x.status \/ y.status = "in_progress"
    BY <1>3 DEF Marked, Items, Transition
  <2> QED
    BY <1>4, <2>1
<1>6. i.id \in Nat /\ i.task \in Nat /\ Bounded(mem, i.id) /\ (i.id = 0 <=> i.task = 0)
  BY <1>3 DEF GoodState, Items
<1>7. TypeOK'
  BY <1>2, <1>4, <1>6 DEF TypeOK, JobStates
<1>8. /\ \A j \in Jobs : j # k => job'[j] = job[j] /\ (Pending(j)' <=> Pending(j))
      /\ job'[k].id = i.id /\ job'[k].task = i.task
  BY <1>2 DEF Pending, TypeOK
<1>9. Agrees(mem, Jobs \ stray)'
  <2>1. ASSUME NEW j \in Jobs \ stray, Pending(j)', j # k
        PROVE  /\ Bounded(n, job'[j].id)
               /\ \A y \in n.plan : y.id = job'[j].id => y.task = job'[j].task
    BY <1>2, <1>4, <1>5, <1>8, <2>1 DEF Agrees, Bounded
  <2>2. /\ Bounded(n, job'[k].id)
        /\ \A y \in n.plan : y.id = job'[k].id => y.task = job'[k].task
    BY <1>4, <1>5, <1>6, <1>8 DEF Bounded, GoodState, Distinct
  <2> QED
    BY <1>2, <2>1, <2>2 DEF Agrees, Bounded
<1>10. Agrees(saved, Jobs \ (stray \cup started))'
  BY <1>2, <1>8 DEF Agrees, Bounded
<1>11. GoodState(saved)' /\ GoodState(mem)'
  BY <1>2, <1>4 DEF GoodState, Bounded
<1>12. OutcomesOwn(saved)'
  BY <1>2, OutcomesKept DEF OutcomesOwn
<1>13. OutcomesOwn(mem)'
  <2>1. OutcomesOwn(n)
    BY <1>5 DEF OutcomesOwn
  <2> QED
    BY <1>2, <2>1, OutcomesKept DEF OutcomesOwn
<1>14. UnknownIsQuiet' /\ IdleIsEmpty' /\ JobsNamed'
  BY <1>2, <1>6, <1>8 DEF UnknownIsQuiet, IdleIsEmpty, JobsNamed
<1>15. AfreshIsAlone' /\ ResultWaits' /\ SavedIsMem'
  BY <1>2, <1>8 DEF AfreshIsAlone, ResultWaits, SavedIsMem
<1> QED
  BY <1>7, <1>9, <1>10, <1>11, <1>12, <1>13, <1>14, <1>15

\* Steps of a run that leave the plan alone, its save, and the end of runs.
LEMMA RunInv ==
    IInv /\ (ChangesNothing \/ Finish \/ SaveStep \/ RunEnds \/ RunFails) => IInv'
<1> SUFFICES ASSUME IInv, ChangesNothing \/ Finish \/ SaveStep \/ RunEnds \/ RunFails
             PROVE  IInv'
  OBVIOUS
<1> USE DEF IInv, Idle
<1>1. Fresh \in States /\ GoodState(Fresh) /\ OutcomesOwn(Fresh)
  BY DEF Fresh, States, GoodState, Distinct, OutcomesOwn
<1>2. job' = job /\ settled \subseteq settled'
  BY DEF ChangesNothing, Reasons, Finish, SaveStep, RunEnds, RunFails
<1>3. \A j \in Jobs : Pending(j)' => Pending(j)
  BY <1>2 DEF Pending
<1>4. JobsNamed'
  BY <1>2 DEF JobsNamed
<1>5. CASE ChangesNothing \/ Finish
  <2>1. /\ UNCHANGED <<known, saved, mem, afresh, input, started, settled, stray>>
        /\ phase = "leader" /\ phase' \in {"leader", "stepped"}
    BY <1>5 DEF ChangesNothing, Reasons, Finish, Planning
  <2>2. TypeOK'
    BY <1>2, <1>5 DEF TypeOK, ChangesNothing, Reasons, Finish
  <2>3. UnknownIsQuiet' /\ IdleIsEmpty' /\ AfreshIsAlone' /\ ResultWaits' /\ SavedIsMem'
    BY <1>2, <1>3, <2>1
       DEF UnknownIsQuiet, IdleIsEmpty, AfreshIsAlone, ResultWaits, SavedIsMem
  <2> QED
    BY <1>2, <1>3, <1>4, <2>1, <2>2, <2>3 DEF GoodState, OutcomesOwn, Agrees, Bounded
<1>6. CASE SaveStep
  <2>1. /\ UNCHANGED <<known, mem, afresh, input, started, settled, stray>>
        /\ saved' = mem /\ phase = "stepped" /\ phase' = "saved"
    BY <1>6 DEF SaveStep
  <2>2. TypeOK'
    BY <1>2, <1>6 DEF TypeOK, SaveStep
  <2>3. UnknownIsQuiet' /\ IdleIsEmpty' /\ AfreshIsAlone' /\ ResultWaits' /\ SavedIsMem'
    BY <1>2, <1>3, <2>1
       DEF UnknownIsQuiet, IdleIsEmpty, AfreshIsAlone, ResultWaits, SavedIsMem
  <2> QED
    BY <1>2, <1>3, <1>4, <2>1, <2>2, <2>3 DEF GoodState, OutcomesOwn, Agrees, Bounded
<1>7. CASE RunEnds \/ RunFails
  <2>1. /\ saved' = saved /\ mem' = Fresh /\ phase' = "idle" /\ started' = {}
        /\ input' = {} /\ afresh' = FALSE /\ known' = known /\ phase # "idle"
        /\ stray \subseteq stray'
        /\ phase = "saved" \/ stray' = stray \cup started
    BY <1>7 DEF RunEnds, RunFails
  <2>2. TypeOK'
    <3>1. afresh' \in BOOLEAN
      BY <2>1
    <3> QED
      BY <1>1, <1>2, <1>7, <3>1 DEF TypeOK, RunEnds, RunFails
  <2>3. UnknownIsQuiet' /\ IdleIsEmpty' /\ AfreshIsAlone' /\ ResultWaits' /\ SavedIsMem'
    BY <1>2, <1>3, <2>1
       DEF UnknownIsQuiet, IdleIsEmpty, AfreshIsAlone, ResultWaits, SavedIsMem
  <2>4. Agrees(saved, Jobs \ stray')
    BY <2>1 DEF Agrees, SavedIsMem
  <2> QED
    BY <1>1, <1>2, <1>3, <1>4, <2>1, <2>2, <2>3, <2>4
       DEF GoodState, OutcomesOwn, Agrees, Bounded
<1> QED
  BY <1>5, <1>6, <1>7

\* A repeated input: what is lost by it was started by the run itself.
LEMMA AgainInv == IInv /\ RunsAgain => IInv'
<1> SUFFICES ASSUME IInv, RunsAgain PROVE IInv'
  OBVIOUS
<1> USE DEF IInv
<1> DEFINE m == IF afresh THEN Fresh ELSE saved
<1>1. /\ phase \in {"stepped", "saved"} /\ phase' = "leader" /\ steps' = 0 /\ started' = {}
      /\ saved' = m
      /\ mem' \in IF input = {} THEN {m} ELSE {WithResult(m, j) : j \in input}
      /\ stray' = IF afresh \/ phase = "stepped" THEN stray \cup started ELSE stray
      /\ UNCHANGED <<incident, known, afresh, input, job, settled, made>>
  BY DEF RunsAgain
<1>2. \A j \in Jobs : Pending(j)' <=> Pending(j)
  BY <1>1 DEF Pending
<1>3. m \in States /\ GoodState(m) /\ OutcomesOwn(m)
  BY DEF TypeOK, Fresh, States, GoodState, Distinct, OutcomesOwn
<1>4. Agrees(m, Jobs \ stray')
  <2>1. CASE afresh
    <3>1. \A j \in Jobs \ stray' : ~Pending(j)
      BY <1>1, <2>1 DEF AfreshIsAlone
    <3> QED
      BY <3>1 DEF Agrees
  <2>2. CASE ~afresh
    BY <1>1, <2>2 DEF Agrees, SavedIsMem
  <2> QED
    BY <2>1, <2>2
<1>5. afresh => m = Fresh /\ input = {}
  BY DEF AfreshIsAlone
<1> HIDE DEF m
<1>6. /\ mem' \in States /\ GoodState(mem') /\ Agrees(mem', Jobs \ stray')
      /\ OutcomesOwn(mem)'
  <2>1. CASE input = {}
    <3>1. mem' = m
      BY <1>1, <2>1
    <3> QED
      BY <1>1, <1>3, <1>4, <3>1 DEF OutcomesOwn
  <2>2. ASSUME NEW j \in input, mem' = WithResult(m, j)
        PROVE  /\ mem' \in States /\ GoodState(mem') /\ Agrees(mem', Jobs \ stray')
               /\ OutcomesOwn(mem)'
    <3>1. /\ j \in Jobs /\ job[j].state \in {"completed", "failed"} /\ j \notin settled
          /\ j \in (Jobs \ stray') \cup stray
      BY <1>1 DEF TypeOK, ResultWaits
    <3>2. /\ mem' \in States /\ GoodState(mem') /\ OutcomesOwn(mem')
          /\ Agrees(mem', Jobs \ stray')
      BY <1>3, <1>4, <2>2, <3>1, ResultFacts
    <3>3. OutcomesOwn(mem)'
      BY <1>1, <3>2 DEF OutcomesOwn
    <3> QED
      BY <3>2, <3>3
  <2> QED
    BY <1>1, <2>1, <2>2
<1>7. TypeOK'
  BY <1>1, <1>3, <1>6 DEF TypeOK
<1>8. UnknownIsQuiet' /\ IdleIsEmpty' /\ JobsNamed'
  BY <1>1, <1>2 DEF UnknownIsQuiet, IdleIsEmpty, JobsNamed
<1>9. AfreshIsAlone' /\ ResultWaits' /\ SavedIsMem'
  BY <1>1, <1>2 DEF AfreshIsAlone, ResultWaits, SavedIsMem
<1>10. GoodState(saved)' /\ GoodState(mem)' /\ OutcomesOwn(saved)'
  BY <1>1, <1>3, <1>6 DEF GoodState, OutcomesOwn, Bounded
<1>11. Agrees(saved, Jobs \ (stray \cup started))' /\ Agrees(mem, Jobs \ stray)'
  BY <1>1, <1>2, <1>4, <1>6 DEF Agrees, Bounded
<1> QED
  BY <1>6, <1>7, <1>8, <1>9, <1>10, <1>11

\* A worker that ends.
LEMMA WorkerInv == ASSUME NEW k \in Jobs PROVE IInv /\ WorkerEnds(k) => IInv'
<1> SUFFICES ASSUME IInv, WorkerEnds(k) PROVE IInv'
  OBVIOUS
<1> USE DEF IInv
<1>1. PICK s \in {"completed", "failed", "dead"} : job' = [job EXCEPT ![k].state = s]
  BY DEF WorkerEnds
<1>2. /\ job[k].state = "running"
      /\ UNCHANGED <<incident, known, saved, mem, phase, afresh, steps, input, started,
                     settled, stray, made>>
  BY DEF WorkerEnds
<1>3. TypeOK'
  BY <1>1, <1>2 DEF TypeOK, JobStates
<1>4. \A j \in Jobs : /\ Pending(j)' => Pending(j)
                     /\ job'[j].id = job[j].id /\ job'[j].task = job[j].task
  BY <1>1, <1>2 DEF Pending, TypeOK
<1>5. UnknownIsQuiet' /\ IdleIsEmpty' /\ JobsNamed'
  BY <1>2, <1>4 DEF UnknownIsQuiet, IdleIsEmpty, JobsNamed
<1>9. AfreshIsAlone' /\ ResultWaits' /\ SavedIsMem'
  <2>1. k \notin input
    BY <1>2 DEF ResultWaits
  <2>2. \A j \in Jobs : j # k => job'[j] = job[j]
    BY <1>1 DEF TypeOK
  <2> QED
    BY <1>2, <1>4, <2>1, <2>2 DEF AfreshIsAlone, ResultWaits, SavedIsMem, TypeOK
<1>6. Agrees(saved, Jobs \ (stray \cup started))'
      /\ (phase # "idle" => Agrees(mem, Jobs \ stray))'
  BY <1>2, <1>4 DEF Agrees, Bounded
<1>7. GoodState(saved)' /\ GoodState(mem)'
  BY <1>2 DEF GoodState, Bounded
<1>8. OutcomesOwn(saved)' /\ OutcomesOwn(mem)'
  <2>1. job' = [job EXCEPT ![k] = [job[k] EXCEPT !.state = s]]
    BY <1>1
  <2> QED
    BY <1>2, <2>1, OutcomesKept DEF OutcomesOwn
<1> QED
  BY <1>3, <1>5, <1>6, <1>7, <1>8, <1>9

\* A restart ends the run, the workers and the results to come.
LEMMA RestartInv == IInv /\ Restart => IInv'
<1> SUFFICES ASSUME IInv, Restart PROVE IInv'
  OBVIOUS
<1> USE DEF IInv, Restart, Idle
<1>1. /\ TypeOK'
      /\ \A j \in Jobs : /\ job'[j].id = job[j].id /\ job'[j].task = job[j].task
                         /\ job'[j].state = IF job[j].state = "running" THEN "dead"
                                            ELSE job[j].state
  <2>1. ASSUME NEW j \in Jobs
        PROVE  /\ job'[j] \in [state : JobStates, id : Nat, task : Nat]
               /\ job'[j].id = job[j].id /\ job'[j].task = job[j].task
               /\ job'[j].state = IF job[j].state = "running" THEN "dead"
                                  ELSE job[j].state
    BY <2>1 DEF TypeOK, JobStates
  <2>2. job' \in [Jobs -> [state : JobStates, id : Nat, task : Nat]]
    BY <2>1
  <2>3. Fresh \in States
    BY DEF Fresh, States
  <2>4. TypeOK'
    <3>1. /\ saved' \in States /\ mem' \in States
          /\ phase' \in {"idle", "leader", "stepped", "saved"}
          /\ steps' \in 0..MaxSteps /\ made' \in 0..MaxTasks
          /\ input' \in SUBSET Jobs /\ started' \in SUBSET Jobs
          /\ settled' \in SUBSET Jobs /\ stray' \in SUBSET Jobs
      BY <2>3 DEF TypeOK
    <3>2. incident' \in BOOLEAN /\ known' \in BOOLEAN /\ afresh' \in BOOLEAN
      BY DEF TypeOK
    <3> QED
      BY ONLY <2>2, <3>1, <3>2 DEF TypeOK
  <2> QED
    BY <2>1, <2>4
<1>2. \A j \in Jobs : ~Pending(j)'
  BY <1>1 DEF Pending
<1>3. UnknownIsQuiet' /\ IdleIsEmpty' /\ JobsNamed'
      /\ AfreshIsAlone' /\ ResultWaits' /\ SavedIsMem'
  BY <1>1, <1>2
     DEF UnknownIsQuiet, IdleIsEmpty, JobsNamed, AfreshIsAlone, ResultWaits, SavedIsMem
<1>4. Agrees(saved, Jobs \ (stray \cup started))'
  BY <1>2 DEF Agrees
<1>5. GoodState(saved)' /\ GoodState(mem)'
  BY DEF GoodState, Distinct, Bounded, Fresh
<1>6. OutcomesOwn(saved)'
  <2>1. \A j \in Jobs : job[j].state \in {"completed", "failed"} => job'[j] = job[j]
    OBVIOUS
  <2> QED
    BY <2>1 DEF OutcomesOwn
<1>7. OutcomesOwn(mem)'
  BY DEF OutcomesOwn, Fresh
<1> QED
  BY <1>1, <1>3, <1>4, <1>5, <1>6, <1>7

-----------------------------------------------------------------------------
(* Theorems *)

\* The inductive invariant holds in every reachable state.
THEOREM Invariance == Spec => []IInv
<1>1. IInv /\ [Next]_vars => IInv'
  <2> SUFFICES ASSUME IInv, [Next]_vars PROVE IInv'
    OBVIOUS
  <2>1. CASE UNCHANGED vars
    BY <2>1 DEF vars, IInv, TypeOK, UnknownIsQuiet, IdleIsEmpty, AfreshIsAlone,
                ResultWaits, SavedIsMem, JobsNamed, GoodState, Distinct, Bounded, Agrees,
                OutcomesOwn, Pending
  <2>2. CASE Next
    BY <2>2, FrontInv, DeliverInv, IncidentInv, PlanInv, CallInv, RunInv, AgainInv,
       WorkerInv, RestartInv DEF Next
  <2> QED
    BY <2>1, <2>2
<1> QED
  BY <1>1, InitInv, PTL DEF Spec

\* Plans, runs and workers have their types.
THEOREM TypeCorrect == Spec => []TypeOK
<1>1. IInv => TypeOK
  BY DEF IInv
<1> QED
  BY <1>1, Invariance, PTL

\* No two items of a plan ever share an id.
THEOREM IdsAreUnique == Spec => []IdsUnique
<1>1. IInv => IdsUnique
  BY DEF IInv, GoodState, IdsUnique
<1> QED
  BY <1>1, Invariance, PTL

\* The outcome an item shows was produced for its task.
THEOREM OutcomesAreOwn == Spec => []OutcomeIsOwn
<1>1. IInv => OutcomeIsOwn
  BY DEF IInv, OutcomesOwn, OutcomeIsOwn
<1> QED
  BY <1>1, Invariance, PTL

-----------------------------------------------------------------------------
(* The texts of a plan *)

\* Induction: a set of numbers that is not empty has a least one.
LEMMA Least ==
    ASSUME NEW T, T \subseteq Nat, T # {}
    PROVE  \E m \in T : \A k \in T : ~(k < m)
<1>1. PICK m \in T : \A k \in T : <<k, m>> \notin OpToRel(<, Nat)
  BY NatLessThanWellFounded, WFMin
<1>2. \A k \in T : <<k, m>> \in OpToRel(<, Nat) <=> k < m
  BY DEF OpToRel
<1> QED
  BY <1>1, <1>2

\* What a scan has seen.
Seen == [titles : SUBSET Titles, paths : SUBSET Paths, conflict : BOOLEAN]

LEMMA SeeSeen ==
    ASSUME NEW seen \in Seen, NEW text \in Texts
    PROVE  See(seen, text) \in Seen
  BY DEF Seen, See, Texts

\* A scan takes the texts one after the other.  The recursive definition is a
\* choice: there is a function that obeys it, by induction on how far it goes.
LEMMA ScanSteps ==
    ASSUME NEW plan \in Seq(Texts)
    PROVE  /\ Scan(plan) \in [0..Len(plan) -> Seen]
           /\ Scan(plan)[0] = NothingSeen
           /\ \A n \in 1..Len(plan) : Scan(plan)[n] = See(Scan(plan)[n - 1], plan[n])
<1> DEFINE Obeys(g, k) ==
               /\ g \in [0..k -> Seen]
               /\ g[0] = NothingSeen
               /\ \A n \in 1..k : g[n] = See(g[n - 1], plan[n])
           Short == {k \in 0..Len(plan) : ~\E g : Obeys(g, k)}
<1>1. Len(plan) \in Nat /\ \A n \in 1..Len(plan) : plan[n] \in Texts
  OBVIOUS
<1>2. Short = {}
  <2> SUFFICES ASSUME Short # {} PROVE FALSE
    OBVIOUS
  <2>1. PICK m \in Short : \A k \in Short : ~(k < m)
    <3>1. Short \subseteq Nat
      BY <1>1
    <3> HIDE DEF Short
    <3> QED
      BY <3>1, Least
  <2>2. m # 0
    <3> DEFINE g == [i \in 0..0 |-> NothingSeen]
    <3>1. NothingSeen \in Seen
      BY DEF NothingSeen, Seen
    <3>2. Obeys(g, 0)
      BY <3>1
    <3> QED
      BY <3>2, <2>1
  <2>3. m \in 1..Len(plan) /\ m - 1 \in 0..Len(plan)
    BY <1>1, <2>1, <2>2
  <2>4. PICK g : Obeys(g, m - 1)
    <3>1. m - 1 \notin Short
      <4> HIDE DEF Short
      <4> QED
        BY <1>1, <2>1, <2>3
    <3> HIDE DEF Obeys
    <3> QED
      BY <2>3, <3>1
  <2> DEFINE h == [i \in 0..m |-> IF i = m THEN See(g[m - 1], plan[m]) ELSE g[i]]
  <2>5. See(g[m - 1], plan[m]) \in Seen
    BY <1>1, <2>3, <2>4, SeeSeen
  <2>6. h \in [0..m -> Seen] /\ h[0] = NothingSeen
    <3>1. \A i \in 0..m : i # m => i \in 0..(m - 1)
      BY <1>1, <2>3
    <3>2. \A i \in 0..m : h[i] \in Seen
      <4> HIDE DEF Seen
      <4> QED
        BY <2>4, <2>5, <3>1
    <3>3. h[0] = NothingSeen
      BY <2>3, <2>4
    <3> QED
      BY <3>2, <3>3
  <2>7. \A n \in 1..m : h[n] = See(h[n - 1], plan[n])
    <3> SUFFICES ASSUME NEW n \in 1..m PROVE h[n] = See(h[n - 1], plan[n])
      OBVIOUS
    <3>1. CASE n = m
      BY <1>1, <2>3, <3>1
    <3>2. CASE n # m
      <4>1. n \in 1..(m - 1) /\ n \in 0..m /\ n - 1 \in 0..m /\ n - 1 # m
        BY <1>1, <2>3, <3>2
      <4> QED
        BY <2>4, <3>2, <4>1
    <3> QED
      BY <3>1, <3>2
  <2>8. Obeys(h, m)
    BY <2>6, <2>7
  <2> QED
    BY <2>1, <2>8
<1>3. PICK g : Obeys(g, Len(plan))
  BY <1>1, <1>2
<1> DEFINE Rule(f) == f = [n \in 0..Len(plan) |->
                             IF n = 0 THEN NothingSeen ELSE See(f[n - 1], plan[n])]
<1>4. Rule(g)
  <2>1. \A n \in 0..Len(plan) :
            g[n] = IF n = 0 THEN NothingSeen ELSE See(g[n - 1], plan[n])
    BY <1>1, <1>3
  <2> QED
    BY <1>3, <2>1
<1>5. Scan(plan) = CHOOSE f : Rule(f)
  BY DEF Scan
<1>6. Rule(Scan(plan))
  <2> HIDE DEF Rule
  <2> QED
    BY <1>4, <1>5
<1> HIDE DEF Rule
<1> DEFINE f == Scan(plan)
<1>7. f = [n \in 0..Len(plan) |-> IF n = 0 THEN NothingSeen ELSE See(f[n - 1], plan[n])]
  BY <1>6 DEF Rule
<1> HIDE DEF f
<1>8. /\ f[0] = NothingSeen
      /\ \A n \in 1..Len(plan) : f[n] = See(f[n - 1], plan[n])
      /\ DOMAIN f = 0..Len(plan) /\ f = [n \in 0..Len(plan) |-> f[n]]
  BY <1>1, <1>7
<1>9. \A n \in 0..Len(plan) : f[n] = g[n]
  <2> DEFINE Differ == {n \in 0..Len(plan) : f[n] # g[n]}
  <2> SUFFICES ASSUME Differ # {} PROVE FALSE
    OBVIOUS
  <2>1. PICK m \in Differ : \A k \in Differ : ~(k < m)
    <3>1. Differ \subseteq Nat
      BY <1>1
    <3> HIDE DEF Differ
    <3> QED
      BY <3>1, Least
  <2>2. m # 0
    BY <1>3, <1>8, <2>1
  <2>3. m \in 1..Len(plan) /\ m - 1 \in 0..Len(plan) /\ m - 1 < m
    BY <1>1, <2>1, <2>2
  <2>4. f[m - 1] = g[m - 1]
    BY <2>1, <2>3
  <2> QED
    BY <1>3, <1>8, <2>1, <2>3, <2>4
<1>10. f \in [0..Len(plan) -> Seen]
  BY <1>3, <1>8, <1>9
<1> QED
  BY <1>8, <1>10 DEF f

\* After n texts a scan has seen their titles and their paths, and whether two
\* of them share one.
LEMMA ScanSees ==
    ASSUME NEW plan \in Seq(Texts), NEW n \in 0..Len(plan)
    PROVE  LET seen == Scan(plan)[n]
           IN  /\ \A t : t \in seen.titles <=> \E i \in 1..n : t = plan[i].title
               /\ \A p : p \in seen.paths <=> \E i \in 1..n : p \in plan[i].paths
               /\ seen.conflict <=>
                     \E i, j \in 1..n :
                        /\ i # j
                        /\ \/ plan[i].title = plan[j].title
                           \/ plan[i].paths \cap plan[j].paths # {}
<1> DEFINE f == Scan(plan)
           Clash(i, j) == \/ plan[i].title = plan[j].title
                          \/ plan[i].paths \cap plan[j].paths # {}
           TitlesSeen(k) == \A t : t \in f[k].titles <=> \E i \in 1..k : t = plan[i].title
           PathsSeen(k) == \A p : p \in f[k].paths <=> \E i \in 1..k : p \in plan[i].paths
           ConflictSeen(k) == f[k].conflict <=> \E i, j \in 1..k : i # j /\ Clash(i, j)
           Right(k) == TitlesSeen(k) /\ PathsSeen(k) /\ ConflictSeen(k)
           Wrong == {k \in 0..Len(plan) : ~Right(k)}
<1>1. /\ f \in [0..Len(plan) -> Seen] /\ f[0] = NothingSeen
      /\ \A k \in 1..Len(plan) : f[k] = See(f[k - 1], plan[k])
  BY ScanSteps
<1>2. Len(plan) \in Nat /\ \A k \in 1..Len(plan) : plan[k] \in Texts
  OBVIOUS
<1> HIDE DEF f
<1>3. Right(0)
  BY <1>1 DEF NothingSeen
<1>4. ASSUME NEW k \in 1..Len(plan), Right(k - 1) PROVE Right(k)
  <2> DEFINE seen == f[k - 1]
  <2>1. /\ f[k].titles = seen.titles \cup {plan[k].title}
        /\ f[k].paths = seen.paths \cup plan[k].paths
        /\ f[k].conflict = (\/ seen.conflict
                            \/ plan[k].title \in seen.titles
                            \/ plan[k].paths \cap seen.paths # {})
    <3>1. f[k] = See(seen, plan[k])
      BY <1>1
    <3> HIDE DEF seen
    <3> QED
      BY <3>1 DEF See
  <2>2. \A i : i \in 1..k <=> i \in 1..(k - 1) \/ i = k
    BY <1>2
  <2>3. k \notin 1..(k - 1)
    BY <1>2
  <2> HIDE DEF seen
  <2>4. TitlesSeen(k)
    BY <1>4, <2>1, <2>2 DEF seen
  <2>5. PathsSeen(k)
    BY <1>4, <2>1, <2>2 DEF seen
  <2>6. plan[k].title \in seen.titles \/ plan[k].paths \cap seen.paths # {}
            <=> \E i \in 1..(k - 1) : Clash(i, k)
    BY <1>4 DEF seen
  <2>7. \A i, j : Clash(i, j) <=> Clash(j, i)
    OBVIOUS
  <2>8. (\E i, j \in 1..k : i # j /\ Clash(i, j)) <=>
            \/ \E i, j \in 1..(k - 1) : i # j /\ Clash(i, j)
            \/ \E i \in 1..(k - 1) : Clash(i, k)
    <3> HIDE DEF Clash
    <3> QED
      BY <2>2, <2>3, <2>7
  <2>9. ConflictSeen(k)
    <3> HIDE DEF Clash
    <3> QED
      BY <1>4, <2>1, <2>6, <2>8 DEF seen
  <2> QED
    BY <2>4, <2>5, <2>9
<1>5. Wrong = {}
  <2> SUFFICES ASSUME Wrong # {} PROVE FALSE
    OBVIOUS
  <2>1. PICK m \in Wrong : \A k \in Wrong : ~(k < m)
    <3>1. Wrong \subseteq Nat
      BY <1>2
    <3> HIDE DEF Wrong
    <3> QED
      BY <3>1, Least
  <2>2. m \in 1..Len(plan) /\ m - 1 \in 0..Len(plan) /\ m - 1 < m
    BY <1>2, <1>3, <2>1
  <2>3. m - 1 \notin Wrong
    <3> HIDE DEF Wrong
    <3> QED
      BY <2>1, <2>2
  <2> HIDE DEF Right
  <2> QED
    BY <1>4, <2>1, <2>2, <2>3
<1>6. Right(n)
  <2> HIDE DEF Right
  <2> QED
    BY <1>5
<1> QED
  BY <1>6 DEF f

\* _validate_task_conflicts refuses the plans with two texts that are not apart.
LEMMA ScanFinds ==
    ASSUME NEW plan \in Seq(Texts)
    PROVE  InConflict(plan) <=> ~Apart(plan)
<1>1. Len(plan) \in 0..Len(plan) /\ DOMAIN plan = 1..Len(plan)
  OBVIOUS
<1> QED
  BY <1>1, ScanSees DEF InConflict, Apart

LEMMA PlansAreSequences ==
    ASSUME NEW plan \in Plans
    PROVE  plan \in Seq(Texts)
<1>1. PICK n \in 0..MaxPlan : plan \in [1..n -> Texts]
  BY DEF Plans, SeqOf
<1>2. n \in Nat
  BY TextsAssumption
<1> QED
  BY <1>1, <1>2, SeqDef

LEMMA Batches ==
    ASSUME NEW tasks \in Seq(Texts)
    PROVE  Batch(tasks) \in Seq(Texts)
<1> DEFINE n == IF Len(tasks) < BatchLimit THEN Len(tasks) ELSE BatchLimit
<1>1. n \in 0..Len(tasks)
  BY TextsAssumption
<1>2. \A i \in 1..n : tasks[i] \in Texts
  BY <1>1
<1> QED
  BY <1>1, <1>2, SubSeqProperties DEF Batch

\* A set or an append leaves the plan as it is or makes one that is valid.
LEMMA CheckedPlans ==
    ASSUME NEW plan \in Plans, NEW address \in BOOLEAN, NEW new \in Checked(plan, address)
    PROVE  new = plan \/ (Apart(new) /\ ~OutOfOrder(new, address))
<1>1. CASE \E tasks \in Plans : new = PlanSet(plan, tasks, address)
  <2>1. PICK tasks \in Plans : new = PlanSet(plan, tasks, address)
    BY <1>1
  <2>2. Batch(tasks) \in Seq(Texts)
    BY PlansAreSequences, Batches
  <2>3. Valid(Batch(tasks), address) =>
            Apart(Batch(tasks)) /\ ~OutOfOrder(Batch(tasks), address)
    BY <2>2, ScanFinds DEF Valid
  <2> QED
    BY <2>1, <2>3, Zenon DEF PlanSet, OrElse
<1>2. CASE \E tasks \in Plans : new = PlanAppend(plan, tasks, address)
  <2>1. PICK tasks \in Plans : new = PlanAppend(plan, tasks, address)
    BY <1>2
  <2>2. plan \o Batch(tasks) \in Seq(Texts)
    BY PlansAreSequences, Batches
  <2>3. Valid(plan \o Batch(tasks), address) =>
            /\ Apart(plan \o Batch(tasks))
            /\ ~OutOfOrder(plan \o Batch(tasks), address)
    BY <2>2, ScanFinds DEF Valid
  <2> QED
    BY <2>1, <2>3, Zenon DEF PlanAppend, OrElse
<1> QED
  BY <1>1, <1>2 DEF Checked

\* PlansAreValid, for plans and batches of any length: the pass over the plan
\* finds every pair of tasks with one title or one path, and no other; what set
\* and append make has none and is in order; a plan in conflict grows by no
\* action.
THEOREM PlansStayValid == Spec => []PlansAreValid
<1>1. ScanIsExact
  BY PlansAreSequences, ScanFinds DEF ScanIsExact
<1>2. ASSUME NEW plan \in Plans, NEW address \in BOOLEAN, NEW new \in Actions(plan, address),
             ~Apart(plan), ~Apart(new)
      PROVE  Len(new) = Len(plan)
  <2>1. CASE new \in Checked(plan, address)
    BY <1>2, <2>1, CheckedPlans
  <2>2. CASE \E i \in DOMAIN plan, text \in Texts : new = PlanUpdate(plan, i, text)
    <3>1. PICK i \in DOMAIN plan, text \in Texts : new = [plan EXCEPT ![i] = text]
      BY <2>2 DEF PlanUpdate
    <3>2. plan \in Seq(Texts)
      BY PlansAreSequences
    <3> QED
      BY <3>1, <3>2
  <2> QED
    BY <2>1, <2>2 DEF Actions
<1>3. ChangesAreValid
  BY <1>2, CheckedPlans DEF ChangesAreValid
<1>4. PlansAreValid
  BY <1>1, <1>3 DEF PlansAreValid
<1> QED
  BY <1>4, PTL
=============================================================================
