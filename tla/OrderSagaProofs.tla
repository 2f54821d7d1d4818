-------------------------- MODULE OrderSagaProofs --------------------------
(***************************************************************************)
(* Proofs about OrderSaga for any orders, carts and stock, and any bounds  *)
(* on retries, payments and faults: the types, that what is sold has been  *)
(* paid for, that the stock counters are the units reserved and sold to    *)
(* the orders, what becomes of an order: it is decided, the answers to its *)
(* requests are true, and it leaves stock reserved in known ways, and what *)
(* it is charged.                                                          *)
(***************************************************************************)
EXTENDS OrderSaga, SequenceTheorems, FunctionTheorems, FiniteSetTheorems, TLAPS

Jobs == Orders \X Kinds
JobRecords == [at : Steps, item : Nat \ {0}, tries : 0..MaxRetries]

\* The types of the jobs, the part of TypeOK that most steps change.
JobsOK ==
    /\ job \in [Jobs -> JobRecords]
    /\ \A x \in Jobs : job[x].item \in DOMAIN Cart[x[1]]

StockOK ==
    /\ reserved \in [Products -> Nat] /\ sold \in [Products -> Nat]
    /\ held \in SUBSET Units /\ bought \in SUBSET Units
    /\ seen \in [Jobs -> SUBSET Counters] /\ torn \in BOOLEAN

\* A job confirms stock only for an order that has been paid for.
ConfirmingIsPaid ==
    \A x \in Jobs : job[x].at = "confirm" => payments[x[1]] > 0

\* A request is not a task: nothing retries it, and nothing parks it.
RequestsRunOnce ==
    \A x \in Jobs : job[x].at = "retry" => x[2] # "create"

IInv == TypeOK /\ ConfirmingIsPaid /\ RequestsRunOnce /\ SoldIsPaid

\* Carts have items, and items have products and quantities.
LEMMA CartItems ==
    ASSUME NEW o \in Orders
    PROVE  /\ DOMAIN Cart[o] = 1..Len(Cart[o]) /\ Len(Cart[o]) \in Nat \ {0}
           /\ \A i \in DOMAIN Cart[o] :
                 /\ i \in Nat \ {0}
                 /\ Cart[o][i].product \in Products
                 /\ Cart[o][i].quantity \in Nat
<1> DEFINE L == [product : Products, quantity : Nat \ {0}]
<1>1. Cart[o] \in Seq(L) /\ Len(Cart[o]) > 0
  BY SagaAssumption
<1>2. DOMAIN Cart[o] = 1..Len(Cart[o]) /\ Len(Cart[o]) \in Nat
  BY <1>1, LenProperties
<1>3. \A i \in DOMAIN Cart[o] : Cart[o][i] \in L
  <2> HIDE DEF L
  <2> QED
    BY <1>1, <1>2, ElementOfSeq
<1> QED
  BY <1>1, <1>2, <1>3

LEMMA UnitsAreUnits ==
    ASSUME NEW o \in Orders, NEW i \in DOMAIN Cart[o]
    PROVE  UnitsOf(o, i) \subseteq Units /\ \A u \in UnitsOf(o, i) : u.order = o
  BY CartItems DEF UnitsOf, Units

\* A step that changes one job keeps the types of all.
LEMMA OneJob ==
    ASSUME JobsOK, NEW x \in Jobs, NEW r \in JobRecords,
           r.item \in DOMAIN Cart[x[1]], job' = [job EXCEPT ![x] = r]
    PROVE  JobsOK' /\ job'[x] = r /\ \A y \in Jobs \ {x} : job'[y] = job[y]
  BY DEF JobsOK

LEMMA GotoKeepsJobs ==
    ASSUME JobsOK, NEW x \in Jobs, NEW s \in Steps, Goto(x, s)
    PROVE  JobsOK' /\ job'[x].at = s /\ \A y \in Jobs \ {x} : job'[y] = job[y]
<1> DEFINE r == [at |-> s, item |-> 1, tries |-> job[x].tries]
<1>1. job[x] \in JobRecords
  BY DEF JobsOK
<1>2. r \in JobRecords /\ r.at = s /\ r.item = 1
  BY <1>1 DEF JobRecords
<1>3. 1 \in DOMAIN Cart[x[1]]
  BY CartItems DEF Jobs
<1>4. job' = [job EXCEPT ![x] = r]
  BY DEF Goto
<1> HIDE DEF r
<1> QED
  BY <1>2, <1>3, <1>4, OneJob

LEMMA AtKeepsJobs ==
    ASSUME JobsOK, NEW x \in Jobs, NEW s \in Steps, job' = [job EXCEPT ![x] = At(s)]
    PROVE  JobsOK' /\ job'[x].at = s /\ \A y \in Jobs \ {x} : job'[y] = job[y]
<1>1. At(s) \in JobRecords /\ At(s).at = s /\ At(s).item = 1
  BY SagaAssumption DEF At, JobRecords
<1>2. 1 \in DOMAIN Cart[x[1]]
  BY CartItems DEF Jobs
<1> QED
  BY <1>1, <1>2, OneJob

LEMMA AdvanceKeepsJobs ==
    ASSUME JobsOK, NEW x \in Jobs, Advance(x), After(x[2], job[x].at) \in Steps
    PROVE  /\ JobsOK' /\ \A y \in Jobs \ {x} : job'[y] = job[y]
           /\ job'[x].at \in {job[x].at, After(x[2], job[x].at)}
<1>1. CASE job[x].item < Len(Cart[x[1]])
  <2> DEFINE r == [job[x] EXCEPT !.item = @ + 1]
  <2>1. job' = [job EXCEPT ![x] = r]
    BY <1>1 DEF Advance
  <2>2. job[x] \in JobRecords /\ job[x].item \in DOMAIN Cart[x[1]]
    BY DEF JobsOK
  <2>3. r \in JobRecords /\ r.at = job[x].at /\ r.item = job[x].item + 1
    BY <2>2 DEF JobRecords
  <2>4. r.item \in DOMAIN Cart[x[1]]
    BY <1>1, <2>2, <2>3, CartItems DEF Jobs
  <2> HIDE DEF r
  <2> QED
    BY <2>1, <2>3, <2>4, OneJob
<1>2. CASE ~(job[x].item < Len(Cart[x[1]]))
  <2>1. Goto(x, After(x[2], job[x].at))
    BY <1>2 DEF Advance
  <2> QED
    BY <2>1, GotoKeepsJobs
<1> QED
  BY <1>1, <1>2

LEMMA RaisesKeepsJobs ==
    ASSUME JobsOK, NEW x \in Jobs, NEW i, Raises(x, i),
           Caught(x[2], job[x].at, i) \in Steps
    PROVE  /\ JobsOK' /\ \A y \in Jobs \ {x} : job'[y] = job[y]
           /\ job'[x].at = Caught(x[2], job[x].at, i)
<1> DEFINE s == Caught(x[2], job[x].at, i)
           r == [job[x] EXCEPT !.at = s]
<1>1. job[x] \in JobRecords /\ job[x].item \in DOMAIN Cart[x[1]]
  BY DEF JobsOK
<1>2. job' = [job EXCEPT ![x] = r] /\ s \in Steps
  BY DEF Raises
<1> HIDE DEF s
<1>3. r \in JobRecords /\ r.at = s /\ r.item = job[x].item
  BY <1>1, <1>2 DEF JobRecords
<1> HIDE DEF r
<1> QED
  BY <1>1, <1>2, <1>3, OneJob DEF s

LEMMA UnlocksKeepsJobs ==
    ASSUME JobsOK, NEW x \in Jobs, Unlocks(x), After(x[2], job[x].at) \in Steps,
           Caught(x[2], job[x].at, job[x].item + 1) \in Steps
    PROVE  /\ JobsOK' /\ \A y \in Jobs \ {x} : job'[y] = job[y]
           /\ job'[x].at \in {job[x].at, After(x[2], job[x].at),
                              Caught(x[2], job[x].at, job[x].item + 1)}
<1>1. CASE Advance(x)
  BY <1>1, AdvanceKeepsJobs
<1>2. CASE Raises(x, job[x].item + 1)
  BY <1>2, RaisesKeepsJobs
<1> QED
  BY <1>1, <1>2 DEF Unlocks

\* The steps that lead from one to another are steps, and only a payment or
\* another item leads to a confirmation.
LEMMA StepsAfter ==
    /\ \A k \in Kinds, s \in Steps : After(k, s) \in Steps
    /\ \A k \in Kinds, s \in Steps \ {"pay"} : After(k, s) # "confirm"
    /\ \A k \in Kinds, s \in Steps : After(k, s) # "retry"
    /\ \A k \in Kinds : First(k) \in Steps \ {"confirm", "retry"}
    /\ \A k \in Kinds, s \in Steps, i \in Nat :
          Caught(k, s, i) \in {"rollback", "failed", "dead", "retry"}
    /\ \A s \in Steps, i \in Nat : Caught("create", s, i) # "retry"
    /\ \A k \in Kinds, s \in Steps, i \in Nat : Caught(k, s, i) \in Steps \ {"confirm"}
  BY DEF After, First, Caught, Kinds, Tasks, Steps

RestOK ==
    /\ sync \in BOOLEAN /\ level \in Levels
    /\ row \in [Orders -> {"absent", "pending", "paid", "cancelled"}]
    /\ parked \in SUBSET (Orders \X Tasks)
    /\ payments \in [Orders -> 0..MaxPayments]
    /\ cancelling \in SUBSET Orders /\ manual \in SUBSET Orders
    /\ byClient \in SUBSET Orders /\ early \in SUBSET Orders
    /\ rerun \in SUBSET Orders /\ lost \in SUBSET Orders
    /\ faults \in 0..MaxFaults

LEMMA TypeParts == TypeOK <=> JobsOK /\ StockOK /\ RestOK
  BY DEF TypeOK, JobsOK, StockOK, RestOK, Jobs, JobRecords

\* A payment: one more, and the order is paid.
Paid(o) ==
    /\ payments' = [payments EXCEPT ![o] = @ + 1]
    /\ row' = [row EXCEPT ![o] = "paid"]

LEMMA PaidRaisesPayments ==
    ASSUME RestOK, NEW o \in Orders, Paid(o), payments[o] < MaxPayments
    PROVE  /\ payments' \in [Orders -> 0..MaxPayments] /\ payments'[o] > 0
           /\ \A p \in Orders :
                 payments[p] \in Nat /\ payments'[p] \in Nat /\ payments'[p] >= payments[p]
           /\ row' \in [Orders -> {"absent", "pending", "paid", "cancelled"}]
<1>1. payments \in [Orders -> 0..MaxPayments] /\ MaxPayments \in Nat
  BY SagaAssumption DEF RestOK
<1>2. payments[o] + 1 \in 0..MaxPayments
  BY <1>1
<1>3. payments' \in [Orders -> 0..MaxPayments]
  BY <1>1, <1>2 DEF Paid
<1>4. payments'[o] = payments[o] + 1 /\ \A p \in Orders \ {o} : payments'[p] = payments[p]
  BY <1>1 DEF Paid
<1>5. row' \in [Orders -> {"absent", "pending", "paid", "cancelled"}]
  BY DEF Paid, RestOK
<1>6. \A p \in Orders : payments[p] \in Nat /\ payments'[p] \in Nat
  BY <1>1, <1>3
<1> QED
  BY <1>3, <1>4, <1>5, <1>6

LEMMA TypePartsNext ==
    ASSUME JobsOK', StockOK', RestOK'
    PROVE  TypeOK'
  BY DEF TypeOK, JobsOK, StockOK, RestOK, Jobs, JobRecords

\* A step that sells nothing, takes no payment back and begins no
\* confirmation.
LEMMA NothingSold ==
    ASSUME IInv, NEW x \in Jobs, JobsOK', StockOK', RestOK',
           \A y \in Jobs \ {x} : job'[y] = job[y] \/ job'[y].at # "confirm",
           job'[x].at # "confirm", RequestsRunOnce', bought' = bought,
           \A o \in Orders : payments'[o] >= payments[o]
    PROVE  IInv'
<1>1. \A o \in Orders : payments[o] \in Nat /\ payments'[o] \in Nat
  BY SagaAssumption DEF IInv, TypeOK, RestOK
<1>2. \A y \in Jobs : y[1] \in Orders
  BY DEF Jobs
<1>3. ConfirmingIsPaid'
  BY <1>1, <1>2 DEF IInv, ConfirmingIsPaid
<1>4. \A u \in bought : u.order \in Orders
  BY DEF IInv, TypeOK, Units
<1>5. SoldIsPaid'
  BY <1>1, <1>4 DEF IInv, SoldIsPaid
<1>6. TypeOK <=> JobsOK /\ StockOK /\ RestOK
  BY TypeParts
<1>7. TypeOK'
  BY TypeParts, <1>6 DEF TypeOK, JobsOK, StockOK, RestOK, Jobs, JobRecords
<1> QED
  BY <1>3, <1>5, <1>7 DEF IInv

LEMMA InitInv == Init => IInv
<1> SUFFICES ASSUME Init PROVE IInv
  OBVIOUS
<1>1. JobsOK
  <2>1. At("none") \in JobRecords /\ At("none").item = 1
    BY SagaAssumption DEF At, JobRecords, Steps
  <2>2. job = [x \in Jobs |-> At("none")]
    BY DEF Init, Jobs
  <2>3. \A x \in Jobs : 1 \in DOMAIN Cart[x[1]]
    BY CartItems DEF Jobs
  <2> QED
    BY <2>1, <2>2, <2>3 DEF JobsOK
<1>2. StockOK
  BY DEF Init, StockOK, Jobs
<1>3. RestOK
  <2>1. level \in Levels
    BY DEF Init, Levels
  <2> QED
    BY <2>1, SagaAssumption DEF Init, RestOK
<1>4. ConfirmingIsPaid
  BY DEF Init, ConfirmingIsPaid, Jobs, At
<1>5. SoldIsPaid
  BY DEF Init, SoldIsPaid
<1>6. RequestsRunOnce
  BY DEF Init, RequestsRunOnce, Jobs, At
<1> QED
  BY <1>1, <1>2, <1>3, <1>4, <1>5, <1>6, TypeParts DEF IInv

\* A request that does not go to a retry is not retried.
LEMMA NotRetried ==
    ASSUME RequestsRunOnce, NEW x \in Jobs,
           \A y \in Jobs \ {x} : job'[y] = job[y] \/ job'[y].at # "retry",
           job'[x].at = "retry" => x[2] # "create"
    PROVE  RequestsRunOnce'
  BY DEF RequestsRunOnce

\* What a step over an item reads are counters, and what it writes are.
LEMMA BasisTypes ==
    ASSUME StockOK, NEW x \in Jobs, Item(x).product \in Products, NEW c \in Basis(x)
    PROVE  c.reserved \in Nat /\ c.sold \in Nat
<1>1. seen[x] \subseteq Counters
  BY DEF StockOK
<1>2. Current(Item(x).product) \in Counters
  BY DEF StockOK, Current, Counters
<1>3. c \in Counters
  BY <1>1, <1>2 DEF Basis
<1> QED
  BY <1>3 DEF Counters

LEMMA WritesTypes ==
    ASSUME StockOK, NEW x \in Jobs, Item(x).product \in Products,
           NEW c, NEW r \in Nat, NEW s \in Nat, Writes(x, c, r, s)
    PROVE  /\ reserved' \in [Products -> Nat] /\ sold' \in [Products -> Nat]
           /\ seen' \in [Jobs -> SUBSET Counters] /\ torn' \in BOOLEAN
<1> DEFINE p == Item(x).product
           u == IF r = c.reserved THEN reserved[p] ELSE r
           v == IF s = c.sold THEN sold[p] ELSE s
<1>1. /\ reserved \in [Products -> Nat] /\ sold \in [Products -> Nat]
      /\ seen \in [Jobs -> SUBSET Counters] /\ torn \in BOOLEAN
  BY DEF StockOK
<1>2. /\ reserved' = [reserved EXCEPT ![p] = u] /\ sold' = [sold EXCEPT ![p] = v]
      /\ seen' = [seen EXCEPT ![x] = {}]
      /\ torn' = (torn \/ c # Current(p))
  BY DEF Writes
<1>3. p \in Products /\ u \in Nat /\ v \in Nat
  BY <1>1
<1>4. torn' \in BOOLEAN
  BY <1>2
<1> HIDE DEF p, u, v
<1>5. seen' \in [Jobs -> SUBSET Counters]
  BY <1>1, <1>2
<1> QED
  BY <1>1, <1>2, <1>3, <1>4, <1>5

LEMMA ItemTypes ==
    ASSUME StockOK, NEW x \in Jobs, Item(x).product \in Products, Item(x).quantity \in Nat,
           Reserve(x) \/ Confirm(x) \/ Release(x)
    PROVE  /\ reserved' \in [Products -> Nat] /\ sold' \in [Products -> Nat]
           /\ seen' \in [Jobs -> SUBSET Counters] /\ torn' \in BOOLEAN
<1> DEFINE n == Item(x).quantity
<1>1. PICK c \in Basis(x) :
        \/ Writes(x, c, c.reserved + n, c.sold)
        \/ Writes(x, c, Less(c.reserved, n), c.sold + n)
        \/ Writes(x, c, Less(c.reserved, n), c.sold)
  BY DEF Reserve, Confirm, Release
<1>2. c.reserved \in Nat /\ c.sold \in Nat
  BY BasisTypes
<1>3. c.reserved + n \in Nat /\ Less(c.reserved, n) \in Nat /\ c.sold + n \in Nat
  BY <1>2 DEF Less
<1> HIDE DEF n
<1> QED
  BY <1>1, <1>2, <1>3, WritesTypes

\* A step that reads counters ahead, or forgets them, keeps their types.
LEMMA SeenTypes ==
    ASSUME StockOK, NEW x \in Jobs, NEW c \in SUBSET Counters,
           seen' = [seen EXCEPT ![x] = c], UNCHANGED <<countVars, torn>>
    PROVE  StockOK'
<1>1. seen' \in [Jobs -> SUBSET Counters]
  BY DEF StockOK
<1> QED
  BY <1>1 DEF StockOK, countVars

\* What a job's step does to the invariant, one action at a time.
LEMMA ItemSteps ==
    ASSUME IInv, NEW x \in Jobs, Reserve(x) \/ Confirm(x) \/ Release(x)
    PROVE  IInv'
<1> USE DEF IInv
<1>1. /\ x[1] \in Orders /\ x[2] \in Kinds /\ job[x].item \in DOMAIN Cart[x[1]]
      /\ JobsOK /\ StockOK /\ RestOK
  BY TypeParts DEF Jobs, JobsOK
<1>2. /\ Item(x).product \in Products /\ Item(x).quantity \in Nat
      /\ UnitsAt(x) \subseteq Units /\ \A u \in UnitsAt(x) : u.order = x[1]
  BY <1>1, CartItems, UnitsAreUnits DEF Item, UnitsAt
<1>4. job[x].at \in {"reserve", "confirm", "release"} /\ Unlocks(x)
  BY DEF Reserve, Confirm, Release
<1>12. job[x].item + 1 \in Nat /\ job[x].at \in Steps
  BY <1>1, <1>4, CartItems DEF Steps
<1>5. /\ JobsOK' /\ \A y \in Jobs \ {x} : job'[y] = job[y]
      /\ job'[x].at \in {job[x].at, After(x[2], job[x].at),
                         Caught(x[2], job[x].at, job[x].item + 1)}
  BY <1>1, <1>4, <1>12, UnlocksKeepsJobs, StepsAfter
<1>6. RestOK' /\ payments' = payments
  BY <1>1 DEF Reserve, Confirm, Release, RestOK, rowVars, cancelVars, faultVars
<1>7. \A o \in Orders : payments[o] \in Nat
  BY <1>1, SagaAssumption DEF RestOK
<1>8. StockOK'
  <2>1. reserved \in [Products -> Nat] /\ sold \in [Products -> Nat]
        /\ held \subseteq Units /\ bought \subseteq Units
    BY <1>1 DEF StockOK
  <2>2. /\ reserved' \in [Products -> Nat] /\ sold' \in [Products -> Nat]
        /\ seen' \in [Jobs -> SUBSET Counters] /\ torn' \in BOOLEAN
    BY <1>1, <1>2, ItemTypes
  <2>4. held' \subseteq Units
    BY <1>2, <2>1 DEF Reserve, Confirm, Release
  <2>5. bought' \subseteq Units
    BY <1>2, <2>1 DEF Reserve, Confirm, Release
  <2> QED
    BY <2>2, <2>4, <2>5 DEF StockOK
<1>11. RequestsRunOnce'
  <2>1. job'[x].at = "retry" => x[2] # "create"
    BY <1>1, <1>4, <1>5, <1>12, StepsAfter
  <2> QED
    BY <1>5, <2>1, NotRetried
<1>9. CASE Reserve(x) \/ Release(x)
  <2>1. bought' = bought
    BY <1>9 DEF Reserve, Release
  <2>2. job'[x].at # "confirm"
    BY <1>1, <1>5, <1>9, <1>12, StepsAfter DEF Reserve, Release, Steps
  <2>3. \A o \in Orders : payments'[o] >= payments[o]
    BY <1>6, <1>7
  <2> QED
    BY <1>5, <1>6, <1>8, <1>11, <2>1, <2>2, <2>3, NothingSold
<1>10. CASE Confirm(x)
  <2>2. payments[x[1]] > 0
    BY <1>10 DEF ConfirmingIsPaid, Confirm
  <2>3. ConfirmingIsPaid'
    BY <1>5, <1>6, <2>2 DEF ConfirmingIsPaid
  <2>4. SoldIsPaid'
    BY <1>2, <1>6, <1>10, <2>2 DEF SoldIsPaid, Confirm
  <2>5. TypeOK'
    BY <1>5, <1>6, <1>8, TypePartsNext
  <2> QED
    BY <1>11, <2>3, <2>4, <2>5
<1> QED
  BY <1>9, <1>10

LEMMA PaySteps ==
    ASSUME IInv, NEW x \in Jobs, Pay(x)
    PROVE  IInv'
<1> USE DEF IInv
<1>1. x[1] \in Orders /\ x[2] \in Kinds /\ JobsOK /\ StockOK /\ RestOK
  BY TypeParts DEF Jobs
<1>2. /\ JobsOK' /\ job'[x].at # "retry"
      /\ \A y \in Jobs \ {x} : job'[y] = job[y]
  <2>1. Goto(x, After(x[2], "pay")) /\ After(x[2], "pay") \in Steps \ {"retry"}
    BY <1>1, StepsAfter DEF Pay, Steps
  <2> QED
    BY <1>1, <2>1, GotoKeepsJobs
<1>3. StockOK' /\ bought' = bought
  BY <1>1 DEF Pay, StockOK, stockVars, countVars
<1>4. Paid(x[1]) /\ payments[x[1]] < MaxPayments
  BY DEF Pay, Paid
<1>5. /\ payments' \in [Orders -> 0..MaxPayments] /\ payments'[x[1]] > 0
      /\ \A o \in Orders : payments[o] \in Nat /\ payments'[o] \in Nat /\ payments'[o] >= payments[o]
      /\ row' \in [Orders -> {"absent", "pending", "paid", "cancelled"}]
  BY <1>1, <1>4, PaidRaisesPayments
<1>6. RestOK'
  BY <1>1, <1>5 DEF Pay, RestOK, cancelVars, faultVars
<1>7. ConfirmingIsPaid'
  BY <1>2, <1>5 DEF ConfirmingIsPaid, Jobs
<1>8. SoldIsPaid'
  BY <1>1, <1>3, <1>5 DEF SoldIsPaid, StockOK, Units
<1>9. TypeOK'
  BY <1>2, <1>3, <1>6, TypePartsNext
<1>10. RequestsRunOnce'
  BY <1>2, NotRetried
<1> QED
  BY <1>7, <1>8, <1>9, <1>10

\* Steps that change one job, and at most the status of its order, the parked
\* tasks and the history of faults.
LEMMA JobSteps ==
    ASSUME IInv, NEW x \in Jobs,
           \/ Take(x) \/ StepRaises(x) \/ HandlerReads(x) \/ HandlerCancels(x)
           \/ Ack(x) \/ Crash(x)
    PROVE  IInv'
<1> USE DEF IInv
<1>1. x[1] \in Orders /\ x[2] \in Kinds /\ JobsOK /\ StockOK /\ RestOK
  BY TypeParts DEF Jobs
<1>2. StockOK' /\ bought' = bought
  <2>1. CASE StepRaises(x) \/ Crash(x)
    BY <1>1, <2>1, SeenTypes DEF StepRaises, Crash, countVars
  <2>2. CASE Take(x) \/ HandlerReads(x) \/ HandlerCancels(x) \/ Ack(x)
    BY <1>1, <2>2 DEF Take, HandlerReads, HandlerCancels, Ack, StockOK, stockVars, countVars
  <2> QED
    BY <2>1, <2>2
<1>3. payments' = payments /\ \A o \in Orders : payments'[o] >= payments[o]
  <2>1. \A o \in Orders : payments[o] \in Nat
    BY <1>1, SagaAssumption DEF RestOK
  <2> QED
    BY <2>1 DEF Take, StepRaises, HandlerReads, HandlerCancels, Ack, Crash, rowVars
<1>4. RestOK'
  <2>1. CASE Crash(x)
    <3>1. faults' \in 0..MaxFaults
      BY <1>1, <2>1, SagaAssumption DEF Crash, RestOK
    <3> QED
      BY <1>1, <2>1, <3>1 DEF Crash, RestOK, rowVars, cancelVars
  <2>2. CASE HandlerCancels(x)
    BY <1>1, <2>2 DEF HandlerCancels, RestOK, cancelVars, faultVars
  <2>3. CASE Take(x) \/ StepRaises(x) \/ HandlerReads(x) \/ Ack(x)
    BY <1>1, <2>3 DEF Take, StepRaises, HandlerReads, Ack, RestOK, rowVars, cancelVars, faultVars
  <2> QED
    BY <2>1, <2>2, <2>3
<1>5. /\ JobsOK' /\ job'[x].at # "confirm"
      /\ job'[x].at = "retry" => x[2] # "create"
      /\ \A y \in Jobs \ {x} : job'[y] = job[y]
  <2>1. CASE StepRaises(x)
    <3>1. job[x].at \in Steps /\ job[x].item \in Nat
      BY <1>1 DEF JobsOK, JobRecords
    <3>2. /\ Caught(x[2], job[x].at, job[x].item) \in Steps \ {"confirm"}
          /\ Caught(x[2], job[x].at, job[x].item) = "retry" => x[2] # "create"
      BY <1>1, <3>1, StepsAfter
    <3> QED
      BY <1>1, <2>1, <3>2, RaisesKeepsJobs DEF StepRaises
  <2>2. CASE ~StepRaises(x)
    <3>1. PICK s \in Steps \ {"confirm"} :
            Goto(x, s) /\ (s = "retry" => x[2] # "create")
      <4>1. {"rollback", "dead", "retry", "ended", "queued"} \subseteq Steps \ {"confirm"}
        BY DEF Steps
      <4>2. CASE Take(x)
        BY <1>1, <4>2, StepsAfter DEF Take
      <4>3. CASE HandlerReads(x)
        BY <4>1, <4>3 DEF HandlerReads, AfterHandler
      <4>4. CASE HandlerCancels(x)
        BY <4>1, <4>4 DEF HandlerCancels, AfterHandler
      <4>5. CASE Ack(x) \/ Crash(x)
        BY <4>1, <4>5 DEF Ack, Crash
      <4> QED
        BY <2>2, <4>2, <4>3, <4>4, <4>5
    <3> QED
      BY <1>1, <3>1, GotoKeepsJobs
  <2> QED
    BY <2>1, <2>2
<1>6. RequestsRunOnce'
  BY <1>5, NotRetried
<1> QED
  BY <1>2, <1>3, <1>4, <1>5, <1>6, NothingSold

LEMMA ReadSteps ==
    ASSUME IInv, NEW x \in Jobs, ReadsUnlocked(x)
    PROVE  IInv'
<1>1. JobsOK /\ StockOK /\ RestOK
  BY TypeParts DEF IInv
<1>2. Item(x).product \in Products
  BY <1>1, CartItems DEF Item, JobsOK, Jobs
<1>3. {Current(Item(x).product)} \in SUBSET Counters
  BY <1>1, <1>2 DEF Current, Counters, StockOK
<1>4. StockOK'
  BY <1>1, <1>3, SeenTypes DEF ReadsUnlocked
<1>5. job' = job /\ payments' = payments /\ bought' = bought
  BY DEF ReadsUnlocked, rowVars, countVars
<1>6. JobsOK' /\ RestOK'
  BY <1>1 DEF ReadsUnlocked, JobsOK, RestOK, rowVars, cancelVars, faultVars
<1>7. ConfirmingIsPaid' /\ RequestsRunOnce' /\ SoldIsPaid'
  BY <1>5 DEF IInv, ConfirmingIsPaid, RequestsRunOnce, SoldIsPaid
<1> QED
  BY <1>4, <1>6, <1>7, TypePartsNext DEF IInv

LEMMA SendSteps ==
    ASSUME IInv, NEW x \in Jobs, SendPayment(x)
    PROVE  IInv'
<1> USE DEF IInv
<1> DEFINE p == <<x[1], "payment">>
<1>1. x[1] \in Orders /\ JobsOK /\ StockOK /\ RestOK /\ p \in Jobs
  BY TypeParts DEF Jobs, Kinds
<1>2. StockOK' /\ RestOK' /\ bought' = bought /\ payments' = payments
  BY <1>1 DEF SendPayment, StockOK, RestOK, rowVars, stockVars, countVars, cancelVars, faultVars
<1>3. \A o \in Orders : payments'[o] >= payments[o]
  BY <1>1, <1>2, SagaAssumption DEF RestOK
<1> DEFINE r == [job[x] EXCEPT !.at = "ack"]
<1>4. /\ job[x].at = "send" /\ Idle(p)
      /\ job' = [job EXCEPT ![x].at = "ack", ![p] = At("queued")]
  BY DEF SendPayment
<1>5. job[x] \in JobRecords /\ job[x].item \in DOMAIN Cart[x[1]]
  BY <1>1 DEF JobsOK
<1>6. r \in JobRecords /\ r.at = "ack" /\ r.item = job[x].item
  BY <1>5 DEF JobRecords, Steps
<1>7. At("queued") \in JobRecords /\ At("queued").at = "queued" /\ At("queued").item = 1
  BY SagaAssumption DEF At, JobRecords, Steps
<1>8. x # p
  BY <1>4 DEF Idle
<1>9. 1 \in DOMAIN Cart[p[1]]
  BY <1>1, CartItems DEF Jobs
<1>10. DOMAIN job = Jobs
  BY <1>1 DEF JobsOK
<1>11. /\ DOMAIN job' = Jobs /\ job'[x] = r /\ job'[p] = At("queued")
       /\ \A y \in Jobs \ {x, p} : job'[y] = job[y]
       /\ job' = [y \in Jobs |-> job'[y]]
  BY <1>1, <1>4, <1>8, <1>10
<1> HIDE DEF r, p
<1>12. JobsOK'
  BY <1>1, <1>5, <1>6, <1>7, <1>9, <1>11 DEF JobsOK
<1>13. /\ job'[x].at # "confirm"
       /\ \A y \in Jobs \ {x} : job'[y] = job[y] \/ job'[y].at # "confirm"
  BY <1>6, <1>7, <1>11
<1>14. RequestsRunOnce'
  BY <1>6, <1>7, <1>11, NotRetried
<1> QED
  BY <1>2, <1>3, <1>12, <1>13, <1>14, NothingSold

LEMMA RetrySteps ==
    ASSUME IInv, NEW x \in Jobs, Retry(x)
    PROVE  IInv'
<1> USE DEF IInv
<1>1. x[1] \in Orders /\ JobsOK /\ StockOK /\ RestOK
  BY TypeParts DEF Jobs
<1>8. x \in Orders \X Tasks
  BY DEF Retry, RequestsRunOnce, Jobs, Tasks
<1>2. StockOK' /\ bought' = bought /\ payments' = payments
  BY <1>1 DEF Retry, StockOK, stockVars, countVars, rowVars
<1>3. \A o \in Orders : payments'[o] >= payments[o]
  BY <1>1, <1>2, SagaAssumption DEF RestOK
<1>4. RestOK'
  BY <1>1, <1>8 DEF Retry, RestOK, rowVars, cancelVars
<1>5. job[x] \in JobRecords /\ job[x].item \in DOMAIN Cart[x[1]]
  BY <1>1 DEF JobsOK
<1>6. \E r \in JobRecords :
        /\ r.item \in DOMAIN Cart[x[1]] /\ r.at \in {"queued", "dead"}
        /\ job' = [job EXCEPT ![x] = r]
  <2>1. CASE job[x].tries < MaxRetries /\ job' = [job EXCEPT ![x] = [At("queued") EXCEPT !.tries = job[x].tries + 1]]
    <3> DEFINE r == [at |-> "queued", item |-> 1, tries |-> job[x].tries + 1]
    <3>1. r = [At("queued") EXCEPT !.tries = job[x].tries + 1]
      BY DEF At
    <3>2. r \in JobRecords /\ r.item = 1 /\ r.at = "queued"
      BY <1>5, <2>1, SagaAssumption DEF JobRecords, Steps
    <3>3. 1 \in DOMAIN Cart[x[1]]
      BY <1>1, CartItems
    <3> QED
      BY <2>1, <3>1, <3>2, <3>3
  <2>2. CASE job' = [job EXCEPT ![x].at = "dead"]
    <3> DEFINE r == [job[x] EXCEPT !.at = "dead"]
    <3>1. r \in JobRecords /\ r.item = job[x].item /\ r.at = "dead"
      BY <1>5 DEF JobRecords, Steps
    <3> QED
      BY <1>5, <2>2, <3>1
  <2> QED
    BY <2>1, <2>2 DEF Retry
<1>7. /\ JobsOK' /\ job'[x].at \in {"queued", "dead"}
      /\ \A y \in Jobs \ {x} : job'[y] = job[y]
  BY <1>1, <1>6, OneJob
<1>9. RequestsRunOnce' /\ job'[x].at # "confirm"
  BY <1>7, NotRetried
<1> QED
  BY <1>2, <1>3, <1>4, <1>7, <1>9, NothingSold

LEMMA ReplaySteps ==
    ASSUME IInv, NEW x \in Orders \X Tasks, Replay(x)
    PROVE  IInv'
<1> USE DEF IInv
<1>1. /\ x[1] \in Orders /\ x \in Jobs
      /\ JobsOK /\ StockOK /\ RestOK
  BY TypeParts DEF Jobs, Tasks
<1>2. StockOK' /\ bought' = bought /\ payments' = payments
  BY <1>1 DEF Replay, StockOK, stockVars, countVars, rowVars
<1>3. \A o \in Orders : payments'[o] >= payments[o]
  BY <1>1, <1>2, SagaAssumption DEF RestOK
<1>4. RestOK'
  <2>1. faults' \in 0..MaxFaults
    BY <1>1, SagaAssumption DEF Replay, RestOK
  <2> QED
    BY <1>1, <2>1 DEF Replay, RestOK, rowVars, cancelVars
<1>5. "queued" \in Steps /\ job' = [job EXCEPT ![x] = At("queued")]
  BY DEF Replay, Steps
<1>6. /\ JobsOK' /\ job'[x].at = "queued"
      /\ \A y \in Jobs \ {x} : job'[y] = job[y]
  BY <1>1, <1>5, AtKeepsJobs
<1>7. RequestsRunOnce'
  BY <1>1, <1>6, NotRetried
<1> QED
  BY <1>1, <1>2, <1>3, <1>4, <1>6, <1>7, NothingSold

\* What the service and its clients do to an order.
LEMMA OrderSteps ==
    ASSUME IInv, NEW o \in Orders,
           PlaceOrder(o) \/ PayByHand(o) \/ CancelReads(o) \/ CancelWrites(o)
    PROVE  IInv'
<1> USE DEF IInv
<1>1. JobsOK /\ StockOK /\ RestOK
  BY TypeParts
<1>2. StockOK' /\ bought' = bought
  BY <1>1 DEF PlaceOrder, PayByHand, CancelReads, CancelWrites, StockOK, stockVars, countVars
<1>3. /\ payments' \in [Orders -> 0..MaxPayments]
      /\ \A p \in Orders : payments'[p] >= payments[p]
      /\ row' \in [Orders -> {"absent", "pending", "paid", "cancelled"}]
  <2>1. CASE PayByHand(o)
    <3>1. Paid(o) /\ payments[o] < MaxPayments
      BY <2>1 DEF PayByHand, Paid
    <3> QED
      BY <1>1, <3>1, PaidRaisesPayments
  <2>2. CASE ~PayByHand(o)
    <3>1. payments' = payments
      BY <2>2 DEF PlaceOrder, CancelReads, CancelWrites, rowVars
    <3>2. row' \in [Orders -> {"absent", "pending", "paid", "cancelled"}]
      BY <1>1, <2>2 DEF PlaceOrder, CancelReads, CancelWrites, rowVars, RestOK
    <3>3. \A p \in Orders : payments[p] \in Nat
      BY <1>1, SagaAssumption DEF RestOK
    <3> QED
      BY <1>1, <3>1, <3>2, <3>3 DEF RestOK
  <2> QED
    BY <2>1, <2>2
<1>4. RestOK'
  <2>1. CASE CancelWrites(o)
    BY <1>1, <1>3, <2>1 DEF CancelWrites, RestOK
  <2>2. CASE PlaceOrder(o)
    BY <1>1, <1>3, <2>2 DEF PlaceOrder, RestOK, cancelVars
  <2>3. CASE PayByHand(o)
    BY <1>1, <1>3, <2>3 DEF PayByHand, RestOK, cancelVars, faultVars
  <2>4. CASE CancelReads(o)
    BY <1>1, <1>3, <2>4 DEF CancelReads, RestOK, rowVars, faultVars
  <2> QED
    BY <2>1, <2>2, <2>3, <2>4
<1>5. PICK x \in Jobs, s \in Steps \ {"confirm", "retry"} :
        job' = [job EXCEPT ![x] = At(s)] \/ job' = job
  <2>1. \A k \in Kinds : <<o, k>> \in Jobs
    BY DEF Jobs
  <2>2. {"create", "reserve", "release"} \subseteq Kinds
    BY DEF Kinds
  <2>3. {"reserve", "queued", "release"} \subseteq Steps \ {"confirm", "retry"}
    BY DEF Steps
  <2> QED
    BY <2>1, <2>2, <2>3 DEF PlaceOrder, PayByHand, CancelReads, CancelWrites
<1>6. CASE job' = job
  <2>1. JobsOK'
    BY <1>1, <1>6 DEF JobsOK
  <2>2. ConfirmingIsPaid' /\ SoldIsPaid'
    <3>1. \A p \in Orders : payments[p] \in Nat /\ payments'[p] \in Nat
      BY <1>1, <1>3, SagaAssumption DEF RestOK
    <3>2. ConfirmingIsPaid'
      BY <1>3, <1>6, <3>1 DEF ConfirmingIsPaid, Jobs
    <3>3. \A u \in bought : u.order \in Orders
      BY <1>1 DEF StockOK, Units
    <3>4. SoldIsPaid'
      BY <1>2, <1>3, <3>1, <3>3 DEF SoldIsPaid
    <3> QED
      BY <3>2, <3>4
  <2>3. TypeOK'
    BY <1>2, <1>4, <2>1, TypePartsNext
  <2>4. RequestsRunOnce'
    BY <1>6 DEF RequestsRunOnce
  <2> QED
    BY <2>2, <2>3, <2>4
<1>7. CASE job' = [job EXCEPT ![x] = At(s)]
  <2>1. /\ JobsOK' /\ job'[x].at = s
        /\ \A y \in Jobs \ {x} : job'[y] = job[y]
    BY <1>1, <1>7, AtKeepsJobs
  <2>2. RequestsRunOnce'
    BY <2>1, NotRetried
  <2> QED
    BY <1>2, <1>3, <1>4, <2>1, <2>2, NothingSold
<1> QED
  BY <1>5, <1>6, <1>7

LEMMA StepInv == IInv /\ [Next]_vars => IInv'
<1> SUFFICES ASSUME IInv, [Next]_vars PROVE IInv'
  OBVIOUS
<1>1. CASE \E x \in Orders \X Kinds : JobStep(x) \/ Crash(x)
  BY <1>1, ItemSteps, PaySteps, JobSteps, ReadSteps, SendSteps, RetrySteps DEF JobStep, Jobs
<1>2. CASE \E x \in Orders \X Tasks : Replay(x)
  BY <1>2, ReplaySteps
<1>3. CASE \E o \in Orders : PlaceOrder(o) \/ PayByHand(o) \/ CancelReads(o) \/ CancelWrites(o)
  BY <1>3, OrderSteps
<1>4. CASE UNCHANGED vars
  <2>1. job' = job /\ payments' = payments /\ bought' = bought
    BY <1>4 DEF vars, rowVars, stockVars, countVars
  <2>2. TypeOK'
    BY <1>4 DEF IInv, TypeOK, vars, rowVars, stockVars, countVars, cancelVars, faultVars
  <2>3. ConfirmingIsPaid' /\ RequestsRunOnce' /\ SoldIsPaid'
    BY <2>1 DEF IInv, ConfirmingIsPaid, RequestsRunOnce, SoldIsPaid
  <2> QED
    BY <2>2, <2>3 DEF IInv
<1> QED
  BY <1>1, <1>2, <1>3, <1>4 DEF Next

LEMMA Inductive == Spec => []IInv
  BY InitInv, StepInv, PTL DEF Spec

\* Every variable keeps its type, for any orders, carts and stock: no job
\* stands at an item its order does not have, no counter of the stock becomes
\* negative, and only tasks are parked (order, inventory, payment services and
\* tasks.py).
THEOREM TypeCorrect == Spec => []TypeOK
<1>1. IInv => TypeOK
  BY DEF IInv
<1> QED
  BY <1>1, Inductive, PTL

\* What is sold to an order has been paid for (services/payment, tasks.py and
\* the synchronous order route), for any number of orders, retries, crashes,
\* replays, cancellations and payments by hand.
THEOREM PaidBeforeSold == Spec => []SoldIsPaid
<1>1. IInv => SoldIsPaid
  BY DEF IInv
<1> QED
  BY <1>1, Inductive, PTL

-----------------------------------------------------------------------------
(* The stock counters *)

\* The step a job is at or will be taken up at, and the item.
Stage(x) == IF job[x].at = "queued" THEN First(x[2]) ELSE job[x].at
Position(x) == IF job[x].at = "queued" THEN 1 ELSE job[x].item
Stocking(x) == Stage(x) \in {"reserve", "send", "pay", "confirm", "release"}

Has(o, i) == UnitsOf(o, i) \subseteq held
Free(o, i) == UnitsOf(o, i) \cap (held \cup bought) = {}

\* How far a job has come is what its order holds.
Phase(x) ==
    \A i \in DOMAIN Cart[x[1]] :
        /\ Stage(x) = "reserve" /\ i < Position(x) => Has(x[1], i)
        /\ Stage(x) = "reserve" /\ i >= Position(x) => Free(x[1], i)
        /\ Stage(x) \in {"pay", "send"} => Has(x[1], i)
        /\ Stage(x) \in {"confirm", "release"} /\ i >= Position(x) => Has(x[1], i)

NoneBeforeOrder ==
    \A o \in Orders : row[o] = "absent" =>
        /\ \A k \in Kinds : ~Stocking(<<o, k>>)
        /\ \A i \in DOMAIN Cart[o] : Free(o, i)

OneAtATime ==
    \A x, y \in Jobs : x[1] = y[1] /\ Stocking(x) /\ Stocking(y) => x = y

Phases == \A x \in Jobs : Phase(x)

Ledger ==
    /\ IsFiniteSet(held) /\ IsFiniteSet(bought) /\ held \cap bought = {}
    /\ \A p \in Products :
        /\ reserved[p] = Cardinality(OfProduct(held, p))
        /\ sold[p] = Cardinality(OfProduct(bought, p))
        /\ reserved[p] + sold[p] <= Stock[p]

StockInv == NoneBeforeOrder /\ OneAtATime /\ Phases /\ Ledger

\* An item has as many units as its quantity.
LEMMA UnitCount ==
    ASSUME NEW o \in Orders, NEW i \in DOMAIN Cart[o]
    PROVE  /\ IsFiniteSet(UnitsOf(o, i))
           /\ Cardinality(UnitsOf(o, i)) = Cart[o][i].quantity
<1> DEFINE q == Cart[o][i].quantity
           f == [n \in 1..q |-> [order |-> o, item |-> i, unit |-> n]]
<1>1. q \in Nat
  BY CartItems
<1>2. IsFiniteSet(1..q) /\ Cardinality(1..q) = q
  <2> HIDE DEF q
  <2>1. Cardinality(1..q) = IF 1 > q THEN 0 ELSE q - 1 + 1
    BY <1>1, FS_Interval
  <2> QED
    BY <1>1, <2>1, FS_Interval
<1>3. UnitsOf(o, i) = {[order |-> o, item |-> i, unit |-> n] : n \in 1..q}
  BY DEF UnitsOf
<1>4. f \in Bijection(1..q, UnitsOf(o, i))
  <2>1. f \in [1..q -> UnitsOf(o, i)]
    BY <1>3
  <2>2. \A m, n \in 1..q : f[m] = f[n] => m = n
    <3> SUFFICES ASSUME NEW m \in 1..q, NEW n \in 1..q, f[m] = f[n] PROVE m = n
      OBVIOUS
    <3>1. f[m].unit = m /\ f[n].unit = n
      OBVIOUS
    <3> QED
      BY <3>1
  <2>3. \A u \in UnitsOf(o, i) : \E n \in 1..q : f[n] = u
    BY <1>3
  <2> HIDE DEF f
  <2>4. f \in Injection(1..q, UnitsOf(o, i))
    BY <2>1, <2>2, Fun_IsInj
  <2>5. f \in Surjection(1..q, UnitsOf(o, i))
    BY <2>1, <2>3, Fun_IsSurj
  <2> QED
    BY <2>4, <2>5 DEF Bijection
<1>5. ExistsBijection(1..q, UnitsOf(o, i))
  BY <1>4 DEF ExistsBijection
<1> QED
  BY <1>2, <1>5, FS_Bijection

LEMMA UnitsApart ==
    ASSUME NEW o \in Orders, NEW i \in DOMAIN Cart[o],
           NEW p \in Orders, NEW j \in DOMAIN Cart[p], <<o, i>> # <<p, j>>
    PROVE  UnitsOf(o, i) \cap UnitsOf(p, j) = {}
<1>1. \A u \in UnitsOf(o, i) : u.order = o /\ u.item = i
  BY DEF UnitsOf
<1>2. \A u \in UnitsOf(p, j) : u.order = p /\ u.item = j
  BY DEF UnitsOf
<1> QED
  BY <1>1, <1>2

\* The units of a product, when an item is added to a set that has none of it,
\* or taken from one that has all.
Share(o, i, p) == IF p = Cart[o][i].product THEN Cart[o][i].quantity ELSE 0

Exceeds(T, S, o, i) ==
    \A p \in Products :
        /\ Cardinality(OfProduct(S, p)) \in Nat
        /\ Cardinality(OfProduct(T, p)) = Cardinality(OfProduct(S, p)) + Share(o, i, p)

LEMMA CountAdded ==
    ASSUME NEW S, IsFiniteSet(S), NEW o \in Orders, NEW i \in DOMAIN Cart[o],
           S \cap UnitsOf(o, i) = {}, NEW T, T = S \cup UnitsOf(o, i)
    PROVE  IsFiniteSet(T) /\ Exceeds(T, S, o, i)
<1> SUFFICES ASSUME NEW p \in Products
             PROVE  /\ IsFiniteSet(T)
                    /\ Cardinality(OfProduct(S, p)) \in Nat
                    /\ Cardinality(OfProduct(T, p)) = Cardinality(OfProduct(S, p)) + Share(o, i, p)
  <2>1. IsFiniteSet(T)
    BY UnitCount, FS_Union
  <2> QED
    BY <2>1 DEF Exceeds
<1> DEFINE U == UnitsOf(o, i)
           A == OfProduct(S, p)
           B == OfProduct(U, p)
<1>1. IsFiniteSet(U) /\ Cardinality(U) = Cart[o][i].quantity
  BY UnitCount
<1>2. A \subseteq S /\ B \subseteq U /\ OfProduct(T, p) = A \cup B
  BY DEF OfProduct
<1>3. IsFiniteSet(A) /\ IsFiniteSet(B) /\ IsFiniteSet(T)
  BY <1>1, <1>2, FS_Subset, FS_Union
<1>4. \A u \in U : Cart[u.order][u.item] = Cart[o][i]
  BY DEF UnitsOf
<1>5. Cardinality(B) = Share(o, i, p)
  <2>1. CASE p = Cart[o][i].product
    <3>1. B = U
      BY <1>4, <2>1 DEF OfProduct
    <3> QED
      BY <1>1, <2>1, <3>1 DEF Share
  <2>2. CASE p # Cart[o][i].product
    <3>1. B = {}
      BY <1>4, <2>2 DEF OfProduct
    <3> QED
      BY <2>2, <3>1, FS_EmptySet DEF Share
  <2> QED
    BY <2>1, <2>2
<1>6. A \cap B = {}
  BY <1>2
<1> HIDE DEF A, B
<1>7. Cardinality(A) \in Nat /\ Cardinality(B) \in Nat
  BY <1>3, FS_CardinalityType
<1>8. Cardinality(A \cup B) = Cardinality(A) + Cardinality(B) - 0
  BY <1>3, <1>6, FS_Union, FS_EmptySet
<1>9. Cardinality(A \cup B) = Cardinality(A) + Cardinality(B)
  BY <1>7, <1>8
<1> QED
  BY <1>2, <1>3, <1>5, <1>7, <1>9 DEF A

LEMMA CountTaken ==
    ASSUME NEW S, IsFiniteSet(S), NEW o \in Orders, NEW i \in DOMAIN Cart[o],
           UnitsOf(o, i) \subseteq S, NEW T, T = S \ UnitsOf(o, i)
    PROVE  IsFiniteSet(T) /\ Exceeds(S, T, o, i)
<1>1. T \cap UnitsOf(o, i) = {} /\ S = T \cup UnitsOf(o, i)
  OBVIOUS
<1>2. IsFiniteSet(T)
  BY FS_Subset
<1> QED
  BY <1>1, <1>2, CountAdded

LEMMA JobsUntouched ==
    ASSUME NEW y \in Jobs, job'[y] = job[y]
    PROVE  /\ Stage(y)' = Stage(y) /\ Position(y)' = Position(y)
           /\ Stocking(y)' <=> Stocking(y)
  BY DEF Stage, Position, Stocking

LEMMA PhaseUntouched ==
    ASSUME NEW x \in Jobs, ~Stocking(x)'
    PROVE  Phase(x)'
  BY DEF Phase, Stocking

\* A step of a job that touches no stock.
LEMMA StockStays ==
    ASSUME StockInv, NEW x \in Jobs, \A y \in Jobs \ {x} : job'[y] = job[y],
           UNCHANGED countVars, \A o \in Orders : row'[o] = "absent" => row[o] = "absent",
           Stocking(x)' => Stocking(x) /\ Phase(x)'
    PROVE  StockInv'
<1> USE DEF StockInv
<1>1. \A y \in Jobs : Stocking(y)' => Stocking(y)
  BY JobsUntouched
<1>2. /\ held' = held /\ bought' = bought /\ reserved' = reserved /\ sold' = sold
      /\ \A o, i : (Has(o, i)' <=> Has(o, i)) /\ (Free(o, i)' <=> Free(o, i))
  BY DEF stockVars, countVars, Has, Free, UnitsOf
<1>3. NoneBeforeOrder'
  <2>1. \A o \in Orders, k \in Kinds : <<o, k>> \in Jobs
    BY DEF Jobs
  <2>2. \A o \in Orders, k \in Kinds : Stocking(<<o, k>>)' => Stocking(<<o, k>>)
    BY <1>1, <2>1
  <2> QED
    BY <1>2, <2>2 DEF NoneBeforeOrder
<1>4. OneAtATime'
  BY <1>1 DEF OneAtATime
<1>5. Phases'
  <2> SUFFICES ASSUME NEW y \in Jobs PROVE Phase(y)'
    BY DEF Phases
  <2>1. CASE y = x
    BY <2>1, PhaseUntouched
  <2>2. CASE y # x
    <3>1. Stage(y)' = Stage(y) /\ Position(y)' = Position(y) /\ Phase(y)
      BY <2>2, JobsUntouched DEF Phases
    <3> QED
      BY <1>2, <3>1 DEF Phase
  <2> QED
    BY <2>1, <2>2
<1>6. Ledger'
  BY <1>2 DEF Ledger, OfProduct
<1> QED
  BY <1>3, <1>4, <1>5, <1>6

\* A step of a job that touches the stock of the item the job is at.
LEMMA StockMoves ==
    ASSUME StockInv, JobsOK, NEW x \in Jobs, Stocking(x),
           \A y \in Jobs \ {x} : job'[y] = job[y], row' = row,
           \A u : u \notin UnitsAt(x) => (u \in held' <=> u \in held)
                                      /\ (u \in bought' <=> u \in bought),
           Phase(x)', Ledger'
    PROVE  StockInv'
<1> USE DEF StockInv
<1> DEFINE o == x[1]
           i == job[x].item
<1>1. o \in Orders /\ i \in DOMAIN Cart[o] /\ UnitsAt(x) = UnitsOf(o, i)
  BY DEF JobsOK, Jobs, UnitsAt
<1>2. ASSUME NEW p \in Orders, p # o, NEW j \in DOMAIN Cart[p]
      PROVE  (Has(p, j)' <=> Has(p, j)) /\ (Free(p, j)' <=> Free(p, j))
  <2>1. UnitsOf(p, j) \cap UnitsAt(x) = {} /\ UnitsOf(p, j)' = UnitsOf(p, j)
    BY <1>1, <1>2, UnitsApart DEF UnitsOf
  <2> QED
    BY <2>1 DEF Has, Free
<1>3. \A y \in Jobs \ {x} : Stocking(y)' <=> Stocking(y)
  BY JobsUntouched
<1>4. NoneBeforeOrder'
  <2> SUFFICES ASSUME NEW p \in Orders, row[p] = "absent"
               PROVE  /\ \A k \in Kinds : ~Stocking(<<p, k>>)'
                      /\ \A j \in DOMAIN Cart[p] : Free(p, j)'
    BY DEF NoneBeforeOrder
  <2>1. \A k \in Kinds : ~Stocking(<<p, k>>) /\ <<p, k>> \in Jobs
    BY DEF NoneBeforeOrder, Jobs
  <2>2. p # o
    BY <2>1 DEF Jobs
  <2>3. \A k \in Kinds : <<p, k>> \in Jobs \ {x}
    BY <2>1
  <2>4. \A k \in Kinds : ~Stocking(<<p, k>>)'
    BY <1>3, <2>1, <2>3
  <2> QED
    BY <1>2, <2>2, <2>4 DEF NoneBeforeOrder
<1>5. OneAtATime'
  BY <1>3 DEF OneAtATime
<1>6. Phases'
  <2> SUFFICES ASSUME NEW y \in Jobs, y # x PROVE Phase(y)'
    BY DEF Phases
  <2>1. /\ Stage(y)' = Stage(y) /\ Position(y)' = Position(y) /\ Phase(y)
        /\ Stocking(y)' <=> Stocking(y)
    BY JobsUntouched DEF Phases
  <2>2. CASE y[1] = o
    <3>1. ~Stocking(y)
      BY <2>2 DEF OneAtATime
    <3> QED
      BY <2>1, <3>1, PhaseUntouched
  <2>3. CASE y[1] # o
    <3>1. y[1] \in Orders
      BY DEF Jobs
    <3> QED
      BY <1>2, <2>1, <2>3, <3>1 DEF Phase
  <2> QED
    BY <2>2, <2>3
<1> QED
  BY <1>4, <1>5, <1>6

\* Where a loop over the items takes a job.
LEMMA AdvanceStage ==
    ASSUME JobsOK, NEW x \in Jobs, job[x].at \in {"reserve", "confirm", "release"},
           Advance(x)
    PROVE  /\ Stage(x) = job[x].at /\ Position(x) = job[x].item
           /\ job[x].item \in DOMAIN Cart[x[1]]
           /\ \/ Stage(x)' = job[x].at /\ Position(x)' = job[x].item + 1
              \/ Stage(x)' = After(x[2], job[x].at) /\ job[x].item = Len(Cart[x[1]])
<1>1. job[x] \in JobRecords /\ job[x].item \in DOMAIN Cart[x[1]] /\ x[1] \in Orders /\ x[2] \in Kinds
  BY DEF JobsOK, Jobs
<1>2. DOMAIN Cart[x[1]] = 1..Len(Cart[x[1]]) /\ Len(Cart[x[1]]) \in Nat
  BY <1>1, CartItems
<1>3. CASE job[x].item < Len(Cart[x[1]])
  <2> DEFINE r == [job[x] EXCEPT !.item = @ + 1]
  <2>1. job'[x] = r
    BY <1>3 DEF Advance, JobsOK
  <2>2. r.at = job[x].at /\ r.item = job[x].item + 1
    BY <1>1 DEF JobRecords
  <2> HIDE DEF r
  <2> QED
    BY <1>1, <2>1, <2>2 DEF Stage, Position
<1>4. CASE ~(job[x].item < Len(Cart[x[1]]))
  <2> DEFINE s == After(x[2], job[x].at)
  <2>1. Goto(x, s) /\ s \in Steps /\ s # "queued"
    <3>1. s # "queued"
      BY <1>1 DEF After
    <3>2. s \in Steps
      BY <1>1, StepsAfter DEF JobRecords
    <3> QED
      BY <1>4, <3>1, <3>2 DEF Advance
  <2>2. job[x].item = Len(Cart[x[1]])
    BY <1>1, <1>2, <1>4
  <2> HIDE DEF s
  <2>3. job'[x].at = s
    BY <2>1, GotoKeepsJobs
  <2> QED
    BY <1>1, <2>1, <2>2, <2>3 DEF Stage, Position, s
<1> QED
  BY <1>3, <1>4

LEMMA UnlockStage ==
    ASSUME JobsOK, NEW x \in Jobs, job[x].at \in {"reserve", "confirm", "release"},
           Unlocks(x)
    PROVE  /\ Stage(x) = job[x].at /\ Position(x) = job[x].item
           /\ \A y \in Jobs \ {x} : job'[y] = job[y]
           /\ \/ Stage(x)' = job[x].at /\ Position(x)' = job[x].item + 1
              \/ Stage(x)' = After(x[2], job[x].at) /\ job[x].item = Len(Cart[x[1]])
              \/ Stage(x)' \in {"rollback", "failed", "dead", "retry"}
<1>1. x[2] \in Kinds /\ job[x].at \in Steps /\ job[x].item + 1 \in Nat
  BY DEF Jobs, JobsOK, JobRecords, Steps
<1>2. CASE Advance(x)
  BY <1>1, <1>2, AdvanceStage, AdvanceKeepsJobs, StepsAfter
<1>3. CASE Raises(x, job[x].item + 1)
  <2> DEFINE s == Caught(x[2], job[x].at, job[x].item + 1)
  <2>1. s \in Steps /\ s \in {"rollback", "failed", "dead", "retry"}
    BY <1>1, StepsAfter
  <2>2. job'[x].at = s /\ \A y \in Jobs \ {x} : job'[y] = job[y]
    BY <1>3, <2>1, RaisesKeepsJobs
  <2> HIDE DEF s
  <2> QED
    BY <2>1, <2>2 DEF Stage, Position
<1> QED
  BY <1>2, <1>3 DEF Unlocks

\* The item a job stands at, in the terms of the ledger.
LEMMA ItemAt ==
    ASSUME JobsOK, StockOK, NEW x \in Jobs
    PROVE  /\ x[1] \in Orders /\ job[x].item \in DOMAIN Cart[x[1]]
           /\ UnitsAt(x) = UnitsOf(x[1], job[x].item)
           /\ Item(x).product \in Products /\ Item(x).quantity \in Nat
           /\ \A p \in Products :
                 /\ Share(x[1], job[x].item, p) = IF p = Item(x).product THEN Item(x).quantity ELSE 0
                 /\ reserved[p] \in Nat /\ sold[p] \in Nat /\ Stock[p] \in Nat
<1>1. x[1] \in Orders /\ job[x].item \in DOMAIN Cart[x[1]]
  BY DEF JobsOK, Jobs
<1>2. Item(x).product \in Products /\ Item(x).quantity \in Nat
  BY <1>1, CartItems DEF Item
<1> QED
  BY <1>1, <1>2, SagaAssumption DEF UnitsAt, Item, Share, StockOK

\* Counters that are not out of date are counted up and down.
LEMMA WritesCurrent ==
    ASSUME StockOK, NEW x \in Jobs, Item(x).product \in Products,
           NEW c, NEW r, NEW s, Writes(x, c, r, s), ~torn'
    PROVE  LET p == Item(x).product
           IN  /\ c.reserved = reserved[p] /\ c.sold = sold[p]
               /\ reserved' = [reserved EXCEPT ![p] = r]
               /\ sold' = [sold EXCEPT ![p] = s]
<1> DEFINE p == Item(x).product
<1>1. c = Current(p)
  BY DEF Writes
<1>2. c.reserved = reserved[p] /\ c.sold = sold[p]
  BY <1>1 DEF Current
<1>3. /\ reserved' = [reserved EXCEPT ![p] = IF r = c.reserved THEN @ ELSE r]
      /\ sold' = [sold EXCEPT ![p] = IF s = c.sold THEN @ ELSE s]
  BY DEF Writes
<1> HIDE DEF p
<1>4. /\ (IF r = c.reserved THEN reserved[p] ELSE r) = r
      /\ (IF s = c.sold THEN sold[p] ELSE s) = s
  BY <1>2
<1>5. /\ reserved' = [reserved EXCEPT ![p] = r]
      /\ sold' = [sold EXCEPT ![p] = s]
  BY <1>3, <1>4
<1> QED
  BY <1>2, <1>5 DEF p

LEMMA ItemWrites ==
    ASSUME StockOK, JobsOK, NEW x \in Jobs, ~torn',
           Reserve(x) \/ Confirm(x) \/ Release(x)
    PROVE  LET p == Item(x).product
               n == Item(x).quantity
           IN  \/ /\ Reserve(x) /\ n <= Stock[p] - reserved[p] - sold[p]
                  /\ reserved' = [reserved EXCEPT ![p] = reserved[p] + n] /\ sold' = sold
               \/ /\ Confirm(x)
                  /\ reserved' = [reserved EXCEPT ![p] = Less(reserved[p], n)]
                  /\ sold' = [sold EXCEPT ![p] = sold[p] + n]
               \/ /\ Release(x)
                  /\ reserved' = [reserved EXCEPT ![p] = Less(reserved[p], n)] /\ sold' = sold
<1> DEFINE p == Item(x).product
           n == Item(x).quantity
<1>1. p \in Products /\ sold \in [Products -> Nat]
  BY ItemAt DEF StockOK
<1>2. [sold EXCEPT ![p] = sold[p]] = sold
  BY <1>1
<1>3. CASE Reserve(x)
  <2>1. PICK c \in Basis(x) : Enough(x, c) /\ Writes(x, c, c.reserved + n, c.sold)
    BY <1>3 DEF Reserve
  <2>2. /\ c.reserved = reserved[p] /\ c.sold = sold[p]
        /\ reserved' = [reserved EXCEPT ![p] = c.reserved + n]
        /\ sold' = [sold EXCEPT ![p] = c.sold]
    BY <1>1, <2>1, WritesCurrent
  <2>3. n <= Stock[p] - reserved[p] - sold[p]
    BY <2>1, <2>2 DEF Enough
  <2> QED
    BY <1>2, <1>3, <2>2, <2>3
<1>4. CASE Confirm(x)
  <2>1. PICK c \in Basis(x) : Writes(x, c, Less(c.reserved, n), c.sold + n)
    BY <1>4 DEF Confirm
  <2>2. /\ c.reserved = reserved[p] /\ c.sold = sold[p]
        /\ reserved' = [reserved EXCEPT ![p] = Less(c.reserved, n)]
        /\ sold' = [sold EXCEPT ![p] = c.sold + n]
    BY <1>1, <2>1, WritesCurrent
  <2> QED
    BY <1>4, <2>2
<1>5. CASE Release(x)
  <2>1. PICK c \in Basis(x) : Writes(x, c, Less(c.reserved, n), c.sold)
    BY <1>5 DEF Release
  <2>2. /\ c.reserved = reserved[p] /\ c.sold = sold[p]
        /\ reserved' = [reserved EXCEPT ![p] = Less(c.reserved, n)]
        /\ sold' = [sold EXCEPT ![p] = c.sold]
    BY <1>1, <2>1, WritesCurrent
  <2> QED
    BY <1>2, <1>5, <2>2
<1> QED
  BY <1>3, <1>4, <1>5

LEMMA ReserveKeepsStock ==
    ASSUME StockInv, JobsOK, StockOK, Regular', NEW x \in Jobs, Reserve(x)
    PROVE  StockInv'
<1> DEFINE o == x[1]
           i == job[x].item
           U == UnitsOf(o, i)
<1>1. /\ o \in Orders /\ i \in DOMAIN Cart[o] /\ UnitsAt(x) = U
      /\ DOMAIN Cart[o] = 1..Len(Cart[o]) /\ Len(Cart[o]) \in Nat
  BY ItemAt, CartItems
<1>2. /\ job[x].at = "reserve" /\ Unlocks(x)
      /\ held' = held \cup U /\ bought' = bought /\ row' = row
  BY <1>1 DEF Reserve, rowVars
<1>9. /\ Item(x).quantity <= Stock[Item(x).product] - reserved[Item(x).product] - sold[Item(x).product]
      /\ reserved' = [reserved EXCEPT ![Item(x).product] = reserved[Item(x).product] + Item(x).quantity]
      /\ sold' = sold
  BY <1>2, ItemWrites DEF Regular, Confirm, Release
<1>3. /\ Stage(x) = "reserve" /\ Position(x) = i
      /\ \/ Stage(x)' = "reserve" /\ Position(x)' = i + 1
         \/ Stage(x)' \in {"pay", "send"} /\ i = Len(Cart[o])
         \/ Stage(x)' \in {"rollback", "failed", "dead", "retry"}
  BY <1>2, UnlockStage DEF After
<1>4. /\ \A j \in DOMAIN Cart[o] : j < i => Has(o, j)
      /\ \A j \in DOMAIN Cart[o] : j >= i => Free(o, j)
  BY <1>3 DEF StockInv, Phases, Phase
<1>5. U \cap held = {} /\ U \cap bought = {}
  <2>1. Free(o, i)
    BY <1>1, <1>4
  <2> QED
    BY <2>1 DEF Free
<1>6. Phase(x)'
  <2>1. \A j \in DOMAIN Cart[o] : j <= i => Has(o, j)'
    <3> SUFFICES ASSUME NEW j \in DOMAIN Cart[o], j <= i PROVE Has(o, j)'
      OBVIOUS
    <3>1. UnitsOf(o, j)' = UnitsOf(o, j)
      BY DEF UnitsOf
    <3>2. j < i \/ j = i
      BY <1>1
    <3> QED
      BY <1>2, <1>4, <3>1, <3>2 DEF Has
  <2>2. \A j \in DOMAIN Cart[o] : j > i => Free(o, j)'
    <3> SUFFICES ASSUME NEW j \in DOMAIN Cart[o], j > i PROVE Free(o, j)'
      OBVIOUS
    <3>1. UnitsOf(o, j)' = UnitsOf(o, j)
      BY DEF UnitsOf
    <3>2. Free(o, j) /\ UnitsOf(o, j) \cap U = {}
      BY <1>1, <1>4, UnitsApart
    <3> QED
      BY <1>2, <3>1, <3>2 DEF Free
  <2> QED
    BY <1>1, <1>3, <2>1, <2>2 DEF Phase
<1>7. Ledger'
  <2>1. IsFiniteSet(held) /\ IsFiniteSet(bought) /\ held \cap bought = {}
    BY DEF StockInv, Ledger
  <2>2. IsFiniteSet(held') /\ Exceeds(held', held, o, i)
    <3>1. held \cap U = {} /\ held' = held \cup U
      BY <1>2, <1>5
    <3> QED
      BY <1>1, <2>1, <3>1, CountAdded
  <2>4. held' \cap bought' = {}
    BY <1>2, <1>5, <2>1
  <2>3. ASSUME NEW p \in Products
        PROVE  /\ reserved'[p] = Cardinality(OfProduct(held', p))
               /\ sold'[p] = Cardinality(OfProduct(bought', p))
               /\ reserved'[p] + sold'[p] <= Stock[p]
    <3>1. /\ reserved[p] = Cardinality(OfProduct(held, p))
          /\ sold[p] = Cardinality(OfProduct(bought, p))
          /\ reserved[p] + sold[p] <= Stock[p]
      BY DEF StockInv, Ledger
    <3>2. Cardinality(OfProduct(held', p)) = Cardinality(OfProduct(held, p)) + Share(o, i, p)
      BY <2>2 DEF Exceeds
    <3>3. reserved'[p] = reserved[p] + Share(o, i, p)
      BY <1>9, ItemAt DEF StockOK
    <3>4. reserved[p] + Share(o, i, p) + sold[p] <= Stock[p]
      BY <1>9, <3>1, ItemAt
    <3> QED
      BY <1>2, <1>9, <3>1, <3>2, <3>3, <3>4
  <2> QED
    BY <1>2, <2>1, <2>2, <2>3, <2>4 DEF Ledger, OfProduct
<1>8. Stocking(x) /\ \A y \in Jobs \ {x} : job'[y] = job[y]
  BY <1>2, <1>3, UnlockStage DEF Stocking
<1> QED
  BY <1>1, <1>2, <1>6, <1>7, <1>8, StockMoves

LEMMA ConfirmKeepsStock ==
    ASSUME StockInv, JobsOK, StockOK, Regular', NEW x \in Jobs, Confirm(x) \/ Release(x)
    PROVE  StockInv'
<1> DEFINE o == x[1]
           i == job[x].item
           U == UnitsOf(o, i)
<1>1. /\ o \in Orders /\ i \in DOMAIN Cart[o] /\ UnitsAt(x) = U
      /\ DOMAIN Cart[o] = 1..Len(Cart[o]) /\ Len(Cart[o]) \in Nat
  BY ItemAt, CartItems
<1>9. /\ job[x].at \in {"confirm", "release"} /\ Unlocks(x)
      /\ held' = held \ U /\ row' = row
      /\ Confirm(x) => bought' = bought \cup U
      /\ Release(x) => bought' = bought
  BY <1>1 DEF Confirm, Release, rowVars
<1>10. /\ reserved' = [reserved EXCEPT ![Item(x).product] = Less(reserved[Item(x).product], Item(x).quantity)]
       /\ \/ /\ Confirm(x)
             /\ sold' = [sold EXCEPT ![Item(x).product] = sold[Item(x).product] + Item(x).quantity]
          \/ Release(x) /\ sold' = sold
  BY <1>9, ItemWrites DEF Regular, Reserve
<1>2. /\ job[x].at \in {"confirm", "release"}
      /\ reserved' = [reserved EXCEPT ![Item(x).product] = Less(reserved[Item(x).product], Item(x).quantity)]
      /\ held' = held \ U /\ row' = row
      /\ \/ /\ bought' = bought \cup U
            /\ sold' = [sold EXCEPT ![Item(x).product] = sold[Item(x).product] + Item(x).quantity]
         \/ bought' = bought /\ sold' = sold
  BY <1>9, <1>10
<1>3. /\ Stage(x) \in {"confirm", "release"} /\ Position(x) = i
      /\ \/ Stage(x)' \in {"confirm", "release"} /\ Position(x)' = i + 1
         \/ Stage(x)' \in {"ended", "ack"}
         \/ Stage(x)' \in {"rollback", "failed", "dead", "retry"}
  BY <1>9, UnlockStage DEF After
<1>4. \A j \in DOMAIN Cart[o] : j >= i => Has(o, j)
  BY <1>3 DEF StockInv, Phases, Phase
<1>5. U \subseteq held
  <2>1. Has(o, i)
    BY <1>1, <1>4
  <2> QED
    BY <2>1 DEF Has
<1>6. Phase(x)'
  <2>1. \A j \in DOMAIN Cart[o] : j > i => Has(o, j)'
    <3> SUFFICES ASSUME NEW j \in DOMAIN Cart[o], j > i PROVE Has(o, j)'
      OBVIOUS
    <3>1. UnitsOf(o, j)' = UnitsOf(o, j)
      BY DEF UnitsOf
    <3>2. Has(o, j) /\ UnitsOf(o, j) \cap U = {}
      BY <1>1, <1>4, UnitsApart
    <3> QED
      BY <1>2, <3>1, <3>2 DEF Has
  <2> QED
    BY <1>1, <1>3, <2>1 DEF Phase
<1>7. Ledger'
  <2>1. IsFiniteSet(held) /\ IsFiniteSet(bought) /\ held \cap bought = {}
    BY DEF StockInv, Ledger
  <2>2. U \cap bought = {} /\ IsFiniteSet(U)
    BY <1>1, <1>5, <2>1, UnitCount
  <2>5. IsFiniteSet(held') /\ Exceeds(held, held', o, i)
    <3>1. held' = held \ U
      BY <1>2
    <3> QED
      BY <1>1, <1>5, <2>1, <3>1, CountTaken
  <2>6. \/ /\ IsFiniteSet(bought') /\ Exceeds(bought', bought, o, i)
           /\ sold' = [sold EXCEPT ![Item(x).product] = sold[Item(x).product] + Item(x).quantity]
        \/ bought' = bought /\ sold' = sold
    <3>1. ASSUME bought' = bought \cup U
          PROVE  IsFiniteSet(bought') /\ Exceeds(bought', bought, o, i)
      <4>1. bought \cap U = {}
        BY <2>2
      <4> QED
        BY <1>1, <2>1, <3>1, <4>1, CountAdded
    <3> QED
      BY <1>2, <3>1
  <2>3. IsFiniteSet(held') /\ IsFiniteSet(bought') /\ held' \cap bought' = {}
    BY <1>2, <2>1, <2>5, <2>6
  <2>4. ASSUME NEW p \in Products
        PROVE  /\ reserved'[p] = Cardinality(OfProduct(held', p))
               /\ sold'[p] = Cardinality(OfProduct(bought', p))
               /\ reserved'[p] + sold'[p] <= Stock[p]
    <3> DEFINE d == Share(o, i, p)
    <3>1. /\ reserved[p] = Cardinality(OfProduct(held, p))
          /\ sold[p] = Cardinality(OfProduct(bought, p))
          /\ reserved[p] + sold[p] <= Stock[p]
      BY DEF StockInv, Ledger
    <3>2. /\ Cardinality(OfProduct(held', p)) \in Nat
          /\ Cardinality(OfProduct(held, p)) = Cardinality(OfProduct(held', p)) + d
      BY <2>5 DEF Exceeds
    <3>3. d \in Nat /\ reserved[p] \in Nat /\ sold[p] \in Nat /\ Stock[p] \in Nat
      BY ItemAt
    <3>4. reserved'[p] = reserved[p] - d
      <4>1. reserved'[p] = IF p = Item(x).product THEN Less(reserved[p], Item(x).quantity)
                                                 ELSE reserved[p]
        BY <1>2 DEF StockOK
      <4>2. d = IF p = Item(x).product THEN Item(x).quantity ELSE 0
        BY ItemAt
      <4> QED
        BY <3>1, <3>2, <3>3, <4>1, <4>2 DEF Less
    <3>5. \/ /\ sold'[p] = sold[p] + d
             /\ Cardinality(OfProduct(bought', p)) = Cardinality(OfProduct(bought, p)) + d
          \/ sold'[p] = sold[p] /\ bought' = bought
      BY <2>6, ItemAt DEF StockOK, Exceeds
    <3> HIDE DEF d
    <3>6. reserved'[p] = Cardinality(OfProduct(held', p))
      BY <3>1, <3>2, <3>3, <3>4
    <3>7. sold'[p] = Cardinality(OfProduct(bought', p)) /\ sold'[p] \in {sold[p], sold[p] + d}
      BY <3>1, <3>5
    <3>8. reserved'[p] + sold'[p] <= Stock[p]
      BY <3>1, <3>3, <3>4, <3>7
    <3> QED
      BY <3>6, <3>7, <3>8
  <2> QED
    BY <2>3, <2>4 DEF Ledger, OfProduct
<1>8. Stocking(x) /\ \A y \in Jobs \ {x} : job'[y] = job[y]
  BY <1>9, <1>3, UnlockStage DEF Stocking
<1> QED
  BY <1>1, <1>2, <1>6, <1>7, <1>8, StockMoves

LEMMA PhaseKept ==
    ASSUME NEW x \in Jobs, Phase(x), Stage(x)' = Stage(x), Position(x)' = Position(x),
           UNCHANGED countVars
    PROVE  Phase(x)'
<1>1. \A o, i : (Has(o, i)' <=> Has(o, i)) /\ (Free(o, i)' <=> Free(o, i))
  BY DEF stockVars, countVars, Has, Free, UnitsOf
<1> QED
  BY <1>1 DEF Phase

\* A job begins to work on the stock of an order when no other does.
LEMMA StockBegins ==
    ASSUME StockInv, NEW z \in Jobs, UNCHANGED countVars, Phase(z)',
           \A y \in Jobs : y[1] # z[1] => job'[y] = job[y],
           \A y \in Jobs \ {z} : y[1] = z[1] => ~Stocking(y)',
           \A o \in Orders : row'[o] = "absent" => row[o] = "absent" /\ o # z[1]
    PROVE  StockInv'
<1> USE DEF StockInv
<1>1. /\ held' = held /\ bought' = bought /\ reserved' = reserved /\ sold' = sold
      /\ \A o, i : (Has(o, i)' <=> Has(o, i)) /\ (Free(o, i)' <=> Free(o, i))
  BY DEF stockVars, countVars, Has, Free, UnitsOf
<1>2. \A y \in Jobs : y[1] # z[1] =>
          /\ Stage(y)' = Stage(y) /\ Position(y)' = Position(y)
          /\ Stocking(y)' <=> Stocking(y)
  BY JobsUntouched
<1>3. NoneBeforeOrder'
  <2> SUFFICES ASSUME NEW o \in Orders, row'[o] = "absent"
               PROVE  /\ \A k \in Kinds : ~Stocking(<<o, k>>)'
                      /\ \A i \in DOMAIN Cart[o] : Free(o, i)'
    BY DEF NoneBeforeOrder
  <2>1. row[o] = "absent" /\ o # z[1]
    OBVIOUS
  <2>2. \A k \in Kinds : <<o, k>> \in Jobs /\ <<o, k>>[1] = o
    BY DEF Jobs
  <2> QED
    BY <1>1, <1>2, <2>1, <2>2 DEF NoneBeforeOrder
<1>4. OneAtATime'
  BY <1>2 DEF OneAtATime
<1>5. Phases'
  <2> SUFFICES ASSUME NEW y \in Jobs, y # z PROVE Phase(y)'
    BY DEF Phases
  <2>1. CASE y[1] = z[1]
    BY <2>1, PhaseUntouched
  <2>2. CASE y[1] # z[1]
    BY <1>2, <2>2, PhaseKept DEF Phases
  <2> QED
    BY <2>1, <2>2
<1>6. Ledger'
  BY <1>1 DEF Ledger, OfProduct
<1> QED
  BY <1>3, <1>4, <1>5, <1>6

\* Steps of a job that touch no stock: it goes on where it was, it goes from
\* the payment to the confirmation, or it has nothing more to do with stock.
LEMMA JobsKeepStock ==
    ASSUME StockInv, IInv, Regular', NEW x \in Jobs,
           \/ Take(x) \/ Pay(x) \/ StepRaises(x) \/ HandlerReads(x) \/ HandlerCancels(x)
           \/ Retry(x) \/ Ack(x) \/ Crash(x)
    PROVE  StockInv'
<1>1. JobsOK /\ x[1] \in Orders /\ x[2] \in Kinds /\ job[x] \in JobRecords /\ Phase(x)
  BY TypeParts DEF IInv, Jobs, JobsOK, StockInv, Phases
<1>2. UNCHANGED countVars
  BY DEF Take, Pay, StepRaises, HandlerReads, HandlerCancels, Retry, Ack, Crash, stockVars
<1>3. \A o \in Orders : row'[o] = "absent" => row[o] = "absent"
  <2>1. row' = row \/ \E v \in {"paid", "cancelled"} : row' = [row EXCEPT ![x[1]] = v]
    BY DEF Take, Pay, StepRaises, HandlerReads, HandlerCancels, Retry, Ack, Crash, rowVars
  <2>2. DOMAIN row = Orders
    BY DEF IInv, TypeOK
  <2> QED
    BY <2>1, <2>2
<1>4. DOMAIN job = Jobs
  BY <1>1 DEF JobsOK
<1>5. \A s : Goto(x, s) => /\ job'[x].at = s /\ job'[x].item = 1
                           /\ \A y \in Jobs \ {x} : job'[y] = job[y]
  BY <1>4 DEF Goto
<1>6. /\ \A y \in Jobs \ {x} : job'[y] = job[y]
      /\ Stocking(x)' => Stocking(x) /\ Phase(x)'
  <2>1. CASE Take(x)
    <3>1. job[x].at = "queued" /\ Goto(x, First(x[2]))
      BY <2>1 DEF Take
    <3>2. First(x[2]) # "queued" /\ job'[x].at = First(x[2]) /\ job'[x].item = 1
      BY <1>1, <1>5, <3>1 DEF First
    <3>3. Stage(x)' = Stage(x) /\ Position(x)' = Position(x)
      BY <3>1, <3>2 DEF Stage, Position
    <3> QED
      BY <1>1, <1>2, <1>5, <3>1, <3>3, PhaseKept DEF Stocking
  <2>2. CASE Pay(x)
    <3>1. job[x].at = "pay" /\ Goto(x, "confirm")
      BY <2>2 DEF Pay, After
    <3>2. Stage(x) = "pay" /\ Stage(x)' = "confirm"
      BY <1>5, <3>1 DEF Stage
    <3>3. \A i \in DOMAIN Cart[x[1]] : Has(x[1], i)'
      BY <1>1, <1>2, <3>2 DEF Phase, Has, UnitsOf, stockVars, countVars
    <3> QED
      BY <1>5, <3>1, <3>2, <3>3 DEF Phase, Stocking
  <2>3. CASE StepRaises(x)
    <3> DEFINE s == Caught(x[2], job[x].at, job[x].item)
    <3>1. s \in Steps /\ s \in {"rollback", "failed", "dead", "retry"}
      BY <1>1, StepsAfter DEF JobRecords
    <3>2. job'[x].at = s /\ \A y \in Jobs \ {x} : job'[y] = job[y]
      BY <1>1, <2>3, <3>1, RaisesKeepsJobs DEF StepRaises
    <3> HIDE DEF s
    <3> QED
      BY <3>1, <3>2 DEF Stocking, Stage
  <2>4. CASE HandlerReads(x) \/ HandlerCancels(x) \/ Ack(x)
    <3>1. \E s \in {"rollback", "dead", "retry", "ended"} : Goto(x, s)
      BY <2>4 DEF HandlerReads, HandlerCancels, AfterHandler, Ack
    <3> QED
      BY <1>5, <3>1 DEF Stocking, Stage
  <2>5. CASE Retry(x)
    <3>1. job' = [job EXCEPT ![x].at = "dead"]
      BY <2>5 DEF Retry, Regular
    <3>2. job'[x].at = "dead" /\ \A y \in Jobs \ {x} : job'[y] = job[y]
      BY <1>1, <1>4, <3>1 DEF JobRecords
    <3> QED
      BY <3>2 DEF Stocking, Stage
  <2>6. CASE Crash(x)
    <3>1. Goto(x, "dead")
      BY <2>6 DEF Crash, Regular
    <3> QED
      BY <1>5, <3>1 DEF Stocking, Stage
  <2> QED
    BY <2>1, <2>2, <2>3, <2>4, <2>5, <2>6
<1> QED
  BY <1>2, <1>3, <1>6, StockStays

LEMMA SendKeepsStock ==
    ASSUME StockInv, IInv, NEW x \in Jobs, SendPayment(x)
    PROVE  StockInv'
<1> DEFINE z == <<x[1], "payment">>
<1>1. /\ JobsOK /\ x[1] \in Orders /\ x[2] \in Kinds /\ job[x] \in JobRecords /\ Phase(x)
      /\ z \in Jobs /\ DOMAIN job = Jobs
  BY TypeParts DEF IInv, Jobs, JobsOK, StockInv, Phases, Kinds
<1>2. UNCHANGED countVars /\ row' = row /\ job[x].at = "send"
  BY DEF SendPayment, rowVars, stockVars
<1>3. Stage(x) = "send" /\ Stocking(x)
  BY <1>2 DEF Stage, Stocking
<1>4. Idle(z) /\ job' = [job EXCEPT ![x].at = "ack", ![z] = At("queued")]
  BY DEF SendPayment
<1>5. x # z
  BY <1>2, <1>4 DEF Idle
<1>6. /\ job'[x].at = "ack" /\ job'[z].at = "queued"
      /\ \A y \in Jobs \ {x, z} : job'[y] = job[y]
  BY <1>1, <1>4, <1>5 DEF JobRecords, At
<1>7. ~Stocking(x)'
  BY <1>6 DEF Stocking, Stage
<1>8. Phase(z)'
  <2>1. Stage(z)' = "pay"
    BY <1>6 DEF Stage, First
  <2>2. \A i \in DOMAIN Cart[x[1]] : Has(x[1], i)'
    BY <1>1, <1>2, <1>3 DEF Phase, Has, UnitsOf, stockVars, countVars
  <2> QED
    BY <2>1, <2>2 DEF Phase
<1>9. \A y \in Jobs \ {z} : y[1] = z[1] => ~Stocking(y)'
  <2> SUFFICES ASSUME NEW y \in Jobs \ {z}, y[1] = x[1], y # x PROVE ~Stocking(y)'
    BY <1>7
  <2>1. ~Stocking(y)
    BY <1>3 DEF StockInv, OneAtATime
  <2> QED
    BY <1>6, <2>1, JobsUntouched
<1>10. \A o \in Orders : row'[o] = "absent" => row[o] = "absent" /\ o # z[1]
  <2>1. x = <<x[1], x[2]>>
    BY DEF Jobs
  <2>2. row[x[1]] # "absent"
    BY <1>1, <1>3, <2>1 DEF StockInv, NoneBeforeOrder
  <2> QED
    BY <1>2, <2>2
<1>11. \A y \in Jobs : y[1] # z[1] => job'[y] = job[y]
  BY <1>6
<1> QED
  BY <1>1, <1>2, <1>8, <1>9, <1>10, <1>11, StockBegins

\* What the service and its clients do to an order.
LEMMA OrdersKeepStock ==
    ASSUME StockInv, IInv, Regular', NEW o \in Orders,
           PlaceOrder(o) \/ PayByHand(o) \/ CancelReads(o) \/ CancelWrites(o)
    PROVE  StockInv'
<1>1. /\ DOMAIN job = Jobs /\ DOMAIN row = Orders
      /\ \A k \in Kinds : <<o, k>> \in Jobs /\ <<o, k>>[1] = o
  BY DEF IInv, TypeOK, Jobs
<1>2. UNCHANGED countVars
  BY DEF PlaceOrder, PayByHand, CancelReads, CancelWrites, stockVars
<1>3. \A p \in Orders : row'[p] = "absent" => row[p] = "absent"
  <2>1. row' = row \/ \E v \in {"pending", "paid", "cancelled"} : row' = [row EXCEPT ![o] = v]
    BY DEF PlaceOrder, PayByHand, CancelReads, CancelWrites, rowVars
  <2> QED
    BY <1>1, <2>1
<1>4. CASE job' = job
  <2> DEFINE x == <<o, "create">>
  <2>1. x \in Jobs
    BY <1>1 DEF Kinds
  <2>2. Phase(x) /\ Stage(x)' = Stage(x) /\ Position(x)' = Position(x)
    BY <1>4, <2>1, JobsUntouched DEF StockInv, Phases
  <2>3. (Stocking(x)' <=> Stocking(x)) /\ \A y \in Jobs \ {x} : job'[y] = job[y]
    BY <1>4, <2>1, JobsUntouched
  <2> HIDE DEF x
  <2>4. Phase(x)'
    BY <1>2, <2>1, <2>2, PhaseKept
  <2> QED
    BY <1>2, <1>3, <2>1, <2>3, <2>4, StockStays
\* A job that starts when none of the order's is at the stock.
<1>5. ASSUME NEW k \in Kinds, NEW s \in {"queued", "reserve", "release"},
             job' = [job EXCEPT ![<<o, k>>] = At(s)],
             row'[o] # "absent", \A j \in Kinds : ~Stocking(<<o, j>>),
             LET first == IF s = "queued" THEN First(k) ELSE s
             IN  \/ first = "reserve" /\ \A i \in DOMAIN Cart[o] : Free(o, i)
                 \/ first = "release" /\ \A i \in DOMAIN Cart[o] : Has(o, i)
      PROVE  StockInv'
  <2> DEFINE z == <<o, k>>
  <2>1. z \in Jobs /\ z[1] = o /\ z[2] = k
    BY <1>1
  <2>2. /\ job'[z].at = s /\ job'[z].item = 1
        /\ \A y \in Jobs \ {z} : job'[y] = job[y]
    BY <1>1, <1>5, <2>1 DEF At
  <2>3. Stage(z)' = (IF s = "queued" THEN First(k) ELSE s) /\ Position(z)' = 1
    BY <2>1, <2>2 DEF Stage, Position
  <2>4. \A i \in DOMAIN Cart[o] : /\ i \in Nat \ {0}
                                  /\ Has(o, i)' <=> Has(o, i)
                                  /\ Free(o, i)' <=> Free(o, i)
    BY <1>2, CartItems DEF Has, Free, UnitsOf, stockVars, countVars
  <2>5. \A y \in Jobs \ {z} : y[1] = o => ~Stocking(y)'
    <3> SUFFICES ASSUME NEW y \in Jobs \ {z}, y[1] = o PROVE ~Stocking(y)'
      OBVIOUS
    <3>1. y = <<o, y[2]>> /\ y[2] \in Kinds
      BY DEF Jobs
    <3>2. ~Stocking(y)
      BY <1>5, <3>1
    <3> QED
      BY <2>2, <3>2, JobsUntouched
  <2>6. \A p \in Orders : row'[p] = "absent" => row[p] = "absent" /\ p # o
    BY <1>3, <1>5
  <2>7. \A y \in Jobs : y[1] # o => job'[y] = job[y]
    BY <2>1, <2>2
  <2> HIDE DEF z
  <2>8. Phase(z)'
    BY <1>5, <2>1, <2>3, <2>4 DEF Phase
  <2> QED
    BY <1>2, <2>1, <2>5, <2>6, <2>7, <2>8, StockBegins
<1>6. CASE PlaceOrder(o)
  <2>1. /\ row'[o] = "pending"
        /\ \A j \in Kinds : ~Stocking(<<o, j>>)
        /\ \A i \in DOMAIN Cart[o] : Free(o, i)
    BY <1>1, <1>6 DEF PlaceOrder, StockInv, NoneBeforeOrder
  <2>2. CASE job' = [job EXCEPT ![<<o, "create">>] = At("reserve")]
    BY <1>5, <2>1, <2>2 DEF Kinds
  <2>3. CASE job' = [job EXCEPT ![<<o, "reserve">>] = At("queued")]
    <3>1. "reserve" \in Kinds /\ First("reserve") = "reserve"
      BY DEF Kinds, First
    <3> QED
      BY <1>5, <2>1, <2>3, <3>1
  <2> QED
    BY <1>4, <1>6, <2>2, <2>3 DEF PlaceOrder
<1>7. CASE CancelWrites(o)
  <2>1. AtRest(o) /\ OfOrder(held, o) = AllUnits(o)
    BY <1>7 DEF CancelWrites, Regular
  <2>2. \A j \in Kinds : ~Stocking(<<o, j>>)
    BY <2>1 DEF AtRest, Idle, Stocking, Stage
  <2>3. \A i \in DOMAIN Cart[o] : Has(o, i)
    BY <2>1 DEF Has, OfOrder, AllUnits
  <2>4. row'[o] = "cancelled"
    BY <1>1, <1>7 DEF CancelWrites
  <2>5. "release" \in Kinds /\ First("release") = "release"
    BY DEF Kinds, First
  <2>6. CASE \E s \in {"release", "queued"} : job' = [job EXCEPT ![<<o, "release">>] = At(s)]
    BY <1>5, <2>2, <2>3, <2>4, <2>5, <2>6
  <2> QED
    BY <1>4, <1>7, <2>6 DEF CancelWrites
<1>8. CASE PayByHand(o) \/ CancelReads(o)
  BY <1>4, <1>8 DEF PayByHand, CancelReads
<1> QED
  BY <1>6, <1>7, <1>8

LEMMA StutterKeepsStock ==
    ASSUME StockInv, job' = job, row' = row, UNCHANGED countVars
    PROVE  StockInv'
<1> USE DEF StockInv
<1>1. CASE \E x : x \in Jobs
  <2>1. PICK x \in Jobs : TRUE
    BY <1>1
  <2>2. /\ Stage(x)' = Stage(x) /\ Position(x)' = Position(x) /\ Phase(x)
        /\ Stocking(x)' <=> Stocking(x)
    BY JobsUntouched DEF Phases
  <2>3. Phase(x)'
    BY <2>2, PhaseKept
  <2> QED
    BY <2>2, <2>3, StockStays
<1>2. CASE ~ \E x : x \in Jobs
  <2>1. OneAtATime' /\ Phases'
    BY <1>2 DEF OneAtATime, Phases
  <2>2. Orders = {}
    <3>1. \A o \in Orders : <<o, "create">> \in Jobs
      BY DEF Jobs, Kinds
    <3> QED
      BY <1>2, <3>1
  <2>3. NoneBeforeOrder'
    BY <2>2 DEF NoneBeforeOrder
  <2>4. Ledger'
    BY DEF Ledger, OfProduct, stockVars, countVars
  <2> QED
    BY <2>1, <2>3, <2>4
<1> QED
  BY <1>1, <1>2

RegularStock == Regular => StockInv

LEMMA InitStock == Init => RegularStock
<1> SUFFICES ASSUME Init PROVE StockInv
  BY DEF RegularStock
<1>1. \A x \in Jobs : Stage(x) = "none" /\ ~Stocking(x)
  BY DEF Init, Jobs, At, Stage, Stocking
<1>2. NoneBeforeOrder /\ OneAtATime /\ Phases
  BY <1>1 DEF Init, NoneBeforeOrder, OneAtATime, Phases, Phase, Free, Jobs
<1>3. Ledger
  <2>1. \A p \in Products : OfProduct({}, p) = {} /\ Stock[p] \in Nat
    BY SagaAssumption DEF OfProduct
  <2>2. held = {} /\ bought = {} /\ \A p \in Products : reserved[p] = 0 /\ sold[p] = 0
    BY DEF Init
  <2>3. IsFiniteSet({}) /\ Cardinality({}) = 0
    BY FS_EmptySet
  <2>4. \A p \in Products : /\ OfProduct(held, p) = {} /\ OfProduct(bought, p) = {}
                           /\ reserved[p] + sold[p] <= Stock[p]
    BY <2>1, <2>2
  <2> QED
    BY <2>2, <2>3, <2>4 DEF Ledger
<1> QED
  BY <1>2, <1>3 DEF StockInv

\* What has run twice, and what was cancelled too early, is not forgotten.
LEMMA RegularBefore ==
    ASSUME [Next]_vars, Regular'
    PROVE  Regular
<1>1. rerun \subseteq rerun' /\ early \subseteq early' /\ (torn => torn')
  <2>1. CASE \E x \in Orders \X Kinds : Reserve(x) \/ Confirm(x) \/ Release(x)
    BY <2>1 DEF Reserve, Confirm, Release, Writes, cancelVars, faultVars
  <2>2. CASE \E x \in Orders \X Kinds :
                \/ Take(x) \/ ReadsUnlocked(x) \/ Pay(x) \/ StepRaises(x) \/ SendPayment(x)
                \/ HandlerReads(x) \/ HandlerCancels(x) \/ Retry(x) \/ Ack(x) \/ Crash(x)
    BY <2>2 DEF Take, ReadsUnlocked, Pay, StepRaises, SendPayment, HandlerReads,
         HandlerCancels, Retry, Ack, Crash, stockVars, cancelVars, faultVars
  <2>3. CASE \E x \in Orders \X Tasks : Replay(x)
    BY <2>3 DEF Replay, stockVars, cancelVars
  <2>4. CASE \E o \in Orders : PlaceOrder(o) \/ PayByHand(o) \/ CancelReads(o) \/ CancelWrites(o)
    BY <2>4 DEF PlaceOrder, PayByHand, CancelReads, CancelWrites, stockVars, cancelVars, faultVars
  <2>5. CASE UNCHANGED vars
    BY <2>5 DEF vars, stockVars, cancelVars, faultVars
  <2> QED
    BY <2>1, <2>2, <2>3, <2>4, <2>5 DEF Next, JobStep
<1> QED
  BY <1>1 DEF Regular

LEMMA StepStock == IInv /\ RegularStock /\ [Next]_vars => RegularStock'
<1> SUFFICES ASSUME IInv, RegularStock, [Next]_vars, Regular' PROVE StockInv'
  BY DEF RegularStock
<1>1. StockInv /\ JobsOK /\ StockOK
  BY RegularBefore, TypeParts DEF RegularStock, IInv
<1>6. ASSUME NEW x \in Jobs, ReadsUnlocked(x) PROVE StockInv'
  BY <1>1, <1>6, StutterKeepsStock DEF ReadsUnlocked, rowVars
<1>2. CASE \E x \in Orders \X Kinds : JobStep(x) \/ Crash(x)
  BY <1>1, <1>2, <1>6, ReserveKeepsStock, ConfirmKeepsStock, JobsKeepStock, SendKeepsStock
     DEF JobStep, Jobs
<1>3. CASE \E x \in Orders \X Tasks : Replay(x)
  BY <1>3 DEF Replay, Regular
<1>4. CASE \E o \in Orders : PlaceOrder(o) \/ PayByHand(o) \/ CancelReads(o) \/ CancelWrites(o)
  BY <1>1, <1>4, OrdersKeepStock
<1>5. CASE UNCHANGED vars
  <2>1. job' = job /\ row' = row /\ UNCHANGED countVars
    BY <1>5 DEF vars, rowVars, stockVars
  <2> QED
    BY <1>1, <2>1, StutterKeepsStock
<1> QED
  BY <1>2, <1>3, <1>4, <1>5 DEF Next

\* The stock counters are the units reserved and sold to the orders, and never
\* more than there is (inventory/service.py under the jobs of order/service.py
\* and tasks.py), for any number of orders that share any products, as long as
\* nothing ran twice and no order was cancelled too early.
THEOREM StockIsCounted == Spec => []CountersAreUnits
<1>1. RegularStock => CountersAreUnits
  BY DEF RegularStock, StockInv, Ledger, CountersAreUnits
<1>2. Spec => []RegularStock
  BY InitStock, StepStock, Inductive, PTL DEF Spec
<1> QED
  BY <1>1, <1>2, PTL

-----------------------------------------------------------------------------
(* The way of an order *)

\* The steps of a request and of the tasks.
StepsOf(k) ==
    CASE k = "create" -> {"none", "reserve", "pay", "confirm", "failed", "rollback",
                          "ended", "dead"}
      [] k = "reserve" -> {"none", "queued", "reserve", "send", "failed", "rollback",
                           "retry", "ack", "ended", "dead"}
      [] k = "payment" -> {"none", "queued", "pay", "confirm", "retry", "ack", "ended", "dead"}
      [] k = "release" -> {"none", "queued", "release", "ack", "ended", "dead"}

\* Requests do the work themselves, or tasks do it.
Modes ==
    /\ \A x \in Jobs :
        /\ job[x].at \in StepsOf(x[2])
        /\ job[x].at # "none" => x[2] \in IF sync THEN {"create", "release"} ELSE Tasks
    /\ \A x \in parked : ~sync /\ x[2] # "release"

Deciding(x) == Stage(x) \in {"reserve", "send", "pay", "failed", "rollback"}
Working(x) == Deciding(x) \/ Stage(x) = "confirm"

Unpaid(o) == row[o] \in {"absent", "pending"} => payments[o] = 0

\* The payment of an order is to be tried again, or parked.
Pursued(o) == job[<<o, "payment">>].at = "retry" \/ <<o, "payment">> \in parked

\* Somebody is at work on an order that is not decided.
Decision(o) ==
    row[o] = "pending" /\ o \notin lost /\ (sync \/ level = "critical") =>
        Pursued(o) \/ \E k \in Kinds : Deciding(<<o, k>>)

\* One job at a time is at work on an order, and none before it exists.
Single(o) ==
    o \notin rerun =>
        /\ row[o] = "absent" => \A k \in Kinds : ~Working(<<o, k>>)
        /\ \A k, l \in Kinds : Working(<<o, k>>) /\ Working(<<o, l>>) => k = l

\* Nobody has paid for an order that is to be cancelled or was.
Clean(o) ==
    o \notin rerun \cup manual =>
        /\ \A k \in Kinds :
              Stage(<<o, k>>) \in {"reserve", "send", "pay", "rollback"} => payments[o] = 0
        /\ row[o] = "cancelled" /\ o \notin byClient =>
              payments[o] = 0 /\ \A k \in Kinds : ~Working(<<o, k>>)

\* A request at its confirmation has sold the items before, one that has
\* ended all.
Served(o) ==
    LET x == <<o, "create">>
    IN  job[x].at \in {"confirm", "ended"} =>
        /\ payments[o] > 0
        /\ row[o] = "paid" \/ o \in byClient
        /\ \A i \in DOMAIN Cart[o] :
              job[x].at = "ended" \/ i < job[x].item => UnitsOf(o, i) \subseteq bought

Prefix(o) ==
    \E n \in 0..Len(Cart[o]) :
        /\ n = Len(Cart[o]) => o \in Troubled
        /\ \A i \in DOMAIN Cart[o] : Has(o, i) <=> i <= n
Suffix(o) ==
    \E n \in 1..(Len(Cart[o]) + 1) : \A i \in DOMAIN Cart[o] : Has(o, i) <=> i >= n

\* What an order holds while a job is at work on it, and afterwards.
WorkHolds(x) ==
    LET o == x[1]
    IN  /\ Stage(x) = "reserve" =>
              row[o] = "pending" /\ \A i \in DOMAIN Cart[o] : Has(o, i) <=> i < Position(x)
        /\ Stage(x) \in {"send", "pay"} =>
              row[o] = "pending" /\ \A i \in DOMAIN Cart[o] : Has(o, i)
        /\ Stage(x) = "confirm" =>
              row[o] = "paid" /\ \A i \in DOMAIN Cart[o] : Has(o, i) <=> i >= Position(x)
        /\ Stage(x) = "rollback" => row[o] = "pending" /\ Prefix(o)
        /\ Stage(x) = "failed" =>
              (row[o] = "pending" /\ Prefix(o)) \/ (row[o] = "paid" /\ Suffix(o))

RestHolds(o) ==
    \/ \A i \in DOMAIN Cart[o] : ~Has(o, i)
    \/ row[o] = "cancelled" /\ Prefix(o)
    \/ row[o] = "paid" /\ Suffix(o)
    \/ row[o] = "pending" /\ ~sync /\ level # "critical"
    \/ row[o] = "pending" /\ Pursued(o)

Excused(o) == o \in rerun \cup byClient \cup manual \cup lost

Leaks(o) ==
    ~Excused(o) =>
        /\ job[<<o, "release">>].at = "none"
        /\ row[o] = "absent" => \A i \in DOMAIN Cart[o] : ~Has(o, i)
        /\ \A k \in Kinds : WorkHolds(<<o, k>>)
        /\ (\A k \in Kinds : ~Working(<<o, k>>)) => RestHolds(o)

Flow(o) == Unpaid(o) /\ Decision(o) /\ Single(o) /\ Clean(o) /\ Served(o) /\ Leaks(o)
FlowInv == Modes /\ \A o \in Orders : Flow(o)

LEMMA StepsOfKinds ==
    /\ StepsOf("create") = {"none", "reserve", "pay", "confirm", "failed", "rollback",
                            "ended", "dead"}
    /\ StepsOf("reserve") = {"none", "queued", "reserve", "send", "failed", "rollback",
                             "retry", "ack", "ended", "dead"}
    /\ StepsOf("payment") = {"none", "queued", "pay", "confirm", "retry", "ack", "ended", "dead"}
    /\ StepsOf("release") = {"none", "queued", "release", "ack", "ended", "dead"}
  BY DEF StepsOf

LEMMA JobParts ==
    ASSUME NEW x \in Jobs
    PROVE  x[1] \in Orders /\ x[2] \in Kinds /\ x = <<x[1], x[2]>>
  BY DEF Jobs

LEMMA StageUntouched ==
    ASSUME NEW y \in Jobs, job'[y] = job[y]
    PROVE  /\ Stage(y)' = Stage(y) /\ Position(y)' = Position(y)
           /\ Deciding(y)' <=> Deciding(y)
           /\ Working(y)' <=> Working(y)
  BY DEF Stage, Position, Deciding, Working

\* What the invariant says of an order, where a step does not touch it.
Untouched(o) ==
    /\ sync' = sync /\ level' = level
    /\ \A k \in Kinds : job'[<<o, k>>] = job[<<o, k>>]
    /\ <<o, "payment">> \in parked' <=> <<o, "payment">> \in parked
    /\ row'[o] = row[o] /\ payments'[o] = payments[o]
    /\ \A i \in DOMAIN Cart[o] : \A u \in UnitsOf(o, i) :
          (u \in held' <=> u \in held) /\ (u \in bought' <=> u \in bought)
    /\ o \in rerun' <=> o \in rerun
    /\ o \in lost' <=> o \in lost
    /\ o \in manual' <=> o \in manual
    /\ o \in byClient' <=> o \in byClient

LEMMA UntouchedKeepsFlow ==
    ASSUME NEW o \in Orders, Untouched(o), Flow(o)
    PROVE  Flow(o)'
<1>1. \A k \in Kinds : <<o, k>> \in Jobs /\ <<o, k>>[1] = o
  BY DEF Jobs
<1>2. \A k \in Kinds :
        /\ job'[<<o, k>>] = job[<<o, k>>]
        /\ Stage(<<o, k>>)' = Stage(<<o, k>>) /\ Position(<<o, k>>)' = Position(<<o, k>>)
        /\ Deciding(<<o, k>>)' <=> Deciding(<<o, k>>)
        /\ Working(<<o, k>>)' <=> Working(<<o, k>>)
  BY <1>1, StageUntouched DEF Untouched
<1>3. /\ sync' = sync /\ level' = level /\ row'[o] = row[o] /\ payments'[o] = payments[o]
      /\ o \in rerun' <=> o \in rerun
      /\ o \in lost' <=> o \in lost
      /\ o \in manual' <=> o \in manual
      /\ o \in byClient' <=> o \in byClient
  BY DEF Untouched
<1>4. \A i \in DOMAIN Cart[o] :
        /\ Has(o, i)' <=> Has(o, i)
        /\ UnitsOf(o, i) \subseteq bought => (UnitsOf(o, i) \subseteq bought)'
  BY DEF Untouched, Has, UnitsOf
<1>11. Pursued(o)' <=> Pursued(o)
  BY DEF Untouched, Pursued, Kinds
<1>5. Unpaid(o)' /\ Decision(o)' /\ Single(o)' /\ Clean(o)'
  BY <1>2, <1>3, <1>11 DEF Flow, Unpaid, Decision, Single, Clean
<1>6. Served(o)'
  <2>1. "create" \in Kinds
    BY DEF Kinds
  <2> QED
    BY <1>2, <1>3, <1>4, <2>1 DEF Flow, Served
<1>7. (Prefix(o)' <=> Prefix(o)) /\ (Suffix(o)' <=> Suffix(o))
  BY <1>4 DEF Prefix, Suffix
<1>8. RestHolds(o)' <=> RestHolds(o)
  BY <1>3, <1>4, <1>7, <1>11 DEF RestHolds
<1>9. \A k \in Kinds : WorkHolds(<<o, k>>) => WorkHolds(<<o, k>>)'
  BY <1>1, <1>2, <1>3, <1>4, <1>7 DEF WorkHolds
<1>10. Leaks(o)'
  <2>1. "release" \in Kinds /\ (Excused(o)' <=> Excused(o))
    BY <1>3 DEF Kinds, Excused
  <2> QED
    BY <1>2, <1>3, <1>4, <1>8, <1>9, <2>1 DEF Flow, Leaks
<1> QED
  BY <1>5, <1>6, <1>10 DEF Flow

\* A step at one order.
LEMMA FlowOfOne ==
    ASSUME FlowInv, Modes', NEW o \in Orders, Flow(o)',
           \A p \in Orders \ {o} : Untouched(p)
    PROVE  FlowInv'
  BY UntouchedKeepsFlow DEF FlowInv

\* A step of a job touches only its order.
LEMMA OthersUntouched ==
    ASSUME IInv, NEW x \in Jobs, JobStep(x) \/ Crash(x),
           NEW o \in Orders, o # x[1]
    PROVE  Untouched(o)
<1>1. /\ DOMAIN job = Jobs /\ DOMAIN row = Orders /\ DOMAIN payments = Orders
      /\ x[1] \in Orders /\ JobsOK
      /\ \A k \in Kinds : <<o, k>> \in Jobs /\ <<o, k>> # x /\ <<o, k>> # <<x[1], "payment">>
  BY TypeParts DEF IInv, JobsOK, RestOK, Jobs
<1>2. \A k \in Kinds : job'[<<o, k>>] = job[<<o, k>>]
  <2>1. CASE SendPayment(x)
    BY <1>1, <2>1 DEF SendPayment, Goto
  <2>2. CASE ReadsUnlocked(x)
    BY <2>2 DEF ReadsUnlocked
  <2>3. CASE ~SendPayment(x) /\ ~ReadsUnlocked(x)
    <3>1. \E r : job' = [job EXCEPT ![x] = r]
      <4>1. Unlocks(x) \/ Raises(x, job[x].item) => \E r : job' = [job EXCEPT ![x] = r]
        BY DEF Unlocks, Raises, Advance, Goto
      <4> QED
        BY <2>3, <4>1 DEF JobStep, Crash, Take, Reserve, Pay, Confirm, Release, StepRaises,
             HandlerReads, HandlerCancels, AfterHandler, Retry, Ack, Goto
    <3> QED
      BY <1>1, <3>1
  <2> QED
    BY <2>1, <2>2, <2>3
<1>3. /\ sync' = sync /\ level' = level
      /\ row'[o] = row[o] /\ payments'[o] = payments[o]
  <2>1. CASE Pay(x)
    BY <1>1, <2>1 DEF Pay
  <2>2. CASE HandlerCancels(x)
    BY <1>1, <2>2 DEF HandlerCancels
  <2>3. CASE ~Pay(x) /\ ~HandlerCancels(x)
    BY <2>3 DEF JobStep, Crash, Take, ReadsUnlocked, Reserve, Confirm, Release, StepRaises, SendPayment,
         HandlerReads, Retry, Ack, rowVars
  <2> QED
    BY <2>1, <2>2, <2>3
<1>4. \A i \in DOMAIN Cart[o] : \A u \in UnitsOf(o, i) :
          (u \in held' <=> u \in held) /\ (u \in bought' <=> u \in bought)
  <2>1. \A i \in DOMAIN Cart[o] : UnitsOf(o, i) \cap UnitsAt(x) = {}
    BY <1>1, UnitsApart DEF UnitsAt, JobsOK
  <2>2. /\ held' = held \/ held' = held \cup UnitsAt(x) \/ held' = held \ UnitsAt(x)
        /\ bought' = bought \/ bought' = bought \cup UnitsAt(x)
    BY DEF JobStep, Crash, Take, ReadsUnlocked, Reserve, Pay, Confirm, Release, StepRaises, SendPayment,
         HandlerReads, HandlerCancels, Retry, Ack, stockVars, countVars
  <2> QED
    BY <2>1, <2>2
<1>5. /\ o \in rerun' <=> o \in rerun
      /\ o \in lost' <=> o \in lost
      /\ o \in manual' <=> o \in manual
      /\ o \in byClient' <=> o \in byClient
  <2>1. /\ rerun' = rerun \/ rerun' = rerun \cup {x[1]}
        /\ lost' = lost \/ lost' = lost \cup {x[1]}
        /\ manual' = manual /\ byClient' = byClient
    BY DEF JobStep, Crash, Take, ReadsUnlocked, Reserve, Pay, Confirm, Release, StepRaises, SendPayment,
         HandlerReads, HandlerCancels, Retry, Ack, rowVars, cancelVars, faultVars
  <2> QED
    BY <2>1
<1>6. parked' = parked \/ parked' = parked \cup {x}
  BY DEF JobStep, Crash, Take, ReadsUnlocked, Reserve, Pay, Confirm, Release, StepRaises,
       SendPayment, HandlerReads, HandlerCancels, Retry, Ack
<1>7. <<o, "payment">> \in parked' <=> <<o, "payment">> \in parked
  BY <1>1, <1>6 DEF Kinds
<1> QED
  BY <1>2, <1>3, <1>4, <1>5, <1>7 DEF Untouched

\* A step that moves one job on, and changes no status or payment.
LEMMA MovesOn ==
    ASSUME FlowInv, NEW x \in Jobs, \A y \in Jobs \ {x} : job'[y] = job[y],
           UNCHANGED <<sync, level, row, payments, manual, byClient>>,
           rerun \subseteq rerun', lost \subseteq lost', bought \subseteq bought',
           held' = held \/ Working(x) \/ Excused(x[1])',
           Deciding(x) /\ ~Deciding(x)' =>
               \/ row[x[1]] # "pending" \/ x[1] \in lost' \/ Pursued(x[1])'
               \/ ~(sync \/ level = "critical"),
           Pursued(x[1]) =>
               Pursued(x[1])' \/ x[1] \in lost' \/ (x[1] \in rerun' /\ Deciding(x)'),
           x[1] \notin rerun' =>
               /\ Working(x)' => Working(x)
               /\ Stage(x)' \in {"reserve", "send", "pay", "rollback"}
                    => payments[x[1]] = 0 \/ x[1] \in manual,
           x[2] = "create" /\ job'[x].at \in {"confirm", "ended"} => Served(x[1])',
           ~Excused(x[1])' =>
               /\ x[2] # "release" /\ WorkHolds(x)'
               /\ Working(x) /\ ~Working(x)' => RestHolds(x[1])'
    PROVE  Flow(x[1])'
<1> DEFINE o == x[1]
           m == x[2]
<1>1. /\ o \in Orders /\ m \in Kinds /\ x = <<o, m>> /\ Flow(o)
      /\ \A k \in Kinds : <<o, k>> \in Jobs /\ (k # m => <<o, k>> # x)
  BY JobParts DEF FlowInv, Jobs
<1>2. \A k \in Kinds \ {m} :
        /\ job'[<<o, k>>] = job[<<o, k>>]
        /\ Stage(<<o, k>>)' = Stage(<<o, k>>) /\ Position(<<o, k>>)' = Position(<<o, k>>)
        /\ Deciding(<<o, k>>)' <=> Deciding(<<o, k>>)
        /\ Working(<<o, k>>)' <=> Working(<<o, k>>)
  BY <1>1, StageUntouched
<1>3. /\ sync' = sync /\ level' = level /\ row' = row /\ payments' = payments
      /\ manual' = manual /\ byClient' = byClient
      /\ \A i : /\ held' = held => (Has(o, i)' <=> Has(o, i))
                /\ UnitsOf(o, i)' = UnitsOf(o, i)
                /\ UnitsOf(o, i) \subseteq bought => (UnitsOf(o, i) \subseteq bought)'
  BY DEF Has, UnitsOf
<1>4. Unpaid(o)'
  BY <1>1, <1>3 DEF Flow, Unpaid
<1>5. Decision(o)'
  <2> SUFFICES ASSUME row[o] = "pending", o \notin lost', sync \/ level = "critical",
                      ~Pursued(o)'
               PROVE  \E k \in Kinds : Deciding(<<o, k>>)'
    BY <1>3 DEF Decision
  <2>4. CASE Pursued(o)
    BY <1>1, <2>4
  <2> SUFFICES ASSUME ~Pursued(o)
               PROVE  \E k \in Kinds : Deciding(<<o, k>>)'
    BY <2>4
  <2>1. PICK k \in Kinds : Deciding(<<o, k>>)
    BY <1>1 DEF Flow, Decision
  <2>2. CASE k = m
    BY <1>1, <2>1, <2>2
  <2>3. CASE k # m
    BY <1>2, <2>1, <2>3
  <2> QED
    BY <2>2, <2>3
<1>6. ASSUME o \notin rerun'
      PROVE  \A k \in Kinds : Working(<<o, k>>)' => Working(<<o, k>>)
  BY <1>1, <1>2, <1>6
<1>7. Single(o)'
  BY <1>1, <1>3, <1>6 DEF Flow, Single
<1>8. Clean(o)'
  <2> SUFFICES ASSUME o \notin rerun', o \notin manual
               PROVE  /\ \A k \in Kinds :
                            Stage(<<o, k>>)' \in {"reserve", "send", "pay", "rollback"}
                              => payments[o] = 0
                      /\ row[o] = "cancelled" /\ o \notin byClient =>
                            payments[o] = 0 /\ \A k \in Kinds : ~Working(<<o, k>>)'
    BY <1>3 DEF Clean
  <2>1. o \notin rerun
    OBVIOUS
  <2>2. ASSUME NEW k \in Kinds, Stage(<<o, k>>)' \in {"reserve", "send", "pay", "rollback"}
        PROVE  payments[o] = 0
    <3>1. CASE k = m
      BY <1>1, <2>2, <3>1
    <3>2. CASE k # m
      BY <1>1, <1>2, <2>1, <2>2, <3>2 DEF Flow, Clean
    <3> QED
      BY <3>1, <3>2
  <2> QED
    BY <1>1, <1>6, <2>1, <2>2 DEF Flow, Clean
<1>9. Served(o)'
  <2>1. CASE m = "create"
    BY <1>1, <2>1 DEF Served
  <2>2. CASE m # "create"
    <3>1. job'[<<o, "create">>] = job[<<o, "create">>]
      BY <1>2, <2>2 DEF Kinds
    <3> QED
      BY <1>1, <1>3, <3>1 DEF Flow, Served
  <2> QED
    BY <2>1, <2>2
<1>10. Leaks(o)'
  <2> SUFFICES ASSUME ~Excused(o)' PROVE Leaks(o)'
    BY DEF Leaks
  <2>1. ~Excused(o) /\ o \notin rerun /\ o \notin rerun'
    BY <1>3 DEF Excused
  <2>2. job'[<<o, "release">>].at = "none"
    BY <1>1, <1>2, <2>1 DEF Flow, Leaks, Kinds
  <2>3. held' = held => (Prefix(o)' <=> Prefix(o)) /\ (Suffix(o)' <=> Suffix(o))
    BY <1>3 DEF Prefix, Suffix
  <2>8. Pursued(o) => Pursued(o)'
    BY DEF Excused
  <2>4. held' = held => (RestHolds(o) => RestHolds(o)')
    BY <1>3, <2>3, <2>8 DEF RestHolds
  <2>5. \A k \in Kinds : WorkHolds(<<o, k>>)'
    <3> SUFFICES ASSUME NEW k \in Kinds, k # m PROVE WorkHolds(<<o, k>>)'
      BY <1>1
    <3>1. WorkHolds(<<o, k>>) /\ <<o, k>>[1] = o
      BY <1>1, <2>1 DEF Flow, Leaks
    <3>2. CASE held' = held
      BY <1>2, <1>3, <2>3, <3>1, <3>2 DEF WorkHolds
    <3>3. CASE held' # held
      <4>1. ~Working(<<o, k>>)'
        BY <1>1, <1>2, <2>1, <3>3 DEF Flow, Single
      <4> QED
        BY <4>1 DEF WorkHolds, Working, Deciding
    <3> QED
      BY <3>2, <3>3
  <2>6. ASSUME \A k \in Kinds : ~Working(<<o, k>>)' PROVE RestHolds(o)'
    <3>1. CASE Working(x)
      BY <1>1, <2>6, <3>1
    <3>2. CASE ~Working(x)
      <4>1. \A k \in Kinds : ~Working(<<o, k>>)
        BY <1>1, <1>2, <2>6, <3>2
      <4> QED
        BY <1>1, <2>1, <2>4, <3>2, <4>1 DEF Flow, Leaks
    <3> QED
      BY <3>1, <3>2
  <2>7. ASSUME row'[o] = "absent" PROVE \A i \in DOMAIN Cart[o] : ~Has(o, i)'
    <3>1. ~Working(x)
      BY <1>1, <1>3, <2>1, <2>7 DEF Flow, Single
    <3> QED
      BY <1>1, <1>3, <2>1, <2>7, <3>1 DEF Flow, Leaks
  <2> QED
    BY <2>2, <2>5, <2>6, <2>7 DEF Leaks
<1> QED
  BY <1>4, <1>5, <1>7, <1>8, <1>9, <1>10 DEF Flow

LEMMA ModesOn ==
    ASSUME Modes, NEW x \in Jobs, \A y \in Jobs \ {x} : job'[y] = job[y],
           sync' = sync, job[x].at # "none", job'[x].at \in StepsOf(x[2]),
           \/ parked' \subseteq parked
           \/ parked' = parked \cup {x} /\ ~sync /\ x[2] # "release"
    PROVE  Modes'
<1>1. \A y \in Jobs :
        /\ job'[y].at \in StepsOf(y[2])
        /\ job'[y].at # "none" => y[2] \in IF sync THEN {"create", "release"} ELSE Tasks
  BY DEF Modes
<1>2. \A y \in parked' : ~sync /\ y[2] # "release"
  BY DEF Modes
<1> QED
  BY <1>1, <1>2 DEF Modes, StepsOf

LEMMA HoldsKept ==
    ASSUME NEW x \in Jobs, WorkHolds(x), Stage(x)' = Stage(x), Position(x)' = Position(x),
           held' = held, row' = row
    PROVE  WorkHolds(x)'
<1>1. \A o, i : Has(o, i)' <=> Has(o, i)
  BY DEF Has, UnitsOf
<1>2. \A o : (Prefix(o)' <=> Prefix(o)) /\ (Suffix(o)' <=> Suffix(o))
  BY <1>1 DEF Prefix, Suffix
<1> QED
  BY <1>1, <1>2 DEF WorkHolds

LEMMA PursuedKept ==
    ASSUME NEW x \in Jobs, \A y \in Jobs \ {x} : job'[y] = job[y],
           parked \subseteq parked', job[x].at # "retry" \/ x[2] # "payment"
    PROVE  Pursued(x[1]) => Pursued(x[1])'
<1>1. <<x[1], "payment">> \in Jobs
  BY DEF Jobs, Kinds
<1>2. job[<<x[1], "payment">>].at = "retry" => <<x[1], "payment">> # x
  OBVIOUS
<1> QED
  BY <1>1, <1>2 DEF Pursued

\* What is known of a job that takes a step.
LEMMA AtStep ==
    ASSUME FlowInv, IInv, NEW x \in Jobs, job[x].at # "none"
    PROVE  /\ x[1] \in Orders /\ x[2] \in Kinds /\ x = <<x[1], x[2]>> /\ Flow(x[1])
           /\ job[x].at \in StepsOf(x[2]) /\ job[x] \in JobRecords
           /\ x[2] \in {"reserve", "payment"} => ~sync
           /\ x[2] = "create" => sync
           /\ ~Excused(x[1]) => x[2] # "release" /\ WorkHolds(x)
           /\ x[1] \notin rerun \cup manual /\ Stage(x) \in {"reserve", "send", "pay", "rollback"}
                => payments[x[1]] = 0
           /\ DOMAIN job = Jobs
           /\ \A s : Goto(x, s) => /\ job'[x].at = s /\ job'[x].item = 1
                                   /\ \A y \in Jobs \ {x} : job'[y] = job[y]
<1>1. x[1] \in Orders /\ x[2] \in Kinds /\ x = <<x[1], x[2]>> /\ Flow(x[1])
  BY JobParts DEF FlowInv
<1>2. job[x].at \in StepsOf(x[2]) /\ x[2] \in IF sync THEN {"create", "release"} ELSE Tasks
  BY DEF FlowInv, Modes
<1>3. ~Excused(x[1]) => x[2] # "release" /\ WorkHolds(x)
  BY <1>1 DEF Flow, Leaks
<1>4. x[1] \notin rerun \cup manual /\ Stage(x) \in {"reserve", "send", "pay", "rollback"}
        => payments[x[1]] = 0
  BY <1>1 DEF Flow, Clean
<1>5. DOMAIN job = Jobs /\ job[x] \in JobRecords
  BY TypeParts DEF IInv, JobsOK
<1>6. \A s : Goto(x, s) => /\ job'[x].at = s /\ job'[x].item = 1
                          /\ \A y \in Jobs \ {x} : job'[y] = job[y]
  BY <1>5 DEF Goto
<1>7. (x[2] \in {"reserve", "payment"} => ~sync) /\ (x[2] = "create" => sync)
  BY <1>2 DEF Tasks, Kinds
<1> QED
  BY <1>1, <1>2, <1>3, <1>4, <1>5, <1>6, <1>7

\* The actions of a job, one at a time.
LEMMA TakeFlows ==
    ASSUME FlowInv, IInv, NEW x \in Jobs, Take(x)
    PROVE  Modes' /\ Flow(x[1])'
<1>1. /\ job[x].at = "queued" /\ Goto(x, First(x[2]))
      /\ UNCHANGED <<sync, level, row, payments, manual, held, bought, byClient, rerun, lost, parked>>
  BY DEF Take, rowVars, stockVars, countVars, cancelVars, faultVars
<1>2. /\ job'[x].at = First(x[2]) /\ job'[x].item = 1
      /\ \A y \in Jobs \ {x} : job'[y] = job[y]
  BY <1>1, AtStep
<1>3. /\ x[2] \in {"reserve", "payment", "release"} /\ First(x[2]) \in StepsOf(x[2])
      /\ First(x[2]) \notin {"queued", "confirm", "ended"}
  BY <1>1, AtStep, StepsOfKinds DEF Kinds, First
<1>4. Stage(x)' = Stage(x) /\ Position(x)' = Position(x)
  BY <1>1, <1>2, <1>3 DEF Stage, Position
<1>5. (Deciding(x)' <=> Deciding(x)) /\ (Working(x)' <=> Working(x))
  BY <1>4 DEF Deciding, Working
<1>6. Modes'
  BY <1>1, <1>2, <1>3, ModesOn DEF FlowInv
<1>7. ~Excused(x[1])' => x[2] # "release" /\ WorkHolds(x)'
  BY <1>1, <1>4, AtStep, HoldsKept DEF Excused
<1>8. x[1] \notin rerun' /\ Stage(x)' \in {"reserve", "send", "pay", "rollback"}
        => payments[x[1]] = 0 \/ x[1] \in manual
  BY <1>1, <1>4, AtStep
<1>9. Pursued(x[1]) => Pursued(x[1])'
  BY <1>1, <1>2, PursuedKept
<1> QED
  BY <1>1, <1>2, <1>3, <1>5, <1>6, <1>7, <1>8, <1>9, MovesOn

LEMMA AckFlows ==
    ASSUME FlowInv, IInv, NEW x \in Jobs, Ack(x)
    PROVE  Modes' /\ Flow(x[1])'
<1>1. /\ job[x].at = "ack" /\ Goto(x, "ended")
      /\ UNCHANGED <<sync, level, row, payments, manual, held, bought, byClient, rerun, lost, parked>>
  BY DEF Ack, rowVars, stockVars, countVars, cancelVars, faultVars
<1>2. job'[x].at = "ended" /\ \A y \in Jobs \ {x} : job'[y] = job[y]
  BY <1>1, AtStep
<1>3. x[2] \in {"reserve", "payment", "release"} /\ "ended" \in StepsOf(x[2])
  BY <1>1, AtStep, StepsOfKinds DEF Kinds
<1>4. Stage(x)' = "ended" /\ Stage(x) = "ack"
  BY <1>1, <1>2 DEF Stage
<1>5. ~Deciding(x) /\ ~Working(x) /\ ~Working(x)' /\ WorkHolds(x)'
  BY <1>4 DEF Deciding, Working, WorkHolds
<1>6. Modes'
  BY <1>1, <1>2, <1>3, ModesOn DEF FlowInv
<1>7. ~Excused(x[1])' => x[2] # "release"
  BY <1>1, AtStep DEF Excused
<1>8. Pursued(x[1]) => Pursued(x[1])'
  BY <1>1, <1>2, PursuedKept
<1> QED
  BY <1>1, <1>2, <1>3, <1>4, <1>5, <1>6, <1>7, <1>8, MovesOn

LEMMA HandlerReadsFlows ==
    ASSUME FlowInv, IInv, NEW x \in Jobs, HandlerReads(x)
    PROVE  Modes' /\ Flow(x[1])'
<1>1. /\ job[x].at = "failed"
      /\ IF row[x[1]] = "pending" THEN Goto(x, "rollback")
                                  ELSE Goto(x, IF x[2] = "create" THEN "dead" ELSE "retry")
      /\ UNCHANGED <<sync, level, row, payments, manual, held, bought, byClient, rerun, lost, parked>>
  BY DEF HandlerReads, AfterHandler, rowVars, stockVars, countVars, cancelVars, faultVars
<1>2. /\ job'[x].at = IF row[x[1]] = "pending" THEN "rollback"
                      ELSE IF x[2] = "create" THEN "dead" ELSE "retry"
      /\ \A y \in Jobs \ {x} : job'[y] = job[y]
  BY <1>1, AtStep
<1>3. x[2] \in {"create", "reserve"} /\ job'[x].at \in StepsOf(x[2])
  BY <1>1, <1>2, AtStep, StepsOfKinds DEF Kinds
<1>4. Stage(x) = "failed" /\ Stage(x)' = job'[x].at
  BY <1>1, <1>2 DEF Stage
<1>5. Deciding(x) /\ Working(x) /\ (row[x[1]] = "pending" => Deciding(x)' /\ Working(x)')
  BY <1>2, <1>4 DEF Deciding, Working
<1>6. Modes'
  BY <1>1, <1>2, <1>3, ModesOn DEF FlowInv
<1>7. \A o : (Prefix(o)' <=> Prefix(o)) /\ (Suffix(o)' <=> Suffix(o))
  BY <1>1 DEF Prefix, Suffix, Has, UnitsOf
<1>8. ASSUME ~Excused(x[1])'
      PROVE  /\ WorkHolds(x)'
             /\ ~Working(x)' => RestHolds(x[1])'
  <2>1. \/ row[x[1]] = "pending" /\ Prefix(x[1])
        \/ row[x[1]] = "paid" /\ Suffix(x[1])
    BY <1>1, <1>4, <1>8, AtStep DEF Excused, WorkHolds
  <2> QED
    BY <1>1, <1>2, <1>4, <1>5, <1>7, <2>1 DEF WorkHolds, RestHolds
<1>9. Stage(x)' \in {"reserve", "send", "pay", "rollback"} => payments[x[1]] = 0
  <2>1. row[x[1]] = "pending" => payments[x[1]] = 0
    BY <1>1, AtStep DEF Flow, Unpaid
  <2> QED
    BY <1>2, <1>4, <2>1
<1>10. Pursued(x[1]) => Pursued(x[1])'
  BY <1>1, <1>2, PursuedKept
<1> QED
  BY <1>1, <1>2, <1>3, <1>5, <1>6, <1>8, <1>9, <1>10, MovesOn

LEMMA CaughtSteps ==
    ASSUME NEW s, NEW i
    PROVE  /\ Caught("create", s, i) = IF s = "reserve" /\ i = 1 THEN "rollback" ELSE "failed"
           /\ Caught("release", s, i) = "dead"
           /\ Caught("reserve", s, i) = IF level = "critical" THEN "failed" ELSE "dead"
           /\ Caught("payment", s, i) = IF level = "critical" THEN "retry" ELSE "dead"
  BY DEF Caught, Tasks, Kinds

\* A step raises, before or after its commit.
LEMMA RaisedFlows ==
    ASSUME FlowInv, IInv, NEW x \in Jobs, NEW n \in Nat, Raises(x, n),
           job[x].at \in {"reserve", "pay", "confirm", "release", "send"},
           UNCHANGED <<sync, level, row, payments, manual, byClient, rerun, lost, parked>>,
           bought \subseteq bought', held' = held \/ Working(x) \/ Excused(x[1])',
           ~Excused(x[1])' =>
               /\ job[x].at # "confirm" /\ job'[x].at \in {"failed", "rollback"}
                     => Prefix(x[1])'
               /\ job[x].at = "confirm" => Suffix(x[1])'
    PROVE  Modes' /\ Flow(x[1])'
<1> DEFINE o == x[1]
           s == Caught(x[2], job[x].at, n)
<1>1. job'[x].at = s /\ \A y \in Jobs \ {x} : job'[y] = job[y]
  <2>1. job' = [job EXCEPT ![x] = [job[x] EXCEPT !.at = s]]
    BY DEF Raises
  <2>2. [job[x] EXCEPT !.at = s].at = s
    BY AtStep DEF JobRecords
  <2> HIDE DEF s
  <2> QED
    BY <2>1, <2>2, AtStep
<1>2. Stage(x) = job[x].at
  BY DEF Stage
<1>3. /\ \/ /\ x[2] = "create" /\ job[x].at = "reserve" /\ s \in {"failed", "rollback"}
         \/ /\ x[2] = "create" /\ job[x].at \in {"pay", "confirm"} /\ s = "failed"
         \/ /\ x[2] = "reserve" /\ job[x].at \in {"reserve", "send"}
            /\ s = IF level = "critical" THEN "failed" ELSE "dead"
         \/ /\ x[2] = "payment" /\ job[x].at \in {"pay", "confirm"}
            /\ s = IF level = "critical" THEN "retry" ELSE "dead"
         \/ x[2] = "release" /\ job[x].at = "release" /\ s = "dead"
      /\ x[2] \in {"reserve", "payment"} => ~sync
  <2>1. /\ job[x].at \in StepsOf(x[2]) /\ x[2] \in Kinds
        /\ x[2] \in {"reserve", "payment"} => ~sync
    BY AtStep
  <2>2. CASE x[2] = "create"
    BY <2>1, <2>2, StepsOfKinds, CaughtSteps
  <2>3. CASE x[2] = "reserve"
    BY <2>1, <2>3, StepsOfKinds, CaughtSteps
  <2>4. CASE x[2] = "payment"
    BY <2>1, <2>4, StepsOfKinds, CaughtSteps
  <2>5. CASE x[2] = "release"
    BY <2>1, <2>5, StepsOfKinds, CaughtSteps
  <2> QED
    BY <2>1, <2>2, <2>3, <2>4, <2>5 DEF Kinds
<1> HIDE DEF s
<1>4. Stage(x)' = s /\ s \in StepsOf(x[2]) /\ s \notin {"confirm", "ended"}
  BY <1>1, <1>3, StepsOfKinds DEF Stage
<1>5. Modes'
  BY <1>1, <1>4, ModesOn DEF FlowInv
<1>6. s = "retry" => Pursued(o)'
  <2>1. x = <<o, x[2]>>
    BY JobParts
  <2> QED
    BY <1>1, <1>3, <2>1 DEF Pursued
<1>7. Deciding(x) /\ ~Deciding(x)' => Pursued(o)' \/ ~(sync \/ level = "critical")
  BY <1>2, <1>3, <1>4, <1>6 DEF Deciding
<1>8. /\ Working(x)' => Working(x)
      /\ o \notin rerun' /\ Stage(x)' \in {"reserve", "send", "pay", "rollback"}
            => payments[o] = 0 \/ o \in manual
  BY <1>2, <1>3, <1>4, AtStep DEF Working, Deciding
<1>9. ASSUME ~Excused(o)'
      PROVE  /\ x[2] # "release" /\ WorkHolds(x)'
             /\ ~Working(x)' => RestHolds(o)'
  <2>1. x[2] # "release" /\ WorkHolds(x)
    BY <1>9, AtStep DEF Excused
  <2>2. CASE job[x].at # "confirm"
    <3>1. row[o] = "pending"
      BY <1>2, <1>3, <2>1, <2>2 DEF WorkHolds
    <3>2. s \in {"failed", "rollback"} => WorkHolds(x)' /\ Working(x)'
      BY <1>1, <1>4, <1>9, <2>2, <3>1 DEF WorkHolds, Working, Deciding
    <3>3. s \in {"dead", "retry"} => WorkHolds(x)' /\ RestHolds(o)'
      BY <1>3, <1>4, <1>6, <2>1, <2>2, <3>1 DEF WorkHolds, RestHolds
    <3> QED
      BY <1>3, <2>1, <3>2, <3>3
  <2>3. CASE job[x].at = "confirm"
    <3>1. row[o] = "paid" /\ Suffix(o)'
      BY <1>2, <1>9, <2>1, <2>3 DEF WorkHolds
    <3> QED
      BY <1>3, <1>4, <2>1, <2>3, <3>1 DEF WorkHolds, RestHolds
  <2> QED
    BY <2>2, <2>3
<1>10. Pursued(o) => Pursued(o)'
  BY <1>1, PursuedKept
<1> QED
  BY <1>1, <1>4, <1>5, <1>7, <1>8, <1>9, <1>10, MovesOn

LEMMA StepRaisesFlows ==
    ASSUME FlowInv, IInv, NEW x \in Jobs, StepRaises(x)
    PROVE  Modes' /\ Flow(x[1])'
<1> DEFINE o == x[1]
<1>1. /\ job[x].at \in {"reserve", "pay", "confirm", "release", "send"}
      /\ Raises(x, job[x].item)
      /\ UNCHANGED <<sync, level, row, payments, manual, held, bought, byClient, rerun, lost, parked>>
  BY DEF StepRaises, rowVars, countVars, cancelVars, faultVars
<1>2. /\ o \in Orders /\ DOMAIN Cart[o] = 1..Len(Cart[o]) /\ Len(Cart[o]) \in Nat \ {0}
      /\ job[x].item \in DOMAIN Cart[o] /\ job[x].item \in Nat
      /\ Stage(x) = job[x].at /\ Position(x) = job[x].item
  BY <1>1, AtStep, CartItems, TypeParts DEF IInv, JobsOK, Stage, Position
<1>3. \A i : Has(o, i)' <=> Has(o, i)
  BY <1>1 DEF Has, UnitsOf
<1>4. ASSUME ~Excused(o)', job[x].at # "confirm", job'[x].at \in {"failed", "rollback"}
      PROVE  Prefix(o)'
  <2>1. x[2] # "release" /\ WorkHolds(x)
    BY <1>1, <1>4, AtStep DEF Excused
  <2>2. CASE job[x].at = "reserve"
    <3>1. \A i \in DOMAIN Cart[o] : Has(o, i) <=> i < job[x].item
      BY <1>2, <2>1, <2>2 DEF WorkHolds
    <3>2. \A i \in DOMAIN Cart[o] : Has(o, i)' <=> i <= job[x].item - 1
      BY <1>2, <1>3, <3>1
    <3>3. job[x].item - 1 \in 0..(Len(Cart[o]) - 1)
      BY <1>2
    <3>4. job[x].item - 1 \in 0..Len(Cart[o]) /\ job[x].item - 1 # Len(Cart[o])
      BY <1>2, <3>3
    <3> QED
      BY <3>2, <3>4 DEF Prefix
  <2>3. CASE job[x].at \in {"send", "pay"}
    <3>1. \A i \in DOMAIN Cart[o] : Has(o, i)
      BY <1>2, <2>1, <2>3 DEF WorkHolds
    <3>2. \A i \in DOMAIN Cart[o] : Has(o, i)' <=> i <= Len(Cart[o])
      BY <1>2, <1>3, <3>1
    <3>3. o \in Troubled
      <4>1. o \in Troubled \/ (job[x].at = "send" /\ level = "info")
        BY <2>3 DEF StepRaises
      <4>2. job[x].at = "send" => x[2] = "reserve"
        BY <1>1, AtStep, StepsOfKinds DEF Kinds
      <4>3. job'[x].at = Caught(x[2], job[x].at, job[x].item)
        <5> DEFINE s == Caught(x[2], job[x].at, job[x].item)
        <5>1. job' = [job EXCEPT ![x] = [job[x] EXCEPT !.at = s]]
          BY <1>1 DEF Raises
        <5>2. [job[x] EXCEPT !.at = s].at = s
          BY <1>1, AtStep DEF JobRecords
        <5> HIDE DEF s
        <5>3. job'[x].at = s
          BY <1>1, <5>1, <5>2, AtStep
        <5> QED
          BY <5>3 DEF s
      <4> QED
        BY <1>4, <4>1, <4>2, <4>3, CaughtSteps
    <3>4. Len(Cart[o]) \in 0..Len(Cart[o])
      BY <1>2
    <3> QED
      BY <3>2, <3>3, <3>4 DEF Prefix
  <2>4. job[x].at # "release"
    BY <1>1, <2>1, AtStep, StepsOfKinds DEF Kinds
  <2> QED
    BY <1>1, <1>4, <2>2, <2>3, <2>4
<1>5. ASSUME ~Excused(o)', job[x].at = "confirm"
      PROVE  Suffix(o)'
  <2>1. WorkHolds(x)
    BY <1>1, <1>5, AtStep DEF Excused
  <2>2. \A i \in DOMAIN Cart[o] : Has(o, i)' <=> i >= job[x].item
    BY <1>2, <1>3, <1>5, <2>1 DEF WorkHolds
  <2>3. job[x].item \in 1..(Len(Cart[o]) + 1)
    BY <1>2
  <2> QED
    BY <2>2, <2>3 DEF Suffix
<1> QED
  BY <1>1, <1>2, <1>4, <1>5, RaisedFlows

LEMMA RetryFlows ==
    ASSUME FlowInv, IInv, NEW x \in Jobs, Retry(x)
    PROVE  Modes' /\ Flow(x[1])'
<1>1. /\ job[x].at = "retry"
      /\ UNCHANGED <<sync, level, row, payments, manual, held, bought, byClient, lost>>
      /\ rerun \subseteq rerun'
  BY DEF Retry, rowVars, stockVars, countVars, cancelVars
<1>2. x[2] \in {"reserve", "payment"} /\ ~sync
  BY <1>1, AtStep, StepsOfKinds DEF Kinds
<1>3. \A y \in Jobs \ {x} : job'[y] = job[y]
  BY <1>1, AtStep DEF Retry
<1>4. \/ /\ job'[x].at = "queued" /\ x[1] \in rerun' /\ parked' = parked
      \/ /\ job'[x].at = "dead" /\ parked' = parked \cup {x}
  BY <1>1, AtStep DEF Retry, At, JobRecords
<1>5. job'[x].at \in StepsOf(x[2])
  BY <1>2, <1>4, StepsOfKinds
<1>6. Modes'
  BY <1>1, <1>2, <1>3, <1>4, <1>5, ModesOn DEF FlowInv
<1>7. ~Deciding(x) /\ ~Working(x)
  BY <1>1 DEF Deciding, Working, Stage
<1>8. x[1] \notin rerun' => Stage(x)' = "dead"
  BY <1>4 DEF Stage
<1>9. x[1] \notin rerun' => ~Working(x)' /\ WorkHolds(x)'
  BY <1>8 DEF Deciding, Working, WorkHolds
<1>10. Pursued(x[1]) => Pursued(x[1])' \/ (x[1] \in rerun' /\ Deciding(x)')
  <2>1. CASE x[2] # "payment"
    BY <1>3, <1>4, <2>1, PursuedKept
  <2>2. CASE x[2] = "payment"
    <3>1. x = <<x[1], "payment">>
      BY <2>2, JobParts
    <3>2. job'[x].at = "queued" => Deciding(x)'
      BY <2>2 DEF Deciding, Stage, First
    <3> QED
      BY <1>4, <3>1, <3>2 DEF Pursued
  <2> QED
    BY <2>1, <2>2
<1> QED
  BY <1>1, <1>2, <1>3, <1>4, <1>6, <1>7, <1>8, <1>9, <1>10, MovesOn DEF Excused

LEMMA CrashFlows ==
    ASSUME FlowInv, IInv, NEW x \in Jobs, Crash(x)
    PROVE  Modes' /\ Flow(x[1])'
<1>1. /\ job[x].at \notin {"none", "ended", "dead", "queued"}
      /\ UNCHANGED <<sync, level, row, payments, manual, held, bought, byClient, parked>>
      /\ rerun \subseteq rerun' /\ lost \subseteq lost'
  BY DEF Crash, Active, Idle, rowVars, stockVars, countVars, cancelVars
<1>2. /\ \A y \in Jobs \ {x} : job'[y] = job[y]
      /\ \/ job'[x].at = "dead" /\ x[1] \in lost'
         \/ ~sync /\ job'[x].at = "queued" /\ x[1] \in rerun'
  BY <1>1, AtStep DEF Crash
<1>3. /\ x[2] \in Kinds /\ job[x].at \in StepsOf(x[2])
      /\ x[2] \in {"reserve", "payment"} => ~sync
      /\ x[2] = "create" => sync
  BY <1>1, AtStep
<1>4. job'[x].at \in StepsOf(x[2]) /\ job'[x].at \notin {"confirm", "ended"}
  BY <1>2, <1>3, StepsOfKinds DEF Kinds
<1>5. Modes'
  BY <1>1, <1>2, <1>4, ModesOn DEF FlowInv
<1>6. ASSUME Deciding(x), x[1] \notin lost' PROVE Deciding(x)'
  <2>1. x[2] \in {"reserve", "payment"}
    BY <1>1, <1>2, <1>3, <1>6, StepsOfKinds DEF Kinds, Deciding, Stage
  <2>2. Stage(x)' = First(x[2])
    BY <1>2, <1>6 DEF Stage
  <2> QED
    BY <2>1, <2>2 DEF First, Deciding
<1>7. x[1] \notin rerun' => Stage(x)' = "dead"
  BY <1>2 DEF Stage
<1>8. x[1] \notin rerun' => ~Working(x)'
  BY <1>7 DEF Deciding, Working
<1>9. Excused(x[1])'
  BY <1>2 DEF Excused
<1>10. Pursued(x[1]) =>
          Pursued(x[1])' \/ x[1] \in lost' \/ (x[1] \in rerun' /\ Deciding(x)')
  <2>1. CASE x[2] # "payment"
    BY <1>1, <1>2, <2>1, PursuedKept
  <2>2. CASE x[2] = "payment"
    BY <1>2, <2>2 DEF Deciding, Stage, First
  <2> QED
    BY <2>1, <2>2
<1> QED
  BY <1>1, <1>2, <1>4, <1>5, <1>6, <1>7, <1>8, <1>9, <1>10, MovesOn

LEMMA ReplayFlows ==
    ASSUME FlowInv, IInv, NEW x \in Jobs, x[2] \in Tasks, Replay(x)
    PROVE  Modes' /\ Flow(x[1])'
<1>1. /\ x \in parked /\ job[x].at \in {"none", "ended", "dead"}
      /\ UNCHANGED <<sync, level, row, payments, manual, held, bought, byClient, lost>>
      /\ rerun \subseteq rerun' /\ x[1] \in rerun' /\ parked' \subseteq parked
      /\ parked \subseteq parked' \cup {x}
  BY DEF Replay, Idle, rowVars, stockVars, countVars, cancelVars
<1>2. job'[x].at = "queued" /\ \A y \in Jobs \ {x} : job'[y] = job[y]
  BY TypeParts DEF Replay, IInv, JobsOK, At
<1>3. ~sync /\ x[2] \in {"reserve", "payment"}
  BY <1>1 DEF FlowInv, Modes, Tasks, Kinds
<1>4. job'[x].at \in StepsOf(x[2])
  BY <1>2, <1>3, StepsOfKinds
<1>5. Modes'
  <2>1. \A y \in Jobs :
          /\ job'[y].at \in StepsOf(y[2])
          /\ job'[y].at # "none" => y[2] \in IF sync THEN {"create", "release"} ELSE Tasks
    BY <1>2, <1>3, <1>4 DEF FlowInv, Modes
  <2>2. \A y \in parked' : ~sync /\ y[2] # "release"
    BY <1>1 DEF FlowInv, Modes
  <2> QED
    BY <1>1, <2>1, <2>2 DEF Modes, StepsOf
<1>6. ~Deciding(x)
  BY <1>1 DEF Deciding, Stage
<1>7. Excused(x[1])'
  BY <1>1 DEF Excused
<1>8. Pursued(x[1]) => Pursued(x[1])' \/ Deciding(x)'
  <2>1. CASE x[2] # "payment"
    <3>1. <<x[1], "payment">> # x /\ <<x[1], "payment">> \in Jobs
      BY <2>1 DEF Jobs, Kinds
    <3> QED
      BY <1>1, <1>2, <3>1 DEF Pursued
  <2>2. CASE x[2] = "payment"
    BY <1>2, <2>2 DEF Deciding, Stage, First
  <2> QED
    BY <2>1, <2>2
<1> QED
  BY <1>1, <1>2, <1>3, <1>5, <1>6, <1>7, <1>8, MovesOn

\* Reserving, selling and releasing an item change what the order holds of it.
LEMMA HeldOfItem ==
    ASSUME IInv, NEW x \in Jobs, NEW i \in DOMAIN Cart[x[1]]
    PROVE  /\ held' = held \cup UnitsAt(x) =>
                  (Has(x[1], i)' <=> Has(x[1], i) \/ i = job[x].item)
           /\ held' = held \ UnitsAt(x) =>
                  (Has(x[1], i)' <=> Has(x[1], i) /\ i # job[x].item)
           /\ job[x].item \in DOMAIN Cart[x[1]]
<1> DEFINE o == x[1]
           j == job[x].item
<1>1. o \in Orders /\ j \in DOMAIN Cart[o]
  BY TypeParts, JobParts DEF IInv, JobsOK
<1>2. [order |-> o, item |-> i, unit |-> 1] \in UnitsOf(o, i)
  <2>1. Cart[o][i].quantity \in Nat \ {0}
    <3> DEFINE L == [product : Products, quantity : Nat \ {0}]
    <3>1. Cart[o] \in Seq(L) /\ DOMAIN Cart[o] = 1..Len(Cart[o]) /\ i \in DOMAIN Cart[o]
      BY <1>1, SagaAssumption, CartItems
    <3>2. Cart[o][i] \in L
      <4> HIDE DEF L
      <4> QED
        BY <3>1, ElementOfSeq
    <3> QED
      BY <3>2
  <2> QED
    BY <2>1 DEF UnitsOf
<1>3. i # j => UnitsOf(o, i) \cap UnitsOf(o, j) = {}
  BY <1>1, UnitsApart
<1>4. UnitsAt(x) = UnitsOf(o, j) /\ UnitsOf(o, i)' = UnitsOf(o, i)
  BY DEF UnitsAt, UnitsOf
<1>5. CASE i = j
  BY <1>1, <1>2, <1>4, <1>5 DEF Has
<1>6. CASE i # j
  BY <1>1, <1>3, <1>4, <1>6 DEF Has
<1> QED
  BY <1>5, <1>6

\* Over the items of the cart, or out of the loop.
LEMMA AdvanceSteps ==
    ASSUME FlowInv, IInv, NEW x \in Jobs, job[x].at \in {"reserve", "confirm", "release"},
           Advance(x)
    PROVE  /\ \A y \in Jobs \ {x} : job'[y] = job[y]
           /\ Stage(x) = job[x].at /\ Position(x) = job[x].item
           /\ job[x].item \in 1..Len(Cart[x[1]]) /\ Len(Cart[x[1]]) \in Nat
           /\ DOMAIN Cart[x[1]] = 1..Len(Cart[x[1]])
           /\ \/ job'[x].at = job[x].at /\ job'[x].item = job[x].item + 1
              \/ job'[x].at = After(x[2], job[x].at) /\ job[x].item = Len(Cart[x[1]])
<1>1. /\ job[x] \in JobRecords /\ x[1] \in Orders /\ DOMAIN job = Jobs
      /\ job[x].item \in DOMAIN Cart[x[1]]
  BY AtStep, TypeParts DEF IInv, JobsOK
<1>2. DOMAIN Cart[x[1]] = 1..Len(Cart[x[1]]) /\ Len(Cart[x[1]]) \in Nat
  BY <1>1, CartItems
<1>3. Stage(x) = job[x].at /\ Position(x) = job[x].item
  BY DEF Stage, Position
<1>4. CASE job[x].item < Len(Cart[x[1]])
  <2> DEFINE r == [job[x] EXCEPT !.item = @ + 1]
  <2>1. job' = [job EXCEPT ![x] = r]
    BY <1>4 DEF Advance
  <2>2. r.at = job[x].at /\ r.item = job[x].item + 1
    BY <1>1 DEF JobRecords
  <2> HIDE DEF r
  <2>3. job'[x] = r /\ \A y \in Jobs \ {x} : job'[y] = job[y]
    BY <1>1, <2>1
  <2> QED
    BY <1>1, <1>2, <1>3, <2>2, <2>3
<1>5. CASE ~(job[x].item < Len(Cart[x[1]]))
  <2> DEFINE s == After(x[2], job[x].at)
  <2>1. Goto(x, s)
    BY <1>5 DEF Advance
  <2>2. job[x].item = Len(Cart[x[1]])
    BY <1>1, <1>2, <1>5
  <2> HIDE DEF s
  <2>3. job'[x].at = s /\ \A y \in Jobs \ {x} : job'[y] = job[y]
    BY <2>1, AtStep
  <2> QED
    BY <1>1, <1>2, <1>3, <2>2, <2>3 DEF s
<1> QED
  BY <1>4, <1>5

LEMMA UnlockSteps ==
    ASSUME FlowInv, IInv, NEW x \in Jobs, job[x].at \in {"reserve", "confirm", "release"},
           Unlocks(x)
    PROVE  /\ Stage(x) = job[x].at /\ Position(x) = job[x].item
           /\ job[x].item \in 1..Len(Cart[x[1]]) /\ Len(Cart[x[1]]) \in Nat
           /\ DOMAIN Cart[x[1]] = 1..Len(Cart[x[1]])
           /\ \/ Advance(x)
              \/ /\ x[1] \in Troubled /\ job[x].item + 1 \in Nat
                 /\ Raises(x, job[x].item + 1)
<1>1. x[1] \in Orders /\ job[x].item \in DOMAIN Cart[x[1]]
  BY AtStep, TypeParts DEF IInv, JobsOK
<1>2. DOMAIN Cart[x[1]] = 1..Len(Cart[x[1]]) /\ Len(Cart[x[1]]) \in Nat
  BY <1>1, CartItems
<1>3. Stage(x) = job[x].at /\ Position(x) = job[x].item
  BY DEF Stage, Position
<1> QED
  BY <1>1, <1>2, <1>3 DEF Unlocks

LEMMA ReserveFlows ==
    ASSUME FlowInv, IInv, NEW x \in Jobs, Reserve(x)
    PROVE  Modes' /\ Flow(x[1])'
<1> DEFINE o == x[1]
<1>1. /\ job[x].at = "reserve" /\ Unlocks(x)
      /\ UNCHANGED <<sync, level, row, payments, manual, bought, byClient, rerun, lost, parked>>
  BY DEF Reserve, rowVars, cancelVars, faultVars
<1>2. held' = held \cup UnitsAt(x)
  BY DEF Reserve
<1>3. x[2] \in {"create", "reserve"}
  BY <1>1, AtStep, StepsOfKinds DEF Kinds
<1>4. /\ Stage(x) = "reserve" /\ Position(x) = job[x].item
      /\ job[x].item \in 1..Len(Cart[o]) /\ Len(Cart[o]) \in Nat
      /\ DOMAIN Cart[o] = 1..Len(Cart[o])
      /\ \/ Advance(x)
         \/ o \in Troubled /\ job[x].item + 1 \in Nat /\ Raises(x, job[x].item + 1)
  BY <1>1, UnlockSteps
<1>5. Working(x) /\ Deciding(x)
  BY <1>4 DEF Deciding, Working
<1>6. ASSUME ~Excused(o)'
      PROVE  /\ row[o] = "pending"
             /\ \A i \in DOMAIN Cart[o] : Has(o, i)' <=> i <= job[x].item
  <2>1. row[o] = "pending" /\ \A i \in DOMAIN Cart[o] : Has(o, i) <=> i < job[x].item
    BY <1>1, <1>4, <1>6, AtStep DEF WorkHolds, Excused
  <2>2. \A i \in DOMAIN Cart[o] : Has(o, i)' <=> Has(o, i) \/ i = job[x].item
    <3> HIDE <1>2
    <3>1. SUFFICES ASSUME NEW i \in DOMAIN Cart[o]
                   PROVE  Has(o, i)' <=> Has(o, i) \/ i = job[x].item
      OBVIOUS
    <3> QED
      BY <1>2, HeldOfItem
  <2> QED
    BY <1>4, <2>1, <2>2
<1>7. CASE Advance(x)
  <2>1. /\ \A y \in Jobs \ {x} : job'[y] = job[y]
        /\ \/ job'[x].at = "reserve" /\ job'[x].item = job[x].item + 1
           \/ job'[x].at \in {"pay", "send"} /\ job[x].item = Len(Cart[o])
              /\ job'[x].at = IF x[2] = "create" THEN "pay" ELSE "send"
    <3>1. After(x[2], "reserve") = IF x[2] = "create" THEN "pay" ELSE "send"
      BY DEF After
    <3> QED
      BY <1>1, <1>7, <3>1, AdvanceSteps
  <2>2. job'[x].at \in StepsOf(x[2])
    BY <1>3, <2>1, StepsOfKinds
  <2>3. Modes'
    BY <1>1, <2>1, <2>2, ModesOn DEF FlowInv
  <2>4. Stage(x)' = job'[x].at /\ (job'[x].at = "reserve" => Position(x)' = job[x].item + 1)
    BY <2>1 DEF Stage, Position
  <2>5. Deciding(x)' /\ Working(x)'
    BY <2>1, <2>4 DEF Deciding, Working
  <2>6. o \notin rerun' => payments[o] = 0 \/ o \in manual
    BY <1>1, <1>4, AtStep
  <2>7. ASSUME ~Excused(o)' PROVE x[2] # "release" /\ WorkHolds(x)'
    <3>1. row[o] = "pending" /\ \A i \in DOMAIN Cart[o] : Has(o, i)' <=> i <= job[x].item
      BY <1>6, <2>7
    <3>2. CASE job'[x].at = "reserve"
      <4>1. \A i \in DOMAIN Cart[o] : Has(o, i)' <=> i < job[x].item + 1
        BY <1>4, <3>1
      <4> QED
        BY <1>1, <1>3, <2>1, <2>4, <3>1, <3>2, <4>1 DEF WorkHolds
    <3>3. CASE job'[x].at # "reserve"
      <4>1. \A i \in DOMAIN Cart[o] : Has(o, i)'
        BY <1>4, <2>1, <3>1, <3>3
      <4> QED
        BY <1>1, <1>3, <2>1, <2>4, <3>1, <3>3, <4>1 DEF WorkHolds
    <3> QED
      BY <3>2, <3>3
  <2>8. Pursued(o) => Pursued(o)'
    BY <1>1, <2>1, PursuedKept
  <2> QED
    BY <1>1, <1>5, <2>1, <2>3, <2>4, <2>5, <2>6, <2>7, <2>8, MovesOn
<1>8. CASE o \in Troubled /\ job[x].item + 1 \in Nat /\ Raises(x, job[x].item + 1)
  <2>1. ~Excused(o)' => Prefix(o)'
    <3>1. job[x].item \in 0..Len(Cart[o])
      BY <1>4
    <3> QED
      BY <1>6, <1>8, <3>1 DEF Prefix
  <2> QED
    BY <1>1, <1>5, <1>8, <2>1, RaisedFlows
<1> QED
  BY <1>4, <1>7, <1>8

LEMMA ConfirmFlows ==
    ASSUME FlowInv, IInv, NEW x \in Jobs, Confirm(x)
    PROVE  Modes' /\ Flow(x[1])'
<1> DEFINE o == x[1]
<1>1. /\ job[x].at = "confirm" /\ Unlocks(x)
      /\ UNCHANGED <<sync, level, row, payments, manual, byClient, rerun, lost, parked>>
  BY DEF Confirm, rowVars, cancelVars, faultVars
<1>2. held' = held \ UnitsAt(x)
  BY DEF Confirm
<1>3. bought' = bought \cup UnitsAt(x)
  BY DEF Confirm
<1>4. x[2] \in {"create", "payment"} /\ (x[2] = "create" => sync) /\ (x[2] = "payment" => ~sync)
  BY <1>1, AtStep, StepsOfKinds DEF Kinds
<1>5. /\ Stage(x) = "confirm" /\ Position(x) = job[x].item
      /\ job[x].item \in 1..Len(Cart[o]) /\ Len(Cart[o]) \in Nat
      /\ DOMAIN Cart[o] = 1..Len(Cart[o])
      /\ \/ Advance(x)
         \/ o \in Troubled /\ job[x].item + 1 \in Nat /\ Raises(x, job[x].item + 1)
  BY <1>1, UnlockSteps
<1>6. ~Deciding(x) /\ Working(x)
  BY <1>5 DEF Deciding, Working
<1>7. ASSUME ~Excused(o)'
      PROVE  /\ row[o] = "paid"
             /\ \A i \in DOMAIN Cart[o] : Has(o, i)' <=> i >= job[x].item + 1
  <2>1. row[o] = "paid" /\ \A i \in DOMAIN Cart[o] : Has(o, i) <=> i >= job[x].item
    BY <1>1, <1>5, <1>7, AtStep DEF WorkHolds, Excused
  <2>2. \A i \in DOMAIN Cart[o] : Has(o, i)' <=> Has(o, i) /\ i # job[x].item
    <3> HIDE <1>2
    <3>1. SUFFICES ASSUME NEW i \in DOMAIN Cart[o]
                   PROVE  Has(o, i)' <=> Has(o, i) /\ i # job[x].item
      OBVIOUS
    <3> QED
      BY <1>2, HeldOfItem
  <2> QED
    BY <1>5, <2>1, <2>2
<1>8. CASE Advance(x)
  <2>1. /\ \A y \in Jobs \ {x} : job'[y] = job[y]
        /\ \/ job'[x].at = "confirm" /\ job'[x].item = job[x].item + 1
           \/ /\ job'[x].at = IF sync THEN "ended" ELSE "ack"
              /\ job[x].item = Len(Cart[o])
    <3>1. After(x[2], "confirm") = IF sync THEN "ended" ELSE "ack"
      BY DEF After
    <3> QED
      BY <1>1, <1>8, <3>1, AdvanceSteps
  <2>2. job'[x].at \in StepsOf(x[2])
    BY <1>4, <2>1, StepsOfKinds
  <2>3. Modes'
    BY <1>1, <2>1, <2>2, ModesOn DEF FlowInv
  <2>4. Stage(x)' = job'[x].at /\ (job'[x].at = "confirm" => Position(x)' = job[x].item + 1)
    BY <2>1 DEF Stage, Position
  <2>5. Stage(x)' \notin {"reserve", "send", "pay", "rollback"}
    BY <2>1, <2>4
  <2>6. ASSUME x[2] = "create" PROVE Served(o)'
    <3>1. x = <<o, "create">> /\ Served(o)
      BY <1>1, <2>6, AtStep DEF Flow
    <3>2. /\ payments[o] > 0
          /\ row[o] = "paid" \/ o \in byClient
          /\ \A i \in DOMAIN Cart[o] : i < job[x].item => UnitsOf(o, i) \subseteq bought
      BY <1>1, <3>1 DEF Served
    <3>3. \A i \in DOMAIN Cart[o] : i <= job[x].item => (UnitsOf(o, i) \subseteq bought)'
      <4>1. UnitsAt(x) = UnitsOf(o, job[x].item) /\ \A i : UnitsOf(o, i)' = UnitsOf(o, i)
        BY DEF UnitsAt, UnitsOf
      <4>2. \A i \in DOMAIN Cart[o] : i <= job[x].item => i < job[x].item \/ i = job[x].item
        BY <1>5
      <4> QED
        BY <1>3, <3>2, <4>1, <4>2
    <3>4. \A i \in DOMAIN Cart[o] :
              job'[x].at = "ended" \/ i < job'[x].item => i <= job[x].item
      BY <1>5, <2>1
    <3> QED
      BY <1>1, <3>1, <3>2, <3>3, <3>4 DEF Served
  <2>7. ASSUME ~Excused(o)'
        PROVE  /\ x[2] # "release" /\ WorkHolds(x)'
               /\ ~Working(x)' => RestHolds(o)'
    <3>1. row[o] = "paid" /\ \A i \in DOMAIN Cart[o] : Has(o, i)' <=> i >= job[x].item + 1
      BY <1>7, <2>7
    <3>2. CASE job'[x].at = "confirm"
      BY <1>1, <1>4, <2>1, <2>4, <3>1, <3>2 DEF WorkHolds, Working, Deciding
    <3>3. CASE job'[x].at # "confirm"
      <4>1. \A i \in DOMAIN Cart[o] : ~Has(o, i)'
        BY <1>5, <2>1, <3>1, <3>3
      <4> QED
        BY <1>4, <2>1, <2>4, <3>3, <4>1 DEF WorkHolds, RestHolds
    <3> QED
      BY <3>2, <3>3
  <2>8. Pursued(o) => Pursued(o)'
    BY <1>1, <2>1, PursuedKept
  <2> QED
    BY <1>1, <1>3, <1>6, <2>1, <2>3, <2>5, <2>6, <2>7, <2>8, MovesOn
<1>9. CASE job[x].item + 1 \in Nat /\ Raises(x, job[x].item + 1)
  <2>1. ~Excused(o)' => Suffix(o)'
    <3>1. job[x].item + 1 \in 1..(Len(Cart[o]) + 1)
      BY <1>5
    <3> QED
      BY <1>7, <3>1 DEF Suffix
  <2> QED
    BY <1>1, <1>3, <1>6, <1>9, <2>1, RaisedFlows
<1> QED
  BY <1>5, <1>8, <1>9

LEMMA ReleaseFlows ==
    ASSUME FlowInv, IInv, NEW x \in Jobs, Release(x)
    PROVE  Modes' /\ Flow(x[1])'
<1>1. /\ job[x].at = "release" /\ Unlocks(x)
      /\ UNCHANGED <<sync, level, row, payments, manual, bought, byClient, rerun, lost, parked>>
  BY DEF Release, rowVars, cancelVars, faultVars
<1>2. x[2] = "release"
  BY <1>1, AtStep, StepsOfKinds DEF Kinds
<1>3. Excused(x[1]) /\ Excused(x[1])'
  BY <1>1, <1>2, AtStep DEF Excused
<1>4. CASE Advance(x)
  <2>1. /\ \A y \in Jobs \ {x} : job'[y] = job[y]
        /\ Stage(x) = "release" /\ job'[x].at \in {"release", "ended", "ack"}
    <3>1. After(x[2], "release") \in {"ended", "ack"}
      BY DEF After
    <3> QED
      BY <1>1, <1>4, <3>1, AdvanceSteps
  <2>2. job'[x].at \in StepsOf(x[2])
    BY <1>2, <2>1, StepsOfKinds
  <2>3. Modes'
    BY <1>1, <2>1, <2>2, ModesOn DEF FlowInv
  <2>4. /\ ~Deciding(x) /\ ~Working(x)'
        /\ Stage(x)' \notin {"reserve", "send", "pay", "rollback"}
    BY <2>1 DEF Deciding, Working, Stage
  <2>5. Pursued(x[1]) => Pursued(x[1])'
    BY <1>1, <2>1, PursuedKept
  <2> QED
    BY <1>1, <1>2, <1>3, <2>1, <2>3, <2>4, <2>5, MovesOn
<1>5. CASE job[x].item + 1 \in Nat /\ Raises(x, job[x].item + 1)
  BY <1>1, <1>3, <1>5, RaisedFlows
<1> QED
  BY <1>1, <1>4, <1>5, UnlockSteps

LEMMA ReadFlows ==
    ASSUME FlowInv, IInv, NEW x \in Jobs, ReadsUnlocked(x)
    PROVE  Modes' /\ Flow(x[1])'
<1>1. UNCHANGED <<sync, level, parked, job, row, payments, manual, held, bought, byClient, rerun, lost>>
  BY DEF ReadsUnlocked, rowVars, countVars, cancelVars, faultVars
<1>2. Untouched(x[1])
  BY <1>1 DEF Untouched
<1>3. Modes'
  BY <1>1 DEF FlowInv, Modes, StepsOf
<1> QED
  BY <1>2, <1>3, JobParts, UntouchedKeepsFlow DEF FlowInv

\* What the jobs of an order other than the one at work say.
LEMMA OthersOf ==
    ASSUME FlowInv, NEW x \in Jobs, Working(x), x[1] \notin rerun,
           NEW k \in Kinds, k # x[2]
    PROVE  ~Working(<<x[1], k>>) /\ <<x[1], k>> \in Jobs /\ <<x[1], k>> # x
<1>1. x[1] \in Orders /\ x[2] \in Kinds /\ x = <<x[1], x[2]>> /\ Flow(x[1])
  BY JobParts DEF FlowInv
<1>2. <<x[1], k>> \in Jobs /\ <<x[1], k>> # x
  BY <1>1 DEF Jobs
<1> QED
  BY <1>1, <1>2 DEF Flow, Single

LEMMA SendPaymentFlows ==
    ASSUME FlowInv, IInv, NEW x \in Jobs, SendPayment(x)
    PROVE  Modes' /\ Flow(x[1])'
<1> DEFINE o == x[1]
           y == <<o, "payment">>
<1>1. /\ job[x].at = "send"
      /\ UNCHANGED <<sync, level, row, payments, manual, held, bought, byClient, rerun, lost, parked>>
  BY DEF SendPayment, rowVars, stockVars, countVars, cancelVars, faultVars
<1>2. x[2] = "reserve" /\ ~sync /\ o \in Orders /\ x = <<o, "reserve">> /\ Flow(o) /\ DOMAIN job = Jobs
  BY <1>1, AtStep, StepsOfKinds DEF Kinds
<1>3. Stage(x) = "send" /\ Deciding(x) /\ Working(x)
  BY <1>1 DEF Stage, Deciding, Working
<1>4. /\ Idle(y)
      /\ job' = [job EXCEPT ![x].at = "ack", ![y] = At("queued")]
  BY DEF SendPayment
<1>5. Modes' /\ Flow(o)'
  <2>1. y \in Jobs /\ y # x /\ y[1] = o /\ y[2] = "payment" /\ "payment" \in Kinds /\ "reserve" \in Kinds
    BY <1>2 DEF Jobs, Kinds
  <2>2. /\ job'[x].at = "ack" /\ job'[y].at = "queued"
        /\ \A z \in Jobs \ {x, y} : job'[z] = job[z]
    <3>1. job[x] \in JobRecords
      BY <1>1, AtStep
    <3> HIDE DEF y
    <3> QED
      BY <1>2, <1>4, <2>1, <3>1 DEF At, JobRecords
  <2>3. Stage(x)' = "ack" /\ Stage(y)' = "pay"
    BY <2>1, <2>2 DEF Stage, First
  <2>4. ~Working(x)' /\ Deciding(y)' /\ Working(y)' /\ ~Working(y)
    BY <1>4, <2>3 DEF Working, Deciding, Idle, Stage
  <2>5. \A k \in Kinds \ {"reserve", "payment"} :
          /\ <<o, k>> \in Jobs \ {x, y}
          /\ job'[<<o, k>>] = job[<<o, k>>]
    BY <1>2, <2>1, <2>2 DEF Jobs
  <2>6. \A k \in Kinds \ {"reserve", "payment"} :
          /\ Stage(<<o, k>>)' = Stage(<<o, k>>)
          /\ Position(<<o, k>>)' = Position(<<o, k>>)
          /\ Working(<<o, k>>)' <=> Working(<<o, k>>)
    BY <2>5, StageUntouched
  <2>7. o \notin rerun => \A k \in Kinds \ {"payment"} : ~Working(<<o, k>>)'
    <3> SUFFICES ASSUME o \notin rerun, NEW k \in Kinds \ {"payment"}
                 PROVE  ~Working(<<o, k>>)'
      OBVIOUS
    <3>1. CASE k = "reserve"
      BY <1>2, <2>4, <3>1
    <3>2. CASE k # "reserve"
      BY <1>2, <1>3, <2>6, <3>2, OthersOf
    <3> QED
      BY <3>1, <3>2
  <2>8. Modes'
    <3>1. \A z \in Jobs :
            /\ job'[z].at \in StepsOf(z[2])
            /\ job'[z].at # "none" => z[2] \in IF sync THEN {"create", "release"} ELSE Tasks
      <4>1. "ack" \in StepsOf("reserve") /\ "queued" \in StepsOf("payment")
            /\ "reserve" \in Tasks /\ "payment" \in Tasks
        BY StepsOfKinds DEF Tasks, Kinds
      <4> QED
        BY <1>2, <2>1, <2>2, <4>1 DEF FlowInv, Modes
    <3> QED
      BY <1>1, <3>1 DEF FlowInv, Modes, StepsOf
  <2>9. Unpaid(o)' /\ Decision(o)'
    BY <1>1, <1>2, <2>1, <2>4 DEF Flow, Unpaid, Decision
  <2>10. Single(o)'
    <3>1. o \notin rerun => row[o] # "absent"
      BY <1>2, <1>3, <2>1 DEF Flow, Single
    <3> QED
      BY <1>1, <2>7, <3>1 DEF Single
  <2>11. Clean(o)'
    <3>1. o \notin rerun \cup manual =>
            payments[o] = 0 /\ ~(row[o] = "cancelled" /\ o \notin byClient)
      BY <1>2, <1>3, <2>1 DEF Flow, Clean
    <3> QED
      BY <1>1, <3>1 DEF Clean
  <2>12. Served(o)'
    <3>1. job'[<<o, "create">>] = job[<<o, "create">>] /\ \A i : UnitsOf(o, i)' = UnitsOf(o, i)
      BY <2>5 DEF Kinds, UnitsOf
    <3> QED
      BY <1>1, <1>2, <3>1 DEF Flow, Served
  <2>13. Leaks(o)'
    <3> SUFFICES ASSUME ~Excused(o)' PROVE Leaks(o)'
      BY DEF Leaks
    <3>1. ~Excused(o) /\ o \notin rerun
      BY <1>1 DEF Excused
    <3>2. job'[<<o, "release">>].at = "none"
      BY <1>2, <2>5, <3>1 DEF Flow, Leaks, Kinds
    <3>3. row[o] = "pending" /\ \A i \in DOMAIN Cart[o] : Has(o, i)
      BY <1>1, <1>3, <3>1, AtStep DEF WorkHolds
    <3>4. \A i \in DOMAIN Cart[o] : Has(o, i)'
      BY <1>1, <3>3 DEF Has, UnitsOf
    <3>5. WorkHolds(y)'
      BY <1>1, <2>1, <2>3, <3>3, <3>4 DEF WorkHolds
    <3>6. \A k \in Kinds : WorkHolds(<<o, k>>)'
      BY <2>7, <3>1, <3>5 DEF WorkHolds, Working, Deciding
    <3> QED
      BY <1>1, <2>1, <2>4, <3>2, <3>3, <3>6 DEF Leaks
  <2> QED
    BY <2>8, <2>9, <2>10, <2>11, <2>12, <2>13 DEF Flow
<1> QED
  BY <1>5

LEMMA PayFlows ==
    ASSUME FlowInv, IInv, NEW x \in Jobs, Pay(x)
    PROVE  Modes' /\ Flow(x[1])'
<1> DEFINE o == x[1]
<1>1. /\ job[x].at = "pay"
      /\ UNCHANGED <<sync, level, manual, held, bought, byClient, rerun, lost, parked>>
  BY DEF Pay, stockVars, countVars, cancelVars, faultVars
<1>2. /\ x[2] \in {"create", "payment"} /\ o \in Orders /\ x[2] \in Kinds
      /\ x = <<o, x[2]>> /\ Flow(o)
  BY <1>1, AtStep, StepsOfKinds DEF Kinds
<1>3. row'[o] = "paid" /\ payments'[o] > 0
  BY <1>2, TypeParts DEF Pay, IInv, RestOK
<1>4. /\ job'[x].at = "confirm" /\ job'[x].item = 1
      /\ \A z \in Jobs \ {x} : job'[z] = job[z]
  <2>1. Goto(x, "confirm")
    BY <1>1 DEF Pay, After
  <2> QED
    BY <1>1, <2>1, AtStep
<1>5. Stage(x) = "pay" /\ Working(x)
  BY <1>1 DEF Stage, Deciding, Working
<1>6. Stage(x)' = "confirm" /\ Position(x)' = 1 /\ Working(x)'
  BY <1>4 DEF Stage, Position, Working
<1>7. o \notin rerun => \A k \in Kinds : k # x[2] => ~Working(<<o, k>>)'
  BY <1>4, <1>5, OthersOf, StageUntouched
<1>8. Modes'
  <2>1. job'[x].at \in StepsOf(x[2])
    BY <1>2, <1>4, StepsOfKinds
  <2> QED
    BY <1>1, <1>4, <2>1, ModesOn DEF FlowInv
<1>9. Unpaid(o)' /\ Decision(o)'
  BY <1>3 DEF Unpaid, Decision
<1>10. Single(o)'
  BY <1>1, <1>3, <1>7 DEF Single
<1>11. Clean(o)'
  <2>1. o \notin rerun => \A k \in Kinds : Stage(<<o, k>>)' \notin {"reserve", "send", "pay", "rollback"}
    BY <1>2, <1>6, <1>7 DEF Working, Deciding
  <2> QED
    BY <1>1, <1>3, <2>1 DEF Clean
<1>12. Served(o)'
  <2>1. \A i : UnitsOf(o, i)' = UnitsOf(o, i)
    BY DEF UnitsOf
  <2>2. CASE x[2] = "create"
    <3>1. \A i \in DOMAIN Cart[o] : ~(i < 1)
      BY <1>2, CartItems
    <3>2. x = <<o, "create">>
      BY <1>2, <2>2
    <3> QED
      BY <1>1, <1>3, <1>4, <3>1, <3>2 DEF Served
  <2>3. CASE x[2] # "create"
    <3>1. job'[<<o, "create">>] = job[<<o, "create">>]
      BY <1>2, <1>4, <2>3 DEF Jobs, Kinds
    <3> QED
      BY <1>1, <1>2, <1>3, <2>1, <3>1 DEF Flow, Served
  <2> QED
    BY <2>2, <2>3
<1>13. Leaks(o)'
  <2> SUFFICES ASSUME ~Excused(o)' PROVE Leaks(o)'
    BY DEF Leaks
  <2>1. ~Excused(o) /\ o \notin rerun
    BY <1>1 DEF Excused
  <2>2. job'[<<o, "release">>].at = "none"
    <3>1. <<o, "release">> \in Jobs \ {x}
      BY <1>2 DEF Jobs, Kinds
    <3> QED
      BY <1>2, <1>4, <2>1, <3>1 DEF Flow, Leaks
  <2>3. \A i \in DOMAIN Cart[o] : Has(o, i)' /\ i >= 1
    <3>1. \A i \in DOMAIN Cart[o] : Has(o, i)
      BY <1>1, <1>5, <2>1, AtStep DEF WorkHolds
    <3>2. \A i \in DOMAIN Cart[o] : i >= 1
      BY <1>2, CartItems
    <3> QED
      BY <1>1, <3>1, <3>2 DEF Has, UnitsOf
  <2>4. WorkHolds(x)'
    BY <1>3, <1>6, <2>3 DEF WorkHolds
  <2>5. \A k \in Kinds : WorkHolds(<<o, k>>)'
    BY <1>2, <1>7, <2>1, <2>4 DEF WorkHolds, Working, Deciding
  <2> QED
    BY <1>2, <1>3, <1>6, <2>2, <2>5 DEF Leaks
<1> QED
  BY <1>8, <1>9, <1>10, <1>11, <1>12, <1>13 DEF Flow

LEMMA HandlerCancelsFlows ==
    ASSUME FlowInv, IInv, NEW x \in Jobs, HandlerCancels(x)
    PROVE  Modes' /\ Flow(x[1])'
<1> DEFINE o == x[1]
<1>1. /\ job[x].at = "rollback"
      /\ UNCHANGED <<sync, level, payments, manual, held, bought, byClient, rerun, lost, parked>>
  BY DEF HandlerCancels, stockVars, countVars, cancelVars, faultVars
<1>2. /\ x[2] \in {"create", "reserve"} /\ o \in Orders /\ x[2] \in Kinds
      /\ x = <<o, x[2]>> /\ Flow(o) /\ (x[2] = "reserve" => ~sync)
  BY <1>1, AtStep, StepsOfKinds DEF Kinds
<1>3. row'[o] = "cancelled"
  BY <1>2, TypeParts DEF HandlerCancels, IInv, RestOK
<1>4. /\ job'[x].at = IF x[2] = "create" THEN "dead" ELSE "retry"
      /\ \A z \in Jobs \ {x} : job'[z] = job[z]
  <2>1. Goto(x, IF x[2] = "create" THEN "dead" ELSE "retry")
    BY DEF HandlerCancels, AfterHandler
  <2> QED
    BY <1>1, <2>1, AtStep
<1>5. Stage(x) = "rollback" /\ Working(x)
  BY <1>1 DEF Stage, Deciding, Working
<1>6. Stage(x)' \in {"dead", "retry"} /\ ~Working(x)'
  BY <1>4 DEF Stage, Deciding, Working
<1>7. o \notin rerun => \A k \in Kinds : ~Working(<<o, k>>)'
  <2>1. o \notin rerun => \A k \in Kinds : k # x[2] => ~Working(<<o, k>>)'
    BY <1>4, <1>5, OthersOf, StageUntouched
  <2> QED
    BY <1>2, <1>6, <2>1
<1>8. Modes'
  <2>1. job'[x].at \in StepsOf(x[2])
    BY <1>2, <1>4, StepsOfKinds
  <2> QED
    BY <1>1, <1>4, <2>1, ModesOn DEF FlowInv
<1>9. Unpaid(o)' /\ Decision(o)'
  BY <1>3 DEF Unpaid, Decision
<1>10. Single(o)'
  BY <1>1, <1>3, <1>7 DEF Single
<1>11. Clean(o)'
  <2>1. o \notin rerun \cup manual => payments[o] = 0
    BY <1>1, <1>5, AtStep
  <2> QED
    BY <1>1, <1>7, <2>1 DEF Clean
<1>12. Served(o)'
  <2>1. <<o, "create">> \in Jobs
    BY <1>2 DEF Jobs, Kinds
  <2>2. CASE x[2] = "create"
    <3>1. job'[<<o, "create">>].at = "dead"
      BY <1>2, <1>4, <2>2
    <3> QED
      BY <3>1 DEF Served
  <2>3. CASE x[2] # "create"
    <3>1. job'[<<o, "create">>] = job[<<o, "create">>]
      BY <1>2, <1>4, <2>1, <2>3
    <3>2. job[<<o, "create">>].at = "none"
      BY <1>2, <2>1, <2>3 DEF FlowInv, Modes, Tasks
    <3> QED
      BY <3>1, <3>2 DEF Served
  <2> QED
    BY <2>2, <2>3
<1>13. Leaks(o)'
  <2> SUFFICES ASSUME ~Excused(o)' PROVE Leaks(o)'
    BY DEF Leaks
  <2>1. ~Excused(o) /\ o \notin rerun
    BY <1>1 DEF Excused
  <2>2. job'[<<o, "release">>].at = "none"
    <3>1. <<o, "release">> \in Jobs \ {x}
      BY <1>2 DEF Jobs, Kinds
    <3> QED
      BY <1>2, <1>4, <2>1, <3>1 DEF Flow, Leaks
  <2>3. Prefix(o)'
    <3>1. Prefix(o)
      BY <1>1, <1>5, <2>1, AtStep DEF WorkHolds
    <3> QED
      BY <1>1, <3>1 DEF Prefix, Has, UnitsOf
  <2>4. \A k \in Kinds : WorkHolds(<<o, k>>)'
    BY <1>7, <2>1 DEF WorkHolds, Working, Deciding
  <2> QED
    BY <1>3, <2>2, <2>3, <2>4 DEF Leaks, RestHolds
<1> QED
  BY <1>8, <1>9, <1>10, <1>11, <1>12, <1>13 DEF Flow

\* The steps of the jobs.
LEMMA JobStepFlows ==
    ASSUME FlowInv, IInv, NEW x \in Jobs, JobStep(x) \/ Crash(x)
    PROVE  FlowInv'
<1>1. Modes' /\ Flow(x[1])'
  BY TakeFlows, ReadFlows, ReserveFlows, PayFlows, ConfirmFlows, ReleaseFlows, StepRaisesFlows,
     SendPaymentFlows, HandlerReadsFlows, HandlerCancelsFlows, RetryFlows, AckFlows,
     CrashFlows DEF JobStep
<1> QED
  BY <1>1, OthersUntouched, JobParts, FlowOfOne

LEMMA ReplayStepFlows ==
    ASSUME FlowInv, IInv, NEW x \in Orders \X Tasks, Replay(x)
    PROVE  FlowInv'
<1>1. x \in Jobs /\ x[1] \in Orders /\ x[2] \in Tasks
  BY DEF Jobs, Tasks
<1>2. Modes' /\ Flow(x[1])'
  BY <1>1, ReplayFlows
<1>3. ASSUME NEW p \in Orders \ {x[1]} PROVE Untouched(p)
  <2>1. \A k \in Kinds : <<p, k>> # x
    BY <1>1
  <2>2. \A k \in Kinds : job'[<<p, k>>] = job[<<p, k>>]
    BY <1>1, <2>1, TypeParts DEF Replay, IInv, JobsOK, Jobs
  <2>3. <<p, "payment">> # x /\ (parked' = parked \/ parked' = parked \ {x})
    BY <2>1 DEF Replay, Kinds
  <2> QED
    BY <2>2, <2>3 DEF Replay, Untouched, rowVars, stockVars, countVars, cancelVars
<1> QED
  BY <1>1, <1>2, <1>3, FlowOfOne

LEMMA PlaceOrderFlows ==
    ASSUME FlowInv, IInv, NEW o \in Orders, PlaceOrder(o)
    PROVE  FlowInv'
<1>1. /\ row[o] = "absent"
      /\ UNCHANGED <<sync, level, parked, payments, manual, held, bought, byClient, rerun>>
      /\ row' = [row EXCEPT ![o] = "pending"]
  BY DEF PlaceOrder, stockVars, countVars, cancelVars
<1>2. DOMAIN job = Jobs /\ DOMAIN row = Orders /\ Flow(o)
  BY TypeParts DEF IInv, JobsOK, RestOK, FlowInv
<1>3. row'[o] = "pending"
  BY <1>1, <1>2
<1>4. \A k \in Kinds : <<o, k>> \in Jobs
  BY DEF Jobs
<1>5. \/ \E k \in {"create", "reserve"} :
            /\ Stage(<<o, k>>)' = "reserve" /\ Position(<<o, k>>)' = 1
            /\ \/ sync /\ k = "create" /\ job'[<<o, k>>].at = "reserve"
               \/ ~sync /\ k = "reserve" /\ job'[<<o, k>>].at = "queued"
            /\ \A z \in Jobs \ {<<o, k>>} : job'[z] = job[z]
            /\ lost' = lost
      \/ job' = job /\ lost' = lost \cup {o} /\ ~sync
  <2>1. sync \in BOOLEAN /\ "create" \in Kinds /\ "reserve" \in Kinds
    BY TypeParts DEF IInv, RestOK, Kinds
  <2>2. CASE sync /\ job' = [job EXCEPT ![<<o, "create">>] = At("reserve")] /\ UNCHANGED lost
    <3>1. /\ job'[<<o, "create">>] = At("reserve")
          /\ \A z \in Jobs \ {<<o, "create">>} : job'[z] = job[z]
      BY <1>2, <1>4, <2>1, <2>2
    <3>2. Stage(<<o, "create">>)' = "reserve" /\ Position(<<o, "create">>)' = 1
      BY <3>1 DEF Stage, Position, At
    <3> QED
      BY <2>1, <2>2, <3>1, <3>2 DEF At
  <2>3. CASE ~sync /\ job' = [job EXCEPT ![<<o, "reserve">>] = At("queued")] /\ UNCHANGED lost
    <3>1. /\ job'[<<o, "reserve">>] = At("queued")
          /\ \A z \in Jobs \ {<<o, "reserve">>} : job'[z] = job[z]
      BY <1>2, <1>4, <2>1, <2>3
    <3>2. Stage(<<o, "reserve">>)' = "reserve" /\ Position(<<o, "reserve">>)' = 1
      BY <3>1 DEF Stage, Position, At, First
    <3> QED
      BY <2>1, <2>3, <3>1, <3>2 DEF At
  <2> QED
    BY <2>2, <2>3 DEF PlaceOrder
<1>6. Modes'
  <2>1. /\ "reserve" \in StepsOf("create") /\ "queued" \in StepsOf("reserve")
        /\ "reserve" \in Tasks
    BY StepsOfKinds DEF Tasks, Kinds
  <2>2. \A z \in Jobs :
          /\ job'[z].at \in StepsOf(z[2])
          /\ job'[z].at # "none" => z[2] \in IF sync THEN {"create", "release"} ELSE Tasks
    <3>1. CASE job' = job
      BY <3>1 DEF FlowInv, Modes
    <3>2. ASSUME NEW k \in {"create", "reserve"},
                 \/ sync /\ k = "create" /\ job'[<<o, k>>].at = "reserve"
                 \/ ~sync /\ k = "reserve" /\ job'[<<o, k>>].at = "queued",
                 \A z \in Jobs \ {<<o, k>>} : job'[z] = job[z],
                 NEW z \in Jobs
          PROVE  /\ job'[z].at \in StepsOf(z[2])
                 /\ job'[z].at # "none" => z[2] \in IF sync THEN {"create", "release"} ELSE Tasks
      <4>1. CASE z = <<o, k>>
        BY <2>1, <3>2, <4>1
      <4>2. CASE z # <<o, k>>
        BY <3>2, <4>2 DEF FlowInv, Modes
      <4> QED
        BY <4>1, <4>2
    <3> QED
      BY <1>5, <3>1, <3>2
  <2> QED
    BY <1>1, <2>2 DEF FlowInv, Modes, StepsOf
<1>7. \A k \in Kinds : o \notin rerun => ~Working(<<o, k>>)
  BY <1>1, <1>2 DEF Flow, Single
<1>8. payments[o] = 0
  BY <1>1, <1>2 DEF Flow, Unpaid
<1>9. \A i : (Has(o, i)' <=> Has(o, i)) /\ UnitsOf(o, i)' = UnitsOf(o, i)
  BY <1>1 DEF Has, UnitsOf
<1>10. Unpaid(o)'
  BY <1>1, <1>8 DEF Unpaid
<1>11. ASSUME NEW k \in {"create", "reserve"},
              Stage(<<o, k>>)' = "reserve", Position(<<o, k>>)' = 1,
              job'[<<o, k>>].at \in {"reserve", "queued"},
              \A z \in Jobs \ {<<o, k>>} : job'[z] = job[z], lost' = lost
       PROVE  Flow(o)'
  <2>1. k \in Kinds /\ Deciding(<<o, k>>)' /\ Working(<<o, k>>)'
    BY <1>11 DEF Kinds, Deciding, Working
  <2>2. \A l \in Kinds : l # k =>
          /\ job'[<<o, l>>] = job[<<o, l>>]
          /\ Working(<<o, l>>)' <=> Working(<<o, l>>)
    BY <1>4, <1>11, StageUntouched
  <2>3. Decision(o)'
    BY <2>1 DEF Decision
  <2>4. o \notin rerun => \A l \in Kinds : l # k => ~Working(<<o, l>>)'
    BY <1>7, <2>2
  <2>5. Single(o)'
    BY <1>1, <1>3, <2>4 DEF Single
  <2>6. Clean(o)'
    BY <1>1, <1>3, <1>8 DEF Clean
  <2>7. Served(o)'
    <3>1. job'[<<o, "create">>].at \notin {"confirm", "ended"}
      <4>1. CASE k = "create"
        BY <1>11, <4>1
      <4>2. CASE k # "create"
        <5>1. job'[<<o, "create">>] = job[<<o, "create">>]
          BY <2>2, <4>2 DEF Kinds
        <5> QED
          BY <1>2, <1>8, <5>1 DEF Flow, Served
      <4> QED
        BY <4>1, <4>2
    <3> QED
      BY <3>1 DEF Served
  <2>8. Leaks(o)'
    <3> SUFFICES ASSUME ~Excused(o)' PROVE Leaks(o)'
      BY DEF Leaks
    <3>1. ~Excused(o) /\ o \notin rerun
      BY <1>1, <1>11 DEF Excused
    <3>2. job'[<<o, "release">>].at = "none"
      BY <1>2, <1>11, <2>2, <3>1 DEF Flow, Leaks, Kinds
    <3>3. \A i \in DOMAIN Cart[o] : ~Has(o, i)' /\ ~(i < 1)
      BY <1>1, <1>2, <1>9, <3>1, CartItems DEF Flow, Leaks
    <3>4. WorkHolds(<<o, k>>)'
      BY <1>3, <1>11, <3>3 DEF WorkHolds
    <3>5. \A l \in Kinds : WorkHolds(<<o, l>>)'
      BY <2>4, <3>1, <3>4 DEF WorkHolds, Working, Deciding
    <3> QED
      BY <1>3, <2>1, <3>2, <3>5 DEF Leaks
  <2> QED
    BY <1>10, <2>3, <2>5, <2>6, <2>7, <2>8 DEF Flow
<1>12. ASSUME job' = job, lost' = lost \cup {o}
       PROVE  Flow(o)'
  <2>1. \A l \in Kinds : job'[<<o, l>>] = job[<<o, l>>] /\ (Working(<<o, l>>)' <=> Working(<<o, l>>))
    BY <1>4, <1>12, StageUntouched
  <2>2. Decision(o)' /\ Leaks(o)'
    BY <1>12 DEF Decision, Leaks, Excused
  <2>3. Single(o)' /\ Clean(o)'
    BY <1>1, <1>3, <1>7, <1>8, <2>1 DEF Single, Clean
  <2>4. Served(o)'
    BY <1>2, <1>8, <1>12 DEF Flow, Served
  <2> QED
    BY <1>10, <2>2, <2>3, <2>4 DEF Flow
<1>13. Flow(o)'
  BY <1>5, <1>11, <1>12
<1>14. ASSUME NEW p \in Orders \ {o} PROVE Untouched(p)
  <2>1. \A k, l \in Kinds : <<p, k>> # <<o, l>> /\ <<p, k>> \in Jobs
    BY DEF Jobs
  <2>2. \A k \in Kinds : job'[<<p, k>>] = job[<<p, k>>]
    BY <1>5, <2>1 DEF Kinds
  <2> QED
    BY <1>1, <1>2, <1>5, <2>2 DEF Untouched
<1> QED
  BY <1>6, <1>13, <1>14, FlowOfOne

LEMMA PayByHandFlows ==
    ASSUME FlowInv, IInv, NEW o \in Orders, PayByHand(o)
    PROVE  FlowInv'
<1>1. /\ UNCHANGED <<sync, level, parked, job, held, bought, byClient, rerun, lost>>
      /\ manual' = manual \cup {o}
      /\ row' = [row EXCEPT ![o] = "paid"]
      /\ payments' = [payments EXCEPT ![o] = @ + 1]
      /\ row[o] # "absent"
  BY DEF PayByHand, stockVars, countVars, cancelVars, faultVars
<1>2. /\ DOMAIN row = Orders /\ DOMAIN payments = Orders /\ Flow(o)
      /\ payments[o] \in Nat
  BY TypeParts DEF IInv, RestOK, FlowInv
<1>3. row'[o] = "paid" /\ payments'[o] > 0
  BY <1>1, <1>2
<1>4. \A k \in Kinds : Working(<<o, k>>)' <=> Working(<<o, k>>)
  BY <1>1 DEF Working, Deciding, Stage
<1>5. Unpaid(o)' /\ Decision(o)'
  BY <1>3 DEF Unpaid, Decision
<1>6. Single(o)'
  BY <1>1, <1>2, <1>3, <1>4 DEF Flow, Single
<1>7. Clean(o)' /\ Leaks(o)'
  BY <1>1 DEF Clean, Leaks, Excused
<1>8. Served(o)'
  BY <1>1, <1>2, <1>3 DEF Flow, Served, UnitsOf
<1>9. Modes'
  BY <1>1 DEF FlowInv, Modes, StepsOf
<1>10. \A p \in Orders \ {o} : Untouched(p)
  BY <1>1, <1>2 DEF Untouched
<1> QED
  BY <1>5, <1>6, <1>7, <1>8, <1>9, <1>10, FlowOfOne DEF Flow

LEMMA CancelReadsFlows ==
    ASSUME FlowInv, IInv, NEW o \in Orders, CancelReads(o)
    PROVE  FlowInv'
<1>1. UNCHANGED <<sync, level, parked, job, row, payments, manual, held, bought, byClient, rerun, lost>>
  BY DEF CancelReads, rowVars, stockVars, countVars, faultVars
<1>2. \A p \in Orders : Untouched(p)
  BY <1>1 DEF Untouched
<1>3. Modes'
  BY <1>1 DEF FlowInv, Modes, StepsOf
<1> QED
  BY <1>2, <1>3, UntouchedKeepsFlow DEF FlowInv

LEMMA CancelWritesFlows ==
    ASSUME FlowInv, IInv, NEW o \in Orders, CancelWrites(o)
    PROVE  FlowInv'
<1> DEFINE y == <<o, "release">>
<1>1. /\ UNCHANGED <<sync, level, parked, payments, manual, held, bought, rerun>>
      /\ byClient' = byClient \cup {o}
      /\ lost' = lost \/ lost' = lost \cup {o}
      /\ row' = [row EXCEPT ![o] = "cancelled"]
      /\ Idle(y)
  BY DEF CancelWrites, stockVars, countVars
<1>2. /\ DOMAIN row = Orders /\ DOMAIN job = Jobs /\ Flow(o)
      /\ y \in Jobs /\ y[2] = "release" /\ "release" \in Tasks /\ "release" \in Kinds
  BY TypeParts DEF IInv, RestOK, JobsOK, FlowInv, Jobs, Tasks, Kinds
<1>3. row'[o] = "cancelled"
  BY <1>1, <1>2
<1>4. /\ \A z \in Jobs \ {y} : job'[z] = job[z]
      /\ job'[y] = job[y] \/ job'[y].at \in {"release", "queued"}
  <2>1. CASE job' = job
    BY <2>1
  <2>2. CASE job' = [job EXCEPT ![y] = At(IF sync THEN "release" ELSE "queued")]
    <3>1. At(IF sync THEN "release" ELSE "queued").at \in {"release", "queued"}
      BY DEF At
    <3> HIDE DEF y
    <3> QED
      BY <1>2, <2>2, <3>1
  <2> QED
    BY <2>1, <2>2 DEF CancelWrites
<1>5. \A k \in Kinds : k # "release" =>
        /\ job'[<<o, k>>] = job[<<o, k>>]
        /\ Stage(<<o, k>>)' = Stage(<<o, k>>)
        /\ Working(<<o, k>>)' <=> Working(<<o, k>>)
  <2>1. \A k \in Kinds : k # "release" => <<o, k>> \in Jobs \ {y}
    BY DEF Jobs
  <2> QED
    BY <1>4, <2>1, StageUntouched
<1>6. ~Working(y)' /\ Stage(y)' \notin {"reserve", "send", "pay", "rollback"}
  <2>1. Stage(y)' \in {"none", "ended", "dead", "release"}
    BY <1>1, <1>2, <1>4 DEF Stage, First, Idle
  <2> QED
    BY <2>1 DEF Working, Deciding
<1>7. Unpaid(o)' /\ Decision(o)'
  BY <1>3 DEF Unpaid, Decision
<1>8. Single(o)'
  BY <1>1, <1>2, <1>3, <1>5, <1>6 DEF Flow, Single
<1>9. Clean(o)'
  <2>1. o \notin rerun \cup manual => \A k \in Kinds :
            Stage(<<o, k>>)' \in {"reserve", "send", "pay", "rollback"} => payments[o] = 0
    BY <1>2, <1>5, <1>6 DEF Flow, Clean
  <2> QED
    BY <1>1, <2>1 DEF Clean
<1>10. Leaks(o)'
  BY <1>1 DEF Leaks, Excused
<1>11. Served(o)'
  <2>1. job'[<<o, "create">>] = job[<<o, "create">>] /\ \A i : UnitsOf(o, i)' = UnitsOf(o, i)
    BY <1>5 DEF Kinds, UnitsOf
  <2> QED
    BY <1>1, <1>2, <2>1 DEF Flow, Served
<1>12. Modes'
  <2>1. "release" \in StepsOf("release") /\ "queued" \in StepsOf("release")
    BY StepsOfKinds
  <2>2. \A z \in Jobs :
          /\ job'[z].at \in StepsOf(z[2])
          /\ job'[z].at # "none" => z[2] \in IF sync THEN {"create", "release"} ELSE Tasks
    BY <1>2, <1>4, <2>1 DEF FlowInv, Modes
  <2> QED
    BY <1>1, <2>2 DEF FlowInv, Modes, StepsOf
<1>13. ASSUME NEW p \in Orders \ {o} PROVE Untouched(p)
  <2>1. \A k \in Kinds : <<p, k>> \in Jobs \ {y}
    BY DEF Jobs
  <2> QED
    BY <1>1, <1>2, <1>4, <2>1 DEF Untouched
<1> QED
  BY <1>7, <1>8, <1>9, <1>10, <1>11, <1>12, <1>13, FlowOfOne DEF Flow

\* What is sold to an order is in its cart.
Carted == \A u \in bought : u.order \in Orders /\ u \in AllUnits(u.order)
WayInv == FlowInv /\ Carted

LEMMA StepCarted ==
    ASSUME IInv, Carted, [Next]_vars
    PROVE  Carted'
<1>1. \A o : AllUnits(o)' = AllUnits(o)
  BY DEF AllUnits, UnitsOf
<1>2. CASE bought' = bought
  BY <1>1, <1>2 DEF Carted
<1>3. CASE \E x \in Jobs : bought' = bought \cup UnitsAt(x)
  <2>1. PICK x \in Jobs : bought' = bought \cup UnitsAt(x)
    BY <1>3
  <2>2. x[1] \in Orders /\ job[x].item \in DOMAIN Cart[x[1]]
    BY JobParts, TypeParts DEF IInv, JobsOK
  <2>3. \A u \in UnitsAt(x) : u.order = x[1] /\ u \in AllUnits(x[1])
    BY <2>2, UnitsAreUnits DEF UnitsAt, AllUnits
  <2> QED
    BY <1>1, <2>1, <2>2, <2>3 DEF Carted
<1>4. bought' = bought \/ \E x \in Jobs : bought' = bought \cup UnitsAt(x)
  <2>1. CASE \E x \in Orders \X Kinds : JobStep(x) \/ Crash(x)
    BY <2>1 DEF Jobs, JobStep, Crash, Take, ReadsUnlocked, Reserve, Pay, Confirm, Release, StepRaises,
         SendPayment, HandlerReads, HandlerCancels, Retry, Ack, stockVars, countVars
  <2>2. CASE \E x \in Orders \X Tasks : Replay(x)
    BY <2>2 DEF Replay, stockVars, countVars
  <2>3. CASE \E o \in Orders : PlaceOrder(o) \/ PayByHand(o) \/ CancelReads(o) \/ CancelWrites(o)
    BY <2>3 DEF PlaceOrder, PayByHand, CancelReads, CancelWrites, stockVars, countVars
  <2>4. CASE UNCHANGED vars
    BY <2>4 DEF vars, stockVars, countVars
  <2> QED
    BY <2>1, <2>2, <2>3, <2>4 DEF Next
<1> QED
  BY <1>2, <1>3, <1>4

LEMMA InitWay == Init => WayInv
<1> SUFFICES ASSUME Init PROVE WayInv
  OBVIOUS
<1>1. /\ held = {} /\ bought = {} /\ parked = {}
      /\ \A o \in Orders : row[o] = "absent" /\ payments[o] = 0
  BY DEF Init
<1>2. \A x \in Jobs : job[x].at = "none" /\ Stage(x) = "none"
  BY DEF Init, Jobs, At, Stage
<1>3. \A x \in Jobs : ~Deciding(x) /\ ~Working(x) /\ WorkHolds(x)
  BY <1>2 DEF Deciding, Working, WorkHolds
<1>4. \A k \in Kinds : "none" \in StepsOf(k)
  BY StepsOfKinds DEF Kinds
<1>5. Modes
  BY <1>1, <1>2, <1>4, JobParts DEF Modes
<1>6. ASSUME NEW o \in Orders PROVE Flow(o)
  <2>1. \A k \in Kinds : <<o, k>> \in Jobs
    BY DEF Jobs
  <2>2. "release" \in Kinds /\ "create" \in Kinds
    BY DEF Kinds
  <2>3. \A i \in DOMAIN Cart[o] : ~Has(o, i)
    <3> SUFFICES ASSUME NEW i \in DOMAIN Cart[o] PROVE ~Has(o, i)
      OBVIOUS
    <3> DEFINE L == [product : Products, quantity : Nat \ {0}]
    <3>1. Cart[o] \in Seq(L) /\ DOMAIN Cart[o] = 1..Len(Cart[o])
      BY SagaAssumption, CartItems
    <3>2. Cart[o][i] \in L
      <4> HIDE DEF L
      <4> QED
        BY <3>1, ElementOfSeq
    <3>3. [order |-> o, item |-> i, unit |-> 1] \in UnitsOf(o, i)
      BY <3>2 DEF UnitsOf
    <3> QED
      BY <1>1, <3>3 DEF Has
  <2>4. Unpaid(o) /\ Decision(o) /\ Single(o) /\ Clean(o)
    BY <1>1, <1>2, <1>3, <2>1 DEF Unpaid, Decision, Single, Clean
  <2>5. Served(o) /\ Leaks(o)
    BY <1>1, <1>2, <1>3, <2>1, <2>2, <2>3 DEF Served, Leaks, RestHolds
  <2> QED
    BY <2>4, <2>5 DEF Flow
<1> QED
  BY <1>1, <1>5, <1>6 DEF WayInv, FlowInv, Carted

LEMMA StepWay == IInv /\ WayInv /\ [Next]_vars => WayInv'
<1> SUFFICES ASSUME IInv, WayInv, [Next]_vars PROVE FlowInv'
  BY StepCarted DEF WayInv
<1>1. FlowInv
  BY DEF WayInv
<1>2. CASE \E x \in Jobs : JobStep(x) \/ Crash(x)
  BY <1>1, <1>2, JobStepFlows
<1>3. CASE \E x \in Orders \X Tasks : Replay(x)
  BY <1>1, <1>3, ReplayStepFlows
<1>4. CASE \E o \in Orders : PlaceOrder(o) \/ PayByHand(o) \/ CancelReads(o) \/ CancelWrites(o)
  BY <1>1, <1>4, PlaceOrderFlows, PayByHandFlows, CancelReadsFlows, CancelWritesFlows
<1>5. CASE UNCHANGED vars
  <2>1. UNCHANGED <<sync, level, parked, job, row, payments, manual, held, bought, byClient, rerun, lost>>
    BY <1>5 DEF vars, rowVars, stockVars, countVars, cancelVars, faultVars
  <2>2. \A p \in Orders : Untouched(p)
    BY <2>1 DEF Untouched
  <2>3. Modes'
    BY <1>1, <2>1 DEF FlowInv, Modes, StepsOf
  <2> QED
    BY <1>1, <2>2, <2>3, UntouchedKeepsFlow DEF FlowInv
<1> QED
  BY <1>2, <1>3, <1>4, <1>5 DEF Next, Jobs

LEMMA AlwaysWay == Spec => [](IInv /\ WayInv)
<1>1. Spec => []WayInv
  BY InitWay, StepWay, Inductive, PTL DEF Spec
<1> QED
  BY <1>1, Inductive, PTL

\* Nobody is at work on an order at rest.
LEMMA NobodyAtRest ==
    ASSUME NEW o \in Orders, AtRest(o)
    PROVE  \A k \in Kinds : ~Deciding(<<o, k>>) /\ ~Working(<<o, k>>)
<1>1. \A k \in Kinds : Stage(<<o, k>>) \in {"none", "ended", "dead"}
  BY DEF AtRest, Idle, Stage
<1> QED
  BY <1>1 DEF Deciding, Working

LEMMA SettledIsNotPursued ==
    ASSUME NEW o \in Orders, Settled(o)
    PROVE  ~Pursued(o)
  BY DEF Settled, AtRest, Idle, Pursued, Kinds

\* No order is forgotten before it is decided, whatever fails, is retried or
\* cancelled, unless a crash or a failing handler cut its job off, its payment
\* is parked or a worker's logger raises (order/service.py, tasks.py).
THEOREM OrdersAreDecided == Spec => []QuietIsDecided
<1>1. IInv /\ WayInv => QuietIsDecided
  <2> SUFFICES ASSUME IInv, WayInv, NEW o \in Orders, Settled(o), o \notin lost,
                      sync \/ level = "critical"
               PROVE  row[o] \in {"absent", "paid", "cancelled"}
    BY DEF QuietIsDecided
  <2>1. row[o] # "pending"
    BY NobodyAtRest, SettledIsNotPursued DEF WayInv, FlowInv, Flow, Decision, Settled
  <2>2. row[o] \in {"absent", "pending", "paid", "cancelled"}
    BY TypeParts DEF IInv, RestOK
  <2> QED
    BY <2>1, <2>2
<1> QED
  BY <1>1, AlwaysWay, PTL

\* A request that answers "cancelled" has neither charged nor sold anything,
\* and one that answers with the order has sold all of it (order/service.py,
\* create_order).
THEOREM RequestsTellTheTruth == Spec => []AnswersAreTrue
<1>1. IInv /\ WayInv => AnswersAreTrue
  <2> SUFFICES ASSUME IInv, WayInv, NEW o \in Orders
               PROVE  /\ row[o] = "cancelled" /\ o \notin byClient \cup rerun \cup manual =>
                            payments[o] = 0 /\ OfOrder(bought, o) = {}
                      /\ job[<<o, "create">>].at = "ended" =>
                            /\ payments[o] > 0
                            /\ OfOrder(bought, o) = AllUnits(o)
                            /\ row[o] = "paid" \/ o \in byClient
    BY DEF AnswersAreTrue
  <2>1. Clean(o) /\ Served(o) /\ Carted /\ SoldIsPaid
    BY DEF WayInv, FlowInv, Flow, IInv
  <2>2. ASSUME row[o] = "cancelled", o \notin byClient \cup rerun \cup manual
        PROVE  payments[o] = 0 /\ OfOrder(bought, o) = {}
    <3>1. payments[o] = 0
      BY <2>1, <2>2 DEF Clean
    <3> QED
      BY <2>1, <3>1 DEF SoldIsPaid, OfOrder
  <2>3. ASSUME job[<<o, "create">>].at = "ended"
        PROVE  /\ payments[o] > 0
               /\ OfOrder(bought, o) = AllUnits(o)
               /\ row[o] = "paid" \/ o \in byClient
    <3>1. /\ payments[o] > 0
          /\ row[o] = "paid" \/ o \in byClient
          /\ \A i \in DOMAIN Cart[o] : UnitsOf(o, i) \subseteq bought
      BY <2>1, <2>3 DEF Served
    <3>2. \A u \in AllUnits(o) : u.order = o /\ u \in bought
      BY <3>1, UnitsAreUnits DEF AllUnits
    <3>3. \A u \in OfOrder(bought, o) : u \in AllUnits(o)
      BY <2>1 DEF Carted, OfOrder
    <3> QED
      BY <3>1, <3>2, <3>3 DEF OfOrder
  <2> QED
    BY <2>2, <2>3
<1> QED
  BY <1>1, AlwaysWay, PTL

\* Stock that stays reserved for a settled order is of three kinds: the order
\* was cancelled with its first items reserved, or all of them where a failure
\* followed the last; its confirmation failed; or a task died of its own log
\* call (inventory/service.py, order/service.py:109, tasks.py).
THEOREM LeaksAreOfThreeKinds == Spec => []LeaksAreKnown
<1>1. IInv /\ WayInv => LeaksAreKnown
  <2> SUFFICES ASSUME IInv, WayInv, NEW o \in Orders, Settled(o),
                      o \notin rerun \cup byClient \cup manual \cup lost
               PROVE  LET kept == {i \in DOMAIN Cart[o] : UnitsOf(o, i) \subseteq held}
                          last == Len(Cart[o])
                      IN  kept # {} =>
                          \/ /\ row[o] = "cancelled"
                             /\ \E n \in 1..last :
                                   kept = 1..n /\ (n = last => o \in Troubled)
                          \/ row[o] = "paid" /\ \E n \in 1..last : kept = n..last
                          \/ row[o] = "pending" /\ ~sync /\ level # "critical"
    BY DEF LeaksAreKnown
  <2> DEFINE kept == {i \in DOMAIN Cart[o] : UnitsOf(o, i) \subseteq held}
             last == Len(Cart[o])
  <2>1. RestHolds(o) /\ ~Pursued(o)
    BY NobodyAtRest, SettledIsNotPursued DEF WayInv, FlowInv, Flow, Leaks, Excused, Settled
  <2>2. DOMAIN Cart[o] = 1..last /\ last \in Nat
    BY CartItems
  <2>3. \A i : i \in kept <=> i \in 1..last /\ Has(o, i)
    BY <2>2 DEF Has
  <2> HIDE DEF kept, last
  <2> SUFFICES ASSUME kept # {}
               PROVE  \/ /\ row[o] = "cancelled"
                         /\ \E n \in 1..last :
                               kept = 1..n /\ (n = last => o \in Troubled)
                      \/ row[o] = "paid" /\ \E n \in 1..last : kept = n..last
                      \/ row[o] = "pending" /\ ~sync /\ level # "critical"
    BY DEF kept, last
  <2>4. CASE \A i \in DOMAIN Cart[o] : ~Has(o, i)
    BY <2>2, <2>3, <2>4
  <2>5. CASE row[o] = "cancelled" /\ Prefix(o)
    <3>1. PICK n \in 0..last :
              /\ n = last => o \in Troubled
              /\ \A i \in 1..last : Has(o, i) <=> i <= n
      BY <2>2, <2>5 DEF Prefix, last
    <3>2. \A i : i \in kept <=> i \in 1..n
      BY <2>2, <2>3, <3>1
    <3>3. PICK j : j \in kept
      OBVIOUS
    <3>4. n \in 1..last
      BY <2>2, <3>1, <3>2, <3>3
    <3>5. kept = 1..n
      BY <3>2
    <3> QED
      BY <2>5, <3>1, <3>4, <3>5
  <2>6. CASE row[o] = "paid" /\ Suffix(o)
    <3>1. PICK n \in 1..(last + 1) : \A i \in 1..last : Has(o, i) <=> i >= n
      BY <2>2, <2>6 DEF Suffix, last
    <3>2. \A i : i \in kept <=> i \in n..last
      BY <2>2, <2>3, <3>1
    <3>3. PICK j : j \in kept
      OBVIOUS
    <3>4. n \in 1..last
      BY <2>2, <3>1, <3>2, <3>3
    <3>5. kept = n..last
      BY <3>2
    <3> QED
      BY <2>6, <3>4, <3>5
  <2> QED
    BY <2>1, <2>4, <2>5, <2>6 DEF RestHolds
<1> QED
  BY <1>1, AlwaysWay, PTL

-----------------------------------------------------------------------------
(* Prices *)

\* Rounding to cents is off by half a cent at most.
LEMMA HalfUpIsNear ==
    ASSUME NEW n \in Int
    PROVE  HalfUp(n) \in Int /\ HalfUp(n) * 100 - n \in -50..50
  BY DEF HalfUp

\* A share of an amount that is not negative is between nothing and all of it.
LEMMA HalfUpOfShare ==
    ASSUME NEW n \in Nat, NEW m \in 0..(15 * n)
    PROVE  HalfUp(m) \in 0..n
  BY DEF HalfUp

\* The two tables of rates are one.
LEMMA RatesAgree ==
    ASSUME NEW vip \in 0..3
    PROVE  VipDiscount(vip) = QuotedRate(vip) /\ VipDiscount(vip) \in {0, 5, 10, 15}
<1>1. vip = 0 \/ vip = 1 \/ vip = 2 \/ vip = 3
  OBVIOUS
<1>2. /\ <<0, 5, 10, 15>>[1] = 0 /\ <<0, 5, 10, 15>>[2] = 5
      /\ <<0, 5, 10, 15>>[3] = 10 /\ <<0, 5, 10, 15>>[4] = 15
  OBVIOUS
<1> QED
  BY <1>1, <1>2 DEF VipDiscount, QuotedRate

LEMMA CouponAmounts ==
    ASSUME NEW code \in Coupons
    PROVE  CouponDiscount(code) \in {0, 1000, 2000}
  BY DEF Coupons, CouponDiscount

\* Two roundings: the discount's counts 108 times, the tax's 100 times.
LEMMA TwoRoundings ==
    ASSUME NEW settled \in Int, NEW share \in Int, NEW discount \in Int, NEW tax \in Int,
           discount * 100 - share \in -50..50,
           tax * 100 - (settled - discount) * 8 \in -50..50
    PROVE  LET off == ((settled - discount + tax) * 10000) - ((settled * 100 - share) * 108)
           IN  off \in Int /\ -10400 <= off /\ off <= 10400
  OBVIOUS

\* The amounts of an order are within the two roundings of the exact price, and
\* negative only below the coupon.
LEMMA AmountsAreNear ==
    ASSUME NEW total \in Int, NEW rate \in {0, 5, 10, 15}, NEW coupon \in {0, 1000, 2000}
    PROVE  /\ IsNear(total, rate, coupon)
           /\ Amounts(total, rate, coupon).final < 0 => coupon > total
<1> DEFINE settled == total - coupon
           share == settled * rate
           discount == HalfUp(share)
           less == settled - discount
           tax == HalfUp(less * TaxRate)
           Cost(r) == settled * (100 - r) * 108
<1>1. settled \in Int /\ share \in Int
  BY rate \in Int
<1>2. discount \in Int /\ discount * 100 - share \in -50..50
  <2> HIDE DEF share
  <2> QED
    BY <1>1, HalfUpIsNear
<1>3. less \in Int /\ less * TaxRate = less * 8 /\ less * 8 \in Int
  <2> HIDE DEF discount
  <2> QED
    BY <1>1, <1>2 DEF TaxRate
<1>4. tax \in Int /\ tax * 100 - less * 8 \in -50..50
  <2> HIDE DEF less
  <2> QED
    BY <1>3, HalfUpIsNear
<1>5. Amounts(total, rate, coupon).final = less + tax
  BY DEF Amounts
<1>6. (settled * 100 - share) * 108 = Cost(rate)
  <2> HIDE DEF settled
  <2>1. CASE rate = 0
    BY <1>1, <2>1
  <2>2. CASE rate = 5
    BY <1>1, <2>2
  <2>3. CASE rate = 10
    BY <1>1, <2>3
  <2>4. CASE rate = 15
    BY <1>1, <2>4
  <2> QED
    BY <2>1, <2>2, <2>3, <2>4
<1>7. settled \in Nat => share \in 0..(15 * settled)
  <2> HIDE DEF settled
  <2>1. CASE rate = 0
    BY <1>1, <2>1
  <2>2. CASE rate = 5
    BY <1>1, <2>2
  <2>3. CASE rate = 10
    BY <1>1, <2>3
  <2>4. CASE rate = 15
    BY <1>1, <2>4
  <2> HIDE DEF share
  <2> QED
    BY <2>1, <2>2, <2>3, <2>4
<1>8. settled \in Nat => less + tax >= 0
  <2> SUFFICES ASSUME settled \in Nat PROVE less + tax >= 0
    OBVIOUS
  <2>1. discount \in 0..settled
    <3> HIDE DEF settled, share
    <3> QED
      BY <1>7, HalfUpOfShare
  <2>2. less \in Nat /\ less * 8 \in 0..(15 * less)
    <3> HIDE DEF settled, discount
    <3> QED
      BY <2>1
  <2>3. tax \in 0..less
    <3> HIDE DEF less
    <3> QED
      BY <1>3, <2>2, HalfUpOfShare
  <2> HIDE DEF less, tax
  <2> QED
    BY <2>2, <2>3
<1>9. less + tax < 0 => coupon > total
  <2> HIDE DEF less, tax
  <2> QED
    BY <1>1, <1>3, <1>4, <1>8
<1>10. Cost(rate) = Exact(total, rate, coupon)
  BY DEF Exact, TaxRate
<1>11. IsNear(total, rate, coupon)
  <2> HIDE DEF settled, share, discount, Cost, tax
  <2> DEFINE off == ((less + tax) * 10000) - Cost(rate)
  <2>1. off \in Int /\ -10400 <= off /\ off <= 10400
    BY <1>1, <1>2, <1>4, <1>6, TwoRoundings
  <2>2. (Amounts(total, rate, coupon).final * 10000) - Exact(total, rate, coupon) = off
    BY <1>5, <1>10
  <2> HIDE DEF off
  <2> QED
    BY <2>1, <2>2 DEF IsNear
<1> HIDE DEF less, tax
<1> QED
  BY <1>5, <1>9, <1>11

\* ChargeIsExact, for any totals and any of the levels: create_order charges
\* what the payment service quotes, within 1.04 cents of the exact price, and a
\* negative price needs a coupon worth more than the order.
THEOREM ChargesAreExact == Spec => []ChargeIsExact
<1>1. QuoteIsAmounts
  <2> SUFFICES ASSUME NEW total \in Totals, NEW vip \in VipLevels, NEW code \in Coupons
               PROVE  OrderAmounts(total, vip, code) = Quote(total, vip, CouponDiscount(code))
    BY DEF QuoteIsAmounts
  <2>1. VipDiscount(vip) = QuotedRate(vip)
    BY PriceAssumption, RatesAgree
  <2> QED
    BY <2>1 DEF OrderAmounts, Quote
<1>2. ASSUME NEW total \in Totals, NEW vip \in VipLevels, NEW code \in Coupons
      PROVE  /\ IsNear(total, VipDiscount(vip), CouponDiscount(code))
             /\ OrderAmounts(total, vip, code).final < 0 => CouponDiscount(code) > total
  <2>1. total \in Int /\ VipDiscount(vip) \in {0, 5, 10, 15}
    BY PriceAssumption, RatesAgree
  <2>2. CouponDiscount(code) \in {0, 1000, 2000}
    BY CouponAmounts
  <2>3. OrderAmounts(total, vip, code) = Amounts(total, VipDiscount(vip), CouponDiscount(code))
    BY DEF OrderAmounts
  <2> QED
    BY <2>1, <2>2, <2>3, AmountsAreNear
<1>3. WithinACent
  BY <1>2 DEF WithinACent
<1>4. NegativeOnlyByCoupon
  BY <1>2 DEF NegativeOnlyByCoupon
<1>5. ChargeIsExact
  BY <1>1, <1>3, <1>4 DEF ChargeIsExact
<1> QED
  BY <1>5, PTL
=============================================================================
