----------------------------- MODULE OrderSaga -----------------------------
(***************************************************************************)
(* Placing, paying for and cancelling orders of the e-commerce platform:   *)
(* reserve the stock, take the payment, confirm the stock as sold          *)
(* (services/order, services/inventory, services/payment), either inside   *)
(* the HTTP request (SYNC_TASKS) or as Celery tasks (celery_app/tasks.py)  *)
(* that are retried, parked in a table and replayed, and run again when    *)
(* their worker dies (task_acks_late, task_reject_on_worker_lost).         *)
(*                                                                         *)
(* Every commit is a step.  Stock is locked per item only: there is no     *)
(* transaction around an order.  The lock in Redis runs out after five     *)
(* seconds and falls back to one of the process.  What then keeps two      *)
(* writers of a row apart is SELECT ... FOR UPDATE, and SQLite, on which   *)
(* the synchronous stack runs, has none: its writers may write counters    *)
(* back that they read before another's commit.  A call that raises has    *)
(* done nothing, or has committed as its step says.                        *)
(*                                                                         *)
(* A job is a request under way or a task message; one of a kind per order *)
(* at a time.  The task logger is the standard one: an enabled             *)
(* logger.info(..., order_id=...) raises TypeError, so what a task does    *)
(* depends on the worker's log level.  All fault switches (BUG_...) are    *)
(* off.  What an order costs is in Prices: its total, level and coupon are *)
(* not part of the state.                                                  *)
(***************************************************************************)
EXTENDS Integers, Sequences, FiniteSets, Prices

CONSTANTS
    Orders,
    Products,
    Cart,           \* the items of an order, in the order of the payload
    Stock,          \* total_qty of a product
    Troubled,       \* orders that clients cancel or pay for by hand, that
                    \* crashes strike, and that locks, the database and the
                    \* broker fail (a bound)
    MaxRetries,     \* max_retries of the tasks (3 in the code)
    MaxPayments,    \* payments of one order in a behaviour (a bound)
    MaxFaults       \* crashes and replays in a behaviour (a bound)

ASSUME SagaAssumption ==
    /\ Cart \in [Orders -> Seq([product : Products, quantity : Nat \ {0}])]
    /\ \A o \in Orders : Len(Cart[o]) > 0
    /\ Stock \in [Products -> Nat]
    /\ MaxRetries \in Nat /\ MaxPayments \in Nat /\ MaxFaults \in Nat

VARIABLES
    sync,           \* SYNC_TASKS: the request does the work itself
    level,          \* the log level of the Celery workers
    row,            \* orders.status, "absent" before the order is committed
    job,            \* requests under way and task messages
    parked,         \* rows of pending_tasks
    reserved, sold, \* reserved_qty and sold_qty of a product
    seen,           \* counters a job has read and may find out of date
    payments,       \* successful payments of an order
    cancelling,     \* cancel requests that have read the status
    held, bought,   \* history: the units reserved and sold to an order
    manual,         \* history: orders paid for through the payment route
    byClient,       \* history: orders a client has cancelled
    early,          \* history: of those, the ones not reserved and at rest
    torn,           \* history: counters were written that were out of date
    rerun,          \* history: orders one of whose tasks ran more than once
    lost,           \* history: orders a crash or a failing handler cut off
    faults

rowVars == <<row, payments, manual>>
countVars == <<reserved, sold, held, bought>>
stockVars == <<countVars, seen, torn>>
cancelVars == <<cancelling, byClient, early>>
faultVars == <<rerun, lost, faults>>
vars == <<sync, level, job, parked, rowVars, stockVars, cancelVars, faultVars>>

Kinds == {"create", "reserve", "payment", "release"}
Tasks == Kinds \ {"create"}
Steps == {"none", "queued", "reserve", "pay", "confirm", "release", "send",
          "failed", "rollback", "retry", "ack", "ended", "dead"}
Levels == {"info", "error", "critical"}

\* The units of an order's items.
Units == [order : Orders, item : Nat, unit : Nat]
UnitsOf(o, i) ==
    {[order |-> o, item |-> i, unit |-> n] : n \in 1..Cart[o][i].quantity}
AllUnits(o) == UNION {UnitsOf(o, i) : i \in DOMAIN Cart[o]}
Counters == [reserved : Nat, sold : Nat]
OfProduct(us, p) == {u \in us : Cart[u.order][u.item].product = p}
OfOrder(us, o) == {u \in us : u.order = o}

TypeOK ==
    /\ sync \in BOOLEAN /\ level \in Levels
    /\ row \in [Orders -> {"absent", "pending", "paid", "cancelled"}]
    /\ job \in [Orders \X Kinds -> [at : Steps, item : Nat \ {0}, tries : 0..MaxRetries]]
    /\ \A x \in Orders \X Kinds : job[x].item \in DOMAIN Cart[x[1]]
    /\ parked \in SUBSET (Orders \X Tasks)
    /\ reserved \in [Products -> Nat] /\ sold \in [Products -> Nat]
    /\ payments \in [Orders -> 0..MaxPayments]
    /\ seen \in [Orders \X Kinds -> SUBSET Counters] /\ torn \in BOOLEAN
    /\ held \in SUBSET Units /\ bought \in SUBSET Units
    /\ cancelling \in SUBSET Orders /\ manual \in SUBSET Orders
    /\ byClient \in SUBSET Orders /\ early \in SUBSET Orders
    /\ rerun \in SUBSET Orders /\ lost \in SUBSET Orders
    /\ faults \in 0..MaxFaults

At(s) == [at |-> s, item |-> 1, tries |-> 0]

Init ==
    /\ sync \in BOOLEAN
    /\ level \in IF sync THEN {"info"} ELSE Levels
    /\ row = [o \in Orders |-> "absent"]
    /\ job = [x \in Orders \X Kinds |-> At("none")]
    /\ parked = {}
    /\ reserved = [p \in Products |-> 0] /\ sold = [p \in Products |-> 0]
    /\ seen = [x \in Orders \X Kinds |-> {}] /\ torn = FALSE
    /\ payments = [o \in Orders |-> 0]
    /\ held = {} /\ bought = {}
    /\ cancelling = {} /\ manual = {} /\ byClient = {} /\ early = {}
    /\ rerun = {} /\ lost = {}
    /\ faults = 0

-----------------------------------------------------------------------------
(* Jobs *)

Idle(x) == job[x].at \in {"none", "ended", "dead"}
Active(x) == ~Idle(x) /\ job[x].at # "queued"

\* The step a job starts with.
First(k) == CASE k = "payment" -> "pay"
              [] k = "release" -> "release"
              [] OTHER -> "reserve"

\* Mutant of After: a request confirms without a payment.
AfterUnpaid(k, s) == CASE s = "reserve" -> IF k = "create" THEN "confirm" ELSE "send"
                       [] s = "pay" -> "confirm"
                       [] OTHER -> IF sync THEN "ended" ELSE "ack"

\* The step after the last item of a loop over the items.
After(k, s) == CASE s = "reserve" -> IF k = "create" THEN "pay" ELSE "send"
                 [] s = "pay" -> "confirm"
                 [] OTHER -> IF sync THEN "ended" ELSE "ack"

\* Mutant of Caught: a failed reservation is retried without a rollback.
CaughtUnrolled(k, s, i) ==
    CASE k = "create" -> IF s = "reserve" /\ i = 1 THEN "rollback" ELSE "failed"
      [] k = "release" \/ (k \in Tasks /\ level # "critical") -> "dead"
      [] OTHER -> "retry"

\* Where an exception in step s takes the job.  A request cancels the order,
\* and sees the status it read before the reservation unless an item has been
\* committed since; a task logs first, which raises unless errors are not
\* logged; a release has no handler.
Caught(k, s, i) ==
    CASE k = "create" -> IF s = "reserve" /\ i = 1 THEN "rollback" ELSE "failed"
      [] k = "release" \/ (k \in Tasks /\ level # "critical") -> "dead"
      [] k = "reserve" /\ level = "critical" -> "failed"
      [] k = "payment" /\ level = "critical" -> "retry"

Goto(x, s) == job' = [job EXCEPT ![x] = [at |-> s, item |-> 1, tries |-> @.tries]]

\* The next item, or the next step after the last one.
Advance(x) ==
    IF job[x].item < Len(Cart[x[1]])
    THEN job' = [job EXCEPT ![x].item = @ + 1]
    ELSE Goto(x, After(x[2], job[x].at))

Raises(x, i) == job' = [job EXCEPT ![x].at = Caught(x[2], @, i)]

\* An item is committed and its lock given up, which raises when the lock has
\* run out meanwhile.
Unlocks(x) == Advance(x) \/ (x[1] \in Troubled /\ Raises(x, job[x].item + 1))

Item(x) == Cart[x[1]][job[x].item]
UnitsAt(x) == UnitsOf(x[1], job[x].item)

Less(a, b) == IF a < b THEN 0 ELSE a - b
AtRest(o) == \A k \in Kinds : Idle(<<o, k>>)

\* Nothing works on an order, and no payment of it is parked.
Settled(o) == AtRest(o) /\ <<o, "payment">> \notin parked

\* A worker takes a message.
Take(x) ==
    /\ job[x].at = "queued"
    /\ Goto(x, First(x[2]))
    /\ UNCHANGED <<sync, level, parked, rowVars, stockVars, cancelVars, faultVars>>

-----------------------------------------------------------------------------
(* Inventory and payment *)

Current(p) == [reserved |-> reserved[p], sold |-> sold[p]]

\* The counters that a step over an item works on.
Basis(x) == IF seen[x] = {} THEN {Current(Item(x).product)} ELSE seen[x]

Enough(x, c) == Item(x).quantity <= Stock[Item(x).product] - c.reserved - c.sold

\* Counters c become r and s; one that does not change is not written.
Writes(x, c, r, s) ==
    LET p == Item(x).product
    IN  /\ reserved' = [reserved EXCEPT ![p] = IF r = c.reserved THEN @ ELSE r]
        /\ sold' = [sold EXCEPT ![p] = IF s = c.sold THEN @ ELSE s]
        /\ seen' = [seen EXCEPT ![x] = {}]
        /\ torn' = (torn \/ c # Current(p))

\* Where rows are not locked, a job whose lock does not keep others out has
\* read the counters of an item before another's commit.
ReadsUnlocked(x) ==
    /\ sync
    /\ x[1] \in Troubled
    /\ job[x].at \in {"reserve", "confirm", "release"}
    /\ seen[x] = {}
    /\ seen' = [seen EXCEPT ![x] = {Current(Item(x).product)}]
    /\ UNCHANGED <<sync, level, job, parked, rowVars, countVars, torn, cancelVars, faultVars>>

\* reserve_inventory, one item under the lock of its product.
Reserve(x) ==
    /\ job[x].at = "reserve"
    /\ \E c \in Basis(x) :
          Enough(x, c) /\ Writes(x, c, c.reserved + Item(x).quantity, c.sold)
    /\ held' = held \cup UnitsAt(x)
    /\ Unlocks(x)
    /\ UNCHANGED <<sync, level, parked, rowVars, bought, cancelVars, faultVars>>

\* Mutant of Pay: the order does not become paid.
PayKeepsStatus(x) ==
    /\ job[x].at = "pay"
    /\ payments[x[1]] < MaxPayments
    /\ payments' = [payments EXCEPT ![x[1]] = @ + 1]
    /\ Goto(x, After(x[2], "pay"))
    /\ UNCHANGED <<sync, level, parked, row, manual, stockVars, cancelVars, faultVars>>

\* process_payment, which looks at no status.  Should it raise after its
\* commit, that is the confirmation raising.
Pay(x) ==
    /\ job[x].at = "pay"
    /\ payments[x[1]] < MaxPayments
    /\ payments' = [payments EXCEPT ![x[1]] = @ + 1]
    /\ row' = [row EXCEPT ![x[1]] = "paid"]
    /\ Goto(x, After(x[2], "pay"))
    /\ UNCHANGED <<sync, level, parked, manual, stockVars, cancelVars, faultVars>>

\* Mutant of Confirm: sold without giving the reservation up.
ConfirmOnly(x) ==
    /\ job[x].at = "confirm"
    /\ \E c \in Basis(x) : Writes(x, c, c.reserved, c.sold + Item(x).quantity)
    /\ held' = held \ UnitsAt(x)
    /\ bought' = bought \cup UnitsAt(x)
    /\ Unlocks(x)
    /\ UNCHANGED <<sync, level, parked, rowVars, cancelVars, faultVars>>

\* confirm_inventory, one item.
Confirm(x) ==
    /\ job[x].at = "confirm"
    /\ \E c \in Basis(x) : LET n == Item(x).quantity
                           IN  Writes(x, c, Less(c.reserved, n), c.sold + n)
    /\ held' = held \ UnitsAt(x)
    /\ bought' = bought \cup UnitsAt(x)
    /\ Unlocks(x)
    /\ UNCHANGED <<sync, level, parked, rowVars, cancelVars, faultVars>>

\* release_inventory, one item.
Release(x) ==
    /\ job[x].at = "release"
    /\ \E c \in Basis(x) : Writes(x, c, Less(c.reserved, Item(x).quantity), c.sold)
    /\ held' = held \ UnitsAt(x)
    /\ Unlocks(x)
    /\ UNCHANGED <<sync, level, parked, rowVars, bought, cancelVars, faultVars>>

\* A step raises before it has done anything: there is no stock, its log call
\* is enabled, or neither lock is to be had, the database or the broker fails.
StepRaises(x) ==
    /\ job[x].at \in {"reserve", "pay", "confirm", "release", "send"}
    /\ \/ x[1] \in Troubled
       \/ job[x].at = "reserve" /\ \E c \in Basis(x) : ~Enough(x, c)
       \/ job[x].at = "send" /\ level = "info"
    /\ Raises(x, job[x].item)
    /\ seen' = [seen EXCEPT ![x] = {}]
    /\ UNCHANGED <<sync, level, parked, rowVars, countVars, torn, cancelVars, faultVars>>

-----------------------------------------------------------------------------
(* The rest of the request and of the tasks *)

\* create_order up to its commit; without SYNC_TASKS it then sends the
\* reservation task, unless the service dies or the broker refuses.
PlaceOrder(o) ==
    /\ row[o] = "absent"
    /\ row' = [row EXCEPT ![o] = "pending"]
    /\ \/ sync /\ job' = [job EXCEPT ![<<o, "create">>] = At("reserve")] /\ UNCHANGED lost
       \/ ~sync /\ job' = [job EXCEPT ![<<o, "reserve">>] = At("queued")] /\ UNCHANGED lost
       \/ ~sync /\ UNCHANGED job /\ lost' = lost \cup {o}
    /\ UNCHANGED <<sync, level, parked, payments, manual, stockVars, cancelVars, rerun, faults>>

\* The reservation task logs its success and sends the payment task.
SendPayment(x) ==
    /\ job[x].at = "send"
    /\ level # "info"
    /\ Idle(<<x[1], "payment">>)
    /\ job' = [job EXCEPT ![x].at = "ack", ![<<x[1], "payment">>] = At("queued")]
    /\ UNCHANGED <<sync, level, parked, rowVars, stockVars, cancelVars, faultVars>>

AfterHandler(x) == Goto(x, IF x[2] = "create" THEN "dead" ELSE "retry")

\* Mutant of HandlerReads: the handler cancels whatever the status is.
HandlerAlwaysCancels(x) ==
    /\ job[x].at = "failed"
    /\ Goto(x, "rollback")
    /\ UNCHANGED <<sync, level, parked, rowVars, stockVars, cancelVars, faultVars>>

\* The handler looks whether the order is still pending ...
HandlerReads(x) ==
    /\ job[x].at = "failed"
    /\ IF row[x[1]] = "pending" THEN Goto(x, "rollback") ELSE AfterHandler(x)
    /\ UNCHANGED <<sync, level, parked, rowVars, stockVars, cancelVars, faultVars>>

\* ... and cancels it.  Nothing is released.
HandlerCancels(x) ==
    /\ job[x].at = "rollback"
    /\ row' = [row EXCEPT ![x[1]] = "cancelled"]
    /\ AfterHandler(x)
    /\ UNCHANGED <<sync, level, parked, payments, manual, stockVars, cancelVars, faultVars>>

\* self.retry, or the table of pending tasks after the last retry.
Retry(x) ==
    /\ job[x].at = "retry"
    /\ \/ /\ job[x].tries < MaxRetries
          /\ job' = [job EXCEPT ![x] = [At("queued") EXCEPT !.tries = job[x].tries + 1]]
          /\ rerun' = rerun \cup {x[1]}
          /\ UNCHANGED parked
       \/ /\ job[x].tries = MaxRetries
          /\ job' = [job EXCEPT ![x].at = "dead"]
          /\ parked' = parked \cup {x}
          /\ UNCHANGED rerun
    /\ UNCHANGED <<sync, level, rowVars, stockVars, cancelVars, lost, faults>>

\* The worker acknowledges the message.
Ack(x) ==
    /\ job[x].at = "ack"
    /\ Goto(x, "ended")
    /\ UNCHANGED <<sync, level, parked, rowVars, stockVars, cancelVars, faultVars>>

\* retry_pending_db_tasks sends a parked task and then deletes its row,
\* unless it dies in between.
Replay(x) ==
    /\ x \in parked
    /\ Idle(x)
    /\ job' = [job EXCEPT ![x] = At("queued")]
    /\ rerun' = rerun \cup {x[1]}
    /\ faults < MaxFaults
    /\ faults' = faults + 1
    /\ parked' = parked \ {x} \/ UNCHANGED parked
    /\ UNCHANGED <<sync, level, rowVars, stockVars, cancelVars, lost>>

-----------------------------------------------------------------------------
(* Clients and crashes *)

\* POST /payments/{order_id}/process, any number of times.
PayByHand(o) ==
    /\ row[o] # "absent"
    /\ o \in Troubled
    /\ payments[o] < MaxPayments
    /\ payments' = [payments EXCEPT ![o] = @ + 1]
    /\ row' = [row EXCEPT ![o] = "paid"]
    /\ manual' = manual \cup {o}
    /\ UNCHANGED <<sync, level, job, parked, stockVars, cancelVars, faultVars>>

\* cancel_order reads the status ...
CancelReads(o) ==
    /\ row[o] = "pending"
    /\ o \in Troubled \ cancelling
    /\ cancelling' = cancelling \cup {o}
    /\ UNCHANGED <<sync, level, job, parked, rowVars, stockVars, byClient, early,
                  faultVars>>

\* ... and cancels whatever the order is by now, then releases the items, or
\* sends the task that does, unless the service dies or the broker refuses.
CancelWrites(o) ==
    /\ o \in cancelling
    /\ Idle(<<o, "release">>)
    /\ row' = [row EXCEPT ![o] = "cancelled"]
    /\ cancelling' = cancelling \ {o}
    /\ byClient' = byClient \cup {o}
    /\ early' = IF AtRest(o) /\ OfOrder(held, o) = AllUnits(o) THEN early
                ELSE early \cup {o}
    /\ \/ job' = [job EXCEPT ![<<o, "release">>] = At(IF sync THEN "release" ELSE "queued")]
          /\ UNCHANGED lost
       \/ UNCHANGED job /\ lost' = lost \cup {o}
    /\ UNCHANGED <<sync, level, parked, payments, manual, stockVars, rerun, faults>>

\* A service dies with its request, or the database or the broker fails the
\* handler of one; a worker dies and its message is delivered again.
Crash(x) ==
    /\ Active(x)
    /\ x[1] \in Troubled
    /\ faults < MaxFaults
    /\ faults' = faults + 1
    /\ \/ /\ sync \/ job[x].at \in {"failed", "rollback", "retry"}
          /\ Goto(x, "dead") /\ lost' = lost \cup {x[1]} /\ UNCHANGED rerun
       \/ ~sync /\ Goto(x, "queued") /\ rerun' = rerun \cup {x[1]} /\ UNCHANGED lost
    /\ seen' = [seen EXCEPT ![x] = {}]
    /\ UNCHANGED <<sync, level, parked, rowVars, countVars, torn, cancelVars>>

JobStep(x) ==
    \/ Take(x) \/ ReadsUnlocked(x) \/ Reserve(x) \/ Pay(x) \/ Confirm(x) \/ Release(x) \/ StepRaises(x)
    \/ SendPayment(x) \/ HandlerReads(x) \/ HandlerCancels(x) \/ Retry(x) \/ Ack(x)

Next ==
    \/ \E x \in Orders \X Kinds : JobStep(x) \/ Crash(x)
    \/ \E x \in Orders \X Tasks : Replay(x)
    \/ \E o \in Orders : PlaceOrder(o) \/ PayByHand(o) \/ CancelReads(o) \/ CancelWrites(o)

Spec == Init /\ [][Next]_vars

-----------------------------------------------------------------------------
(* Properties *)

\* Nothing has run twice, every order a client cancelled had all its stock and
\* nobody working on it, and no counter was out of date when it was written.
Regular == rerun = {} /\ early = {} /\ ~torn

\* The counters of a product are the units reserved and sold to orders, as
\* long as no task ran twice, no order was cancelled before its stock was
\* reserved or with work on it under way, and no two writers of a row that is
\* not locked overlapped: whatever fails before or after a commit, no release
\* or confirmation takes away what is reserved for somebody else, and no more
\* is promised than there is (inventory/service.py).
CountersAreUnits ==
    Regular => \A p \in Products :
        /\ reserved[p] = Cardinality(OfProduct(held, p))
        /\ sold[p] = Cardinality(OfProduct(bought, p))
        /\ reserved[p] + sold[p] <= Stock[p]

\* What is sold to an order has been paid for, whatever was retried, run
\* again or cancelled.
SoldIsPaid == \A u \in bought : payments[u.order] > 0

\* What a request answers is true, whoever works on the order at the same
\* time.  One whose handler cancelled the order (order/service.py:109,
\* tasks.py:150) has charged and sold nothing, unless a task of the order ran
\* twice or somebody paid by hand; one that answers with the order has sold
\* all of its items, unless a client cancelled it meanwhile.
AnswersAreTrue ==
    \A o \in Orders :
        /\ row[o] = "cancelled" /\ o \notin byClient \cup rerun \cup manual =>
              payments[o] = 0 /\ OfOrder(bought, o) = {}
        /\ job[<<o, "create">>].at = "ended" =>
              /\ payments[o] > 0
              /\ OfOrder(bought, o) = AllUnits(o)
              /\ row[o] = "paid" \/ o \in byClient

\* The only stock left reserved by an order that is settled: the first items
\* of an order cancelled for want of a later one, or all of them if it is its
\* lock, its payment or the sending of its task that failed after the last,
\* the last items of a paid order whose confirmation failed, and the items of
\* an order whose task died of its own log call.
LeaksAreKnown ==
    \A o \in Orders :
        Settled(o) /\ o \notin rerun \cup byClient \cup manual \cup lost =>
            LET kept == {i \in DOMAIN Cart[o] : UnitsOf(o, i) \subseteq held}
                last == Len(Cart[o])
            IN  kept # {} =>
                \/ /\ row[o] = "cancelled"
                   /\ \E n \in 1..last : kept = 1..n /\ (n = last => o \in Troubled)
                \/ row[o] = "paid" /\ \E n \in 1..last : kept = n..last
                \/ row[o] = "pending" /\ ~sync /\ level # "critical"

\* An order that is settled, its reservation parked or not, has been decided,
\* unless a crash or a failing handler cut off what worked on it; with tasks,
\* only if their loggers are silent.
QuietIsDecided ==
    \A o \in Orders :
        Settled(o) /\ o \notin lost /\ (sync \/ level = "critical")
            => row[o] \in {"absent", "paid", "cancelled"}

\* What an order has been charged is what the payment service quotes for it,
\* although rates come from two tables (user/service.py:69,
\* payment/service.py:14), is within 1.04 cents of the exact price, two
\* roundings included, and is negative only for an order cheaper than its
\* coupon, which order/service.py:37 does not cap.
ChargeIsExact ==
    (\E o \in Orders : payments[o] > 0) =>
        QuoteIsAmounts /\ WithinACent /\ NegativeOnlyByCoupon
=============================================================================
