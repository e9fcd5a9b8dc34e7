----------------------------- MODULE Lifecycle -----------------------------
(***************************************************************************)
(* The events of an order's life: every save of an Order row may publish a *)
(* Celery task, from inside the transaction that saves it, and workers     *)
(* then send the SMS messages and start the loyalty, growth and analytics  *)
(* tasks (apps/orders/events.py and tasks.py, apps/growth/signals.py,      *)
(* apps/core/tasks, apps/core/models.py).  The number of the day that a    *)
(* checkout gives its order (apps/orders/daily_sequence.py) belongs to the *)
(* same transactions and is modelled with them.                            *)
(*                                                                         *)
(* The database is PostgreSQL with READ COMMITTED: a step sees the rows    *)
(* that are committed and those of its own transaction; a write to a row   *)
(* that an open transaction has written, or an insert of a unique value it *)
(* has inserted, waits until that transaction ends.  The broker is not in  *)
(* the transaction: a message is visible as soon as it is published.       *)
(*                                                                         *)
(* Operators marked "Defect" are faulty variants of the definition below   *)
(* them, kept to show that a property notices the fault.                   *)
(***************************************************************************)
EXTENDS OrderStates, Messages

LOCAL INSTANCE FiniteSetsExt

CONSTANTS
    Orders,           \* primary keys, given out once and never again
    Phoned,           \* those that a phone number can be found for
    Cod,              \* those paid on delivery (is_cod)
    Operations,       \* bound: what is done to an order, per order
    Web,              \* request handlers (and staff, and the payment cleaner)
    Tasks,            \* worker processes of the queue "orders"
    ActiveTemplates,  \* SMSTemplate rows that are active
    MaxRetries,       \* CrumbsTask.max_retries
    MaxFaults,        \* bound: rollbacks, crashes, outages and failed messages
    MaxResends        \* bound: how often retry_failed sends an SMS

ASSUME OperationsAssumption == DOMAIN Operations = Orders
ASSUME TemplatesAssumption == ActiveTemplates \subseteq Templates
ASSUME RetriesAssumption == MaxRetries \in Nat
ASSUME FaultsAssumption == MaxFaults \in Nat /\ MaxResends \in Nat

VARIABLES
    row,     \* the committed Order row: None, Void (rolled back), or its state
    number,  \* the committed daily_sequence, counted from 1; 0: none yet
    web,     \* the open transaction of each request handler
    log,     \* the committed BackgroundTaskLog rows, by task_id (= the key)
    sent,    \* every message ever published: key and copy
    queue,   \* messages at the broker, each with its retries
    worker,  \* what each worker process is doing
    sms,     \* the notes on each message to the customer, see Messages
    fanned,  \* tasks started by a worker: <<order, task>>
    ended,   \* keys whose transaction has committed, and has rolled back
    faults   \* faults so far

vars == <<row, number, web, log, sent, queue, worker, sms, fanned, ended, faults>>
webVars == <<row, number, web, ended>>
taskVars == <<worker, sms, fanned>>

PaymentStatuses == {"pending_payment", "paid", "cod_pending", "cod_confirmed", "cash_received",
                    "failed", "refund_requested", "refund_processed"}
States == [payment : PaymentStatuses, status : OrderStatuses]

None == [payment |-> "none", status |-> "none"]
Void == [payment |-> "void", status |-> "void"]

\* The idempotency key of a save: the order with its state before and after.  The
\* event codes, the rest of the key's text, follow from these.
Keys == [order : Orders, from : States \cup {None}, to : States]

\* BackgroundTaskLog, found by task_id; "keyed": its idempotency_key is set.
LogRows == [status : {"pending", "started", "success", "retry", "dead"}, keyed : BOOLEAN]
NoLog == [k \in {} |-> [status |-> "pending", keyed |-> FALSE]]

\* The messages of the queue "orders", which one kind of worker serves
\* (CELERY_TASK_ROUTES): process_order_lifecycle_events, once per copy of a key.
MessageIds == [key : Keys, copy : Nat \ {0}]
QueueMessages == [id : MessageIds, retries : 0..MaxRetries]

-----------------------------------------------------------------------------
(* build_order_lifecycle_events. *)

Sms(code) == [kind |-> "sms", code |-> code]
Task(name) == [kind |-> "task", code |-> name]
Event == [kind : {"sms"}, code : Templates] \cup
         [kind : {"task"}, code : {"cart_recovered", "loyalty", "growth", "analytics"}]

paid_states == {"paid", "cash_received"}

PaymentEvents(from, to) ==
    IF from.payment = to.payment \/ {from.payment, to.payment} = paid_states THEN <<>>
    ELSE CASE to.payment \in paid_states ->
                  <<Sms("payment_success"), Task("cart_recovered"), Task("loyalty"),
                    Task("growth"), Task("analytics")>>
           [] to.payment = "cod_confirmed" -> <<Sms("order_confirmed_by_shop")>>
           [] to.payment = "failed" -> <<Sms("payment_failed")>>
           [] to.payment = "refund_processed" -> <<Sms("refund_processed"), Task("analytics")>>
           [] OTHER -> <<>>

STATUS_TO_SMS_EVENT ==
    [awaiting_payment |-> "order_created", confirmed_by_shop |-> "order_confirmed_by_shop",
     preparing |-> "order_preparing", packaged |-> "order_packaged",
     out_for_delivery |-> "order_out_for_delivery", delivered |-> "delivered",
     cancelled |-> "order_cancelled", refunded |-> "refund_processed"]

StatusMessage(to) ==
    IF to.status \notin DOMAIN STATUS_TO_SMS_EVENT THEN <<>>
    ELSE <<Sms(STATUS_TO_SMS_EVENT[to.status]), Task("analytics")>>

CodReminder(o, to) ==
    IF o \in Cod /\ to = [payment |-> "cod_confirmed", status |-> "out_for_delivery"]
    THEN <<Sms("cod_reminder")>> ELSE <<>>

\* A delivery is noted a second time.
DeliveryNoted(to) == IF to.status = "delivered" THEN <<Task("analytics")>> ELSE <<>>

StatusEvents(o, from, to) ==
    IF from.status = to.status THEN <<>>
    ELSE StatusMessage(to) \o CodReminder(o, to) \o DeliveryNoted(to)

\* Without a phone number there are no events at all, those for loyalty included.
build_order_lifecycle_events(k) ==
    IF k.order \notin Phoned THEN <<>>
    ELSE IF k.from = None THEN <<Sms("order_created")>>
    ELSE PaymentEvents(k.from, k.to) \o StatusEvents(k.order, k.from, k.to)

-----------------------------------------------------------------------------
(* What an operation saves, one state after the other, in one transaction. *)
(* Raise: it fails at that point, and what it has saved is rolled back.    *)

Raise == [payment |-> "raise", status |-> "raise"]

WithPayment(s, p) == [s EXCEPT !.payment = p]
WithStatus(s, t) == [s EXCEPT !.status = t]

\* OrderService.transition.
transition(s, t) ==
    IF s.status = t THEN <<>>
    ELSE IF can_transition(s.status, t) THEN <<WithStatus(s, t)>> ELSE <<Raise>>

\* create_order_from_cart, with the state each checkout asks for.
create_order_from_cart(op) ==
    <<[payment |-> "pending_payment",
       status |-> IF op = "place_counter" THEN "awaiting_payment" ELSE "pending_payment"]>>

\* The checkout of earlier releases with payment on delivery; such orders remain.
finalize_cod_placement ==
    <<[payment |-> "cod_pending", status |-> "confirmed_by_shop"]>>

confirm_cod(s) ==
    IF s.payment = "cod_pending" THEN <<WithPayment(s, "cod_confirmed")>> ELSE <<Raise>>

\* mark_cod_cash_received and record_cash_received.
record_cash_received(s) ==
    LET p == WithPayment(s, "cash_received")
    IN  (IF s.payment = "cash_received" THEN <<>> ELSE <<p>>) \o transition(p, "delivered")

\* A payment may come for an order that was cancelled meanwhile: it is saved as paid
\* before the transition raises.
finalize_online_payment(s) ==
    LET p == WithPayment(s, "paid")
    IN  IF s.payment = "paid" THEN <<>>
        ELSE IF can_transition(s.status, "paid")
             THEN <<p, WithStatus(p, "paid"), WithStatus(p, "confirmed_by_shop")>>
             ELSE <<p, Raise>>

finalize_counter_payment(s) ==
    LET p == WithPayment(s, "paid")
    IN  IF s.payment = "paid" THEN <<>> ELSE <<p>> \o transition(p, "preparing")

\* cancel; mark_payment_failed does the same to an order that awaits its payment.
cancel(s) ==
    LET p == WithPayment(s, "failed")
    IN  IF s.status \in Closed THEN <<>>
        ELSE IF s.payment = "pending_payment" THEN <<p>> \o transition(p, "cancelled")
        ELSE transition(s, "cancelled")

\* To ask for it twice saves nothing new.
request_refund(s) ==
    IF s.payment = "refund_requested" THEN <<>> ELSE <<WithPayment(s, "refund_requested")>>

process_refund(s) ==
    LET p == WithPayment(s, "refund_processed")
    IN  IF s.status = "refunded" THEN <<>> ELSE <<p>> \o transition(p, "refunded")

\* The steps staff take with an order.
NextStatus == [awaiting_payment |-> "preparing", confirmed_by_shop |-> "preparing",
               preparing |-> "packaged", packaged |-> "out_for_delivery",
               out_for_delivery |-> "delivered"]

advance(s) ==
    IF s.status \in DOMAIN NextStatus THEN transition(s, NextStatus[s.status]) ELSE <<>>

\* Empty: the operation does not apply to an order in that state.
Saves(op, s) ==
    IF s = None
    THEN CASE op \in {"place_online", "place_counter"} -> create_order_from_cart(op)
           [] op = "place_cod" -> create_order_from_cart(op) \o finalize_cod_placement
           [] OTHER -> <<>>
    ELSE CASE s \notin States -> <<>>
           [] s \in States /\ op = "pay_online" -> finalize_online_payment(s)
           [] s \in States /\ op = "pay_counter" -> finalize_counter_payment(s)
           [] s \in States /\ op = "confirm_cod" -> confirm_cod(s)
           [] s \in States /\ op = "receive_cod" -> record_cash_received(s)
           [] s \in States /\ op = "cancel" -> cancel(s)
           [] s \in States /\ op = "request_refund" -> request_refund(s)
           [] s \in States /\ op = "refund" -> process_refund(s)
           [] s \in States /\ op = "advance" -> advance(s)
           [] OTHER -> <<>>

-----------------------------------------------------------------------------
(* The transactions of the web tier. *)

NoTransaction == [order |-> "none"]

InTransaction(w) == web[w] # NoTransaction

\* Rows a transaction has locked: its order, and the row assign_daily_sequence took.
LockedBy(w) == IF InTransaction(w) THEN {web[w].order} \cup web[w].lock ELSE {}

Free(o) == \A w \in Web : o \notin LockedBy(w)

\* A row of the task log that an open transaction has written: whoever writes that
\* row, or inserts a row with that task_id, waits.
Claimed(k) == \E w \in Web : InTransaction(w) /\ k \in web[w].claims

Fault == faults < MaxFaults /\ faults' = faults + 1

\* An operation locks its order's row (a checkout inserts a new one) and reads it.
\* One that will raise may be repeated without end, so it counts as a fault.
BeginTransaction(w, op, o) ==
    /\ ~InTransaction(w)
    /\ op \in Operations[o]
    /\ Saves(op, row[o]) # <<>>
    /\ Free(o)
    /\ web' = [web EXCEPT ![w] = [order |-> o, state |-> row[o], todo |-> Saves(op, row[o]),
                                  claims |-> {}, number |-> number[o], lock |-> {}]]
    /\ IF \E i \in DOMAIN Saves(op, row[o]) : Saves(op, row[o])[i] = Raise
       THEN Fault ELSE UNCHANGED faults
    /\ UNCHANGED <<row, number, log, sent, queue, taskVars, ended>>

\* claim_idempotency_key finds an equivalent task in flight or done.
InFlight == {"pending", "started", "success"}

\* A row a worker wrote for a message whose transaction was rolled back has no
\* idempotency key: it is not found, and it blocks the insert (task_id is unique).
Claimable(k) == k \in DOMAIN log => log[k].keyed /\ log[k].status \notin InFlight

NextCopy(k) == [key |-> k, copy |-> Cardinality({m \in sent : m.key = k}) + 1]

publish(m) ==
    /\ sent' = sent \cup {m}
    /\ queue' = queue \cup {[id |-> m, retries |-> 0]}

\* Order.save: cache_order_previous_state, the UPDATE, and in the post_save signal
\* emit_order_lifecycle_events, which swallows what goes wrong.
SaveOrder(w) ==
    LET t == web[w]
        k == [order |-> t.order, from |-> t.state, to |-> Head(t.todo)]
        after == [t EXCEPT !.state = Head(t.todo), !.todo = Tail(t.todo)]
    IN  /\ InTransaction(w) /\ t.todo # <<>> /\ Head(t.todo) # Raise
        /\ \/ /\ build_order_lifecycle_events(k) = <<>> \/ ~Claimable(k)
              /\ web' = [web EXCEPT ![w] = after]
              /\ UNCHANGED <<sent, queue, faults>>
           \/ /\ build_order_lifecycle_events(k) # <<>> /\ Claimable(k)
              /\ web' = [web EXCEPT ![w] = [after EXCEPT !.claims = @ \cup {k}]]
              /\ \/ publish(NextCopy(k)) /\ UNCHANGED faults
                 \/ Fault /\ UNCHANGED <<sent, queue>>    \* the broker is down
        /\ UNCHANGED <<row, number, log, taskVars, ended>>

NeedsNumber(w) == InTransaction(w) /\ web[w].todo = <<>> /\ web[w].number = 0

Numbered == {o \in Orders : number[o] # 0}

\* The numbers given so far, as the aggregate sees them: the committed ones.
Given == {0} \cup {number[o] : o \in Orders}

\* Defect: numbers come from a counter that a rollback does not set back.
DrawNumber(w) == 
    LET drawn == Given \cup {web[v].number : v \in {x \in Web : InTransaction(x)}}
    IN  CHOOSE n \in {m + 1 : m \in drawn} : \A m \in drawn : m < n

next_sequence(w) == CHOOSE n \in {m + 1 : m \in Given} : \A m \in Given : m < n

\* Lock some order of the day, if there is one, and read the maximum.  The save that
\* follows waits, by the unique index, for a transaction that has saved the same
\* number; what it then meets is decided at the end, see Commit and LoseNumber.
assign_daily_sequence(w) ==
    /\ NeedsNumber(w)
    /\ \E lock \in IF Numbered = {} THEN {{}} ELSE {{o} : o \in Numbered} :
          /\ \A o \in lock : Free(o)
          /\ web' = [web EXCEPT ![w].lock = lock, ![w].number = next_sequence(w)]
    /\ UNCHANGED <<row, number, log, sent, queue, taskVars, ended, faults>>

Ready(w) == InTransaction(w) /\ web[w].todo = <<>> /\ web[w].number # 0

\* The number is still free: neither committed for another order nor, as the
\* constraint on (date, number) sees it, taken while this transaction was open.
NumberFree(w) == \A o \in Orders \ {web[w].order} : number[o] # web[w].number

Commit(w) ==
    LET t == web[w]
    IN  /\ Ready(w) /\ NumberFree(w)
        /\ row' = [row EXCEPT ![t.order] = t.state]
        /\ number' = [number EXCEPT ![t.order] = t.number]
        /\ log' = [k \in DOMAIN log \cup t.claims |->
                      IF k \in t.claims THEN [status |-> "pending", keyed |-> TRUE] ELSE log[k]]
        /\ web' = [web EXCEPT ![w] = NoTransaction]
        /\ ended' = [ended EXCEPT !.committed = @ \cup t.claims]
        /\ UNCHANGED <<sent, queue, taskVars, faults>>

\* Rows go, messages stay.  A primary key that was given out is not used again.
Undo(w) ==
    LET t == web[w]
    IN  /\ row' = [row EXCEPT ![t.order] = IF @ = None THEN Void ELSE @]
        /\ web' = [web EXCEPT ![w] = NoTransaction]
        /\ ended' = [ended EXCEPT !.rolledback = @ \cup t.claims]
        /\ UNCHANGED <<number, log, sent, queue, taskVars>>

\* The transition is not allowed.
RaiseInvalidTransition(w) ==
    /\ InTransaction(w) /\ web[w].todo # <<>> /\ Head(web[w].todo) = Raise
    /\ Undo(w) /\ UNCHANGED faults

\* Something else fails after a save: stock that is gone, a gateway that does not
\* answer, a lost connection.
RollBack(w) == InTransaction(w) /\ Fault /\ Undo(w)

\* Two checkouts took the same number: the save of the second violates the unique
\* constraint.  The attempt that should follow runs in the transaction the error has
\* aborted and raises, so the whole checkout is rolled back.
LoseNumber(w) == Ready(w) /\ ~NumberFree(w) /\ Undo(w) /\ UNCHANGED faults

-----------------------------------------------------------------------------
(* The workers. *)

Idle == [stage |-> "idle"]

Busy(t) == worker[t] # Idle

KeyOf(t) == worker[t].message.id.key

Logged(k, s) ==
    log' = [x \in DOMAIN log \cup {k} |->
               IF x # k THEN log[x]
               ELSE [status |-> s, keyed |-> k \in DOMAIN log /\ log[k].keyed]]

\* Defect: the start is logged where it cannot wait for the sender's transaction.
StartWithoutWaiting(t, m) ==
    LET k == m.id.key
        found == row[k.order] \notin {None, Void}
    IN  /\ ~Busy(t) /\ m \in queue
        /\ queue' = queue \ {m}
        /\ worker' = [worker EXCEPT ![t] =
              [stage |-> "next", message |-> m, found |-> found,
               todo |-> IF found THEN build_order_lifecycle_events(k) ELSE <<>>]]
        /\ UNCHANGED <<row, number, web, log, sent, sms, fanned, ended, faults>>

\* before_start marks the task started, which waits for the row; then the task
\* reads its order, and is done at once when there is none.
StartTask(t, m) ==
    LET k == m.id.key
        found == row[k.order] \notin {None, Void}
    IN  /\ ~Busy(t) /\ m \in queue
        /\ ~Claimed(k)
        /\ Logged(k, "started")
        /\ queue' = queue \ {m}
        /\ worker' = [worker EXCEPT ![t] =
              [stage |-> "next", message |-> m, found |-> found,
               todo |-> IF found THEN build_order_lifecycle_events(k) ELSE <<>>]]
        /\ UNCHANGED <<row, number, web, sent, sms, fanned, ended, faults>>

\* The event a worker is at.
At(t, stage, kind) ==
    /\ worker[t].stage = stage /\ worker[t].todo # <<>>
    /\ Head(worker[t].todo).kind = kind

Code(t) == Head(worker[t].todo).code

MoveOn(t) == worker' = [worker EXCEPT ![t].stage = "next", ![t].todo = Tail(@)]

Note(o, c, n) == sms' = [sms EXCEPT ![o] = [@ EXCEPT ![c] = n]]

\* The SENT rows of the customer; any number of them may be older than a day.
SentRows == MapThenSumSet(LAMBDA o : MapThenSumSet(LAMBDA c : sms[o][c].sent, ActiveTemplates), Orders)

\* notify_order_event, send_event and send_template_sms up to the provider.
CheckSms(t, quiet, today) ==
    LET n == sms[KeyOf(t).order][Code(t)]
    IN  /\ At(t, "next", "sms")
        /\ IF Code(t) \in ActiveTemplates /\ apply_sms_policies(n, Code(t), today, quiet)
           THEN worker' = [worker EXCEPT ![t].stage = "send"]
           ELSE MoveOn(t)
        /\ UNCHANGED <<webVars, log, sent, queue, sms, fanned, faults>>

\* The provider's answer and the row it is saved in.
SendSms(t, answer) ==
    LET o == KeyOf(t).order
    IN  /\ At(t, "send", "sms")
        /\ Note(o, Code(t), save_log(provider_send(sms[o][Code(t)], answer), answer))
        /\ MoveOn(t)
        /\ IF answer = "accepted" THEN UNCHANGED faults ELSE Fault
        /\ UNCHANGED <<webVars, log, sent, queue, fanned>>

\* The other events write a row or publish a task of their own, one after the other.
Leading(t) == {i \in DOMAIN worker[t].todo : \A j \in 1..i : worker[t].todo[j].kind = "task"}

Started(t, I) == fanned \cup {<<KeyOf(t).order, worker[t].todo[i].code>> : i \in I}

FanOut(t) ==
    /\ At(t, "next", "task")
    /\ \E n \in Leading(t) :
          /\ n + 1 \notin Leading(t)
          /\ fanned' = Started(t, 1..n)
          /\ worker' = [worker EXCEPT ![t].todo = SubSeq(@, n + 1, Len(@))]
    /\ UNCHANGED <<webVars, log, sent, queue, sms, faults>>

\* Defect: what goes wrong is logged and the task goes on.
FanOutSwallows(t) ==
    /\ At(t, "next", "task") /\ Fault
    /\ MoveOn(t)
    /\ UNCHANGED <<webVars, log, sent, queue, sms, fanned>>

\* One of them raises: the whole task is tried again, up to max_retries times.
FanOutFails(t) ==
    LET m == worker[t].message
    IN  /\ At(t, "next", "task") /\ ~Claimed(m.id.key)
        /\ Fault
        /\ \E n \in Leading(t) : fanned' = Started(t, 1..(n - 1))
        /\ IF m.retries < MaxRetries
           THEN /\ queue' = queue \cup {[m EXCEPT !.retries = @ + 1]}
                /\ Logged(m.id.key, "retry")
           ELSE UNCHANGED queue /\ Logged(m.id.key, "dead")
        /\ worker' = [worker EXCEPT ![t] = Idle]
        /\ UNCHANGED <<webVars, sent, sms>>

\* on_success, then the message is acknowledged.
FinishTask(t) ==
    /\ Busy(t) /\ worker[t].stage = "next" /\ worker[t].todo = <<>>
    /\ ~Claimed(KeyOf(t))
    /\ Logged(KeyOf(t), "success")
    /\ worker' = [worker EXCEPT ![t] = Idle]
    /\ UNCHANGED <<webVars, sent, queue, sms, fanned, faults>>

\* A worker that dies while it sends leaves a PENDING row, whether or not the
\* provider has taken the message.
CrashNotes(t) ==
    \/ UNCHANGED sms
    \/ /\ worker[t].stage = "send"
       /\ Note(KeyOf(t).order, Code(t), provider_send(sms[KeyOf(t).order][Code(t)], "lost"))

\* Defect: messages are acknowledged when they are received.
CrashAfterAck(t) ==
    /\ Busy(t) /\ Fault
    /\ worker' = [worker EXCEPT ![t] = Idle]
    /\ CrashNotes(t)
    /\ UNCHANGED <<webVars, log, sent, queue, fanned>>

\* acks_late and reject_on_worker_lost: the broker delivers the message again.
Crash(t) ==
    /\ Busy(t) /\ Fault
    /\ queue' = queue \cup {worker[t].message}
    /\ worker' = [worker EXCEPT ![t] = Idle]
    /\ CrashNotes(t)
    /\ UNCHANGED <<webVars, log, sent, fanned>>

\* retry_failed_sms_task, one failed message of its loop.
RetryFailedSms(o, c, answer) ==
    LET n == sms[o][c]
    IN  /\ n.resent < MaxResends
        /\ \E a \in Retryable(n) : Note(o, c, retry_failed(n, a, answer))
        /\ UNCHANGED <<webVars, log, sent, queue, worker, fanned, faults>>

-----------------------------------------------------------------------------
Init ==
    /\ row = [o \in Orders |-> None]
    /\ number = [o \in Orders |-> 0]
    /\ web = [w \in Web |-> NoTransaction]
    /\ log = NoLog
    /\ sent = {} /\ queue = {}
    /\ worker = [t \in Tasks |-> Idle]
    /\ sms = [o \in Orders |-> [c \in ActiveTemplates |-> NoNotes]]
    /\ fanned = {}
    /\ ended = [committed |-> {}, rolledback |-> {}]
    /\ faults = 0

WebStep(w) ==
    \/ \E o \in Orders : \E op \in Operations[o] : BeginTransaction(w, op, o)
    \/ SaveOrder(w) \/ assign_daily_sequence(w)
    \/ Commit(w) \/ RaiseInvalidTransition(w) \/ RollBack(w) \/ LoseNumber(w)

TaskStep(t) ==
    \/ \E m \in queue : StartTask(t, m)
    \/ \E quiet \in BOOLEAN, today \in 0..SentRows : CheckSms(t, quiet, today)
    \/ \E answer \in Answers : SendSms(t, answer)
    \/ FanOut(t) \/ FanOutFails(t) \/ FinishTask(t) \/ Crash(t)

RetryJob == \E o \in Orders, c \in ActiveTemplates, answer \in Answers : RetryFailedSms(o, c, answer)

Next ==
    \/ \E w \in Web : WebStep(w)
    \/ \E t \in Tasks : TaskStep(t)
    \/ RetryJob

Spec == Init /\ [][Next]_vars

\* A transaction ends by itself, a worker goes on with what it has and takes the
\* next message: prefetch is 1 and nothing else is routed to the queue.
FairSpec ==
    /\ Spec
    /\ \A w \in Web : WF_vars(SaveOrder(w) \/ assign_daily_sequence(w) \/ Commit(w)
                              \/ RaiseInvalidTransition(w) \/ LoseNumber(w))
    /\ \A t \in Tasks : WF_vars(TaskStep(t))

-----------------------------------------------------------------------------
(* Properties. *)

\* What a busy worker holds.
WorkerStates == [stage : {"next", "send"}, message : QueueMessages,
                 found : BOOLEAN, todo : Seq(Event)]
Transactions == [order : Orders, state : States \cup {None}, todo : Seq(States \cup {Raise}),
                 claims : SUBSET Keys, number : Nat, lock : SUBSET Orders]

\* Every variable has its type.
TypeOK ==
    /\ row \in [Orders -> States \cup {None, Void}]
    /\ number \in [Orders -> Nat]
    /\ web \in [Web -> Transactions \cup {NoTransaction}]
    /\ DOMAIN log \subseteq Keys /\ \A k \in DOMAIN log : log[k] \in LogRows
    /\ sent \subseteq MessageIds
    /\ queue \subseteq QueueMessages
    /\ worker \in [Tasks -> WorkerStates \cup {Idle}]
    /\ sms \in [Orders -> [ActiveTemplates -> Notes]]
    /\ fanned \subseteq Orders \X {"cart_recovered", "loyalty", "growth", "analytics"}
    /\ ended \in [committed : SUBSET Keys, rolledback : SUBSET Keys]
    /\ faults \in 0..MaxFaults

\* A task published from inside a transaction does not run before that transaction
\* has ended, although nothing delays it (no on_commit): the row of the task log
\* that the sender has claimed, and that the worker writes first, makes it wait.
\* So a worker that does not find its order ("order_not_found") has the message of a
\* checkout that was rolled back: the events of a real order are never skipped.
NoEarlyHandling ==
    \A t \in Tasks : Busy(t) =>
        /\ KeyOf(t) \in ended.committed \cup ended.rolledback
        /\ ~worker[t].found => row[KeyOf(t).order] = Void

\* The numbers of the day are 1, 2, 3, ... without a gap and without a double,
\* whatever checkouts overlap and whichever are rolled back.
ConsecutiveNumbers ==
    /\ {number[o] : o \in Numbered} = 1..Cardinality(Numbered)
    /\ \A o \in Numbered : row[o] \in States

\* The messages, with copies, that carry a template to an order's customer.
Carrying(o, c) ==
    {m \in sent : m.key.order = o /\ \E i \in DOMAIN build_order_lifecycle_events(m.key) :
                     build_order_lifecycle_events(m.key)[i] = Sms(c)}

\* The events of an order send an SMS again only for a reason: a second message with the
\* same template, or a crash or a lost answer after the provider took it.  The retries of
\* a task never repeat what it has sent, unless the window is set to 0.  What
\* retry_failed_sms_task sends again is no excuse and is counted apart.
RepeatsExcused ==
    DedupeWindow > 0 =>
        \A o \in Orders, c \in ActiveTemplates :
            sms[o][c].delivered <= Cardinality(Carrying(o, c)) + sms[o][c].unanswered

\* The manual says that retry_failed_sms_task retries failed messages up to the ceiling of
\* attempts: that a message that failed is sent again max_attempts times at the most.
ResendsBounded ==
    \A o \in Orders, c \in ActiveTemplates :
        sms[o][c].resent <= MaxAttempts * sms[o][c].failures

\* A task log that says "success" is true: the loyalty, growth and analytics tasks
\* of that event were started, unless the order was never committed.  So a failure
\* on the way, a retry or a crash cannot lose a customer's points.
SuccessMeansStarted ==
    \A k \in DOMAIN log :
        LET e == build_order_lifecycle_events(k)
        IN  log[k].status = "success" =>
               \/ row[k.order] = Void
               \/ \A i \in DOMAIN e : e[i].kind = "task" => <<k.order, e[i].code>> \in fanned

\* Every published task is handled in the end, or dead: crashes of the workers and
\* failures inside the task only delay it.
EventsHandled ==
    \A o \in Orders : 
        (\E m \in sent : m.key.order = o) ~>
            \A m \in sent : m.key.order = o =>
                m.key \in DOMAIN log /\ log[m.key].status \in {"success", "dead"}

=============================================================================
