-------------------------- MODULE LifecycleProofs --------------------------
(***************************************************************************)
(* What the events of an order's life never do, for any number of orders,  *)
(* request handlers, workers, rollbacks and crashes: run before their      *)
(* transaction has ended, count as done with a task not started, send an   *)
(* SMS again without a reason; and that the numbers of a day are           *)
(* consecutive.                                                            *)
(***************************************************************************)
EXTENDS Lifecycle, FiniteSetTheorems, SequenceTheorems, TLAPS

-----------------------------------------------------------------------------
(* The invariant. *)

Events(k) == build_order_lifecycle_events(k)

Elements(s) == {s[i] : i \in DOMAIN s}

\* The keys whose transaction is over.
Over == ended.committed \cup ended.rolledback

\* An open transaction has its order for itself, and a number that is the order's or
\* was the next one when it was read.
TransactionOK(w) ==
    LET t == web[w]
    IN  /\ row[t.order] # Void
        /\ t.state = None => t.todo # <<>>
        /\ \A k \in t.claims : k.order = t.order
        /\ number[t.order] # 0 => t.number = number[t.order]
        /\ t.number <= Cardinality(Numbered) + 1

WebOK ==
    /\ \A w \in Web : InTransaction(w) => TransactionOK(w)
    /\ \A v, w \in Web :
          InTransaction(v) /\ InTransaction(w) /\ web[v].order = web[w].order => v = w
    /\ \A k \in Over : row[k.order] # None

NumbersOK == IsFiniteSet(Numbered) /\ ConsecutiveNumbers

\* A message is in one place, and the transaction it was sent from is open or over.
SentOK ==
    /\ IsFiniteSet(sent)
    /\ \A m \in sent : Claimed(m.key) \/ m.key \in Over
    /\ \A m \in sent : m.copy <= Cardinality({n \in sent : n.key = m.key})

PlacesOK ==
    /\ \A m \in queue : m.id \in sent
    /\ \A m, n \in queue : m.id = n.id => m = n
    /\ \A t \in Tasks : Busy(t) =>
          /\ worker[t].message.id \in sent
          /\ \A m \in queue : m.id # worker[t].message.id
          /\ \A u \in Tasks : Busy(u) /\ worker[u].message.id = worker[t].message.id => u = t

\* The tasks of a key are started, or a worker has them before it.
Reached(k, todo) ==
    \A e \in Elements(Events(k)) :
        e.kind = "task" => <<k.order, e.code>> \in fanned \/ e \in Elements(todo)

RunOK(t) ==
    LET k == KeyOf(t)
        todo == worker[t].todo
    IN  /\ k \in Over
        /\ ~worker[t].found => row[k.order] = Void
        /\ Elements(todo) \subseteq Elements(Events(k))
        /\ row[k.order] = Void \/ Reached(k, todo)
        /\ worker[t].stage = "send" =>
              todo # <<>> /\ Head(todo).kind = "sms" /\ Head(todo).code \in ActiveTemplates

WorkOK ==
    /\ \A t \in Tasks : Busy(t) => RunOK(t)
    /\ SuccessMeansStarted

\* The workers that are about to send a template to an order's customer.
Senders(o, c) ==
    {t \in Tasks : Busy(t) /\ worker[t].stage = "send" /\ KeyOf(t).order = o /\ Code(t) = c}

\* Each of them has a message that carries it, and none of them has been counted yet.
NotesOK(o, c) ==
    LET n == sms[o][c]
    IN  /\ IsFiniteSet(Senders(o, c))
        /\ n.unanswered <= n.delivered
        /\ n.delivered <= n.sent + n.unanswered
        /\ DedupeWindow > 0 =>
              n.delivered + Cardinality(Senders(o, c)) <= Cardinality(Carrying(o, c)) + n.unanswered

SmsOK == \A o \in Orders, c \in ActiveTemplates : NotesOK(o, c)

IInv == TypeOK /\ WebOK /\ NumbersOK /\ SentOK /\ PlacesOK /\ WorkOK /\ SmsOK

-----------------------------------------------------------------------------
(* What the operations save and the events of a save. *)

\* The placeholders are no states of an order, and an open transaction is told from none.
LEMMA Distinct ==
    /\ None \notin States /\ Void \notin States /\ Raise \notin States /\ None # Void
    /\ Raise # None
    /\ \A t \in Transactions : t # NoTransaction
    /\ \A r \in WorkerStates : r # Idle
<1>1. \A s \in States : s.payment \in PaymentStatuses
  BY DEF States
<1>2. None.payment = "none" /\ Void.payment = "void" /\ Raise.payment = "raise"
  BY DEF None, Void, Raise
<1>3. None \notin States /\ Void \notin States /\ Raise \notin States /\ None # Void /\ Raise # None
  BY <1>1, <1>2 DEF PaymentStatuses
<1>4. \A t \in Transactions : t # NoTransaction
  <2> SUFFICES ASSUME NEW t \in Transactions, t = NoTransaction PROVE FALSE
    OBVIOUS
  <2>1. "number" \in DOMAIN t
    BY DEF Transactions
  <2>2. DOMAIN t = {"order"}
    BY DEF NoTransaction
  <2> QED
    BY <2>1, <2>2
<1>5. \A r \in WorkerStates : r # Idle
  <2> SUFFICES ASSUME NEW r \in WorkerStates, r = Idle PROVE FALSE
    OBVIOUS
  <2>1. r.stage \in {"next", "send"} /\ r.stage = "idle"
    BY DEF WorkerStates, Idle
  <2> QED
    BY <2>1
<1> QED
  BY <1>3, <1>4, <1>5

\* A transition saves an order's state, or raises.
LEMMA TransitionTyped ==
    ASSUME NEW s \in States, NEW t \in OrderStatuses
    PROVE  transition(s, t) \in Seq(States \cup {Raise})
<1>1. WithStatus(s, t) \in States
  BY DEF WithStatus, States
<1>2. /\ <<>> \in Seq(States \cup {Raise})
      /\ \A x \in States \cup {Raise} : <<x>> \in Seq(States \cup {Raise})
  OBVIOUS
<1> QED
  BY <1>1, <1>2 DEF transition

\* So does every operation; on an order that is not there, only a checkout applies.
LEMMA SavesTyped ==
    ASSUME NEW s \in States \cup {None, Void}, NEW op
    PROVE  /\ Saves(op, s) \in Seq(States \cup {Raise})
           /\ s = Void => Saves(op, s) = <<>>
<1> DEFINE R == States \cup {Raise}
<1>1. \A u \in States, p \in PaymentStatuses : WithPayment(u, p) \in States
  BY DEF WithPayment, States
<1>2. \A u \in States, t \in OrderStatuses : WithStatus(u, t) \in States
  BY DEF WithStatus, States
<1>3. <<>> \in Seq(R) /\ \A x \in R : <<x>> \in Seq(R)
  OBVIOUS
<1>4. \A x \in R, q \in Seq(R) : <<x>> \o q \in Seq(R)
  BY <1>3, ConcatProperties
<1>5. \A x \in R, y \in R : <<x, y>> \in Seq(R)
  OBVIOUS
<1>6. \A x \in R, y \in R, z \in R : <<x, y, z>> \in Seq(R)
  OBVIOUS
<1>7. Raise \in R /\ States \subseteq R
  OBVIOUS
<1>8. create_order_from_cart(op) \in Seq(R) /\ finalize_cod_placement \in Seq(R)
  BY <1>3 DEF create_order_from_cart, finalize_cod_placement, States, PaymentStatuses, OrderStatuses
<1>12. create_order_from_cart(op) \o finalize_cod_placement \in Seq(R)
  BY <1>8, ConcatProperties
<1> HIDE DEF R
<1>9. ASSUME s \in States
      PROVE  /\ finalize_online_payment(s) \in Seq(R)
             /\ finalize_counter_payment(s) \in Seq(R)
             /\ cancel(s) \in Seq(R)
             /\ process_refund(s) \in Seq(R)
             /\ advance(s) \in Seq(R)
             /\ confirm_cod(s) \in Seq(R)
             /\ record_cash_received(s) \in Seq(R)
             /\ request_refund(s) \in Seq(R)
  <2>1. \A p \in PaymentStatuses : WithPayment(s, p) \in States /\ WithPayment(s, p) \in R
    BY <1>1, <1>7, <1>9
  <2>2. \A u \in States, t \in OrderStatuses : transition(u, t) \in Seq(R)
    BY TransitionTyped DEF R
  <2>3. finalize_online_payment(s) \in Seq(R)
    <3>1. "paid" \in PaymentStatuses /\ "paid" \in OrderStatuses /\ "confirmed_by_shop" \in OrderStatuses
      BY DEF PaymentStatuses, OrderStatuses
    <3>2. WithPayment(s, "paid") \in R /\ WithStatus(WithPayment(s, "paid"), "paid") \in R
          /\ WithStatus(WithPayment(s, "paid"), "confirmed_by_shop") \in R
      BY <3>1, <2>1, <1>2, <1>7
    <3> QED
      BY <3>2, <1>3, <1>5, <1>6, <1>7 DEF finalize_online_payment
  <2>4. finalize_counter_payment(s) \in Seq(R)
    BY <2>1, <2>2, <1>3, <1>4 DEF finalize_counter_payment, PaymentStatuses, OrderStatuses
  <2>5. cancel(s) \in Seq(R)
    BY <2>1, <2>2, <1>3, <1>4, <1>9 DEF cancel, PaymentStatuses, OrderStatuses
  <2>6. process_refund(s) \in Seq(R)
    BY <2>1, <2>2, <1>3, <1>4 DEF process_refund, PaymentStatuses, OrderStatuses
  <2>7. advance(s) \in Seq(R)
    <3>1. \A x \in DOMAIN NextStatus : NextStatus[x] \in OrderStatuses
      BY DEF NextStatus, OrderStatuses
    <3> QED
      BY <3>1, <2>2, <1>3, <1>9 DEF advance
  <2>8. confirm_cod(s) \in Seq(R) /\ request_refund(s) \in Seq(R)
    BY <2>1, <1>3, <1>7 DEF confirm_cod, request_refund, PaymentStatuses
  <2>9. record_cash_received(s) \in Seq(R)
    <3> DEFINE p == WithPayment(s, "cash_received")
    <3>1. p \in States /\ p \in R
      BY <2>1 DEF PaymentStatuses
    <3>2. transition(p, "delivered") \in Seq(R)
      BY <2>2, <3>1 DEF OrderStatuses
    <3> HIDE DEF p
    <3>3. <<p>> \o transition(p, "delivered") \in Seq(R)
          /\ <<>> \o transition(p, "delivered") \in Seq(R)
      BY <3>1, <3>2, <1>3, ConcatProperties
    <3> QED
      BY <3>3 DEF record_cash_received, p
  <2> QED
    BY <2>3, <2>4, <2>5, <2>6, <2>7, <2>8, <2>9
<1>10. Saves(op, s) \in Seq(R)
  BY <1>3, <1>8, <1>9, <1>12 DEF Saves
<1>11. s = Void => Saves(op, s) = <<>>
  BY Distinct DEF Saves
<1> QED
  BY <1>10, <1>11 DEF R

\* The events of a key are events.
LEMMA EventsTyped ==
    ASSUME NEW k \in Keys
    PROVE  /\ Events(k) \in Seq(Event)
           /\ Elements(Events(k)) \subseteq Event
<1> DEFINE from == k.from
           to == k.to
<1>1. to \in States
  BY DEF Keys
<1>2. \A c \in Templates : Sms(c) \in Event
  BY DEF Sms, Event
<1>3. \A c \in {"cart_recovered", "loyalty", "growth", "analytics"} : Task(c) \in Event
  BY DEF Task, Event
<1>4. <<>> \in Seq(Event) /\ \A x \in Event : <<x>> \in Seq(Event)
  OBVIOUS
<1>5. PaymentEvents(from, to) \in Seq(Event)
  <2>1. <<Sms("payment_success"), Task("cart_recovered"), Task("loyalty"),
          Task("growth"), Task("analytics")>> \in Seq(Event)
    BY <1>2, <1>3 DEF Templates
  <2>2. <<Sms("payment_failed")>> \in Seq(Event)
    BY <1>2 DEF Templates
  <2>3. <<Sms("refund_processed"), Task("analytics")>> \in Seq(Event)
    BY <1>2, <1>3 DEF Templates
  <2>4. <<Sms("order_confirmed_by_shop")>> \in Seq(Event)
    BY <1>2 DEF Templates
  <2> QED
    BY <2>1, <2>2, <2>3, <2>4, <1>4 DEF PaymentEvents
<1>6. StatusEvents(k.order, from, to) \in Seq(Event)
  <2>1. \A x \in DOMAIN STATUS_TO_SMS_EVENT : STATUS_TO_SMS_EVENT[x] \in Templates
    BY DEF STATUS_TO_SMS_EVENT, Templates
  <2>2. \A x \in Event, y \in Event : <<x, y>> \in Seq(Event)
    OBVIOUS
  <2>3. Task("analytics") \in Event
    BY <1>3
  <2>4. StatusMessage(to) \in Seq(Event)
    BY <2>1, <2>2, <2>3, <1>2, <1>4 DEF StatusMessage
  <2>5. CodReminder(k.order, to) \in Seq(Event) /\ DeliveryNoted(to) \in Seq(Event)
    BY <2>3, <1>2, <1>4 DEF CodReminder, DeliveryNoted, Templates
  <2> QED
    BY <2>4, <2>5, <1>4, ConcatProperties DEF StatusEvents
<1>7. <<Sms("order_created")>> \in Seq(Event)
  BY <1>2 DEF Templates
<1>8. PaymentEvents(from, to) \o StatusEvents(k.order, from, to) \in Seq(Event)
  BY <1>5, <1>6, ConcatProperties
<1>9. Events(k) \in Seq(Event)
  BY <1>4, <1>7, <1>8 DEF Events, build_order_lifecycle_events
<1> QED
  BY <1>9 DEF Elements

\* What an open transaction holds.
LEMMA OpenTyped ==
    ASSUME TypeOK, NEW w \in Web, InTransaction(w)
    PROVE  /\ web[w] \in Transactions
           /\ web[w].order \in Orders /\ web[w].state \in States \cup {None}
           /\ web[w].todo \in Seq(States \cup {Raise})
           /\ web[w].claims \in SUBSET Keys /\ web[w].number \in Nat
           /\ web[w].lock \in SUBSET Orders
<1>1. web[w] \in Transactions
  BY DEF TypeOK, InTransaction
<1> QED
  BY <1>1 DEF Transactions

\* What a busy worker holds.
LEMMA BusyTyped ==
    ASSUME TypeOK, NEW t \in Tasks, Busy(t)
    PROVE  /\ worker[t] \in WorkerStates
           /\ worker[t].stage \in {"next", "send"} /\ worker[t].found \in BOOLEAN
           /\ worker[t].todo \in Seq(Event)
           /\ worker[t].message \in QueueMessages
           /\ worker[t].message.id \in MessageIds
           /\ KeyOf(t) \in Keys /\ KeyOf(t).order \in Orders
<1>1. worker[t] \in WorkerStates
  BY DEF TypeOK, Busy
<1>2. worker[t].message \in QueueMessages
  BY <1>1 DEF WorkerStates
<1>3. worker[t].message.id \in MessageIds
  BY <1>2 DEF QueueMessages
<1>4. KeyOf(t) \in Keys
  BY <1>3 DEF MessageIds, KeyOf
<1>5. KeyOf(t).order \in Orders
  BY <1>4 DEF Keys
<1> QED
  BY <1>1, <1>2, <1>3, <1>4, <1>5 DEF WorkerStates

-----------------------------------------------------------------------------
(* Parts that a step leaves alone. *)

\* The workers' part stands while transactions end, and while rows of the task log
\* change without a success.
LEMMA WorkFrame ==
    ASSUME TypeOK, WorkOK, UNCHANGED <<worker, fanned>>, Over \subseteq Over',
           \A o \in Orders : row[o] = Void => row'[o] = Void,
           \A k \in DOMAIN log' : log'[k].status = "success" =>
               k \in DOMAIN log /\ log[k].status = "success"
    PROVE  WorkOK'
<1>1. ASSUME NEW t \in Tasks, Busy(t) PROVE RunOK(t)'
  <2>1. KeyOf(t)' = KeyOf(t) /\ KeyOf(t).order \in Orders
    BY <1>1, BusyTyped DEF KeyOf
  <2>2. RunOK(t)
    BY <1>1 DEF WorkOK
  <2>3. Reached(KeyOf(t), worker[t].todo)' <=> Reached(KeyOf(t), worker[t].todo)
    BY <2>1 DEF Reached
  <2> QED
    BY <2>1, <2>2, <2>3 DEF RunOK
<1>2. SuccessMeansStarted'
  <2> SUFFICES ASSUME NEW k \in DOMAIN log', log'[k].status = "success"
               PROVE  \/ row'[k.order] = Void
                      \/ \A i \in DOMAIN Events(k) :
                            Events(k)[i].kind = "task" => <<k.order, Events(k)[i].code>> \in fanned'
    BY DEF SuccessMeansStarted, Events
  <2>1. k \in DOMAIN log /\ log[k].status = "success" /\ k.order \in Orders
    BY DEF TypeOK, Keys
  <2> QED
    BY <2>1 DEF WorkOK, SuccessMeansStarted, Events
<1> QED
  BY <1>1, <1>2 DEF WorkOK, Busy

\* More messages excuse more.
LEMMA SmsFrame ==
    ASSUME TypeOK, SmsOK, UNCHANGED <<worker, sms>>, sent \subseteq sent', IsFiniteSet(sent')
    PROVE  SmsOK'
<1> SUFFICES ASSUME NEW o \in Orders, NEW c \in ActiveTemplates PROVE NotesOK(o, c)'
  BY DEF SmsOK
<1>1. Carrying(o, c) \subseteq Carrying(o, c)' /\ Carrying(o, c)' \subseteq sent'
  BY DEF Carrying
<1>2. IsFiniteSet(Carrying(o, c)') /\ IsFiniteSet(Carrying(o, c))
  BY <1>1, FS_Subset
<1>3. Cardinality(Carrying(o, c)) <= Cardinality(Carrying(o, c)')
  BY <1>1, <1>2, FS_Subset
<1>4. Cardinality(Carrying(o, c)) \in Nat /\ Cardinality(Carrying(o, c)') \in Nat
  BY <1>2, FS_CardinalityType
<1>5. Senders(o, c)' = Senders(o, c)
  BY DEF Senders, Busy, KeyOf, Code
<1>6. sms[o][c] \in Notes
  BY DEF TypeOK
<1>7. NotesOK(o, c)
  BY DEF SmsOK
<1>8. Senders(o, c) \in SUBSET Tasks
  BY DEF Senders
<1> DEFINE n == sms[o][c]
<1>9. n.unanswered \in Nat /\ n.delivered \in Nat /\ n.sent \in Nat
  BY <1>6 DEF Notes
<1>10. Cardinality(Senders(o, c)) \in Nat
  BY <1>7, FS_CardinalityType DEF NotesOK
<1> QED
  BY <1>3, <1>4, <1>5, <1>7, <1>9, <1>10 DEF NotesOK

\* A published message is a new copy.
LEMMA FreshCopy ==
    ASSUME TypeOK, SentOK, NEW k \in Keys
    PROVE  /\ NextCopy(k) \in MessageIds
           /\ NextCopy(k).key = k
           /\ NextCopy(k).copy = Cardinality({m \in sent : m.key = k}) + 1
           /\ Cardinality({m \in sent : m.key = k}) \in Nat
           /\ NextCopy(k) \notin sent
<1> DEFINE n == Cardinality({m \in sent : m.key = k})
<1>1. IsFiniteSet({m \in sent : m.key = k})
  BY FS_Subset DEF SentOK
<1>2. n \in Nat
  BY <1>1, FS_CardinalityType
<1>3. NextCopy(k) \in MessageIds /\ NextCopy(k).key = k /\ NextCopy(k).copy = n + 1
  BY <1>2 DEF NextCopy, MessageIds
<1>4. NextCopy(k) \notin sent
  BY <1>2, <1>3 DEF SentOK
<1> QED
  BY <1>2, <1>3, <1>4

\* Publishing adds one message, which is nowhere else.
LEMMA PublishStep ==
    ASSUME TypeOK, SentOK, PlacesOK, NEW k \in Keys, publish(NextCopy(k)), UNCHANGED worker
    PROVE  /\ sent \subseteq sent' /\ sent' \subseteq MessageIds /\ IsFiniteSet(sent')
           /\ \A m \in sent' : m \in sent \/ m.key = k
           /\ \A m \in sent' : m.copy <= Cardinality({n \in sent' : n.key = m.key})
           /\ queue' \subseteq QueueMessages
           /\ PlacesOK'
<1> DEFINE m == NextCopy(k)
           Like(S, x) == {n \in S : n.key = x.key}
<1>1. /\ m \in MessageIds /\ m.key = k /\ m \notin sent
      /\ m.copy = Cardinality({n \in sent : n.key = k}) + 1
      /\ Cardinality({n \in sent : n.key = k}) \in Nat
  BY FreshCopy
<1> HIDE DEF m
<1>2. sent' = sent \cup {m} /\ queue' = queue \cup {[id |-> m, retries |-> 0]}
  BY DEF publish, m
<1>3. IsFiniteSet(sent')
  BY <1>2, FS_AddElement DEF SentOK
<1>4. [id |-> m, retries |-> 0] \in QueueMessages
  BY <1>1, RetriesAssumption DEF QueueMessages
<1>5. ASSUME NEW x \in sent' PROVE x.copy <= Cardinality(Like(sent', x))
  <2>1. IsFiniteSet(Like(sent, x)) /\ IsFiniteSet(Like(sent', x))
    BY <1>3, FS_Subset DEF SentOK
  <2>2. Cardinality(Like(sent, x)) \in Nat /\ Cardinality(Like(sent', x)) \in Nat
    BY <2>1, FS_CardinalityType
  <2>3. CASE x \in sent
    <3>1. Like(sent, x) \in SUBSET Like(sent', x)
      BY <1>2
    <3>2. Cardinality(Like(sent, x)) <= Cardinality(Like(sent', x))
      BY <2>1, <3>1, FS_Subset
    <3>3. x.copy <= Cardinality(Like(sent, x)) /\ x.copy \in Nat
      BY <2>3 DEF SentOK, TypeOK, MessageIds
    <3> QED
      BY <2>2, <3>2, <3>3
  <2>4. CASE x = m
    <3>1. Like(sent', x) = Like(sent, x) \cup {m} /\ m \notin Like(sent, x)
      BY <1>1, <1>2, <2>4
    <3>2. Cardinality(Like(sent, x) \cup {m}) = Cardinality(Like(sent, x)) + 1
      BY <2>1, <3>1, FS_AddElement
    <3>3. x.copy = Cardinality(Like(sent, x)) + 1
      BY <1>1, <2>4
    <3> HIDE DEF Like
    <3>4. x.copy = Cardinality(Like(sent', x))
      BY <3>1, <3>2, <3>3
    <3> QED
      BY <2>2, <3>4
  <2> QED
    BY <1>2, <2>3, <2>4
<1>6. PlacesOK'
  BY <1>1, <1>2 DEF PlacesOK, Busy
<1> QED
  BY <1>1, <1>2, <1>3, <1>4, <1>5, <1>6 DEF TypeOK

-----------------------------------------------------------------------------
(* The steps of the web tier. *)

\* After a step of a handler its transaction is t.
Opened(w, t) ==
    /\ web' = [web EXCEPT ![w] = t]
    /\ UNCHANGED <<row, number, log, worker, sms, fanned, ended>>
    /\ faults' \in 0..MaxFaults
    /\ row[t.order] # Void
    /\ t.state = None => t.todo # <<>>
    /\ \A k \in t.claims : k.order = t.order
    /\ number[t.order] # 0 => t.number = number[t.order]
    /\ t.number <= Cardinality(Numbered) + 1
    /\ \A v \in Web \ {w} : InTransaction(v) => web[v].order # t.order
    /\ InTransaction(w) => web[w].claims \subseteq t.claims
    /\ \/ UNCHANGED <<sent, queue>>
       \/ \E k \in t.claims : publish(NextCopy(k))

\* A transaction begins or goes on.
LEMMA OpenStep ==
    ASSUME IInv, NEW w \in Web, NEW t \in Transactions, Opened(w, t)
    PROVE  IInv'
<1> USE DEF Opened
<1>1. web \in [Web -> Transactions \cup {NoTransaction}]
  BY DEF IInv, TypeOK
<1>2. web'[w] = t /\ \A v \in Web \ {w} : web'[v] = web[v]
  BY <1>1
<1>3. t # NoTransaction /\ t.claims \subseteq Keys
  BY Distinct DEF Transactions
<1>4. InTransaction(w)' /\ \A v \in Web \ {w} : InTransaction(v)' <=> InTransaction(v)
  BY <1>2, <1>3 DEF InTransaction
<1>5. /\ sent \subseteq sent' /\ sent' \subseteq MessageIds /\ IsFiniteSet(sent')
      /\ \A m \in sent' : m \in sent \/ m.key \in t.claims
      /\ \A m \in sent' : m.copy <= Cardinality({n \in sent' : n.key = m.key})
      /\ queue' \subseteq QueueMessages
      /\ PlacesOK'
  <2>1. CASE UNCHANGED <<sent, queue>>
    BY <2>1 DEF IInv, TypeOK, SentOK, PlacesOK, Busy
  <2>2. CASE \E k \in t.claims : publish(NextCopy(k))
    <3>1. PICK k \in t.claims : publish(NextCopy(k))
      BY <2>2
    <3> QED
      BY <1>3, <3>1, PublishStep DEF IInv
  <2> QED
    BY <2>1, <2>2
<1>6. TypeOK'
  <2>1. web' \in [Web -> Transactions \cup {NoTransaction}]
    BY <1>1
  <2> QED
    BY <1>5, <2>1 DEF IInv, TypeOK
<1>7. WebOK'
  <2>1. Numbered' = Numbered /\ Over' = Over
    BY DEF Numbered, Over
  <2>2. ASSUME NEW v \in Web, InTransaction(v)' PROVE TransactionOK(v)'
    <3>1. CASE v = w
      BY <1>2, <2>1, <3>1 DEF TransactionOK
    <3>2. CASE v # w
      BY <1>2, <1>4, <2>1, <2>2, <3>2 DEF TransactionOK, IInv, WebOK
    <3> QED
      BY <3>1, <3>2
  <2>3. \A u, v \in Web :
          InTransaction(u)' /\ InTransaction(v)' /\ web'[u].order = web'[v].order => u = v
    BY <1>2, <1>4 DEF IInv, WebOK
  <2> QED
    BY <2>1, <2>2, <2>3 DEF IInv, WebOK
<1>8. NumbersOK'
  BY DEF IInv, NumbersOK, ConsecutiveNumbers, Numbered
<1>9. SentOK'
  <2>1. ASSUME NEW k, Claimed(k) \/ k \in t.claims PROVE Claimed(k)'
    BY <1>2, <1>4, <2>1 DEF Claimed
  <2>2. Over' = Over
    BY DEF Over
  <2> QED
    BY <1>5, <2>1, <2>2 DEF IInv, SentOK
<1>10. WorkOK'
  BY WorkFrame DEF IInv, Over
<1>11. SmsOK'
  BY <1>5, SmsFrame DEF IInv
<1> QED
  BY <1>5, <1>6, <1>7, <1>8, <1>9, <1>10, <1>11 DEF IInv

\* A transaction ends, and what it has claimed is over with it.
LEMMA EndStep ==
    ASSUME IInv, NEW w \in Web, InTransaction(w), NEW r \in States \cup {Void},
           web' = [web EXCEPT ![w] = NoTransaction],
           row' = [row EXCEPT ![web[w].order] = r],
           number' \in [Orders -> Nat],
           \A o \in Orders \ {web[w].order} : number'[o] = number[o],
           NumbersOK', Cardinality(Numbered) <= Cardinality(Numbered'),
           ended' \in [committed : SUBSET Keys, rolledback : SUBSET Keys],
           Over' = Over \cup web[w].claims,
           DOMAIN log' \subseteq Keys, \A k \in DOMAIN log' : log'[k] \in LogRows,
           \A k \in DOMAIN log' : log'[k].status = "success" =>
               k \in DOMAIN log /\ log[k].status = "success",
           UNCHANGED <<sent, queue, worker, sms, fanned>>, faults' \in 0..MaxFaults
    PROVE  IInv'
<1> DEFINE o == web[w].order
<1>1. o \in Orders /\ web[w].claims \subseteq Keys /\ \A k \in web[w].claims : k.order = o
  BY OpenTyped DEF IInv, WebOK, TransactionOK
<1>2. row \in [Orders -> States \cup {None, Void}] /\ web \in [Web -> Transactions \cup {NoTransaction}]
  BY DEF IInv, TypeOK
<1>3. row'[o] = r /\ \A x \in Orders \ {o} : row'[x] = row[x]
  BY <1>1, <1>2
<1>4. ~InTransaction(w)' /\ \A v \in Web \ {w} : web'[v] = web[v] /\ (InTransaction(v)' <=> InTransaction(v))
  BY <1>2 DEF InTransaction
<1>5. row[o] # Void /\ r # None
  BY Distinct DEF IInv, WebOK, TransactionOK
<1> HIDE DEF o
<1>6. TypeOK'
  <2>1. row' \in [Orders -> States \cup {None, Void}] /\ web' \in [Web -> Transactions \cup {NoTransaction}]
    BY <1>1, <1>2 DEF o
  <2> QED
    BY <2>1 DEF IInv, TypeOK
<1>7. WebOK'
  <2>1. ASSUME NEW v \in Web, InTransaction(v)' PROVE TransactionOK(v)'
    <3>1. v # w /\ InTransaction(v) /\ web'[v] = web[v]
      BY <1>4, <2>1
    <3>2. web[v].order \in Orders \ {o}
      BY <3>1, OpenTyped DEF IInv, WebOK, o
    <3>3. row'[web[v].order] = row[web[v].order] /\ number'[web[v].order] = number[web[v].order]
      BY <1>3, <3>2 DEF o
    <3>4. TransactionOK(v)
      BY <3>1 DEF IInv, WebOK
    <3>5. web[v].number \in Nat /\ Cardinality(Numbered) \in Nat /\ Cardinality(Numbered') \in Nat
      BY <3>1, OpenTyped, FS_CardinalityType DEF IInv, NumbersOK
    <3> QED
      BY <3>1, <3>3, <3>4, <3>5 DEF TransactionOK
  <2>2. \A k \in Over' : row'[k.order] # None
    <3> TAKE k \in Over'
    <3>1. CASE k \in Over
      <4>1. k \in Keys
        BY <3>1 DEF IInv, TypeOK, Over
      <4> QED
        BY <1>3, <1>5, <3>1, <4>1 DEF IInv, WebOK, Keys
    <3>2. CASE k \in web[w].claims
      BY <1>1, <1>3, <1>5, <3>2
    <3> QED
      BY <3>1, <3>2
  <2>3. \A u, v \in Web :
          InTransaction(u)' /\ InTransaction(v)' /\ web'[u].order = web'[v].order => u = v
    BY <1>4 DEF IInv, WebOK
  <2> QED
    BY <2>1, <2>2, <2>3 DEF WebOK
<1>8. SentOK'
  <2>1. ASSUME NEW k, Claimed(k) PROVE Claimed(k)' \/ k \in Over'
    <3>1. PICK v \in Web : InTransaction(v) /\ k \in web[v].claims
      BY <2>1 DEF Claimed
    <3> QED
      BY <1>4, <3>1 DEF Claimed
  <2> QED
    BY <2>1 DEF IInv, SentOK
<1>9. PlacesOK'
  BY DEF IInv, PlacesOK, Busy
<1>10. WorkOK'
  <2>1. \A x \in Orders : row[x] = Void => row'[x] = Void
    BY <1>3, <1>5
  <2>2. Over \subseteq Over'
    OBVIOUS
  <2> QED
    BY <2>1, <2>2, WorkFrame DEF IInv
<1>11. SmsOK'
  BY SmsFrame DEF IInv, SentOK
<1> QED
  BY <1>6, <1>7, <1>8, <1>9, <1>10, <1>11 DEF IInv

\* An operation begins when no other transaction has its order.
LEMMA BeginTransactionStep ==
    ASSUME IInv, NEW w \in Web, NEW o \in Orders, NEW op \in Operations[o], BeginTransaction(w, op, o)
    PROVE  IInv'
<1> DEFINE t == [order |-> o, state |-> row[o], todo |-> Saves(op, row[o]),
                 claims |-> {}, number |-> number[o], lock |-> {}]
<1>1. row[o] \in States \cup {None, Void} /\ number[o] \in Nat
  BY DEF IInv, TypeOK
<1>2. row[o] \in States \cup {None} /\ row[o] # Void /\ Saves(op, row[o]) \in Seq(States \cup {Raise})
  BY <1>1, SavesTyped, Distinct DEF BeginTransaction
<1>3. t \in Transactions
  BY <1>1, <1>2 DEF Transactions
<1>4. t.number <= Cardinality(Numbered) + 1
  <2>1. Cardinality(Numbered) \in Nat
    BY FS_CardinalityType DEF IInv, NumbersOK
  <2>2. number[o] # 0 => number[o] \in 1..Cardinality(Numbered)
    BY DEF IInv, NumbersOK, ConsecutiveNumbers, Numbered
  <2> QED
    BY <1>1, <2>1, <2>2
<1>5. \A v \in Web \ {w} : InTransaction(v) => web[v].order # o
  BY DEF BeginTransaction, Free, LockedBy
<1>6. faults' \in 0..MaxFaults
  BY FaultsAssumption DEF BeginTransaction, Fault, IInv, TypeOK
<1>7. t.state = None => t.todo # <<>>
  BY DEF BeginTransaction
<1>8. /\ web' = [web EXCEPT ![w] = t] /\ ~InTransaction(w)
      /\ UNCHANGED <<row, number, log, sent, queue, worker, sms, fanned, ended>>
  BY DEF BeginTransaction, taskVars
<1>9. t.order = o /\ t.claims = {} /\ t.number = number[o]
  OBVIOUS
<1> HIDE DEF t
<1>10. Opened(w, t)
  BY <1>2, <1>4, <1>5, <1>6, <1>7, <1>8, <1>9 DEF Opened
<1> QED
  BY <1>3, <1>10, OpenStep

\* A save claims the key of its event and publishes the task.
LEMMA SaveOrderStep ==
    ASSUME IInv, NEW w \in Web, SaveOrder(w)
    PROVE  IInv'
<1> DEFINE u == web[w]
           k == [order |-> u.order, from |-> u.state, to |-> Head(u.todo)]
           after == [u EXCEPT !.state = Head(u.todo), !.todo = Tail(u.todo)]
<1>1. InTransaction(w) /\ u.todo # <<>> /\ Head(u.todo) # Raise
  BY DEF SaveOrder
<1>2. /\ u \in Transactions /\ u.order \in Orders /\ u.state \in States \cup {None}
      /\ u.todo \in Seq(States \cup {Raise}) /\ u.claims \in SUBSET Keys /\ u.number \in Nat
  BY <1>1, OpenTyped DEF IInv
<1>3. Head(u.todo) \in States /\ Tail(u.todo) \in Seq(States \cup {Raise})
  BY <1>1, <1>2
<1>4. k \in Keys /\ k.order = u.order
  BY <1>2, <1>3 DEF Keys
<1>5. PICK c \in SUBSET Keys :
          /\ \A x \in c : x.order = u.order
          /\ u.claims \subseteq c
          /\ web' = [web EXCEPT ![w] = [after EXCEPT !.claims = c]]
          /\ \/ UNCHANGED <<sent, queue>>
             \/ k \in c /\ publish(NextCopy(k))
  <2>1. TransactionOK(w)
    BY <1>1 DEF IInv, WebOK
  <2>2. CASE web' = [web EXCEPT ![w] = after] /\ UNCHANGED <<sent, queue>>
    <3>1. after = [after EXCEPT !.claims = u.claims]
      BY <1>2 DEF Transactions
    <3> QED
      BY <1>2, <2>1, <2>2, <3>1 DEF TransactionOK
  <2>3. CASE /\ web' = [web EXCEPT ![w] = [after EXCEPT !.claims = @ \cup {k}]]
             /\ publish(NextCopy(k)) \/ UNCHANGED <<sent, queue>>
    <3> DEFINE c == u.claims \cup {k}
    <3>1. [after EXCEPT !.claims = @ \cup {k}] = [after EXCEPT !.claims = c]
      BY <1>2 DEF Transactions
    <3>2. c \in SUBSET Keys /\ k \in c /\ u.claims \subseteq c
      BY <1>2, <1>4
    <3>3. \A x \in c : x.order = u.order
      BY <1>4, <2>1 DEF TransactionOK
    <3> HIDE DEF k, after, c
    <3> QED
      BY <2>3, <3>1, <3>2, <3>3
  <2> QED
    BY <2>2, <2>3 DEF SaveOrder
<1> DEFINE t == [after EXCEPT !.claims = c]
<1>6. /\ t \in Transactions /\ t.order = u.order /\ t.state \in States
      /\ t.number = u.number /\ t.claims = c
  BY <1>2, <1>3 DEF Transactions
<1>7. /\ row[u.order] # Void
      /\ number[u.order] # 0 => u.number = number[u.order]
      /\ u.number <= Cardinality(Numbered) + 1
  BY <1>1 DEF IInv, WebOK, TransactionOK
<1>8. \A v \in Web \ {w} : InTransaction(v) => web[v].order # u.order
  BY <1>1 DEF IInv, WebOK
<1>9. UNCHANGED <<row, number, log, worker, sms, fanned, ended>> /\ faults' \in 0..MaxFaults
  BY FaultsAssumption DEF SaveOrder, taskVars, Fault, IInv, TypeOK
<1>10. t.state # None
  BY <1>6, Distinct
<1> HIDE DEF t, after, k, u
<1>11. web' = [web EXCEPT ![w] = t] /\ InTransaction(w)
  BY <1>1, <1>5 DEF t
<1>12. \/ UNCHANGED <<sent, queue>>
       \/ \E x \in t.claims : publish(NextCopy(x))
  BY <1>5, <1>6
<1>13. web[w].claims \subseteq t.claims
  BY <1>5, <1>6 DEF u
<1>14. Opened(w, t)
  BY <1>5, <1>6, <1>7, <1>8, <1>9, <1>10, <1>11, <1>12, <1>13 DEF Opened
<1> QED
  BY <1>6, <1>14, OpenStep

\* The next number is the one after the numbers given.
LEMMA NextNumber ==
    ASSUME IInv, NEW w \in Web
    PROVE  next_sequence(w) = Cardinality(Numbered) + 1 /\ Cardinality(Numbered) \in Nat
<1> DEFINE c == Cardinality(Numbered)
<1>1. c \in Nat
  BY FS_CardinalityType DEF IInv, NumbersOK
<1>2. \A o \in Orders : number[o] \in Nat
  BY DEF IInv, TypeOK
<1>3. Given = 0..c
  <2>1. {number[o] : o \in Numbered} = 1..c
    BY DEF IInv, NumbersOK, ConsecutiveNumbers
  <2>2. Given = {0} \cup {number[o] : o \in Numbered}
    BY DEF Given, Numbered
  <2> QED
    BY <1>1, <2>1, <2>2
<1>4. next_sequence(w) = CHOOSE n \in {m + 1 : m \in 0..c} : \A m \in 0..c : m < n
  BY <1>3 DEF next_sequence
<1>5. c + 1 \in {m + 1 : m \in 0..c} /\ \A m \in 0..c : m < c + 1
  BY <1>1
<1>6. \A n \in {m + 1 : m \in 0..c} : (\A m \in 0..c : m < n) => n = c + 1
  BY <1>1
<1> QED
  BY <1>1, <1>4, <1>5, <1>6

\* assign_daily_sequence reads the next number.
LEMMA AssignStep ==
    ASSUME IInv, NEW w \in Web, assign_daily_sequence(w)
    PROVE  IInv'
<1>1. InTransaction(w) /\ web[w].number = 0
  BY DEF assign_daily_sequence, NeedsNumber
<1>2. /\ web[w] \in Transactions /\ web[w].order \in Orders
  BY <1>1, OpenTyped DEF IInv
<1>3. PICK lock \in SUBSET Orders : web' = [web EXCEPT ![w].lock = lock, ![w].number = next_sequence(w)]
  <2>1. PICK l \in IF Numbered = {} THEN {{}} ELSE {{o} : o \in Numbered} :
            web' = [web EXCEPT ![w].lock = l, ![w].number = next_sequence(w)]
    BY DEF assign_daily_sequence
  <2>2. l \in SUBSET Orders
    BY DEF Numbered
  <2> QED
    BY <2>1, <2>2
<1> DEFINE t == [web[w] EXCEPT !.lock = lock, !.number = next_sequence(w)]
<1>4. web' = [web EXCEPT ![w] = t]
  BY <1>2, <1>3 DEF IInv, TypeOK
<1>5. next_sequence(w) = Cardinality(Numbered) + 1 /\ Cardinality(Numbered) \in Nat
  BY NextNumber
<1>6. /\ t \in Transactions /\ t.order = web[w].order /\ t.state = web[w].state
      /\ t.todo = web[w].todo /\ t.claims = web[w].claims /\ t.number = Cardinality(Numbered) + 1
  <2> DEFINE m == next_sequence(w)
  <2>1. m \in Nat /\ m = Cardinality(Numbered) + 1
    BY <1>5
  <2> HIDE DEF m
  <2> QED
    BY <1>2, <2>1 DEF Transactions, m
<1>7. TransactionOK(w) /\ \A v \in Web \ {w} : InTransaction(v) => web[v].order # web[w].order
  BY <1>1 DEF IInv, WebOK
<1>8. number[web[w].order] = 0
  BY <1>1, <1>2, <1>7 DEF TransactionOK
<1>9. UNCHANGED <<row, number, log, sent, queue, worker, sms, fanned, ended, faults>>
  BY DEF assign_daily_sequence, taskVars
<1>10. faults \in 0..MaxFaults /\ Cardinality(Numbered) + 1 <= Cardinality(Numbered) + 1
  BY <1>5 DEF IInv, TypeOK
<1> HIDE DEF t
<1>11. /\ row[t.order] # Void /\ (t.state = None => t.todo # <<>>)
       /\ \A k \in t.claims : k.order = t.order
       /\ number[t.order] # 0 => t.number = number[t.order]
       /\ t.number <= Cardinality(Numbered) + 1
  BY <1>6, <1>7, <1>8, <1>10 DEF TransactionOK
<1>12. Opened(w, t)
  BY <1>4, <1>6, <1>7, <1>9, <1>10, <1>11 DEF Opened
<1> QED
  BY <1>6, <1>12, OpenStep

\* The save of an order's number: the orders with a number are one more, or as many.
LEMMA CommitStep ==
    ASSUME IInv, NEW w \in Web, Commit(w)
    PROVE  IInv'
<1> DEFINE o == web[w].order
           n == web[w].number
           c == Cardinality(Numbered)
<1>1. InTransaction(w) /\ web[w].todo = <<>> /\ n # 0 /\ \A x \in Orders \ {o} : number[x] # n
  BY DEF Commit, Ready, NumberFree
<1>2. o \in Orders /\ web[w].claims \subseteq Keys /\ web[w].state \in States \cup {None} /\ n \in Nat
  BY <1>1, OpenTyped DEF IInv
<1>3. TransactionOK(w)
  BY <1>1 DEF IInv, WebOK
<1>4. web[w].state \in States
  BY <1>1, <1>2, <1>3 DEF TransactionOK
<1>5. number \in [Orders -> Nat] /\ row \in [Orders -> States \cup {None, Void}]
  BY DEF IInv, TypeOK
<1>6. /\ row' = [row EXCEPT ![o] = web[w].state]
      /\ number' = [number EXCEPT ![o] = n]
      /\ log' = [k \in DOMAIN log \cup web[w].claims |->
                    IF k \in web[w].claims THEN [status |-> "pending", keyed |-> TRUE] ELSE log[k]]
      /\ web' = [web EXCEPT ![w] = NoTransaction]
      /\ ended' = [ended EXCEPT !.committed = @ \cup web[w].claims]
      /\ UNCHANGED <<sent, queue, worker, sms, fanned, faults>>
  BY DEF Commit, taskVars
<1>7. number' \in [Orders -> Nat] /\ number'[o] = n /\ \A x \in Orders \ {o} : number'[x] = number[x]
  BY <1>2, <1>5, <1>6
<1>8. c \in Nat /\ IsFiniteSet(Numbered)
  BY FS_CardinalityType DEF IInv, NumbersOK
<1>9. NumbersOK' /\ c <= Cardinality(Numbered')
  <2>1. Numbered' = Numbered \cup {o}
    BY <1>1, <1>2, <1>7 DEF Numbered
  <2>2. \A x \in Numbered' : row'[x] \in States
    BY <1>2, <1>4, <1>5, <1>6, <2>1 DEF IInv, NumbersOK, ConsecutiveNumbers, Numbered
  <2>3. CASE number[o] # 0
    <3>1. Numbered' = Numbered
      BY <1>2, <2>1, <2>3 DEF Numbered
    <3>2. n = number[o]
      BY <1>3, <2>3 DEF TransactionOK
    <3>3. \A x \in Numbered : number'[x] = number[x]
      BY <1>7, <3>2 DEF Numbered
    <3>4. {number'[x] : x \in Numbered'} = 1..Cardinality(Numbered')
      BY <3>1, <3>3 DEF IInv, NumbersOK, ConsecutiveNumbers
    <3> QED
      BY <1>8, <2>2, <3>1, <3>4 DEF NumbersOK, ConsecutiveNumbers
  <2>4. CASE number[o] = 0
    <3>1. o \notin Numbered
      BY <2>4 DEF Numbered
    <3>2. IsFiniteSet(Numbered') /\ Cardinality(Numbered') = c + 1
      BY <1>8, <2>1, <3>1, FS_AddElement
    <3>3. {number[x] : x \in Numbered} = 1..c
      BY DEF IInv, NumbersOK, ConsecutiveNumbers
    <3>4. n \notin 1..c
      BY <1>1, <3>1, <3>3 DEF Numbered
    <3>5. n = c + 1
      BY <1>1, <1>2, <1>3, <1>8, <3>4 DEF TransactionOK
    <3>6. {number'[x] : x \in Numbered'} = {number[x] : x \in Numbered} \cup {n}
      BY <1>7, <2>1, <3>1 DEF Numbered
    <3>7. {number'[x] : x \in Numbered'} = 1..Cardinality(Numbered')
      BY <1>8, <3>2, <3>3, <3>5, <3>6
    <3> QED
      BY <1>8, <2>2, <3>2, <3>7 DEF NumbersOK, ConsecutiveNumbers
  <2> QED
    BY <2>3, <2>4
<1>10. /\ ended' \in [committed : SUBSET Keys, rolledback : SUBSET Keys]
       /\ Over' = Over \cup web[w].claims
  <2>1. ended \in [committed : SUBSET Keys, rolledback : SUBSET Keys]
    BY DEF IInv, TypeOK
  <2>2. ended' = [committed |-> ended.committed \cup web[w].claims, rolledback |-> ended.rolledback]
    BY <1>6, <2>1
  <2> QED
    BY <1>2, <2>1, <2>2 DEF Over
<1>11. /\ DOMAIN log' \subseteq Keys /\ \A k \in DOMAIN log' : log'[k] \in LogRows
       /\ \A k \in DOMAIN log' : log'[k].status = "success" => k \in DOMAIN log /\ log[k].status = "success"
  <2>1. DOMAIN log \subseteq Keys /\ \A k \in DOMAIN log : log[k] \in LogRows
    BY DEF IInv, TypeOK
  <2>2. [status |-> "pending", keyed |-> TRUE] \in LogRows
    BY DEF LogRows
  <2> QED
    BY <1>2, <1>6, <2>1, <2>2
<1>12. faults' \in 0..MaxFaults
  BY <1>6 DEF IInv, TypeOK
<1> HIDE DEF n, c
<1> QED
  BY <1>1, <1>4, <1>6, <1>7, <1>9, <1>10, <1>11, <1>12, EndStep DEF c

\* A rollback frees the keys; the number it had was not used.
LEMMA UndoStep ==
    ASSUME IInv, NEW w \in Web, InTransaction(w), Undo(w), faults' \in 0..MaxFaults
    PROVE  IInv'
<1> DEFINE o == web[w].order
           r == IF row[o] = None THEN Void ELSE row[o]
<1>1. o \in Orders /\ web[w].claims \subseteq Keys
  BY OpenTyped DEF IInv
<1>2. row \in [Orders -> States \cup {None, Void}]
  BY DEF IInv, TypeOK
<1>3. /\ row' = [row EXCEPT ![o] = r]
      /\ web' = [web EXCEPT ![w] = NoTransaction]
      /\ ended' = [ended EXCEPT !.rolledback = @ \cup web[w].claims]
      /\ UNCHANGED <<number, log, sent, queue, worker, sms, fanned>>
  BY <1>1, <1>2 DEF Undo, taskVars
<1>4. r \in States \cup {Void}
  BY <1>1, <1>2
<1>5. /\ ended' \in [committed : SUBSET Keys, rolledback : SUBSET Keys]
      /\ Over' = Over \cup web[w].claims
  <2>1. ended \in [committed : SUBSET Keys, rolledback : SUBSET Keys]
    BY DEF IInv, TypeOK
  <2>2. ended' = [committed |-> ended.committed, rolledback |-> ended.rolledback \cup web[w].claims]
    BY <1>3, <2>1
  <2> QED
    BY <1>1, <2>1, <2>2 DEF Over
<1>6. NumbersOK' /\ Cardinality(Numbered) <= Cardinality(Numbered')
  <2>1. Numbered' = Numbered /\ Cardinality(Numbered) \in Nat
    BY <1>3, FS_CardinalityType DEF Numbered, IInv, NumbersOK
  <2>2. \A x \in Numbered : row'[x] = row[x]
    BY <1>2, <1>3, Distinct DEF IInv, NumbersOK, ConsecutiveNumbers, Numbered
  <2> QED
    BY <1>3, <2>1, <2>2 DEF IInv, NumbersOK, ConsecutiveNumbers
<1>7. /\ number' \in [Orders -> Nat] /\ number' = number
      /\ DOMAIN log' \subseteq Keys /\ \A k \in DOMAIN log' : log'[k] \in LogRows
      /\ log' = log
  BY <1>3 DEF IInv, TypeOK
<1> HIDE DEF r
<1> QED
  BY <1>3, <1>4, <1>5, <1>6, <1>7, EndStep

\* All steps of the request handlers.
LEMMA WebSteps ==
    ASSUME IInv, NEW w \in Web, WebStep(w)
    PROVE  IInv'
<1>1. faults \in 0..MaxFaults /\ MaxFaults \in Nat
  BY FaultsAssumption DEF IInv, TypeOK
<1>2. CASE \E o \in Orders : \E op \in Operations[o] : BeginTransaction(w, op, o)
  BY <1>2, BeginTransactionStep
<1>3. CASE SaveOrder(w)
  BY <1>3, SaveOrderStep
<1>4. CASE assign_daily_sequence(w)
  BY <1>4, AssignStep
<1>5. CASE Commit(w)
  BY <1>5, CommitStep
<1>6. CASE RaiseInvalidTransition(w)
  BY <1>1, <1>6, UndoStep DEF RaiseInvalidTransition
<1>7. CASE RollBack(w)
  BY <1>1, <1>7, UndoStep DEF RollBack, Fault
<1>8. CASE LoseNumber(w)
  BY <1>1, <1>8, UndoStep DEF LoseNumber, Ready
<1> QED
  BY <1>2, <1>3, <1>4, <1>5, <1>6, <1>7, <1>8 DEF WebStep

-----------------------------------------------------------------------------
(* The steps of the workers. *)

\* A worker does not touch what the web tier keeps.
LEMMA TaskFrame ==
    ASSUME IInv, UNCHANGED <<webVars, sent>>
    PROVE  /\ WebOK' /\ NumbersOK' /\ SentOK' /\ Over' = Over
           /\ UNCHANGED <<row, number, web, ended>>
<1>1. UNCHANGED <<row, number, web, ended>>
  BY DEF webVars
<1>2. Numbered' = Numbered /\ Over' = Over /\ \A w \in Web : InTransaction(w)' <=> InTransaction(w)
  BY <1>1 DEF Numbered, Over, InTransaction
<1>3. \A w \in Web : TransactionOK(w)' <=> TransactionOK(w)
  BY <1>1, <1>2 DEF TransactionOK
<1>4. WebOK'
  BY <1>1, <1>2, <1>3 DEF IInv, WebOK
<1>5. NumbersOK'
  BY <1>1, <1>2 DEF IInv, NumbersOK, ConsecutiveNumbers
<1>6. SentOK'
  BY <1>1, <1>2 DEF IInv, SentOK, Claimed
<1> QED
  BY <1>1, <1>2, <1>4, <1>5, <1>6

\* One worker goes on with its message, or gives it up.
LEMMA PlaceStep ==
    ASSUME IInv, NEW t \in Tasks, NEW r, Busy(t), worker' = [worker EXCEPT ![t] = r], UNCHANGED sent,
           \/ r # Idle /\ r.message = worker[t].message /\ UNCHANGED queue
           \/ r = Idle /\ UNCHANGED queue
           \/ r = Idle /\ \E m : m.id = worker[t].message.id /\ queue' = queue \cup {m}
    PROVE  PlacesOK'
<1>1. worker'[t] = r /\ \A u \in Tasks \ {t} : worker'[u] = worker[u]
  BY DEF IInv, TypeOK
<1>2. PlacesOK
  BY DEF IInv
<1>3. CASE r # Idle /\ r.message = worker[t].message /\ UNCHANGED queue
  BY <1>1, <1>2, <1>3 DEF PlacesOK, Busy
<1>4. CASE r = Idle /\ UNCHANGED queue
  BY <1>1, <1>2, <1>4 DEF PlacesOK, Busy
<1>5. CASE r = Idle /\ \E m : m.id = worker[t].message.id /\ queue' = queue \cup {m}
  <2>1. PICK m : m.id = worker[t].message.id /\ queue' = queue \cup {m}
    BY <1>5
  <2> QED
    BY <1>1, <1>2, <1>5, <2>1 DEF PlacesOK, Busy
<1> QED
  BY <1>3, <1>4, <1>5

\* A key is logged as a success when its tasks are started.
LEMMA WorkStep ==
    ASSUME IInv, UNCHANGED <<row, ended>>, NEW t \in Tasks, NEW r, worker' = [worker EXCEPT ![t] = r],
           r # Idle => RunOK(t)', fanned \subseteq fanned',
           \A k \in DOMAIN log' : log'[k].status = "success" =>
               \/ k \in DOMAIN log /\ log[k].status = "success"
               \/ row[k.order] = Void \/ Reached(k, <<>>)
    PROVE  WorkOK'
<1>1. worker'[t] = r /\ \A u \in Tasks \ {t} : worker'[u] = worker[u]
  BY DEF IInv, TypeOK
<1>2. ASSUME NEW u \in Tasks, Busy(u)' PROVE RunOK(u)'
  <2>1. CASE u = t
    BY <1>1, <1>2, <2>1 DEF Busy
  <2>2. CASE u # t
    <3>1. worker'[u] = worker[u] /\ RunOK(u)
      BY <1>1, <1>2, <2>2 DEF Busy, IInv, WorkOK
    <3>2. Reached(KeyOf(u), worker[u].todo) => Reached(KeyOf(u), worker[u].todo)'
      BY <3>1 DEF Reached, KeyOf
    <3> QED
      BY <3>1, <3>2 DEF RunOK, KeyOf, Over
  <2> QED
    BY <2>1, <2>2
<1>3. SuccessMeansStarted'
  <2> SUFFICES ASSUME NEW k \in DOMAIN log', log'[k].status = "success"
               PROVE  \/ row'[k.order] = Void
                      \/ \A i \in DOMAIN Events(k) :
                            Events(k)[i].kind = "task" => <<k.order, Events(k)[i].code>> \in fanned'
    BY DEF SuccessMeansStarted, Events
  <2>1. CASE k \in DOMAIN log /\ log[k].status = "success"
    BY <2>1 DEF IInv, WorkOK, SuccessMeansStarted, Events
  <2>2. CASE row[k.order] = Void
    BY <2>2
  <2>3. CASE Reached(k, <<>>)
    BY <2>3 DEF Reached, Elements
  <2> QED
    BY <2>1, <2>2, <2>3
<1> QED
  BY <1>2, <1>3 DEF WorkOK

\* What a message's notes may become without a sender, or by one.
Noted(n, m, d) ==
    /\ m \in Notes
    /\ m.unanswered <= m.delivered /\ m.delivered <= m.sent + m.unanswered
    /\ m.delivered + n.unanswered <= n.delivered + m.unanswered + d

\* The count of an SMS stays in bounds when those about to send it make room for it.
LEMMA NotesStep ==
    ASSUME IInv, UNCHANGED sent, NEW o \in Orders, NEW c \in ActiveTemplates, NEW d \in {0, 1},
           Noted(sms[o][c], sms'[o][c], d), IsFiniteSet(Senders(o, c)'),
           Cardinality(Senders(o, c)') + d <= Cardinality(Senders(o, c))
    PROVE  NotesOK(o, c)'
<1> DEFINE n == sms[o][c]
           m == sms'[o][c]
<1>1. n \in Notes /\ m \in Notes
  BY DEF IInv, TypeOK, Noted
<1>2. /\ n.unanswered \in Nat /\ n.delivered \in Nat /\ n.sent \in Nat
      /\ m.unanswered \in Nat /\ m.delivered \in Nat /\ m.sent \in Nat
  BY <1>1 DEF Notes
<1>3. Carrying(o, c)' = Carrying(o, c)
  BY DEF Carrying
<1>4. NotesOK(o, c) /\ IsFiniteSet(sent) /\ Carrying(o, c) \in SUBSET sent
  BY DEF IInv, SmsOK, SentOK, Carrying
<1>5. /\ Cardinality(Senders(o, c)) \in Nat /\ Cardinality(Senders(o, c)') \in Nat
      /\ Cardinality(Carrying(o, c)) \in Nat
  BY <1>4, FS_CardinalityType, FS_Subset DEF NotesOK
<1>6. DedupeWindow > 0 =>
         m.delivered + Cardinality(Senders(o, c)') <= Cardinality(Carrying(o, c)) + m.unanswered
  BY <1>2, <1>4, <1>5 DEF NotesOK, Noted
<1> QED
  BY <1>3, <1>6 DEF NotesOK, Noted

\* A worker that sends no more is no sender any more.
LEMMA SenderGone ==
    ASSUME IInv, NEW t \in Tasks, NEW r, r # Idle => r.stage # "send",
           worker' = [worker EXCEPT ![t] = r],
           NEW o \in Orders, NEW c \in ActiveTemplates
    PROVE  /\ Senders(o, c)' = Senders(o, c) \ {t} /\ IsFiniteSet(Senders(o, c)')
           /\ \E d \in {0, 1} : /\ d = 1 <=> t \in Senders(o, c)
                                /\ Cardinality(Senders(o, c)') + d <= Cardinality(Senders(o, c))
<1>1. worker'[t] = r /\ \A u \in Tasks \ {t} : worker'[u] = worker[u]
  BY DEF IInv, TypeOK
<1>2. Senders(o, c)' = Senders(o, c) \ {t}
  BY <1>1 DEF Senders, Busy, KeyOf, Code
<1>3. IsFiniteSet(Senders(o, c))
  BY DEF IInv, SmsOK, NotesOK
<1>4. /\ IsFiniteSet(Senders(o, c) \ {t})
      /\ Cardinality(Senders(o, c) \ {t}) =
            IF t \in Senders(o, c) THEN Cardinality(Senders(o, c)) - 1 ELSE Cardinality(Senders(o, c))
  BY <1>3, FS_RemoveElement
<1>5. Cardinality(Senders(o, c)) \in Nat
  BY <1>3, FS_CardinalityType
<1> QED
  BY <1>2, <1>4, <1>5

\* So the notes stand, but for those of the message that it has sent.
LEMMA SmsStep ==
    ASSUME IInv, UNCHANGED sent, NEW t \in Tasks, NEW r, r # Idle => r.stage # "send",
           worker' = [worker EXCEPT ![t] = r],
           \A o \in Orders, c \in ActiveTemplates :
               \/ sms'[o][c] = sms[o][c]
               \/ t \in Senders(o, c) /\ Noted(sms[o][c], sms'[o][c], 1)
    PROVE  SmsOK'
<1> SUFFICES ASSUME NEW o \in Orders, NEW c \in ActiveTemplates PROVE NotesOK(o, c)'
  BY DEF SmsOK
<1>1. PICK d \in {0, 1} : /\ d = 1 <=> t \in Senders(o, c)
                          /\ Cardinality(Senders(o, c)') + d <= Cardinality(Senders(o, c))
  BY SenderGone
<1>2. IsFiniteSet(Senders(o, c)')
  BY SenderGone
<1>3. Noted(sms[o][c], sms'[o][c], d)
  <2>1. sms[o][c] \in Notes /\ NotesOK(o, c)
    BY DEF IInv, TypeOK, SmsOK
  <2>2. Noted(sms[o][c], sms[o][c], d)
    <3> DEFINE n == sms[o][c]
    <3>1. n.unanswered \in Nat /\ n.delivered \in Nat /\ n.sent \in Nat
      BY <2>1 DEF Notes
    <3>2. n.delivered + n.unanswered <= n.delivered + n.unanswered + d
      BY <3>1
    <3> QED
      BY <2>1, <3>2 DEF NotesOK, Noted
  <2> QED
    BY <1>1, <2>2
<1> QED
  BY <1>1, <1>2, <1>3, NotesStep

\* The first event of a worker's list, and the others.
LEMMA HeadAndTail ==
    ASSUME NEW s \in Seq(Event), s # <<>>
    PROVE  /\ Head(s) \in Event /\ Tail(s) \in Seq(Event) /\ Head(s) \in Elements(s)
           /\ Elements(s) = {Head(s)} \cup Elements(Tail(s))
<1>1. Head(s) = s[1] /\ 1 \in DOMAIN s /\ Tail(s) \in Seq(Event) /\ Head(s) \in Event
  OBVIOUS
<1>2. Len(s) \in Nat \ {0} /\ DOMAIN s = 1..Len(s) /\ Len(Tail(s)) = Len(s) - 1
      /\ DOMAIN Tail(s) = 1..(Len(s) - 1) /\ \A i \in 1..(Len(s) - 1) : Tail(s)[i] = s[i + 1]
  OBVIOUS
<1>3. ASSUME NEW i \in DOMAIN s PROVE s[i] \in {Head(s)} \cup Elements(Tail(s))
  <2>1. CASE i = 1
    BY <1>1, <2>1
  <2>2. CASE i # 1
    <3>1. i - 1 \in 1..(Len(s) - 1) /\ s[i] = Tail(s)[i - 1]
      BY <1>2, <2>2
    <3> QED
      BY <1>2, <3>1 DEF Elements
  <2> QED
    BY <2>1, <2>2
<1>4. ASSUME NEW i \in DOMAIN Tail(s) PROVE Tail(s)[i] \in Elements(s)
  <2>1. i + 1 \in DOMAIN s /\ Tail(s)[i] = s[i + 1]
    BY <1>2
  <2> QED
    BY <2>1 DEF Elements
<1> QED
  BY <1>1, <1>3, <1>4 DEF Elements

\* The worker's message, with nothing of its events left to a retry.
LEMMA BusyFacts ==
    ASSUME IInv, NEW t \in Tasks, Busy(t)
    PROVE  /\ RunOK(t) /\ worker[t] \in WorkerStates /\ worker[t].todo \in Seq(Event)
           /\ worker[t].message \in QueueMessages /\ worker[t].message.id \in sent
           /\ KeyOf(t) \in Keys /\ KeyOf(t).order \in Orders
  BY BusyTyped DEF IInv, WorkOK, PlacesOK

\* The row of a key in the task log.
LEMMA LoggedTyped ==
    ASSUME IInv, NEW k \in Keys, NEW s \in {"started", "retry", "success", "dead"}, Logged(k, s)
    PROVE  /\ DOMAIN log' \subseteq Keys /\ \A x \in DOMAIN log' : log'[x] \in LogRows
           /\ \A x \in DOMAIN log' : log'[x].status = "success" =>
                 (x \in DOMAIN log /\ log[x].status = "success") \/ (x = k /\ s = "success")
<1>1. DOMAIN log \subseteq Keys /\ \A x \in DOMAIN log : log[x] \in LogRows
  BY DEF IInv, TypeOK
<1>2. (k \in DOMAIN log /\ log[k].keyed) \in BOOLEAN
  OBVIOUS
<1>3. [status |-> s, keyed |-> k \in DOMAIN log /\ log[k].keyed] \in LogRows
  BY <1>2 DEF LogRows
<1>4. /\ DOMAIN log' = DOMAIN log \cup {k}
      /\ log'[k] = [status |-> s, keyed |-> k \in DOMAIN log /\ log[k].keyed]
      /\ \A x \in DOMAIN log \ {k} : log'[x] = log[x]
  BY DEF Logged
<1>5. log'[k].status = s
  BY <1>4
<1> QED
  BY <1>1, <1>3, <1>4, <1>5

\* A task starts when the transaction that sent its message is over.
LEMMA StartTaskStep ==
    ASSUME IInv, NEW t \in Tasks, NEW m \in queue, StartTask(t, m)
    PROVE  IInv'
<1> DEFINE k == m.id.key
           found == row[k.order] \notin {None, Void}
           r == [stage |-> "next", message |-> m, found |-> found,
                 todo |-> IF found THEN Events(k) ELSE <<>>]
<1>1. /\ ~Busy(t) /\ ~Claimed(k) /\ Logged(k, "started")
      /\ queue' = queue \ {m} /\ worker' = [worker EXCEPT ![t] = r]
      /\ UNCHANGED <<row, number, web, sent, sms, fanned, ended, faults>>
  BY DEF StartTask, Events
<1>2. m \in QueueMessages /\ m.id \in sent /\ m.id \in MessageIds
  BY DEF IInv, TypeOK, PlacesOK, QueueMessages
<1>3. k \in Keys /\ k.order \in Orders
  BY <1>2 DEF MessageIds, Keys
<1>4. Events(k) \in Seq(Event) /\ Elements(Events(k)) \subseteq Event /\ <<>> \in Seq(Event)
  BY <1>3, EventsTyped
<1>5. r \in WorkerStates /\ r # Idle
  <2>1. r \in WorkerStates
    <3>1. (IF found THEN Events(k) ELSE <<>>) \in Seq(Event) /\ found \in BOOLEAN
      BY <1>4
    <3> HIDE DEF found
    <3> QED
      BY <1>2, <3>1 DEF WorkerStates
  <2> QED
    BY <2>1, Distinct
<1>6. worker'[t] = r /\ \A u \in Tasks \ {t} : worker'[u] = worker[u]
  BY <1>1 DEF IInv, TypeOK
<1>7. k \in Over
  BY <1>1, <1>2 DEF IInv, SentOK
<1>8. r.message = m /\ r.found = found /\ r.stage = "next" /\ r.todo = IF found THEN Events(k) ELSE <<>>
  OBVIOUS
<1>9. ~found => row[k.order] = Void
  BY <1>7 DEF IInv, WebOK
<1> HIDE DEF r
<1>10. RunOK(t)'
  <2>1. KeyOf(t)' = k /\ worker'[t].todo = r.todo /\ worker'[t].found = found /\ worker'[t].stage = "next"
    BY <1>6, <1>8 DEF KeyOf
  <2>2. Over' = Over /\ row' = row
    BY <1>1 DEF Over
  <2>3. \A q : found /\ q = r.todo => Reached(k, q)'
    BY <1>8 DEF Reached
  <2>4. Elements(r.todo) \subseteq Elements(Events(k))
    BY <1>8 DEF Elements
  <2> HIDE DEF k, found
  <2> QED
    BY <1>7, <1>8, <1>9, <2>1, <2>2, <2>3, <2>4 DEF RunOK
<1>11. /\ DOMAIN log' \subseteq Keys /\ \A x \in DOMAIN log' : log'[x] \in LogRows
       /\ \A x \in DOMAIN log' : log'[x].status = "success" => x \in DOMAIN log /\ log[x].status = "success"
  BY <1>1, <1>3, LoggedTyped
<1>12. TypeOK'
  <2>1. worker' \in [Tasks -> WorkerStates \cup {Idle}]
    BY <1>1, <1>5 DEF IInv, TypeOK
  <2> QED
    BY <1>1, <1>11, <2>1 DEF IInv, TypeOK
<1>13. PlacesOK'
  BY <1>1, <1>2, <1>6, <1>8 DEF IInv, PlacesOK, Busy
<1>14. WorkOK'
  BY <1>1, <1>10, <1>11, WorkStep
<1>15. SmsOK'
  <2>1. r.stage # "send"
    BY <1>8
  <2> QED
    BY <1>1, <2>1, SmsStep
<1>16. WebOK' /\ NumbersOK' /\ SentOK'
  BY <1>1, TaskFrame DEF webVars
<1> QED
  BY <1>12, <1>13, <1>14, <1>15, <1>16 DEF IInv

\* A worker goes on with the event after the one it is at: an SMS, be it sent or not.
LEMMA MoveOnStep ==
    ASSUME IInv, NEW t \in Tasks, Busy(t), At(t, worker[t].stage, "sms"), MoveOn(t),
           UNCHANGED <<webVars, log, sent, queue, fanned>>, faults' \in 0..MaxFaults,
           sms' \in [Orders -> [ActiveTemplates -> Notes]],
           \A o \in Orders, c \in ActiveTemplates :
               \/ sms'[o][c] = sms[o][c]
               \/ t \in Senders(o, c) /\ Noted(sms[o][c], sms'[o][c], 1)
    PROVE  IInv'
<1> DEFINE s == worker[t].todo
           r == [stage |-> "next", message |-> worker[t].message, found |-> worker[t].found,
                 todo |-> Tail(s)]
<1>1. s # <<>> /\ Head(s).kind = "sms"
  BY DEF At
<1>2. /\ RunOK(t) /\ worker[t] \in WorkerStates /\ s \in Seq(Event)
      /\ KeyOf(t) \in Keys
  BY BusyFacts
<1>3. worker' = [worker EXCEPT ![t] = r]
  <2>1. worker' = [worker EXCEPT ![t] = [worker[t] EXCEPT !.stage = "next", !.todo = Tail(s)]]
    BY DEF MoveOn, IInv, TypeOK
  <2>2. [worker[t] EXCEPT !.stage = "next", !.todo = Tail(s)] = r
    <3> DEFINE u == [worker[t] EXCEPT !.stage = "next"]
               q == Tail(s)
    <3>1. u = [stage |-> "next", message |-> worker[t].message, found |-> worker[t].found,
               todo |-> worker[t].todo]
      BY <1>2 DEF WorkerStates
    <3>2. /\ u \in WorkerStates /\ u.stage = "next" /\ u.message = worker[t].message
          /\ u.found = worker[t].found
      BY <1>2, <3>1 DEF WorkerStates
    <3>3. [worker[t] EXCEPT !.stage = "next", !.todo = q] = [u EXCEPT !.todo = q]
      OBVIOUS
    <3> HIDE DEF u, q
    <3>4. [u EXCEPT !.todo = q] =
             [stage |-> u.stage, message |-> u.message, found |-> u.found, todo |-> q]
      BY <3>2 DEF WorkerStates
    <3> QED
      BY <3>2, <3>3, <3>4 DEF q
  <2> QED
    BY <2>1, <2>2
<1>4. /\ Head(s) \in Event /\ Tail(s) \in Seq(Event)
      /\ Elements(s) = {Head(s)} \cup Elements(Tail(s))
  BY <1>1, <1>2, HeadAndTail
<1>5. r \in WorkerStates /\ r # Idle
  <2>1. r \in WorkerStates
    BY <1>2, <1>4 DEF WorkerStates
  <2> QED
    BY <2>1, Distinct
<1>6. worker'[t] = r
  BY <1>3 DEF IInv, TypeOK
<1>7. r.message = worker[t].message /\ r.found = worker[t].found /\ r.stage = "next" /\ r.todo = Tail(s)
  OBVIOUS
<1> HIDE DEF r
<1>8. /\ WebOK' /\ NumbersOK' /\ SentOK' /\ Over' = Over
      /\ UNCHANGED <<row, number, web, ended>>
  BY TaskFrame
<1>9. RunOK(t)'
  <2>1. /\ KeyOf(t)' = KeyOf(t) /\ worker'[t].todo = Tail(s) /\ worker'[t].found = worker[t].found
        /\ worker'[t].stage = "next"
    BY <1>6, <1>7 DEF KeyOf
  <2>2. \A k, q : k = KeyOf(t) /\ q = Tail(s) /\ Reached(KeyOf(t), s) => Reached(k, q)'
    BY <1>1, <1>4 DEF Reached
  <2> QED
    BY <1>2, <1>4, <1>8, <2>1, <2>2 DEF RunOK
<1>10. TypeOK'
  <2>1. worker' \in [Tasks -> WorkerStates \cup {Idle}]
    BY <1>3, <1>5 DEF IInv, TypeOK
  <2> QED
    BY <1>8, <2>1 DEF IInv, TypeOK
<1>11. PlacesOK'
  BY <1>3, <1>5, <1>7, PlaceStep
<1>12. WorkOK'
  BY <1>3, <1>8, <1>9, WorkStep
<1>13. SmsOK'
  <2>1. r.stage # "send"
    BY <1>7
  <2> QED
    BY <1>3, <2>1, SmsStep
<1> QED
  BY <1>8, <1>10, <1>11, <1>12, <1>13 DEF IInv

\* Before anything is sent, each sender has a message of its own that carries the
\* template.
SendersFew ==
    \A o \in Orders, c \in ActiveTemplates :
        /\ IsFiniteSet(Senders(o, c)) /\ IsFiniteSet(Carrying(o, c))
        /\ Cardinality(Senders(o, c)) <= Cardinality(Carrying(o, c))

\* Each worker about to send a template has a message of its own that carries it.
LEMMA SendersCounted == TypeOK /\ SentOK /\ PlacesOK /\ WorkOK => SendersFew
<1> SUFFICES ASSUME TypeOK, SentOK, PlacesOK, WorkOK, NEW o \in Orders, NEW c \in ActiveTemplates
             PROVE  /\ IsFiniteSet(Senders(o, c)) /\ IsFiniteSet(Carrying(o, c))
                    /\ Cardinality(Senders(o, c)) <= Cardinality(Carrying(o, c))
  BY DEF SendersFew
<1> DEFINE f == [t \in Senders(o, c) |-> worker[t].message.id]
<1>1. IsFiniteSet(Carrying(o, c))
  <2>1. Carrying(o, c) \in SUBSET sent
    BY DEF Carrying
  <2> QED
    BY <2>1, FS_Subset DEF SentOK
<1>2. ASSUME NEW t \in Senders(o, c) PROVE worker[t].message.id \in Carrying(o, c)
  <2>1. t \in Tasks /\ Busy(t) /\ worker[t].stage = "send" /\ KeyOf(t).order = o /\ Code(t) = c
    BY DEF Senders
  <2>2. RunOK(t) /\ worker[t].message.id \in sent /\ worker[t].todo \in Seq(Event)
    BY <2>1, BusyTyped DEF PlacesOK, WorkOK
  <2> DEFINE e == Head(worker[t].todo)
  <2>3. worker[t].todo # <<>> /\ e.kind = "sms" /\ e.code = c /\ Elements(worker[t].todo) \subseteq Elements(Events(KeyOf(t)))
    BY <2>1, <2>2 DEF RunOK, Code
  <2>4. e \in Event /\ e \in Elements(worker[t].todo)
    BY <2>2, <2>3, HeadAndTail
  <2>5. e = Sms(c)
    BY <2>3, <2>4 DEF Event, Sms
  <2>6. Sms(c) \in Elements(Events(KeyOf(t)))
    BY <2>3, <2>4, <2>5
  <2>7. PICK i \in DOMAIN Events(KeyOf(t)) : Events(KeyOf(t))[i] = Sms(c)
    BY <2>6 DEF Elements
  <2> QED
    BY <2>1, <2>2, <2>7 DEF Carrying, KeyOf, Events
<1>3. ASSUME NEW t \in Senders(o, c), NEW u \in Senders(o, c), worker[t].message.id = worker[u].message.id
      PROVE  t = u
  BY <1>3 DEF PlacesOK, Senders
<1>4. f \in Injection(Senders(o, c), Carrying(o, c))
  BY <1>2, <1>3 DEF Injection, IsInjective
<1> QED
  BY <1>1, <1>4, FS_Injection

\* A worker at a task has one.
LEMMA AtBusy == ASSUME NEW t \in Tasks, NEW stage \in {"next", "send"}, NEW kind, At(t, stage, kind)
                PROVE  Busy(t) /\ worker[t].stage = stage /\ worker[t].todo # <<>> /\ Head(worker[t].todo).kind = kind
<1>1. Idle.stage = "idle"
  BY DEF Idle
<1> QED
  BY <1>1 DEF At, Busy

\* process_sms looks at the logs and decides.
LEMMA CheckSmsStep ==
    ASSUME IInv, NEW t \in Tasks, NEW quiet \in BOOLEAN, NEW today \in Nat, CheckSms(t, quiet, today)
    PROVE  IInv'
<1> DEFINE c == Code(t)
           o == KeyOf(t).order
           n == sms[o][c]
<1>1. /\ Busy(t) /\ worker[t].stage = "next" /\ worker[t].todo # <<>>
      /\ Head(worker[t].todo).kind = "sms"
  BY AtBusy DEF CheckSms
<1>2. UNCHANGED <<webVars, log, sent, queue, sms, fanned, faults>>
  BY DEF CheckSms
<1>3. /\ RunOK(t) /\ worker[t] \in WorkerStates /\ worker[t].message \in QueueMessages
      /\ KeyOf(t) \in Keys /\ o \in Orders
  BY <1>1, BusyFacts
<1>4. CASE MoveOn(t)
  <2>1. At(t, worker[t].stage, "sms") /\ faults' \in 0..MaxFaults
        /\ sms' \in [Orders -> [ActiveTemplates -> Notes]] /\ sms' = sms
    BY <1>1, <1>2 DEF At, IInv, TypeOK
  <2> QED
    BY <1>1, <1>2, <1>4, <2>1, MoveOnStep
<1>5. CASE /\ c \in ActiveTemplates /\ apply_sms_policies(n, c, today, quiet)
           /\ worker' = [worker EXCEPT ![t].stage = "send"]
  <2> DEFINE r == [stage |-> "send", message |-> worker[t].message, found |-> worker[t].found,
                   todo |-> worker[t].todo]
  <2>1. r = [worker[t] EXCEPT !.stage = "send"]
    BY <1>3 DEF WorkerStates
  <2>2. worker' = [worker EXCEPT ![t] = r]
    BY <1>5, <2>1
  <2>3. r \in WorkerStates /\ r # Idle
    BY <1>3, Distinct DEF WorkerStates
  <2>4. r.message = worker[t].message /\ r.found = worker[t].found /\ r.stage = "send" /\ r.todo = worker[t].todo
    OBVIOUS
  <2> HIDE DEF r
  <2>5. worker'[t] = r /\ \A u \in Tasks \ {t} : worker'[u] = worker[u]
    BY <2>2 DEF IInv, TypeOK
  <2>6. /\ WebOK' /\ NumbersOK' /\ SentOK' /\ Over' = Over
        /\ UNCHANGED <<row, number, web, ended>>
    BY <1>2, TaskFrame
  <2>7. RunOK(t)'
    <3>1. /\ KeyOf(t)' = KeyOf(t) /\ worker'[t].todo = worker[t].todo
          /\ worker'[t].found = worker[t].found
      BY <2>4, <2>5 DEF KeyOf
    <3>2. \A k, q : Reached(k, q)' <=> Reached(k, q)
      BY <1>2 DEF Reached
    <3> QED
      BY <1>1, <1>3, <1>5, <2>6, <3>1, <3>2 DEF RunOK, Code
  <2>8. TypeOK'
    <3>1. worker' \in [Tasks -> WorkerStates \cup {Idle}]
      BY <2>2, <2>3 DEF IInv, TypeOK
    <3> QED
      BY <1>2, <2>6, <3>1 DEF IInv, TypeOK
  <2>9. PlacesOK'
    BY <1>1, <1>2, <2>2, <2>3, <2>4, PlaceStep
  <2>10. WorkOK'
    BY <1>2, <2>2, <2>6, <2>7, WorkStep
  <2>11. SmsOK'
    <3> SUFFICES ASSUME NEW x \in Orders, NEW d \in ActiveTemplates PROVE NotesOK(x, d)'
      BY DEF SmsOK
    <3>1. CASE x = o /\ d = c
      <4> DEFINE a == sms[x][d]
      <4>1. /\ IsFiniteSet(Senders(x, d))' /\ IsFiniteSet(Carrying(x, d))'
            /\ (Cardinality(Senders(x, d)) <= Cardinality(Carrying(x, d)))'
        <5>1. (TypeOK /\ SentOK /\ PlacesOK /\ WorkOK => SendersFew)'
          BY SendersCounted, PTL
        <5> QED
          BY <2>6, <2>8, <2>9, <2>10, <5>1 DEF SendersFew
      <4>2. a \in Notes /\ NotesOK(x, d) /\ a' = a
        BY <1>2 DEF IInv, TypeOK, SmsOK
      <4>3. DedupeWindow > 0 => a.sent = 0
        BY <1>5, <3>1 DEF apply_sms_policies
      <4>4. a.unanswered \in Nat /\ (DedupeWindow > 0 => a.delivered = a.unanswered)
        BY <4>2, <4>3 DEF NotesOK, Notes
      <4>5. Cardinality(Senders(x, d))' \in Nat /\ Cardinality(Carrying(x, d))' \in Nat
        BY <4>1, FS_CardinalityType
      <4> QED
        BY <4>1, <4>2, <4>3, <4>4, <4>5 DEF NotesOK
    <3>2. CASE ~(x = o /\ d = c)
      <4>1. Senders(x, d)' = Senders(x, d)
        <5>1. t \notin Senders(x, d) /\ t \notin Senders(x, d)'
          BY <1>1, <2>4, <2>5, <3>2 DEF Senders, KeyOf, Code
        <5> QED
          BY <2>5, <5>1 DEF Senders, Busy, KeyOf, Code
      <4>2. Carrying(x, d)' = Carrying(x, d)
        BY <1>2 DEF Carrying
      <4> QED
        BY <1>2, <4>1, <4>2 DEF IInv, SmsOK, NotesOK
    <3> QED
      BY <3>1, <3>2
  <2> QED
    BY <2>6, <2>8, <2>9, <2>10, <2>11 DEF IInv
<1> QED
  BY <1>4, <1>5 DEF CheckSms

\* What the notes of a message become, one message at a time.
LEMMA NoteStep ==
    ASSUME IInv, NEW o \in Orders, NEW c \in ActiveTemplates, NEW m, NEW d \in {0, 1},
           Noted(sms[o][c], m, d), Note(o, c, m)
    PROVE  /\ sms' \in [Orders -> [ActiveTemplates -> Notes]]
           /\ Noted(sms[o][c], sms'[o][c], d)
           /\ \A x \in Orders, y \in ActiveTemplates : (x = o /\ y = c) \/ sms'[x][y] = sms[x][y]
<1>1. sms \in [Orders -> [ActiveTemplates -> Notes]] /\ m \in Notes
  BY DEF IInv, TypeOK, Noted
<1>2. sms' = [sms EXCEPT ![o] = [sms[o] EXCEPT ![c] = m]]
  BY <1>1 DEF Note
<1>3. sms'[o] = [sms[o] EXCEPT ![c] = m] /\ \A x \in Orders \ {o} : sms'[x] = sms[x]
  BY <1>1, <1>2
<1>4. sms'[o][c] = m /\ \A y \in ActiveTemplates \ {c} : sms'[o][y] = sms[o][y]
  BY <1>1, <1>3
<1> QED
  BY <1>1, <1>2, <1>3, <1>4

\* What the provider's answer makes of them: only an accepted message of an event
\* counts against the messages that carry it.
LEMMA AnswerNoted ==
    ASSUME IInv, NEW o \in Orders, NEW c \in ActiveTemplates, NEW answer \in Answers
    PROVE  /\ Noted(sms[o][c], save_log(provider_send(sms[o][c], answer), answer), 1)
           /\ Noted(sms[o][c], provider_send(sms[o][c], "lost"), 0)
           /\ \A a \in Retryable(sms[o][c]) : Noted(sms[o][c], retry_failed(sms[o][c], a, answer), 0)
<1> DEFINE n == sms[o][c]
           m == provider_send(n, answer)
           l == provider_send(n, "lost")
<1>1. n \in Notes /\ NotesOK(o, c)
  BY DEF IInv, TypeOK, SmsOK
<1>2. /\ n.sent \in Nat /\ n.failed \subseteq 0..MaxAttempts /\ n.delivered \in Nat /\ n.unanswered \in Nat
      /\ n.unanswered <= n.delivered /\ n.delivered <= n.sent + n.unanswered
  BY <1>1 DEF Notes, NotesOK
<1> HIDE DEF n
<1>a. ASSUME NEW s \in Nat, NEW f \in SUBSET (0..MaxAttempts), NEW d \in Nat, NEW u \in Nat,
             NEW e \in Nat, NEW r \in Nat
      PROVE  [sent |-> s, failed |-> f, delivered |-> d, unanswered |-> u,
              failures |-> e, resent |-> r] \in Notes
  BY DEF Notes
<1>b. /\ n = [sent |-> n.sent, failed |-> n.failed, delivered |-> n.delivered,
              unanswered |-> n.unanswered, failures |-> n.failures, resent |-> n.resent]
      /\ n.failures \in Nat /\ n.resent \in Nat /\ n.failed \in SUBSET (0..MaxAttempts)
  BY <1>1 DEF Notes
<1>c. /\ provider_send(n, "accepted")
             = [sent |-> n.sent, failed |-> n.failed, delivered |-> n.delivered + 1,
                unanswered |-> n.unanswered, failures |-> n.failures, resent |-> n.resent]
      /\ l = [sent |-> n.sent, failed |-> n.failed, delivered |-> n.delivered + 1,
              unanswered |-> n.unanswered + 1, failures |-> n.failures, resent |-> n.resent]
      /\ provider_send(n, "refused") = n
  BY <1>b DEF provider_send
<1>d. n.delivered + 1 \in Nat /\ n.unanswered + 1 \in Nat
  BY <1>2
<1>3. /\ m \in Notes /\ m.sent = n.sent
      /\ answer = "accepted" => m.delivered = n.delivered + 1 /\ m.unanswered = n.unanswered
      /\ answer = "lost" => m.delivered = n.delivered + 1 /\ m.unanswered = n.unanswered + 1
      /\ answer = "refused" => m.delivered = n.delivered /\ m.unanswered = n.unanswered
  <2>1. CASE answer = "accepted"
    <3>1. m \in Notes
      BY <1>2, <1>a, <1>b, <1>c, <1>d, <2>1
    <3> QED
      BY <1>c, <2>1, <3>1
  <2>2. CASE answer = "lost"
    <3>1. m \in Notes
      BY <1>2, <1>a, <1>b, <1>c, <1>d, <2>2
    <3> QED
      BY <1>c, <2>2, <3>1
  <2>3. CASE answer = "refused"
    BY <1>1, <1>c, <2>3
  <2> QED
    BY <2>1, <2>2, <2>3 DEF Answers
<1>4. /\ l \in Notes /\ l.sent = n.sent
      /\ l.delivered = n.delivered + 1 /\ l.unanswered = n.unanswered + 1
  <2>1. l \in Notes
    BY <1>2, <1>a, <1>b, <1>c, <1>d
  <2> QED
    BY <1>c, <2>1
<1> HIDE DEF m, l
<1>5. 0 \in 0..MaxAttempts
  BY SmsAssumption
<1>6. /\ save_log(m, answer) \in Notes
      /\ save_log(m, answer).delivered = m.delivered /\ save_log(m, answer).unanswered = m.unanswered
      /\ save_log(m, answer).sent = IF answer = "accepted" THEN m.sent + 1 ELSE m.sent
  <2>1. /\ m = [sent |-> m.sent, failed |-> m.failed, delivered |-> m.delivered,
                unanswered |-> m.unanswered, failures |-> m.failures, resent |-> m.resent]
        /\ m.sent \in Nat /\ m.failed \in SUBSET (0..MaxAttempts) /\ m.delivered \in Nat
        /\ m.unanswered \in Nat /\ m.failures \in Nat /\ m.resent \in Nat
    BY <1>3 DEF Notes
  <2>2. m.sent + 1 \in Nat /\ m.failures + 1 \in Nat
        /\ m.failed \cup {0} \in SUBSET (0..MaxAttempts)
    BY <1>5, <2>1
  <2>3. CASE answer = "accepted"
    <3>1. save_log(m, answer)
            = [sent |-> m.sent + 1, failed |-> m.failed, delivered |-> m.delivered,
               unanswered |-> m.unanswered, failures |-> m.failures, resent |-> m.resent]
      BY <2>1, <2>3 DEF save_log
    <3>2. save_log(m, answer) \in Notes
      BY <1>a, <2>1, <2>2, <3>1
    <3> QED
      BY <2>3, <3>1, <3>2
  <2>4. CASE answer # "accepted"
    <3>1. save_log(m, answer)
            = [sent |-> m.sent, failed |-> m.failed \cup {0}, delivered |-> m.delivered,
               unanswered |-> m.unanswered, failures |-> m.failures + 1, resent |-> m.resent]
      BY <2>1, <2>4 DEF save_log
    <3>2. save_log(m, answer) \in Notes
      BY <1>a, <2>1, <2>2, <3>1
    <3> QED
      BY <2>4, <3>1, <3>2
  <2> QED
    BY <2>3, <2>4
<1>7. Noted(n, save_log(m, answer), 1)
  BY <1>2, <1>3, <1>6 DEF Noted, Answers
<1>8. Noted(n, l, 0)
  BY <1>2, <1>4 DEF Noted
<1>9. ASSUME NEW a \in Retryable(n) PROVE Noted(n, retry_failed(n, a, answer), 0)
  <2> DEFINE r == retry_failed(n, a, answer)
  <2>1. a + 1 \in 0..MaxAttempts
    BY <1>2, SmsAssumption DEF Retryable
  <2>2. /\ r \in Notes /\ r.delivered = n.delivered /\ r.unanswered = n.unanswered
        /\ r.sent = IF answer = "accepted" THEN n.sent + 1 ELSE n.sent
    <3>1. n.sent + 1 \in Nat /\ n.resent + 1 \in Nat
          /\ n.failed \cup {a + 1} \in SUBSET (0..MaxAttempts)
      BY <1>2, <1>b, <2>1
    <3>2. CASE answer = "accepted"
      <4>1. r = [sent |-> n.sent + 1, failed |-> n.failed, delivered |-> n.delivered,
                 unanswered |-> n.unanswered, failures |-> n.failures, resent |-> n.resent + 1]
        BY <1>b, <3>2 DEF retry_failed
      <4>2. r \in Notes
        BY <1>2, <1>a, <1>b, <3>1, <4>1
      <4> QED
        BY <3>2, <4>1, <4>2
    <3>3. CASE answer # "accepted"
      <4>1. r = [sent |-> n.sent, failed |-> n.failed \cup {a + 1}, delivered |-> n.delivered,
                 unanswered |-> n.unanswered, failures |-> n.failures, resent |-> n.resent + 1]
        BY <1>b, <3>3 DEF retry_failed
      <4>2. r \in Notes
        BY <1>2, <1>a, <1>b, <3>1, <4>1
      <4> QED
        BY <3>3, <4>1, <4>2
    <3> QED
      BY <3>2, <3>3
  <2> HIDE DEF r
  <2>3. Noted(n, r, 0)
    BY <1>2, <2>2 DEF Noted
  <2> QED
    BY <2>3 DEF r
<1> QED
  BY <1>7, <1>8, <1>9 DEF m, l, n

\* The provider takes an SMS or refuses it, and its answer may be lost.
LEMMA SendSmsStep ==
    ASSUME IInv, NEW t \in Tasks, NEW answer \in Answers, SendSms(t, answer)
    PROVE  IInv'
<1> DEFINE c == Code(t)
           o == KeyOf(t).order
           m == save_log(provider_send(sms[o][c], answer), answer)
<1>1. /\ Busy(t) /\ worker[t].stage = "send" /\ worker[t].todo # <<>>
      /\ Head(worker[t].todo).kind = "sms" /\ At(t, worker[t].stage, "sms")
  BY AtBusy DEF SendSms, At
<1>2. RunOK(t) /\ o \in Orders
  BY <1>1, BusyFacts
<1>3. c \in ActiveTemplates /\ t \in Senders(o, c)
  BY <1>1, <1>2 DEF RunOK, Code, Senders
<1>4. MoveOn(t) /\ Note(o, c, m) /\ UNCHANGED <<webVars, log, sent, queue, fanned>>
  BY DEF SendSms
<1>5. faults' \in 0..MaxFaults
  BY FaultsAssumption DEF SendSms, Fault, IInv, TypeOK
<1>6. Noted(sms[o][c], m, 1)
  BY <1>2, <1>3, AnswerNoted
<1> HIDE DEF m, o, c
<1>7. /\ sms' \in [Orders -> [ActiveTemplates -> Notes]]
      /\ Noted(sms[o][c], sms'[o][c], 1)
      /\ \A x \in Orders, y \in ActiveTemplates : (x = o /\ y = c) \/ sms'[x][y] = sms[x][y]
  BY <1>2, <1>3, <1>4, <1>6, NoteStep
<1>8. \A x \in Orders, y \in ActiveTemplates :
          \/ sms'[x][y] = sms[x][y]
          \/ t \in Senders(x, y) /\ Noted(sms[x][y], sms'[x][y], 1)
  BY <1>3, <1>7
<1> QED
  BY <1>1, <1>4, <1>5, <1>7, <1>8, MoveOnStep

\* The tasks that a worker starts with its next events are tasks of the shop.
LEMMA StartedTyped ==
    ASSUME IInv, NEW t \in Tasks, Busy(t), NEW n \in Leading(t), NEW m \in {n, n - 1}
    PROVE  /\ n \in 1..Len(worker[t].todo) /\ Len(worker[t].todo) \in Nat
           /\ \A i \in 1..n : worker[t].todo[i].kind = "task"
           /\ fanned \subseteq Started(t, 1..m)
           /\ Started(t, 1..m) \subseteq Orders \X {"cart_recovered", "loyalty", "growth", "analytics"}
<1> DEFINE s == worker[t].todo
<1>1. s \in Seq(Event) /\ KeyOf(t).order \in Orders
  BY BusyFacts
<1>2. Len(s) \in Nat /\ DOMAIN s = 1..Len(s)
  BY <1>1
<1>3. n \in 1..Len(s) /\ \A i \in 1..n : s[i].kind = "task"
  BY <1>2 DEF Leading
<1>4. \A i \in 1..m : i \in 1..n /\ s[i] \in Event
  BY <1>1, <1>2, <1>3
<1>5. \A i \in 1..m : s[i].code \in {"cart_recovered", "loyalty", "growth", "analytics"}
  BY <1>3, <1>4 DEF Event
<1>6. Started(t, 1..m) = fanned \cup {<<KeyOf(t).order, s[i].code>> : i \in 1..m}
  BY DEF Started
<1>7. {<<KeyOf(t).order, s[i].code>> : i \in 1..m}
        \subseteq Orders \X {"cart_recovered", "loyalty", "growth", "analytics"}
  BY <1>1, <1>5
<1>8. fanned \subseteq Orders \X {"cart_recovered", "loyalty", "growth", "analytics"}
  BY DEF IInv, TypeOK
<1> HIDE DEF s
<1> QED
  BY <1>2, <1>3, <1>6, <1>7, <1>8 DEF s

\* A task of the event is started,
LEMMA FanOutStep ==
    ASSUME IInv, NEW t \in Tasks, FanOut(t)
    PROVE  IInv'
<1> DEFINE s == worker[t].todo
<1>1. Busy(t) /\ worker[t].stage = "next"
  BY AtBusy DEF FanOut
<1>2. PICK n \in Leading(t) :
          /\ fanned' = Started(t, 1..n)
          /\ worker' = [worker EXCEPT ![t].todo = SubSeq(@, n + 1, Len(@))]
  BY DEF FanOut
<1>3. UNCHANGED <<webVars, log, sent, queue, sms, faults>>
  BY DEF FanOut
<1>4. /\ RunOK(t) /\ worker[t] \in WorkerStates /\ s \in Seq(Event)
      /\ KeyOf(t) \in Keys /\ KeyOf(t).order \in Orders
  BY <1>1, BusyFacts
<1>5. /\ n \in 1..Len(s) /\ Len(s) \in Nat
      /\ \A i \in 1..n : s[i].kind = "task"
      /\ fanned \subseteq fanned'
      /\ fanned' \subseteq Orders \X {"cart_recovered", "loyalty", "growth", "analytics"}
  BY <1>1, <1>2, StartedTyped
<1> DEFINE q == SubSeq(s, n + 1, Len(s))
           r == [stage |-> "next", message |-> worker[t].message, found |-> worker[t].found, todo |-> q]
<1>6. /\ q \in Seq(Event) /\ Len(q) = Len(s) - n
      /\ \A i \in 1..(Len(s) - n) : q[i] = s[i + n]
  BY <1>4, <1>5
<1>7. Elements(q) \subseteq Elements(s)
  BY <1>4, <1>5, <1>6 DEF Elements
<1>8. \A e \in Elements(s) : e \in Elements(q) \/ <<KeyOf(t).order, e.code>> \in fanned'
  <2>3. DOMAIN s = 1..Len(s) /\ DOMAIN q = 1..(Len(s) - n)
    BY <1>4, <1>5, <1>6
  <2> HIDE DEF q
  <2> SUFFICES ASSUME NEW i \in 1..Len(s)
               PROVE  s[i] \in Elements(q) \/ <<KeyOf(t).order, s[i].code>> \in fanned'
    BY <2>3 DEF Elements
  <2>1. CASE i <= n
    BY <1>2, <1>5, <2>1 DEF Started
  <2>2. CASE i > n
    <3>1. i - n \in 1..(Len(s) - n) /\ q[i - n] = s[i]
      BY <1>5, <1>6, <2>2
    <3> QED
      BY <2>3, <3>1 DEF Elements
  <2> QED
    BY <1>5, <2>1, <2>2
<1>9. worker' = [worker EXCEPT ![t] = r] /\ r \in WorkerStates
  <2>1. worker' = [worker EXCEPT ![t] = [worker[t] EXCEPT !.todo = q]]
    BY <1>2
  <2> HIDE DEF q
  <2>2. [worker[t] EXCEPT !.todo = q] = r
    BY <1>1, <1>4 DEF WorkerStates
  <2>3. r \in WorkerStates
    BY <1>4, <1>6 DEF WorkerStates
  <2> QED
    BY <2>1, <2>2, <2>3
<1>10. r # Idle
  BY <1>9, Distinct
<1>11. r.message = worker[t].message /\ r.found = worker[t].found /\ r.stage = "next" /\ r.todo = q
  OBVIOUS
<1> HIDE DEF r, q
<1>12. worker'[t] = r
  BY <1>9 DEF IInv, TypeOK
<1>13. /\ WebOK' /\ NumbersOK' /\ SentOK' /\ Over' = Over
       /\ UNCHANGED <<row, number, web, ended>>
  BY <1>3, TaskFrame
<1>14. RunOK(t)'
  <2>1. /\ KeyOf(t)' = KeyOf(t) /\ worker'[t].todo = q /\ worker'[t].found = worker[t].found
        /\ worker'[t].stage = "next"
    BY <1>11, <1>12 DEF KeyOf
  <2>2. \A k, y : k = KeyOf(t) /\ y = q /\ Reached(KeyOf(t), s) => Reached(k, y)'
    BY <1>5, <1>8 DEF Reached
  <2> QED
    BY <1>4, <1>7, <1>13, <2>1, <2>2 DEF RunOK
<1>15. TypeOK'
  <2>1. worker' \in [Tasks -> WorkerStates \cup {Idle}]
    BY <1>9 DEF IInv, TypeOK
  <2> QED
    BY <1>3, <1>5, <1>13, <2>1 DEF IInv, TypeOK
<1>16. PlacesOK'
  BY <1>1, <1>3, <1>9, <1>10, <1>11, PlaceStep
<1>17. WorkOK'
  BY <1>3, <1>5, <1>9, <1>13, <1>14, WorkStep
<1>18. SmsOK'
  <2>1. r.stage # "send"
    BY <1>11
  <2> QED
    BY <1>3, <1>9, <2>1, SmsStep
<1> QED
  BY <1>13, <1>15, <1>16, <1>17, <1>18 DEF IInv

\* A worker is done with its message, or gives it back.
LEMMA IdleStep ==
    ASSUME IInv, NEW t \in Tasks, Busy(t), worker' = [worker EXCEPT ![t] = Idle],
           UNCHANGED <<webVars, sent>>,
           \/ UNCHANGED queue
           \/ \E m \in QueueMessages : m.id = worker[t].message.id /\ queue' = queue \cup {m},
           DOMAIN log' \subseteq Keys, \A k \in DOMAIN log' : log'[k] \in LogRows,
           \A k \in DOMAIN log' : log'[k].status = "success" =>
               \/ k \in DOMAIN log /\ log[k].status = "success"
               \/ row[k.order] = Void \/ Reached(k, <<>>),
           fanned \subseteq fanned',
           fanned' \subseteq Orders \X {"cart_recovered", "loyalty", "growth", "analytics"},
           faults' \in 0..MaxFaults,
           sms' \in [Orders -> [ActiveTemplates -> Notes]],
           \A o \in Orders, c \in ActiveTemplates :
               \/ sms'[o][c] = sms[o][c]
               \/ t \in Senders(o, c) /\ Noted(sms[o][c], sms'[o][c], 1)
    PROVE  IInv'
<1>1. /\ WebOK' /\ NumbersOK' /\ SentOK' /\ UNCHANGED <<row, number, web, ended>>
  BY TaskFrame
<1>2. TypeOK'
  <2>1. worker' \in [Tasks -> WorkerStates \cup {Idle}]
    BY DEF IInv, TypeOK
  <2>2. queue' \subseteq QueueMessages
    BY DEF IInv, TypeOK
  <2> QED
    BY <1>1, <2>1, <2>2 DEF IInv, TypeOK
<1>3. PlacesOK'
  <2>1. UNCHANGED queue \/ \E m : m.id = worker[t].message.id /\ queue' = queue \cup {m}
    OBVIOUS
  <2> QED
    BY <2>1, PlaceStep
<1>4. WorkOK'
  BY <1>1, WorkStep
<1>5. SmsOK'
  BY SmsStep
<1> QED
  BY <1>1, <1>2, <1>3, <1>4, <1>5 DEF IInv

\* ... or fails to start, and the event is retried or given up.
LEMMA FanOutFailsStep ==
    ASSUME IInv, NEW t \in Tasks, FanOutFails(t)
    PROVE  IInv'
<1> DEFINE m == worker[t].message
           k == m.id.key
<1>1. Busy(t) /\ worker' = [worker EXCEPT ![t] = Idle] /\ UNCHANGED <<webVars, sent, sms>>
  BY AtBusy DEF FanOutFails
<1>2. m \in QueueMessages /\ k \in Keys
  BY <1>1, BusyFacts DEF KeyOf
<1>3. PICK n \in Leading(t) : fanned' = Started(t, 1..(n - 1))
  BY DEF FanOutFails
<1>4. /\ fanned \subseteq fanned'
      /\ fanned' \subseteq Orders \X {"cart_recovered", "loyalty", "growth", "analytics"}
  BY <1>1, <1>3, StartedTyped
<1>5. \/ UNCHANGED queue
      \/ \E x \in QueueMessages : x.id = m.id /\ queue' = queue \cup {x}
  <2>1. CASE m.retries < MaxRetries /\ queue' = queue \cup {[m EXCEPT !.retries = @ + 1]}
    <3>1. [m EXCEPT !.retries = @ + 1] \in QueueMessages /\ [m EXCEPT !.retries = @ + 1].id = m.id
      BY <1>2, <2>1, RetriesAssumption DEF QueueMessages
    <3> QED
      BY <2>1, <3>1
  <2> QED
    BY <2>1 DEF FanOutFails
<1>6. Logged(k, "retry") \/ Logged(k, "dead")
  BY DEF FanOutFails
<1>7. /\ DOMAIN log' \subseteq Keys /\ \A x \in DOMAIN log' : log'[x] \in LogRows
      /\ \A x \in DOMAIN log' : log'[x].status = "success" => x \in DOMAIN log /\ log[x].status = "success"
  BY <1>2, <1>6, LoggedTyped
<1>8. faults' \in 0..MaxFaults /\ sms' \in [Orders -> [ActiveTemplates -> Notes]] /\ sms' = sms
  BY <1>1, FaultsAssumption DEF FanOutFails, Fault, IInv, TypeOK
<1> HIDE DEF k
<1> QED
  BY <1>1, <1>4, <1>5, <1>7, <1>8, IdleStep

\* The end of a task: everything was started, and its log says so.
LEMMA FinishTaskStep ==
    ASSUME IInv, NEW t \in Tasks, FinishTask(t)
    PROVE  IInv'
<1> DEFINE k == KeyOf(t)
<1>1. /\ Busy(t) /\ worker[t].todo = <<>> /\ Logged(k, "success")
      /\ worker' = [worker EXCEPT ![t] = Idle]
      /\ UNCHANGED <<webVars, sent, queue, sms, fanned, faults>>
  BY DEF FinishTask
<1>2. k \in Keys /\ RunOK(t)
  BY <1>1, BusyFacts
<1>3. row[k.order] = Void \/ Reached(k, <<>>)
  BY <1>1, <1>2 DEF RunOK
<1>4. /\ DOMAIN log' \subseteq Keys /\ \A x \in DOMAIN log' : log'[x] \in LogRows
      /\ \A x \in DOMAIN log' : log'[x].status = "success" =>
            (x \in DOMAIN log /\ log[x].status = "success") \/ x = k
  BY <1>1, <1>2, LoggedTyped
<1>5. /\ faults' \in 0..MaxFaults /\ sms' \in [Orders -> [ActiveTemplates -> Notes]] /\ sms' = sms
      /\ fanned' = fanned
      /\ fanned \subseteq Orders \X {"cart_recovered", "loyalty", "growth", "analytics"}
  BY <1>1 DEF IInv, TypeOK
<1> HIDE DEF k
<1> QED
  BY <1>1, <1>3, <1>4, <1>5, IdleStep

\* A worker dies and its message comes back; what it may have sent is excused.
LEMMA CrashStep ==
    ASSUME IInv, NEW t \in Tasks, Crash(t)
    PROVE  IInv'
<1> DEFINE c == Code(t)
           o == KeyOf(t).order
<1>1. /\ Busy(t) /\ queue' = queue \cup {worker[t].message}
      /\ worker' = [worker EXCEPT ![t] = Idle] /\ CrashNotes(t)
      /\ UNCHANGED <<webVars, log, sent, fanned>>
  BY DEF Crash
<1>2. RunOK(t) /\ worker[t].message \in QueueMessages /\ o \in Orders
  BY <1>1, BusyFacts
<1>3. /\ sms' \in [Orders -> [ActiveTemplates -> Notes]]
      /\ \A x \in Orders, y \in ActiveTemplates :
            \/ sms'[x][y] = sms[x][y]
            \/ t \in Senders(x, y) /\ Noted(sms[x][y], sms'[x][y], 1)
  <2>1. CASE UNCHANGED sms
    BY <2>1 DEF IInv, TypeOK
  <2>2. CASE worker[t].stage = "send" /\ Note(o, c, provider_send(sms[o][c], "lost"))
    <3>1. c \in ActiveTemplates /\ t \in Senders(o, c)
      BY <1>1, <1>2, <2>2 DEF RunOK, Code, Senders
    <3> DEFINE m == provider_send(sms[o][c], "lost")
    <3>2. Noted(sms[o][c], m, 0)
      BY <1>2, <3>1, AnswerNoted DEF Answers
    <3> HIDE DEF m, o, c
    <3>3. /\ sms' \in [Orders -> [ActiveTemplates -> Notes]]
          /\ Noted(sms[o][c], sms'[o][c], 0)
          /\ \A x \in Orders, y \in ActiveTemplates : (x = o /\ y = c) \/ sms'[x][y] = sms[x][y]
      BY <1>2, <2>2, <3>1, <3>2, NoteStep DEF m
    <3>4. Noted(sms[o][c], sms'[o][c], 1)
      <4>1. sms[o][c] \in Notes /\ sms'[o][c] \in Notes
        BY <1>2, <3>1, <3>3 DEF IInv, TypeOK
      <4> QED
        BY <3>3, <4>1 DEF Noted, Notes
    <3> QED
      BY <3>1, <3>3, <3>4
  <2> QED
    BY <1>1, <2>1, <2>2 DEF CrashNotes
<1>4. /\ faults' \in 0..MaxFaults
      /\ DOMAIN log' \subseteq Keys /\ \A x \in DOMAIN log' : log'[x] \in LogRows
      /\ log' = log /\ fanned' = fanned
      /\ fanned \subseteq Orders \X {"cart_recovered", "loyalty", "growth", "analytics"}
  BY <1>1, FaultsAssumption DEF Crash, Fault, IInv, TypeOK
<1> QED
  BY <1>1, <1>2, <1>3, <1>4, IdleStep

\* The job that sends failed messages again has no worker of the queue.
LEMMA RetryFailedSmsStep ==
    ASSUME IInv, NEW o \in Orders, NEW c \in ActiveTemplates, NEW answer \in Answers,
           RetryFailedSms(o, c, answer)
    PROVE  IInv'
<1>1. PICK a \in Retryable(sms[o][c]) : Note(o, c, retry_failed(sms[o][c], a, answer))
  BY DEF RetryFailedSms
<1>2. UNCHANGED <<webVars, log, sent, queue, worker, fanned, faults>>
  BY DEF RetryFailedSms
<1> DEFINE m == retry_failed(sms[o][c], a, answer)
<1>3. Noted(sms[o][c], m, 0)
  BY AnswerNoted
<1> HIDE DEF m
<1>4. /\ sms' \in [Orders -> [ActiveTemplates -> Notes]]
      /\ Noted(sms[o][c], sms'[o][c], 0)
      /\ \A x \in Orders, y \in ActiveTemplates : (x = o /\ y = c) \/ sms'[x][y] = sms[x][y]
  BY <1>1, <1>3, NoteStep DEF m
<1>5. /\ WebOK' /\ NumbersOK' /\ SentOK' /\ Over' = Over
      /\ UNCHANGED <<row, number, web, ended>>
  BY <1>2, TaskFrame
<1>6. TypeOK'
  BY <1>2, <1>4, <1>5 DEF IInv, TypeOK
<1>7. PlacesOK'
  BY <1>2 DEF IInv, PlacesOK, Busy
<1>8. WorkOK'
  BY <1>2, <1>5, WorkFrame DEF IInv
<1>9. SmsOK'
  <2> SUFFICES ASSUME NEW x \in Orders, NEW y \in ActiveTemplates PROVE NotesOK(x, y)'
    BY DEF SmsOK
  <2>1. Senders(x, y)' = Senders(x, y)
    BY <1>2 DEF Senders, Busy, KeyOf, Code
  <2>2. NotesOK(x, y)
    BY DEF IInv, SmsOK
  <2>3. CASE x = o /\ y = c
    <3>1. IsFiniteSet(Senders(x, y)) /\ Cardinality(Senders(x, y)) \in Nat
      BY <2>2, FS_CardinalityType DEF NotesOK
    <3>2. Cardinality(Senders(x, y)) + 0 <= Cardinality(Senders(x, y))
      BY <3>1
    <3> QED
      BY <1>2, <1>4, <2>1, <2>3, <3>1, <3>2, NotesStep
  <2>4. CASE ~(x = o /\ y = c)
    <3>1. sms'[x][y] = sms[x][y] /\ Carrying(x, y)' = Carrying(x, y)
      BY <1>2, <1>4, <2>4 DEF Carrying
    <3> QED
      BY <2>1, <2>2, <3>1 DEF NotesOK
  <2> QED
    BY <2>3, <2>4
<1> QED
  BY <1>5, <1>6, <1>7, <1>8, <1>9 DEF IInv

-----------------------------------------------------------------------------
(* The theorems. *)

\* The invariant holds at first.
LEMMA LifecycleInit == Init => IInv
<1> SUFFICES ASSUME Init PROVE IInv
  OBVIOUS
<1> USE DEF Init
<1>1. NoNotes \in Notes
  BY DEF NoNotes, Notes
<1>2. TypeOK
  BY <1>1, FaultsAssumption DEF TypeOK, NoLog
<1>3. Numbered = {} /\ IsFiniteSet({}) /\ Cardinality({}) = 0
  BY FS_EmptySet DEF Numbered
<1>4. (\A w \in Web : ~InTransaction(w)) /\ (\A t \in Tasks : ~Busy(t)) /\ Over = {}
  BY DEF InTransaction, Busy, Over
<1>5. WebOK /\ SentOK /\ PlacesOK
  BY <1>3, <1>4 DEF WebOK, SentOK, PlacesOK
<1>6. NumbersOK
  BY <1>3 DEF NumbersOK, ConsecutiveNumbers
<1>7. WorkOK
  BY <1>4 DEF WorkOK, SuccessMeansStarted, NoLog
<1>8. SmsOK
  <2> SUFFICES ASSUME NEW o \in Orders, NEW c \in ActiveTemplates PROVE NotesOK(o, c)
    BY DEF SmsOK
  <2>1. Senders(o, c) = {} /\ Carrying(o, c) = {}
    BY <1>4 DEF Senders, Carrying
  <2>2. sms[o][c].unanswered = 0 /\ sms[o][c].delivered = 0 /\ sms[o][c].sent = 0
    BY DEF NoNotes
  <2> QED
    BY <1>3, <2>1, <2>2 DEF NotesOK
<1> QED
  BY <1>2, <1>5, <1>6, <1>7, <1>8 DEF IInv

\* The invariant is inductive.
LEMMA LifecycleNext == IInv /\ [Next]_vars => IInv'
<1> SUFFICES ASSUME IInv, [Next]_vars PROVE IInv'
  OBVIOUS
<1>1. ASSUME NEW w \in Web, WebStep(w) PROVE IInv'
  BY <1>1, WebSteps
<1>2. ASSUME NEW t \in Tasks, TaskStep(t) PROVE IInv'
  <2>1. CASE \E m \in queue : StartTask(t, m)
    BY <2>1, StartTaskStep
  <2>2. CASE \E quiet \in BOOLEAN, today \in 0..SentRows : CheckSms(t, quiet, today)
    <3>1. PICK quiet \in BOOLEAN, today \in 0..SentRows : CheckSms(t, quiet, today)
      BY <2>2
    <3>2. today \in Nat
      OBVIOUS
    <3> QED
      BY <3>1, <3>2, CheckSmsStep
  <2>3. CASE \E answer \in Answers : SendSms(t, answer)
    BY <2>3, SendSmsStep
  <2>4. CASE FanOut(t)
    BY <2>4, FanOutStep
  <2>5. CASE FanOutFails(t)
    BY <2>5, FanOutFailsStep
  <2>6. CASE FinishTask(t)
    BY <2>6, FinishTaskStep
  <2>7. CASE Crash(t)
    BY <2>7, CrashStep
  <2> QED
    BY <1>2, <2>1, <2>2, <2>3, <2>4, <2>5, <2>6, <2>7 DEF TaskStep
<1>3. CASE RetryJob
  BY <1>3, RetryFailedSmsStep DEF RetryJob
<1>4. CASE UNCHANGED vars
  <2> USE <1>4 DEF vars
  <2>1. TypeOK' /\ PlacesOK'
    BY DEF IInv, TypeOK, PlacesOK, Busy
  <2>2. WebOK' /\ NumbersOK' /\ SentOK' /\ Over' = Over
    BY TaskFrame DEF webVars
  <2>3. WorkOK'
    BY <2>2, WorkFrame DEF IInv
  <2>4. SmsOK'
    BY SmsFrame DEF IInv, SentOK
  <2> QED
    BY <2>1, <2>2, <2>3, <2>4 DEF IInv
<1> QED
  BY <1>1, <1>2, <1>3, <1>4 DEF Next

\* The invariant: the steps of transactions, workers and the retry job keep it.
THEOREM LifecycleSafe == Spec => []IInv
  BY LifecycleInit, LifecycleNext, PTL DEF Spec

\* Rows, transactions, messages and notes keep their types.
THEOREM LifecycleTypeCorrect == Spec => []TypeOK
<1>1. IInv => TypeOK
  BY DEF IInv
<1> QED
  BY <1>1, LifecycleSafe, PTL

\* No task runs before the transaction that published it is over, and a worker misses
\* its order only when the checkout was rolled back.
THEOREM NothingHandledEarly == Spec => []NoEarlyHandling
<1>1. IInv => NoEarlyHandling
  BY DEF IInv, WorkOK, RunOK, Over, NoEarlyHandling
<1> QED
  BY <1>1, LifecycleSafe, PTL

\* The daily numbers are 1, 2, 3, ..., although they are drawn from the committed rows
\* without waiting for the checkouts that overlap, and checkouts are rolled back.
THEOREM NumbersConsecutive == Spec => []ConsecutiveNumbers
<1>1. IInv => ConsecutiveNumbers
  BY DEF IInv, NumbersOK
<1> QED
  BY <1>1, LifecycleSafe, PTL

\* A row of the task log that says "success" is true.
THEOREM SuccessIsTrue == Spec => []SuccessMeansStarted
<1>1. IInv => SuccessMeansStarted
  BY DEF IInv, WorkOK
<1> QED
  BY <1>1, LifecycleSafe, PTL

\* The provider takes no more messages of an order's events than carry the template, but
\* for lost answers.
THEOREM SmsRepeatsExcused == Spec => []RepeatsExcused
<1>1. IInv => RepeatsExcused
  <2> SUFFICES ASSUME IInv, DedupeWindow > 0, NEW o \in Orders, NEW c \in ActiveTemplates
               PROVE  sms[o][c].delivered <= Cardinality(Carrying(o, c)) + sms[o][c].unanswered
    BY DEF RepeatsExcused
  <2>1. NotesOK(o, c) /\ sms[o][c] \in Notes /\ Carrying(o, c) \in SUBSET sent
    BY DEF IInv, SmsOK, TypeOK, Carrying
  <2>2. Cardinality(Senders(o, c)) \in Nat /\ Cardinality(Carrying(o, c)) \in Nat
    BY <2>1, FS_CardinalityType, FS_Subset DEF NotesOK, IInv, SentOK
  <2> QED
    BY <2>1, <2>2 DEF NotesOK, Notes
<1> QED
  BY <1>1, LifecycleSafe, PTL

=============================================================================
