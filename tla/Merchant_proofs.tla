--------------------------- MODULE Merchant_proofs ---------------------------
(***************************************************************************)
(* Proofs about the merchant service: a payment is settled once, by one    *)
(* writer at a time, and what was accepted stays.                          *)
(***************************************************************************)
EXTENDS Merchant, FiniteSetTheorems, TLAPS

----------------------------------------------------------------------------
(* The invariant *)

LogEntries == [payment: Payments, status: Terminal \cup {"PENDING"},
               type: {"PAYMENT_CREATED", "WEBHOOK_PROCESSED"}]

Dbs == [payments: [Payments -> PaymentRow \cup {NoPayment}], log: Seq(LogEntries),
        webhooks: SUBSET Events]

Asked == [op: {"CREATE"}, amount: Amounts]
Told  == [op: {"CALLBACK"}, event: Events, cb: Callbacks]

Labels == {"idle", "insert", "dedup", "lookup", "record", "settle", "commit", "respond"}

At(d, p, status, type) == {i \in 1 .. Len(d.log) : d.log[i] = LogEntry(p, status, type)}

Single(S) == \E i : S = {i}

\* EventsTellStory, of a database, with the counts spelled out.
Story(d) ==
  \A p \in Payments :
    LET row     == d.payments[p]
        created == At(d, p, "PENDING", "PAYMENT_CREATED")
        settled == At(d, p, row.status, "WEBHOOK_PROCESSED")
    IN  /\ {i \in 1 .. Len(d.log) : d.log[i].payment = p} = created \cup settled
        /\ IF row = NoPayment THEN created = {} ELSE Single(created)
        /\ IF row.status \in Terminal THEN Single(settled) ELSE settled = {}
        /\ \A i \in created, j \in settled : i < j

\* e is d with one more payment, p.
Adds(d, e, p) ==
  /\ d.payments[p] = NoPayment
  /\ e.payments[p].status = "PENDING"
  /\ \A o \in Payments : o # p => e.payments[o] = d.payments[o]
  /\ e.log = Append(d.log, LogEntry(p, "PENDING", "PAYMENT_CREATED"))
  /\ e.webhooks = d.webhooks

\* e is d with payment p settled by an event.
Settles(d, e, p, status, event) ==
  /\ d.payments[p].status = "PENDING" /\ status \in Terminal
  /\ e.payments[p] = [d.payments[p] EXCEPT !.status = status]
  /\ \A o \in Payments : o # p => e.payments[o] = d.payments[o]
  /\ e.log = Append(d.log, LogEntry(p, status, "WEBHOOK_PROCESSED"))
  /\ e.webhooks = d.webhooks \cup {event}

\* e is d with one more event, which changes no payment.
Notes(d, e, event) ==
  e.payments = d.payments /\ e.log = d.log /\ e.webhooks = d.webhooks \cup {event}

\* What a request has to have written before its COMMIT.
Written(q, v, d, e) ==
  /\ e \in Dbs
  /\ \/ q \in Asked /\ v = "NONE" /\ \E p \in Payments : Adds(d, e, p)
     \/ /\ q \in Told /\ v = "NONE" /\ Notes(d, e, q.event)
        /\ d.payments[q.cb.payment].status \in Terminal
     \/ q \in Told /\ v # "NONE" /\ Settles(d, e, q.cb.payment, v, q.event)

\* The payment of q is settled and its event is known.
Durable(q, d) ==
  q \in Told /\ d.payments[q.cb.payment].status \in Terminal /\ q.event \in d.webhooks

\* What a process holds at each place of its handler.
Holds(w, label, q, v, mine, out, d, shared, holder) ==
  /\ label \in Labels /\ v \in Terminal \cup {"NONE"}
  /\ label = "commit" <=> holder = w
  /\ label \in {"lookup", "record", "settle", "commit"} => w \in shared
  /\ label = "insert" => q \in Asked
  /\ label \in {"dedup", "lookup", "record", "settle"} => q \in Told
  /\ label \notin {"settle", "commit"} => v = "NONE"
  /\ label = "record" => v = "NONE" /\ d.payments[q.cb.payment].status \in Terminal
  /\ label = "settle" => v # "NONE" /\ d.payments[q.cb.payment].status = "PENDING"
  /\ label # "commit" => mine = NoWork
  /\ label = "commit" => Written(q, v, d, mine)
  /\ label = "respond" /\ out = "ACCEPTED" => Durable(q, d)

Local(w) == Holds(w, pc[w], req[w], verdict[w], work[w], code[w], db, readers, reserved)

Shape ==
  /\ db \in Dbs /\ overdue \subseteq Payments
  /\ readers \subseteq Workers /\ reserved \in Workers \cup {NoWorker}
  /\ pc = [w \in Workers |-> pc[w]] /\ req = [w \in Workers |-> req[w]]
  /\ work = [w \in Workers |-> work[w]] /\ code = [w \in Workers |-> code[w]]
  /\ verdict = [w \in Workers |-> verdict[w]]

MInv == Shape /\ Story(db) /\ \A w \in Workers : Local(w)

(* What the invariant says of the next state *)

LEMMA LocalNext ==
  ASSUME NEW w \in Workers
  PROVE  Local(w)' <=> Holds(w, pc'[w], req'[w], verdict'[w], work'[w], code'[w],
                             db', readers', reserved')
BY DEF Local, Holds, Written, Durable, Adds, Settles, Notes, Dbs, LogEntries, PaymentRow, Told,
       Asked, Labels, Terminal, NoPayment, NoWork, LogEntry

LEMMA StoryNext == Story(db)' <=> Story(db')
BY DEF Story, At, Single, LogEntry, NoPayment, Terminal

LEMMA ShapeNext ==
  ASSUME db' \in Dbs, overdue' \subseteq Payments, readers' \subseteq Workers,
         reserved' \in Workers \cup {NoWorker},
         pc' = [w \in Workers |-> pc'[w]], req' = [w \in Workers |-> req'[w]],
         work' = [w \in Workers |-> work'[w]], code' = [w \in Workers |-> code'[w]],
         verdict' = [w \in Workers |-> verdict'[w]]
  PROVE  Shape'
BY DEF Shape, Dbs, PaymentRow, NoPayment, Terminal, LogEntries

\* What a commit of somebody else leaves to be relied on.
Keeps(d, e) ==
  /\ d.webhooks \subseteq e.webhooks
  /\ \A p \in Payments : d.payments[p].status \in Terminal => e.payments[p] = d.payments[p]

LEMMA CallbackTypes ==
  ASSUME NEW q \in Told
  PROVE  q.cb.payment \in Payments /\ q.event \in Events /\ q.cb \in Callbacks
BY MerchantAssumption DEF Told

\* What a process holds does not depend on what the others do.
LEMMA HoldsFrame ==
  ASSUME NEW w, NEW label, NEW q, NEW v, NEW mine, NEW out, NEW d, NEW shared, NEW holder,
         NEW e, NEW shared2, NEW holder2,
         Holds(w, label, q, v, mine, out, d, shared, holder),
         w \in shared2 <=> w \in shared, holder2 = w <=> holder = w,
         e = d \/ (w \notin shared /\ Keeps(d, e))
  PROVE  Holds(w, label, q, v, mine, out, e, shared2, holder2)
<1>1. CASE e = d
  BY <1>1 DEF Holds
<1>2. CASE w \notin shared /\ Keeps(d, e)
  <2>1. label \notin {"lookup", "record", "settle", "commit"}
    BY <1>2 DEF Holds
  <2>2. Durable(q, d) => Durable(q, e)
    BY <1>2, CallbackTypes DEF Durable, Keeps
  <2>3. QED BY <2>1, <2>2 DEF Holds
<1>3. QED BY <1>1, <1>2

\* Only process w moves.
Others(w) ==
  /\ \A v \in Workers \ {w} :
       /\ pc'[v] = pc[v] /\ req'[v] = req[v] /\ verdict'[v] = verdict[v]
       /\ work'[v] = work[v] /\ code'[v] = code[v]
       /\ v \in readers' <=> v \in readers
       /\ reserved' = v <=> reserved = v

LEMMA Assemble ==
  ASSUME MInv, NEW w \in Workers, Shape', Others(w),
         Holds(w, pc'[w], req'[w], verdict'[w], work'[w], code'[w], db', readers', reserved'),
         Story(db'), db' = db \/ (readers \subseteq {w} /\ Keeps(db, db'))
  PROVE  MInv'
<1>1. ASSUME NEW v \in Workers PROVE Local(v)'
  <2>1. CASE v = w
    BY <2>1, LocalNext
  <2>2. CASE v # w
    <3>1. Holds(v, pc[v], req[v], verdict[v], work[v], code[v], db, readers, reserved)
      BY DEF MInv, Local
    <3>2. Holds(v, pc[v], req[v], verdict[v], work[v], code[v], db', readers', reserved')
      BY <2>2, <3>1, HoldsFrame DEF Others
    <3>3. QED BY <2>2, <3>2, LocalNext DEF Others
  <2>3. QED BY <2>1, <2>2
<1>2. Story(db)'
  BY StoryNext
<1>3. QED BY <1>1, <1>2 DEF MInv

----------------------------------------------------------------------------
(* The steps that write nothing *)

\* db.rollback() and the error.
LEMMA AbortStep ==
  ASSUME MInv, NEW w \in Workers, NEW outcome, Abort(w, outcome), outcome # "ACCEPTED"
  PROVE  MInv'
<1>1. Shape /\ Story(db)
  BY DEF MInv
<1>2. /\ db' = db /\ overdue' = overdue /\ req' = req
      /\ readers' = readers \ {w}
      /\ reserved' = IF reserved = w THEN NoWorker ELSE reserved
      /\ work' = [work EXCEPT ![w] = NoWork] /\ pc' = [pc EXCEPT ![w] = "respond"]
      /\ code' = [code EXCEPT ![w] = outcome] /\ verdict' = [verdict EXCEPT ![w] = "NONE"]
  BY DEF Abort, Unlock, Finish, Goto
<1>3. Shape'
  <2>1. reserved' \in Workers \cup {NoWorker}
    BY <1>1, <1>2 DEF Shape
  <2>2. QED BY <1>1, <1>2, <2>1, ShapeNext DEF Shape
<1>4. /\ pc'[w] = "respond" /\ verdict'[w] = "NONE" /\ work'[w] = NoWork
      /\ code'[w] = outcome /\ reserved' # w
  BY <1>1, <1>2, MerchantAssumption DEF Shape
<1>5. Others(w)
  BY <1>1, <1>2, MerchantAssumption DEF Others, Shape
<1>6. Holds(w, pc'[w], req'[w], verdict'[w], work'[w], code'[w], db', readers', reserved')
  BY <1>4 DEF Holds, Labels
<1>7. QED BY <1>1, <1>2, <1>3, <1>5, <1>6, Assemble

LEMMA AskStep ==
  ASSUME MInv, NEW w \in Workers, AskPayment(w)
  PROVE  MInv'
<1>1. Shape /\ Story(db) /\ Local(w)
  BY DEF MInv
<1>2. PICK a \in Amounts : req' = [req EXCEPT ![w] = [op |-> "CREATE", amount |-> a]]
  BY DEF AskPayment
<1>3. /\ pc' = [pc EXCEPT ![w] = "insert"] /\ pc[w] = "idle"
      /\ UNCHANGED <<db, overdue, readers, reserved, work, verdict, code>>
  BY DEF AskPayment, Goto, locks
<1>4. Shape'
  BY <1>1, <1>2, <1>3, ShapeNext DEF Shape
<1>5. Others(w)
  BY <1>1, <1>2, <1>3 DEF Others, Shape
<1>6. pc'[w] = "insert" /\ req'[w] \in Asked
  BY <1>1, <1>2, <1>3 DEF Shape, Asked
<1>7. Holds(w, pc'[w], req'[w], verdict'[w], work'[w], code'[w], db', readers', reserved')
  BY <1>1, <1>3, <1>6 DEF Local, Holds, Labels
<1>8. QED BY <1>1, <1>3, <1>4, <1>5, <1>7, Assemble

LEMMA DeliverStep ==
  ASSUME MInv, NEW w \in Workers, Deliver(w)
  PROVE  MInv'
<1>1. Shape /\ Story(db) /\ Local(w)
  BY DEF MInv
<1>2. PICK ev \in Events, cb \in Callbacks :
        req' = [req EXCEPT ![w] = [op |-> "CALLBACK", event |-> ev, cb |-> cb]]
  BY DEF Deliver
<1>3. /\ pc' = [pc EXCEPT ![w] = "dedup"] /\ pc[w] = "idle"
      /\ UNCHANGED <<db, overdue, readers, reserved, work, verdict, code>>
  BY DEF Deliver, Goto, locks
<1>4. Shape'
  BY <1>1, <1>2, <1>3, ShapeNext DEF Shape
<1>5. Others(w)
  BY <1>1, <1>2, <1>3 DEF Others, Shape
<1>6. pc'[w] = "dedup" /\ req'[w] \in Told
  BY <1>1, <1>2, <1>3 DEF Shape, Told
<1>7. Holds(w, pc'[w], req'[w], verdict'[w], work'[w], code'[w], db', readers', reserved')
  BY <1>1, <1>3, <1>6 DEF Local, Holds, Labels
<1>8. QED BY <1>1, <1>3, <1>4, <1>5, <1>7, Assemble

LEMMA CheckEventStep ==
  ASSUME MInv, NEW w \in Workers, CheckEvent(w)
  PROVE  MInv'
<1>1. Shape /\ Story(db) /\ Local(w)
  BY DEF MInv
<1>2. /\ readers' = readers \cup {w} /\ pc[w] = "dedup"
      /\ \/ /\ pc' = [pc EXCEPT ![w] = "respond"] /\ code' = [code EXCEPT ![w] = "IGNORED"]
            /\ verdict' = [verdict EXCEPT ![w] = "NONE"]
         \/ pc' = [pc EXCEPT ![w] = "lookup"] /\ code' = code /\ verdict' = verdict
      /\ UNCHANGED <<db, overdue, reserved, work, req>>
  BY DEF CheckEvent, Goto, Finish
<1>3. Shape'
  <2>1. readers' \subseteq Workers
    BY <1>1, <1>2 DEF Shape
  <2>2. /\ pc' = [v \in Workers |-> pc'[v]] /\ code' = [v \in Workers |-> code'[v]]
        /\ verdict' = [v \in Workers |-> verdict'[v]]
    BY <1>1, <1>2 DEF Shape
  <2>3. QED BY <1>1, <1>2, <2>1, <2>2, ShapeNext DEF Shape
<1>4. Others(w)
  BY <1>1, <1>2 DEF Others, Shape
<1>5. \/ pc'[w] = "respond" /\ code'[w] = "IGNORED" /\ verdict'[w] = "NONE"
      \/ pc'[w] = "lookup" /\ verdict'[w] = verdict[w] /\ w \in readers'
  BY <1>1, <1>2 DEF Shape
<1>6. Holds(w, pc'[w], req'[w], verdict'[w], work'[w], code'[w], db', readers', reserved')
  BY <1>1, <1>2, <1>5 DEF Local, Holds, Labels
<1>7. QED BY <1>1, <1>2, <1>3, <1>4, <1>6, Assemble

LEMMA LookupStep ==
  ASSUME MInv, NEW w \in Workers, Lookup(w)
  PROVE  MInv'
<1> DEFINE p == req[w].cb.payment
<1>1. Shape /\ Story(db) /\ Local(w)
  BY DEF MInv
<1>2. CASE Abort(w, "NOT_FOUND") \/ Abort(w, "MISMATCH")
  BY <1>2, AbortStep
<1>3. CASE /\ pc[w] = "lookup" /\ db.payments[p].status = "PENDING"
           /\ verdict' = [verdict EXCEPT ![w] = NewStatus(p, req[w].cb)]
           /\ pc' = [pc EXCEPT ![w] = "settle"]
           /\ UNCHANGED <<db, overdue, readers, reserved, work, req, code>>
  <2>1. Shape'
    BY <1>1, <1>3, ShapeNext DEF Shape
  <2>2. Others(w)
    BY <1>1, <1>3 DEF Others, Shape
  <2>3. pc'[w] = "settle" /\ verdict'[w] \in Terminal
    BY <1>1, <1>3 DEF Shape, NewStatus, Terminal
  <2>4. Holds(w, pc'[w], req'[w], verdict'[w], work'[w], code'[w], db', readers', reserved')
    BY <1>1, <1>3, <2>3 DEF Local, Holds, Labels, Terminal
  <2>5. QED BY <1>1, <1>3, <2>1, <2>2, <2>4, Assemble
<1>4. CASE /\ pc[w] = "lookup" /\ db.payments[p] # NoPayment
           /\ db.payments[p].status # "PENDING"
           /\ pc' = [pc EXCEPT ![w] = "record"]
           /\ UNCHANGED <<db, overdue, readers, reserved, work, req, code, verdict>>
  <2>1. Shape'
    BY <1>1, <1>4, ShapeNext DEF Shape
  <2>2. Others(w)
    BY <1>1, <1>4 DEF Others, Shape
  <2>3. pc'[w] = "record"
    BY <1>1, <1>4 DEF Shape
  <2>4. db.payments[p].status \in Terminal
    <3>1. p \in Payments
      BY <1>1, <1>4, CallbackTypes DEF Local, Holds
    <3>2. db.payments[p] \in PaymentRow
      BY <1>1, <1>4, <3>1 DEF Shape, Dbs
    <3>3. QED BY <1>4, <3>2 DEF PaymentRow
  <2>5. Holds(w, pc'[w], req'[w], verdict'[w], work'[w], code'[w], db', readers', reserved')
    BY <1>1, <1>4, <2>3, <2>4 DEF Local, Holds, Labels
  <2>6. QED BY <1>1, <1>4, <2>1, <2>2, <2>5, Assemble
<1>5. QED BY <1>2, <1>3, <1>4 DEF Lookup, Pending, Goto, locks

\* SQLite answers "database is locked", or a statement raises.
LEMMA FailStep ==
  ASSUME MInv, NEW w \in Workers, Busy(w) \/ Fault(w)
  PROVE  MInv'
BY AbortStep DEF Busy, Fault

\* The end of a request: answered, or its process killed.
LEMMA EndStep ==
  ASSUME MInv, NEW w \in Workers, Respond(w) \/ Crash(w)
  PROVE  MInv'
<1>1. Shape /\ Story(db) /\ Local(w)
  BY DEF MInv
<1>2. /\ db' = db /\ overdue' = overdue /\ req' = [req EXCEPT ![w] = NoReq]
      /\ readers' = readers \ {w}
      /\ reserved' = IF reserved = w THEN NoWorker ELSE reserved
      /\ work' = [work EXCEPT ![w] = NoWork] /\ pc' = [pc EXCEPT ![w] = "idle"]
      /\ code' = [code EXCEPT ![w] = "NONE"]
      /\ \/ verdict' = [verdict EXCEPT ![w] = "NONE"]
         \/ verdict' = verdict /\ pc[w] = "respond"
  BY DEF Respond, Crash, Unlock, Goto
<1>3. Shape'
  <2>1. reserved' \in Workers \cup {NoWorker}
    BY <1>1, <1>2 DEF Shape
  <2>2. verdict' = [v \in Workers |-> verdict'[v]]
    BY <1>1, <1>2 DEF Shape
  <2>3. QED BY <1>1, <1>2, <2>1, <2>2, ShapeNext DEF Shape
<1>4. Others(w)
  BY <1>1, <1>2, MerchantAssumption DEF Others, Shape
<1>5. pc'[w] = "idle" /\ verdict'[w] = "NONE" /\ work'[w] = NoWork /\ reserved' # w
  BY <1>1, <1>2, MerchantAssumption DEF Shape, Local, Holds
<1>6. Holds(w, pc'[w], req'[w], verdict'[w], work'[w], code'[w], db', readers', reserved')
  BY <1>5 DEF Holds, Labels
<1>7. QED BY <1>1, <1>2, <1>3, <1>4, <1>6, Assemble

LEMMA ExpireStep ==
  ASSUME MInv, NEW p \in Payments, Expire(p)
  PROVE  MInv'
<1>1. /\ overdue' = overdue \cup {p}
      /\ UNCHANGED <<db, readers, reserved, work, pc, req, verdict, code>>
  BY DEF Expire, locks
<1>2. Shape'
  BY <1>1, ShapeNext DEF MInv, Shape
<1>3. ASSUME NEW w \in Workers PROVE Local(w)'
  BY <1>1, LocalNext DEF MInv, Local
<1>4. Story(db)'
  BY <1>1, StoryNext DEF MInv
<1>5. QED BY <1>2, <1>3, <1>4 DEF MInv

----------------------------------------------------------------------------
(* The steps that write *)

\* A first write: what w has to have written, and the RESERVED lock.
LEMMA WriteStep ==
  ASSUME MInv, NEW w \in Workers, Reserve(w), NEW e,
         work' = [work EXCEPT ![w] = e], Written(req[w], verdict[w], db, e),
         pc' = [pc EXCEPT ![w] = "commit"], UNCHANGED <<db, overdue, req, verdict, code>>
  PROVE  MInv'
<1>1. Shape /\ Story(db) /\ Local(w)
  BY DEF MInv
<1>2. reserved = NoWorker /\ reserved' = w /\ readers' = readers \cup {w}
  BY DEF Reserve
<1>3. Shape'
  <2>1. readers' \subseteq Workers
    BY <1>1, <1>2 DEF Shape
  <2>2. QED BY <1>1, <1>2, <2>1, ShapeNext DEF Shape
<1>4. Others(w)
  BY <1>1, <1>2, MerchantAssumption DEF Others, Shape
<1>5. pc'[w] = "commit" /\ work'[w] = e /\ w \in readers'
  BY <1>1, <1>2 DEF Shape
<1>6. Holds(w, pc'[w], req'[w], verdict'[w], work'[w], code'[w], db', readers', reserved')
  BY <1>1, <1>2, <1>5 DEF Local, Holds, Labels
<1>7. QED BY <1>1, <1>3, <1>4, <1>6, Assemble

\* e is d after a payment of so many cents was inserted.
Inserted(d, e, p, cents) ==
  e = [d EXCEPT !.payments[p] = [status |-> "PENDING", cents |-> cents],
                !.log = Append(@, LogEntry(p, "PENDING", "PAYMENT_CREATED"))]

LEMMA InsertedAdds ==
  ASSUME NEW d \in Dbs, NEW e, NEW p \in Payments, NEW cents \in Nat,
         d.payments[p] = NoPayment, Inserted(d, e, p, cents)
  PROVE  e \in Dbs /\ Adds(d, e, p)
<1> DEFINE row == [status |-> "PENDING", cents |-> cents]
           entry == LogEntry(p, "PENDING", "PAYMENT_CREATED")
<1>1. row \in PaymentRow /\ row.status = "PENDING" /\ entry \in LogEntries
  BY DEF PaymentRow, LogEntry, LogEntries
<1>2. /\ e = [d EXCEPT !.payments = [d.payments EXCEPT ![p] = row], !.log = Append(d.log, entry)]
      /\ d.payments \in [Payments -> PaymentRow \cup {NoPayment}] /\ d.log \in Seq(LogEntries)
  BY DEF Inserted, Dbs
<1> HIDE DEF row, entry
<1>3. /\ e.payments = [d.payments EXCEPT ![p] = row] /\ e.log = Append(d.log, entry)
      /\ e.webhooks = d.webhooks
      /\ e = [payments |-> e.payments, log |-> e.log, webhooks |-> e.webhooks]
  BY <1>2 DEF Dbs
<1>4. e.payments \in [Payments -> PaymentRow \cup {NoPayment}] /\ e.log \in Seq(LogEntries)
  BY <1>1, <1>2, <1>3
<1>5. e \in Dbs
  BY <1>3, <1>4 DEF Dbs
<1>6. Adds(d, e, p)
  BY <1>1, <1>2, <1>3 DEF Adds, entry
<1>7. QED BY <1>5, <1>6

LEMMA InsertStep ==
  ASSUME MInv, NEW w \in Workers, InsertPayment(w)
  PROVE  MInv'
<1>1. Shape /\ Local(w) /\ pc[w] = "insert"
  BY DEF MInv, InsertPayment
<1>2. PICK p \in Payments :
        \/ Abort(w, "ERROR")
        \/ /\ db.payments[p] = NoPayment /\ Reserve(w)
           /\ work' = [work EXCEPT ![w] =
                [db EXCEPT !.payments[p] = [status |-> "PENDING", cents |-> Cents(req[w].amount)],
                           !.log = Append(@, LogEntry(p, "PENDING", "PAYMENT_CREATED"))]]
           /\ pc' = [pc EXCEPT ![w] = "commit"]
           /\ UNCHANGED <<db, overdue, req, verdict, code>>
  BY DEF InsertPayment, Goto
<1>3. CASE Abort(w, "ERROR")
  BY <1>3, AbortStep
<1>4. CASE ~ Abort(w, "ERROR")
  <2>1. req[w] \in Asked /\ verdict[w] = "NONE"
    BY <1>1 DEF Local, Holds
  <2>2. Cents(req[w].amount) \in Nat
    <3>1. req[w].amount \in Nat /\ Subunits \in Nat \ {0}
      BY <2>1, MerchantAssumption DEF Asked
    <3>2. QED BY <3>1 DEF Cents
  <2> DEFINE cents == Cents(req[w].amount)
             e == [db EXCEPT !.payments[p] = [status |-> "PENDING", cents |-> cents],
                             !.log = Append(@, LogEntry(p, "PENDING", "PAYMENT_CREATED"))]
  <2>3. Inserted(db, e, p, cents)
    BY DEF Inserted
  <2>4. work' = [work EXCEPT ![w] = e] /\ db.payments[p] = NoPayment
    BY <1>2, <1>4
  <2> HIDE DEF e, cents
  <2>5. e \in Dbs /\ Adds(db, e, p)
    BY <1>1, <2>2, <2>3, <2>4, InsertedAdds DEF Shape, cents
  <2>6. Written(req[w], verdict[w], db, e)
    BY <2>1, <2>5 DEF Written
  <2>7. QED BY <1>2, <1>4, <2>4, <2>6, WriteStep
<1>5. QED BY <1>3, <1>4

LEMMA RecordStep ==
  ASSUME MInv, NEW w \in Workers, RecordEvent(w)
  PROVE  MInv'
<1> DEFINE e == [db EXCEPT !.webhooks = @ \cup {req[w].event}]
<1>1. Shape /\ Local(w) /\ pc[w] = "record" /\ work' = [work EXCEPT ![w] = e]
  BY DEF MInv, RecordEvent
<1>2. /\ req[w] \in Told /\ verdict[w] = "NONE"
      /\ db.payments[req[w].cb.payment].status \in Terminal
  BY <1>1 DEF Local, Holds
<1>3. req[w].event \in Events
  BY <1>2, CallbackTypes
<1>4. e \in Dbs /\ Notes(db, e, req[w].event)
  BY <1>1, <1>3 DEF Shape, Dbs, Notes
<1> HIDE DEF e
<1>5. Written(req[w], verdict[w], db, e)
  BY <1>2, <1>4 DEF Written
<1>6. QED BY <1>1, <1>5, WriteStep DEF RecordEvent, Goto

\* e is d after payment p was settled by an event.
Changed(d, e, p, status, event) ==
  e = [d EXCEPT !.payments[p].status = status,
                !.log = Append(@, LogEntry(p, status, "WEBHOOK_PROCESSED")),
                !.webhooks = @ \cup {event}]

LEMMA ChangedSettles ==
  ASSUME NEW d \in Dbs, NEW e, NEW p \in Payments, NEW status \in Terminal, NEW event \in Events,
         d.payments[p].status = "PENDING", Changed(d, e, p, status, event)
  PROVE  e \in Dbs /\ Settles(d, e, p, status, event)
<1> DEFINE row == [d.payments[p] EXCEPT !.status = status]
           entry == LogEntry(p, status, "WEBHOOK_PROCESSED")
           hooks == d.webhooks \cup {event}
<1>1. /\ d.payments \in [Payments -> PaymentRow \cup {NoPayment}] /\ d.log \in Seq(LogEntries)
      /\ hooks \in SUBSET Events
  BY DEF Dbs
<1>2. d.payments[p] \in PaymentRow
  BY <1>1 DEF NoPayment
<1>3. row \in PaymentRow /\ entry \in LogEntries
  BY <1>2 DEF PaymentRow, LogEntry, LogEntries
<1>4. e = [d EXCEPT !.payments = [d.payments EXCEPT ![p] = row], !.log = Append(d.log, entry),
                    !.webhooks = hooks]
  BY DEF Changed
<1> HIDE DEF row, entry, hooks
<1>5. /\ e.payments = [d.payments EXCEPT ![p] = row] /\ e.log = Append(d.log, entry)
      /\ e.webhooks = hooks
      /\ e = [payments |-> e.payments, log |-> e.log, webhooks |-> e.webhooks]
  BY <1>4 DEF Dbs
<1>6. e.payments \in [Payments -> PaymentRow \cup {NoPayment}] /\ e.log \in Seq(LogEntries)
  BY <1>1, <1>3, <1>5
<1>7. e \in Dbs
  BY <1>1, <1>5, <1>6 DEF Dbs
<1>8. Settles(d, e, p, status, event)
  BY <1>1, <1>5 DEF Settles, row, entry, hooks
<1>9. QED BY <1>7, <1>8

LEMMA SettleStep ==
  ASSUME MInv, NEW w \in Workers, SettlePayment(w)
  PROVE  MInv'
<1> DEFINE p == req[w].cb.payment
           e == Settled(w)
<1>1. Shape /\ Local(w) /\ pc[w] = "settle" /\ work' = [work EXCEPT ![w] = e]
  BY DEF MInv, SettlePayment
<1>2. /\ req[w] \in Told /\ verdict[w] \in Terminal /\ verdict[w] # "NONE"
      /\ db.payments[p].status = "PENDING"
  BY <1>1 DEF Local, Holds, Terminal
<1>3. p \in Payments /\ req[w].event \in Events
  BY <1>2, CallbackTypes
<1>4. Changed(db, e, p, verdict[w], req[w].event)
  BY DEF Changed, Settled
<1> HIDE DEF e, p
<1>5. e \in Dbs /\ Settles(db, e, p, verdict[w], req[w].event)
  BY <1>1, <1>2, <1>3, <1>4, ChangedSettles DEF Shape
<1>6. Written(req[w], verdict[w], db, e)
  BY <1>2, <1>5 DEF Written, p
<1>7. QED BY <1>1, <1>6, WriteStep DEF SettlePayment, Goto

----------------------------------------------------------------------------
(* The story that a commit adds to                                          *)

LoggedOf(d, p) == {i \in 1 .. Len(d.log) : d.log[i].payment = p}

LEMMA EntryDiffers ==
  ASSUME NEW p, NEW s, NEW t, NEW q, NEW u, NEW v
  PROVE  /\ LogEntry(p, s, t) = LogEntry(q, u, v) <=> p = q /\ s = u /\ t = v
         /\ LogEntry(p, s, t).payment = p
BY DEF LogEntry

\* The log of e is the log of d, of length n, and one more entry.
Grows(d, e, p, status, type, n) ==
  /\ \A o, s, t : At(e, o, s, t) = IF o = p /\ s = status /\ t = type
                                   THEN At(d, o, s, t) \cup {n + 1} ELSE At(d, o, s, t)
  /\ \A o : LoggedOf(e, o) = IF o = p THEN LoggedOf(d, o) \cup {n + 1} ELSE LoggedOf(d, o)
  /\ \A o, s, t : At(d, o, s, t) \subseteq LoggedOf(d, o)
  /\ \A o, s, t, u, v : s # u \/ t # v => At(d, o, s, t) \cap At(d, o, u, v) = {}
  /\ \A o : LoggedOf(d, o) \subseteq 1 .. n

LEMMA LogGrows ==
  ASSUME NEW d \in Dbs, NEW e, NEW p, NEW status, NEW type,
         e.log = Append(d.log, LogEntry(p, status, type))
  PROVE  \E n \in Nat : Grows(d, e, p, status, type, n)
<1> DEFINE n == Len(d.log)
           entry == LogEntry(p, status, type)
<1>1. /\ n \in Nat /\ Len(e.log) = n + 1 /\ e.log[n + 1] = entry
      /\ \A i \in 1 .. n : e.log[i] = d.log[i]
  BY DEF Dbs
<1>2. 1 .. Len(e.log) = 1 .. n \cup {n + 1} /\ n + 1 \notin 1 .. n
  BY <1>1
<1>3. ASSUME NEW o, NEW s, NEW t
      PROVE  At(e, o, s, t) = IF o = p /\ s = status /\ t = type
                              THEN At(d, o, s, t) \cup {n + 1} ELSE At(d, o, s, t)
  <2> DEFINE x == LogEntry(o, s, t)
  <2>1. x = entry <=> o = p /\ s = status /\ t = type
    BY EntryDiffers
  <2>2. At(e, o, s, t) = {i \in 1 .. Len(e.log) : e.log[i] = x}
        /\ At(d, o, s, t) = {i \in 1 .. n : d.log[i] = x}
    BY DEF At
  <2> HIDE DEF x, entry, n
  <2>3. QED BY <1>1, <1>2, <2>1, <2>2
<1>4. ASSUME NEW o
      PROVE  LoggedOf(e, o) = IF o = p THEN LoggedOf(d, o) \cup {n + 1} ELSE LoggedOf(d, o)
  <2>1. entry.payment = p
    BY EntryDiffers
  <2>2. LoggedOf(d, o) = {i \in 1 .. n : d.log[i].payment = o}
    BY DEF LoggedOf
  <2> HIDE DEF entry, n
  <2>3. QED BY <1>1, <1>2, <2>1, <2>2 DEF LoggedOf
<1>5. ASSUME NEW o, NEW s, NEW t PROVE At(d, o, s, t) \subseteq LoggedOf(d, o)
  BY EntryDiffers DEF At, LoggedOf
<1>6. ASSUME NEW o, NEW s, NEW t, NEW u, NEW v, s # u \/ t # v
      PROVE  At(d, o, s, t) \cap At(d, o, u, v) = {}
  <2>1. LogEntry(o, s, t) # LogEntry(o, u, v)
    BY <1>6, EntryDiffers
  <2>2. QED BY <2>1 DEF At
<1>7. \A o : LoggedOf(d, o) \subseteq 1 .. n
  BY DEF LoggedOf
<1>8. n \in Nat
  BY <1>1
<1> HIDE DEF n
<1>9. Grows(d, e, p, status, type, n)
  BY <1>3, <1>4, <1>5, <1>6, <1>7 DEF Grows
<1>10. QED BY <1>8, <1>9

\* Story, for one payment.
StoryOf(d, p) ==
  LET row     == d.payments[p]
      created == At(d, p, "PENDING", "PAYMENT_CREATED")
      settled == At(d, p, row.status, "WEBHOOK_PROCESSED")
  IN  /\ LoggedOf(d, p) = created \cup settled
      /\ IF row = NoPayment THEN created = {} ELSE Single(created)
      /\ IF row.status \in Terminal THEN Single(settled) ELSE settled = {}
      /\ \A i \in created, j \in settled : i < j

LEMMA StoryParts == ASSUME NEW d PROVE Story(d) <=> \A p \in Payments : StoryOf(d, p)
BY DEF Story, StoryOf, LoggedOf

LEMMA AddsStory ==
  ASSUME NEW d \in Dbs, NEW e, NEW p \in Payments, Story(d), Adds(d, e, p)
  PROVE  Story(e)
<1>1. PICK n \in Nat : Grows(d, e, p, "PENDING", "PAYMENT_CREATED", n)
  BY LogGrows DEF Adds
<1>2. ASSUME NEW o \in Payments PROVE StoryOf(e, o)
  <2>1. StoryOf(d, o)
    BY StoryParts
  <2>2. CASE o # p
    <3>1. e.payments[o] = d.payments[o] /\ LoggedOf(e, o) = LoggedOf(d, o)
          /\ \A s, t : At(e, o, s, t) = At(d, o, s, t)
      BY <1>1, <2>2 DEF Adds, Grows
    <3>2. QED BY <2>1, <3>1 DEF StoryOf
  <2>3. CASE o = p
    <3>1. d.payments[p] = NoPayment /\ NoPayment.status = "ABSENT"
          /\ e.payments[p].status = "PENDING" /\ e.payments[p] # NoPayment
      BY DEF Adds, NoPayment
    <3>2. LoggedOf(d, p) = {}
      BY <2>1, <2>3, <3>1 DEF StoryOf, Terminal
    <3>3. /\ At(e, p, "PENDING", "PAYMENT_CREATED") = {n + 1}
          /\ At(e, p, "PENDING", "WEBHOOK_PROCESSED") = {} /\ LoggedOf(e, p) = {n + 1}
      BY <1>1, <3>2 DEF Grows
    <3>4. Single({n + 1}) /\ "PENDING" \notin Terminal
      BY DEF Single, Terminal
    <3>5. QED BY <2>3, <3>1, <3>3, <3>4 DEF StoryOf
  <2>4. QED BY <2>2, <2>3
<1>3. QED BY <1>2, StoryParts

LEMMA SettlesStory ==
  ASSUME NEW d \in Dbs, NEW e, NEW p \in Payments, NEW status, NEW event,
         Story(d), Settles(d, e, p, status, event)
  PROVE  Story(e)
<1>1. PICK n \in Nat : Grows(d, e, p, status, "WEBHOOK_PROCESSED", n)
  BY LogGrows DEF Settles
<1>2. ASSUME NEW o \in Payments PROVE StoryOf(e, o)
  <2>1. StoryOf(d, o)
    BY StoryParts
  <2>2. CASE o # p
    <3>1. e.payments[o] = d.payments[o] /\ LoggedOf(e, o) = LoggedOf(d, o)
          /\ \A s, t : At(e, o, s, t) = At(d, o, s, t)
      BY <1>1, <2>2 DEF Settles, Grows
    <3>2. QED BY <2>1, <3>1 DEF StoryOf
  <2>3. CASE o = p
    <3> DEFINE C == At(d, p, "PENDING", "PAYMENT_CREATED")
               W == At(d, p, status, "WEBHOOK_PROCESSED")
    <3>1. d.payments[p].status = "PENDING" /\ status \in Terminal /\ d.payments[p] # NoPayment
      BY DEF Settles, NoPayment
    <3>2. e.payments[p].status = status /\ e.payments[p] # NoPayment
      <4>1. d.payments[p] \in PaymentRow
        BY <3>1 DEF Dbs
      <4>2. e.payments[p].status = status
        BY <4>1 DEF Settles, PaymentRow
      <4>3. QED BY <3>1, <4>2 DEF NoPayment, Terminal
    <3>3. LoggedOf(d, p) = C /\ Single(C)
      BY <2>1, <2>3, <3>1 DEF StoryOf, Terminal
    <3>4. W \subseteq LoggedOf(d, p) /\ W \cap C = {} /\ C \subseteq 1 .. n
      BY <1>1, <3>3 DEF Grows
    <3>5. W = {}
      BY <3>3, <3>4
    <3>6. /\ At(e, p, "PENDING", "PAYMENT_CREATED") = C
          /\ At(e, p, status, "WEBHOOK_PROCESSED") = {n + 1} /\ LoggedOf(e, p) = C \cup {n + 1}
      <4>1. At(e, p, "PENDING", "PAYMENT_CREATED") = C
        BY <1>1 DEF Grows
      <4>2. At(e, p, status, "WEBHOOK_PROCESSED") = W \cup {n + 1}
        BY <1>1 DEF Grows
      <4>3. LoggedOf(e, p) = LoggedOf(d, p) \cup {n + 1}
        BY <1>1 DEF Grows
      <4>4. QED BY <3>3, <3>5, <4>1, <4>2, <4>3
    <3>7. Single({n + 1}) /\ \A i \in C : i < n + 1
      BY <3>4 DEF Single
    <3> HIDE DEF C, W
    <3>8. QED BY <2>3, <3>1, <3>2, <3>3, <3>6, <3>7 DEF StoryOf
  <2>4. QED BY <2>2, <2>3
<1>3. QED BY <1>2, StoryParts

LEMMA NotesStory ==
  ASSUME NEW d, NEW e, NEW event, Story(d), Notes(d, e, event)
  PROVE  Story(e)
<1>1. e.payments = d.payments /\ e.log = d.log
  BY DEF Notes
<1>2. ASSUME NEW p \in Payments PROVE StoryOf(e, p)
  <2>1. StoryOf(d, p)
    BY StoryParts
  <2>2. LoggedOf(e, p) = LoggedOf(d, p) /\ \A s, t : At(e, p, s, t) = At(d, p, s, t)
    BY <1>1 DEF LoggedOf, At
  <2>3. QED BY <1>1, <2>1, <2>2 DEF StoryOf
<1>3. QED BY <1>2, StoryParts

\* What was settled stays, and events are remembered.
LEMMA WrittenKeeps ==
  ASSUME NEW q, NEW v, NEW d \in Dbs, NEW e, Written(q, v, d, e), Story(d)
  PROVE  /\ e \in Dbs /\ Keeps(d, e) /\ Story(e)
         /\ q \in Told /\ v # "NONE" => Durable(q, e)
         /\ \A p \in Payments : d.payments[p] # NoPayment =>
              /\ e.payments[p] # NoPayment /\ e.payments[p].cents = d.payments[p].cents
              /\ d.payments[p].status # "PENDING" => e.payments[p] = d.payments[p]
<1>1. CASE \E p \in Payments : Adds(d, e, p) /\ q \in Asked
  <2>1. PICK p \in Payments : Adds(d, e, p) /\ q \in Asked
    BY <1>1
  <2>2. Story(e)
    BY <2>1, AddsStory
  <2>3. Keeps(d, e) /\ q \notin Told
    BY <2>1 DEF Adds, Keeps, NoPayment, Terminal, Asked, Told
  <2>4. QED BY <2>1, <2>2, <2>3 DEF Written, Adds
<1>2. CASE Notes(d, e, q.event) /\ v = "NONE"
  BY <1>2, NotesStory DEF Written, Keeps, Notes
<1>3. CASE q \in Told /\ v # "NONE" /\ Settles(d, e, q.cb.payment, v, q.event)
  <2> DEFINE p == q.cb.payment
  <2>1. p \in Payments /\ Settles(d, e, p, v, q.event) /\ q \in Told /\ v # "NONE"
    BY <1>3, CallbackTypes
  <2> HIDE DEF p
  <2>2. Story(e)
    BY <2>1, SettlesStory
  <2>3. /\ d.payments[p].status = "PENDING" /\ d.payments[p] \in PaymentRow
        /\ e.payments[p].status = v /\ v \in Terminal
        /\ e.payments[p].cents = d.payments[p].cents
    <3>1. d.payments[p].status = "PENDING" /\ v \in Terminal
      BY <2>1 DEF Settles
    <3>2. d.payments[p] \in PaymentRow
      BY <2>1, <3>1 DEF Dbs, NoPayment
    <3>3. QED BY <2>1, <3>1, <3>2 DEF Settles, PaymentRow
  <2>4. e.payments[p] # NoPayment
    BY <2>3 DEF Terminal, NoPayment
  <2>5. \A o \in Payments : o # p => e.payments[o] = d.payments[o]
    BY <2>1 DEF Settles
  <2>6. Keeps(d, e)
    BY <2>1, <2>3, <2>5 DEF Keeps, Settles, Terminal
  <2>7. Durable(q, e)
    BY <2>1, <2>3 DEF Durable, Settles, p
  <2>8. QED BY <2>2, <2>3, <2>4, <2>5, <2>6, <2>7 DEF Written
<1>4. QED BY <1>1, <1>2, <1>3 DEF Written

LEMMA CommitStep ==
  ASSUME MInv, NEW w \in Workers, Commit(w)
  PROVE  MInv'
<1>1. Shape /\ Story(db) /\ Local(w)
  BY DEF MInv
<1>2. /\ pc[w] = "commit" /\ readers \subseteq {w} /\ db' = work[w] /\ req' = req
      /\ overdue' = overdue /\ readers' = readers \ {w}
      /\ reserved' = IF reserved = w THEN NoWorker ELSE reserved
      /\ work' = [work EXCEPT ![w] = NoWork] /\ pc' = [pc EXCEPT ![w] = "respond"]
      /\ code' = [code EXCEPT ![w] = Outcome(w)]
      /\ verdict' = [verdict EXCEPT ![w] = "NONE"]
  BY DEF Commit, Committed, Unlock, Finish, Goto
<1>3. Written(req[w], verdict[w], db, db')
  BY <1>1, <1>2 DEF Local, Holds
<1>4. /\ db' \in Dbs /\ Keeps(db, db') /\ Story(db')
      /\ req[w] \in Told /\ verdict[w] # "NONE" => Durable(req[w], db')
  <2> DEFINE e == db'
  <2>1. Written(req[w], verdict[w], db, e) /\ db \in Dbs
    BY <1>1, <1>3 DEF Shape
  <2> HIDE DEF e
  <2>2. /\ e \in Dbs /\ Keeps(db, e) /\ Story(e)
        /\ req[w] \in Told /\ verdict[w] # "NONE" => Durable(req[w], e)
    BY <1>1, <2>1, WrittenKeeps
  <2>3. QED BY <2>2 DEF e
<1>5. Shape'
  <2>1. reserved' \in Workers \cup {NoWorker}
    BY <1>1, <1>2 DEF Shape
  <2>2. QED BY <1>1, <1>2, <1>4, <2>1, ShapeNext DEF Shape
<1>6. Others(w)
  BY <1>1, <1>2, MerchantAssumption DEF Others, Shape
<1>7. /\ pc'[w] = "respond" /\ verdict'[w] = "NONE" /\ work'[w] = NoWork
      /\ code'[w] = Outcome(w) /\ reserved' # w /\ req'[w] = req[w]
  BY <1>1, <1>2, MerchantAssumption DEF Shape
<1>8. code'[w] = "ACCEPTED" => Durable(req[w], db')
  <2>1. Outcome(w) = "ACCEPTED" => req[w] \in Told /\ verdict[w] # "NONE"
    BY <1>3 DEF Outcome, Written, Asked, Told
  <2>2. QED BY <1>4, <1>7, <2>1
<1>9. Holds(w, pc'[w], req'[w], verdict'[w], work'[w], code'[w], db', readers', reserved')
  BY <1>7, <1>8 DEF Holds, Labels
<1>10. QED BY <1>1, <1>2, <1>4, <1>5, <1>6, <1>9, Assemble

----------------------------------------------------------------------------
(* The theorems *)

LEMMA InitMInv == Init => MInv
<1> SUFFICES ASSUME Init PROVE MInv
  OBVIOUS
<1>1. db \in Dbs /\ db.log = <<>> /\ \A p \in Payments : db.payments[p] = NoPayment
  BY DEF Init, EmptyDb, Dbs
<1>2. Shape
  BY <1>1 DEF Init, Shape
<1>3. Story(db)
  <2>1. \A p, s, t : At(db, p, s, t) = {} /\ LoggedOf(db, p) = {}
    BY <1>1 DEF At, LoggedOf
  <2>2. \A p \in Payments : StoryOf(db, p)
    BY <1>1, <2>1 DEF StoryOf, NoPayment, Terminal
  <2>3. QED BY <2>2, StoryParts
<1>4. ASSUME NEW w \in Workers PROVE Local(w)
  <2>1. pc[w] = "idle" /\ verdict[w] = "NONE" /\ work[w] = NoWork /\ reserved # w
    BY MerchantAssumption DEF Init
  <2>2. QED BY <2>1 DEF Local, Holds, Labels
<1>5. QED BY <1>2, <1>3, <1>4 DEF MInv

LEMMA NextMInv == MInv /\ [Next]_vars => MInv'
<1> SUFFICES ASSUME MInv, [Next]_vars PROVE MInv'
  OBVIOUS
<1>1. CASE UNCHANGED vars
  <2>1. ASSUME NEW w \in Workers PROVE Local(w)'
    BY <1>1, LocalNext DEF MInv, Local, vars
  <2>2. Shape'
    BY <1>1, ShapeNext DEF MInv, Shape, vars
  <2>3. Story(db)'
    BY <1>1, StoryNext DEF MInv, vars
  <2>4. QED BY <2>1, <2>2, <2>3 DEF MInv
<1>2. ASSUME NEW w \in Workers,
             AskPayment(w) \/ Deliver(w) \/ Serve(w) \/ Fault(w) \/ Crash(w)
      PROVE  MInv'
  <2>1. CASE AskPayment(w) \/ Deliver(w)
    BY <2>1, AskStep, DeliverStep
  <2>2. CASE InsertPayment(w) \/ RecordEvent(w) \/ SettlePayment(w)
    BY <2>2, InsertStep, RecordStep, SettleStep
  <2>3. CASE CheckEvent(w) \/ Lookup(w)
    BY <2>3, CheckEventStep, LookupStep
  <2>4. CASE Commit(w)
    BY <2>4, CommitStep
  <2>5. CASE Busy(w) \/ Fault(w)
    BY <2>5, FailStep
  <2>6. CASE Respond(w) \/ Crash(w)
    BY <2>6, EndStep
  <2>7. QED BY <1>2, <2>1, <2>2, <2>3, <2>4, <2>5, <2>6 DEF Serve
<1>3. QED BY <1>1, <1>2, ExpireStep DEF Next

LEMMA MAlways == Spec => []MInv
BY InitMInv, NextMInv, PTL DEF Spec

\* Every status that the handlers store is one of the four, and everything
\* else they keep is what they mean it to be.
THEOREM MerchantTypes == Spec => []TypeOK
<1>1. ASSUME MInv PROVE TypeOK
  <2>1. \A d : d \in Dbs => DbType(d)
    BY DEF Dbs, DbType, LogEntries
  <2>2. ASSUME NEW w \in Workers
        PROVE  (work[w] = NoWork \/ DbType(work[w])) /\ verdict[w] \in Terminal \cup {"NONE"}
    BY <1>1, <2>1 DEF MInv, Local, Holds, Written
  <2>3. Shape
    BY <1>1 DEF MInv
  <2>4. verdict \in [Workers -> Terminal \cup {"NONE"}]
    <3>1. \A w \in Workers : verdict[w] \in Terminal \cup {"NONE"}
      BY <2>2
    <3>2. QED BY <2>3, <3>1 DEF Shape
  <2>5. QED BY <2>1, <2>2, <2>3, <2>4 DEF TypeOK, Shape
<1>2. MInv => TypeOK
  BY <1>1
<1>3. QED BY <1>2, MAlways, PTL

\* SQLite's RESERVED lock keeps a request's writes on top of what is
\* committed, through every rollback, crash and unfinished transaction.
THEOREM OneWriterAtATime == Spec => []OneWriter
<1>1. ASSUME MInv, NEW w \in Workers
      PROVE  /\ pc[w] = "commit" <=> reserved = w
             /\ reserved = w => w \in readers /\ db.webhooks \subseteq work[w].webhooks
                                /\ Len(db.log) =< Len(work[w].log)
             /\ pc[w] \in {"lookup", "record", "settle"} => w \in readers
  <2>1. Local(w) /\ db \in Dbs
    BY <1>1 DEF MInv, Shape
  <2>2. ASSUME Written(req[w], verdict[w], db, work[w])
        PROVE  db.webhooks \subseteq work[w].webhooks /\ Len(db.log) =< Len(work[w].log)
    <3>1. \/ \E p, s, t : work[w].log = Append(db.log, LogEntry(p, s, t))
          \/ work[w].log = db.log
      BY <2>2 DEF Written, Adds, Settles, Notes
    <3>2. db.log \in Seq(LogEntries)
      BY <2>1 DEF Dbs
    <3>3. QED BY <2>2, <3>1, <3>2 DEF Written, Adds, Settles, Notes
  <2>3. QED BY <2>1, <2>2 DEF Local, Holds
<1>2. MInv => OneWriter
  BY <1>1 DEF OneWriter
<1>3. QED BY <1>2, MAlways, PTL

\* payment_events tells the story of each payment, whatever webhooks were
\* sent, repeated, refused or killed half-way.
THEOREM LogTellsStory == Spec => []EventsTellStory
<1>1. ASSUME NEW S, Single(S) PROVE Cardinality(S) = 1
  BY <1>1, FS_Singleton DEF Single
<1>2. Cardinality({}) = 0
  BY FS_EmptySet
<1>3. ASSUME MInv, NEW p \in Payments
      PROVE  LET row     == db.payments[p]
                 created == At(db, p, "PENDING", "PAYMENT_CREATED")
                 settled == At(db, p, row.status, "WEBHOOK_PROCESSED")
             IN  /\ LoggedOf(db, p) = created \cup settled
                 /\ Cardinality(created) = (IF row = NoPayment THEN 0 ELSE 1)
                 /\ Cardinality(settled) = (IF row.status \in Terminal THEN 1 ELSE 0)
                 /\ \A i \in created, j \in settled : i < j
  BY <1>1, <1>2, <1>3, StoryParts DEF MInv, StoryOf
<1>4. MInv => EventsTellStory
  BY <1>3 DEF EventsTellStory, LoggedAt, LoggedOf, At
<1>5. QED BY <1>4, MAlways, PTL

\* An accepted webhook's payment is final and its event is known, also after
\* the process that accepted it is gone.
THEOREM AcceptedStays == Spec => []AcceptedIsDurable
<1>1. MInv => AcceptedIsDurable
  BY DEF MInv, Local, Holds, Durable, AcceptedIsDurable
<1>2. QED BY <1>1, MAlways, PTL

\* No webhook, in whatever order it comes, changes a settled payment, and no
\* step changes an amount.
THEOREM SettledOnce == Spec => FinalIsFinal
<1>1. ASSUME MInv, [Next]_vars
      PROVE  db' = db \/ \E w \in Workers : Commit(w)
  <2>1. CASE UNCHANGED vars
    BY <2>1 DEF vars
  <2>2. ASSUME NEW w \in Workers, Abort(w, "ERROR") \/ Abort(w, "NOT_FOUND") \/ Abort(w, "MISMATCH")
        PROVE  db' = db
    BY <2>2 DEF Abort
  <2>3. ASSUME NEW w \in Workers, AskPayment(w) \/ Deliver(w) \/ Fault(w) \/ Crash(w)
        PROVE  db' = db
    BY <2>2, <2>3 DEF AskPayment, Deliver, Fault, Crash
  <2>4. ASSUME NEW w \in Workers, Serve(w), ~ Commit(w) PROVE db' = db
    BY <2>2, <2>4 DEF Serve, InsertPayment, CheckEvent, Lookup, RecordEvent, SettlePayment, Busy,
                      Respond
  <2>5. ASSUME NEW p \in Payments, Expire(p) PROVE db' = db
    BY <2>5 DEF Expire
  <2>6. QED BY <1>1, <2>1, <2>3, <2>4, <2>5 DEF Next
<1>2. ASSUME MInv, [Next]_vars
      PROVE  \A p \in Payments :
               LET old == db.payments[p] new == db'.payments[p]
               IN  old # NoPayment =>
                     /\ new # NoPayment /\ new.cents = old.cents
                     /\ old.status # "PENDING" => new = old
  <2>1. CASE db' = db
    BY <2>1
  <2>2. ASSUME NEW w \in Workers, Commit(w)
        PROVE  \A p \in Payments : db.payments[p] # NoPayment =>
                 /\ db'.payments[p] # NoPayment
                 /\ db'.payments[p].cents = db.payments[p].cents
                 /\ db.payments[p].status # "PENDING" => db'.payments[p] = db.payments[p]
    <3> DEFINE e == work[w]
    <3>1. Written(req[w], verdict[w], db, e) /\ db \in Dbs /\ Story(db) /\ db' = e
      BY <1>2, <2>2 DEF MInv, Shape, Local, Holds, Commit, Committed
    <3> DEFINE q == req[w]
               v == verdict[w]
               d == db
    <3>2. Written(q, v, d, e) /\ d \in Dbs /\ Story(d)
      BY <3>1
    <3> HIDE DEF e, q, v, d
    <3>3. \A p \in Payments : d.payments[p] # NoPayment =>
            /\ e.payments[p] # NoPayment /\ e.payments[p].cents = d.payments[p].cents
            /\ d.payments[p].status # "PENDING" => e.payments[p] = d.payments[p]
      BY <3>2, WrittenKeeps
    <3>4. QED BY <3>1, <3>3 DEF d
  <2>3. QED BY <1>1, <1>2, <2>1, <2>2
<1>3. QED BY <1>2, MAlways, PTL DEF Spec, FinalIsFinal

----------------------------------------------------------------------------
============================================================================
