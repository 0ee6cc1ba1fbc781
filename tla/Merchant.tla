------------------------------ MODULE Merchant ------------------------------
(***************************************************************************)
(* The merchant service (merchant/main.py): payment requests that wait for *)
(* a webhook, and the webhook handler, in several processes over one       *)
(* SQLite file in rollback-journal mode.  A transaction there is deferred: *)
(* its first SELECT takes a SHARED lock, its first write RESERVED, and     *)
(* COMMIT needs every other SHARED lock to be gone.                        *)
(*                                                                         *)
(* X-Event-ID is not covered by the webhook's signature, so any event id   *)
(* may come with any signed body, as often and in any order.               *)
(***************************************************************************)
EXTENDS Integers, Sequences, FiniteSets

CONSTANTS
  Workers,    \* server processes
  NoWorker,   \* the holder of a free RESERVED lock
  Payments,   \* the ids uuid.uuid4 may draw
  Events,     \* values of X-Event-ID
  Amounts,    \* amounts asked for in payments/create, in wire units
  Subunits,   \* wire units per cent
  Callbacks   \* signed webhook bodies: [payment, status, amount]

ASSUME MerchantAssumption ==
  /\ NoWorker \notin Workers
  /\ Amounts \subseteq Nat
  /\ Subunits \in Nat \ {0}
  /\ Callbacks \subseteq [payment: Payments, amount: Nat,
                          status: {"SUCCESS", "FAILED", "PENDING"}]

VARIABLES
  db,       \* committed tables: payments, payment_events, processed_webhooks
  overdue,  \* payments whose expires_at has passed
  readers,  \* processes with a SHARED lock
  reserved, \* the process with the RESERVED lock
  work,     \* work[w]: what w has written in its open transaction
  pc, req,  \* where process w is, and the request it serves
  verdict,  \* verdict[w]: the status that w decided to store
  code      \* code[w]: the outcome it reports

vars == <<db, overdue, readers, reserved, work, pc, req, verdict, code>>
locks == <<readers, reserved>>

----------------------------------------------------------------------------
NoPayment == [status |-> "ABSENT"]
Terminal == {"SUCCESS", "FAILED", "EXPIRED"}
PaymentRow == [status: Terminal \cup {"PENDING"}, cents: Nat]

\* int(amount * 100) truncates.
Cents(amount) == amount \div Subunits

EmptyDb == [payments |-> [p \in Payments |-> NoPayment],
            log      |-> <<>>,    \* payment_events
            webhooks |-> {}]      \* processed_webhooks

NoWork == [payments |-> <<>>, log |-> <<>>, webhooks |-> {}]
NoReq == [op |-> "NONE"]

LogEntry(p, status, type) == [payment |-> p, status |-> status, type |-> type]

Init ==
  /\ db = EmptyDb
  /\ overdue = {}
  /\ readers = {}
  /\ reserved = NoWorker
  /\ work = [w \in Workers |-> NoWork]
  /\ pc = [w \in Workers |-> "idle"]
  /\ req = [w \in Workers |-> NoReq]
  /\ verdict = [w \in Workers |-> "NONE"]
  /\ code = [w \in Workers |-> "NONE"]

Goto(w, label) == pc' = [pc EXCEPT ![w] = label]

Finish(w, outcome) ==
  /\ Goto(w, "respond")
  /\ code' = [code EXCEPT ![w] = outcome]
  /\ verdict' = [verdict EXCEPT ![w] = "NONE"]

\* The transaction of w is over and its locks are free.
Unlock(w) ==
  /\ readers' = readers \ {w}
  /\ reserved' = IF reserved = w THEN NoWorker ELSE reserved
  /\ work' = [work EXCEPT ![w] = NoWork]

\* db.rollback(), then the error.
Abort(w, outcome) ==
  /\ Unlock(w)
  /\ Finish(w, outcome)
  /\ UNCHANGED <<db, overdue, req>>

\* Variant: a write that ignores who else is writing.
TakeReserved(w) == reserved' = w /\ readers' = readers \cup {w}

\* The first write of a transaction.
Reserve(w) ==
  /\ reserved = NoWorker
  /\ reserved' = w
  /\ readers' = readers \cup {w}

----------------------------------------------------------------------------
(* POST /payments/create *)

\* Admin key and rate limit passed; "invalid amount" has been ruled out.
AskPayment(w) ==
  /\ pc[w] = "idle"
  /\ \E a \in Amounts : a > 0 /\ req' = [req EXCEPT ![w] = [op |-> "CREATE", amount |-> a]]
  /\ Goto(w, "insert")
  /\ UNCHANGED <<db, overdue, locks, work, verdict, code>>

InsertPayment(w) ==
  /\ pc[w] = "insert"
  /\ \E p \in Payments :
       IF db.payments[p] # NoPayment THEN Abort(w, "ERROR")
       ELSE /\ Reserve(w)
            /\ work' = [work EXCEPT ![w] =
                 [db EXCEPT !.payments[p] = [status |-> "PENDING", cents |-> Cents(req[w].amount)],
                            !.log = Append(@, LogEntry(p, "PENDING", "PAYMENT_CREATED"))]]
            /\ Goto(w, "commit")
            /\ UNCHANGED <<db, overdue, req, verdict, code>>

----------------------------------------------------------------------------
(* POST /payments/callback *)

\* A webhook whose signature and timestamp are good.
Deliver(w) ==
  /\ pc[w] = "idle"
  /\ \E e \in Events, cb \in Callbacks :
       req' = [req EXCEPT ![w] = [op |-> "CALLBACK", event |-> e, cb |-> cb]]
  /\ Goto(w, "dedup")
  /\ UNCHANGED <<db, overdue, locks, work, verdict, code>>

\* A known event is ignored; the transaction stays open until the close.
CheckEvent(w) ==
  /\ pc[w] = "dedup"
  /\ readers' = readers \cup {w}
  /\ IF req[w].event \in db.webhooks
     THEN Finish(w, "IGNORED")
     ELSE Goto(w, "lookup") /\ UNCHANGED <<verdict, code>>
  /\ UNCHANGED <<db, overdue, reserved, work, req>>

\* Variant: the status is stored as the webhook states it.
AnyStatus(p, cb) == cb.status

\* The status to store: EXPIRED if late, FAILED for anything unexpected.
NewStatus(p, cb) ==
  IF p \in overdue THEN "EXPIRED"
  ELSE IF cb.status \in {"SUCCESS", "FAILED"} THEN cb.status ELSE "FAILED"

\* Variant: settled payments are not told apart.
Exists(row) == row # NoPayment

Pending(row) == row.status = "PENDING"

Lookup(w) ==
  LET cb  == req[w].cb
      row == db.payments[cb.payment]
  IN  /\ pc[w] = "lookup"
      /\ IF row = NoPayment THEN Abort(w, "NOT_FOUND")
         ELSE IF Pending(row) /\ Cents(cb.amount) # row.cents THEN Abort(w, "MISMATCH")
         ELSE /\ IF Pending(row)
                 THEN /\ verdict' = [verdict EXCEPT ![w] = NewStatus(cb.payment, cb)]
                      /\ Goto(w, "settle")
                 ELSE Goto(w, "record") /\ UNCHANGED verdict
              /\ UNCHANGED <<db, overdue, locks, work, req, code>>

\* The payment was settled before: only the event is recorded.
RecordEvent(w) ==
  /\ pc[w] = "record"
  /\ Reserve(w)
  /\ work' = [work EXCEPT ![w] = [db EXCEPT !.webhooks = @ \cup {req[w].event}]]
  /\ Goto(w, "commit")
  /\ UNCHANGED <<db, overdue, req, verdict, code>>

\* The three writes of a webhook that counts.
Settled(w) ==
  LET p == req[w].cb.payment
  IN  [db EXCEPT !.payments[p].status = verdict[w],
                 !.log = Append(@, LogEntry(p, verdict[w], "WEBHOOK_PROCESSED")),
                 !.webhooks = @ \cup {req[w].event}]

SettlePayment(w) ==
  /\ pc[w] = "settle"
  /\ Reserve(w)
  /\ work' = [work EXCEPT ![w] = Settled(w)]
  /\ Goto(w, "commit")
  /\ UNCHANGED <<db, overdue, req, verdict, code>>

----------------------------------------------------------------------------
(* The end of a transaction, and failures *)

\* Variant: "accepted" is sent without db.commit().
Uncommitted(w) == IF verdict[w] = "NONE" THEN work[w] ELSE db

\* What COMMIT makes of the database.
Committed(w) == work[w]

Outcome(w) ==
  IF req[w].op = "CREATE" THEN "CREATED"
  ELSE IF verdict[w] = "NONE" THEN "IGNORED" ELSE "ACCEPTED"

Commit(w) ==
  /\ pc[w] = "commit"
  /\ readers \subseteq {w}
  /\ db' = Committed(w)
  /\ Unlock(w)
  /\ Finish(w, Outcome(w))
  /\ UNCHANGED <<overdue, req>>

\* Variant: wait for the other process as long as it takes.
NeverBusy(w) == FALSE

\* SQLite's busy timeout, or its refusal to deadlock: "database is locked".
Busy(w) ==
  /\ \/ pc[w] \in {"insert", "record", "settle"} /\ reserved # NoWorker
     \/ pc[w] = "commit" /\ ~ (readers \subseteq {w})
  /\ Abort(w, "ERROR")

InTransaction(w) == pc[w] \in {"insert", "dedup", "lookup", "record", "settle", "commit"}

\* A statement raises.
Fault(w) == InTransaction(w) /\ Abort(w, "ERROR")

\* The answer is sent and get_db closes the connection, dropping its locks.
Respond(w) ==
  /\ pc[w] = "respond"
  /\ Unlock(w)
  /\ Goto(w, "idle")
  /\ req' = [req EXCEPT ![w] = NoReq]
  /\ code' = [code EXCEPT ![w] = "NONE"]
  /\ UNCHANGED <<db, overdue, verdict>>

\* The process is killed; its successor finds only what was committed.
Crash(w) ==
  /\ pc[w] # "idle"
  /\ Unlock(w)
  /\ Goto(w, "idle")
  /\ req' = [req EXCEPT ![w] = NoReq]
  /\ verdict' = [verdict EXCEPT ![w] = "NONE"]
  /\ code' = [code EXCEPT ![w] = "NONE"]
  /\ UNCHANGED <<db, overdue>>

\* Ten minutes pass for a payment.
Expire(p) ==
  /\ db.payments[p] # NoPayment
  /\ p \notin overdue
  /\ overdue' = overdue \cup {p}
  /\ UNCHANGED <<db, locks, work, pc, req, verdict, code>>

----------------------------------------------------------------------------
Serve(w) ==
  \/ InsertPayment(w)
  \/ CheckEvent(w) \/ Lookup(w) \/ RecordEvent(w) \/ SettlePayment(w)
  \/ Commit(w) \/ Busy(w) \/ Respond(w)

Next ==
  \/ \E w \in Workers : AskPayment(w) \/ Deliver(w) \/ Serve(w) \/ Fault(w) \/ Crash(w)
  \/ \E p \in Payments : Expire(p)

Spec == Init /\ [][Next]_vars

\* A handler that has started runs on: it awaits nothing, and SQLite's waits
\* are bounded by its busy timeout.
Fairness == \A w \in Workers : WF_vars(Serve(w))

FairSpec == Spec /\ Fairness

----------------------------------------------------------------------------
(* Properties *)

DbType(d) ==
  /\ d.payments \in [Payments -> PaymentRow \cup {NoPayment}]
  /\ d.webhooks \subseteq Events
  /\ d.log \in Seq([payment: Payments, status: Terminal \cup {"PENDING"},
                    type: {"PAYMENT_CREATED", "WEBHOOK_PROCESSED"}])

\* The tables and the handlers' locals hold what the code means them to: in
\* particular a stored status is PENDING or one of the three final ones.
TypeOK ==
  /\ DbType(db)
  /\ overdue \subseteq Payments
  /\ readers \subseteq Workers /\ reserved \in Workers \cup {NoWorker}
  /\ \A w \in Workers : work[w] = NoWork \/ DbType(work[w])
  /\ verdict \in [Workers -> Terminal \cup {"NONE"}]

\* At most one process is writing, it is a reader too, and what it has
\* written starts from what is committed: no update can be lost.
OneWriter ==
  \A w \in Workers :
    /\ pc[w] = "commit" <=> reserved = w
    /\ reserved = w => w \in readers /\ db.webhooks \subseteq work[w].webhooks
                       /\ Len(db.log) =< Len(work[w].log)
    /\ pc[w] \in {"lookup", "record", "settle"} => w \in readers

LoggedAt(P(_)) == {i \in 1 .. Len(db.log) : P(db.log[i])}

\* payment_events tells the story of each payment: created once, then settled
\* at most once however many webhooks came, as its row says, and no more.
EventsTellStory ==
  \A p \in Payments :
    LET row     == db.payments[p]
        created == LoggedAt(LAMBDA e : e = LogEntry(p, "PENDING", "PAYMENT_CREATED"))
        settled == LoggedAt(LAMBDA e : e = LogEntry(p, row.status, "WEBHOOK_PROCESSED"))
    IN  /\ LoggedAt(LAMBDA e : e.payment = p) = created \cup settled
        /\ Cardinality(created) = (IF row = NoPayment THEN 0 ELSE 1)
        /\ Cardinality(settled) = (IF row.status \in Terminal THEN 1 ELSE 0)
        /\ \A i \in created, j \in settled : i < j

\* Success is reported only for what is stored: an accepted webhook's payment
\* is final and its event will be recognised if it is sent again.
AcceptedIsDurable ==
  \A w \in Workers :
    pc[w] = "respond" /\ code[w] = "ACCEPTED" =>
      /\ db.payments[req[w].cb.payment].status \in Terminal
      /\ req[w].event \in db.webhooks

\* A payment that is final stays as it is, whatever webhooks arrive later and
\* in whatever order; and no payment changes its amount or disappears.
FinalIsFinal ==
  [][\A p \in Payments :
       LET old == db.payments[p] new == db'.payments[p]
       IN  old # NoPayment =>
             /\ new # NoPayment /\ new.cents = old.cents
             /\ old.status # "PENDING" => new = old]_vars

\* Locks do not outlive the request that took them, although the answer to a
\* known event leaves its transaction open: every lock is given back.
LocksReleased == \A w \in Workers : w \in readers ~> w \notin readers
============================================================================
