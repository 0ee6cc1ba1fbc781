---------------------------- MODULE HamiltonCore ----------------------------
(***************************************************************************)
(* hamilton-core: several server processes handling mint, transfer and     *)
(* burn requests over one SQLite file (hamilton/main.py).                  *)
(*                                                                         *)
(* A handler runs from BEGIN IMMEDIATE to COMMIT without awaiting, so each *)
(* process is in at most one database transaction: a worker here is one    *)
(* process.  SQLite gives the transaction a private view of the file       *)
(* (work[w]), the write lock (writer) and, at COMMIT, the file itself      *)
(* (db).  A process may be killed at any point, and any statement of a     *)
(* transaction may raise.                                                  *)
(*                                                                         *)
(* Definitions marked "Variant" are not part of the model: each is the     *)
(* definition after it with a plausible bug, against which the properties  *)
(* are tried.                                                              *)
(***************************************************************************)
EXTENDS LedgerTypes

CONSTANTS
  Workers,    \* server processes
  NoWorker,   \* the holder of a free write lock
  MintIds,    \* the ids that uuid.uuid4 may draw for a minted token
  BurnIds     \* and for the audit row of a burn; both are finite, so that
              \* a draw may repeat and hit a UNIQUE constraint

ASSUME WorkersAssumption == NoWorker \notin Workers
ASSUME RandomIdsAssumption == MintIds \subseteq TokenIds /\ BurnIds \subseteq TxIds

VARIABLES
  db,       \* the committed contents of the database file
  writer,   \* the process whose transaction holds SQLite's write lock
  work,     \* work[w]: the database as w's open transaction sees it
  pc,       \* pc[w]: the point that process w has reached
  req,      \* req[w]: the request w is serving, after validation
  idx,      \* idx[w]: position in the list that w is looping over
  in_total, \* in_total[w]: the value of the inputs spent so far
  result,   \* result[w]: the body of the answer
  code      \* code[w]: its HTTP status

vars == <<db, writer, work, pc, req, idx, in_total, result, code>>

----------------------------------------------------------------------------
(* The database: tables utxos, idempotency_cache and ledger_audit *)

NoEntry == [status |-> "ABSENT", response |-> NoAnswer]

IdemEntries ==
  {NoEntry, [status |-> "PENDING", response |-> NoAnswer]}
     \cup [status: {"COMPLETE"}, response: Answers]

EmptyDb == [utxos |-> [t \in TokenIds |-> NoRow],
            idem  |-> [k \in IdemKeys |-> NoEntry],
            audit |-> <<>>]

\* A worker outside a transaction has no view of the database.
NoWork == [utxos |-> <<>>, idem |-> <<>>, audit |-> <<>>]

\* The hash of the row that has none before it is the empty string.
Genesis == <<>>

\* sha256 of the previous hash and the payload; no two of them collide.
ChainHash(prev, payload) == <<prev, payload>>

\* Variant: ORDER BY seq ASC.
FirstHash(audit) == IF audit = <<>> THEN Genesis ELSE audit[1].chain_hash

\* SELECT chain_hash ... ORDER BY seq DESC LIMIT 1
LastHash(audit) == IF audit = <<>> THEN Genesis ELSE audit[Len(audit)].chain_hash

AuditRow(audit, id, action, payload) ==
  [tx_id |-> id, action |-> action, payload |-> payload,
   prev_hash |-> LastHash(audit),
   chain_hash |-> ChainHash(LastHash(audit), payload)]

\* The UNIQUE constraint on ledger_audit.tx_id.
FreshAuditId(audit, id) == \A i \in 1 .. Len(audit) : audit[i].tx_id # id

\* Variant: the UPDATE forgets the response column.
CompleteBare(body) == [status |-> "COMPLETE", response |-> NoAnswer]

CompleteEntry(body) == [status |-> "COMPLETE", response |-> body]

PendingEntry == [status |-> "PENDING", response |-> NoAnswer]

NoReq == [op |-> "NONE"]

----------------------------------------------------------------------------
Init ==
  /\ db = EmptyDb
  /\ writer = NoWorker
  /\ work = [w \in Workers |-> NoWork]
  /\ pc = [w \in Workers |-> "down"]
  /\ req = [w \in Workers |-> NoReq]
  /\ idx = [w \in Workers |-> 1]
  /\ in_total = [w \in Workers |-> 0]
  /\ result = [w \in Workers |-> NoAnswer]
  /\ code = [w \in Workers |-> "NONE"]

\* The handler at its next statement: nothing else of the process changes.
Goto(w, label) == pc' = [pc EXCEPT ![w] = label]

\* The loop variables of a handler go with it.
DropLocals(w) ==
  /\ idx' = [idx EXCEPT ![w] = 1]
  /\ in_total' = [in_total EXCEPT ![w] = 0]

\* The end of the handler, once the transaction (if any) is over.
Finish(w, status, body) ==
  /\ pc' = [pc EXCEPT ![w] = "respond"]
  /\ code' = [code EXCEPT ![w] = status]
  /\ result' = [result EXCEPT ![w] = body]
  /\ DropLocals(w)

\* Variant: the answer is sent without COMMIT.
DropTransaction(w) ==
  /\ writer' = NoWorker
  /\ work' = [work EXCEPT ![w] = NoWork]
  /\ UNCHANGED db

\* COMMIT: the view becomes the database and the lock is released.
EndTransaction(w) ==
  /\ db' = work[w]
  /\ writer' = NoWorker
  /\ work' = [work EXCEPT ![w] = NoWork]

\* Variants: the exception handler commits, or forgets to roll back.
CommitOnError(w) ==
  /\ db' = work[w]
  /\ writer' = NoWorker
  /\ work' = [work EXCEPT ![w] = NoWork]

LeaveOpen(w) == UNCHANGED <<db, writer, work>>

\* ROLLBACK: the view is thrown away and the lock released.
Rollback(w) ==
  /\ writer' = NoWorker
  /\ work' = [work EXCEPT ![w] = NoWork]
  /\ UNCHANGED db

\* An exception inside the transaction: ROLLBACK, then an error answer.
Abort(w, status) ==
  /\ Rollback(w)
  /\ Finish(w, status, NoAnswer)
  /\ UNCHANGED req

----------------------------------------------------------------------------
(* Outside a transaction *)

\* Variant: a deferred BEGIN, which takes no lock.
AlwaysFree == TRUE

LockFree == writer = NoWorker

\* Variant: DELETE FROM idempotency_cache without the status.
AnyOld == {k \in IdemKeys : db.idem[k].status # "ABSENT"}

\* The rows that _gc_stale_idem may delete, if they are old enough.
StaleCandidates == {k \in IdemKeys : db.idem[k].status = "PENDING"}

\* Startup: init_db creates the tables and drops PENDING entries that are
\* old; which of them are old depends on the clock.  It writes, so it
\* needs the write lock to be free.
Startup(w) ==
  /\ pc[w] = "down"
  /\ LockFree
  /\ \E stale \in SUBSET StaleCandidates :
       db' = [db EXCEPT !.idem =
                [k \in IdemKeys |-> IF k \in stale THEN NoEntry ELSE db.idem[k]]]
  /\ Goto(w, "idle")
  /\ UNCHANGED <<writer, work, req, idx, in_total, result, code>>

\* A request that passed authentication, role, rate limit and validation.
Receive(w) ==
  /\ pc[w] = "idle"
  /\ \E r \in Requests :
       /\ Admissible(r)
       /\ req' = [req EXCEPT ![w] = Parsed(r)]
  /\ Goto(w, "begin")
  /\ UNCHANGED <<db, writer, work, idx, in_total, result, code>>

\* A request that did not: the rate limiter, its Redis and the time windows
\* may turn away any request, the other checks an inadmissible one.
Refuse(w) ==
  /\ pc[w] = "idle"
  /\ Finish(w, "REFUSED", NoAnswer)
  /\ UNCHANGED <<db, writer, work, req>>

\* The answer leaves and get_db closes the connection.
Respond(w) ==
  /\ pc[w] = "respond"
  /\ Goto(w, "idle")
  /\ req' = [req EXCEPT ![w] = NoReq]
  /\ result' = [result EXCEPT ![w] = NoAnswer]
  /\ code' = [code EXCEPT ![w] = "NONE"]
  /\ UNCHANGED <<db, writer, work, idx, in_total>>

----------------------------------------------------------------------------
(* The transaction, statement by statement *)

\* BEGIN IMMEDIATE takes the write lock, and with it the latest contents.
Begin(w) ==
  /\ pc[w] = "begin"
  /\ LockFree
  /\ writer' = w
  /\ work' = [work EXCEPT ![w] = db]
  /\ Goto(w, "acquire")
  /\ UNCHANGED <<db, req, idx, in_total, result, code>>

\* Variant: no busy timeout.
WaitForever(w) == FALSE

\* BEGIN IMMEDIATE gives up after ten seconds behind another writer.
BusyTimeout(w) ==
  /\ pc[w] = "begin"
  /\ ~ LockFree
  /\ Finish(w, "ERROR", NoAnswer)
  /\ UNCHANGED <<db, writer, work, req>>

\* The first statement of each endpoint's own work.
FirstStep(r) ==
  CASE r.op = "TRANSFER" -> "spend" [] r.op = "MINT" -> "mint" [] r.op = "BURN" -> "burn"

FoundEntry(w) == work[w].idem[IdemKey(req[w])]

\* _idem_acquire: answer from the cache, turn away a second request under
\* an unfinished key, or claim the key.  The INSERT cannot meet the PRIMARY KEY:
\* the row was not there, and no one else has written since BEGIN IMMEDIATE.
IdemAcquire(w) ==
  LET entry == FoundEntry(w)
  IN  /\ pc[w] = "acquire"
      /\ CASE entry.status = "COMPLETE" ->
                /\ EndTransaction(w)
                /\ Finish(w, "OK", entry.response)
                /\ UNCHANGED req
           [] entry.status = "PENDING" -> Abort(w, "CONFLICT")
           [] entry.status = "ABSENT" ->
                /\ work' = [work EXCEPT ![w].idem[IdemKey(req[w])] = PendingEntry]
                /\ Goto(w, FirstStep(req[w]))
                /\ UNCHANGED <<db, writer, req, idx, in_total, result, code>>

\* The end of a pass of a loop over list: its next element, or what follows.
Advance(w, list, next) ==
  IF idx[w] < Len(list)
  THEN idx' = [idx EXCEPT ![w] = @ + 1] /\ UNCHANGED pc
  ELSE idx' = [idx EXCEPT ![w] = 1] /\ Goto(w, next)

\* Variant: no OWNERSHIP_ERROR.
SameCurrency(row, r) == row.currency = r.currency

\* CURRENCY_MISMATCH and OWNERSHIP_ERROR.
MaySpend(row, r) == row.currency = r.currency /\ row.owner = r.signer

\* The input loop of process_tx: check one input and mark it spent.
SpendInput(w) ==
  LET r   == req[w]
      tid == r.inputs[idx[w]]
      row == work[w].utxos[tid]
  IN  /\ pc[w] = "spend"
      /\ IF ~ Unspent(work[w].utxos, tid) THEN Abort(w, "REJECTED")
         ELSE IF ~ MaySpend(row, r) THEN Abort(w, "REJECTED")
         ELSE /\ work' = [work EXCEPT ![w].utxos[tid].status = "SPENT"]
              /\ in_total' = [in_total EXCEPT ![w] = @ + row.amount]
              /\ Advance(w, r.inputs, "totals")
              /\ UNCHANGED <<db, writer, req, result, code>>

\* Variant: only a deficit is rejected.
NoDeficit(w) == in_total[w] >= OutTotal(req[w].outputs)

Balanced(w) == in_total[w] = OutTotal(req[w].outputs)

\* VALUE_CONSERVATION_FAILED.
CheckTotals(w) ==
  /\ pc[w] = "totals"
  /\ IF ~ Balanced(w)
     THEN Abort(w, "REJECTED")
     ELSE /\ Goto(w, "create")
          /\ UNCHANGED <<db, writer, work, req, idx, in_total, result, code>>

\* The output loop: INSERT one output under the id its sender chose.
CreateOutput(w) ==
  LET r   == req[w]
      out == r.outputs[idx[w]]
  IN  /\ pc[w] = "create"
      /\ IF Exists(work[w].utxos, out.token_id) THEN Abort(w, "ERROR")
         ELSE /\ work' = [work EXCEPT ![w].utxos[out.token_id] =
                            NewRow(out.amount, r.currency, out.receiver)]
              /\ Advance(w, r.outputs, "audit")
              /\ UNCHANGED <<db, writer, req, in_total, result, code>>

\* _audit_insert under id, and the answer that the handler will give.
Audit(w, id) ==
  LET r == req[w]
  IN  IF ~ FreshAuditId(work[w].audit, id) THEN Abort(w, "ERROR")
      ELSE /\ work' = [work EXCEPT ![w].audit =
                         Append(@, AuditRow(@, id, r.op, Payload(r)))]
           /\ result' = [result EXCEPT ![w] = Answer(r, id)]
           /\ Goto(w, "complete")
           /\ UNCHANGED <<db, writer, req, idx, in_total, code>>

AuditTransfer(w) ==
  /\ pc[w] = "audit"
  /\ Audit(w, req[w].transaction_id)

\* mint: insert a token under a random id.
MintToken(w) ==
  LET r == req[w]
  IN  /\ pc[w] = "mint"
      /\ \E tid \in MintIds :
           IF Exists(work[w].utxos, tid) \/ ~ FreshAuditId(work[w].audit, tid)
           THEN Abort(w, "ERROR")
           ELSE /\ work' = [work EXCEPT
                     ![w].utxos[tid] = NewRow(r.amount, r.currency, r.public_key),
                     ![w].audit = Append(@, AuditRow(@, tid, "MINT", Payload(r)))]
                /\ result' = [result EXCEPT ![w] = Answer(r, tid)]
                /\ Goto(w, "complete")
                /\ UNCHANGED <<db, writer, req, idx, in_total, code>>

\* The loop of burn: check one token and mark it burned.
BurnToken(w) ==
  LET r   == req[w]
      tid == r.token_ids[idx[w]]
      row == work[w].utxos[tid]
  IN  /\ pc[w] = "burn"
      /\ IF ~ Unspent(work[w].utxos, tid) THEN Abort(w, "REJECTED")
         ELSE IF row.owner # r.owner THEN Abort(w, "REJECTED")
         ELSE /\ work' = [work EXCEPT ![w].utxos[tid].status = "BURNED"]
              /\ Advance(w, r.token_ids, "burn_audit")
              /\ UNCHANGED <<db, writer, req, in_total, result, code>>

\* The audit id of a burn is random.
AuditBurn(w) ==
  /\ pc[w] = "burn_audit"
  /\ \E id \in BurnIds : Audit(w, id)

\* _idem_complete: the answer is stored under the key that was claimed.
IdemComplete(w) ==
  LET key == IdemKey(req[w])
  IN  /\ pc[w] = "complete"
      /\ IF work[w].idem[key].status # "PENDING" THEN Abort(w, "ERROR")
         ELSE /\ work' = [work EXCEPT ![w].idem[key] =
                            CompleteEntry(result[w])]
              /\ Goto(w, "commit")
              /\ UNCHANGED <<db, writer, req, idx, in_total, result, code>>

\* The last step of an endpoint: COMMIT, then the stored answer.
Commit(w) ==
  /\ pc[w] = "commit"
  /\ EndTransaction(w)
  /\ Finish(w, "OK", result[w])
  /\ UNCHANGED req

----------------------------------------------------------------------------
(* Failures *)

InTransaction(w) ==
  pc[w] \in {"acquire", "spend", "totals", "create", "audit", "mint",
             "burn", "burn_audit", "complete", "commit"}

\* Any statement may raise (disk full, I/O error, a bug): ROLLBACK and 500.
Fault(w) ==
  /\ InTransaction(w)
  /\ Abort(w, "ERROR")

\* The process is killed; SQLite rolls its open transaction back.
Crash(w) ==
  /\ pc[w] # "down"
  /\ IF InTransaction(w) THEN Rollback(w) ELSE UNCHANGED <<db, writer, work>>
  /\ Goto(w, "down")
  /\ req' = [req EXCEPT ![w] = NoReq]
  /\ DropLocals(w)
  /\ result' = [result EXCEPT ![w] = NoAnswer]
  /\ code' = [code EXCEPT ![w] = "NONE"]

----------------------------------------------------------------------------
\* What a process does by itself once it has accepted a request.
Serve(w) ==
  \/ Begin(w) \/ BusyTimeout(w) \/ IdemAcquire(w)
  \/ SpendInput(w) \/ CheckTotals(w) \/ CreateOutput(w) \/ AuditTransfer(w)
  \/ MintToken(w)
  \/ BurnToken(w) \/ AuditBurn(w)
  \/ IdemComplete(w) \/ Commit(w) \/ Respond(w)

Next ==
  \E w \in Workers :
    \/ Startup(w) \/ Receive(w) \/ Refuse(w)
    \/ Serve(w)
    \/ Fault(w) \/ Crash(w)

Spec == Init /\ [][Next]_vars

\* A running handler is scheduled: it never awaits between BEGIN and COMMIT,
\* and the wait inside BEGIN IMMEDIATE is bounded by the busy timeout.
Fairness == \A w \in Workers : WF_vars(Serve(w))

FairSpec == Spec /\ Fairness
============================================================================
