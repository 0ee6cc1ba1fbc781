------------------------ MODULE HamiltonCore_proofs ------------------------
(***************************************************************************)
(* Proofs about hamilton-core, for every set of workers, clients, keys,    *)
(* tokens and requests, in four parts:                                     *)
(*   1. types and the lock;                                                *)
(*   2. what it promises across transactions: claims are never committed   *)
(*      without their answer, answers are durable and final, tokens only   *)
(*      age and the audit trail only grows.  This compares the view that a *)
(*      transaction works on with the database it started from;            *)
(*   3. that it implements Ledger: what a handler does in many statements, *)
(*      each of which may fail, is one step of the abstract ledger, taken  *)
(*      by its COMMIT.  The invariant says, for every point of a handler,  *)
(*      how far the request has been carried out in the handler's view;    *)
(*   4. the books: what the audit trail, the tokens and the answers tell   *)
(*      of each other, which only COMMIT changes.                          *)
(***************************************************************************)
EXTENDS HamiltonCoreProps, SumLemmas

----------------------------------------------------------------------------
(* Lemmas about the values *)

\* Pydantic's parsing keeps a request a request, with the same lists.
LEMMA ParsedType ==
  ASSUME NEW r \in AllRequests
  PROVE  /\ Parsed(r) \in AllRequests
         /\ Parsed(r).op = r.op
         /\ r.op = "TRANSFER" => /\ Parsed(r).inputs = r.inputs
                                 /\ Len(Parsed(r).outputs) = Len(r.outputs)
         /\ r.op = "BURN" => Parsed(r).token_ids = r.token_ids
<1>0. Subunits \in Nat \ {0} BY SubunitsAssumption
<1>1. CASE r \in TxRequest
  <2> DEFINE outs == [i \in 1 .. Len(r.outputs) |->
                        [r.outputs[i] EXCEPT !.amount = ToDecimal(r.outputs[i].amount)]]
  <2>1. r.op = "TRANSFER" /\ r.outputs \in Seq(Outputs)
    BY <1>1 DEF TxRequest
  <2>2. ASSUME NEW i \in 1 .. Len(r.outputs) PROVE outs[i] \in Outputs
    <3>1. r.outputs[i] \in Outputs
      BY <2>1
    <3>2. ToDecimal(r.outputs[i].amount) \in Nat
      BY <3>1, <1>0 DEF Outputs, ToDecimal
    <3>3. QED
      BY <3>1, <3>2 DEF Outputs
  <2>3. outs \in Seq(Outputs) /\ Len(outs) = Len(r.outputs)
    <3>1. Len(r.outputs) \in Nat
      BY <2>1
    <3>2. outs \in [1 .. Len(r.outputs) -> Outputs]
      BY <2>2
    <3> HIDE DEF outs
    <3>3. QED BY <3>1, <3>2
  <2>4. Parsed(r) = [r EXCEPT !.outputs = outs]
    BY <2>1 DEF Parsed
  <2> HIDE DEF outs
  <2>5. QED
    BY <2>1, <2>3, <2>4, <1>1 DEF AllRequests, TxRequest
<1>2. CASE r \in MintReq
  <2>1. r.op = "MINT" /\ r.amount \in Nat
    BY <1>2 DEF MintReq
  <2>2. Parsed(r) = [r EXCEPT !.amount = ToDecimal(r.amount)]
    BY <2>1 DEF Parsed
  <2>3. ToDecimal(r.amount) \in Nat
    BY <2>1, <1>0 DEF ToDecimal
  <2>4. QED
    BY <2>1, <2>2, <2>3, <1>2 DEF AllRequests, MintReq
<1>3. CASE r \in BurnReq
  BY <1>3 DEF AllRequests, BurnReq, Parsed
<1>4. QED BY <1>1, <1>2, <1>3 DEF AllRequests

LEMMA PayloadType ==
  ASSUME NEW r \in AllRequests
  PROVE  /\ r.op = "TRANSFER" => Payload(r) \in TransferPayload
         /\ r.op = "MINT" => Payload(r) \in MintPayload
         /\ r.op = "BURN" => Payload(r) \in BurnPayload
         /\ r.op \in {"TRANSFER", "MINT", "BURN"}
BY DEF AllRequests, TxRequest, MintReq, BurnReq, Payload, TransferPayload, MintPayload,
       BurnPayload

LEMMA UnspentRow ==
  ASSUME NEW row \in Row \cup {NoRow}, row.status = "UNSPENT"
  PROVE  /\ row \in Row /\ row.amount \in Nat
         /\ [row EXCEPT !.status = "SPENT"] \in Row
         /\ [row EXCEPT !.status = "BURNED"] \in Row
BY DEF Row, NoRow

LEMMA AnswerType ==
  ASSUME NEW r \in AllRequests, NEW id \in TxIds
  PROVE  Answer(r, id) \in Answers
BY DEF AllRequests, TxRequest, MintReq, BurnReq, Answer, Answers

LEMMA EmptyDbType == DbType(EmptyDb)
BY DEF DbType, EmptyDb, Utxos, IdemEntries, Hashes, Genesis, NoEntry

\* Writing one row of a table keeps the database well-typed.
LEMMA UtxoWrite ==
  ASSUME NEW d, DbType(d), NEW t \in TokenIds, NEW row \in Row \cup {NoRow}
  PROVE  DbType([d EXCEPT !.utxos[t] = row])
BY DEF DbType, Utxos

LEMMA IdemWrite ==
  ASSUME NEW d, DbType(d), NEW k \in IdemKeys, NEW e \in IdemEntries
  PROVE  DbType([d EXCEPT !.idem[k] = e])
BY DEF DbType

LEMMA AuditWrite ==
  ASSUME NEW d, DbType(d), NEW r \in AllRequests, NEW id \in TxIds
  PROVE  DbType([d EXCEPT !.audit = Append(@, AuditRow(@, id, r.op, Payload(r)))])
<1> DEFINE row == AuditRow(d.audit, id, r.op, Payload(r))
<1> DEFINE new == Append(d.audit, row)
<1> DEFINE H == Hashes(d.audit)
<1>1. d.audit \in Seq(AuditRows(H))
  BY DEF DbType
<1>2. LastHash(d.audit) \in H
  BY <1>1 DEF LastHash, Hashes, Genesis
<1>3. new \in Seq(AuditRows(H) \cup {row}) /\ Len(new) = Len(d.audit) + 1
  BY <1>1
<1>4. /\ \A i \in 1 .. Len(d.audit) : new[i] = d.audit[i]
      /\ new[Len(new)] = row
      /\ DOMAIN new = 1 .. Len(new)
  BY <1>1
<1>5. H \subseteq Hashes(new) /\ row.chain_hash \in Hashes(new)
  BY <1>1, <1>3, <1>4 DEF Hashes
<1>6. row \in AuditRows(Hashes(new))
  BY <1>2, <1>5, PayloadType DEF AuditRow, AuditRows
<1>7. AuditRows(H) \subseteq AuditRows(Hashes(new))
  BY <1>5 DEF AuditRows
<1>8. new \in Seq(AuditRows(Hashes(new)))
  BY <1>3, <1>6, <1>7
<1> HIDE DEF new, row
<1>9. QED
  BY <1>8 DEF DbType, new, row

----------------------------------------------------------------------------
(* The inductive invariant for types and for the write lock: besides TypeOK *)
(* and LockHolder it says what each point of a handler may rely on.         *)

\* A request that has been admitted: its lists are neither empty nor too long.
Admitted ==
  {r \in AllRequests : /\ r.op = "TRANSFER" => GoodList(r.inputs) /\ GoodList(r.outputs)
                       /\ r.op = "BURN" => GoodList(r.token_ids)}

TransferLabels == {"spend", "totals", "create", "audit"}
BurnLabels == {"burn", "burn_audit"}

Stage(w) ==
  /\ pc[w] = "begin" \/ InTransaction(w) => req[w] \in Admitted
  /\ InTransaction(w) => DbType(work[w])
  /\ pc[w] \in TransferLabels => req[w].op = "TRANSFER"
  /\ pc[w] = "mint" => req[w].op = "MINT"
  /\ pc[w] \in BurnLabels => req[w].op = "BURN"
  /\ pc[w] = "spend" => idx[w] =< Len(req[w].inputs)
  /\ pc[w] = "create" => idx[w] =< Len(req[w].outputs)
  /\ pc[w] = "burn" => idx[w] =< Len(req[w].token_ids)
  /\ pc[w] \notin {"spend", "create", "burn"} => idx[w] = 1
  /\ pc[w] \in {"complete", "commit"} => result[w] \in Answers

IInv == TypeOK /\ LockHolder /\ \A w \in Workers : Stage(w)

----------------------------------------------------------------------------
LEMMA InitIInv == Init => IInv
<1> SUFFICES ASSUME Init PROVE IInv
  OBVIOUS
<1>1. TypeOK
  BY EmptyDbType, MaxListAssumption DEF Init, TypeOK, Labels, Codes
<1>2. LockHolder
  BY WorkersAssumption DEF Init, LockHolder, InTransaction
<1>3. \A w \in Workers : Stage(w)
  BY DEF Init, Stage, InTransaction, TransferLabels, BurnLabels
<1>4. QED BY <1>1, <1>2, <1>3 DEF IInv

\* A step that leaves process v alone leaves it at its stage.
LEMMA StageFrame ==
  ASSUME NEW v \in Workers, Stage(v),
         pc'[v] = pc[v], req'[v] = req[v], idx'[v] = idx[v], work'[v] = work[v],
         result'[v] = result[v]
  PROVE  Stage(v)'
BY DEF Stage, InTransaction, DbType

\* A process between two handlers relies on nothing.
LEMMA StageLeave ==
  ASSUME NEW w \in Workers, pc'[w] \in {"down", "idle", "respond"}, idx'[w] = 1
  PROVE  Stage(w)'
BY DEF Stage, InTransaction, TransferLabels, BurnLabels

\* A statement of w's transaction that only writes w's view and locals.
LEMMA StatementIInv ==
  ASSUME IInv, NEW w \in Workers, InTransaction(w),
         UNCHANGED <<db, writer, req, code>>,
         work' = [work EXCEPT ![w] = work'[w]], DbType(work'[w]),
         pc' = [pc EXCEPT ![w] = pc'[w]], InTransaction(w)',
         idx' = [idx EXCEPT ![w] = idx'[w]], idx'[w] \in 1 .. MAX_UTXO_LIST,
         in_total' = [in_total EXCEPT ![w] = in_total'[w]], in_total'[w] \in Nat,
         result' = [result EXCEPT ![w] = result'[w]], result'[w] \in Answers \cup {NoAnswer},
         Stage(w)'
  PROVE  IInv'
<1>1. TypeOK'
  <2>1. work' = [v \in Workers |-> work'[v]]
    BY DEF IInv, TypeOK
  <2>2. \A v \in Workers : work'[v] = NoWork \/ DbType(work'[v])
    BY DEF IInv, TypeOK
  <2>3. pc' \in [Workers -> Labels]
    BY DEF IInv, TypeOK, InTransaction, Labels
  <2>4. /\ idx' \in [Workers -> 1 .. MAX_UTXO_LIST]
        /\ in_total' \in [Workers -> Nat]
        /\ result' \in [Workers -> Answers \cup {NoAnswer}]
    BY DEF IInv, TypeOK
  <2>5. QED
    BY <2>1, <2>2, <2>3, <2>4 DEF IInv, TypeOK, DbType
<1>2. LockHolder'
  BY DEF IInv, TypeOK, LockHolder, InTransaction
<1>3. ASSUME NEW v \in Workers PROVE Stage(v)'
  <2>1. CASE v = w
    BY <2>1
  <2>2. CASE v # w
    BY <2>2, StageFrame DEF IInv, TypeOK
  <2>3. QED BY <2>1, <2>2
<1>4. QED BY <1>1, <1>2, <1>3 DEF IInv

\* The end of a handler, with its transaction committed or rolled back.
LEMMA LeaveIInv ==
  ASSUME IInv, NEW w \in Workers, InTransaction(w) \/ writer = NoWorker \/ writer' = writer,
         ~ InTransaction(w) => UNCHANGED <<writer, work>>,
         InTransaction(w) => /\ writer' = NoWorker
                             /\ work' = [work EXCEPT ![w] = NoWork],
         DbType(db'),
         pc' = [pc EXCEPT ![w] = pc'[w]], pc'[w] \in {"down", "idle", "respond"},
         req' = [req EXCEPT ![w] = req'[w]], req'[w] \in AllRequests \cup {NoReq},
         idx' = [idx EXCEPT ![w] = 1], in_total' = [in_total EXCEPT ![w] = 0],
         result' = [result EXCEPT ![w] = result'[w]], result'[w] \in Answers \cup {NoAnswer},
         code' = [code EXCEPT ![w] = code'[w]], code'[w] \in Codes
  PROVE  IInv'
<1>1. TypeOK'
  <2>1. work' = [v \in Workers |-> work'[v]]
    BY DEF IInv, TypeOK
  <2>2. \A v \in Workers : work'[v] = NoWork \/ DbType(work'[v])
    BY DEF IInv, TypeOK
  <2>3. pc' \in [Workers -> Labels] /\ req' \in [Workers -> AllRequests \cup {NoReq}]
    BY DEF IInv, TypeOK, Labels
  <2>4. /\ idx' \in [Workers -> 1 .. MAX_UTXO_LIST]
        /\ in_total' \in [Workers -> Nat]
        /\ result' \in [Workers -> Answers \cup {NoAnswer}]
        /\ code' \in [Workers -> Codes]
    BY MaxListAssumption DEF IInv, TypeOK
  <2>5. writer' \in Workers \cup {NoWorker}
    BY DEF IInv, TypeOK
  <2>6. QED
    BY <2>1, <2>2, <2>3, <2>4, <2>5 DEF TypeOK, DbType
<1>2. LockHolder'
  BY WorkersAssumption DEF IInv, TypeOK, LockHolder, InTransaction
<1>3. ASSUME NEW v \in Workers PROVE Stage(v)'
  <2>1. CASE v = w
    BY <2>1, StageLeave DEF IInv, TypeOK
  <2>2. CASE v # w
    BY <2>2, StageFrame DEF IInv, TypeOK
  <2>3. QED BY <2>1, <2>2
<1>4. QED BY <1>1, <1>2, <1>3 DEF IInv

LEMMA AbortIInv ==
  ASSUME IInv, NEW w \in Workers, InTransaction(w), NEW status \in Codes, Abort(w, status)
  PROVE  IInv'
<1>1. DbType(db')
  BY DEF IInv, TypeOK, Abort, Rollback, DbType
<1>2. QED
  BY <1>1, LeaveIInv DEF IInv, TypeOK, Abort, Rollback, Finish, DropLocals

----------------------------------------------------------------------------
(* One lemma per action *)

LEMMA StartupIInv ==
  ASSUME IInv, NEW w \in Workers, Startup(w) PROVE IInv'
<1>1. PICK stale \in SUBSET StaleCandidates :
        db' = [db EXCEPT !.idem =
                 [k \in IdemKeys |-> IF k \in stale THEN NoEntry ELSE db.idem[k]]]
  BY DEF Startup
<1>2. DbType(db')
  BY <1>1 DEF IInv, TypeOK, DbType, IdemEntries, NoEntry
<1>3. idx[w] = 1 /\ in_total' = in_total
  BY DEF IInv, Stage, Startup
<1>4. TypeOK'
  BY <1>2 DEF IInv, Startup, TypeOK, Goto, Labels, DbType
<1>5. LockHolder'
  BY DEF IInv, TypeOK, Startup, LockHolder, InTransaction, Goto
<1>6. ASSUME NEW v \in Workers PROVE Stage(v)'
  BY <1>3, StageFrame, StageLeave DEF IInv, TypeOK, Startup, Goto
<1>7. QED BY <1>4, <1>5, <1>6 DEF IInv

LEMMA ReceiveIInv ==
  ASSUME IInv, NEW w \in Workers, Receive(w) PROVE IInv'
<1>1. PICK r \in Requests : Admissible(r) /\ req' = [req EXCEPT ![w] = Parsed(r)]
  BY DEF Receive
<1>2. Parsed(r) \in Admitted
  <2>1. r \in AllRequests
    BY RequestsAssumption
  <2>2. /\ r.op = "TRANSFER" => GoodList(r.inputs) /\ GoodList(r.outputs)
        /\ r.op = "BURN" => GoodList(r.token_ids)
    BY <1>1 DEF Admissible, AdmitTransfer, AdmitBurn
  <2>3. QED
    BY <2>1, <2>2, ParsedType DEF Admitted, GoodList
<1>3. TypeOK'
  BY <1>1, <1>2 DEF IInv, TypeOK, Receive, Goto, Labels, DbType, Admitted
<1>4. LockHolder'
  BY DEF IInv, TypeOK, Receive, LockHolder, InTransaction, Goto
<1>5. ASSUME NEW v \in Workers PROVE Stage(v)'
  <2>1. CASE v = w
    BY <2>1, <1>1, <1>2 DEF IInv, TypeOK, Receive, Goto, Stage, InTransaction,
                            TransferLabels, BurnLabels
  <2>2. CASE v # w
    BY <2>2, <1>1, StageFrame DEF IInv, TypeOK, Receive, Goto
  <2>3. QED BY <2>1, <2>2
<1>6. QED BY <1>3, <1>4, <1>5 DEF IInv

LEMMA RefuseIInv ==
  ASSUME IInv, NEW w \in Workers, Refuse(w) PROVE IInv'
BY LeaveIInv DEF IInv, TypeOK, Refuse, Finish, DropLocals, InTransaction, Codes, DbType

LEMMA BusyTimeoutIInv ==
  ASSUME IInv, NEW w \in Workers, BusyTimeout(w) PROVE IInv'
BY LeaveIInv DEF IInv, TypeOK, BusyTimeout, Finish, DropLocals, InTransaction, Codes, DbType

LEMMA RespondIInv ==
  ASSUME IInv, NEW w \in Workers, Respond(w) PROVE IInv'
<1>1. idx[w] = 1
  BY DEF IInv, Stage, Respond
<1>2. TypeOK'
  BY DEF IInv, TypeOK, Respond, Goto, Labels, Codes, DbType
<1>3. LockHolder'
  BY DEF IInv, TypeOK, Respond, LockHolder, InTransaction, Goto
<1>4. ASSUME NEW v \in Workers PROVE Stage(v)'
  BY <1>1, StageFrame, StageLeave DEF IInv, TypeOK, Respond, Goto
<1>5. QED BY <1>2, <1>3, <1>4 DEF IInv

LEMMA BeginIInv ==
  ASSUME IInv, NEW w \in Workers, Begin(w) PROVE IInv'
<1>1. TypeOK'
  BY DEF IInv, TypeOK, Begin, Goto, Labels, DbType
<1>2. LockHolder'
  BY WorkersAssumption DEF IInv, TypeOK, Begin, LockFree, LockHolder, InTransaction, Goto
<1>3. ASSUME NEW v \in Workers PROVE Stage(v)'
  <2>1. CASE v = w
    BY <2>1 DEF IInv, TypeOK, Begin, Goto, Stage, InTransaction, TransferLabels, BurnLabels,
                DbType
  <2>2. CASE v # w
    BY <2>2, StageFrame DEF IInv, TypeOK, Begin, Goto
  <2>3. QED BY <2>1, <2>2
<1>4. QED BY <1>1, <1>2, <1>3 DEF IInv

LEMMA FirstStepFacts ==
  ASSUME NEW r
  PROVE  /\ r.op = "TRANSFER" => FirstStep(r) = "spend"
         /\ r.op = "MINT" => FirstStep(r) = "mint"
         /\ r.op = "BURN" => FirstStep(r) = "burn"
BY DEF FirstStep

LEMMA IdemAcquireIInv ==
  ASSUME IInv, NEW w \in Workers, IdemAcquire(w) PROVE IInv'
<1> DEFINE entry == work[w].idem[IdemKey(req[w])]
<1>1. InTransaction(w) /\ DbType(work[w]) /\ req[w] \in Admitted
  BY DEF IInv, Stage, IdemAcquire, InTransaction
<1>2. IdemKey(req[w]) \in IdemKeys
  BY <1>1 DEF Admitted, AllRequests, TxRequest, MintReq, BurnReq, IdemKey, IdemKeys
<1>3. entry \in IdemEntries
  BY <1>1, <1>2 DEF DbType
<1>4. entry.status \in {"ABSENT", "PENDING", "COMPLETE"}
  BY <1>3 DEF IdemEntries, NoEntry
<1>5. CASE entry.status = "COMPLETE"
  <2>1. entry.response \in Answers
    BY <1>3, <1>5 DEF IdemEntries, NoEntry
  <2>2. EndTransaction(w) /\ Finish(w, "OK", entry.response) /\ UNCHANGED req
    BY <1>5 DEF IdemAcquire, FoundEntry
  <2>3. QED
    BY <1>1, <2>1, <2>2, LeaveIInv
       DEF IInv, TypeOK, EndTransaction, Finish, DropLocals, Codes, DbType
<1>6. CASE entry.status = "PENDING"
  <2>1. Abort(w, "CONFLICT")
    BY <1>6 DEF IdemAcquire, FoundEntry
  <2>2. QED BY <1>1, <2>1, AbortIInv DEF Codes
<1>7. CASE entry.status = "ABSENT"
  <2>1. /\ work' = [work EXCEPT ![w].idem[IdemKey(req[w])] = PendingEntry]
        /\ Goto(w, FirstStep(req[w]))
        /\ UNCHANGED <<db, writer, req, idx, in_total, result, code>>
    BY <1>7 DEF IdemAcquire, FoundEntry
  <2>2. PendingEntry \in IdemEntries
    BY DEF PendingEntry, IdemEntries
  <2>3. work'[w] = [work[w] EXCEPT !.idem[IdemKey(req[w])] = PendingEntry]
    BY <2>1 DEF IInv, TypeOK
  <2>4. DbType(work'[w])
    BY <1>1, <1>2, <2>2, <2>3, IdemWrite
  <2>5. req[w].op \in {"TRANSFER", "MINT", "BURN"}
    BY <1>1, PayloadType DEF Admitted
  <2>6. \/ pc'[w] = "spend" /\ req[w].op = "TRANSFER"
        \/ pc'[w] = "mint" /\ req[w].op = "MINT"
        \/ pc'[w] = "burn" /\ req[w].op = "BURN"
    <3>1. pc'[w] = FirstStep(req[w])
      BY <2>1 DEF IInv, TypeOK, Goto
    <3>2. QED BY <3>1, <2>5, FirstStepFacts
  <2>7. idx[w] = 1
    BY DEF IInv, Stage, IdemAcquire
  <2>8. Stage(w)'
    <3>1. req'[w] = req[w] /\ idx'[w] = 1
      BY <2>1, <2>7
    <3>2. DbType(work[w])'
      BY <2>4 DEF DbType
    <3>3. /\ req[w].op = "TRANSFER" => 1 =< Len(req[w].inputs)
          /\ req[w].op = "BURN" => 1 =< Len(req[w].token_ids)
      BY <1>1, MaxListAssumption DEF Admitted, GoodList
    <3>4. QED
      BY <1>1, <2>6, <3>1, <3>2, <3>3 DEF Stage, InTransaction, TransferLabels, BurnLabels
  <2>9. work' = [work EXCEPT ![w] = work'[w]]
    BY <2>1 DEF IInv, TypeOK
  <2>10. QED
    BY <1>1, <2>1, <2>4, <2>6, <2>8, <2>9, StatementIInv
       DEF IInv, TypeOK, Goto, InTransaction
<1>8. QED BY <1>4, <1>5, <1>6, <1>7

\* The step of a loop over list, and what it leaves in pc and idx.
LEMMA AdvanceFacts ==
  ASSUME TypeOK, NEW w \in Workers, NEW list, GoodList(list), NEW next, Advance(w, list, next),
         idx[w] =< Len(list)
  PROVE  /\ pc' = [pc EXCEPT ![w] = pc'[w]]
         /\ idx' = [idx EXCEPT ![w] = idx'[w]]
         /\ idx'[w] \in 1 .. MAX_UTXO_LIST
         /\ \/ pc'[w] = pc[w] /\ idx'[w] =< Len(list)
            \/ pc'[w] = next /\ idx'[w] = 1
<1>1. Len(list) \in Nat /\ Len(list) =< MAX_UTXO_LIST /\ MAX_UTXO_LIST \in Nat
  BY MaxListAssumption DEF GoodList
<1>2. idx[w] \in 1 .. MAX_UTXO_LIST /\ pc \in [Workers -> Labels]
      /\ idx \in [Workers -> 1 .. MAX_UTXO_LIST]
  BY DEF TypeOK
<1>3. CASE idx[w] < Len(list)
  BY <1>1, <1>2, <1>3 DEF Advance
<1>4. CASE ~ (idx[w] < Len(list))
  BY <1>1, <1>2, <1>4 DEF Advance, Goto
<1>5. QED BY <1>3, <1>4

LEMMA SpendInputIInv ==
  ASSUME IInv, NEW w \in Workers, SpendInput(w) PROVE IInv'
<1> DEFINE r == req[w]
<1> DEFINE tid == r.inputs[idx[w]]
<1> DEFINE row == work[w].utxos[tid]
<1>1. /\ InTransaction(w) /\ DbType(work[w]) /\ pc[w] = "spend"
      /\ r \in Admitted /\ r \in TxRequest
      /\ idx[w] \in 1 .. Len(r.inputs) /\ GoodList(r.inputs)
  BY DEF IInv, TypeOK, Stage, SpendInput, InTransaction, TransferLabels, Admitted,
         AllRequests, MintReq, BurnReq, TxRequest
<1>2. tid \in TokenIds
  BY <1>1 DEF TxRequest
<1>3. row \in Row \cup {NoRow}
  BY <1>1, <1>2 DEF DbType, Utxos
<1>4. CASE Abort(w, "REJECTED")
  BY <1>1, <1>4, AbortIInv DEF Codes
<1>5. CASE ~ Abort(w, "REJECTED")
  <2>1. row.status = "UNSPENT"
    BY <1>5 DEF SpendInput, Unspent
  <2>2. /\ work' = [work EXCEPT ![w].utxos[tid].status = "SPENT"]
        /\ in_total' = [in_total EXCEPT ![w] = @ + row.amount]
        /\ Advance(w, r.inputs, "totals")
        /\ UNCHANGED <<db, writer, req, result, code>>
    BY <1>5 DEF SpendInput
  <2>3. [row EXCEPT !.status = "SPENT"] \in Row /\ row.amount \in Nat
    BY <1>3, <2>1, UnspentRow
  <2>4. /\ work'[w] = [work[w] EXCEPT !.utxos[tid] = [row EXCEPT !.status = "SPENT"]]
        /\ work' = [work EXCEPT ![w] = work'[w]]
    BY <2>2 DEF IInv, TypeOK
  <2>5. DbType(work'[w])
    <3> HIDE DEF row, tid
    <3>1. QED BY <1>1, <1>2, <2>3, <2>4, UtxoWrite
  <2>6. /\ pc' = [pc EXCEPT ![w] = pc'[w]] /\ idx' = [idx EXCEPT ![w] = idx'[w]]
        /\ idx'[w] \in 1 .. MAX_UTXO_LIST
        /\ \/ pc'[w] = "spend" /\ idx'[w] =< Len(r.inputs)
           \/ pc'[w] = "totals" /\ idx'[w] = 1
    <3>1. TypeOK /\ Advance(w, r.inputs, "totals") /\ pc[w] = "spend"
      BY <1>1, <2>2 DEF IInv
    <3>2. QED BY <1>1, <3>1, AdvanceFacts
  <2>7. Stage(w)'
    <3>1. UNCHANGED req
      BY <2>2
    <3>2. r \in Admitted /\ r.op = "TRANSFER"
      BY <1>1 DEF TxRequest
    <3> HIDE DEF r
    <3>3. DbType(work[w])'
      BY <2>5 DEF DbType
    <3>4. QED
      BY <2>6, <3>1, <3>2, <3>3 DEF Stage, InTransaction, TransferLabels, BurnLabels, r
  <2>8. in_total' = [in_total EXCEPT ![w] = in_total'[w]] /\ in_total'[w] \in Nat
    BY <2>2, <2>3 DEF IInv, TypeOK
  <2>9. UNCHANGED <<db, writer, req, code, result>> /\ InTransaction(w)'
    BY <2>2, <2>6 DEF InTransaction
  <2>10. QED
    BY <1>1, <2>4, <2>5, <2>6, <2>7, <2>8, <2>9, StatementIInv DEF IInv, TypeOK
<1>6. QED BY <1>4, <1>5

LEMMA CheckTotalsIInv ==
  ASSUME IInv, NEW w \in Workers, CheckTotals(w) PROVE IInv'
<1>1. InTransaction(w) /\ DbType(work[w])
  BY DEF IInv, Stage, CheckTotals, InTransaction
<1>2. CASE Abort(w, "REJECTED")
  BY <1>1, <1>2, AbortIInv DEF Codes
<1>3. CASE ~ Abort(w, "REJECTED")
  <2>1. /\ pc[w] = "totals" /\ Goto(w, "create")
        /\ UNCHANGED <<db, writer, work, req, idx, in_total, result, code>>
    BY <1>3 DEF CheckTotals
  <2>2. Stage(w)'
    <3>1. pc'[w] = "create" /\ req'[w] = req[w] /\ idx'[w] = idx[w] /\ DbType(work[w])'
      BY <2>1, <1>1 DEF IInv, TypeOK, Goto, DbType
    <3>2. req[w] \in Admitted /\ req[w].op = "TRANSFER" /\ idx[w] = 1
      BY <2>1, <1>1 DEF IInv, Stage, TransferLabels
    <3>3. 1 =< Len(req[w].outputs)
      BY <3>2, MaxListAssumption DEF Admitted, GoodList
    <3>4. QED
      BY <3>1, <3>2, <3>3 DEF Stage, InTransaction, TransferLabels, BurnLabels
  <2>3. work' = [work EXCEPT ![w] = work'[w]] /\ DbType(work'[w])
    BY <2>1, <1>1 DEF IInv, TypeOK, DbType
  <2>4. QED
    BY <1>1, <2>1, <2>2, <2>3, StatementIInv DEF IInv, TypeOK, Goto, InTransaction
<1>4. QED BY <1>2, <1>3

LEMMA CreateOutputIInv ==
  ASSUME IInv, NEW w \in Workers, CreateOutput(w) PROVE IInv'
<1> DEFINE r == req[w]
<1> DEFINE out == r.outputs[idx[w]]
<1> DEFINE row == NewRow(out.amount, r.currency, out.receiver)
<1>1. /\ InTransaction(w) /\ DbType(work[w]) /\ pc[w] = "create"
      /\ r \in Admitted /\ r \in TxRequest
      /\ idx[w] \in 1 .. Len(r.outputs) /\ GoodList(r.outputs)
  BY DEF IInv, TypeOK, Stage, CreateOutput, InTransaction, TransferLabels, Admitted,
         AllRequests, MintReq, BurnReq, TxRequest
<1>2. out \in Outputs /\ r.currency \in Currencies
  BY <1>1 DEF TxRequest
<1>3. out.token_id \in TokenIds /\ row \in Row
  BY <1>2 DEF Outputs, Row, NewRow
<1>4. CASE Abort(w, "ERROR")
  BY <1>1, <1>4, AbortIInv DEF Codes
<1>5. CASE ~ Abort(w, "ERROR")
  <2>1. /\ work' = [work EXCEPT ![w].utxos[out.token_id] = row]
        /\ Advance(w, r.outputs, "audit")
        /\ UNCHANGED <<db, writer, req, in_total, result, code>>
    BY <1>5 DEF CreateOutput
  <2>2. /\ work'[w] = [work[w] EXCEPT !.utxos[out.token_id] = row]
        /\ work' = [work EXCEPT ![w] = work'[w]]
    BY <2>1 DEF IInv, TypeOK
  <2>3. DbType(work'[w])
    <3> HIDE DEF row, out
    <3>1. QED BY <1>1, <1>3, <2>2, UtxoWrite
  <2>4. /\ pc' = [pc EXCEPT ![w] = pc'[w]] /\ idx' = [idx EXCEPT ![w] = idx'[w]]
        /\ idx'[w] \in 1 .. MAX_UTXO_LIST
        /\ \/ pc'[w] = "create" /\ idx'[w] =< Len(r.outputs)
           \/ pc'[w] = "audit" /\ idx'[w] = 1
    <3>1. TypeOK /\ Advance(w, r.outputs, "audit")
      BY <2>1 DEF IInv
    <3>2. QED BY <1>1, <3>1, AdvanceFacts
  <2>5. Stage(w)'
    <3>1. UNCHANGED req
      BY <2>1
    <3>2. r \in Admitted /\ r.op = "TRANSFER"
      BY <1>1 DEF TxRequest
    <3> HIDE DEF r
    <3>3. DbType(work[w])'
      BY <2>3 DEF DbType
    <3>4. QED
      BY <2>4, <3>1, <3>2, <3>3 DEF Stage, InTransaction, TransferLabels, BurnLabels, r
  <2>6. UNCHANGED <<db, writer, req, code, result, in_total>> /\ InTransaction(w)'
    BY <2>1, <2>4 DEF InTransaction
  <2>7. QED
    BY <1>1, <2>2, <2>3, <2>4, <2>5, <2>6, StatementIInv DEF IInv, TypeOK
<1>6. QED BY <1>4, <1>5

\* Writing the audit row, in a transfer and in a burn.
LEMMA AuditIInv ==
  ASSUME IInv, NEW w \in Workers, pc[w] \in {"audit", "burn_audit"}, NEW id \in TxIds,
         Audit(w, id)
  PROVE  IInv'
<1> DEFINE r == req[w]
<1>1. InTransaction(w) /\ DbType(work[w]) /\ r \in Admitted /\ r \in AllRequests /\ idx[w] = 1
  BY DEF IInv, Stage, InTransaction, Admitted
<1>2. CASE Abort(w, "ERROR")
  BY <1>1, <1>2, AbortIInv DEF Codes
<1>3. CASE ~ Abort(w, "ERROR")
  <2>1. /\ work' = [work EXCEPT ![w].audit = Append(@, AuditRow(@, id, r.op, Payload(r)))]
        /\ result' = [result EXCEPT ![w] = Answer(r, id)]
        /\ Goto(w, "complete")
        /\ UNCHANGED <<db, writer, req, idx, in_total, code>>
    BY <1>3 DEF Audit
  <2>2. /\ work'[w] = [work[w] EXCEPT !.audit = Append(@, AuditRow(@, id, r.op, Payload(r)))]
        /\ work' = [work EXCEPT ![w] = work'[w]]
    BY <2>1 DEF IInv, TypeOK
  <2>3. DbType(work'[w])
    BY <1>1, <2>2, AuditWrite
  <2>4. result'[w] \in Answers /\ result' = [result EXCEPT ![w] = result'[w]]
    BY <1>1, <2>1, AnswerType DEF IInv, TypeOK
  <2>5. pc'[w] = "complete" /\ pc' = [pc EXCEPT ![w] = pc'[w]]
    BY <2>1 DEF IInv, TypeOK, Goto
  <2>6. Stage(w)'
    <3>1. DbType(work[w])' /\ UNCHANGED <<req, idx>>
      BY <2>1, <2>3 DEF DbType
    <3>2. QED
      BY <1>1, <2>4, <2>5, <3>1 DEF Stage, InTransaction, TransferLabels, BurnLabels
  <2>7. QED
    BY <1>1, <2>1, <2>2, <2>3, <2>4, <2>5, <2>6, StatementIInv DEF IInv, TypeOK, InTransaction
<1>4. QED BY <1>2, <1>3

LEMMA AuditTransferIInv ==
  ASSUME IInv, NEW w \in Workers, AuditTransfer(w) PROVE IInv'
<1>1. req[w] \in TxRequest
  BY DEF IInv, Stage, AuditTransfer, InTransaction, TransferLabels, Admitted, AllRequests,
         MintReq, BurnReq, TxRequest
<1>2. QED
  BY <1>1, AuditIInv DEF AuditTransfer, TxRequest

LEMMA AuditBurnIInv ==
  ASSUME IInv, NEW w \in Workers, AuditBurn(w) PROVE IInv'
BY AuditIInv, RandomIdsAssumption DEF AuditBurn

LEMMA MintTokenIInv ==
  ASSUME IInv, NEW w \in Workers, MintToken(w) PROVE IInv'
<1> DEFINE r == req[w]
<1>1. /\ InTransaction(w) /\ DbType(work[w]) /\ pc[w] = "mint"
      /\ r \in Admitted /\ r \in MintReq /\ r \in AllRequests /\ idx[w] = 1
  BY DEF IInv, TypeOK, Stage, MintToken, InTransaction, Admitted, AllRequests, MintReq,
         BurnReq, TxRequest
<1> DEFINE row == NewRow(r.amount, r.currency, r.public_key)
<1>2. row \in Row
  BY <1>1 DEF MintReq, Row, NewRow
<1>3. CASE Abort(w, "ERROR")
  BY <1>1, <1>3, AbortIInv DEF Codes
<1>4. CASE ~ Abort(w, "ERROR")
  <2>1. PICK tid \in MintIds :
          /\ work' = [work EXCEPT
                ![w].utxos[tid] = row,
                ![w].audit = Append(@, AuditRow(@, tid, "MINT", Payload(r)))]
          /\ result' = [result EXCEPT ![w] = Answer(r, tid)]
          /\ Goto(w, "complete")
          /\ UNCHANGED <<db, writer, req, idx, in_total, code>>
    BY <1>4 DEF MintToken
  <2>2. tid \in TokenIds /\ tid \in TxIds
    BY RandomIdsAssumption, IdsAssumption
  <2> DEFINE mid == [work[w] EXCEPT !.utxos[tid] = row]
  <2>3. DbType(mid)
    <3> HIDE DEF row
    <3>1. QED BY <1>1, <1>2, <2>2, UtxoWrite
  <2>4. /\ work'[w] = [mid EXCEPT !.audit = Append(@, AuditRow(@, tid, r.op, Payload(r)))]
        /\ work' = [work EXCEPT ![w] = work'[w]]
    <3>1. r.op = "MINT"
      BY <1>1 DEF MintReq
    <3>2. QED
      BY <2>1, <3>1 DEF IInv, TypeOK
  <2>5. DbType(work'[w])
    <3> HIDE DEF mid
    <3>1. QED BY <1>1, <2>2, <2>3, <2>4, AuditWrite
  <2>6. result'[w] \in Answers /\ result' = [result EXCEPT ![w] = result'[w]]
    BY <1>1, <2>1, <2>2, AnswerType DEF IInv, TypeOK
  <2>7. pc'[w] = "complete" /\ pc' = [pc EXCEPT ![w] = pc'[w]]
    BY <2>1 DEF IInv, TypeOK, Goto
  <2>8. UNCHANGED <<db, writer, req, idx, in_total, code>>
    BY <2>1
  <2>9. Stage(w)'
    <3>1. DbType(work[w])'
      BY <2>5 DEF DbType
    <3>2. QED
      BY <1>1, <2>6, <2>7, <2>8, <3>1 DEF Stage, InTransaction, TransferLabels, BurnLabels
  <2>10. QED
    BY <1>1, <2>4, <2>5, <2>6, <2>7, <2>8, <2>9, StatementIInv DEF IInv, TypeOK, InTransaction
<1>5. QED BY <1>3, <1>4

LEMMA BurnTokenIInv ==
  ASSUME IInv, NEW w \in Workers, BurnToken(w) PROVE IInv'
<1> DEFINE r == req[w]
<1> DEFINE tid == r.token_ids[idx[w]]
<1> DEFINE row == work[w].utxos[tid]
<1>1. /\ InTransaction(w) /\ DbType(work[w]) /\ pc[w] = "burn"
      /\ r \in Admitted /\ r \in BurnReq
      /\ idx[w] \in 1 .. Len(r.token_ids) /\ GoodList(r.token_ids)
  BY DEF IInv, TypeOK, Stage, BurnToken, InTransaction, BurnLabels, Admitted,
         AllRequests, MintReq, BurnReq, TxRequest
<1>2. tid \in TokenIds
  BY <1>1 DEF BurnReq
<1>3. row \in Row \cup {NoRow}
  BY <1>1, <1>2 DEF DbType, Utxos
<1>4. CASE Abort(w, "REJECTED")
  BY <1>1, <1>4, AbortIInv DEF Codes
<1>5. CASE ~ Abort(w, "REJECTED")
  <2>1. row.status = "UNSPENT"
    BY <1>5 DEF BurnToken, Unspent
  <2>2. /\ work' = [work EXCEPT ![w].utxos[tid].status = "BURNED"]
        /\ Advance(w, r.token_ids, "burn_audit")
        /\ UNCHANGED <<db, writer, req, in_total, result, code>>
    BY <1>5 DEF BurnToken
  <2>3. [row EXCEPT !.status = "BURNED"] \in Row
    BY <1>3, <2>1, UnspentRow
  <2>4. /\ work'[w] = [work[w] EXCEPT !.utxos[tid] = [row EXCEPT !.status = "BURNED"]]
        /\ work' = [work EXCEPT ![w] = work'[w]]
    BY <2>2 DEF IInv, TypeOK
  <2>5. DbType(work'[w])
    <3> HIDE DEF row, tid
    <3>1. QED BY <1>1, <1>2, <2>3, <2>4, UtxoWrite
  <2>6. /\ pc' = [pc EXCEPT ![w] = pc'[w]] /\ idx' = [idx EXCEPT ![w] = idx'[w]]
        /\ idx'[w] \in 1 .. MAX_UTXO_LIST
        /\ \/ pc'[w] = "burn" /\ idx'[w] =< Len(r.token_ids)
           \/ pc'[w] = "burn_audit" /\ idx'[w] = 1
    <3>1. TypeOK /\ Advance(w, r.token_ids, "burn_audit")
      BY <2>2 DEF IInv
    <3>2. QED BY <1>1, <3>1, AdvanceFacts
  <2>7. Stage(w)'
    <3>1. UNCHANGED req
      BY <2>2
    <3>2. r \in Admitted /\ r.op = "BURN"
      BY <1>1 DEF BurnReq
    <3> HIDE DEF r
    <3>3. DbType(work[w])'
      BY <2>5 DEF DbType
    <3>4. QED
      BY <2>6, <3>1, <3>2, <3>3 DEF Stage, InTransaction, TransferLabels, BurnLabels, r
  <2>8. UNCHANGED <<db, writer, req, code, result, in_total>> /\ InTransaction(w)'
    BY <2>2, <2>6 DEF InTransaction
  <2>9. QED
    BY <1>1, <2>4, <2>5, <2>6, <2>7, <2>8, StatementIInv DEF IInv, TypeOK
<1>6. QED BY <1>4, <1>5

LEMMA IdemCompleteIInv ==
  ASSUME IInv, NEW w \in Workers, IdemComplete(w) PROVE IInv'
<1> DEFINE key == IdemKey(req[w])
<1>1. /\ InTransaction(w) /\ DbType(work[w]) /\ req[w] \in Admitted /\ idx[w] = 1
      /\ result[w] \in Answers
  BY DEF IInv, Stage, IdemComplete, InTransaction
<1>2. key \in IdemKeys
  BY <1>1 DEF Admitted, AllRequests, TxRequest, MintReq, BurnReq, IdemKey, IdemKeys
<1>3. CASE Abort(w, "ERROR")
  BY <1>1, <1>3, AbortIInv DEF Codes
<1>4. CASE ~ Abort(w, "ERROR")
  <2>1. /\ work' = [work EXCEPT ![w].idem[key] = CompleteEntry(result[w])]
        /\ Goto(w, "commit")
        /\ UNCHANGED <<db, writer, req, idx, in_total, result, code>>
    BY <1>4 DEF IdemComplete
  <2>2. CompleteEntry(result[w]) \in IdemEntries
    BY <1>1 DEF CompleteEntry, IdemEntries
  <2>3. /\ work'[w] = [work[w] EXCEPT !.idem[key] = CompleteEntry(result[w])]
        /\ work' = [work EXCEPT ![w] = work'[w]]
    BY <2>1 DEF IInv, TypeOK
  <2>4. DbType(work'[w])
    <3> HIDE DEF key
    <3>1. QED BY <1>1, <1>2, <2>2, <2>3, IdemWrite
  <2>5. pc'[w] = "commit" /\ pc' = [pc EXCEPT ![w] = pc'[w]]
    BY <2>1 DEF IInv, TypeOK, Goto
  <2>6. Stage(w)'
    <3>1. DbType(work[w])' /\ UNCHANGED <<req, idx, result>>
      BY <2>1, <2>4 DEF DbType
    <3>2. QED
      BY <1>1, <2>5, <3>1 DEF Stage, InTransaction, TransferLabels, BurnLabels
  <2>7. QED
    BY <1>1, <2>1, <2>3, <2>4, <2>5, <2>6, StatementIInv DEF IInv, TypeOK, InTransaction
<1>5. QED BY <1>3, <1>4

LEMMA CommitIInv ==
  ASSUME IInv, NEW w \in Workers, Commit(w) PROVE IInv'
<1>1. InTransaction(w) /\ DbType(work[w]) /\ result[w] \in Answers
  BY DEF IInv, Stage, Commit, InTransaction
<1>2. DbType(db')
  BY <1>1 DEF Commit, EndTransaction, DbType
<1>3. QED
  BY <1>1, <1>2, LeaveIInv
     DEF IInv, TypeOK, Commit, EndTransaction, Finish, DropLocals, Codes

LEMMA CrashIInv ==
  ASSUME IInv, NEW w \in Workers, Crash(w) PROVE IInv'
<1>1. UNCHANGED db
  BY DEF Crash, Rollback
<1>2. DbType(db')
  BY <1>1 DEF IInv, TypeOK, DbType
<1>3. QED
  BY <1>2, LeaveIInv DEF IInv, TypeOK, Crash, Rollback, Goto, DropLocals, Codes

LEMMA NextIInv == IInv /\ [Next]_vars => IInv'
<1> SUFFICES ASSUME IInv, [Next]_vars PROVE IInv'
  OBVIOUS
<1>1. CASE UNCHANGED vars
  BY <1>1 DEF vars, IInv, TypeOK, LockHolder, Stage, InTransaction, DbType
<1>2. ASSUME NEW w \in Workers, Startup(w) PROVE IInv'
  BY <1>2, StartupIInv
<1>3. ASSUME NEW w \in Workers, Receive(w) \/ Refuse(w) PROVE IInv'
  BY <1>3, ReceiveIInv, RefuseIInv
<1>4. ASSUME NEW w \in Workers, Serve(w) PROVE IInv'
  BY <1>4, BeginIInv, BusyTimeoutIInv, IdemAcquireIInv, SpendInputIInv, CheckTotalsIInv,
     CreateOutputIInv, AuditTransferIInv, MintTokenIInv, BurnTokenIInv, AuditBurnIInv,
     IdemCompleteIInv, CommitIInv, RespondIInv DEF Serve
<1>5. ASSUME NEW w \in Workers, Fault(w) PROVE IInv'
  BY <1>5, AbortIInv DEF Fault, Codes
<1>6. ASSUME NEW w \in Workers, Crash(w) PROVE IInv'
  BY <1>6, CrashIInv
<1>7. QED BY <1>1, <1>2, <1>3, <1>4, <1>5, <1>6 DEF Next

----------------------------------------------------------------------------
\* The tables, the lock and the handlers' locals keep their types, in every
\* interleaving of any number of workers with crashes and failed statements.
THEOREM TypeCorrect == Spec => []TypeOK
<1>1. IInv => TypeOK
  BY DEF IInv
<1>2. QED
  BY <1>1, InitIInv, NextIInv, PTL DEF Spec

\* The write lock is held exactly while a handler is inside its transaction:
\* every exit of mint, burn and process_tx gives it back.
THEOREM LockDiscipline == Spec => []LockHolder
<1>1. IInv => LockHolder
  BY DEF IInv
<1>2. QED
  BY <1>1, InitIInv, NextIInv, PTL DEF Spec

----------------------------------------------------------------------------
(* The inductive invariant: IInv, and for each process how its view differs *)
(* from the committed database.                                             *)

KeyOf(w) == IdemKey(req[w])

AfterClaim == {"spend", "totals", "create", "audit", "mint", "burn", "burn_audit", "complete"}

BeforeAudit == AfterClaim \ {"complete"}

\* The claim is the only change made to the idempotency table.
Claim(w) ==
  /\ pc[w] = "acquire" => work[w] = db
  /\ pc[w] \in AfterClaim => /\ db.idem[KeyOf(w)].status = "ABSENT"
                             /\ work[w].idem = [db.idem EXCEPT ![KeyOf(w)] = PendingEntry]
  /\ pc[w] = "commit" =>
       /\ db.idem[KeyOf(w)].status = "ABSENT"
       /\ work[w].idem = [db.idem EXCEPT ![KeyOf(w)] = CompleteEntry(result[w])]

\* The view's audit trail is the committed one, later with one more row.
Trail(w) ==
  /\ pc[w] \in BeforeAudit => work[w].audit = db.audit
  /\ pc[w] \in {"complete", "commit"} => \E row : work[w].audit = Append(db.audit, row)

\* The view's tokens have aged by one operation at most; while tokens are
\* being consumed, none has been created.
Aging(w) ==
  /\ InTransaction(w) => \A t \in TokenIds : RowAges(db.utxos[t], work[w].utxos[t])
  /\ pc[w] \in {"spend", "burn", "mint"} =>
       \A t \in TokenIds : work[w].utxos[t].status = "UNSPENT" =>
                             work[w].utxos[t] = db.utxos[t]

\* What a success tells the client is stored under its key.
Durable(w) ==
  pc[w] = "respond" /\ code[w] = "OK" =>
    /\ KeyOf(w) \in IdemKeys
    /\ db.idem[KeyOf(w)] = [status |-> "COMPLETE", response |-> result[w]]

Local(w) == Claim(w) /\ Trail(w) /\ Aging(w) /\ Durable(w)

JInv == IInv /\ NoCommittedPending /\ \A w \in Workers : Local(w)

----------------------------------------------------------------------------
LEMMA InitJInv == Init => JInv
<1> SUFFICES ASSUME Init PROVE JInv
  OBVIOUS
<1>1. NoCommittedPending
  BY DEF Init, NoCommittedPending, EmptyDb, NoEntry
<1>2. \A w \in Workers : Local(w)
  BY DEF Init, Local, Claim, Trail, Aging, Durable, AfterClaim, BeforeAudit, InTransaction
<1>3. QED BY <1>1, <1>2, InitIInv DEF JInv

\* A step that leaves the database and process v alone.
LEMMA LocalFrame ==
  ASSUME NEW v \in Workers, Local(v), db' = db, work'[v] = work[v], pc'[v] = pc[v],
         req'[v] = req[v], result'[v] = result[v], code'[v] = code[v]
  PROVE  Local(v)'
<1>1. Claim(v)'
  BY DEF Local, Claim, KeyOf
<1>2. Trail(v)'
  BY DEF Local, Trail
<1>3. Aging(v)'
  BY DEF Local, Aging, InTransaction, RowAges
<1>4. Durable(v)'
  BY DEF Local, Durable, KeyOf
<1>5. QED BY <1>1, <1>2, <1>3, <1>4 DEF Local

\* A process outside a transaction that does not answer 200 claims nothing.
LEMMA LocalOut ==
  ASSUME NEW w \in Workers, pc'[w] \in {"down", "idle", "begin", "respond"}, Durable(w)'
  PROVE  Local(w)'
<1>1. Claim(w)' /\ Trail(w)' /\ Aging(w)'
  BY DEF Claim, Trail, Aging, AfterClaim, BeforeAudit, InTransaction
<1>2. QED BY <1>1 DEF Local

\* What every step but a commit does to JInv: the database stays, and only
\* process w moves.
LEMMA QuietStep ==
  ASSUME JInv, IInv', NEW w \in Workers, db' = db,
         work' = [work EXCEPT ![w] = work'[w]], pc' = [pc EXCEPT ![w] = pc'[w]],
         req' = [req EXCEPT ![w] = req'[w]], result' = [result EXCEPT ![w] = result'[w]],
         code' = [code EXCEPT ![w] = code'[w]], Local(w)'
  PROVE  JInv'
<1>1. NoCommittedPending'
  BY DEF JInv, NoCommittedPending
<1>2. ASSUME NEW v \in Workers PROVE Local(v)'
  <2>1. CASE v = w
    BY <2>1
  <2>2. CASE v # w
    <3>1. /\ work'[v] = work[v] /\ pc'[v] = pc[v] /\ req'[v] = req[v]
          /\ result'[v] = result[v] /\ code'[v] = code[v]
      BY <2>2 DEF JInv, IInv, TypeOK
    <3>2. QED BY <3>1, LocalFrame DEF JInv
  <2>3. QED BY <2>1, <2>2
<1>3. QED BY <1>1, <1>2 DEF JInv

\* The tables of w's view, and the key of its request.
LEMMA ViewType ==
  ASSUME IInv, NEW w \in Workers, InTransaction(w)
  PROVE  /\ KeyOf(w) \in IdemKeys /\ req[w] \in Admitted /\ req[w] \in AllRequests
         /\ DbType(db) /\ DbType(work[w])
         /\ \A t \in TokenIds : /\ db.utxos[t] \in Row \cup {NoRow}
                                /\ work[w].utxos[t] \in Row \cup {NoRow}
<1>1. req[w] \in Admitted /\ DbType(work[w]) /\ DbType(db)
  BY DEF IInv, TypeOK, Stage
<1>2. req[w] \in AllRequests
  BY <1>1 DEF Admitted
<1>3. KeyOf(w) \in IdemKeys
  BY <1>2 DEF AllRequests, TxRequest, MintReq, BurnReq, KeyOf, IdemKey, IdemKeys
<1>4. QED
  BY <1>1, <1>2, <1>3 DEF DbType, Utxos

LEMMA AbortJ ==
  ASSUME JInv, IInv', NEW w \in Workers, NEW status \in Codes \ {"OK"}, Abort(w, status)
  PROVE  JInv'
<1>1. /\ db' = db /\ work' = [work EXCEPT ![w] = work'[w]] /\ pc' = [pc EXCEPT ![w] = pc'[w]]
      /\ req' = [req EXCEPT ![w] = req'[w]] /\ result' = [result EXCEPT ![w] = result'[w]]
      /\ code' = [code EXCEPT ![w] = code'[w]] /\ pc'[w] = "respond" /\ code'[w] # "OK"
  BY DEF JInv, IInv, TypeOK, Abort, Rollback, Finish
<1>2. Local(w)'
  BY <1>1, LocalOut DEF Durable
<1>3. QED BY <1>1, <1>2, QuietStep

\* A statement of the transaction between the claim and COMMIT.
LEMMA StatementJ ==
  ASSUME JInv, IInv', NEW w \in Workers, UNCHANGED <<db, req, code>>,
         work' = [work EXCEPT ![w] = work'[w]], pc' = [pc EXCEPT ![w] = pc'[w]],
         result' = [result EXCEPT ![w] = result'[w]],
         pc'[w] # "respond", Claim(w)', Trail(w)', Aging(w)'
  PROVE  JInv'
<1>1. Local(w)'
  BY DEF Local, Durable
<1>2. req' = [req EXCEPT ![w] = req'[w]] /\ code' = [code EXCEPT ![w] = code'[w]] /\ db' = db
  BY DEF JInv, IInv, TypeOK
<1>3. QED BY <1>1, <1>2, QuietStep

----------------------------------------------------------------------------
(* Token rows *)

\* Consuming a token that is in the view as it is in the database.
LEMMA AgesConsume ==
  ASSUME NEW old \in Row \cup {NoRow}, old.status = "UNSPENT"
  PROVE  /\ RowAges(old, [old EXCEPT !.status = "SPENT"])
         /\ RowAges(old, [old EXCEPT !.status = "BURNED"])
         /\ [old EXCEPT !.status = "SPENT"].status # "UNSPENT"
         /\ [old EXCEPT !.status = "BURNED"].status # "UNSPENT"
BY DEF RowAges, Row, NoRow

\* Creating a token under an id that is not in the view.
LEMMA AgesCreate ==
  ASSUME NEW old \in Row \cup {NoRow}, NEW seen, RowAges(old, seen), seen.status = "ABSENT",
         NEW amount, NEW currency, NEW owner
  PROVE  RowAges(old, NewRow(amount, currency, owner))
<1>1. old = NoRow
  <2>1. CASE seen = old
    BY <2>1 DEF Row, NoRow
  <2>2. CASE old.status = "UNSPENT" /\ seen = [old EXCEPT !.status = "SPENT"]
    BY <2>2 DEF Row, NoRow
  <2>3. CASE old.status = "UNSPENT" /\ seen = [old EXCEPT !.status = "BURNED"]
    BY <2>3 DEF Row, NoRow
  <2>4. QED BY <2>1, <2>2, <2>3 DEF RowAges
<1>2. QED BY <1>1 DEF RowAges, NewRow

----------------------------------------------------------------------------
(* One lemma per action *)

\* The clean-up at start-up finds nothing to delete.
LEMMA StartupKeepsDb ==
  ASSUME JInv, NEW w \in Workers, Startup(w)
  PROVE  db' = db
<1>1. StaleCandidates = {}
  BY DEF JInv, NoCommittedPending, StaleCandidates
<1>2. PICK stale \in SUBSET StaleCandidates :
        db' = [db EXCEPT !.idem =
                 [k \in IdemKeys |-> IF k \in stale THEN NoEntry ELSE db.idem[k]]]
  BY DEF Startup
<1>3. [k \in IdemKeys |-> IF k \in stale THEN NoEntry ELSE db.idem[k]] = db.idem
  BY <1>1 DEF JInv, IInv, TypeOK, DbType
<1>4. QED BY <1>2, <1>3 DEF JInv, IInv, TypeOK, DbType

LEMMA OutsideJ ==
  ASSUME JInv, IInv', NEW w \in Workers,
         Startup(w) \/ Receive(w) \/ Refuse(w) \/ BusyTimeout(w) \/ Respond(w)
  PROVE  JInv'
<1>1. db' = db
  BY StartupKeepsDb DEF Receive, Refuse, BusyTimeout, Respond
<1>2. /\ work' = [work EXCEPT ![w] = work'[w]] /\ pc' = [pc EXCEPT ![w] = pc'[w]]
      /\ req' = [req EXCEPT ![w] = req'[w]] /\ result' = [result EXCEPT ![w] = result'[w]]
      /\ code' = [code EXCEPT ![w] = code'[w]]
      /\ \/ pc'[w] \in {"idle", "begin"}
         \/ pc'[w] = "respond" /\ code'[w] # "OK"
  BY DEF JInv, IInv, TypeOK, Startup, Receive, Refuse, BusyTimeout, Respond, Goto, Finish
<1>3. Local(w)'
  BY <1>2, LocalOut DEF Durable
<1>4. QED BY <1>1, <1>2, <1>3, QuietStep

LEMMA CrashJ ==
  ASSUME JInv, IInv', NEW w \in Workers, Crash(w) PROVE JInv'
<1>1. /\ db' = db /\ work' = [work EXCEPT ![w] = work'[w]] /\ pc' = [pc EXCEPT ![w] = pc'[w]]
      /\ req' = [req EXCEPT ![w] = req'[w]] /\ result' = [result EXCEPT ![w] = result'[w]]
      /\ code' = [code EXCEPT ![w] = code'[w]] /\ pc'[w] = "down"
  BY DEF JInv, IInv, TypeOK, Crash, Rollback, Goto
<1>2. Local(w)'
  BY <1>1, LocalOut DEF Durable
<1>3. QED BY <1>1, <1>2, QuietStep

LEMMA BeginJ ==
  ASSUME JInv, IInv', NEW w \in Workers, Begin(w) PROVE JInv'
<1>1. /\ UNCHANGED <<db, req, result, code>> /\ pc' = [pc EXCEPT ![w] = pc'[w]]
      /\ work' = [work EXCEPT ![w] = work'[w]] /\ result' = [result EXCEPT ![w] = result'[w]]
      /\ pc'[w] = "acquire" /\ work'[w] = db
  BY DEF JInv, IInv, TypeOK, Begin, Goto
<1>2. Claim(w)' /\ Trail(w)'
  BY <1>1 DEF Claim, Trail, AfterClaim, BeforeAudit
<1>3. Aging(w)'
  BY <1>1 DEF Aging, RowAges
<1>4. QED BY <1>1, <1>2, <1>3, StatementJ

LEMMA IdemAcquireJ ==
  ASSUME JInv, IInv', NEW w \in Workers, IdemAcquire(w) PROVE JInv'
<1> DEFINE entry == work[w].idem[IdemKey(req[w])]
<1>1. /\ pc[w] = "acquire" /\ InTransaction(w) /\ work[w] = db /\ KeyOf(w) \in IdemKeys
      /\ req[w] \in AllRequests /\ DbType(db)
  BY ViewType DEF JInv, Local, Claim, IdemAcquire, InTransaction
<1>2. entry = db.idem[KeyOf(w)] /\ entry \in IdemEntries
  BY <1>1 DEF KeyOf, DbType
<1>3. entry.status \in {"ABSENT", "PENDING", "COMPLETE"}
  BY <1>2 DEF IdemEntries, NoEntry
<1>4. CASE entry.status = "COMPLETE"
  <2>1. EndTransaction(w) /\ Finish(w, "OK", entry.response) /\ UNCHANGED req
    BY <1>4 DEF IdemAcquire, FoundEntry
  <2>2. /\ db' = db /\ work' = [work EXCEPT ![w] = work'[w]] /\ pc' = [pc EXCEPT ![w] = pc'[w]]
        /\ req' = [req EXCEPT ![w] = req'[w]] /\ result' = [result EXCEPT ![w] = result'[w]]
        /\ code' = [code EXCEPT ![w] = code'[w]] /\ pc'[w] = "respond"
        /\ result'[w] = entry.response /\ req'[w] = req[w]
    BY <1>1, <2>1 DEF JInv, IInv, TypeOK, EndTransaction, Finish
  <2>3. entry = [status |-> "COMPLETE", response |-> entry.response]
    BY <1>2, <1>4 DEF IdemEntries, NoEntry
  <2>4. Local(w)'
    BY <1>1, <1>2, <2>2, <2>3, LocalOut DEF Durable, KeyOf
  <2>5. QED BY <2>2, <2>4, QuietStep
<1>5. CASE entry.status = "PENDING"
  BY <1>1, <1>2, <1>5 DEF JInv, NoCommittedPending
<1>6. CASE entry.status = "ABSENT"
  <2>1. /\ work' = [work EXCEPT ![w].idem[IdemKey(req[w])] = PendingEntry]
        /\ Goto(w, FirstStep(req[w]))
        /\ UNCHANGED <<db, req, result, code>>
    BY <1>6 DEF IdemAcquire, FoundEntry
  <2>2. /\ work' = [work EXCEPT ![w] = work'[w]] /\ pc' = [pc EXCEPT ![w] = pc'[w]]
        /\ result' = [result EXCEPT ![w] = result'[w]]
        /\ work'[w] = [db EXCEPT !.idem[KeyOf(w)] = PendingEntry]
        /\ pc'[w] = FirstStep(req[w])
    BY <1>1, <2>1 DEF JInv, IInv, TypeOK, Goto, KeyOf
  <2>3. FirstStep(req[w]) \in {"spend", "mint", "burn"}
    BY <1>1, FirstStepFacts, PayloadType
  <2>4. /\ work'[w].idem = [db.idem EXCEPT ![KeyOf(w)] = PendingEntry]
        /\ work'[w].audit = db.audit /\ work'[w].utxos = db.utxos
    BY <1>1, <2>2 DEF DbType
  <2>5. Claim(w)'
    BY <1>2, <1>6, <2>1, <2>2, <2>3, <2>4 DEF Claim, AfterClaim, KeyOf
  <2>6. Trail(w)' /\ Aging(w)'
    BY <2>1, <2>2, <2>3, <2>4 DEF Trail, Aging, BeforeAudit, AfterClaim, RowAges
  <2>7. QED
    BY <2>1, <2>2, <2>3, <2>5, <2>6, StatementJ
<1>7. QED BY <1>3, <1>4, <1>5, <1>6

\* One pass of the loop of a transfer's inputs, or of a burn's tokens.
LEMMA ConsumeJ ==
  ASSUME JInv, IInv', NEW w \in Workers, pc[w] \in {"spend", "burn"},
         NEW tid \in TokenIds, NEW fate \in {"SPENT", "BURNED"},
         work[w].utxos[tid].status = "UNSPENT",
         work' = [work EXCEPT ![w].utxos[tid].status = fate],
         UNCHANGED <<db, req, result, code>>,
         pc' = [pc EXCEPT ![w] = pc'[w]], pc'[w] \in {pc[w], "totals", "burn_audit"}
  PROVE  JInv'
<1> DEFINE row == work[w].utxos[tid]
<1>1. /\ InTransaction(w) /\ Local(w) /\ DbType(work[w]) /\ DbType(db)
      /\ db.utxos[tid] \in Row \cup {NoRow}
  BY ViewType DEF JInv, InTransaction
<1>2. row = db.utxos[tid]
  BY <1>1 DEF Local, Aging
<1>3. work'[w] = [work[w] EXCEPT !.utxos[tid] = [row EXCEPT !.status = fate]]
  BY DEF JInv, IInv, TypeOK
<1>4. /\ work'[w].idem = work[w].idem /\ work'[w].audit = work[w].audit
      /\ work'[w].utxos = [work[w].utxos EXCEPT ![tid] = [row EXCEPT !.status = fate]]
  BY <1>1, <1>3 DEF DbType
<1>5. Claim(w)'
  BY <1>1, <1>4 DEF Local, Claim, AfterClaim, KeyOf
<1>6. Trail(w)'
  BY <1>1, <1>4 DEF Local, Trail, AfterClaim, BeforeAudit
<1>7. Aging(w)'
  <2>1. ASSUME NEW t \in TokenIds
        PROVE  /\ RowAges(db.utxos[t], work'[w].utxos[t])
               /\ work'[w].utxos[t].status = "UNSPENT" => work'[w].utxos[t] = db.utxos[t]
    <3>1. CASE t = tid
      <4>1. work'[w].utxos[t] = [db.utxos[tid] EXCEPT !.status = fate]
        BY <1>1, <1>2, <1>4, <3>1 DEF DbType, Utxos
      <4>2. db.utxos[tid].status = "UNSPENT"
        BY <1>2
      <4>3. /\ RowAges(db.utxos[tid], [db.utxos[tid] EXCEPT !.status = fate])
            /\ [db.utxos[tid] EXCEPT !.status = fate].status # "UNSPENT"
        <5> DEFINE old == db.utxos[tid]
        <5>1. old \in Row \cup {NoRow} /\ old.status = "UNSPENT"
          BY <1>1, <4>2
        <5> HIDE DEF old
        <5>2. QED BY <5>1, AgesConsume DEF old
      <4>4. QED
        BY <3>1, <4>1, <4>3
    <3>2. CASE t # tid
      <4>1. work'[w].utxos[t] = work[w].utxos[t]
        BY <1>4, <3>2
      <4>2. /\ RowAges(db.utxos[t], work[w].utxos[t])
            /\ work[w].utxos[t].status = "UNSPENT" => work[w].utxos[t] = db.utxos[t]
        BY <1>1 DEF Local, Aging
      <4>3. QED BY <4>1, <4>2
    <3>3. QED BY <3>1, <3>2
  <2>2. db' = db
    OBVIOUS
  <2>3. QED
    BY <2>1, <2>2 DEF Aging, RowAges
<1>8. work' = [work EXCEPT ![w] = work'[w]] /\ result' = [result EXCEPT ![w] = result'[w]]
  BY DEF JInv, IInv, TypeOK
<1>9. pc'[w] # "respond"
  OBVIOUS
<1>10. QED
  BY <1>5, <1>6, <1>7, <1>8, <1>9, StatementJ

\* The element that a loop is at.
LEMMA LoopElement ==
  ASSUME IInv, NEW w \in Workers
  PROVE  /\ pc[w] = "spend" => req[w].inputs[idx[w]] \in TokenIds
         /\ pc[w] = "create" => req[w].outputs[idx[w]].token_id \in TokenIds
         /\ pc[w] = "burn" => req[w].token_ids[idx[w]] \in TokenIds
<1>1. idx[w] \in Nat /\ idx[w] >= 1 /\ Stage(w)
  BY DEF IInv, TypeOK
<1>2. ASSUME pc[w] \in TransferLabels
      PROVE  req[w] \in TxRequest
  BY <1>1, <1>2 DEF Stage, InTransaction, TransferLabels, Admitted, AllRequests, MintReq,
                    BurnReq, TxRequest
<1>3. ASSUME pc[w] = "burn"
      PROVE  req[w] \in BurnReq
  BY <1>1, <1>3 DEF Stage, InTransaction, BurnLabels, Admitted, AllRequests, MintReq,
                    BurnReq, TxRequest
<1>4. CASE pc[w] = "spend"
  <2>1. req[w].inputs \in Seq(TokenIds) /\ idx[w] =< Len(req[w].inputs)
    BY <1>1, <1>2, <1>4 DEF Stage, TransferLabels, TxRequest
  <2>2. QED BY <1>1, <1>4, <2>1
<1>5. CASE pc[w] = "create"
  <2>1. req[w].outputs \in Seq(Outputs) /\ idx[w] =< Len(req[w].outputs)
    BY <1>1, <1>2, <1>5 DEF Stage, TransferLabels, TxRequest
  <2>2. req[w].outputs[idx[w]] \in Outputs
    BY <1>1, <2>1
  <2>3. QED BY <1>5, <2>2 DEF Outputs
<1>6. CASE pc[w] = "burn"
  <2>1. req[w].token_ids \in Seq(TokenIds) /\ idx[w] =< Len(req[w].token_ids)
    BY <1>1, <1>3, <1>6 DEF Stage, BurnReq
  <2>2. QED BY <1>1, <1>6, <2>1
<1>7. QED BY <1>4, <1>5, <1>6

LEMMA AdvanceLabel ==
  ASSUME TypeOK, NEW w \in Workers, NEW list, NEW next, Advance(w, list, next)
  PROVE  pc' = [pc EXCEPT ![w] = pc'[w]] /\ pc'[w] \in {pc[w], next}
BY DEF TypeOK, Advance, Goto

LEMMA SpendInputJ ==
  ASSUME JInv, IInv', NEW w \in Workers, SpendInput(w) PROVE JInv'
<1> DEFINE tid == req[w].inputs[idx[w]]
<1>1. CASE Abort(w, "REJECTED")
  BY <1>1, AbortJ DEF Codes
<1>2. CASE ~ Abort(w, "REJECTED")
  <2>1. /\ pc[w] = "spend" /\ work[w].utxos[tid].status = "UNSPENT"
        /\ work' = [work EXCEPT ![w].utxos[tid].status = "SPENT"]
        /\ Advance(w, req[w].inputs, "totals")
        /\ UNCHANGED <<db, req, result, code>>
    BY <1>2 DEF SpendInput, Unspent
  <2>2. tid \in TokenIds
    BY <2>1, LoopElement DEF JInv
  <2>3. pc' = [pc EXCEPT ![w] = pc'[w]] /\ pc'[w] \in {pc[w], "totals"}
    BY <2>1, AdvanceLabel DEF JInv, IInv
  <2> HIDE DEF tid
  <2>4. QED
    BY <2>1, <2>2, <2>3, ConsumeJ
<1>3. QED BY <1>1, <1>2

LEMMA BurnTokenJ ==
  ASSUME JInv, IInv', NEW w \in Workers, BurnToken(w) PROVE JInv'
<1> DEFINE tid == req[w].token_ids[idx[w]]
<1>1. CASE Abort(w, "REJECTED")
  BY <1>1, AbortJ DEF Codes
<1>2. CASE ~ Abort(w, "REJECTED")
  <2>1. /\ pc[w] = "burn" /\ work[w].utxos[tid].status = "UNSPENT"
        /\ work' = [work EXCEPT ![w].utxos[tid].status = "BURNED"]
        /\ Advance(w, req[w].token_ids, "burn_audit")
        /\ UNCHANGED <<db, req, result, code>>
    BY <1>2 DEF BurnToken, Unspent
  <2>2. tid \in TokenIds
    BY <2>1, LoopElement DEF JInv
  <2>3. pc' = [pc EXCEPT ![w] = pc'[w]] /\ pc'[w] \in {pc[w], "burn_audit"}
    BY <2>1, AdvanceLabel DEF JInv, IInv
  <2> HIDE DEF tid
  <2>4. QED
    BY <2>1, <2>2, <2>3, ConsumeJ
<1>3. QED BY <1>1, <1>2

LEMMA CheckTotalsJ ==
  ASSUME JInv, IInv', NEW w \in Workers, CheckTotals(w) PROVE JInv'
<1>1. CASE Abort(w, "REJECTED")
  BY <1>1, AbortJ DEF Codes
<1>2. CASE ~ Abort(w, "REJECTED")
  <2>1. pc[w] = "totals" /\ Goto(w, "create") /\ UNCHANGED <<db, work, req, result, code>>
    BY <1>2 DEF CheckTotals
  <2>2. /\ work' = [work EXCEPT ![w] = work'[w]] /\ pc' = [pc EXCEPT ![w] = pc'[w]]
        /\ result' = [result EXCEPT ![w] = result'[w]] /\ pc'[w] = "create"
        /\ work'[w] = work[w] /\ Local(w)
    BY <2>1 DEF JInv, IInv, TypeOK, Goto
  <2>3. Claim(w)' /\ Trail(w)'
    BY <2>1, <2>2 DEF Local, Claim, Trail, AfterClaim, BeforeAudit, KeyOf
  <2>4. Aging(w)'
    BY <2>1, <2>2 DEF Local, Aging, InTransaction, RowAges
  <2>5. QED BY <2>1, <2>2, <2>3, <2>4, StatementJ
<1>3. QED BY <1>1, <1>2

LEMMA CreateOutputJ ==
  ASSUME JInv, IInv', NEW w \in Workers, CreateOutput(w) PROVE JInv'
<1> DEFINE out == req[w].outputs[idx[w]]
<1> DEFINE row == NewRow(out.amount, req[w].currency, out.receiver)
<1>1. CASE Abort(w, "ERROR")
  BY <1>1, AbortJ DEF Codes
<1>2. CASE ~ Abort(w, "ERROR")
  <2>1. /\ pc[w] = "create" /\ work[w].utxos[out.token_id].status = "ABSENT"
        /\ work' = [work EXCEPT ![w].utxos[out.token_id] = row]
        /\ Advance(w, req[w].outputs, "audit")
        /\ UNCHANGED <<db, req, result, code>>
    BY <1>2 DEF CreateOutput, Exists
  <2>2. out.token_id \in TokenIds
    BY <2>1, LoopElement DEF JInv
  <2>3. /\ Local(w) /\ DbType(work[w]) /\ DbType(db) /\ InTransaction(w)
        /\ db.utxos[out.token_id] \in Row \cup {NoRow}
    BY <2>1, <2>2, ViewType DEF JInv, InTransaction
  <2>4. pc' = [pc EXCEPT ![w] = pc'[w]] /\ pc'[w] \in {"create", "audit"}
    BY <2>1, AdvanceLabel DEF JInv, IInv
  <2>5. /\ work' = [work EXCEPT ![w] = work'[w]] /\ result' = [result EXCEPT ![w] = result'[w]]
        /\ work'[w] = [work[w] EXCEPT !.utxos[out.token_id] = row]
    BY <2>1 DEF JInv, IInv, TypeOK
  <2>6. /\ work'[w].idem = work[w].idem /\ work'[w].audit = work[w].audit
        /\ work'[w].utxos = [work[w].utxos EXCEPT ![out.token_id] = row]
    BY <2>3, <2>5 DEF DbType
  <2>7. Claim(w)' /\ Trail(w)'
    BY <2>1, <2>3, <2>4, <2>6 DEF Local, Claim, Trail, AfterClaim, BeforeAudit, KeyOf
  <2>8. ASSUME NEW t \in TokenIds PROVE RowAges(db.utxos[t], work'[w].utxos[t])
    <3>1. RowAges(db.utxos[t], work[w].utxos[t])
      BY <2>3 DEF Local, Aging
    <3> HIDE DEF row, out
    <3>2. CASE t = out.token_id
      <4>1. work'[w].utxos[t] = row
        BY <2>3, <2>6, <3>2 DEF DbType, Utxos
      <4>2. RowAges(db.utxos[t], row)
        BY <2>1, <2>3, <3>1, <3>2, AgesCreate DEF row
      <4>3. QED BY <4>1, <4>2
    <3>3. CASE t # out.token_id
      BY <2>6, <3>1, <3>3
    <3>4. QED BY <3>2, <3>3
  <2>9. Aging(w)'
    BY <2>1, <2>4, <2>8 DEF Aging, RowAges
  <2>10. QED
    BY <2>1, <2>4, <2>5, <2>7, <2>9, StatementJ
<1>3. QED BY <1>1, <1>2

\* Writing the audit row, with the tokens already in their final state.
LEMMA AuditJ ==
  ASSUME JInv, IInv', NEW w \in Workers, pc[w] \in BeforeAudit, NEW row,
         UNCHANGED <<db, req, code>>, Goto(w, "complete"),
         work' = [work EXCEPT ![w] = work'[w]], result' = [result EXCEPT ![w] = result'[w]],
         work'[w].idem = work[w].idem, work'[w].audit = Append(work[w].audit, row),
         \A t \in TokenIds : RowAges(db.utxos[t], work'[w].utxos[t])
  PROVE  JInv'
<1>1. Local(w) /\ pc' = [pc EXCEPT ![w] = pc'[w]] /\ pc'[w] = "complete"
  BY DEF JInv, IInv, TypeOK, Goto
<1>2. Claim(w)'
  BY <1>1 DEF Local, Claim, AfterClaim, BeforeAudit, KeyOf
<1>3. Trail(w)'
  BY <1>1 DEF Local, Trail, AfterClaim, BeforeAudit
<1>4. Aging(w)'
  BY <1>1 DEF Aging, RowAges
<1>5. QED BY <1>1, <1>2, <1>3, <1>4, StatementJ

LEMMA AuditStepJ ==
  ASSUME JInv, IInv', NEW w \in Workers, AuditTransfer(w) \/ AuditBurn(w) PROVE JInv'
<1>1. pc[w] \in {"audit", "burn_audit"} /\ \E id : Audit(w, id)
  BY DEF AuditTransfer, AuditBurn
<1>2. PICK id : Audit(w, id)
  BY <1>1
<1>3. CASE Abort(w, "ERROR")
  BY <1>3, AbortJ DEF Codes
<1>4. CASE ~ Abort(w, "ERROR")
  <2> DEFINE row == AuditRow(work[w].audit, id, req[w].op, Payload(req[w]))
  <2>1. /\ work' = [work EXCEPT ![w].audit = Append(work[w].audit, row)]
        /\ result' = [result EXCEPT ![w] = Answer(req[w], id)]
        /\ Goto(w, "complete") /\ UNCHANGED <<db, req, code>>
    BY <1>2, <1>4 DEF Audit, JInv, IInv, TypeOK
  <2>2. Local(w) /\ InTransaction(w) /\ DbType(work[w])
    BY <1>1, ViewType DEF JInv, InTransaction
  <2> HIDE DEF row
  <2>3. /\ work' = [work EXCEPT ![w] = work'[w]] /\ result' = [result EXCEPT ![w] = result'[w]]
        /\ work'[w] = [work[w] EXCEPT !.audit = Append(work[w].audit, row)]
    BY <2>1 DEF JInv, IInv, TypeOK
  <2>4. /\ work'[w].idem = work[w].idem /\ work'[w].utxos = work[w].utxos
        /\ work'[w].audit = Append(work[w].audit, row)
    BY <2>2, <2>3 DEF DbType
  <2>5. \A t \in TokenIds : RowAges(db.utxos[t], work'[w].utxos[t])
    BY <2>2, <2>4 DEF Local, Aging
  <2>6. pc[w] \in BeforeAudit
    BY <1>1 DEF BeforeAudit, AfterClaim
  <2>7. QED
    BY <2>1, <2>3, <2>4, <2>5, <2>6, AuditJ
<1>5. QED BY <1>3, <1>4

LEMMA MintTokenJ ==
  ASSUME JInv, IInv', NEW w \in Workers, MintToken(w) PROVE JInv'
<1>1. CASE Abort(w, "ERROR")
  BY <1>1, AbortJ DEF Codes
<1>2. CASE ~ Abort(w, "ERROR")
  <2> DEFINE new == NewRow(req[w].amount, req[w].currency, req[w].public_key)
  <2> DEFINE entry(tid) == AuditRow(work[w].audit, tid, "MINT", Payload(req[w]))
  <2>1. PICK tid \in MintIds :
          /\ work[w].utxos[tid].status = "ABSENT"
          /\ work' = [work EXCEPT ![w].utxos[tid] = new,
                                  ![w].audit = Append(@, entry(tid))]
          /\ result' = [result EXCEPT ![w] = Answer(req[w], tid)]
          /\ Goto(w, "complete") /\ UNCHANGED <<db, req, code>>
    BY <1>2, RandomIdsAssumption DEF MintToken, Exists, JInv, IInv, TypeOK
  <2>2. pc[w] = "mint" /\ tid \in TokenIds
    BY RandomIdsAssumption DEF MintToken
  <2>3. /\ Local(w) /\ InTransaction(w) /\ DbType(work[w])
        /\ \A t \in TokenIds : db.utxos[t] \in Row \cup {NoRow}
    BY <2>2, ViewType DEF JInv, InTransaction
  <2> DEFINE row == entry(tid)
  <2>4. /\ work' = [work EXCEPT ![w] = work'[w]] /\ result' = [result EXCEPT ![w] = result'[w]]
        /\ work'[w] = [work[w] EXCEPT !.utxos[tid] = new,
                                      !.audit = Append(work[w].audit, row)]
    <3> HIDE DEF new
    <3>1. QED BY <2>1, <2>3 DEF JInv, IInv, TypeOK, DbType
  <2> HIDE DEF new, row
  <2>5. /\ work'[w].idem = work[w].idem /\ work'[w].audit = Append(work[w].audit, row)
        /\ work'[w].utxos = [work[w].utxos EXCEPT ![tid] = new]
    BY <2>3, <2>4 DEF DbType
  <2>6. ASSUME NEW t \in TokenIds PROVE RowAges(db.utxos[t], work'[w].utxos[t])
    <3>1. RowAges(db.utxos[t], work[w].utxos[t])
      BY <2>3 DEF Local, Aging
    <3>2. CASE t = tid
      <4>1. work'[w].utxos[t] = new
        BY <2>3, <2>5, <3>2 DEF DbType, Utxos
      <4>2. RowAges(db.utxos[t], new)
        BY <2>1, <2>3, <3>1, <3>2, AgesCreate DEF new
      <4>3. QED BY <4>1, <4>2
    <3>3. CASE t # tid
      BY <2>5, <3>1, <3>3
    <3>4. QED BY <3>2, <3>3
  <2>7. pc[w] \in BeforeAudit
    BY <2>2 DEF BeforeAudit, AfterClaim
  <2>8. QED
    BY <2>1, <2>4, <2>5, <2>6, <2>7, AuditJ
<1>3. QED BY <1>1, <1>2

LEMMA IdemCompleteJ ==
  ASSUME JInv, IInv', NEW w \in Workers, IdemComplete(w) PROVE JInv'
<1>1. CASE Abort(w, "ERROR")
  BY <1>1, AbortJ DEF Codes
<1>2. CASE ~ Abort(w, "ERROR")
  <2>1. /\ pc[w] = "complete"
        /\ work' = [work EXCEPT ![w].idem[KeyOf(w)] = CompleteEntry(result[w])]
        /\ Goto(w, "commit") /\ UNCHANGED <<db, req, result, code>>
    BY <1>2 DEF IdemComplete, KeyOf
  <2>2. /\ Local(w) /\ InTransaction(w) /\ DbType(work[w]) /\ DbType(db)
        /\ KeyOf(w) \in IdemKeys
    BY <2>1, ViewType DEF JInv, InTransaction
  <2>3. /\ work' = [work EXCEPT ![w] = work'[w]] /\ pc' = [pc EXCEPT ![w] = pc'[w]]
        /\ result' = [result EXCEPT ![w] = result'[w]] /\ pc'[w] = "commit"
        /\ work'[w] = [work[w] EXCEPT !.idem[KeyOf(w)] = CompleteEntry(result[w])]
    BY <2>1 DEF JInv, IInv, TypeOK, Goto
  <2>4. /\ work'[w].utxos = work[w].utxos /\ work'[w].audit = work[w].audit
        /\ work'[w].idem = [work[w].idem EXCEPT ![KeyOf(w)] = CompleteEntry(result[w])]
    BY <2>2, <2>3 DEF DbType
  <2>5. work'[w].idem = [db.idem EXCEPT ![KeyOf(w)] = CompleteEntry(result[w])]
    BY <2>1, <2>2, <2>4 DEF Local, Claim, AfterClaim, DbType
  <2>6. Claim(w)'
    BY <2>1, <2>2, <2>3, <2>5 DEF Local, Claim, AfterClaim, KeyOf
  <2>7. Trail(w)'
    BY <2>1, <2>2, <2>3, <2>4 DEF Local, Trail, BeforeAudit, AfterClaim
  <2>8. Aging(w)'
    BY <2>1, <2>2, <2>3, <2>4 DEF Local, Aging, RowAges
  <2>9. QED
    BY <2>1, <2>3, <2>6, <2>7, <2>8, StatementJ
<1>3. QED BY <1>1, <1>2

----------------------------------------------------------------------------
(* COMMIT is the only step that changes the database *)

\* What a commit does to the tables.
LEMMA CommitEffect ==
  ASSUME JInv, NEW w \in Workers, Commit(w)
  PROVE  /\ KeyOf(w) \in IdemKeys /\ db.idem[KeyOf(w)].status = "ABSENT"
         /\ db'.idem = [db.idem EXCEPT ![KeyOf(w)] = CompleteEntry(result[w])]
         /\ db.idem \in [IdemKeys -> IdemEntries]
         /\ \E row : db'.audit = Append(db.audit, row)
         /\ \A t \in TokenIds : RowAges(db.utxos[t], db'.utxos[t])
<1>1. pc[w] = "commit" /\ db' = work[w] /\ InTransaction(w) /\ Local(w)
  BY DEF Commit, EndTransaction, JInv, InTransaction
<1>2. KeyOf(w) \in IdemKeys /\ DbType(db)
  BY <1>1, ViewType DEF JInv
<1>3. QED
  BY <1>1, <1>2 DEF Local, Claim, Trail, Aging, DbType

LEMMA CommitJ ==
  ASSUME JInv, IInv', NEW w \in Workers, Commit(w) PROVE JInv'
<1> DEFINE key == KeyOf(w)
<1>0. /\ key \in IdemKeys /\ db.idem[key].status = "ABSENT"
      /\ db'.idem = [db.idem EXCEPT ![key] = CompleteEntry(result[w])]
      /\ db.idem \in [IdemKeys -> IdemEntries]
  BY CommitEffect
<1> HIDE DEF key
<1>1. NoCommittedPending'
  <2>1. ASSUME NEW k \in IdemKeys PROVE db'.idem[k].status # "PENDING"
    <3>1. CASE k = key
      <4>1. db'.idem[k] = CompleteEntry(result[w])
        BY <1>0, <3>1
      <4>2. QED BY <4>1 DEF CompleteEntry
    <3>2. CASE k # key
      <4>1. db'.idem[k] = db.idem[k]
        BY <1>0, <3>2
      <4>2. QED BY <4>1 DEF JInv, NoCommittedPending
    <3>3. QED BY <3>1, <3>2
  <2>2. QED BY <2>1 DEF NoCommittedPending
<1>2. Local(w)'
  <2>1. pc'[w] = "respond" /\ result'[w] = result[w] /\ req'[w] = req[w]
    BY DEF Commit, Finish, JInv, IInv, TypeOK
  <2>2. Durable(w)'
    BY <1>0, <2>1 DEF Durable, KeyOf, CompleteEntry, key
  <2>3. QED BY <2>1, <2>2, LocalOut
<1>3. ASSUME NEW v \in Workers, v # w PROVE Local(v)'
  <2>1. ~ InTransaction(v)
    BY <1>3 DEF JInv, IInv, LockHolder, Commit, InTransaction
  <2>2. /\ pc'[v] = pc[v] /\ req'[v] = req[v] /\ result'[v] = result[v] /\ code'[v] = code[v]
    BY <1>3 DEF Commit, Finish, JInv, IInv, TypeOK
  <2>3. pc'[v] \in {"down", "idle", "begin", "respond"}
    BY <2>1, <2>2 DEF JInv, IInv, TypeOK, Labels, InTransaction
  <2>4. Durable(v)'
    <3>1. Durable(v)
      BY DEF JInv, Local
    <3>2. SUFFICES ASSUME pc[v] = "respond", code[v] = "OK"
                   PROVE  /\ KeyOf(v) \in IdemKeys
                          /\ db'.idem[KeyOf(v)] = [status |-> "COMPLETE", response |-> result[v]]
      BY <2>2 DEF Durable, KeyOf
    <3>3. /\ KeyOf(v) \in IdemKeys
          /\ db.idem[KeyOf(v)] = [status |-> "COMPLETE", response |-> result[v]]
      BY <3>1, <3>2 DEF Durable
    <3>4. KeyOf(v) # key
      BY <1>0, <3>3
    <3>5. QED BY <1>0, <3>3, <3>4
  <2>5. QED BY <2>3, <2>4, LocalOut
<1>4. QED BY <1>1, <1>2, <1>3 DEF JInv

LEMMA NextJInv == JInv /\ [Next]_vars => JInv'
<1> SUFFICES ASSUME JInv, [Next]_vars PROVE JInv'
  OBVIOUS
<1>1. IInv'
  BY NextIInv DEF JInv
<1>2. CASE UNCHANGED vars
  <2>1. ASSUME NEW v \in Workers PROVE Local(v)'
    BY <1>2, LocalFrame DEF vars, JInv
  <2>2. NoCommittedPending'
    BY <1>2 DEF vars, JInv, NoCommittedPending
  <2>3. QED BY <1>1, <2>1, <2>2 DEF JInv
<1>3. ASSUME NEW w \in Workers, Startup(w) \/ Receive(w) \/ Refuse(w) PROVE JInv'
  BY <1>1, <1>3, OutsideJ
<1>4. ASSUME NEW w \in Workers, Serve(w) PROVE JInv'
  BY <1>1, <1>4, OutsideJ, BeginJ, IdemAcquireJ, SpendInputJ, CheckTotalsJ, CreateOutputJ,
     AuditStepJ, MintTokenJ, BurnTokenJ, IdemCompleteJ, CommitJ DEF Serve
<1>5. ASSUME NEW w \in Workers, Fault(w) PROVE JInv'
  BY <1>1, <1>5, AbortJ DEF Fault, Codes
<1>6. ASSUME NEW w \in Workers, Crash(w) PROVE JInv'
  BY <1>1, <1>6, CrashJ
<1>7. QED BY <1>2, <1>3, <1>4, <1>5, <1>6 DEF Next

\* A step either commits or leaves the database as it is.
LEMMA OnlyCommitWrites ==
  ASSUME JInv, [Next]_vars
  PROVE  db' = db \/ \E w \in Workers : Commit(w)
<1>1. CASE UNCHANGED vars
  BY <1>1 DEF vars
<1>2. ASSUME NEW w \in Workers, Startup(w) PROVE db' = db
  BY <1>2, StartupKeepsDb
<1>3. ASSUME NEW w \in Workers, Receive(w) \/ Refuse(w) PROVE db' = db
  BY <1>3 DEF Receive, Refuse
<1>4. ASSUME NEW w \in Workers, IdemAcquire(w) PROVE db' = db
  <2>1. work[w] = db /\ InTransaction(w)
    BY <1>4 DEF JInv, Local, Claim, IdemAcquire, InTransaction
  <2>2. db.idem[KeyOf(w)] \in IdemEntries
    BY <2>1, ViewType DEF JInv, DbType
  <2>3. db.idem[KeyOf(w)].status \in {"ABSENT", "PENDING", "COMPLETE"}
    BY <2>2 DEF IdemEntries, NoEntry
  <2>4. QED
    BY <1>4, <2>1, <2>3
       DEF IdemAcquire, FoundEntry, EndTransaction, Abort, Rollback, KeyOf
<1>5. ASSUME NEW w \in Workers, Serve(w), ~ IdemAcquire(w), ~ Commit(w) PROVE db' = db
  BY <1>5 DEF Serve, Begin, BusyTimeout, SpendInput, CheckTotals, CreateOutput,
              AuditTransfer, MintToken, BurnToken, AuditBurn, Audit, IdemComplete, Respond,
              Abort, Rollback
<1>6. ASSUME NEW w \in Workers, Fault(w) \/ Crash(w) PROVE db' = db
  BY <1>6 DEF Fault, Crash, Abort, Rollback
<1>7. QED BY <1>1, <1>2, <1>3, <1>4, <1>5, <1>6 DEF Next

----------------------------------------------------------------------------
(* The theorems *)

\* No other connection ever sees a claim without its answer: _idem_acquire
\* and _idem_complete are committed together, whatever fails or is killed.
THEOREM ClaimsAreAtomic == Spec => []NoCommittedPending
<1>1. JInv => NoCommittedPending
  BY DEF JInv
<1>2. QED
  BY <1>1, InitJInv, NextJInv, PTL DEF Spec

\* A process that answers 200 answers with what is stored under the key, so
\* that every retry, on any process and after any crash, is told the same.
THEOREM RepliesAreDurable == Spec => []ReplyIsDurable
<1>1. JInv => ReplyIsDurable
  BY DEF JInv, Local, Durable, ReplyIsDurable, KeyOf
<1>2. QED
  BY <1>1, InitJInv, NextJInv, PTL DEF Spec

\* A stored answer is never changed or deleted: not by another request under
\* its key, and not by the clean-up in init_db.
THEOREM AnswersStay == Spec => AnswersAreFinal
<1>1. ASSUME JInv, [Next]_vars
      PROVE  \A k \in IdemKeys : db.idem[k].status = "COMPLETE" => db'.idem[k] = db.idem[k]
  <2>1. CASE db' = db
    BY <2>1
  <2>2. ASSUME NEW w \in Workers, Commit(w), NEW k \in IdemKeys, db.idem[k].status = "COMPLETE"
        PROVE  db'.idem[k] = db.idem[k]
    <3> DEFINE key == KeyOf(w)
    <3>1. /\ key \in IdemKeys /\ db.idem[key].status = "ABSENT"
          /\ db'.idem = [db.idem EXCEPT ![key] = CompleteEntry(result[w])]
          /\ db.idem \in [IdemKeys -> IdemEntries]
      BY <1>1, <2>2, CommitEffect
    <3> HIDE DEF key
    <3>2. QED BY <2>2, <3>1
  <2>3. QED BY <1>1, <2>1, <2>2, OnlyCommitWrites
<1>2. QED
  BY <1>1, InitJInv, NextJInv, PTL DEF Spec, AnswersAreFinal

\* The audit trail only grows, one row at a time.
THEOREM AuditGrows == Spec => AuditAppendOnly
<1>1. ASSUME JInv, [Next]_vars
      PROVE  /\ Len(db.audit) =< Len(db'.audit)
             /\ \A i \in 1 .. Len(db.audit) : db'.audit[i] = db.audit[i]
  <2>1. db.audit \in Seq(AuditRows(Hashes(db.audit)))
    BY <1>1 DEF JInv, IInv, TypeOK, DbType
  <2>2. CASE db' = db
    BY <2>1, <2>2
  <2>3. ASSUME NEW w \in Workers, Commit(w)
        PROVE  /\ Len(db.audit) =< Len(db'.audit)
               /\ \A i \in 1 .. Len(db.audit) : db'.audit[i] = db.audit[i]
    <3>1. PICK row : db'.audit = Append(db.audit, row)
      BY <1>1, <2>3, CommitEffect
    <3>2. QED BY <2>1, <3>1
  <2>4. QED BY <1>1, <2>2, <2>3, OnlyCommitWrites
<1>2. QED
  BY <1>1, InitJInv, NextJInv, PTL DEF Spec, AuditAppendOnly

\* No token is ever spent twice, revived, altered or removed: a committed row
\* only goes from UNSPENT to SPENT or BURNED, whatever processes compete.
THEOREM NoDoubleSpend == Spec => TokensOnlyAge
<1>1. ASSUME JInv, [Next]_vars
      PROVE  \A t \in TokenIds : RowAges(db.utxos[t], db'.utxos[t])
  <2>1. CASE db' = db
    BY <2>1 DEF RowAges
  <2>2. ASSUME NEW w \in Workers, Commit(w)
        PROVE  \A t \in TokenIds : RowAges(db.utxos[t], db'.utxos[t])
    BY <1>1, <2>2, CommitEffect
  <2>3. QED BY <1>1, <2>1, <2>2, OnlyCommitWrites
<1>2. QED
  BY <1>1, InitJInv, NextJInv, PTL DEF Spec, TokensOnlyAge

----------------------------------------------------------------------------
(* How far a request is carried out                                         *)

\* The requests that reach a transaction.
Validated == {Parsed(q) : q \in {p \in Requests : Admissible(p)}}

InputsOf(r) == IF r.op = "TRANSFER" THEN r.inputs ELSE r.token_ids
PayerOf(r)  == IF r.op = "TRANSFER" THEN r.signer ELSE r.owner
FateOf(r)   == IF r.op = "TRANSFER" THEN "SPENT" ELSE "BURNED"

Among(ids, n, t) == \E j \in 1 .. n : ids[j] = t

MadeBy(outputs, m, t) == \E j \in 1 .. m : outputs[j].token_id = t

\* The first n inputs of r may be consumed by whoever signed it.
Authorised(r, n, u) ==
  \A j \in 1 .. n :
    LET row == u[InputsOf(r)[j]]
    IN  /\ row.status = "UNSPENT" /\ row.owner = PayerOf(r)
        /\ r.op = "TRANSFER" => row.currency = r.currency

\* new is old with the first n inputs of r consumed.
Consumed(r, n, old, new) ==
  \A t \in TokenIds :
    new[t] = IF Among(InputsOf(r), n, t) THEN [old[t] EXCEPT !.status = FateOf(r)] ELSE old[t]

\* new is old with all inputs of r consumed and its first m outputs created.
Created(r, m, old, new) ==
  /\ \A j \in 1 .. m :
       LET out == r.outputs[j]
       IN  /\ old[out.token_id].status = "ABSENT"
           /\ new[out.token_id] = NewRow(out.amount, r.currency, out.receiver)
  /\ \A t \in TokenIds :
       ~ MadeBy(r.outputs, m, t) =>
         new[t] = IF Among(r.inputs, Len(r.inputs), t)
                  THEN [old[t] EXCEPT !.status = "SPENT"] ELSE old[t]

\* Value of the first n tokens of a list, and of the first m outputs.
InSum(u, ids, n) ==
  LET sum[k \in 0 .. Len(ids)] == IF k = 0 THEN 0 ELSE sum[k - 1] + u[ids[k]].amount
  IN  sum[n]

OutSum(outputs, m) ==
  LET sum[k \in 0 .. Len(outputs)] == IF k = 0 THEN 0 ELSE sum[k - 1] + outputs[k].amount
  IN  sum[m]

\* The effect of each operation on the table utxos; id is its audit id.
MintedToken(r, id, old, new) ==
  /\ id \in TokenIds /\ old[id].status = "ABSENT"
  /\ new = [old EXCEPT ![id] = NewRow(r.amount, r.currency, r.public_key)]

Transferred(r, id, old, new) ==
  /\ id = r.transaction_id
  /\ Authorised(r, Len(r.inputs), old)
  /\ InSum(old, r.inputs, Len(r.inputs)) = OutTotal(r.outputs)
  /\ Created(r, Len(r.outputs), old, new)

Burned(r, old, new) ==
  /\ Authorised(r, Len(r.token_ids), old)
  /\ Consumed(r, Len(r.token_ids), old, new)

Moved(r, id, old, new) ==
  \/ r.op = "MINT" /\ MintedToken(r, id, old, new)
  \/ r.op = "TRANSFER" /\ Transferred(r, id, old, new)
  \/ r.op = "BURN" /\ Burned(r, old, new)

\* new is the database old with r carried out under id, but for the answer.
CarriedOut(r, id, old, new) ==
  /\ id \in TxIds /\ FreshAuditId(old.audit, id)
  /\ new.audit = Append(old.audit, AuditRow(old.audit, id, r.op, Payload(r)))
  /\ Moved(r, id, old.utxos, new.utxos)

\* What the view of a handler at label owes to its request r, when its
\* transaction began with the database d, n passes of its loop are over, the
\* inputs so far are worth total, and its answer is body.
Owes(label, r, n, total, body, view, d) ==
  /\ label \notin {"down", "idle", "respond"} => r \in Validated
  /\ label \in {"down", "idle", "begin", "acquire", "respond"} => total = 0
  /\ label = "mint" => view.utxos = d.utxos
  /\ label \in {"spend", "burn"} => /\ Authorised(r, n, d.utxos)
                                    /\ Consumed(r, n, d.utxos, view.utxos)
  /\ label \in {"totals", "create", "audit"} => Authorised(r, Len(r.inputs), d.utxos)
  /\ label = "burn_audit" => Burned(r, d.utxos, view.utxos)
  /\ label = "totals" => Consumed(r, Len(r.inputs), d.utxos, view.utxos)
  /\ label = "create" => Created(r, n, d.utxos, view.utxos)
  /\ label = "audit" => Created(r, Len(r.outputs), d.utxos, view.utxos)
  /\ label = "spend" => total = InSum(d.utxos, r.inputs, n)
  /\ label = "totals" => total = InSum(d.utxos, r.inputs, Len(r.inputs))
  /\ label \in {"create", "audit"} =>
       InSum(d.utxos, r.inputs, Len(r.inputs)) = OutTotal(r.outputs)
  /\ label \in {"complete", "commit"} =>
       \E id \in TxIds : body = Answer(r, id) /\ CarriedOut(r, id, d, view)

Progress(w) == Owes(pc[w], req[w], idx[w] - 1, in_total[w], result[w], work[w], db)

KInv == JInv /\ \A w \in Workers : Progress(w)

----------------------------------------------------------------------------
(* Lemmas about requests and lists                                          *)

\* A validated request is admitted, and names no id twice.
LEMMA ValidatedFacts ==
  ASSUME NEW r \in Validated
  PROVE  /\ r \in Admitted /\ r \in AllRequests
         /\ r.op = "TRANSFER" =>
              /\ r \in TxRequest /\ r.inputs \in Seq(TokenIds) /\ r.outputs \in Seq(Outputs)
              /\ GoodList(r.inputs) /\ GoodList(r.outputs) /\ Distinct(r.inputs)
              /\ Distinct([i \in 1 .. Len(r.outputs) |-> r.outputs[i].token_id])
         /\ r.op = "MINT" => r \in MintReq
         /\ r.op = "BURN" => r \in BurnReq /\ GoodList(r.token_ids) /\ Distinct(r.token_ids)
<1>1. PICK q \in Requests : Admissible(q) /\ r = Parsed(q)
  BY DEF Validated
<1>2. q \in AllRequests
  BY RequestsAssumption
<1>3. r \in AllRequests /\ r.op = q.op
      /\ (q.op = "TRANSFER" => r.inputs = q.inputs /\ Len(r.outputs) = Len(q.outputs))
      /\ (q.op = "BURN" => r.token_ids = q.token_ids)
  BY <1>1, <1>2, ParsedType
<1>4. r.op = "TRANSFER" => /\ r \in TxRequest
                           /\ r.inputs \in Seq(TokenIds) /\ r.outputs \in Seq(Outputs)
  BY <1>3 DEF AllRequests, TxRequest, MintReq, BurnReq
<1>5. r.op = "MINT" => r \in MintReq
  BY <1>3 DEF AllRequests, TxRequest, MintReq, BurnReq
<1>6. r.op = "BURN" => r \in BurnReq
  BY <1>3 DEF AllRequests, TxRequest, MintReq, BurnReq
<1>7. ASSUME r.op = "TRANSFER"
      PROVE  /\ GoodList(r.inputs) /\ GoodList(r.outputs) /\ Distinct(r.inputs)
             /\ Distinct([i \in 1 .. Len(r.outputs) |-> r.outputs[i].token_id])
  <2>1. AdmitTransfer(q)
    BY <1>1, <1>3, <1>7 DEF Admissible
  <2>2. \A i \in 1 .. Len(q.outputs) : r.outputs[i].token_id = q.outputs[i].token_id
    <3> DEFINE outs == [i \in 1 .. Len(q.outputs) |->
                          [q.outputs[i] EXCEPT !.amount = ToDecimal(q.outputs[i].amount)]]
    <3>1. q \in TxRequest
      BY <1>2, <1>3, <1>7 DEF AllRequests, TxRequest, MintReq, BurnReq
    <3>2. r = [q EXCEPT !.outputs = outs]
      BY <1>1, <1>3, <1>7 DEF Parsed
    <3>3. q.outputs \in Seq(Outputs)
      BY <3>1 DEF TxRequest
    <3>4. \A i \in 1 .. Len(q.outputs) : outs[i].token_id = q.outputs[i].token_id
      BY <3>3 DEF Outputs
    <3> HIDE DEF outs
    <3>5. r.outputs = outs
      BY <3>1, <3>2 DEF TxRequest
    <3>6. QED BY <3>4, <3>5
  <2>3. [i \in 1 .. Len(r.outputs) |-> r.outputs[i].token_id]
          = [i \in 1 .. Len(q.outputs) |-> q.outputs[i].token_id]
    BY <1>3, <1>7, <2>2
  <2>4. QED BY <1>3, <1>7, <2>1, <2>3 DEF AdmitTransfer, GoodList
<1>8. ASSUME r.op = "BURN"
      PROVE  GoodList(r.token_ids) /\ Distinct(r.token_ids)
  BY <1>1, <1>3, <1>8 DEF Admissible, AdmitBurn
<1>9. QED BY <1>3, <1>4, <1>5, <1>6, <1>7, <1>8 DEF Admitted

LEMMA InSumStep ==
  ASSUME NEW u, NEW ids, Len(ids) \in Nat
  PROVE  /\ InSum(u, ids, 0) = 0
         /\ \A n \in 1 .. Len(ids) : InSum(u, ids, n) = InSum(u, ids, n - 1) + u[ids[n]].amount
<1> DEFINE v == [k \in 1 .. Len(ids) |-> u[ids[k]].amount]
           Sums(g) == g = [k \in 0 .. Len(ids) |->
                             IF k = 0 THEN 0 ELSE g[k - 1] + u[ids[k]].amount]
           sum == CHOOSE g : Sums(g)
<1>1. \E g : Sums(g)
  <2>1. PICK g : g = [k \in 0 .. Len(ids) |-> IF k = 0 THEN 0 ELSE g[k - 1] + v[k]]
    BY PartialSums
  <2>2. \A k \in 0 .. Len(ids) : (IF k = 0 THEN 0 ELSE g[k - 1] + v[k])
                                   = IF k = 0 THEN 0 ELSE g[k - 1] + u[ids[k]].amount
    OBVIOUS
  <2> HIDE DEF v
  <2>3. Sums(g)
    BY <2>1, <2>2, Zenon
  <2>4. QED BY <2>3
<1>2. Sums(sum)
  <2> HIDE DEF Sums
  <2>1. QED BY <1>1
<1>3. \A n \in 0 .. Len(ids) : InSum(u, ids, n) = sum[n]
  BY DEF InSum
<1> HIDE DEF sum
<1>4. \A n \in 0 .. Len(ids) : sum[n] = IF n = 0 THEN 0 ELSE sum[n - 1] + u[ids[n]].amount
  BY <1>2
<1>5. QED BY <1>3, <1>4

LEMMA OutSumStep ==
  ASSUME NEW outputs, Len(outputs) \in Nat
  PROVE  /\ OutSum(outputs, 0) = 0
         /\ \A n \in 1 .. Len(outputs) :
              OutSum(outputs, n) = OutSum(outputs, n - 1) + outputs[n].amount
         /\ OutTotal(outputs) = OutSum(outputs, Len(outputs))
<1> DEFINE v == [k \in 1 .. Len(outputs) |-> outputs[k].amount]
           Sums(g) == g = [k \in 0 .. Len(outputs) |->
                             IF k = 0 THEN 0 ELSE g[k - 1] + outputs[k].amount]
           sum == CHOOSE g : Sums(g)
<1>1. \E g : Sums(g)
  <2>1. PICK g : g = [k \in 0 .. Len(outputs) |-> IF k = 0 THEN 0 ELSE g[k - 1] + v[k]]
    BY PartialSums
  <2>2. \A k \in 0 .. Len(outputs) : (IF k = 0 THEN 0 ELSE g[k - 1] + v[k])
                                   = IF k = 0 THEN 0 ELSE g[k - 1] + outputs[k].amount
    OBVIOUS
  <2> HIDE DEF v
  <2>3. Sums(g)
    BY <2>1, <2>2, Zenon
  <2>4. QED BY <2>3
<1>2. Sums(sum)
  <2> HIDE DEF Sums
  <2>1. QED BY <1>1
<1>3. \A n \in 0 .. Len(outputs) : OutSum(outputs, n) = sum[n]
  BY DEF OutSum
<1>4. OutTotal(outputs) = sum[Len(outputs)]
  BY DEF OutTotal
<1> HIDE DEF sum
<1>5. \A n \in 0 .. Len(outputs) : sum[n] = IF n = 0 THEN 0 ELSE sum[n - 1] + outputs[n].amount
  BY <1>2
<1>6. QED BY <1>3, <1>4, <1>5

----------------------------------------------------------------------------
(* The invariant is kept: steps that neither read nor write tokens          *)

LEMMA InitKInv == Init => KInv
<1> SUFFICES ASSUME Init PROVE KInv
  OBVIOUS
<1>1. \A w \in Workers : pc[w] = "down"
  BY DEF Init
<1>2. \A w \in Workers : Progress(w)
  BY <1>1 DEF Progress, Owes, Init
<1>3. QED BY <1>2, InitJInv DEF KInv

LEMMA ProgressNext ==
  ASSUME NEW w
  PROVE  Progress(w)' <=>
           Owes(pc'[w], req'[w], idx'[w] - 1, in_total'[w], result'[w], work'[w], db')
BY DEF Progress, Owes, Validated, Authorised, Consumed, Created, Burned, InSum, OutTotal,
       Answer, CarriedOut, Moved, MintedToken, Transferred, FreshAuditId, AuditRow, LastHash,
       ChainHash, Genesis, Payload, NewRow, Among, MadeBy, InputsOf, PayerOf, FateOf, NoAnswer,
       Parsed, ToDecimal, Admissible, AdmitTransfer, AdmitMint, AdmitBurn, GoodList, Distinct,
       PositiveAmount

\* A step that leaves the database and process v alone.
LEMMA ProgressFrame ==
  ASSUME NEW v \in Workers, Progress(v), db' = db, work'[v] = work[v], pc'[v] = pc[v],
         req'[v] = req[v], idx'[v] = idx[v], in_total'[v] = in_total[v],
         result'[v] = result[v]
  PROVE  Progress(v)'
BY ProgressNext DEF Progress

\* A process outside a transaction owes nothing.
LEMMA ProgressOut ==
  ASSUME NEW w \in Workers, pc'[w] \in {"down", "idle", "begin", "respond"},
         pc'[w] = "begin" => req'[w] \in Validated, in_total'[w] = 0
  PROVE  Progress(w)'
BY ProgressNext DEF Owes

\* What every step but a commit does: the database stays, only w moves.
LEMMA QuietK ==
  ASSUME KInv, JInv', NEW w \in Workers, db' = db,
         work' = [work EXCEPT ![w] = work'[w]], pc' = [pc EXCEPT ![w] = pc'[w]],
         req' = [req EXCEPT ![w] = req'[w]], idx' = [idx EXCEPT ![w] = idx'[w]],
         in_total' = [in_total EXCEPT ![w] = in_total'[w]],
         result' = [result EXCEPT ![w] = result'[w]], Progress(w)'
  PROVE  KInv'
<1>1. ASSUME NEW v \in Workers PROVE Progress(v)'
  <2>1. CASE v = w
    BY <2>1
  <2>2. CASE v # w
    <3>1. /\ work'[v] = work[v] /\ pc'[v] = pc[v] /\ req'[v] = req[v] /\ idx'[v] = idx[v]
          /\ in_total'[v] = in_total[v] /\ result'[v] = result[v]
      BY <2>2 DEF KInv, JInv, IInv, TypeOK
    <3>2. QED BY <3>1, ProgressFrame DEF KInv
  <2>3. QED BY <2>1, <2>2
<1>2. QED BY <1>1 DEF KInv

LEMMA AbortK ==
  ASSUME KInv, JInv', NEW w \in Workers, NEW status, Abort(w, status)
  PROVE  KInv'
<1>1. /\ db' = db /\ work' = [work EXCEPT ![w] = work'[w]] /\ pc' = [pc EXCEPT ![w] = pc'[w]]
      /\ req' = [req EXCEPT ![w] = req'[w]] /\ idx' = [idx EXCEPT ![w] = idx'[w]]
      /\ in_total' = [in_total EXCEPT ![w] = in_total'[w]]
      /\ result' = [result EXCEPT ![w] = result'[w]] /\ pc'[w] = "respond"
      /\ in_total'[w] = 0
  BY DEF KInv, JInv, IInv, TypeOK, Abort, Rollback, Finish, DropLocals
<1>2. Progress(w)'
  BY <1>1, ProgressOut
<1>3. QED BY <1>1, <1>2, QuietK

LEMMA OutsideK ==
  ASSUME KInv, JInv', NEW w \in Workers,
         \/ Startup(w) \/ Receive(w) \/ Refuse(w) \/ BusyTimeout(w) \/ Respond(w) \/ Crash(w)
  PROVE  KInv'
<1>1. db' = db
  BY StartupKeepsDb DEF KInv, Receive, Refuse, BusyTimeout, Respond, Crash, Rollback
<1>2. /\ work' = [work EXCEPT ![w] = work'[w]] /\ pc' = [pc EXCEPT ![w] = pc'[w]]
      /\ req' = [req EXCEPT ![w] = req'[w]] /\ idx' = [idx EXCEPT ![w] = idx'[w]]
      /\ in_total' = [in_total EXCEPT ![w] = in_total'[w]]
      /\ result' = [result EXCEPT ![w] = result'[w]]
  BY DEF KInv, JInv, IInv, TypeOK, Startup, Receive, Refuse, BusyTimeout, Respond, Crash,
         Rollback, Goto, Finish, DropLocals
<1>3. CASE Receive(w)
  <2>1. pc'[w] = "begin" /\ req'[w] \in Validated /\ in_total'[w] = 0
    BY <1>3 DEF Receive, Goto, Validated, KInv, JInv, IInv, TypeOK, Progress, Owes
  <2>2. QED BY <1>1, <1>2, <2>1, ProgressOut, QuietK
<1>4. CASE ~ Receive(w)
  <2>1. pc'[w] \in {"down", "idle", "respond"} /\ in_total'[w] = 0
    BY <1>4 DEF Startup, Refuse, BusyTimeout, Respond, Crash, Goto, Finish, DropLocals, KInv,
                JInv, IInv, TypeOK, Progress, Owes
  <2>2. QED BY <1>1, <1>2, <2>1, ProgressOut, QuietK
<1>5. QED BY <1>3, <1>4

LEMMA BeginK ==
  ASSUME KInv, JInv', NEW w \in Workers, Begin(w) PROVE KInv'
<1>1. /\ db' = db /\ work' = [work EXCEPT ![w] = work'[w]] /\ pc' = [pc EXCEPT ![w] = pc'[w]]
      /\ req' = [req EXCEPT ![w] = req'[w]] /\ idx' = [idx EXCEPT ![w] = idx'[w]]
      /\ in_total' = [in_total EXCEPT ![w] = in_total'[w]]
      /\ result' = [result EXCEPT ![w] = result'[w]]
      /\ pc'[w] = "acquire" /\ req'[w] = req[w] /\ pc[w] = "begin"
      /\ in_total'[w] = in_total[w]
  BY DEF KInv, JInv, IInv, TypeOK, Begin, Goto
<1>2. req[w] \in Validated /\ in_total[w] = 0
  BY <1>1 DEF KInv, Progress, Owes
<1>3. Progress(w)'
  BY <1>1, <1>2, ProgressNext DEF Owes
<1>4. QED BY <1>1, <1>3, QuietK

----------------------------------------------------------------------------
(* The invariant is kept: the statements of a transaction                   *)

\* A statement of w's transaction.
LEMMA StatementK ==
  ASSUME KInv, JInv', NEW w \in Workers, UNCHANGED <<db, req>>,
         work' = [work EXCEPT ![w] = work'[w]], pc' = [pc EXCEPT ![w] = pc'[w]],
         idx' = [idx EXCEPT ![w] = idx'[w]],
         in_total' = [in_total EXCEPT ![w] = in_total'[w]],
         result' = [result EXCEPT ![w] = result'[w]],
         Owes(pc'[w], req[w], idx'[w] - 1, in_total'[w], result'[w], work'[w], db)
  PROVE  KInv'
<1>1. req' = [req EXCEPT ![w] = req'[w]] /\ db' = db /\ req'[w] = req[w]
  BY DEF KInv, JInv, IInv, TypeOK
<1>2. Progress(w)'
  BY <1>1, ProgressNext
<1>3. QED BY <1>1, <1>2, QuietK

\* What a handler in a transaction may use.
LEMMA InsideFacts ==
  ASSUME KInv, NEW w \in Workers, InTransaction(w)
  PROVE  /\ Owes(pc[w], req[w], idx[w] - 1, in_total[w], result[w], work[w], db)
         /\ Local(w) /\ Stage(w) /\ req[w] \in Validated
         /\ DbType(db) /\ DbType(work[w]) /\ idx[w] \in Nat \ {0}
         /\ \A t \in TokenIds : /\ db.utxos[t] \in Row \cup {NoRow}
                                /\ work[w].utxos[t] \in Row \cup {NoRow}
<1>1. idx[w] \in Nat \ {0}
  BY DEF KInv, JInv, IInv, TypeOK
<1>2. req[w] \in Validated
  BY DEF KInv, Progress, Owes, InTransaction
<1>3. QED
  BY <1>1, <1>2, ViewType DEF KInv, JInv, IInv, Progress

LEMMA IdemAcquireK ==
  ASSUME KInv, JInv', NEW w \in Workers, IdemAcquire(w) PROVE KInv'
<1> DEFINE entry == work[w].idem[IdemKey(req[w])]
<1>1. /\ pc[w] = "acquire" /\ work[w] = db /\ InTransaction(w) /\ req[w] \in Validated
      /\ DbType(db) /\ idx[w] = 1 /\ KeyOf(w) \in IdemKeys /\ in_total[w] \in Nat
  BY InsideFacts, ViewType
     DEF IdemAcquire, InTransaction, Local, Claim, Stage, KInv, JInv, IInv, TypeOK
<1>2. entry \in IdemEntries /\ entry.status \in {"ABSENT", "PENDING", "COMPLETE"}
  BY <1>1 DEF KeyOf, DbType, IdemEntries, NoEntry
<1>3. CASE entry.status = "COMPLETE"
  <2>1. EndTransaction(w) /\ Finish(w, "OK", entry.response) /\ UNCHANGED req
    BY <1>3 DEF IdemAcquire, FoundEntry
  <2>2. /\ db' = db /\ work' = [work EXCEPT ![w] = work'[w]] /\ pc' = [pc EXCEPT ![w] = pc'[w]]
        /\ req' = [req EXCEPT ![w] = req'[w]] /\ idx' = [idx EXCEPT ![w] = idx'[w]]
        /\ in_total' = [in_total EXCEPT ![w] = in_total'[w]]
        /\ result' = [result EXCEPT ![w] = result'[w]] /\ pc'[w] = "respond"
        /\ in_total'[w] = 0
    BY <1>1, <2>1 DEF KInv, JInv, IInv, TypeOK, EndTransaction, Finish, DropLocals
  <2>3. QED BY <2>2, ProgressOut, QuietK
<1>4. CASE entry.status = "PENDING"
  <2>1. Abort(w, "CONFLICT")
    BY <1>4 DEF IdemAcquire, FoundEntry
  <2>2. QED BY <2>1, AbortK
<1>5. CASE entry.status = "ABSENT"
  <2>1. /\ work' = [work EXCEPT ![w].idem[IdemKey(req[w])] = PendingEntry]
        /\ Goto(w, FirstStep(req[w]))
        /\ UNCHANGED <<db, req, idx, in_total, result>>
    BY <1>5 DEF IdemAcquire, FoundEntry
  <2>2. /\ work' = [work EXCEPT ![w] = work'[w]] /\ pc' = [pc EXCEPT ![w] = pc'[w]]
        /\ idx' = [idx EXCEPT ![w] = idx'[w]] /\ idx'[w] = 1
        /\ in_total' = [in_total EXCEPT ![w] = in_total'[w]] /\ in_total'[w] = in_total[w]
        /\ result' = [result EXCEPT ![w] = result'[w]]
        /\ work'[w] = [db EXCEPT !.idem[IdemKey(req[w])] = PendingEntry]
        /\ pc'[w] = FirstStep(req[w])
    BY <1>1, <2>1 DEF KInv, JInv, IInv, TypeOK, Goto
  <2>3. work'[w].utxos = db.utxos
    BY <1>1, <2>2 DEF DbType
  <2>4. in_total[w] = 0
    BY <1>1, InsideFacts DEF Owes, IdemAcquire
  <2>5. Owes(pc'[w], req[w], idx'[w] - 1, in_total'[w], result'[w], work'[w], db)
    <3>1. req[w].op \in {"TRANSFER", "MINT", "BURN"}
      BY <1>1, ValidatedFacts, PayloadType
    <3>2. /\ pc'[w] \in {"spend", "mint", "burn"}
          /\ pc'[w] = "spend" => req[w].op = "TRANSFER"
      BY <2>2, <3>1, FirstStepFacts
    <3>3. Authorised(req[w], 0, db.utxos) /\ Consumed(req[w], 0, db.utxos, work'[w].utxos)
      BY <2>3 DEF Authorised, Consumed, Among
    <3>4. pc'[w] = "spend" => InSum(db.utxos, req[w].inputs, 0) = 0
      BY <1>1, <3>2, ValidatedFacts, InSumStep
    <3>5. idx'[w] - 1 = 0 /\ in_total'[w] = 0
      BY <2>2, <2>4
    <3>6. QED
      BY <1>1, <2>3, <3>2, <3>3, <3>4, <3>5 DEF Owes
  <2>6. QED BY <2>1, <2>2, <2>5, StatementK
<1>6. QED BY <1>2, <1>3, <1>4, <1>5

\* The end of a pass: the loop goes on, or it has seen the whole list.
LEMMA AdvanceCases ==
  ASSUME IInv, NEW w \in Workers, NEW list, NEW next, Len(list) \in Nat, idx[w] =< Len(list),
         Advance(w, list, next)
  PROVE  /\ pc' = [pc EXCEPT ![w] = pc'[w]] /\ idx' = [idx EXCEPT ![w] = idx'[w]]
         /\ \/ pc'[w] = pc[w] /\ idx'[w] = idx[w] + 1
            \/ pc'[w] = next /\ idx'[w] = 1 /\ idx[w] = Len(list)
<1>1. idx[w] \in Nat
  BY DEF IInv, TypeOK
<1>2. CASE idx[w] < Len(list)
  BY <1>1, <1>2 DEF Advance, IInv, TypeOK
<1>3. CASE ~ (idx[w] < Len(list))
  <2>1. idx[w] = Len(list)
    BY <1>1, <1>3
  <2>2. QED BY <1>3, <2>1 DEF Advance, Goto, IInv, TypeOK
<1>4. QED BY <1>2, <1>3

\* new is view with the token tid consumed.
Fated(new, view, tid, fate) == new = [view EXCEPT ![tid].status = fate]

\* Consuming the next input: it was not among the inputs consumed before.
LEMMA ConsumeNext ==
  ASSUME NEW r, NEW n \in Nat, NEW old, NEW view \in Utxos, NEW tid \in TokenIds,
         NEW fate \in {"SPENT", "BURNED"}, tid = InputsOf(r)[n + 1], fate = FateOf(r),
         Consumed(r, n, old, view), view[tid].status = "UNSPENT",
         NEW new, Fated(new, view, tid, fate)
  PROVE  view[tid] = old[tid] /\ Consumed(r, n + 1, old, new)
<1>1. view[tid] = old[tid]
  <2>1. CASE Among(InputsOf(r), n, tid)
    <3>1. view[tid] = [old[tid] EXCEPT !.status = FateOf(r)]
      BY <2>1 DEF Consumed
    <3>2. view[tid] \in Row \cup {NoRow}
      BY DEF Utxos
    <3>3. FALSE
      BY <3>1, <3>2 DEF Row, NoRow
    <3>4. QED BY <3>3
  <2>2. CASE ~ Among(InputsOf(r), n, tid)
    BY <2>2 DEF Consumed
  <2>3. QED BY <2>1, <2>2
<1>2. ASSUME NEW t \in TokenIds
      PROVE  new[t] = IF Among(InputsOf(r), n + 1, t)
                      THEN [old[t] EXCEPT !.status = fate] ELSE old[t]
  <2>1. Among(InputsOf(r), n + 1, t) <=> Among(InputsOf(r), n, t) \/ t = tid
    BY DEF Among
  <2>2. CASE t = tid
    BY <1>1, <2>1, <2>2 DEF Utxos, Fated
  <2>3. CASE t # tid
    <3>1. new[t] = view[t]
      BY <2>3 DEF Fated
    <3>2. QED BY <2>1, <2>3, <3>1 DEF Consumed
  <2>4. QED BY <2>2, <2>3
<1>3. QED BY <1>1, <1>2 DEF Consumed

LEMMA SpendInputK ==
  ASSUME KInv, JInv', NEW w \in Workers, SpendInput(w) PROVE KInv'
<1> DEFINE r == req[w]
           n == idx[w] - 1
           tid == r.inputs[idx[w]]
           row == work[w].utxos[tid]
<1>1. CASE Abort(w, "REJECTED")
  BY <1>1, AbortK
<1>2. CASE ~ Abort(w, "REJECTED")
  <2>1. /\ pc[w] = "spend" /\ row.status = "UNSPENT" /\ MaySpend(row, r)
        /\ work' = [work EXCEPT ![w].utxos[tid].status = "SPENT"]
        /\ in_total' = [in_total EXCEPT ![w] = @ + row.amount]
        /\ Advance(w, r.inputs, "totals")
        /\ UNCHANGED <<db, req, result>>
    BY <1>2 DEF SpendInput, Unspent
  <2>2. /\ Authorised(r, n, db.utxos) /\ Consumed(r, n, db.utxos, work[w].utxos)
        /\ in_total[w] = InSum(db.utxos, r.inputs, n)
        /\ r \in Validated /\ r.op = "TRANSFER" /\ idx[w] \in Nat \ {0}
        /\ idx[w] =< Len(r.inputs) /\ tid \in TokenIds /\ DbType(work[w])
    BY <2>1, InsideFacts, LoopElement
       DEF InTransaction, Owes, Stage, TransferLabels, KInv, JInv
  <2>3. r.inputs \in Seq(TokenIds) /\ Len(r.inputs) \in Nat /\ n \in Nat /\ n + 1 = idx[w]
    <3>1. r.inputs \in Seq(TokenIds)
      <4> HIDE DEF r, n, tid
      <4>1. QED BY <2>2, ValidatedFacts
    <3>2. QED BY <2>2, <3>1
  <2>4. InputsOf(r) = r.inputs /\ PayerOf(r) = r.signer /\ FateOf(r) = "SPENT"
    BY <2>2 DEF InputsOf, PayerOf, FateOf
  <2>5. work[w].utxos \in Utxos
    BY <2>2 DEF DbType
  <2>6. /\ row = db.utxos[tid]
        /\ Consumed(r, n + 1, db.utxos, [work[w].utxos EXCEPT ![tid].status = "SPENT"])
    <3>1. tid = InputsOf(r)[n + 1]
      BY <2>3, <2>4
    <3> DEFINE view == work[w].utxos
               old  == db.utxos
               fate == "SPENT"
               new == [view EXCEPT ![tid].status = fate]
    <3>2. /\ view \in Utxos /\ fate = FateOf(r) /\ fate \in {"SPENT", "BURNED"}
          /\ view[tid].status = "UNSPENT" /\ Consumed(r, n, old, view)
          /\ n \in Nat /\ tid \in TokenIds /\ Fated(new, view, tid, fate)
      BY <2>1, <2>2, <2>3, <2>4, <2>5 DEF Fated
    <3> HIDE DEF n, r, tid, view, old, fate, new
    <3>3. view[tid] = old[tid] /\ Consumed(r, n + 1, old, new)
      BY <3>1, <3>2, ConsumeNext
    <3>4. QED BY <3>3 DEF view, old, fate, new
  <2>7. Authorised(r, n + 1, db.utxos)
    <3>1. tid = InputsOf(r)[n + 1]
      BY <2>3, <2>4
    <3> HIDE DEF r, n, tid, row
    <3>2. QED BY <2>1, <2>2, <2>3, <2>4, <2>6, <3>1 DEF Authorised, MaySpend
  <2>8. in_total[w] + row.amount = InSum(db.utxos, r.inputs, n + 1)
    <3>1. n + 1 \in 1 .. Len(r.inputs) /\ tid = r.inputs[n + 1] /\ (n + 1) - 1 = n
      BY <2>2, <2>3
    <3>2. InSum(db.utxos, r.inputs, n + 1)
            = InSum(db.utxos, r.inputs, (n + 1) - 1) + db.utxos[r.inputs[n + 1]].amount
      <4> HIDE DEF r, n
      <4>1. QED BY <2>3, <3>1, InSumStep
    <3> HIDE DEF r, n, tid, row
    <3>3. QED BY <2>2, <2>6, <3>1, <3>2
  <2>9. /\ work' = [work EXCEPT ![w] = work'[w]]
        /\ in_total' = [in_total EXCEPT ![w] = in_total'[w]]
        /\ result' = [result EXCEPT ![w] = result'[w]]
        /\ work'[w].utxos = [work[w].utxos EXCEPT ![tid].status = "SPENT"]
        /\ in_total'[w] = in_total[w] + row.amount
    BY <2>1, <2>2 DEF KInv, JInv, IInv, TypeOK, DbType
  <2>10. /\ pc' = [pc EXCEPT ![w] = pc'[w]] /\ idx' = [idx EXCEPT ![w] = idx'[w]]
         /\ \/ pc'[w] = pc[w] /\ idx'[w] = idx[w] + 1
            \/ pc'[w] = "totals" /\ idx'[w] = 1 /\ idx[w] = Len(r.inputs)
    BY <2>1, <2>2, <2>3, AdvanceCases DEF KInv, JInv
  <2>11. Owes(pc'[w], r, idx'[w] - 1, in_total'[w], result'[w], work'[w], db)
    <3> HIDE DEF r, row, tid
    <3>1. CASE pc'[w] = "spend" /\ idx'[w] - 1 = n + 1
      BY <2>2, <2>6, <2>7, <2>8, <2>9, <3>1 DEF Owes
    <3>2. CASE pc'[w] = "totals" /\ n + 1 = Len(r.inputs)
      BY <2>2, <2>6, <2>7, <2>8, <2>9, <3>2 DEF Owes
    <3>3. QED BY <2>1, <2>3, <2>10, <3>1, <3>2
  <2>12. QED BY <2>1, <2>9, <2>10, <2>11, StatementK
<1>3. QED BY <1>1, <1>2

LEMMA BurnTokenK ==
  ASSUME KInv, JInv', NEW w \in Workers, BurnToken(w) PROVE KInv'
<1> DEFINE r == req[w]
           n == idx[w] - 1
           tid == r.token_ids[idx[w]]
           row == work[w].utxos[tid]
<1>1. CASE Abort(w, "REJECTED")
  BY <1>1, AbortK
<1>2. CASE ~ Abort(w, "REJECTED")
  <2>1. /\ pc[w] = "burn" /\ row.status = "UNSPENT" /\ row.owner = r.owner
        /\ work' = [work EXCEPT ![w].utxos[tid].status = "BURNED"]
        /\ Advance(w, r.token_ids, "burn_audit")
        /\ UNCHANGED <<db, req, in_total, result>>
    BY <1>2 DEF BurnToken, Unspent
  <2>2. /\ Authorised(r, n, db.utxos) /\ Consumed(r, n, db.utxos, work[w].utxos)
        /\ r \in Validated /\ r.op = "BURN" /\ idx[w] \in Nat \ {0}
        /\ idx[w] =< Len(r.token_ids) /\ tid \in TokenIds /\ DbType(work[w])
    BY <2>1, InsideFacts, LoopElement
       DEF InTransaction, Owes, Stage, BurnLabels, KInv, JInv
  <2>3. Len(r.token_ids) \in Nat /\ n \in Nat /\ n + 1 = idx[w]
    <3>1. Len(r.token_ids) \in Nat
      <4> HIDE DEF r, n, tid
      <4>1. QED BY <2>2, ValidatedFacts, MaxListAssumption DEF GoodList
    <3>2. QED BY <2>2, <3>1
  <2>4. InputsOf(r) = r.token_ids /\ PayerOf(r) = r.owner /\ FateOf(r) = "BURNED"
    BY <2>2 DEF InputsOf, PayerOf, FateOf
  <2>5. work[w].utxos \in Utxos
    BY <2>2 DEF DbType
  <2> DEFINE new == [work[w].utxos EXCEPT ![tid].status = "BURNED"]
  <2>6. row = db.utxos[tid] /\ Consumed(r, n + 1, db.utxos, new)
    <3>1. tid = InputsOf(r)[n + 1]
      BY <2>3, <2>4
    <3> DEFINE view == work[w].utxos
               old  == db.utxos
               fate == "BURNED"
    <3>2. /\ view \in Utxos /\ fate = FateOf(r) /\ fate \in {"SPENT", "BURNED"}
          /\ view[tid].status = "UNSPENT" /\ Consumed(r, n, old, view)
          /\ n \in Nat /\ tid \in TokenIds /\ Fated(new, view, tid, fate)
      BY <2>1, <2>2, <2>3, <2>4, <2>5 DEF Fated
    <3> HIDE DEF n, r, tid, view, old, fate, new
    <3>3. view[tid] = old[tid] /\ Consumed(r, n + 1, old, new)
      BY <3>1, <3>2, ConsumeNext
    <3>4. QED BY <3>3 DEF view, old
  <2>7. Authorised(r, n + 1, db.utxos)
    <3>1. tid = InputsOf(r)[n + 1]
      BY <2>3, <2>4
    <3> HIDE DEF r, n, tid, row
    <3>2. QED BY <2>1, <2>2, <2>3, <2>4, <2>6, <3>1 DEF Authorised
  <2>8. /\ work' = [work EXCEPT ![w] = work'[w]]
        /\ in_total' = [in_total EXCEPT ![w] = in_total'[w]]
        /\ result' = [result EXCEPT ![w] = result'[w]]
        /\ work'[w].utxos = new
    BY <2>1, <2>2 DEF KInv, JInv, IInv, TypeOK, DbType
  <2>9. /\ pc' = [pc EXCEPT ![w] = pc'[w]] /\ idx' = [idx EXCEPT ![w] = idx'[w]]
        /\ \/ pc'[w] = pc[w] /\ idx'[w] = idx[w] + 1
           \/ pc'[w] = "burn_audit" /\ idx'[w] = 1 /\ idx[w] = Len(r.token_ids)
    BY <2>1, <2>2, <2>3, AdvanceCases DEF KInv, JInv
  <2>10. Owes(pc'[w], r, idx'[w] - 1, in_total'[w], result'[w], work'[w], db)
    <3> HIDE DEF r, row, tid, new
    <3>1. CASE pc'[w] = "burn" /\ idx'[w] - 1 = n + 1
      BY <2>2, <2>6, <2>7, <2>8, <3>1 DEF Owes
    <3>2. CASE pc'[w] = "burn_audit" /\ n + 1 = Len(r.token_ids)
      BY <2>2, <2>6, <2>7, <2>8, <3>2 DEF Owes, Burned
    <3>3. QED BY <2>1, <2>3, <2>9, <3>1, <3>2
  <2>11. QED BY <2>1, <2>8, <2>9, <2>10, StatementK
<1>3. QED BY <1>1, <1>2

LEMMA CheckTotalsK ==
  ASSUME KInv, JInv', NEW w \in Workers, CheckTotals(w) PROVE KInv'
<1> DEFINE r == req[w]
<1>1. CASE Abort(w, "REJECTED")
  BY <1>1, AbortK
<1>2. CASE ~ Abort(w, "REJECTED")
  <2>1. /\ pc[w] = "totals" /\ in_total[w] = OutTotal(r.outputs) /\ Goto(w, "create")
        /\ UNCHANGED <<db, work, req, idx, in_total, result>>
    BY <1>2 DEF CheckTotals, Balanced
  <2>2. /\ Authorised(r, Len(r.inputs), db.utxos) /\ r \in Validated /\ idx[w] = 1
        /\ Consumed(r, Len(r.inputs), db.utxos, work[w].utxos)
        /\ InSum(db.utxos, r.inputs, Len(r.inputs)) = OutTotal(r.outputs)
        /\ r.op = "TRANSFER"
    BY <2>1, InsideFacts DEF InTransaction, Owes, Stage, TransferLabels
  <2>3. /\ work' = [work EXCEPT ![w] = work'[w]] /\ pc' = [pc EXCEPT ![w] = pc'[w]]
        /\ idx' = [idx EXCEPT ![w] = idx'[w]] /\ idx'[w] - 1 = 0 /\ work'[w] = work[w]
        /\ in_total' = [in_total EXCEPT ![w] = in_total'[w]]
        /\ result' = [result EXCEPT ![w] = result'[w]] /\ pc'[w] = "create"
    BY <2>1, <2>2 DEF Goto, KInv, JInv, IInv, TypeOK
  <2>4. Created(r, 0, db.utxos, work[w].utxos)
    BY <2>2 DEF Created, Consumed, InputsOf, FateOf
  <2>5. Owes(pc'[w], r, idx'[w] - 1, in_total'[w], result'[w], work'[w], db)
    BY <2>2, <2>3, <2>4 DEF Owes
  <2>6. QED BY <2>1, <2>3, <2>5, StatementK
<1>3. QED BY <1>1, <1>2

\* new is view with the token tid created.
Made(new, view, tid, row) == new = [view EXCEPT ![tid] = row]

\* Creating the next output: its id is neither in the database nor among the
\* outputs created before.
LEMMA CreateNext ==
  ASSUME NEW r, NEW n \in Nat, NEW old \in Utxos, NEW view \in Utxos, NEW out, NEW new,
         out = r.outputs[n + 1], out.token_id \in TokenIds,
         \A j \in 1 .. n : r.outputs[j].token_id \in TokenIds,
         Created(r, n, old, view), view[out.token_id].status = "ABSENT",
         Made(new, view, out.token_id, NewRow(out.amount, r.currency, out.receiver))
  PROVE  Created(r, n + 1, old, new)
<1> DEFINE tid == out.token_id
           row == NewRow(out.amount, r.currency, out.receiver)
<1>1. ~ MadeBy(r.outputs, n, tid)
  <2>1. SUFFICES ASSUME NEW j \in 1 .. n, r.outputs[j].token_id = tid PROVE FALSE
    BY DEF MadeBy
  <2>2. view[tid] = NewRow(r.outputs[j].amount, r.currency, r.outputs[j].receiver)
    BY <2>1 DEF Created
  <2>3. QED BY <2>2 DEF NewRow
<1>2. view[tid] = old[tid]
  <2>1. CASE Among(r.inputs, Len(r.inputs), tid)
    <3>1. view[tid] = [old[tid] EXCEPT !.status = "SPENT"]
      BY <1>1, <2>1 DEF Created
    <3>2. old[tid] \in Row \cup {NoRow}
      BY DEF Utxos
    <3>3. view[tid] \in Row \cup {NoRow}
      BY DEF Utxos
    <3>4. QED BY <3>1, <3>2, <3>3 DEF Row, NoRow
  <2>2. CASE ~ Among(r.inputs, Len(r.inputs), tid)
    BY <1>1, <2>2 DEF Created
  <2>3. QED BY <2>1, <2>2
<1>3. new[tid] = row /\ \A t \in TokenIds \ {tid} : new[t] = view[t]
  BY DEF Made, Utxos
<1> HIDE DEF row
<1>4. ASSUME NEW j \in 1 .. n + 1
      PROVE  LET o == r.outputs[j]
             IN  /\ old[o.token_id].status = "ABSENT"
                 /\ new[o.token_id] = NewRow(o.amount, r.currency, o.receiver)
  <2>1. CASE j = n + 1
    BY <1>2, <1>3, <2>1 DEF row
  <2>2. CASE j \in 1 .. n
    <3>1. r.outputs[j].token_id # tid /\ r.outputs[j].token_id \in TokenIds
      BY <1>1, <2>2 DEF MadeBy
    <3>2. QED BY <1>3, <2>2, <3>1 DEF Created
  <2>3. QED BY <2>1, <2>2
<1>5. ASSUME NEW t \in TokenIds, ~ MadeBy(r.outputs, n + 1, t)
      PROVE  new[t] = IF Among(r.inputs, Len(r.inputs), t)
                      THEN [old[t] EXCEPT !.status = "SPENT"] ELSE old[t]
  <2>1. t # tid /\ ~ MadeBy(r.outputs, n, t)
    BY <1>5 DEF MadeBy
  <2>2. QED BY <1>3, <2>1 DEF Created
<1>6. QED BY <1>4, <1>5 DEF Created

LEMMA CreateOutputK ==
  ASSUME KInv, JInv', NEW w \in Workers, CreateOutput(w) PROVE KInv'
<1> DEFINE r == req[w]
           n == idx[w] - 1
           out == r.outputs[idx[w]]
           row == NewRow(out.amount, r.currency, out.receiver)
<1>1. CASE Abort(w, "ERROR")
  BY <1>1, AbortK
<1>2. CASE ~ Abort(w, "ERROR")
  <2>1. /\ pc[w] = "create" /\ work[w].utxos[out.token_id].status = "ABSENT"
        /\ work' = [work EXCEPT ![w].utxos[out.token_id] = row]
        /\ Advance(w, r.outputs, "audit")
        /\ UNCHANGED <<db, req, in_total, result>>
    BY <1>2 DEF CreateOutput, Exists
  <2>2. /\ Authorised(r, Len(r.inputs), db.utxos) /\ Created(r, n, db.utxos, work[w].utxos)
        /\ InSum(db.utxos, r.inputs, Len(r.inputs)) = OutTotal(r.outputs)
        /\ r \in Validated /\ r.op = "TRANSFER" /\ idx[w] \in Nat \ {0}
        /\ idx[w] =< Len(r.outputs) /\ out.token_id \in TokenIds
        /\ DbType(db) /\ DbType(work[w])
    BY <2>1, InsideFacts, LoopElement
       DEF InTransaction, Owes, Stage, TransferLabels, KInv, JInv
  <2>3. r.outputs \in Seq(Outputs) /\ Len(r.outputs) \in Nat /\ n \in Nat /\ n + 1 = idx[w]
    <3>1. r.outputs \in Seq(Outputs)
      <4> HIDE DEF r, n, out
      <4>1. QED BY <2>2, ValidatedFacts
    <3>2. QED BY <2>2, <3>1
  <2> DEFINE new == [work[w].utxos EXCEPT ![out.token_id] = row]
  <2>4. Created(r, n + 1, db.utxos, new)
    <3> DEFINE view == work[w].utxos
               old  == db.utxos
    <3>1. /\ view \in Utxos /\ old \in Utxos /\ n \in Nat /\ out = r.outputs[n + 1]
          /\ out.token_id \in TokenIds /\ view[out.token_id].status = "ABSENT"
          /\ Created(r, n, old, view)
          /\ Made(new, view, out.token_id, NewRow(out.amount, r.currency, out.receiver))
      BY <2>1, <2>2, <2>3 DEF DbType, Made
    <3>2. \A j \in 1 .. n : r.outputs[j].token_id \in TokenIds
      <4>1. n < Len(r.outputs)
        BY <2>2, <2>3
      <4> HIDE DEF r, n, out
      <4>2. \A j \in 1 .. n : r.outputs[j] \in Outputs
        BY <2>3, <4>1
      <4>3. QED BY <4>2 DEF Outputs
    <3> HIDE DEF n, r, out, view, old, new
    <3>3. QED BY <3>1, <3>2, CreateNext DEF old
  <2>5. /\ work' = [work EXCEPT ![w] = work'[w]]
        /\ in_total' = [in_total EXCEPT ![w] = in_total'[w]]
        /\ result' = [result EXCEPT ![w] = result'[w]]
        /\ work'[w].utxos = new
    BY <2>1, <2>2 DEF KInv, JInv, IInv, TypeOK, DbType
  <2>6. /\ pc' = [pc EXCEPT ![w] = pc'[w]] /\ idx' = [idx EXCEPT ![w] = idx'[w]]
        /\ \/ pc'[w] = pc[w] /\ idx'[w] = idx[w] + 1
           \/ pc'[w] = "audit" /\ idx'[w] = 1 /\ idx[w] = Len(r.outputs)
    BY <2>1, <2>2, <2>3, AdvanceCases DEF KInv, JInv
  <2>7. Owes(pc'[w], r, idx'[w] - 1, in_total'[w], result'[w], work'[w], db)
    <3> HIDE DEF r, row, out, new
    <3>1. CASE pc'[w] = "create" /\ idx'[w] - 1 = n + 1
      BY <2>2, <2>4, <2>5, <3>1 DEF Owes
    <3>2. CASE pc'[w] = "audit" /\ n + 1 = Len(r.outputs)
      BY <2>2, <2>4, <2>5, <3>2 DEF Owes
    <3>3. QED BY <2>1, <2>3, <2>6, <3>1, <3>2
  <2>8. QED BY <2>1, <2>5, <2>6, <2>7, StatementK
<1>3. QED BY <1>1, <1>2

\* Writing the audit row under id completes the operation in the view.
LEMMA AuditK ==
  ASSUME KInv, JInv', NEW w \in Workers, NEW id \in TxIds, Audit(w, id),
         pc[w] \in {"audit", "burn_audit"},
         Moved(req[w], id, db.utxos, work[w].utxos)
  PROVE  KInv'
<1> DEFINE r == req[w]
           row == AuditRow(db.audit, id, r.op, Payload(r))
<1>1. CASE Abort(w, "ERROR")
  BY <1>1, AbortK
<1>2. CASE ~ Abort(w, "ERROR")
  <2>1. /\ r \in Validated /\ DbType(work[w]) /\ work[w].audit = db.audit
    BY InsideFacts DEF InTransaction, Local, Trail, BeforeAudit, AfterClaim
  <2>2. /\ FreshAuditId(db.audit, id)
        /\ work' = [work EXCEPT ![w].audit = Append(work[w].audit, row)]
        /\ result' = [result EXCEPT ![w] = Answer(r, id)]
        /\ Goto(w, "complete") /\ UNCHANGED <<db, req, idx, in_total>>
    BY <1>2, <2>1 DEF Audit, KInv, JInv, IInv, TypeOK
  <2> HIDE DEF row
  <2>3. /\ work' = [work EXCEPT ![w] = work'[w]] /\ pc' = [pc EXCEPT ![w] = pc'[w]]
        /\ idx' = [idx EXCEPT ![w] = idx'[w]]
        /\ in_total' = [in_total EXCEPT ![w] = in_total'[w]]
        /\ result' = [result EXCEPT ![w] = result'[w]]
        /\ work'[w] = [work[w] EXCEPT !.audit = Append(work[w].audit, row)]
        /\ result'[w] = Answer(r, id) /\ pc'[w] = "complete"
    BY <2>2 DEF Goto, KInv, JInv, IInv, TypeOK
  <2>4. work'[w].utxos = work[w].utxos /\ work'[w].audit = Append(db.audit, row)
    BY <2>1, <2>3 DEF DbType
  <2>5. CarriedOut(r, id, db, work'[w])
    BY <2>2, <2>4 DEF CarriedOut, row
  <2>6. Owes(pc'[w], r, idx'[w] - 1, in_total'[w], result'[w], work'[w], db)
    BY <2>1, <2>3, <2>5 DEF Owes
  <2>7. QED BY <2>2, <2>3, <2>6, StatementK
<1>3. QED BY <1>1, <1>2

LEMMA AuditTransferK ==
  ASSUME KInv, JInv', NEW w \in Workers, AuditTransfer(w) PROVE KInv'
<1>1. /\ pc[w] = "audit" /\ req[w] \in Validated /\ req[w].op = "TRANSFER"
      /\ Authorised(req[w], Len(req[w].inputs), db.utxos)
      /\ InSum(db.utxos, req[w].inputs, Len(req[w].inputs)) = OutTotal(req[w].outputs)
      /\ Created(req[w], Len(req[w].outputs), db.utxos, work[w].utxos)
  BY InsideFacts DEF AuditTransfer, InTransaction, Owes, Stage, TransferLabels
<1>2. req[w].transaction_id \in TxIds
  BY <1>1, ValidatedFacts DEF TxRequest
<1>3. Moved(req[w], req[w].transaction_id, db.utxos, work[w].utxos)
  BY <1>1 DEF Moved, Transferred
<1>4. QED BY <1>1, <1>2, <1>3, AuditK DEF AuditTransfer

LEMMA AuditBurnK ==
  ASSUME KInv, JInv', NEW w \in Workers, AuditBurn(w) PROVE KInv'
<1>1. /\ pc[w] = "burn_audit" /\ req[w].op = "BURN" /\ Burned(req[w], db.utxos, work[w].utxos)
  BY InsideFacts DEF AuditBurn, InTransaction, Owes, Stage, BurnLabels
<1>2. PICK id \in BurnIds : Audit(w, id)
  BY DEF AuditBurn
<1>3. id \in TxIds /\ Moved(req[w], id, db.utxos, work[w].utxos)
  BY <1>1, RandomIdsAssumption DEF Moved
<1>4. QED BY <1>1, <1>2, <1>3, AuditK

LEMMA MintTokenK ==
  ASSUME KInv, JInv', NEW w \in Workers, MintToken(w) PROVE KInv'
<1> DEFINE r == req[w]
           new == NewRow(r.amount, r.currency, r.public_key)
           entry(tid) == AuditRow(db.audit, tid, "MINT", Payload(r))
<1>1. CASE Abort(w, "ERROR")
  BY <1>1, AbortK
<1>2. CASE ~ Abort(w, "ERROR")
  <2>1. /\ pc[w] = "mint" /\ r \in Validated /\ DbType(work[w]) /\ r.op = "MINT"
        /\ work[w].audit = db.audit /\ work[w].utxos = db.utxos
    BY InsideFacts
       DEF MintToken, InTransaction, Local, Trail, BeforeAudit, AfterClaim, Owes, Stage
  <2>2. PICK tid \in MintIds :
          /\ db.utxos[tid].status = "ABSENT" /\ FreshAuditId(db.audit, tid)
          /\ work' = [work EXCEPT ![w].utxos[tid] = new,
                                  ![w].audit = Append(@, entry(tid))]
          /\ result' = [result EXCEPT ![w] = Answer(r, tid)]
          /\ Goto(w, "complete") /\ UNCHANGED <<db, req, idx, in_total>>
    BY <1>2, <2>1 DEF MintToken, Exists, KInv, JInv, IInv, TypeOK
  <2> DEFINE row == entry(tid)
  <2>3. tid \in TokenIds /\ tid \in TxIds
    BY RandomIdsAssumption, IdsAssumption
  <2>4. /\ work' = [work EXCEPT ![w] = work'[w]] /\ result' = [result EXCEPT ![w] = result'[w]]
        /\ work'[w] = [work[w] EXCEPT !.utxos[tid] = new,
                                      !.audit = Append(work[w].audit, row)]
    <3> HIDE DEF new
    <3>1. QED BY <2>1, <2>2 DEF KInv, JInv, IInv, TypeOK, DbType
  <2> HIDE DEF new, row
  <2>5. /\ pc' = [pc EXCEPT ![w] = pc'[w]] /\ idx' = [idx EXCEPT ![w] = idx'[w]]
        /\ in_total' = [in_total EXCEPT ![w] = in_total'[w]]
        /\ result'[w] = Answer(r, tid) /\ pc'[w] = "complete"
    BY <2>2 DEF Goto, KInv, JInv, IInv, TypeOK
  <2>6. /\ work'[w].audit = Append(db.audit, row)
        /\ work'[w].utxos = [db.utxos EXCEPT ![tid] = new]
    BY <2>1, <2>4 DEF DbType
  <2>7. CarriedOut(r, tid, db, work'[w])
    BY <2>1, <2>2, <2>3, <2>6 DEF CarriedOut, Moved, MintedToken, row, new
  <2>8. Owes(pc'[w], r, idx'[w] - 1, in_total'[w], result'[w], work'[w], db)
    BY <2>1, <2>3, <2>5, <2>7 DEF Owes
  <2>9. QED BY <2>2, <2>4, <2>5, <2>8, StatementK
<1>3. QED BY <1>1, <1>2

LEMMA IdemCompleteK ==
  ASSUME KInv, JInv', NEW w \in Workers, IdemComplete(w) PROVE KInv'
<1>1. CASE Abort(w, "ERROR")
  BY <1>1, AbortK
<1>2. CASE ~ Abort(w, "ERROR")
  <2>1. /\ pc[w] = "complete"
        /\ work' = [work EXCEPT ![w].idem[KeyOf(w)] = CompleteEntry(result[w])]
        /\ Goto(w, "commit") /\ UNCHANGED <<db, req, idx, in_total, result>>
    BY <1>2 DEF IdemComplete, KeyOf
  <2>2. /\ DbType(work[w]) /\ req[w] \in Validated
        /\ \E id \in TxIds : result[w] = Answer(req[w], id)
                             /\ CarriedOut(req[w], id, db, work[w])
    BY <2>1, InsideFacts DEF InTransaction, Owes
  <2>3. /\ work' = [work EXCEPT ![w] = work'[w]] /\ pc' = [pc EXCEPT ![w] = pc'[w]]
        /\ idx' = [idx EXCEPT ![w] = idx'[w]]
        /\ in_total' = [in_total EXCEPT ![w] = in_total'[w]]
        /\ result' = [result EXCEPT ![w] = result'[w]]
        /\ work'[w] = [work[w] EXCEPT !.idem[KeyOf(w)] = CompleteEntry(result[w])]
        /\ pc'[w] = "commit" /\ result'[w] = result[w]
    BY <2>1 DEF Goto, KInv, JInv, IInv, TypeOK
  <2>4. work'[w].utxos = work[w].utxos /\ work'[w].audit = work[w].audit
    BY <2>2, <2>3 DEF DbType
  <2>5. \A id : CarriedOut(req[w], id, db, work[w]) => CarriedOut(req[w], id, db, work'[w])
    BY <2>4 DEF CarriedOut
  <2>6. Owes(pc'[w], req[w], idx'[w] - 1, in_total'[w], result'[w], work'[w], db)
    BY <2>2, <2>3, <2>5 DEF Owes
  <2>7. QED BY <2>1, <2>3, <2>6, StatementK
<1>3. QED BY <1>1, <1>2

----------------------------------------------------------------------------
(* COMMIT                                                                   *)

LEMMA CommitK ==
  ASSUME KInv, JInv', NEW w \in Workers, Commit(w) PROVE KInv'
<1>1. ASSUME NEW v \in Workers PROVE Progress(v)'
  <2>1. CASE v = w
    <3>1. pc'[v] = "respond" /\ in_total'[v] = 0
      BY <2>1 DEF Commit, Finish, DropLocals, KInv, JInv, IInv, TypeOK
    <3>2. QED BY <3>1, ProgressOut
  <2>2. CASE v # w
    <3>1. ~ InTransaction(v)
      BY <2>2 DEF KInv, JInv, IInv, LockHolder, Commit, InTransaction
    <3>2. /\ pc'[v] = pc[v] /\ req'[v] = req[v] /\ in_total'[v] = in_total[v]
      BY <2>2 DEF Commit, Finish, DropLocals, KInv, JInv, IInv, TypeOK
    <3>3. pc'[v] \in {"down", "idle", "begin", "respond"}
      BY <3>1, <3>2 DEF KInv, JInv, IInv, TypeOK, Labels, InTransaction
    <3>4. Owes(pc[v], req[v], idx[v] - 1, in_total[v], result[v], work[v], db)
      BY DEF KInv, Progress
    <3>5. (pc[v] = "begin" => req[v] \in Validated) /\ in_total[v] = 0
      BY <3>2, <3>3, <3>4 DEF Owes
    <3>6. QED BY <3>2, <3>3, <3>5, ProgressOut
  <2>3. QED BY <2>1, <2>2
<1>2. QED BY <1>1 DEF KInv

LEMMA NextKInv == KInv /\ [Next]_vars => KInv'
<1> SUFFICES ASSUME KInv, [Next]_vars PROVE KInv'
  OBVIOUS
<1>1. JInv'
  BY NextJInv DEF KInv
<1>2. CASE UNCHANGED vars
  <2>1. ASSUME NEW v \in Workers PROVE Progress(v)'
    BY <1>2, ProgressFrame DEF vars, KInv
  <2>2. QED BY <1>1, <2>1 DEF KInv
<1>3. ASSUME NEW w \in Workers, Startup(w) \/ Receive(w) \/ Refuse(w) \/ Crash(w) PROVE KInv'
  BY <1>1, <1>3, OutsideK
<1>4. ASSUME NEW w \in Workers, Serve(w) PROVE KInv'
  BY <1>1, <1>4, OutsideK, BeginK, IdemAcquireK, SpendInputK, CheckTotalsK, CreateOutputK,
     AuditTransferK, MintTokenK, BurnTokenK, AuditBurnK, IdemCompleteK, CommitK DEF Serve
<1>5. ASSUME NEW w \in Workers, Fault(w) PROVE KInv'
  BY <1>1, <1>5, AbortK DEF Fault
<1>6. QED BY <1>2, <1>3, <1>4, <1>5 DEF Next

\* What a commit does: it carries out one validated request, whose key had no
\* answer, and stores the answer.
LEMMA CommitCarriesOut ==
  ASSUME KInv, NEW w \in Workers, Commit(w)
  PROVE  \E r \in Validated, id \in TxIds :
           /\ CarriedOut(r, id, db, db')
           /\ IdemKey(r) \in IdemKeys /\ db.idem[IdemKey(r)].status = "ABSENT"
           /\ db'.idem = [db.idem EXCEPT ![IdemKey(r)] = CompleteEntry(Answer(r, id))]
<1>1. pc[w] = "commit" /\ db' = work[w]
  BY DEF Commit, EndTransaction
<1>2. /\ req[w] \in Validated
      /\ \E id \in TxIds : result[w] = Answer(req[w], id)
                           /\ CarriedOut(req[w], id, db, work[w])
  BY <1>1, InsideFacts DEF InTransaction, Owes
<1>3. QED BY <1>1, <1>2, CommitEffect DEF KInv, KeyOf

----------------------------------------------------------------------------
(* Refinement: the tables as Ledger sees them                               *)

Done(d) == [k \in IdemKeys |-> d.idem[k].response]

Journal(d) ==
  [i \in 1 .. Len(d.audit) |->
     [tx_id |-> d.audit[i].tx_id, action |-> d.audit[i].action,
      payload |-> d.audit[i].payload]]

\* Ledger's names for the operators of LedgerTypes mean the same.
LEMMA LedgerNames ==
  /\ L!NoRow = NoRow /\ L!NoAnswer = NoAnswer /\ L!IdemKeys = IdemKeys
  /\ \A r : /\ L!Payload(r) = Payload(r) /\ L!IdemKey(r) = IdemKey(r)
            /\ L!Parsed(r) = Parsed(r) /\ L!Admissible(r) <=> Admissible(r)
  /\ \A r, id : L!Answer(r, id) = Answer(r, id)
  /\ \A a, c, o : L!NewRow(a, c, o) = NewRow(a, c, o)
  /\ \A outputs : L!OutTotal(outputs) = OutTotal(outputs)
<1>1. /\ L!NoRow = NoRow /\ L!NoAnswer = NoAnswer /\ L!IdemKeys = IdemKeys
      /\ \A a, c, o : L!NewRow(a, c, o) = NewRow(a, c, o)
  BY DEF L!NoRow, NoRow, L!NoAnswer, NoAnswer, L!IdemKeys, IdemKeys, L!NewRow, NewRow
<1>2. ASSUME NEW r
      PROVE  /\ L!Payload(r) = Payload(r) /\ L!IdemKey(r) = IdemKey(r)
             /\ L!Parsed(r) = Parsed(r)
  BY DEF L!Payload, Payload, L!IdemKey, IdemKey, L!Parsed, Parsed, L!ToDecimal, ToDecimal
<1>3. ASSUME NEW r
      PROVE  L!Admissible(r) <=> Admissible(r)
  BY DEF L!Admissible, Admissible, L!AdmitTransfer, AdmitTransfer, L!AdmitMint, AdmitMint,
         L!AdmitBurn, AdmitBurn, L!GoodList, GoodList, L!Distinct, Distinct,
         L!PositiveAmount, PositiveAmount
<1>4. ASSUME NEW r, NEW id
      PROVE  L!Answer(r, id) = Answer(r, id)
  BY DEF L!Answer, Answer, L!NoAnswer, NoAnswer
<1>5. ASSUME NEW outputs
      PROVE  L!OutTotal(outputs) = OutTotal(outputs)
  BY DEF L!OutTotal, OutTotal
<1>6. QED BY <1>1, <1>2, <1>3, <1>4, <1>5

LEMMA InitRefines == Init => L!Init
<1> SUFFICES ASSUME Init PROVE L!Init
  OBVIOUS
<1>1. db.utxos = [t \in TokenIds |-> L!NoRow]
  BY LedgerNames DEF Init, EmptyDb
<1>2. Done(db) = [k \in L!IdemKeys |-> L!NoAnswer]
  BY LedgerNames DEF Init, EmptyDb, Done, NoEntry
<1>3. Journal(db) = <<>>
  BY DEF Init, EmptyDb, Journal
<1>4. QED BY <1>1, <1>2, <1>3 DEF L!Init, Done, Journal

\* The answer and the audit row of a commit are Ledger's record of it.
LEMMA CommitRecords ==
  ASSUME KInv, KInv', NEW r \in Validated, NEW id \in TxIds, CarriedOut(r, id, db, db'),
         IdemKey(r) \in IdemKeys, db.idem[IdemKey(r)].status = "ABSENT",
         db'.idem = [db.idem EXCEPT ![IdemKey(r)] = CompleteEntry(Answer(r, id))]
  PROVE  L!Record(r, id)
<1> DEFINE key == IdemKey(r)
           row == AuditRow(db.audit, id, r.op, Payload(r))
           entry == [tx_id |-> id, action |-> r.op, payload |-> Payload(r)]
<1>1. DbType(db) /\ DbType(db')
  BY DEF KInv, JInv, IInv, TypeOK, DbType
<1>2. Done(db)[key] = NoAnswer
  <2>1. db.idem[key] = NoEntry
    BY <1>1 DEF DbType, IdemEntries, NoEntry
  <2>2. QED BY <2>1 DEF Done, NoEntry
<1>3. \A i \in 1 .. Len(Journal(db)) : Journal(db)[i].tx_id # id
  <2>1. db.audit \in Seq(AuditRows(Hashes(db.audit)))
    BY <1>1 DEF DbType
  <2>2. Len(Journal(db)) = Len(db.audit)
    BY <2>1 DEF Journal
  <2>3. QED BY <2>1, <2>2 DEF Journal, CarriedOut, FreshAuditId
<1>4. Done(db') = [Done(db) EXCEPT ![key] = Answer(r, id)]
  <2>1. db.idem \in [IdemKeys -> IdemEntries]
    BY <1>1 DEF DbType
  <2> HIDE DEF key
  <2>2. \A k \in IdemKeys : db'.idem[k].response = IF k = key THEN Answer(r, id)
                                                   ELSE db.idem[k].response
    BY <2>1 DEF CompleteEntry, key
  <2>3. QED BY <2>2 DEF Done
<1>5. Journal(db') = Append(Journal(db), entry)
  <2>1. /\ db.audit \in Seq(AuditRows(Hashes(db.audit))) /\ db'.audit = Append(db.audit, row)
    BY <1>1 DEF DbType, CarriedOut
  <2>2. /\ Len(db'.audit) = Len(db.audit) + 1 /\ Len(db.audit) \in Nat
        /\ db'.audit[Len(db.audit) + 1] = row
        /\ \A i \in 1 .. Len(db.audit) : db'.audit[i] = db.audit[i]
    BY <2>1
  <2>3. /\ row.tx_id = id /\ row.action = r.op /\ row.payload = Payload(r)
    BY DEF AuditRow
  <2> HIDE DEF row, entry
  <2> DEFINE E(i) == [tx_id |-> db.audit[i].tx_id, action |-> db.audit[i].action,
                      payload |-> db.audit[i].payload]
             F(i) == [tx_id |-> db'.audit[i].tx_id, action |-> db'.audit[i].action,
                      payload |-> db'.audit[i].payload]
             S    == {E(i) : i \in 1 .. Len(db.audit)} \cup {entry}
  <2>4. /\ \A i \in 1 .. Len(db.audit) : F(i) = E(i)
        /\ F(Len(db.audit) + 1) = entry
    BY <2>2, <2>3 DEF entry
  <2>5. \A i \in 1 .. Len(db.audit) : E(i) \in S
    OBVIOUS
  <2>6. entry \in S
    OBVIOUS
  <2> DEFINE n == Len(db.audit)
             j == [i \in 1 .. n |-> E(i)]
  <2>7. n \in Nat
    BY <2>2
  <2> HIDE DEF E, S, n
  <2>8. j \in Seq(S) /\ Len(j) = n
    BY <2>5, <2>7 DEF n
  <2> HIDE DEF F
  <2>9. [i \in 1 .. n + 1 |-> F(i)] = Append(j, entry)
    BY <2>4, <2>6, <2>7, <2>8 DEF n
  <2>10. Journal(db) = j /\ Journal(db') = [i \in 1 .. n + 1 |-> F(i)]
    BY <2>2 DEF Journal, n, E, F
  <2>11. QED BY <2>9, <2>10
<1>6. L!FreshEntryId(id)
  BY <1>3 DEF L!FreshEntryId, Journal
<1>7. L!Entry(r, id) = entry
  BY LedgerNames DEF L!Entry
<1>8. QED
  BY <1>2, <1>4, <1>5, <1>6, <1>7, LedgerNames DEF L!Record, Done, Journal

\* What each operation does to the tokens is what Ledger says.
LEMMA MintRefines ==
  ASSUME NEW r, NEW id, MintedToken(r, id, db.utxos, db'.utxos), L!Record(r, id)
  PROVE  L!Mint(r)
BY LedgerNames DEF L!Mint, L!Exists, MintedToken

LEMMA AvailableRefines ==
  ASSUME NEW r, NEW ids, ids = InputsOf(r), Authorised(r, Len(ids), db.utxos)
  PROVE  L!Available(ids, PayerOf(r))
BY DEF L!Available, L!Unspent, Authorised

LEMMA BurnRefines ==
  ASSUME NEW r, r.op = "BURN", NEW id \in TxIds, Burned(r, db.utxos, db'.utxos),
         db'.utxos \in Utxos, L!Record(r, id)
  PROVE  L!Burn(r)
<1>1. InputsOf(r) = r.token_ids /\ PayerOf(r) = r.owner /\ FateOf(r) = "BURNED"
  BY DEF InputsOf, PayerOf, FateOf
<1>2. L!Available(r.token_ids, r.owner)
  BY <1>1, AvailableRefines DEF Burned
<1>3. \A t \in TokenIds :
        db'.utxos[t] = IF \E i \in 1 .. Len(r.token_ids) : r.token_ids[i] = t
                       THEN [db.utxos[t] EXCEPT !.status = "BURNED"] ELSE db.utxos[t]
  BY <1>1 DEF Burned, Consumed, Among
<1>4. db'.utxos = [t \in TokenIds |->
        IF \E i \in 1 .. Len(r.token_ids) : r.token_ids[i] = t
        THEN [db.utxos[t] EXCEPT !.status = "BURNED"] ELSE db.utxos[t]]
  BY <1>3 DEF Utxos
<1>5. QED BY <1>2, <1>4 DEF L!Burn

LEMMA TransferRefines ==
  ASSUME NEW r, r.op = "TRANSFER", NEW id, Transferred(r, id, db.utxos, db'.utxos),
         db'.utxos \in Utxos, L!Record(r, id)
  PROVE  L!Transfer(r)
<1> DEFINE outOf(t) == {i \in 1 .. Len(r.outputs) : r.outputs[i].token_id = t}
           isIn(t)  == \E i \in 1 .. Len(r.inputs) : r.inputs[i] = t
           made(t)  == LET out == r.outputs[CHOOSE i \in outOf(t) : TRUE]
                       IN  NewRow(out.amount, r.currency, out.receiver)
<1>1. InputsOf(r) = r.inputs /\ PayerOf(r) = r.signer /\ FateOf(r) = "SPENT"
  BY DEF InputsOf, PayerOf, FateOf
<1>2. /\ L!Available(r.inputs, r.signer)
      /\ \A i \in 1 .. Len(r.inputs) : /\ db.utxos[r.inputs[i]].currency = r.currency
                                       /\ db.utxos[r.inputs[i]].status = "UNSPENT"
  BY <1>1, AvailableRefines DEF Transferred, Authorised
<1>3. L!InTotal(r.inputs) = L!OutTotal(r.outputs)
  BY LedgerNames DEF Transferred, InSum, L!InTotal
<1>4. \A i \in 1 .. Len(r.outputs) : db.utxos[r.outputs[i].token_id].status = "ABSENT"
  BY DEF Transferred, Created
<1>5. ASSUME NEW t \in TokenIds
      PROVE  db'.utxos[t] = IF isIn(t) THEN [db.utxos[t] EXCEPT !.status = "SPENT"]
                            ELSE IF outOf(t) # {} THEN made(t) ELSE db.utxos[t]
  <2>1. CASE outOf(t) # {}
    <3> DEFINE j == CHOOSE i \in outOf(t) : TRUE
    <3>1. j \in outOf(t)
      BY <2>1
    <3> HIDE DEF j
    <3>2. /\ db'.utxos[t] = NewRow(r.outputs[j].amount, r.currency, r.outputs[j].receiver)
          /\ db.utxos[t].status = "ABSENT"
      BY <3>1 DEF Transferred, Created
    <3>3. ~ isIn(t)
      BY <1>2, <3>2
    <3>4. QED BY <2>1, <3>2, <3>3 DEF j
  <2>2. CASE outOf(t) = {}
    <3>1. ~ MadeBy(r.outputs, Len(r.outputs), t)
      BY <2>2 DEF MadeBy
    <3>2. isIn(t) <=> Among(r.inputs, Len(r.inputs), t)
      BY DEF Among
    <3>3. QED BY <2>2, <3>1, <3>2 DEF Transferred, Created
  <2>3. QED BY <2>1, <2>2
<1>6. db'.utxos = [t \in TokenIds |->
        IF isIn(t) THEN [db.utxos[t] EXCEPT !.status = "SPENT"]
        ELSE IF outOf(t) # {} THEN made(t) ELSE db.utxos[t]]
  <2> HIDE DEF made, outOf, isIn
  <2>1. QED BY <1>5 DEF Utxos
<1>7. L!Record(r, r.transaction_id)
  BY DEF Transferred
<1>8. QED
  BY <1>2, <1>3, <1>4, <1>6, <1>7, LedgerNames DEF L!Transfer, L!Exists

LEMMA CommitRefines ==
  ASSUME KInv, KInv', NEW w \in Workers, Commit(w)
  PROVE  L!Next
<1>1. PICK r \in Validated, id \in TxIds :
        /\ CarriedOut(r, id, db, db')
        /\ IdemKey(r) \in IdemKeys /\ db.idem[IdemKey(r)].status = "ABSENT"
        /\ db'.idem = [db.idem EXCEPT ![IdemKey(r)] = CompleteEntry(Answer(r, id))]
  BY CommitCarriesOut
<1>2. L!Record(r, id)
  BY <1>1, CommitRecords
<1>3. db'.utxos \in Utxos
  BY DEF KInv, JInv, IInv, TypeOK, DbType
<1>4. \/ r.op = "MINT" /\ L!Mint(r)
      \/ r.op = "TRANSFER" /\ L!Transfer(r)
      \/ r.op = "BURN" /\ L!Burn(r)
  BY <1>1, <1>2, <1>3, MintRefines, TransferRefines, BurnRefines DEF CarriedOut, Moved
<1>5. PICK sent \in Requests : Admissible(sent) /\ r = Parsed(sent)
  BY DEF Validated
<1>6. r \in {L!Parsed(q) : q \in {p \in Requests : L!Admissible(p)}}
  BY <1>5, LedgerNames
<1>7. QED BY <1>4, <1>6 DEF L!Next

\* hamilton-core implements Ledger: mint, process_tx and burn, each many SQL
\* statements that may fail or be killed anywhere, and run in several
\* processes, are seen as single steps of an abstract ledger that answers
\* each idempotency key at most once.  Every COMMIT is a step of the ledger,
\* and every other statement changes nothing that it can see.
THEOREM CoreImplementsLedger == Spec => ImplementsLedger
<1>1. Init => L!Init
  BY InitRefines
<1>2. KInv /\ KInv' /\ [Next]_vars => [L!Next]_(L!vars)
  <2>1. SUFFICES ASSUME KInv, KInv', [Next]_vars PROVE [L!Next]_(L!vars)
    OBVIOUS
  <2>2. CASE db' = db
    BY <2>2 DEF L!vars
  <2>3. CASE \E w \in Workers : Commit(w)
    BY <2>1, <2>3, CommitRefines
  <2>4. QED BY <2>1, <2>2, <2>3, OnlyCommitWrites DEF KInv
<1>3. QED
  BY <1>1, <1>2, InitKInv, NextKInv, PTL DEF Spec, ImplementsLedger, L!Spec

----------------------------------------------------------------------------
(* Sums over the tables                                                     *)

Amounts(u) == [t \in TokenIds |-> u[t].amount]

\* The tokens of currency c whose status is in S.
Held(u, c, S) == {t \in TokenIds : u[t].status \in S /\ u[t].currency = c}

LEMMA ValueIs ==
  ASSUME NEW c, NEW S, IsFiniteSet(Held(db.utxos, c, S))
  PROVE  Value(c, S) = SumOver(Amounts(db.utxos), Held(db.utxos, c, S))
<1> DEFINE A == Amounts(db.utxos)
           T == Held(db.utxos, c, S)
           Eq(g) == g = [s \in SUBSET T |->
                           IF s = {} THEN 0
                           ELSE db.utxos[CHOOSE x \in s : TRUE].amount
                                + g[s \ {CHOOSE x \in s : TRUE}]]
           g == CHOOSE g : Eq(g)
<1>1. ASSUME NEW h
      PROVE  Eq(h) <=> SumEquation(A, h, SUBSET T)
  <2>1. ASSUME NEW s \in SUBSET T, s # {}
        PROVE  A[Some(s)] = db.utxos[CHOOSE x \in s : TRUE].amount
    <3>1. Some(s) \in TokenIds
      BY <2>1 DEF Some, Held
    <3>2. QED BY <3>1 DEF Amounts, Some
  <2>2. \A s \in SUBSET T :
          (IF s = {} THEN 0 ELSE A[Some(s)] + h[s \ {Some(s)}])
            = IF s = {} THEN 0 ELSE db.utxos[CHOOSE x \in s : TRUE].amount
                                    + h[s \ {CHOOSE x \in s : TRUE}]
    BY <2>1 DEF Some
  <2> HIDE DEF A, T
  <2>3. QED BY <2>2, Zenon DEF SumEquation
<1>2. Eq(g)
  <2>1. \E h : Eq(h)
    BY <1>1, SumExists
  <2> HIDE DEF Eq
  <2>2. QED BY <2>1
<1>3. Value(c, S) = g[T]
  BY DEF Value, Held, MapThenSumSet, MapThenFoldSet
<1> HIDE DEF g, A, T, Eq
<1>4. g[T] = SumOver(A, T)
  BY <1>1, <1>2, SumOverIs DEF T
<1>5. QED BY <1>3, <1>4 DEF A, T

\* Value of the mint rows, by their place in the audit trail.
MintAmounts(audit) == [i \in 1 .. Len(audit) |-> audit[i].payload.amount]

Mints(audit, c) ==
  {i \in 1 .. Len(audit) : audit[i].action = "MINT" /\ audit[i].payload.currency = c}

LEMMA MintedIs ==
  ASSUME NEW c, Len(db.audit) \in Nat
  PROVE  /\ IsFiniteSet(Mints(db.audit, c))
         /\ Minted(c) = SumOver(MintAmounts(db.audit), Mints(db.audit, c))
<1> DEFINE A == MintAmounts(db.audit)
           T == Mints(db.audit, c)
           Eq(g) == g = [s \in SUBSET T |->
                           IF s = {} THEN 0
                           ELSE db.audit[CHOOSE x \in s : TRUE].payload.amount
                                + g[s \ {CHOOSE x \in s : TRUE}]]
           g == CHOOSE g : Eq(g)
<1>0. IsFiniteSet(T)
  <2>1. IsFiniteSet(1 .. Len(db.audit)) /\ T \subseteq 1 .. Len(db.audit)
    BY FS_Interval DEF Mints
  <2>2. QED BY <2>1, FS_Subset
<1>1. ASSUME NEW h
      PROVE  Eq(h) <=> SumEquation(A, h, SUBSET T)
  <2>1. ASSUME NEW s \in SUBSET T, s # {}
        PROVE  A[Some(s)] = db.audit[CHOOSE x \in s : TRUE].payload.amount
    <3>1. Some(s) \in 1 .. Len(db.audit)
      BY <2>1 DEF Some, Mints
    <3>2. QED BY <3>1 DEF MintAmounts, Some
  <2>2. \A s \in SUBSET T :
          (IF s = {} THEN 0 ELSE A[Some(s)] + h[s \ {Some(s)}])
            = IF s = {} THEN 0 ELSE db.audit[CHOOSE x \in s : TRUE].payload.amount
                                    + h[s \ {CHOOSE x \in s : TRUE}]
    BY <2>1 DEF Some
  <2> HIDE DEF A, T
  <2>3. QED BY <2>2, Zenon DEF SumEquation
<1>2. Eq(g)
  <2>1. \E h : Eq(h)
    <3> HIDE DEF A, T, Eq
    <3>1. PICK h : SumEquation(A, h, SUBSET T)
      BY <1>0, SumExists
    <3>2. QED BY <1>1, <3>1
  <2> HIDE DEF Eq
  <2>2. QED BY <2>1
<1>3. Minted(c) = g[T]
  BY DEF Minted, Mints, MapThenSumSet, MapThenFoldSet
<1> HIDE DEF g, A, T, Eq
<1>4. g[T] = SumOver(A, T)
  BY <1>0, <1>1, <1>2, SumOverIs
<1>5. QED BY <1>0, <1>3, <1>4 DEF A, T

----------------------------------------------------------------------------
(* What one commit does to one token, and what its audit row says of it     *)

\* row is an audit row that tells of r.
Tells(row, r, id) == row.action = r.op /\ row.payload = Payload(r) /\ row.tx_id = id

LEMMA TokenEffect ==
  ASSUME NEW r \in Validated, NEW id \in TxIds, NEW old \in Utxos, NEW new \in Utxos,
         Moved(r, id, old, new), NEW row, Tells(row, r, id), NEW t \in TokenIds
  PROVE  \/ /\ Creates(row, t) /\ ~ Spends(row, t) /\ ~ Burns(row, t)
            /\ old[t].status = "ABSENT" /\ new[t].status = "UNSPENT"
         \/ /\ ~ Creates(row, t) /\ Spends(row, t) /\ ~ Burns(row, t)
            /\ old[t].status = "UNSPENT" /\ new[t].status = "SPENT"
            /\ new[t].owner = row.payload.signer /\ new[t].currency = row.payload.currency
         \/ /\ ~ Creates(row, t) /\ ~ Spends(row, t) /\ Burns(row, t)
            /\ old[t].status = "UNSPENT" /\ new[t].status = "BURNED"
            /\ new[t].owner = row.payload.owner
         \/ /\ ~ Creates(row, t) /\ ~ Spends(row, t) /\ ~ Burns(row, t)
            /\ new[t] = old[t]
<1>0. old[t] \in Row \cup {NoRow} /\ row.action = r.op /\ row.payload = Payload(r)
      /\ row.tx_id = id
  BY DEF Utxos, Tells
<1>1. CASE r.op = "MINT" /\ MintedToken(r, id, old, new)
  <2>1. Creates(row, t) <=> t = id
    BY <1>0, <1>1 DEF Creates
  <2>2. ~ Spends(row, t) /\ ~ Burns(row, t)
    BY <1>0, <1>1 DEF Spends, Burns
  <2>3. t = id => old[t].status = "ABSENT" /\ new[t].status = "UNSPENT"
    BY <1>1 DEF MintedToken, NewRow, Utxos
  <2>4. t # id => new[t] = old[t]
    BY <1>1 DEF MintedToken, Utxos
  <2>5. QED BY <2>1, <2>2, <2>3, <2>4
<1>2. CASE r.op = "TRANSFER" /\ Transferred(r, id, old, new)
  <2>1. /\ row.payload.inputs = r.inputs /\ row.payload.outputs = r.outputs
        /\ row.payload.signer = r.signer /\ row.payload.currency = r.currency
    BY <1>0, <1>2 DEF Payload
  <2>2. /\ Creates(row, t) <=> MadeBy(r.outputs, Len(r.outputs), t)
        /\ Spends(row, t) <=> Among(r.inputs, Len(r.inputs), t)
        /\ ~ Burns(row, t)
    BY <1>0, <1>2, <2>1 DEF Creates, MadeBy, Spends, Listed, Among, Burns
  <2>3. ASSUME Among(r.inputs, Len(r.inputs), t)
        PROVE  old[t].status = "UNSPENT" /\ old[t].owner = r.signer
               /\ old[t].currency = r.currency
    BY <1>2, <2>3 DEF Transferred, Authorised, InputsOf, PayerOf, Among
  <2>4. ASSUME MadeBy(r.outputs, Len(r.outputs), t)
        PROVE  old[t].status = "ABSENT" /\ new[t].status = "UNSPENT"
    <3>1. PICK j \in 1 .. Len(r.outputs) : r.outputs[j].token_id = t
      BY <2>4 DEF MadeBy
    <3>2. /\ old[t].status = "ABSENT"
          /\ new[t] = NewRow(r.outputs[j].amount, r.currency, r.outputs[j].receiver)
      BY <1>2, <3>1 DEF Transferred, Created
    <3>3. QED BY <3>2 DEF NewRow
  <2>5. ~ MadeBy(r.outputs, Len(r.outputs), t) =>
          new[t] = IF Among(r.inputs, Len(r.inputs), t)
                   THEN [old[t] EXCEPT !.status = "SPENT"] ELSE old[t]
    BY <1>2 DEF Transferred, Created
  <2>6. CASE Among(r.inputs, Len(r.inputs), t)
    <3>1. old[t] \in Row
      BY <1>0, <2>3, <2>6, UnspentRow
    <3>2. new[t] = [old[t] EXCEPT !.status = "SPENT"]
      BY <2>3, <2>4, <2>5, <2>6
    <3>3. /\ new[t].status = "SPENT" /\ new[t].owner = old[t].owner
          /\ new[t].currency = old[t].currency
      BY <3>1, <3>2 DEF Row
    <3>4. QED BY <2>1, <2>2, <2>3, <2>4, <2>6, <3>3
  <2>7. CASE ~ Among(r.inputs, Len(r.inputs), t)
    BY <2>2, <2>4, <2>5, <2>7
  <2>8. QED BY <2>6, <2>7
<1>3. CASE r.op = "BURN" /\ Burned(r, old, new)
  <2>1. row.payload.token_ids = r.token_ids /\ row.payload.owner = r.owner
    BY <1>0, <1>3 DEF Payload
  <2>2. /\ Burns(row, t) <=> Among(r.token_ids, Len(r.token_ids), t)
        /\ ~ Creates(row, t) /\ ~ Spends(row, t)
    BY <1>0, <1>3, <2>1 DEF Creates, Spends, Burns, Listed, Among
  <2>3. ASSUME Among(r.token_ids, Len(r.token_ids), t)
        PROVE  old[t].status = "UNSPENT" /\ old[t].owner = r.owner
    BY <1>3, <2>3 DEF Burned, Authorised, InputsOf, PayerOf, Among
  <2>4. new[t] = IF Among(r.token_ids, Len(r.token_ids), t)
                 THEN [old[t] EXCEPT !.status = "BURNED"] ELSE old[t]
    BY <1>3 DEF Burned, Consumed, InputsOf, FateOf
  <2>5. CASE Among(r.token_ids, Len(r.token_ids), t)
    <3>1. old[t] \in Row
      BY <1>0, <2>3, <2>5, UnspentRow
    <3>2. new[t] = [old[t] EXCEPT !.status = "BURNED"]
      BY <2>4, <2>5
    <3>3. new[t].status = "BURNED" /\ new[t].owner = old[t].owner
      BY <3>1, <3>2 DEF Row
    <3>4. QED BY <2>1, <2>2, <2>3, <2>5, <3>3
  <2>6. CASE ~ Among(r.token_ids, Len(r.token_ids), t)
    BY <2>2, <2>4, <2>6
  <2>7. QED BY <2>5, <2>6
<1>4. QED BY <1>1, <1>2, <1>3 DEF Moved

(* The invariant: what the tables of a database say of each other           *)

\* Every audit row carries the hash of the row before it.
Chained(d) ==
  \A n \in 1 .. Len(d.audit) :
    /\ d.audit[n].prev_hash = IF n = 1 THEN Genesis ELSE d.audit[n - 1].chain_hash
    /\ d.audit[n].chain_hash = ChainHash(d.audit[n].prev_hash, d.audit[n].payload)

\* A token that an audit row consumes is consumed, and was its signer's.
Owned(d) ==
  \A i \in 1 .. Len(d.audit), t \in TokenIds :
    LET a == d.audit[i]
    IN  /\ Spends(a, t) => /\ d.utxos[t].status = "SPENT"
                           /\ d.utxos[t].owner = a.payload.signer
                           /\ d.utxos[t].currency = a.payload.currency
        /\ Burns(a, t) => /\ d.utxos[t].status = "BURNED"
                          /\ d.utxos[t].owner = a.payload.owner

MadeAt(d, t)   == {i \in 1 .. Len(d.audit) : Creates(d.audit[i], t)}
SpentAt(d, t)  == {i \in 1 .. Len(d.audit) : Spends(d.audit[i], t)}
BurnedAt(d, t) == {i \in 1 .. Len(d.audit) : Burns(d.audit[i], t)}

Single(S) == \E i : S = {i}

\* The audit rows that name a token, as its status has it.
Told(d) ==
  \A t \in TokenIds :
    LET status == d.utxos[t].status
    IN  /\ IF status = "ABSENT" THEN MadeAt(d, t) = {} ELSE Single(MadeAt(d, t))
        /\ IF status = "SPENT" THEN Single(SpentAt(d, t)) ELSE SpentAt(d, t) = {}
        /\ IF status = "BURNED" THEN Single(BurnedAt(d, t)) ELSE BurnedAt(d, t) = {}
        /\ \A i \in MadeAt(d, t), j \in SpentAt(d, t) \cup BurnedAt(d, t) : i < j

CompleteKeys(d) == {k \in IdemKeys : d.idem[k].status = "COMPLETE"}

\* As many audit rows as answered keys, and a row for every answer.
Counted(d) ==
  /\ IsFiniteSet(CompleteKeys(d)) /\ Len(d.audit) = Cardinality(CompleteKeys(d))
  /\ \A k \in CompleteKeys(d) : d.idem[k].response.op # "BURN" =>
       \E i \in 1 .. Len(d.audit) : /\ d.audit[i].action = d.idem[k].response.op
                                    /\ d.audit[i].tx_id = d.idem[k].response.id

Live == {"UNSPENT", "BURNED"}

\* What was minted in a currency is unspent or burned.
Conserved(d) ==
  /\ IsFiniteSet({t \in TokenIds : d.utxos[t].status # "ABSENT"})
  /\ \A c \in Currencies :
       SumOver(Amounts(d.utxos), Held(d.utxos, c, Live))
         = SumOver(MintAmounts(d.audit), Mints(d.audit, c))

BooksOf(d) == Chained(d) /\ Owned(d) /\ Told(d) /\ Counted(d) /\ Conserved(d)

Books == BooksOf(db)

LEMMA BooksNext == Books' <=> BooksOf(db')
BY DEF Books, BooksOf, Chained, Owned, Told, Counted, Conserved, Genesis, ChainHash, Spends,
       Burns, Creates, Listed, MadeAt, SpentAt, BurnedAt, Single, CompleteKeys, Live, SumOver,
       SumEquation, Some, Amounts, MintAmounts, Mints, Held, IdemKeys

\* e is d after r was carried out under id and answered.
Step(d, e, r, id) ==
  /\ r \in Validated /\ id \in TxIds /\ DbType(d) /\ DbType(e)
  /\ CarriedOut(r, id, d, e)
  /\ IdemKey(r) \in IdemKeys /\ d.idem[IdemKey(r)].status = "ABSENT"
  /\ e.idem = [d.idem EXCEPT ![IdemKey(r)] = CompleteEntry(Answer(r, id))]

\* The audit trail after a step.
LEMMA StepAudit ==
  ASSUME NEW d, NEW e, NEW r, NEW id, Step(d, e, r, id)
  PROVE  /\ Len(d.audit) \in Nat /\ Len(e.audit) = Len(d.audit) + 1
         /\ \A i \in 1 .. Len(d.audit) : e.audit[i] = d.audit[i]
         /\ Tells(e.audit[Len(d.audit) + 1], r, id)
         /\ e.audit[Len(d.audit) + 1].prev_hash = LastHash(d.audit)
         /\ e.audit[Len(d.audit) + 1].chain_hash = ChainHash(LastHash(d.audit), Payload(r))
<1> DEFINE row == AuditRow(d.audit, id, r.op, Payload(r))
<1>1. d.audit \in Seq(AuditRows(Hashes(d.audit))) /\ e.audit = Append(d.audit, row)
  BY DEF Step, DbType, CarriedOut
<1>2. /\ Tells(row, r, id) /\ row.prev_hash = LastHash(d.audit)
      /\ row.chain_hash = ChainHash(LastHash(d.audit), Payload(r))
  BY DEF Tells, AuditRow
<1> HIDE DEF row
<1>3. QED BY <1>1, <1>2

LEMMA ChainedStep ==
  ASSUME NEW d, NEW e, NEW r, NEW id, Step(d, e, r, id), Chained(d)
  PROVE  Chained(e)
<1> DEFINE n == Len(d.audit)
<1>1. /\ n \in Nat /\ Len(e.audit) = n + 1
      /\ \A i \in 1 .. n : e.audit[i] = d.audit[i]
      /\ e.audit[n + 1].prev_hash = LastHash(d.audit)
      /\ e.audit[n + 1].chain_hash = ChainHash(LastHash(d.audit), e.audit[n + 1].payload)
  BY StepAudit DEF Tells
<1>2. LastHash(d.audit) = IF n = 0 THEN Genesis ELSE d.audit[n].chain_hash
  <2>1. d.audit = <<>> <=> n = 0
    BY DEF Step, DbType
  <2>2. QED BY <2>1 DEF LastHash
<1> HIDE DEF n
<1>3. ASSUME NEW m \in 1 .. n + 1
      PROVE  /\ e.audit[m].prev_hash = IF m = 1 THEN Genesis ELSE e.audit[m - 1].chain_hash
             /\ e.audit[m].chain_hash = ChainHash(e.audit[m].prev_hash, e.audit[m].payload)
  <2>1. CASE m = n + 1
    BY <1>1, <1>2, <2>1
  <2>2. CASE m \in 1 .. n
    <3>1. e.audit[m] = d.audit[m] /\ (m # 1 => e.audit[m - 1] = d.audit[m - 1])
      BY <1>1, <2>2
    <3>2. QED BY <2>2, <3>1 DEF Chained, n
  <2>3. QED BY <1>1, <2>1, <2>2
<1>4. QED BY <1>1, <1>3 DEF Chained

\* TokenEffect, for a step.
LEMMA StepToken ==
  ASSUME NEW d, NEW e, NEW r, NEW id, NEW t \in TokenIds, NEW row, Step(d, e, r, id),
         row = e.audit[Len(d.audit) + 1]
  PROVE  \/ /\ Creates(row, t) /\ ~ Spends(row, t) /\ ~ Burns(row, t)
            /\ d.utxos[t].status = "ABSENT" /\ e.utxos[t].status = "UNSPENT"
         \/ /\ ~ Creates(row, t) /\ Spends(row, t) /\ ~ Burns(row, t)
            /\ d.utxos[t].status = "UNSPENT" /\ e.utxos[t].status = "SPENT"
            /\ e.utxos[t].owner = row.payload.signer
            /\ e.utxos[t].currency = row.payload.currency
         \/ /\ ~ Creates(row, t) /\ ~ Spends(row, t) /\ Burns(row, t)
            /\ d.utxos[t].status = "UNSPENT" /\ e.utxos[t].status = "BURNED"
            /\ e.utxos[t].owner = row.payload.owner
         \/ /\ ~ Creates(row, t) /\ ~ Spends(row, t) /\ ~ Burns(row, t)
            /\ e.utxos[t] = d.utxos[t]
<1>1. /\ r \in Validated /\ id \in TxIds /\ d.utxos \in Utxos /\ e.utxos \in Utxos
      /\ Moved(r, id, d.utxos, e.utxos) /\ Tells(row, r, id)
  BY StepAudit DEF Step, CarriedOut, DbType
<1>2. QED BY <1>1, TokenEffect

LEMMA OwnedStep ==
  ASSUME NEW d, NEW e, NEW r, NEW id, Step(d, e, r, id), Owned(d)
  PROVE  Owned(e)
<1> DEFINE n == Len(d.audit)
<1>1. n \in Nat /\ Len(e.audit) = n + 1 /\ \A i \in 1 .. n : e.audit[i] = d.audit[i]
  BY StepAudit
<1>2. ASSUME NEW i \in 1 .. n + 1, NEW t \in TokenIds
      PROVE  LET a == e.audit[i]
             IN  /\ Spends(a, t) => /\ e.utxos[t].status = "SPENT"
                                    /\ e.utxos[t].owner = a.payload.signer
                                    /\ e.utxos[t].currency = a.payload.currency
                 /\ Burns(a, t) => /\ e.utxos[t].status = "BURNED"
                                   /\ e.utxos[t].owner = a.payload.owner
  <2>1. CASE i = n + 1
    BY <2>1, StepToken
  <2>2. CASE i \in 1 .. n
    <3> DEFINE a == d.audit[i]
    <3>1. e.audit[i] = a
      BY <1>1, <2>2
    <3>2. /\ Spends(a, t) => /\ d.utxos[t].status = "SPENT"
                             /\ d.utxos[t].owner = a.payload.signer
                             /\ d.utxos[t].currency = a.payload.currency
          /\ Burns(a, t) => /\ d.utxos[t].status = "BURNED"
                            /\ d.utxos[t].owner = a.payload.owner
      BY <2>2 DEF Owned
    <3>3. d.utxos[t].status \in {"SPENT", "BURNED"} => e.utxos[t] = d.utxos[t]
      BY StepToken
    <3> HIDE DEF a
    <3>4. QED BY <3>1, <3>2, <3>3
  <2>3. QED BY <1>1, <2>1, <2>2
<1>3. QED BY <1>1, <1>2 DEF Owned

LEMMA ToldStep ==
  ASSUME NEW d, NEW e, NEW r, NEW id, Step(d, e, r, id), Told(d)
  PROVE  Told(e)
<1> DEFINE n == Len(d.audit)
           row == e.audit[n + 1]
<1>1. n \in Nat /\ Len(e.audit) = n + 1 /\ \A i \in 1 .. n : e.audit[i] = d.audit[i]
  BY StepAudit
<1> HIDE DEF n
<1>2. ASSUME NEW t \in TokenIds
      PROVE  /\ MadeAt(e, t) = IF Creates(row, t) THEN MadeAt(d, t) \cup {n + 1}
                               ELSE MadeAt(d, t)
             /\ SpentAt(e, t) = IF Spends(row, t) THEN SpentAt(d, t) \cup {n + 1}
                                ELSE SpentAt(d, t)
             /\ BurnedAt(e, t) = IF Burns(row, t) THEN BurnedAt(d, t) \cup {n + 1}
                                 ELSE BurnedAt(d, t)
             /\ \A i \in MadeAt(d, t) \cup SpentAt(d, t) \cup BurnedAt(d, t) :
                  i \in Int /\ i < n + 1
  <2>1. 1 .. Len(e.audit) = 1 .. n \cup {n + 1} /\ n + 1 \notin 1 .. n
    BY <1>1
  <2> HIDE DEF row
  <2>2. /\ MadeAt(e, t) = IF Creates(row, t) THEN MadeAt(d, t) \cup {n + 1} ELSE MadeAt(d, t)
        /\ SpentAt(e, t) = IF Spends(row, t) THEN SpentAt(d, t) \cup {n + 1}
                           ELSE SpentAt(d, t)
        /\ BurnedAt(e, t) = IF Burns(row, t) THEN BurnedAt(d, t) \cup {n + 1}
                            ELSE BurnedAt(d, t)
    BY <1>1, <2>1 DEF MadeAt, SpentAt, BurnedAt, row, n
  <2>3. \A i \in MadeAt(d, t) \cup SpentAt(d, t) \cup BurnedAt(d, t) : i \in 1 .. n
    BY DEF MadeAt, SpentAt, BurnedAt, n
  <2>4. QED BY <1>1, <2>2, <2>3
<1>3. ASSUME NEW t \in TokenIds
      PROVE  LET status == e.utxos[t].status
             IN  /\ IF status = "ABSENT" THEN MadeAt(e, t) = {} ELSE Single(MadeAt(e, t))
                 /\ IF status = "SPENT" THEN Single(SpentAt(e, t)) ELSE SpentAt(e, t) = {}
                 /\ IF status = "BURNED" THEN Single(BurnedAt(e, t)) ELSE BurnedAt(e, t) = {}
                 /\ \A i \in MadeAt(e, t), j \in SpentAt(e, t) \cup BurnedAt(e, t) : i < j
  <2> DEFINE M == MadeAt(d, t)
             S == SpentAt(d, t)
             B == BurnedAt(d, t)
  <2>1. /\ IF d.utxos[t].status = "ABSENT" THEN M = {} ELSE Single(M)
        /\ IF d.utxos[t].status = "SPENT" THEN Single(S) ELSE S = {}
        /\ IF d.utxos[t].status = "BURNED" THEN Single(B) ELSE B = {}
        /\ \A i \in M, j \in S \cup B : i < j
    BY DEF Told
  <2>2. /\ MadeAt(e, t) = IF Creates(row, t) THEN M \cup {n + 1} ELSE M
        /\ SpentAt(e, t) = IF Spends(row, t) THEN S \cup {n + 1} ELSE S
        /\ BurnedAt(e, t) = IF Burns(row, t) THEN B \cup {n + 1} ELSE B
        /\ \A i \in M \cup S \cup B : i \in Int /\ i < n + 1
    BY <1>2
  <2>3. Single({} \cup {n + 1})
    BY DEF Single
  <2> HIDE DEF M, S, B, row
  <2>4. CASE /\ Creates(row, t) /\ ~ Spends(row, t) /\ ~ Burns(row, t)
             /\ d.utxos[t].status = "ABSENT" /\ e.utxos[t].status = "UNSPENT"
    BY <2>1, <2>2, <2>3, <2>4
  <2>5. CASE /\ ~ Creates(row, t) /\ Spends(row, t) /\ ~ Burns(row, t)
             /\ d.utxos[t].status = "UNSPENT" /\ e.utxos[t].status = "SPENT"
    BY <2>1, <2>2, <2>3, <2>5
  <2>6. CASE /\ ~ Creates(row, t) /\ ~ Spends(row, t) /\ Burns(row, t)
             /\ d.utxos[t].status = "UNSPENT" /\ e.utxos[t].status = "BURNED"
    BY <2>1, <2>2, <2>3, <2>6
  <2>7. CASE /\ ~ Creates(row, t) /\ ~ Spends(row, t) /\ ~ Burns(row, t)
             /\ e.utxos[t] = d.utxos[t]
    BY <2>1, <2>2, <2>7
  <2>8. QED BY <2>4, <2>5, <2>6, <2>7, StepToken DEF row, n
<1>4. QED BY <1>3 DEF Told

LEMMA CountedStep ==
  ASSUME NEW d, NEW e, NEW r, NEW id, Step(d, e, r, id), Counted(d)
  PROVE  Counted(e)
<1> DEFINE n   == Len(d.audit)
           row == e.audit[n + 1]
           key == IdemKey(r)
           K   == CompleteKeys(d)
<1>1. /\ n \in Nat /\ Len(e.audit) = n + 1 /\ \A i \in 1 .. n : e.audit[i] = d.audit[i]
      /\ row.action = r.op /\ row.tx_id = id
  BY StepAudit DEF Tells
<1>2. /\ key \in IdemKeys /\ d.idem[key].status = "ABSENT"
      /\ e.idem = [d.idem EXCEPT ![key] = CompleteEntry(Answer(r, id))]
      /\ d.idem \in [IdemKeys -> IdemEntries]
  BY DEF Step, DbType
<1> HIDE DEF n, key
<1>3. /\ e.idem[key] = CompleteEntry(Answer(r, id))
      /\ \A k \in IdemKeys : k # key => e.idem[k] = d.idem[k]
  BY <1>2
<1>4. CompleteEntry(Answer(r, id)).status = "COMPLETE"
      /\ CompleteEntry(Answer(r, id)).response = Answer(r, id)
  BY DEF CompleteEntry
<1>5. CompleteKeys(e) = K \cup {key} /\ key \notin K
  BY <1>2, <1>3, <1>4 DEF CompleteKeys
<1>6. IsFiniteSet(K) /\ n = Cardinality(K)
  BY DEF Counted, n
<1>7. IsFiniteSet(CompleteKeys(e)) /\ Cardinality(CompleteKeys(e)) = n + 1
  <2> HIDE DEF K
  <2>1. QED BY <1>5, <1>6, FS_AddElement
<1>8. Answer(r, id).op = r.op /\ (r.op # "BURN" => Answer(r, id).id = id)
  <2>1. r.op \in {"TRANSFER", "MINT", "BURN"}
    BY ValidatedFacts, PayloadType DEF Step
  <2>2. r.op = "TRANSFER" => id = r.transaction_id
    BY DEF Step, CarriedOut, Moved, Transferred
  <2>3. QED BY <2>1, <2>2 DEF Answer
<1>9. ASSUME NEW k \in CompleteKeys(e), e.idem[k].response.op # "BURN"
      PROVE  \E i \in 1 .. n + 1 : /\ e.audit[i].action = e.idem[k].response.op
                                   /\ e.audit[i].tx_id = e.idem[k].response.id
  <2>1. CASE k = key
    <3>1. n + 1 \in 1 .. n + 1
      BY <1>1
    <3>2. row.action = e.idem[k].response.op /\ row.tx_id = e.idem[k].response.id
      BY <1>1, <1>3, <1>4, <1>8, <1>9, <2>1
    <3>3. QED BY <3>1, <3>2
  <2>2. CASE k # key
    <3>1. k \in K /\ e.idem[k] = d.idem[k]
      BY <1>3, <1>5, <2>2 DEF CompleteKeys
    <3>2. PICK i \in 1 .. n : /\ d.audit[i].action = d.idem[k].response.op
                              /\ d.audit[i].tx_id = d.idem[k].response.id
      BY <1>9, <3>1 DEF Counted, n
    <3>3. i \in 1 .. n + 1
      BY <1>1
    <3>4. QED BY <1>1, <3>1, <3>2, <3>3
  <2>3. QED BY <2>1, <2>2
<1>10. QED BY <1>1, <1>7, <1>9 DEF Counted

----------------------------------------------------------------------------
(* Value: the sum over the tokens held in a currency                        *)

\* Taking a list of different tokens out of a set.
LEMMA SumWithout ==
  ASSUME NEW u, NEW S \in SUBSET TokenIds, NEW ids, IsFiniteSet(S), Len(ids) \in Nat,
         Distinct(ids), \A j \in 1 .. Len(ids) : ids[j] \in S,
         \A t \in S : u[t].amount \in Int
  PROVE  /\ InSum(u, ids, Len(ids)) \in Int
         /\ SumOver(Amounts(u), S)
              = SumOver(Amounts(u), {t \in S : ~ Among(ids, Len(ids), t)})
                + InSum(u, ids, Len(ids))
<1> DEFINE f == Amounts(u)
           Rest(m) == {t \in S : ~ Among(ids, m, t)}
           P == {m \in Nat : m =< Len(ids) =>
                   /\ InSum(u, ids, m) \in Int
                   /\ SumOver(f, S) = SumOver(f, Rest(m)) + InSum(u, ids, m)}
<1>0. \A t \in S : f[t] \in Int /\ f[t] = u[t].amount
  BY DEF Amounts
<1>1. \A R \in SUBSET S : IsFiniteSet(R) /\ SumOver(f, R) \in Int
  <2>1. ASSUME NEW R \in SUBSET S PROVE IsFiniteSet(R) /\ SumOver(f, R) \in Int
    <3>1. IsFiniteSet(R) /\ \A t \in R : f[t] \in Int
      BY <1>0, FS_Subset
    <3> HIDE DEF f
    <3>2. QED BY <3>1, SumType
  <2>2. QED BY <2>1
<1>2. 0 \in P
  <2>1. Rest(0) = S
    BY DEF Among
  <2>2. InSum(u, ids, 0) = 0
    BY InSumStep
  <2>3. SumOver(f, S) \in Int
    BY <1>1
  <2> HIDE DEF Rest, f
  <2>4. QED BY <2>1, <2>2, <2>3
<1>3. ASSUME NEW m \in Nat, m \in P PROVE m + 1 \in P
  <2>1. SUFFICES ASSUME m + 1 =< Len(ids)
                 PROVE  /\ InSum(u, ids, m + 1) \in Int
                        /\ SumOver(f, S) = SumOver(f, Rest(m + 1)) + InSum(u, ids, m + 1)
    OBVIOUS
  <2> DEFINE x == ids[m + 1]
  <2>2. /\ InSum(u, ids, m) \in Int
        /\ SumOver(f, S) = SumOver(f, Rest(m)) + InSum(u, ids, m)
    BY <1>3, <2>1
  <2>3. x \in S /\ x \in Rest(m)
    BY <2>1 DEF Distinct, Among
  <2>4. Rest(m + 1) = Rest(m) \ {x}
    BY <2>1 DEF Among
  <2>5. /\ Rest(m) \in SUBSET S /\ IsFiniteSet(Rest(m)) /\ SumOver(f, Rest(m)) \in Int
        /\ SumOver(f, Rest(m + 1)) \in Int
    BY <1>1
  <2>6. SumOver(f, Rest(m)) = f[x] + SumOver(f, Rest(m + 1))
    <3> DEFINE R == Rest(m)
    <3>1. x \in R /\ IsFiniteSet(R) /\ \A t \in R : f[t] \in Int
      BY <1>0, <2>3, <2>5
    <3>2. R \ {x} = Rest(m + 1)
      BY <2>4
    <3> HIDE DEF f, R, x
    <3>3. SumOver(f, R) = f[x] + SumOver(f, R \ {x})
      BY <3>1, SumRemove
    <3>4. QED BY <3>2, <3>3 DEF R
  <2>7. InSum(u, ids, m + 1) = InSum(u, ids, m) + f[x] /\ f[x] \in Int
    <3>1. m + 1 \in 1 .. Len(ids) /\ (m + 1) - 1 = m
      BY <2>1
    <3>2. InSum(u, ids, m + 1) = InSum(u, ids, (m + 1) - 1) + u[ids[m + 1]].amount
      BY <3>1, InSumStep
    <3>3. f[x] = u[ids[m + 1]].amount /\ f[x] \in Int
      BY <1>0, <2>3
    <3> HIDE DEF f
    <3>4. QED BY <3>1, <3>2, <3>3
  <2> HIDE DEF f, Rest, x
  <2>8. QED BY <2>2, <2>5, <2>6, <2>7
<1> HIDE DEF P
<1>4. Len(ids) \in P
  BY <1>2, <1>3, NatSetInduction
<1>5. QED BY <1>4 DEF P

\* The ids that the outputs of a transfer give.
NewIds(outputs) == {outputs[j].token_id : j \in 1 .. Len(outputs)}

NewIdsDiffer(outputs) == Distinct([j \in 1 .. Len(outputs) |-> outputs[j].token_id])

\* Putting the outputs of a transfer, under different new ids, into a set.
LEMMA SumWith ==
  ASSUME NEW f, NEW S, NEW outputs, IsFiniteSet(S), Len(outputs) \in Nat,
         NewIdsDiffer(outputs),
         \A j \in 1 .. Len(outputs) : /\ outputs[j].token_id \notin S
                                      /\ f[outputs[j].token_id] = outputs[j].amount
                                      /\ outputs[j].amount \in Int,
         \A t \in S : f[t] \in Int
  PROVE  /\ IsFiniteSet(S \cup NewIds(outputs))
         /\ SumOver(f, S \cup NewIds(outputs)) = SumOver(f, S) + OutTotal(outputs)
<1> DEFINE With(m) == S \cup {outputs[j].token_id : j \in 1 .. m}
           P == {m \in Nat : m =< Len(outputs) =>
                   /\ IsFiniteSet(With(m)) /\ OutSum(outputs, m) \in Int
                   /\ SumOver(f, With(m)) = SumOver(f, S) + OutSum(outputs, m)}
<1>0. SumOver(f, S) \in Int
  BY SumType
<1>1. 0 \in P
  <2>1. With(0) = S
    OBVIOUS
  <2>2. OutSum(outputs, 0) = 0
    BY OutSumStep
  <2> HIDE DEF With
  <2>3. QED BY <1>0, <2>1, <2>2
<1>2. ASSUME NEW m \in Nat, m \in P PROVE m + 1 \in P
  <2>1. SUFFICES ASSUME m + 1 =< Len(outputs)
                 PROVE  /\ IsFiniteSet(With(m + 1)) /\ OutSum(outputs, m + 1) \in Int
                        /\ SumOver(f, With(m + 1)) = SumOver(f, S) + OutSum(outputs, m + 1)
    OBVIOUS
  <2> DEFINE x == outputs[m + 1].token_id
             v == outputs[m + 1].amount
  <2>2. /\ IsFiniteSet(With(m)) /\ OutSum(outputs, m) \in Int
        /\ SumOver(f, With(m)) = SumOver(f, S) + OutSum(outputs, m)
    BY <1>2, <2>1
  <2>3. m + 1 \in 1 .. Len(outputs) /\ \A j \in 1 .. m : j \in 1 .. Len(outputs) /\ j # m + 1
    BY <2>1
  <2>4. x \notin With(m)
    BY <2>3 DEF NewIdsDiffer, Distinct
  <2>5. With(m + 1) = With(m) \cup {x}
    <3>1. 1 .. m + 1 = 1 .. m \cup {m + 1}
      OBVIOUS
    <3>2. QED BY <3>1
  <2>6. f[x] = v /\ v \in Int
    BY <2>3
  <2>7. \A t \in With(m) : f[t] \in Int
    BY <2>3
  <2>8. OutSum(outputs, m + 1) = OutSum(outputs, m) + v
    <3>1. OutSum(outputs, m + 1) = OutSum(outputs, (m + 1) - 1) + outputs[m + 1].amount
      BY <2>3, OutSumStep
    <3>2. (m + 1) - 1 = m
      OBVIOUS
    <3>3. QED BY <3>1, <3>2
  <2>9. SumOver(f, With(m + 1)) = SumOver(f, With(m)) + v /\ IsFiniteSet(With(m + 1))
    <3> DEFINE W == With(m)
    <3>1. x \notin W /\ IsFiniteSet(W) /\ f[x] \in Int /\ \A t \in W : f[t] \in Int
      BY <2>2, <2>4, <2>6, <2>7
    <3>2. W \cup {x} = With(m + 1)
      BY <2>5
    <3> HIDE DEF W, x, v
    <3>3. SumOver(f, W \cup {x}) = SumOver(f, W) + f[x]
      BY <3>1, SumAdd
    <3>4. IsFiniteSet(W \cup {x})
      BY <3>1, FS_AddElement
    <3>5. QED BY <2>6, <3>2, <3>3, <3>4 DEF W
  <2> HIDE DEF With, x, v
  <2>10. QED BY <1>0, <2>2, <2>6, <2>8, <2>9
<1> HIDE DEF P
<1>3. Len(outputs) \in P
  BY <1>1, <1>2, NatSetInduction
<1>4. OutTotal(outputs) = OutSum(outputs, Len(outputs))
  BY OutSumStep
<1>5. QED BY <1>3, <1>4 DEF P, NewIds

Existing(u) == {t \in TokenIds : u[t].status # "ABSENT"}

\* Rows that exist have an amount, and finitely many hold a currency.
LEMMA HeldFacts ==
  ASSUME NEW u \in Utxos, IsFiniteSet(Existing(u)), NEW c
  PROVE  /\ Held(u, c, Live) \in SUBSET TokenIds
         /\ IsFiniteSet(Held(u, c, Live))
         /\ \A t \in Existing(u) : u[t] \in Row /\ u[t].amount \in Int
                                   /\ Amounts(u)[t] = u[t].amount
         /\ Held(u, c, Live) \subseteq Existing(u)
<1>1. Held(u, c, Live) \in SUBSET Existing(u)
  BY DEF Held, Existing, Live
<1>2. IsFiniteSet(Held(u, c, Live))
  BY <1>1, FS_Subset
<1>3. ASSUME NEW t \in Existing(u)
      PROVE  u[t] \in Row /\ u[t].amount \in Int /\ Amounts(u)[t] = u[t].amount
  <2>1. u[t] \in Row /\ t \in TokenIds
    BY DEF Existing, Utxos, NoRow
  <2>2. u[t].amount \in Int
    BY <2>1 DEF Row
  <2>3. QED BY <2>1, <2>2 DEF Amounts
<1>4. QED BY <1>1, <1>2, <1>3 DEF Existing

\* A mint adds one token to its currency.
LEMMA MintConserves ==
  ASSUME NEW r \in MintReq, NEW id, NEW old \in Utxos, NEW new \in Utxos,
         IsFiniteSet(Existing(old)), MintedToken(r, id, old, new), NEW c
  PROVE  /\ IsFiniteSet(Existing(new))
         /\ SumOver(Amounts(new), Held(new, c, Live))
              = SumOver(Amounts(old), Held(old, c, Live))
                + IF r.currency = c THEN r.amount ELSE 0
<1> DEFINE H == Held(old, c, Live)
           f == Amounts(old)
           g == Amounts(new)
<1>1. /\ id \in TokenIds /\ old[id].status = "ABSENT"
      /\ new[id] = NewRow(r.amount, r.currency, r.public_key)
      /\ \A t \in TokenIds : t # id => new[t] = old[t]
  BY DEF MintedToken, Utxos
<1>2. /\ new[id].status = "UNSPENT" /\ new[id].amount = r.amount
      /\ new[id].currency = r.currency /\ r.amount \in Int
  BY <1>1 DEF NewRow, MintReq
<1>3. Existing(new) = Existing(old) \cup {id}
  BY <1>1, <1>2 DEF Existing
<1>4. IsFiniteSet(Existing(new))
  BY <1>3, FS_AddElement
<1>5. /\ IsFiniteSet(H) /\ \A t \in H : f[t] \in Int /\ g[t] = f[t]
      /\ id \notin H /\ g[id] = r.amount
  <2>1. IsFiniteSet(H) /\ \A t \in H : t \in TokenIds /\ f[t] \in Int
    BY HeldFacts
  <2>2. id \notin H
    BY <1>1 DEF Held, Live
  <2>3. QED BY <1>1, <1>2, <2>1, <2>2 DEF Amounts
<1>6. Held(new, c, Live) = IF r.currency = c THEN H \cup {id} ELSE H
  BY <1>1, <1>2 DEF Held, Live
<1> HIDE DEF H, f, g
<1>7. SumOver(g, H) = SumOver(f, H) /\ SumOver(f, H) \in Int
  <2>1. SumOver(g, H) = SumOver(f, H)
    BY <1>5, SumSame
  <2>2. SumOver(f, H) \in Int
    BY <1>5, SumType
  <2>3. QED BY <2>1, <2>2
<1>8. SumOver(g, H \cup {id}) = SumOver(g, H) + r.amount
  <2>1. /\ g[id] \in Int /\ \A t \in H : g[t] \in Int
    BY <1>2, <1>5
  <2>2. SumOver(g, H \cup {id}) = SumOver(g, H) + g[id]
    BY <1>5, <2>1, SumAdd
  <2>3. QED BY <1>5, <2>2
<1>9. CASE r.currency = c
  BY <1>4, <1>6, <1>7, <1>8, <1>9 DEF H, f, g
<1>10. CASE r.currency # c
  BY <1>4, <1>6, <1>7, <1>10 DEF H, f, g
<1>11. QED BY <1>9, <1>10

\* A burn takes nothing out of what was minted.
LEMMA BurnConserves ==
  ASSUME NEW r, r.op = "BURN", NEW old \in Utxos, NEW new \in Utxos,
         IsFiniteSet(Existing(old)), Burned(r, old, new), NEW c
  PROVE  /\ IsFiniteSet(Existing(new))
         /\ SumOver(Amounts(new), Held(new, c, Live))
              = SumOver(Amounts(old), Held(old, c, Live))
<1>1. ASSUME NEW t \in TokenIds
      PROVE  \/ new[t] = old[t]
             \/ /\ old[t].status = "UNSPENT" /\ new[t].status = "BURNED"
                /\ new[t].amount = old[t].amount /\ new[t].currency = old[t].currency
  <2>1. CASE Among(r.token_ids, Len(r.token_ids), t)
    <3>1. new[t] = [old[t] EXCEPT !.status = "BURNED"] /\ old[t].status = "UNSPENT"
      BY <2>1 DEF Burned, Consumed, Authorised, Among, InputsOf, FateOf
    <3>2. old[t] \in Row
      BY <3>1, UnspentRow DEF Utxos
    <3>3. QED BY <3>1, <3>2 DEF Row
  <2>2. CASE ~ Among(r.token_ids, Len(r.token_ids), t)
    BY <2>2 DEF Burned, Consumed, InputsOf
  <2>3. QED BY <2>1, <2>2
<1>2. Existing(new) = Existing(old) /\ Held(new, c, Live) = Held(old, c, Live)
  BY <1>1 DEF Existing, Held, Live
<1>3. \A t \in Held(old, c, Live) : Amounts(new)[t] = Amounts(old)[t]
  BY <1>1 DEF Held, Amounts
<1>4. IsFiniteSet(Held(old, c, Live))
  BY HeldFacts
<1>5. SumOver(Amounts(new), Held(old, c, Live)) = SumOver(Amounts(old), Held(old, c, Live))
  BY <1>3, <1>4, SumSame
<1>6. QED BY <1>2, <1>5

\* A transfer moves value, in its currency and in no other.
LEMMA TransferConserves ==
  ASSUME NEW r \in Validated, r.op = "TRANSFER", NEW id, NEW old \in Utxos, NEW new \in Utxos,
         IsFiniteSet(Existing(old)), Transferred(r, id, old, new), NEW c
  PROVE  /\ IsFiniteSet(Existing(new))
         /\ SumOver(Amounts(new), Held(new, c, Live))
              = SumOver(Amounts(old), Held(old, c, Live))
<1> DEFINE f == Amounts(old)
           g == Amounts(new)
           H == Held(old, c, Live)
           In(t) == Among(r.inputs, Len(r.inputs), t)
           Outs == NewIds(r.outputs)
           Rest == {t \in H : ~ In(t)}
<1>1. /\ r.inputs \in Seq(TokenIds) /\ r.outputs \in Seq(Outputs)
      /\ Len(r.inputs) \in Nat /\ Len(r.outputs) \in Nat /\ Distinct(r.inputs)
      /\ NewIdsDiffer(r.outputs)
  BY ValidatedFacts DEF NewIdsDiffer
<1>2. \A j \in 1 .. Len(r.outputs) : /\ r.outputs[j].token_id \in TokenIds
                                     /\ r.outputs[j].amount \in Int
  <2>1. \A j \in 1 .. Len(r.outputs) : r.outputs[j] \in Outputs
    BY <1>1
  <2>2. QED BY <2>1 DEF Outputs
<1>3. \A j \in 1 .. Len(r.inputs) : /\ r.inputs[j] \in TokenIds
                                    /\ old[r.inputs[j]].status = "UNSPENT"
                                    /\ old[r.inputs[j]].currency = r.currency
  BY <1>1 DEF Transferred, Authorised, InputsOf
<1>4. \A j \in 1 .. Len(r.outputs) :
        /\ old[r.outputs[j].token_id].status = "ABSENT"
        /\ new[r.outputs[j].token_id].status = "UNSPENT"
        /\ new[r.outputs[j].token_id].currency = r.currency
        /\ new[r.outputs[j].token_id].amount = r.outputs[j].amount
  <2>1. ASSUME NEW j \in 1 .. Len(r.outputs)
        PROVE  /\ old[r.outputs[j].token_id].status = "ABSENT"
               /\ new[r.outputs[j].token_id]
                    = NewRow(r.outputs[j].amount, r.currency, r.outputs[j].receiver)
    BY DEF Transferred, Created
  <2>2. \A amount, currency, owner :
          LET row == NewRow(amount, currency, owner)
          IN  row.status = "UNSPENT" /\ row.currency = currency /\ row.amount = amount
    BY DEF NewRow
  <2>3. QED BY <2>1, <2>2
<1>5. ASSUME NEW t \in TokenIds, t \notin Outs
      PROVE  IF In(t) THEN /\ old[t].status = "UNSPENT" /\ old[t].currency = r.currency
                           /\ new[t].status = "SPENT"
                      ELSE new[t] = old[t]
  <2>1. ~ MadeBy(r.outputs, Len(r.outputs), t)
    BY <1>5 DEF MadeBy, NewIds
  <2>2. CASE In(t)
    <3>1. new[t] = [old[t] EXCEPT !.status = "SPENT"] /\ old[t].status = "UNSPENT"
          /\ old[t].currency = r.currency
      BY <1>3, <2>1, <2>2 DEF Transferred, Created, Among
    <3>2. old[t] \in Row
      BY <3>1, UnspentRow DEF Utxos
    <3>3. QED BY <2>2, <3>1, <3>2 DEF Row
  <2>3. CASE ~ In(t)
    BY <2>1, <2>3 DEF Transferred, Created
  <2>4. QED BY <2>2, <2>3
<1>6. \A t \in Outs : /\ t \in TokenIds /\ old[t].status = "ABSENT"
                      /\ new[t].status = "UNSPENT" /\ new[t].currency = r.currency
  BY <1>2, <1>4 DEF NewIds
<1>7. /\ H \in SUBSET TokenIds /\ IsFiniteSet(H) /\ H \in SUBSET Existing(old)
      /\ \A t \in H : f[t] \in Int /\ old[t].amount \in Int
  BY HeldFacts
<1>8. Outs \cap Existing(old) = {}
  BY <1>6 DEF Existing
<1>9. Existing(new) = Existing(old) \cup Outs
  <2> HIDE DEF Outs, In
  <2>1. QED BY <1>5, <1>6 DEF Existing
<1> DEFINE E == Existing(old)
<1>10. IsFiniteSet(E \cup Outs)
  <2> DEFINE k == [t \in TokenIds |-> IF t \in E THEN 0 ELSE new[t].amount]
             os == r.outputs
  <2>1. \A j \in 1 .. Len(os) : /\ os[j].token_id \notin E
                                /\ k[os[j].token_id] = os[j].amount
                                /\ os[j].amount \in Int
    BY <1>2, <1>4 DEF Existing
  <2>2. \A t \in E : k[t] \in Int
    BY DEF Existing
  <2>3. IsFiniteSet(E) /\ Len(os) \in Nat /\ NewIdsDiffer(os)
    BY <1>1
  <2> HIDE DEF k, E, os
  <2>4. IsFiniteSet(E \cup NewIds(os))
    BY <2>1, <2>2, <2>3, SumWith
  <2>5. QED BY <2>4 DEF os
<1>11. CASE c # r.currency
  <2>1. Held(new, c, Live) = H
    <3>1. ASSUME NEW t \in TokenIds PROVE t \in Held(new, c, Live) <=> t \in H
      <4>1. CASE t \in Outs
        BY <1>6, <1>11, <4>1 DEF Held, Live
      <4>2. CASE t \notin Outs
        <5> HIDE DEF Outs, In
        <5>1. QED BY <1>5, <1>11, <4>2 DEF Held, Live
      <4>3. QED BY <4>1, <4>2
    <3>2. QED BY <3>1 DEF Held
  <2>2. \A t \in H : g[t] = f[t]
    <3>1. ASSUME NEW t \in H PROVE new[t] = old[t]
      <4>1. t \in TokenIds /\ t \notin Outs /\ ~ In(t)
        <5> HIDE DEF Outs
        <5>1. t \in TokenIds /\ t \notin Outs
          BY <1>7, <1>8
        <5>2. QED BY <1>3, <1>11, <5>1 DEF Held, Among
      <4> HIDE DEF Outs, In
      <4>2. QED BY <1>5, <4>1
    <3>2. QED BY <1>7, <3>1 DEF Amounts
  <2> HIDE DEF f, g, H
  <2>3. SumOver(g, H) = SumOver(f, H)
    BY <1>7, <2>2, SumSame
  <2>4. QED BY <1>9, <1>10, <2>1, <2>3 DEF f, g, H
<1>12. CASE c = r.currency
  <2>1. Held(new, c, Live) = Rest \cup Outs
    <3>1. ASSUME NEW t \in TokenIds PROVE t \in Held(new, c, Live) <=> t \in Rest \cup Outs
      <4>1. CASE t \in Outs
        BY <1>6, <1>12, <4>1 DEF Held, Live
      <4>2. CASE t \notin Outs
        <5> HIDE DEF Outs, In
        <5>1. QED BY <1>5, <1>12, <4>2 DEF Held, Live
      <4>3. QED BY <4>1, <4>2
    <3>2. Rest \cup Outs \subseteq TokenIds
      BY <1>6 DEF Held
    <3> HIDE DEF Rest, Outs
    <3>3. QED BY <3>1, <3>2 DEF Held
  <2>2. /\ InSum(old, r.inputs, Len(r.inputs)) \in Int
        /\ SumOver(f, H) = SumOver(f, Rest) + InSum(old, r.inputs, Len(r.inputs))
    <3>1. \A j \in 1 .. Len(r.inputs) : r.inputs[j] \in H
      BY <1>3, <1>12 DEF Held, Live
    <3> DEFINE ids == r.inputs
    <3>2. Len(ids) \in Nat /\ Distinct(ids) /\ \A j \in 1 .. Len(ids) : ids[j] \in H
      BY <1>1, <3>1
    <3> HIDE DEF ids, H
    <3>3. /\ InSum(old, ids, Len(ids)) \in Int
          /\ SumOver(Amounts(old), H)
               = SumOver(Amounts(old), {t \in H : ~ Among(ids, Len(ids), t)})
                 + InSum(old, ids, Len(ids))
      BY <1>7, <3>2, SumWithout
    <3>4. QED BY <3>3 DEF ids
  <2>3. IsFiniteSet(Rest) /\ \A t \in Rest : f[t] \in Int /\ g[t] = f[t]
    <3>1. Rest \in SUBSET H
      OBVIOUS
    <3>2. IsFiniteSet(Rest)
      BY <1>7, <3>1, FS_Subset
    <3>3. ASSUME NEW t \in Rest PROVE new[t] = old[t] /\ t \in TokenIds /\ f[t] \in Int
      <4>1. t \in TokenIds /\ t \notin Outs /\ ~ In(t) /\ f[t] \in Int
        <5> HIDE DEF Outs, In, H
        <5>1. QED BY <1>7, <1>8
      <4> HIDE DEF Outs, In
      <4>2. QED BY <1>5, <4>1
    <3>4. QED BY <3>2, <3>3 DEF Amounts
  <2>4. SumOver(g, Rest) = SumOver(f, Rest)
    <3> HIDE DEF f, g, Rest
    <3>1. QED BY <2>3, SumSame
  <2>5. SumOver(g, Rest \cup Outs) = SumOver(g, Rest) + OutTotal(r.outputs)
    <3> DEFINE os == r.outputs
    <3>1. \A j \in 1 .. Len(os) : /\ os[j].token_id \notin Rest
                                  /\ g[os[j].token_id] = os[j].amount
                                  /\ os[j].amount \in Int
      <4>1. \A j \in 1 .. Len(os) : os[j].token_id \notin H
        <5> HIDE DEF H
        <5>1. QED BY <1>4, <1>7 DEF Existing
      <4> HIDE DEF H
      <4>2. QED BY <1>2, <1>4, <4>1 DEF Amounts
    <3>2. \A t \in Rest : g[t] \in Int
      BY <2>3
    <3>3. Len(os) \in Nat /\ NewIdsDiffer(os)
      BY <1>1
    <3> HIDE DEF g, Rest, os
    <3>4. SumOver(g, Rest \cup NewIds(os)) = SumOver(g, Rest) + OutTotal(os)
      BY <2>3, <3>1, <3>2, <3>3, SumWith
    <3>5. QED BY <3>4 DEF os
  <2>6. InSum(old, r.inputs, Len(r.inputs)) = OutTotal(r.outputs)
    BY DEF Transferred
  <2> HIDE DEF f, g, H, Rest, Outs
  <2>7. SumOver(g, Rest \cup Outs) = SumOver(f, H)
    BY <2>2, <2>4, <2>5, <2>6
  <2>8. QED BY <1>9, <1>10, <2>1, <2>7 DEF f, g, H
<1>13. QED BY <1>11, <1>12

LEMMA ConservedStep ==
  ASSUME NEW d, NEW e, NEW r, NEW id, Step(d, e, r, id), Conserved(d)
  PROVE  Conserved(e)
<1> DEFINE n   == Len(d.audit)
           row == e.audit[n + 1]
<1>1. /\ n \in Nat /\ Len(e.audit) = n + 1 /\ \A i \in 1 .. n : e.audit[i] = d.audit[i]
      /\ row.action = r.op /\ row.payload = Payload(r)
  BY StepAudit DEF Tells
<1>2. /\ r \in Validated /\ d.utxos \in Utxos /\ e.utxos \in Utxos
      /\ Moved(r, id, d.utxos, e.utxos) /\ IsFiniteSet(Existing(d.utxos))
  BY DEF Step, CarriedOut, DbType, Conserved, Existing
<1>3. \A i \in 1 .. n : d.audit[i].action = "MINT" => d.audit[i].payload.amount \in Int
  <2>1. ASSUME NEW i \in 1 .. n, d.audit[i].action = "MINT"
        PROVE  d.audit[i].payload.amount \in Int
    <3>1. d.audit[i] \in AuditRows(Hashes(d.audit))
      BY DEF Step, DbType
    <3>2. d.audit[i].payload \in MintPayload
      BY <2>1, <3>1 DEF AuditRows
    <3>3. QED BY <3>2 DEF MintPayload
  <2>2. QED BY <2>1
<1> DEFINE f(c) == SumOver(MintAmounts(d.audit), Mints(d.audit, c))
<1>4. ASSUME NEW c
      PROVE  /\ f(c) \in Int
             /\ SumOver(MintAmounts(e.audit), Mints(e.audit, c))
                  = f(c) + IF r.op = "MINT" /\ Payload(r).currency = c
                           THEN Payload(r).amount ELSE 0
  <2> DEFINE M == Mints(d.audit, c)
             A == MintAmounts(d.audit)
             B == MintAmounts(e.audit)
  <2>1. M \subseteq 1 .. n /\ 1 .. Len(e.audit) = 1 .. n \cup {n + 1} /\ n + 1 \notin 1 .. n
    BY <1>1 DEF Mints
  <2>2. IsFiniteSet(M)
    <3>1. IsFiniteSet(1 .. n)
      BY <1>1, FS_Interval
    <3> HIDE DEF M, n
    <3>2. QED BY <2>1, <3>1, FS_Subset
  <2>3. \A i \in M : A[i] \in Int /\ B[i] = A[i]
    <3>1. ASSUME NEW i \in M PROVE A[i] \in Int /\ B[i] = A[i]
      <4>1. i \in 1 .. n /\ i \in 1 .. Len(e.audit) /\ d.audit[i].action = "MINT"
        BY <2>1 DEF Mints
      <4> HIDE DEF n
      <4>2. A[i] = d.audit[i].payload.amount /\ B[i] = e.audit[i].payload.amount
        BY <4>1 DEF MintAmounts, n
      <4>3. QED BY <1>1, <1>3, <4>1, <4>2
    <3>2. QED BY <3>1
  <2>4. n + 1 \notin M /\ B[n + 1] = Payload(r).amount
    BY <1>1, <2>1 DEF MintAmounts
  <2>5. Mints(e.audit, c) = IF r.op = "MINT" /\ Payload(r).currency = c
                            THEN M \cup {n + 1} ELSE M
    <3> HIDE DEF row, n
    <3>1. QED BY <1>1, <2>1 DEF Mints, row, n
  <2>6. r.op = "MINT" => Payload(r).amount \in Int
    <3>1. r.op = "MINT" => r \in MintReq
      BY <1>2, ValidatedFacts
    <3>2. r.op = "MINT" => Payload(r).amount = r.amount
      BY DEF Payload
    <3>3. QED BY <3>1, <3>2 DEF MintReq
  <2>7. SumOver(B, M) = SumOver(A, M) /\ SumOver(A, M) \in Int
    <3> HIDE DEF A, B, M
    <3>1. SumOver(B, M) = SumOver(A, M)
      BY <2>2, <2>3, SumSame
    <3>2. SumOver(A, M) \in Int
      BY <2>2, <2>3, SumType
    <3>3. QED BY <3>1, <3>2
  <2>8. ASSUME r.op = "MINT"
        PROVE  SumOver(B, M \cup {n + 1}) = SumOver(B, M) + Payload(r).amount
    <3> DEFINE x == n + 1
    <3>1. x \notin M /\ B[x] = Payload(r).amount /\ B[x] \in Int /\ \A i \in M : B[i] \in Int
      BY <2>3, <2>4, <2>6, <2>8
    <3> HIDE DEF A, B, M, x
    <3>2. SumOver(B, M \cup {x}) = SumOver(B, M) + B[x]
      BY <2>2, <3>1, SumAdd
    <3>3. QED BY <3>1, <3>2 DEF x
  <2> HIDE DEF A, B, M, n
  <2>9. CASE r.op = "MINT" /\ Payload(r).currency = c
    BY <2>5, <2>7, <2>8, <2>9 DEF A, B, M
  <2>10. CASE ~ (r.op = "MINT" /\ Payload(r).currency = c)
    BY <2>5, <2>7, <2>10 DEF A, B, M
  <2>11. QED BY <2>9, <2>10
<1>5. ASSUME NEW c
      PROVE  /\ IsFiniteSet(Existing(e.utxos))
             /\ SumOver(Amounts(e.utxos), Held(e.utxos, c, Live))
                  = SumOver(Amounts(d.utxos), Held(d.utxos, c, Live))
                    + IF r.op = "MINT" /\ Payload(r).currency = c
                      THEN Payload(r).amount ELSE 0
  <2>1. SumOver(Amounts(d.utxos), Held(d.utxos, c, Live)) \in Int
    <3> DEFINE H == Held(d.utxos, c, Live)
               g == Amounts(d.utxos)
    <3>1. IsFiniteSet(H) /\ \A t \in H : g[t] \in Int
      BY <1>2, HeldFacts
    <3> HIDE DEF H, g
    <3>2. SumOver(g, H) \in Int
      BY <3>1, SumType
    <3>3. QED BY <3>2 DEF H, g
  <2> DEFINE old == d.utxos
             new == e.utxos
  <2>2. /\ r \in Validated /\ old \in Utxos /\ new \in Utxos /\ Moved(r, id, old, new)
        /\ IsFiniteSet(Existing(old))
    BY <1>2
  <2> HIDE DEF old, new, n, row
  <2>3. CASE r.op = "MINT" /\ MintedToken(r, id, old, new)
    <3>1. r \in MintReq
      BY <2>2, <2>3, ValidatedFacts
    <3>2. Payload(r).amount = r.amount /\ Payload(r).currency = r.currency
      BY <2>3 DEF Payload
    <3>3. /\ IsFiniteSet(Existing(new))
          /\ SumOver(Amounts(new), Held(new, c, Live))
               = SumOver(Amounts(old), Held(old, c, Live))
                 + IF r.currency = c THEN r.amount ELSE 0
      BY <2>2, <2>3, <3>1, MintConserves
    <3>4. QED BY <2>3, <3>2, <3>3 DEF old, new
  <2>4. CASE r.op = "TRANSFER" /\ Transferred(r, id, old, new)
    <3>1. /\ IsFiniteSet(Existing(new))
          /\ SumOver(Amounts(new), Held(new, c, Live))
               = SumOver(Amounts(old), Held(old, c, Live))
      BY <2>2, <2>4, TransferConserves
    <3>2. QED BY <2>1, <2>4, <3>1 DEF old, new
  <2>5. CASE r.op = "BURN" /\ Burned(r, old, new)
    <3>1. /\ IsFiniteSet(Existing(new))
          /\ SumOver(Amounts(new), Held(new, c, Live))
               = SumOver(Amounts(old), Held(old, c, Live))
      BY <2>2, <2>5, BurnConserves
    <3>2. QED BY <2>1, <2>5, <3>1 DEF old, new
  <2>6. QED BY <2>2, <2>3, <2>4, <2>5 DEF Moved
<1>6. \A c \in Currencies : SumOver(Amounts(d.utxos), Held(d.utxos, c, Live)) = f(c)
  BY DEF Conserved
<1> HIDE DEF n, row
<1>7. ASSUME NEW c \in Currencies
      PROVE  SumOver(Amounts(e.utxos), Held(e.utxos, c, Live))
               = SumOver(MintAmounts(e.audit), Mints(e.audit, c))
  <2> HIDE DEF f
  <2>1. QED BY <1>4, <1>5, <1>6
<1>8. QED BY <1>5, <1>7 DEF Conserved, Existing

----------------------------------------------------------------------------
(* The invariant holds *)

LEMMA InitBooks == Init => Books
<1> SUFFICES ASSUME Init PROVE Books
  OBVIOUS
<1>1. /\ db.audit = <<>> /\ Len(db.audit) = 0 /\ 1 .. Len(db.audit) = {}
      /\ \A t \in TokenIds : db.utxos[t].status = "ABSENT"
      /\ \A k \in IdemKeys : db.idem[k].status = "ABSENT"
  BY DEF Init, EmptyDb, NoRow, NoEntry
<1>2. IsFiniteSet({}) /\ Cardinality({}) = 0
  BY FS_EmptySet
<1>3. Chained(db) /\ Owned(db)
  BY <1>1 DEF Chained, Owned
<1>4. Told(db)
  BY <1>1 DEF Told, MadeAt, SpentAt, BurnedAt
<1>5. Counted(db)
  <2>1. CompleteKeys(db) = {}
    BY <1>1 DEF CompleteKeys
  <2>2. QED BY <1>1, <1>2, <2>1 DEF Counted
<1>6. Conserved(db)
  <2>1. {t \in TokenIds : db.utxos[t].status # "ABSENT"} = {}
    BY <1>1
  <2>2. ASSUME NEW c \in Currencies
        PROVE  Held(db.utxos, c, Live) = {} /\ Mints(db.audit, c) = {}
    BY <1>1 DEF Held, Live, Mints
  <2>3. QED BY <1>2, <2>1, <2>2, SumEmpty DEF Conserved
<1>7. QED BY <1>3, <1>4, <1>5, <1>6 DEF Books, BooksOf

LEMMA NextBooks == KInv /\ KInv' /\ Books /\ [Next]_vars => Books'
<1> SUFFICES ASSUME KInv, KInv', Books, [Next]_vars PROVE Books'
  OBVIOUS
<1>1. db' = db \/ \E w \in Workers : Commit(w)
  BY OnlyCommitWrites DEF KInv
<1>2. CASE db' = db
  BY <1>2, BooksNext DEF Books
<1>3. CASE \E w \in Workers : Commit(w)
  <2>1. PICK r \in Validated, id \in TxIds :
           /\ CarriedOut(r, id, db, db')
           /\ IdemKey(r) \in IdemKeys /\ db.idem[IdemKey(r)].status = "ABSENT"
           /\ db'.idem = [db.idem EXCEPT ![IdemKey(r)] = CompleteEntry(Answer(r, id))]
    BY <1>3, CommitCarriesOut
  <2>2. DbType(db)
    BY DEF KInv, JInv, IInv, TypeOK
  <2>3. DbType(db')
    <3>1. DbType(db)'
      BY DEF KInv, JInv, IInv, TypeOK
    <3>2. QED BY <3>1 DEF DbType, Hashes, AuditRows, Genesis
  <2>4. Step(db, db', r, id)
    BY <2>1, <2>2, <2>3 DEF Step
  <2>5. BooksOf(db)
    BY DEF Books
  <2> DEFINE d == db
             e == db'
  <2>6. Step(d, e, r, id) /\ BooksOf(d)
    BY <2>4, <2>5
  <2> HIDE DEF d, e
  <2>7. BooksOf(e)
    BY <2>6, ChainedStep, OwnedStep, ToldStep, CountedStep, ConservedStep DEF BooksOf
  <2>8. QED BY <2>7, BooksNext DEF e
<1>4. QED BY <1>1, <1>2, <1>3

\* KInv and Books together are inductive.
LEMMA BooksAlways == Spec => [](KInv /\ Books)
<1>1. Init => KInv /\ Books
  BY InitKInv, InitBooks
<1>2. (KInv /\ Books) /\ [Next]_vars => (KInv /\ Books)'
  BY NextKInv, NextBooks
<1>3. QED BY <1>1, <1>2, PTL DEF Spec

----------------------------------------------------------------------------
(* What the books show *)

\* What mint, burn and process_tx write into ledger_audit and ledger_utxos in
\* one transaction agrees: a token was consumed by its owner, in its currency.
THEOREM OwnersConsume == Spec => []ConsumedByOwner
<1>1. Books => ConsumedByOwner
  BY DEF Books, BooksOf, Owned, ConsumedByOwner
<1>2. QED BY <1>1, BooksAlways, PTL

\* Every token was created by one audit row and consumed by at most one later
\* row, as its status tells: whatever the interleaving of the processes, and
\* whichever of them dies.
THEOREM TrailExplainsTokens == Spec => []AuditExplainsTokens
<1>1. ASSUME NEW S, Single(S) PROVE Cardinality(S) = 1
  BY <1>1, FS_Singleton DEF Single
<1>2. Cardinality({}) = 0
  BY FS_EmptySet
<1>3. ASSUME Books, NEW t \in TokenIds
      PROVE  /\ Cardinality(MadeAt(db, t)) = (IF db.utxos[t].status = "ABSENT" THEN 0 ELSE 1)
             /\ Cardinality(SpentAt(db, t)) = (IF db.utxos[t].status = "SPENT" THEN 1 ELSE 0)
             /\ Cardinality(BurnedAt(db, t)) = (IF db.utxos[t].status = "BURNED" THEN 1 ELSE 0)
             /\ \A i \in MadeAt(db, t), j \in SpentAt(db, t) \cup BurnedAt(db, t) : i < j
  BY <1>1, <1>2, <1>3 DEF Books, BooksOf, Told
<1>4. Books => AuditExplainsTokens
  BY <1>3 DEF AuditExplainsTokens, RowsWhere, MadeAt, SpentAt, BurnedAt
<1>5. QED BY <1>4, BooksAlways, PTL

\* As many effects as answered keys, through retries, crashes and failures.
THEOREM KeysMatchEffects == Spec => []OneEffectPerKey
<1>1. Books => OneEffectPerKey
  BY DEF Books, BooksOf, Counted, CompleteKeys, OneEffectPerKey
<1>2. QED BY <1>1, BooksAlways, PTL

\* Recomputing the hashes from the payloads gives the stored ones, whatever
\* processes appended the rows.
THEOREM TrailIsAChain == Spec => []AuditChain
<1>1. ASSUME KInv, Books PROVE AuditChain
  <2> DEFINE n == Len(db.audit)
             Eq(h) == h = [m \in 0 .. Len(db.audit) |->
                             IF m = 0 THEN Genesis
                             ELSE ChainHash(h[m - 1], db.audit[m].payload)]
             stored == [m \in 0 .. n |-> IF m = 0 THEN Genesis ELSE db.audit[m].chain_hash]
             recomputed == CHOOSE h : Eq(h)
  <2>1. n \in Nat
    BY <1>1 DEF KInv, JInv, IInv, TypeOK, DbType
  <2>2. ASSUME NEW m \in 1 .. n
        PROVE  /\ m \in 0 .. n /\ m - 1 \in 0 .. n /\ m # 0
               /\ stored[m] = ChainHash(stored[m - 1], db.audit[m].payload)
               /\ stored[m] = db.audit[m].chain_hash
               /\ stored[m - 1] = db.audit[m].prev_hash
    <3>1. m \in 0 .. n /\ m - 1 \in 0 .. n /\ m # 0 /\ (m - 1 = 0 <=> m = 1)
      BY <2>1
    <3>2. /\ db.audit[m].prev_hash = IF m = 1 THEN Genesis ELSE db.audit[m - 1].chain_hash
          /\ db.audit[m].chain_hash = ChainHash(db.audit[m].prev_hash, db.audit[m].payload)
      BY <1>1 DEF Books, BooksOf, Chained
    <3> HIDE DEF n
    <3>3. QED BY <3>1, <3>2
  <2>3. Eq(stored)
    <3>1. ASSUME NEW m \in 0 .. n
          PROVE  stored[m] = IF m = 0 THEN Genesis
                             ELSE ChainHash(stored[m - 1], db.audit[m].payload)
      <4>1. CASE m = 0
        BY <4>1
      <4>2. CASE m # 0
        <5>1. m \in 1 .. n
          BY <2>1, <4>2
        <5> HIDE DEF stored, n
        <5>2. QED BY <2>2, <4>2, <5>1
      <4>3. QED BY <4>1, <4>2
    <3>2. stored = [m \in 0 .. n |-> stored[m]]
      OBVIOUS
    <3> HIDE DEF stored
    <3>3. [m \in 0 .. n |-> stored[m]]
            = [m \in 0 .. n |-> IF m = 0 THEN Genesis
                                ELSE ChainHash(stored[m - 1], db.audit[m].payload)]
      BY <3>1
    <3>4. QED BY <3>2, <3>3 DEF n
  <2>4. Eq(recomputed)
    <3> HIDE DEF Eq, stored
    <3>1. QED BY <2>3
  <2>5. \A m \in 0 .. n : recomputed[m] = stored[m]
    <3> DEFINE P == {m \in Nat : m =< n => recomputed[m] = stored[m]}
    <3> HIDE DEF stored, recomputed
    <3>1. 0 \in P
      BY <2>1, <2>3, <2>4
    <3>2. ASSUME NEW m \in Nat, m \in P PROVE m + 1 \in P
      <4>1. SUFFICES ASSUME m + 1 =< n PROVE recomputed[m + 1] = stored[m + 1]
        OBVIOUS
      <4>2. /\ m + 1 \in 0 .. Len(db.audit) /\ m + 1 # 0 /\ (m + 1) - 1 = m
            /\ recomputed[m] = stored[m]
        BY <2>1, <3>2, <4>1
      <4>3. recomputed[m + 1] = ChainHash(recomputed[m], db.audit[m + 1].payload)
        BY <2>4, <4>2
      <4>4. stored[m + 1] = ChainHash(stored[m], db.audit[m + 1].payload)
        BY <2>3, <4>2
      <4>5. QED BY <4>2, <4>3, <4>4
    <3> HIDE DEF P, n
    <3>3. Nat \subseteq P
      BY <3>1, <3>2, NatSetInduction
    <3>4. QED BY <2>1, <3>3 DEF P
  <2> HIDE DEF stored, recomputed, n
  <2>6. \A m \in 1 .. n : /\ db.audit[m].chain_hash = recomputed[m]
                          /\ db.audit[m].prev_hash = recomputed[m - 1]
    BY <2>2, <2>5
  <2>7. QED BY <2>6 DEF AuditChain, recomputed, n
<1>2. KInv /\ Books => AuditChain
  BY <1>1
<1>3. QED BY <1>2, BooksAlways, PTL

\* In every currency the value that mints brought in is the value of the
\* tokens that are unspent or were burned: no transfer, and no crash, failure
\* or interleaving, makes or loses any.
THEOREM ValueIsConserved == Spec => []SupplyConserved
<1>1. ASSUME KInv, Books PROVE SupplyConserved
  <2>1. Len(db.audit) \in Nat /\ db.utxos \in Utxos
    BY <1>1 DEF KInv, JInv, IInv, TypeOK, DbType
  <2>2. IsFiniteSet(Existing(db.utxos))
    BY <1>1 DEF Books, BooksOf, Conserved, Existing
  <2>3. ASSUME NEW c \in Currencies PROVE Value(c, Live) = Minted(c)
    <3>1. SumOver(Amounts(db.utxos), Held(db.utxos, c, Live))
            = SumOver(MintAmounts(db.audit), Mints(db.audit, c))
      BY <1>1 DEF Books, BooksOf, Conserved
    <3>2. IsFiniteSet(Held(db.utxos, c, Live))
      BY <2>1, <2>2, HeldFacts
    <3>3. QED BY <2>1, <3>1, <3>2, ValueIs, MintedIs
  <2>4. QED BY <2>3 DEF SupplyConserved, Live
<1>2. KInv /\ Books => SupplyConserved
  BY <1>1
<1>3. QED BY <1>2, BooksAlways, PTL
============================================================================
