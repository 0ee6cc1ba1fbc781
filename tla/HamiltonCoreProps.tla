-------------------------- MODULE HamiltonCoreProps --------------------------
(***************************************************************************)
(* The correctness properties of hamilton-core.                            *)
(***************************************************************************)
EXTENDS HamiltonCore, FiniteSetsExt

----------------------------------------------------------------------------
(* Types *)

\* Rows of ledger_audit, with hashes in H: the payload fits the action.
AuditRows(H) ==
  [tx_id: TxIds, action: {"TRANSFER"}, payload: TransferPayload, prev_hash: H, chain_hash: H]
    \cup [tx_id: TxIds, action: {"MINT"}, payload: MintPayload, prev_hash: H, chain_hash: H]
    \cup [tx_id: TxIds, action: {"BURN"}, payload: BurnPayload, prev_hash: H, chain_hash: H]

\* The hashes that occur in an audit table, and the empty one.
Hashes(audit) == {audit[i].chain_hash : i \in DOMAIN audit} \cup {Genesis}

DbType(d) ==
  d \in [utxos: Utxos, idem: [IdemKeys -> IdemEntries],
         audit: Seq(AuditRows(Hashes(d.audit)))]

Labels == {"down", "idle", "begin", "acquire", "spend", "totals", "create", "audit",
           "mint", "burn", "burn_audit", "complete", "commit", "respond"}

Codes == {"NONE", "REFUSED", "OK", "REJECTED", "CONFLICT", "ERROR"}

\* The tables, the lock and the local variables of the handlers hold what
\* the schema and the pydantic models allow: in particular only a COMPLETE
\* idempotency row carries a response.
TypeOK ==
  /\ DbType(db)
  /\ writer \in Workers \cup {NoWorker}
  /\ work = [w \in Workers |-> work[w]]
  /\ \A w \in Workers : work[w] = NoWork \/ DbType(work[w])
  /\ pc \in [Workers -> Labels]
  /\ req \in [Workers -> AllRequests \cup {NoReq}]
  /\ idx \in [Workers -> 1 .. MAX_UTXO_LIST]
  /\ in_total \in [Workers -> Nat]
  /\ result \in [Workers -> Answers \cup {NoAnswer}]
  /\ code \in [Workers -> Codes]

----------------------------------------------------------------------------
(* Transactions and idempotency *)

\* The write lock is held exactly from BEGIN IMMEDIATE to COMMIT or ROLLBACK,
\* on every path through the handlers: no early return and no exception
\* leaves it behind, and no two handlers are in a transaction at once.
LockHolder ==
  \A w \in Workers : /\ InTransaction(w) <=> writer = w
                     /\ ~ InTransaction(w) => work[w] = NoWork

\* A PENDING idempotency row is never seen by another connection: the claim
\* is committed together with its answer or not at all.  So the 409 branch
\* of _idem_acquire and the clean-up of init_db have nothing to act on.
NoCommittedPending ==
  \A k \in IdemKeys : db.idem[k].status # "PENDING"

\* Answered keys and effects correspond one to one, through retries, crashes
\* and failures: as many audit rows as COMPLETE keys, and every answer that
\* names an operation has that operation's audit row.
OneEffectPerKey ==
  LET complete == {k \in IdemKeys : db.idem[k].status = "COMPLETE"}
  IN  /\ Len(db.audit) = Cardinality(complete)
      /\ \A k \in complete : db.idem[k].response.op # "BURN" =>
            \E i \in 1 .. Len(db.audit) :
               /\ db.audit[i].action = db.idem[k].response.op
               /\ db.audit[i].tx_id = db.idem[k].response.id

\* Success is never reported before it is durable: whatever process answered
\* 200, with whatever body, a retry under the key finds that same answer.
ReplyIsDurable ==
  \A w \in Workers :
    pc[w] = "respond" /\ code[w] = "OK" =>
      db.idem[IdemKey(req[w])] = [status |-> "COMPLETE", response |-> result[w]]

----------------------------------------------------------------------------
(* Tokens and the audit trail *)

Listed(ids, t) == \E i \in 1 .. Len(ids) : ids[i] = t

\* The audit row a created token t, spent it, burned it.
Creates(a, t) ==
  \/ a.action = "MINT" /\ a.tx_id = t
  \/ a.action = "TRANSFER" /\ \E i \in 1 .. Len(a.payload.outputs) :
                                 a.payload.outputs[i].token_id = t

Spends(a, t) == a.action = "TRANSFER" /\ Listed(a.payload.inputs, t)

Burns(a, t) == a.action = "BURN" /\ Listed(a.payload.token_ids, t)

RowsWhere(P(_)) == {i \in 1 .. Len(db.audit) : P(db.audit[i])}

\* The audit trail alone tells the fate of every token, and no token is
\* spent or burned twice: it was created by one row, consumed by at most
\* one later row, and its status says which kind.
AuditExplainsTokens ==
  \A t \in TokenIds :
    LET made   == RowsWhere(LAMBDA a : Creates(a, t))
        spent  == RowsWhere(LAMBDA a : Spends(a, t))
        burned == RowsWhere(LAMBDA a : Burns(a, t))
        status == db.utxos[t].status
    IN  /\ Cardinality(made) = (IF status = "ABSENT" THEN 0 ELSE 1)
        /\ Cardinality(spent) = (IF status = "SPENT" THEN 1 ELSE 0)
        /\ Cardinality(burned) = (IF status = "BURNED" THEN 1 ELSE 0)
        /\ \A i \in made, j \in spent \cup burned : i < j

\* Only the owner consumes a token, and only in its own currency: the row of
\* every consumed token agrees with the signer of the operation.
ConsumedByOwner ==
  \A i \in 1 .. Len(db.audit) : \A t \in TokenIds :
    LET a == db.audit[i]
    IN  /\ Spends(a, t) => /\ db.utxos[t].owner = a.payload.signer
                           /\ db.utxos[t].currency = a.payload.currency
        /\ Burns(a, t) => db.utxos[t].owner = a.payload.owner

\* Value of the tokens of currency c whose status is in S.
Value(c, S) ==
  MapThenSumSet(LAMBDA t : db.utxos[t].amount,
                {t \in TokenIds : /\ db.utxos[t].status \in S
                                  /\ db.utxos[t].currency = c})

\* Value that mints brought into currency c, according to the audit trail.
Minted(c) ==
  MapThenSumSet(LAMBDA i : db.audit[i].payload.amount,
                {i \in 1 .. Len(db.audit) : /\ db.audit[i].action = "MINT"
                                            /\ db.audit[i].payload.currency = c})

\* Transfers neither create nor destroy value in any currency: what was
\* minted is either still spendable or was burned.
SupplyConserved ==
  \A c \in Currencies : Value(c, {"UNSPENT", "BURNED"}) = Minted(c)

\* "amount must be positive" is what _to_decimal tells a client who asks for
\* a token worth nothing, so no token is worth nothing.
PositiveAmounts ==
  \A t \in TokenIds : Exists(db.utxos, t) => db.utxos[t].amount > 0

\* An auditor who recomputes the hash chain from the payloads arrives at the
\* stored hashes, whatever processes appended the rows.
AuditChain ==
  LET recomputed[n \in 0 .. Len(db.audit)] ==
        IF n = 0 THEN Genesis ELSE ChainHash(recomputed[n - 1], db.audit[n].payload)
  IN  \A n \in 1 .. Len(db.audit) : /\ db.audit[n].chain_hash = recomputed[n]
                                    /\ db.audit[n].prev_hash = recomputed[n - 1]

----------------------------------------------------------------------------
(* What no step may do *)

\* A token row never disappears, never changes its amount, currency or
\* owner, and its status only goes from UNSPENT to SPENT or to BURNED.
RowAges(old, new) ==
  \/ new = old
  \/ old = NoRow /\ new.status = "UNSPENT"
  \/ /\ old.status = "UNSPENT"
     /\ new \in {[old EXCEPT !.status = "SPENT"], [old EXCEPT !.status = "BURNED"]}

TokensOnlyAge == [][\A t \in TokenIds : RowAges(db.utxos[t], db'.utxos[t])]_vars

\* The audit trail is append-only: no commit overwrites what another process
\* committed, and no start-up removes it.
AuditAppendOnly ==
  [][ /\ Len(db.audit) =< Len(db'.audit)
      /\ \A i \in 1 .. Len(db.audit) : db'.audit[i] = db.audit[i] ]_vars

\* An answer once stored is never changed or forgotten, not even by the
\* clean-up of a process that starts while others serve.
AnswersAreFinal ==
  [][\A k \in IdemKeys :
       db.idem[k].status = "COMPLETE" => db'.idem[k] = db.idem[k]]_vars

----------------------------------------------------------------------------
(* The abstract ledger, and progress *)

L == INSTANCE Ledger WITH
       tokens  <- db.utxos,
       done    <- [k \in IdemKeys |-> db.idem[k].response],
       journal <- [i \in 1 .. Len(db.audit) |->
                     [tx_id |-> db.audit[i].tx_id, action |-> db.audit[i].action,
                      payload |-> db.audit[i].payload]]

\* Every operation is atomic and happens at most once per key, as Ledger
\* says: no partial effect of a failed or killed handler is ever visible.
ImplementsLedger == L!Spec

\* The single write lock is always given back, so that no process starves
\* the others by dying or looping inside a transaction.
LockReleased == \A w \in Workers : writer = w ~> writer # w

\* A request that passed admission is answered unless its process dies, even
\* when the lock is always taken by someone else.
Answered == \A w \in Workers : pc[w] = "begin" ~> pc[w] \in {"idle", "down"}

============================================================================
