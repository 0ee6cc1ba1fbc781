------------------------------- MODULE Ledger -------------------------------
(***************************************************************************)
(* What hamilton-core promises: every accepted request acts on the ledger  *)
(* in one indivisible step, at most once for each idempotency key, and is  *)
(* written in a journal.  There are no transactions, no locks, no workers  *)
(* and no failures here; HamiltonCore is shown to implement this.          *)
(***************************************************************************)
EXTENDS LedgerTypes

VARIABLES
  tokens,   \* every token ever created, its owner, amount and fate
  done,     \* the answer given under each idempotency key, or NoAnswer
  journal   \* the operations that took effect, in order

vars == <<tokens, done, journal>>

\* A journal entry: the operation, the id it goes by, and what it did.
Entry(r, id) == [tx_id |-> id, action |-> r.op, payload |-> Payload(r)]

FreshEntryId(id) == \A i \in 1 .. Len(journal) : journal[i].tx_id # id

TypeOK ==
  /\ tokens \in Utxos
  /\ done \in [IdemKeys -> Answers \cup {NoAnswer}]
  /\ \A i \in 1 .. Len(journal) : journal[i].tx_id \in TxIds

Init ==
  /\ tokens = [t \in TokenIds |-> NoRow]
  /\ done = [k \in IdemKeys |-> NoAnswer]
  /\ journal = <<>>

\* What every operation does besides moving tokens.
Record(r, id) ==
  /\ done[IdemKey(r)] = NoAnswer
  /\ FreshEntryId(id)
  /\ done' = [done EXCEPT ![IdemKey(r)] = Answer(r, id)]
  /\ journal' = Append(journal, Entry(r, id))

\* The tokens listed in ids are all unspent and all belong to owner.
Available(ids, owner) ==
  \A i \in 1 .. Len(ids) : Unspent(tokens, ids[i]) /\ tokens[ids[i]].owner = owner

\* Value held by a list of tokens.
InTotal(ids) ==
  LET sum[n \in 0 .. Len(ids)] == IF n = 0 THEN 0 ELSE sum[n - 1] + tokens[ids[n]].amount
  IN  sum[Len(ids)]

Mint(r) ==
  \E id \in TokenIds :
    /\ ~ Exists(tokens, id)
    /\ tokens' = [tokens EXCEPT ![id] = NewRow(r.amount, r.currency, r.public_key)]
    /\ Record(r, id)

\* All inputs are consumed and all outputs appear together, at equal value.
Transfer(r) ==
  LET outOf(t) == {i \in 1 .. Len(r.outputs) : r.outputs[i].token_id = t}
      isIn(t)  == \E i \in 1 .. Len(r.inputs) : r.inputs[i] = t
  IN  /\ Available(r.inputs, r.signer)
      /\ \A i \in 1 .. Len(r.inputs) : tokens[r.inputs[i]].currency = r.currency
      /\ InTotal(r.inputs) = OutTotal(r.outputs)
      /\ \A i \in 1 .. Len(r.outputs) : ~ Exists(tokens, r.outputs[i].token_id)
      /\ tokens' = [t \in TokenIds |->
            IF isIn(t) THEN [tokens[t] EXCEPT !.status = "SPENT"]
            ELSE IF outOf(t) # {}
                 THEN LET out == r.outputs[CHOOSE i \in outOf(t) : TRUE]
                      IN  NewRow(out.amount, r.currency, out.receiver)
                 ELSE tokens[t]]
      /\ Record(r, r.transaction_id)

Burn(r) ==
  /\ Available(r.token_ids, r.owner)
  /\ tokens' = [t \in TokenIds |->
        IF \E i \in 1 .. Len(r.token_ids) : r.token_ids[i] = t
        THEN [tokens[t] EXCEPT !.status = "BURNED"] ELSE tokens[t]]
  /\ \E id \in TxIds : Record(r, id)

Next ==
  \E r \in {Parsed(q) : q \in {p \in Requests : Admissible(p)}} :
    \/ r.op = "MINT" /\ Mint(r)
    \/ r.op = "TRANSFER" /\ Transfer(r)
    \/ r.op = "BURN" /\ Burn(r)

Spec == Init /\ [][Next]_vars
============================================================================
