------------------------------ MODULE UtxoTypes ------------------------------
(***************************************************************************)
(* What the two UTXO stores of utxo/ share: tokens, transactions, and the  *)
(* rules by which a transaction replaces its inputs by its outputs.        *)
(*                                                                         *)
(* uuid.uuid4 never repeats itself, so new ids are simply the next numbers.*)
(***************************************************************************)
EXTENDS Integers, Sequences, FiniteSetsExt

CONSTANTS
  Owners,       \* public keys
  Currencies,
  FeeCollector, \* the public key that fees go to
  Txs,          \* transactions that callers may submit
  Genesis,      \* tokens that the store starts with, by id
  MAX_TX_LIST,  \* MAX_TX_INPUTS and MAX_TX_OUTPUTS
  ModelIds,     \* the type of an id in an object that pydantic has built:
                \* "uuid" as token_id is declared, "str" were it a string
  RefusesLocks  \* whether the store refuses tokens with a lock script

Ids == Nat \ {0}

IdTypes == {"uuid", "str"}

Token == [amount: Nat, currency: Currencies, owner: Owners,
          ids: IdTypes,       \* the type of its token_id
          locked: BOOLEAN,    \* a lock_script that is not empty
          expires: BOOLEAN]   \* an expires_at

\* signer: whose key signed the transaction's hash for this input.
Input == [token_id: Ids, signer: Owners]

Output == [amount: Int, currency: Currencies, owner: Owners, locked: BOOLEAN]

\* ids: the type of the ids of its inputs, which a caller may change after
\* pydantic.  claims: the transaction_id that the object carries.
Tx == [ids: IdTypes, claims: {"nothing", "hash", "other"},
       inputs: Seq(Input), outputs: Seq(Output), fee: Int]

ASSUME UtxoAssumption ==
  /\ FeeCollector \in Owners
  /\ MAX_TX_LIST \in Nat
  /\ Txs \subseteq Tx
  /\ ModelIds \in IdTypes /\ RefusesLocks \in BOOLEAN
  /\ Genesis \in Seq(Token)

InputIds(x) == {x.inputs[i].token_id : i \in DOMAIN x.inputs}

\* The canonical form names neither signatures nor lock scripts.
TxHash(x) ==
  <<[i \in DOMAIN x.inputs |-> x.inputs[i].token_id],
    [i \in DOMAIN x.outputs |->
       [amount |-> x.outputs[i].amount, currency |-> x.outputs[i].currency,
        owner |-> x.outputs[i].owner]],
    x.fee>>

\* What is asked of a transaction whatever the tokens are.
Bounded(x) ==
  /\ x.inputs # <<>> /\ Len(x.inputs) =< MAX_TX_LIST
  /\ x.outputs # <<>> /\ Len(x.outputs) =< MAX_TX_LIST

Positive(x) ==
  /\ x.fee >= 0
  /\ \A i \in DOMAIN x.outputs : x.outputs[i].amount > 0

\* json.dumps has no form for a UUID object and raises TypeError.
Serialisable(x) == x.ids = "str"

Identified(x) == x.claims # "other"

NoDuplicates(x) == Cardinality(InputIds(x)) = Len(x.inputs)

SumAmounts(f) == MapThenSumSet(LAMBDA i : f[i].amount, DOMAIN f)

\* Each input is found among the tokens under an id of the same type, is in
\* the currency of the first and signed by its owner; the outputs are in that
\* currency too, and nothing is gained or lost.
Intent(x, held) ==
  LET target == held[x.inputs[1].token_id].currency
  IN  /\ \A i \in DOMAIN x.inputs :
           LET u == held[x.inputs[i].token_id]
           IN  /\ u.ids = x.ids
               /\ u.currency = target
               /\ RefusesLocks => ~ u.locked
               /\ u.owner = x.inputs[i].signer
      /\ \A i \in DOMAIN x.outputs : x.outputs[i].currency = target
      /\ SumAmounts([id \in InputIds(x) |-> held[id]]) = SumAmounts(x.outputs) + x.fee

NewToken(amount, currency, owner, locked) ==
  [amount |-> amount, currency |-> currency, owner |-> owner, locked |-> locked,
   ids |-> ModelIds, expires |-> FALSE]

\* Variant: the fee goes nowhere.
NoFeeToken(x, held) ==
  [i \in DOMAIN x.outputs |->
     NewToken(x.outputs[i].amount, x.outputs[i].currency, x.outputs[i].owner,
              x.outputs[i].locked)]

\* Variant: there is a token for the fee even if there is no fee.
AlwaysFeeToken(x, held) ==
  Append(NoFeeToken(x, held),
         NewToken(x.fee, held[x.inputs[1].token_id].currency, FeeCollector, FALSE))

\* The tokens that x creates: its outputs and, if there is a fee, its token.
Created(x, held) ==
  [i \in DOMAIN x.outputs |->
     NewToken(x.outputs[i].amount, x.outputs[i].currency, x.outputs[i].owner,
              x.outputs[i].locked)]
    \o (IF x.fee > 0
        THEN <<NewToken(x.fee, held[x.inputs[1].token_id].currency, FeeCollector, FALSE)>>
        ELSE <<>>)
============================================================================
