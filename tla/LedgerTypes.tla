---------------------------- MODULE LedgerTypes ----------------------------
(***************************************************************************)
(* The data of hamilton-core (hamilton/main.py): requests as the three     *)
(* endpoints receive them, rows of the utxos table, and the checks made    *)
(* on a request before its database transaction starts.                    *)
(*                                                                         *)
(* Amounts on the wire are counted in units of which Subunits make a cent  *)
(* (the wire carries a Decimal of any precision); amounts in the database  *)
(* are whole cents, because every one of them went through _to_decimal.    *)
(***************************************************************************)
EXTENDS Integers, Sequences, FiniteSets

CONSTANTS
  Clients,      \* client_id of the rows of table clients
  Role,         \* Role[c]: the role column of client c
  Keys,         \* idempotency keys (header x-idem)
  TokenIds,     \* primary keys of table utxos
  TxIds,        \* values of ledger_audit.tx_id
  Currencies,   \* ALLOWED_CURRENCIES
  Owners,       \* Ed25519 public keys
  Subunits,     \* wire units per cent
  MAX_UTXO_LIST,\* longest list of inputs, outputs or token ids
  Requests      \* the requests that clients may send, and send again

(***************************************************************************)
(* signed abstracts what authenticate, _verify_network, _verify_signed_at  *)
(* and _verify_ed25519 decide about the bytes of a request.                *)
(***************************************************************************)
Outputs == [token_id: TokenIds, amount: Nat, receiver: Owners]

TxRequest ==
  [op: {"TRANSFER"}, client: Clients, key: Keys, signed: BOOLEAN,
   transaction_id: TxIds, currency: Currencies, inputs: Seq(TokenIds),
   outputs: Seq(Outputs), signer: Owners]

MintReq ==
  [op: {"MINT"}, client: Clients, key: Keys, signed: BOOLEAN,
   amount: Nat, currency: Currencies, public_key: Owners]

BurnReq ==
  [op: {"BURN"}, client: Clients, key: Keys, signed: BOOLEAN,
   token_ids: Seq(TokenIds), owner: Owners]

AllRequests == TxRequest \cup MintReq \cup BurnReq

ASSUME RequestsAssumption == Requests \subseteq AllRequests
ASSUME RoleAssumption == Role \in [Clients -> {"ISSUER", "PROCESSOR"}]
ASSUME IdsAssumption == TokenIds \subseteq TxIds
ASSUME SubunitsAssumption == Subunits \in Nat \ {0}
ASSUME MaxListAssumption == MAX_UTXO_LIST \in Nat \ {0}

----------------------------------------------------------------------------
(* Amounts *)

\* _to_decimal: what is stored for a wire amount, rounded down to a cent.
ToDecimal(v) == v \div Subunits

\* The sign is checked on the wire amount, before the rounding.
PositiveAmount(v) == v > 0

\* The request as its pydantic model holds it, with amounts in cents.
Parsed(r) ==
  CASE r.op = "TRANSFER" ->
         [r EXCEPT !.outputs = [i \in 1 .. Len(r.outputs) |->
            [r.outputs[i] EXCEPT !.amount = ToDecimal(r.outputs[i].amount)]]]
    [] r.op = "MINT" -> [r EXCEPT !.amount = ToDecimal(r.amount)]
    [] r.op = "BURN" -> r

\* sum(o.amount for o in tx.outputs), of a parsed request.
OutTotal(outputs) ==
  LET sum[n \in 0 .. Len(outputs)] ==
        IF n = 0 THEN 0 ELSE sum[n - 1] + outputs[n].amount
  IN  sum[Len(outputs)]

----------------------------------------------------------------------------
(* Admission: the checks made before BEGIN IMMEDIATE *)

Distinct(s) == \A i, j \in 1 .. Len(s) : s[i] = s[j] => i = j

GoodList(s) == Len(s) \in 1 .. MAX_UTXO_LIST

AdmitTransfer(r) ==
  /\ Role[r.client] = "PROCESSOR"
  /\ GoodList(r.inputs) /\ Distinct(r.inputs)
  /\ GoodList(r.outputs) /\ Distinct([i \in 1 .. Len(r.outputs) |-> r.outputs[i].token_id])
  /\ \A i \in 1 .. Len(r.outputs) : PositiveAmount(r.outputs[i].amount)

AdmitMint(r) ==
  /\ Role[r.client] = "ISSUER"
  /\ PositiveAmount(r.amount)

\* The burn endpoint asks for no role.
AdmitBurn(r) == GoodList(r.token_ids) /\ Distinct(r.token_ids)

Admissible(r) ==
  /\ r.signed
  /\ CASE r.op = "TRANSFER" -> AdmitTransfer(r)
       [] r.op = "MINT"     -> AdmitMint(r)
       [] r.op = "BURN"     -> AdmitBurn(r)

----------------------------------------------------------------------------
(* Rows of table utxos: a total function from ids, NoRow where there is none *)

NoRow == [status |-> "ABSENT"]

Row == [status: {"UNSPENT", "SPENT", "BURNED"}, amount: Nat,
        currency: Currencies, owner: Owners]

Utxos == [TokenIds -> Row \cup {NoRow}]

NewRow(amount, currency, owner) ==
  [status |-> "UNSPENT", amount |-> amount, currency |-> currency, owner |-> owner]

\* Variant (see HamiltonCore): the status is not looked at.
AnyStatus(utxos, tid) == utxos[tid].status # "ABSENT"

Unspent(utxos, tid) == utxos[tid].status = "UNSPENT"

\* Variant: INSERT OR REPLACE.
Overwritable(utxos, tid) == FALSE

Exists(utxos, tid) == utxos[tid].status # "ABSENT"

----------------------------------------------------------------------------
(* The answers kept in idempotency_cache.response, and its keys *)

IdemKeys == Clients \X Keys

IdemKey(r) == <<r.client, r.key>>

NoAnswer == [op |-> "NONE"]

\* What a client is told when r succeeds; id is the minted token's.
Answer(r, id) ==
  CASE r.op = "TRANSFER" -> [op |-> "TRANSFER", id |-> r.transaction_id]
    [] r.op = "MINT"     -> [op |-> "MINT", id |-> id]
    [] r.op = "BURN"     -> [op |-> "BURN", burned |-> Len(r.token_ids)]

Answers ==
  [op: {"TRANSFER", "MINT"}, id: TxIds] \cup [op: {"BURN"}, burned: Nat]

----------------------------------------------------------------------------
(* What an audit record says of a request (ledger_audit.payload): for a     *)
(* mint the amount, currency and key, otherwise the data the client signed *)

TransferPayload == [transaction_id: TxIds, currency: Currencies, inputs: Seq(TokenIds),
                    outputs: Seq(Outputs), signer: Owners]
MintPayload     == [amount: Nat, currency: Currencies, public_key: Owners]
BurnPayload     == [token_ids: Seq(TokenIds), owner: Owners]

Payload(r) ==
  CASE r.op = "TRANSFER" ->
         [transaction_id |-> r.transaction_id, currency |-> r.currency,
          inputs |-> r.inputs, outputs |-> r.outputs, signer |-> r.signer]
    [] r.op = "MINT" ->
         [amount |-> r.amount, currency |-> r.currency, public_key |-> r.public_key]
    [] r.op = "BURN" -> [token_ids |-> r.token_ids, owner |-> r.owner]
============================================================================
