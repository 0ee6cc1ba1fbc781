# Project Hamilton in TLA+

Models, model-checking runs and machine-checked proofs for the tokenised
payment system in this repository: mints, transfers and burns of UTXO tokens,
the services around them, and the databases in which they meet.

Read in this order: `Ledger.tla` (what the core promises), `HamiltonCore.tla`
(how it works), `HamiltonCoreProps.tla` (what is claimed of it), then the
modules of the other services.

* [1. The system](#1-the-system)
* [2. Modules and code](#2-modules-and-code)
* [3. Runs](#3-runs)
* [4. Fairness](#4-fairness)
* [5. Proofs](#5-proofs)
* [6. Disagreements found](#6-disagreements-found)
* [7. Assumptions, and what is not modelled](#7-assumptions-and-what-is-not-modelled)
* [8. Plan](#8-plan)

## 1. The system

| Component | Code | State it keeps | Operations |
|---|---|---|---|
| hamilton-core | `hamilton/main.py` | SQLite: `utxos`, `idempotency_cache`, `ledger_audit`, `clients`; Redis: rate counters | `transactions/process`, `tokens/mint`, `tokens/burn`, start-up (`init_db`) |
| merchant service | `merchant/main.py` | SQLite: `payments`, `payment_events`, `processed_webhooks`; Redis: rate counters | `payments/create`, `payments/callback` (webhook), status query |
| liquidity bridge | `bridge/main.py` | SQLite (WAL): `transactions`, `liquidity`, `replay_protection`, `rate_limit` | `mint`, `burn` |
| Redis UTXO store | `utxo/store.py` | Redis: `utxo:*`, `owner:*`, `tx:*`, audit stream | `add_utxo`, `process_transaction`, `get_balance`, `snapshot`, `restore` |
| in-memory UTXO ledger | `utxo/mock_store.py` | two dictionaries, a bounded history, one lock | `apply_transaction`, `get_balance`, `get_utxo` |
| request connections | `get_db` in hamilton, bridge, merchant | one SQLite connection per request | open, use, close, in the threads FastAPI picks |
| edge wallet | `wallet/cli.py` | key file, token file, file of locked tokens | key creation, sync, payment building, signing, balance, QR code |
| core models | `core/models.py` | none (schemas) | validation, status transitions |
| crypto | `core/crypto.py` | none | key generation, hashing, signing |
| orchestrator | `main.py` | table of child processes, working directory | start, stop, start-all |
| system test | `test_system.py` | none | calls the others |

**How they interact.** The services do not call each other in code: a bank
(or its gateway) calls the bridge; an `ISSUER` client calls the mint endpoint and
a `PROCESSOR` client the transfer endpoint of hamilton-core; the payment
provider calls the merchant's webhook; the wallet polls a node. What makes the
components hard is therefore not a protocol between them but what happens
*inside* each one: several processes or threads over one database file, callers
that repeat what they sent, and processes that die.

**Behaviours that are hard**, per component (the `hazards` of `PROJECT.json` list
each one at its line):

* *hamilton-core*: statements of a transaction that fail half-way; a kill at any
  statement; a retry under the same idempotency key in another process, before,
  during or after the first attempt; a start-up that cleans the idempotency table
  while others serve; the audit hash chain, whose next row depends on the last;
  ids of outputs that the sender chooses and may reuse; rounding of amounts.
* *merchant*: deferred SQLite transactions, whose shared locks block each
  other's commit; early returns inside a transaction; contradicting, repeated and
  late webhooks.
* *bridge*: three transactions per request, of which an earlier one stays when a
  later one fails; a replay that leaves a transaction open; a pool that is read, judged
  and written back while other threads want it; a sliding window that concurrent
  threads extend, count and compare.
* *in-memory ledger*: validation between two critical sections; two indexes of
  the same tokens; a history that forgets.
* *Redis store*: optimistic transactions, non-atomic scans in `snapshot` and
  `restore`, repair of the index while others write, pipelines that are sent again.
* *wallet*: commands that share three files and hold what they read across a
  password prompt or a network call; answers of a node that are older than others.
* *admission* (start-up secrets and rate limiters): processes that start on one
  fresh file at once; a counter and its expiry set by two calls.

**What makes each one correct.** hamilton-core: each operation takes effect in one
step, at most once per key; the answer a client gets is durable and final; a
token is consumed at most once, by its owner, at equal value; the audit trail
explains every token and cannot be rewritten. Merchant: a payment is settled at
most once and never changes afterwards, and its events say how. Bridge: pools
are the sum of what was recorded, per reference once. UTXO stores: the same
ledger, atomically, whatever index, snapshot or restore does meanwhile. Wallet: a
payment covers what was asked for with as few tokens as it can and conserves value (it
does except where rounding breaks it, section 6), and a token goes into one payment. Admission: a client's secret stays, and nobody is kept out for ever.

## 2. Modules and code

| Module | What it is |
|---|---|
| `LedgerTypes` | data of hamilton-core: requests, rows, answers, and the checks before `BEGIN IMMEDIATE` |
| `Ledger` | abstract: the atomic, idempotent ledger |
| `HamiltonCore` | the server processes, statement by statement |
| `HamiltonCoreProps` | their properties, and the refinement `L == INSTANCE Ledger WITH ...` |
| `HamiltonCore_proofs` | proved of it, in four parts: types and the lock; durability, finality, append-only audit, no double spend; that it implements `Ledger`; what audit trail, keys and tokens say of each other |
| `Merchant` | payments and webhooks under SQLite's shared and reserved locks |
| `Bridge` | threads, rate limit, replay protection, liquidity pools |
| `UtxoTypes` | tokens, transactions and validation shared by the two UTXO stores |
| `UtxoLedger` | abstract: a UTXO store as one atomic step per transaction |
| `MemoryLedger` | the threads of `MemoryUTXOLedger`, shown to implement `UtxoLedger` |
| `RedisStore` | the clients of `UTXOStore` and an operator over one Redis, each transaction shown to be a step of `UtxoLedger` |
| `Wallet` | commands of the wallet over its key, token and lock files |
| `SumLemmas` | finite sums and induction over finite sets, proved once for the other proofs |
| `UtxoLemmas` | proved of `UtxoTypes` and `UtxoLedger`: what a transaction makes, and that it keeps value |
| `Merchant_proofs`, `Bridge_proofs`, `MemoryLedger_proofs`, `RedisStore_proofs`, `Wallet_proofs` | the proofs about the module each is named after |
| `Admission` | client secrets at start-up, `authenticate`, and the rate limiters of hamilton-core and merchant |
| `Connections` | which thread opens, uses and closes a request's connection |
| `MC*` | small instances for TLC |

`PROJECT.json` ("map") gives, for each definition that models code, the lines it
models.

### hamilton-core

A worker is one server process. A handler runs from `BEGIN IMMEDIATE` to `COMMIT`
without an `await`, so a process is in one database transaction at most and its
requests do not interleave inside it. `db` is the committed file; `work[w]` is the
file as w's open transaction sees it; `writer` is the write lock. `pc[w]` is the
statement w has reached:

| `pc` | Action | Code |
|---|---|---|
| `down` | `Startup` | `init_db` (112-170), `_gc_stale_idem` (104-109) |
| `idle` | `Receive`, `Refuse` | `authenticate`, `require_role`, `_rate_limit`, validation up to `BEGIN` |
| `begin` | `Begin`, `BusyTimeout` | `BEGIN IMMEDIATE` and the 10 s busy timeout |
| `acquire` | `IdemAcquire` | `_idem_acquire`: replay, 409, or claim |
| `spend`, `totals`, `create`, `audit` | `SpendInput`, `CheckTotals`, `CreateOutput`, `AuditTransfer` | body of `process_tx` |
| `mint` | `MintToken` | body of `mint` |
| `burn`, `burn_audit` | `BurnToken`, `AuditBurn` | body of `burn` |
| `complete`, `commit` | `IdemComplete`, `Commit` | `_idem_complete`, `COMMIT` |
| `respond` | `Respond` | the answer, and `get_db`'s close |

Every exception path is `Abort`: `ROLLBACK`, then an error answer. `Fault` lets any
statement raise; `Crash` kills a process anywhere, and SQLite rolls its
transaction back. Random ids are drawn from finite sets, so that a draw may repeat
and hit a `UNIQUE` constraint. Amounts on the wire are counted in units of which
`Subunits` make a cent, so that `_to_decimal`'s rounding after its sign check is
visible. Idempotency keys are not bound to a payload in the code, and are not
in the model.

### merchant

Transactions are deferred there: the first `SELECT` takes a SHARED lock, the first
write RESERVED, and `COMMIT` waits for all other SHARED locks. Two webhooks that
both read and both want to write can only go on when SQLite's busy handling
refuses one of them (`Busy`). `overdue` is the clock's view of `expires_at`. The early
`ignored` return (line 252) keeps its lock until `get_db` closes the connection
(`Respond`).

### bridge

A thread makes three transactions: `InsertRequest`..`CommitCount` (the rate limit),
`VerifySignature`, and `Begin`..`Commit`. What a transaction reads is kept in a local and
used in a later step: `count[t]` is the number of requests that it compares with
the limit, `row[t]` the pool that it writes back, moved. Nothing in the model makes
those steps one; that no other thread gets in between is what the write lock does, and
the mutants of `RateHolds` and `PoolsMatchRecords` take the lock later than they read.
The refused `INSERT` of a replay has opened a transaction that
nobody ends before the connection is closed; the model keeps the write lock there
until `Respond`. `window` is the rate limiter's table for one address, oldest first;
each entry says whether that request was let through. It slides at any time
(`WindowSlides`), though not for a thread that has read the clock and is still to
count. `UNIQUE(bank_reference)` at the `INSERT` is a second guard that no request
reaches: `Duplicate` was evaluated under the same write lock.

### UTXO stores

`MemoryLedger` has one step per critical section, since the lock protects nothing
but memory: `Submit` (static checks), `FetchInputs`, `ValidateIntent` (without the
lock), `ApplyTransaction`. Ids drawn by `uuid4` are the next numbers. Nothing in the
class adds a first token: the dictionaries, public attributes, are filled by the
embedding program (`Genesis`).

*Ids have a type.* Pydantic turns the `token_id` of every `UTXO` and
`TransactionInput` into a UUID object. `_compute_tx_hash` cannot serialise one, so
a transaction says whether its caller replaced its ids by strings (`ids`). A string
then finds only tokens whose own id is one: `Token` carries `ids` too, `Intent`
compares them, and `ModelIds` is the type that an object built by pydantic has,
`"uuid"` as declared. In `MemoryLedger` that means that tokens it creates can be
looked up but never spent. In the Redis store every token is rebuilt by
`_parse_utxo` and so *no* transaction succeeds as the code is; `RedisStore` is run
with `ModelIds = "str"`, that is, as it behaves once `token_id` is declared a
string. Everything else is as written.

`RedisStore` makes one step of each round trip: Redis runs one command at a time,
and what stands between MULTI and EXEC as one.

| Label | Action | Code |
|---|---|---|
| `idle` | `Submit`, `StartAdd`, `StartBalance` | checks and `WATCH`; `add_utxo`; `SSCAN` |
| `exists`, `fetch`, `exec` | `CheckReplay`, `FetchInputs`, `Exec` | `EXISTS`, `MGET` with validation, the pipeline |
| `add`, `add again` | `ExecAdd` | `SET` and `SADD`, once more when no answer came |
| `mget`, `srem` | `SumTokens`, `RemoveOrphans` | `get_balance` and its repair |
| `scan` (operator) | `CopyKey`, `EndSnapshot` | `snapshot` |
| `owners`, `txs`, `exec`, `again` (operator) | `StartRestore`, `ScanOwners`, `ScanTxs`, `RestoreAll` | `restore` |

`dirty[c]` is Redis's mark that a key watched by c was written. A snapshot's `SCAN`
must return what was there from its beginning to its end (`must`) and may return
what came or went meanwhile. `Lose`, `StopOperator`, `Forget` and `Expire` are the
failures and the clock. A lost answer of `EXEC` needs no action of its own: the
caller is told of a conflict and the store is the same. `quiet` and `strays` are
history variables, for the properties only.

### wallet

A command is a process; each read or replacement of a file is a step.
`CheckKeyFile`, `Create` are `init`; `Fetch`, `WriteUtxos` are `sync_utxos`;
`ReadUtxos`, `Select`, `ReadLocks`, `WriteLocks`, `ReturnPayment` are `build_payment` with
`_lock_tokens`; `Sign` is `sign`. Tokens are locked before the payment is returned, so
that a kill in between leaves tokens locked for no payment. Amounts that are asked for are
counted in units of which `Subunits` make a cent, as the code takes any `Decimal`; the
change is computed in those units, and `Cents` then rounds amount and change by
themselves, half to even, as `TransactionOutput` does. A node may give any of `Answers`, also an old
one. `Stop` ends a command anywhere; `_atomic_write` then leaves the old file. The
wallet suffers from the type of ids as well (`local_utxos` builds UUIDs,
`LOCKED_FILE` holds strings, and `json.dump` refuses to write UUIDs, so as it is
`build_payment` always fails at its locks): `ModelIds` has the same meaning and value
as above. No command of the CLI calls sync, build or sign yet.

### admission

`SelectSecret` and `InsertSecret` are one row of `init_db`'s loop, in autocommit;
`Recognise` is `authenticate`; `Incr` and `Expire` are both limiters, which differ in
their key only: hamilton-core's names the minute, so that `Tick` moves its callers
to new counters, the merchant's does not. An `EXPIRE` that comes after the minute is
over goes to a key that nobody counts by any more (`past`).

## 3. Runs

| Run | Checks | What it shows |
|---|---|---|
| `hamilton_safety` | `TypeOK`, `LockHolder`, `NoCommittedPending`, `OneEffectPerKey`, `ReplyIsDurable`, `AuditExplainsTokens`, `ConsumedByOwner`, `SupplyConserved`, `AuditChain`, `TokensOnlyAge`, `AuditAppendOnly`, `AnswersAreFinal`, `ImplementsLedger` | With faults and kills between any two statements, the ledger stays consistent and implements `Ledger` |
| `hamilton_live` | `LockReleased`, `Answered` | The write lock always comes back; an admitted request is answered unless its process dies |
| `hamilton_subcent` | `PositiveAmounts` (violated) | A token of 0.00 can be minted |
| `merchant` | `TypeOK`, `OneWriter`, `EventsTellStory`, `AcceptedIsDurable`, `FinalIsFinal`, `LocksReleased` | Each payment is settled once, whatever webhooks come; no mutual wait lasts, no early return keeps a lock |
| `bridge` | `TypeOK`, `PoolsMatchRecords`, `OncePerReference`, `SignatureOnce`, `RateHolds`, `LockReleased` | Threads read, decide and write in separate steps: no pool and no count is outdated when it is used; neither a reference nor a signature counts twice; the lock a replay leaves behind is released |
| `bridge_connections` | `ProperlyManaged` (violated) | The connection is refused in another thread |
| `memory_safety` | `TypeOK`, `OwnerIndexExact`, `SupplyConserved`, `OneWinner`, `ImplementsUtxoLedger` | Three steps look like one: each transaction takes effect at an instant |
| `redis_safety` | `TypeOK`, `IndexCovers`, `TransactionsAtomic`, `QuietCopies` | Each transaction is one step of `UtxoLedger`, also while a restore runs or is sent twice; the owner index never leads to another's token and misses only tokens that came back or came during a restore; undisturbed snapshots and restores are exact |
| `redis_restore` | `SupplyConserved` (violated) | A restore beside a transaction doubles value |
| `wallet` | `FewestInputs`, `AloneIsKept` | As few tokens as possible cover what was asked for, and the payment is valid unless amount and change are rounded alike; what a command did alone stays, whatever the node answers |
| `wallet_fraction` | `PaymentsConserveValue` (violated) | Rounded alike, a payment is a cent off |
| `admission` | `SecretKept`, `Readmitted` | Secrets survive restarts; who used up a minute's requests gets more, except for a merchant counter without expiry |

Each property of a passing run has a mutant in `PROJECT.json`: a definition with a
plausible bug (marked "Variant" in the module) under which TLC finds that
property violated.

**Bounds, and why they are enough.**

* *Two processes or threads* everywhere. Interactions go through one database or
  one lock; what a third process adds is another interleaved writer, and the
  writer lock allows one at a time. The proofs of section 5 are for any number.
* *hamilton-core*: eleven requests of two clients over three keys. They include a
  double spend under two keys, a reused transaction id, inputs in two currencies, a
  request signed by a non-owner, a surplus, a token passed on and burned by its
  second owner, one token burned under two clients, and mints that repeat. Tokens: two
  that mints draw and two that senders name. `Subunits` = 2, so 3 is a cent and a
  half. `MAX_UTXO_LIST` = 2: loops run zero, one and two further times. There is no
  state constraint: the state space is finite because keys, once answered, stay
  answered.
* *merchant*: two payments, two event ids, four bodies (success, contradicting
  failure, wrong amount, unexpected status).
* *bridge*: two threads, four signed requests, of which two carry one bank
  reference under different signatures and move different pools. `MaxWindow` bounds the requests counted
  in a window; `RATE_LIMIT` is 1 and `MaxWindow` one more, so that refused requests
  occur and count.
* *in-memory ledger*: three tokens in two currencies, one expiring; fourteen
  transactions; `MAX_HISTORY_SIZE` = 2, so that the history does forget. No
  constraint: ids never come back, so each transaction applies once at most.
* *Redis store*: one first token, which expires, and two more ids (`MaxId` = 3), so that
  a transaction with a fee, or one and an added token, or two in a row, fit. Four
  transactions compete for the token, spend what was created or added, or are
  ill-founded. Two clients and an operator, who makes one snapshot (`MaxSnapshots`) and restores it
  any number of times.
* *wallet*: two commands, four tokens in two currencies, two of them equal. `Subunits` = 4; five
  payments may be asked for: 2.5 cents, of a token of 3 (amount and change rounded alike),
  3.5 of 4 cents (rounded apart), 2.25, none since pydantic refuses 0, and all of the other
  currency. At most two payments (`MaxPayments`), between which syncs and interrupted
  commands may come.
* *admission*: two processes of each service, both client rows, one client and one
  address that send requests, `LIMIT` = 2; the count is kept at `LIMIT` + 1 beyond it.
* *connections*: two requests, two worker threads.

**Symmetry.** Processes, threads, clients, commands and the audit ids drawn for burns are
interchangeable: no request names one and no definition picks one with `CHOOSE`. Only
runs without a liveness property declare symmetry.

## 4. Fairness

Only the runs with a liveness property assume it (`hamilton_live`, `merchant`, `bridge`,
`admission`), and only for steps that a running handler takes by itself, or for the clock.

*Handlers* (`Serve`): weak fairness per process or thread. The code justifies it: a
handler awaits nothing between its first and its last statement, so once it has
the event loop (or its thread) it goes on; and waits inside SQLite end either with
the lock or with the busy timeout, 10 s in hamilton-core and 5 s by default
elsewhere (`BusyTimeout`, `Busy`). Arrivals of requests, faults, kills, restarts
and the rate window get no fairness: nothing forces them. `Answered` needs
no strong fairness on the lock precisely because of the timeout; its mutant removes
the timeout and starves.

*Admission*: the next minute comes (`Tick`), a time to live runs out (`Elapse`), and a
merchant's process that has counted sends its `EXPIRE` unless it is killed or loses
Redis (`Expire`). hamilton-core needs only the first: that is what the minute in its
key is worth.

## 5. Proofs

TLAPS checks every theorem and lemma of the eight proof modules, for every set of
processes, threads, clients, keys, tokens, ids, currencies, owners and requests.
Every safety and action property that a passing run checks is a theorem, except
admission's `SecretKept`; what is left to TLC is listed at the end
(*Only model-checked*).

| Module | Theorem | States |
|---|---|---|
| `HamiltonCore_proofs` | `TypeCorrect` | `Spec => []TypeOK` |
| | `LockDiscipline` | `Spec => []LockHolder` |
| | `ClaimsAreAtomic` | `Spec => []NoCommittedPending` |
| | `RepliesAreDurable` | `Spec => []ReplyIsDurable` |
| | `AnswersStay` | `Spec => AnswersAreFinal` |
| | `AuditGrows` | `Spec => AuditAppendOnly` |
| | `NoDoubleSpend` | `Spec => TokensOnlyAge` |
| | `CoreImplementsLedger` | `Spec => ImplementsLedger` |
| | `OwnersConsume` | `Spec => []ConsumedByOwner` |
| | `TrailExplainsTokens` | `Spec => []AuditExplainsTokens` |
| | `KeysMatchEffects` | `Spec => []OneEffectPerKey` |
| | `TrailIsAChain` | `Spec => []AuditChain` |
| | `ValueIsConserved` | `Spec => []SupplyConserved` |
| `Merchant_proofs` | `MerchantTypes` | `Spec => []TypeOK` |
| | `OneWriterAtATime` | `Spec => []OneWriter` |
| | `LogTellsStory` | `Spec => []EventsTellStory` |
| | `AcceptedStays` | `Spec => []AcceptedIsDurable` |
| | `SettledOnce` | `Spec => FinalIsFinal` |
| `Bridge_proofs` | `BridgeTypes` | `Spec => []TypeOK` |
| | `PoolsBalance` | `Spec => []PoolsMatchRecords` |
| | `OneMovePerReference` | `Spec => []OncePerReference` |
| | `SignaturesWorkOnce` | `Spec => []SignatureOnce` |
| | `WindowsAreLimited` | `Spec => []RateHolds` |
| `MemoryLedger_proofs` | `MemoryTypes` | `Spec => []TypeOK` |
| | `IndexIsExact` | `Spec => []OwnerIndexExact` |
| | `SpentOnce` | `Spec => []OneWinner` |
| | `MemoryImplementsLedger` | `Spec => ImplementsUtxoLedger` |
| | `SupplyIsConserved` | `Spec => []SupplyConserved` |
| `RedisStore_proofs` | `RedisTypes` | `Spec => []TypeOK` |
| | `IndexLeadsToOwn` | `Spec => []IndexCovers` |
| | `TransactionsTakeOneStep` | `Spec => TransactionsAtomic` |
| | `CopiesAreExact` | `Spec => QuietCopies` |
| `Wallet_proofs` | `PaymentsAreMinimal` | `Spec => []FewestInputs` |
| | `WhatIsAloneStays` | `Spec => []AloneIsKept` |

The assumptions are those that the modules name: requests are well-typed, roles are
among two, minted ids are token ids and can be audit ids, limits such as `Subunits`,
`MAX_UTXO_LIST` or `RATE_LIMIT` are positive, amounts are natural numbers, `NoWorker` is no
process, the tokens of `Genesis` have the ids 1 to n, and, where sums over owners are
taken (`MemoryLedger`), owners are finitely many. TLC evaluates each of them in every
run.

### hamilton-core

*First invariant.* `IInv` is `TypeOK`, `LockHolder` and, for each process, `Stage(w)`: what
that point of the handler relies on. `TypeOK` alone is not inductive: that
`SpendInput` keeps the view well-typed needs the request to be a transfer whose
list reaches `idx[w]`, which was decided at admission several steps earlier.

*Second invariant.* `JInv` adds `NoCommittedPending` and `Local(w)`, which compares w's
view with the committed database: the claim is the only change of the
idempotency table (`Claim`), the audit trail is the committed one with at most one
row more (`Trail`), each token has aged at most once (`Aging`), and what a 200 tells is
stored (`Durable`). The heart of the argument is that these clauses speak of `db` as
it is *now*, although the view was taken at `BEGIN`: nothing else can have
written `db` in between, which is where `LockHolder` and the `LockFree` guard of
`Startup` come in. `CommitEffect` then says what a commit does to the database, and
`OnlyCommitWrites` that nothing else but a start-up writes it; the three action
properties follow. In `Aging`, the clause for `spend` and `burn` (an unspent row of the
view is the committed row) is what keeps a token created by the same transfer
from being consumed by it, and so a row from ageing twice.

*Third invariant.* `KInv` adds `Progress(w)`: the view *is* the committed database after
the part of the request that the handler has carried out, token by token
(`Owes` says it for each `pc`). At `commit` that part is the whole request, so that
the step is the abstract ledger's (`CarriedOut`), and every other step leaves the
abstract state as it is: this is `CoreImplementsLedger`.

*The books.* What audit trail, keys and tokens say of each other needs no further
look at handlers, since only a commit changes them: `Books` (`Chained`, `Owned`, `Told`,
`Counted`, `Conserved`) holds of the empty database and is kept by every step of `Ledger`.
`Told` is `AuditExplainsTokens` with positions of rows instead of counts;
`Counted` ties the length of the trail to the number of answered keys, which
`OneEffectPerKey` reads off; `Conserved` compares two sums over sets, where a
transfer's equality of totals, checked over lists by `CheckTotals`, has to become
one of sums over its distinct inputs and outputs.

### Merchant

`MInv` is the shape of the variables, `Story(db)`, and for each process what it `Holds`.
`EventsTellStory` alone is not inductive: a `COMMIT` appends to the log what its
handler read several steps earlier. `Written` says what the uncommitted copy must
be relative to the database as it is *now* (a new payment, a settlement of a
payment that is still pending, or an event that changes nothing), and it
survives other processes' steps because a process at `commit` holds RESERVED
and a process at `settle` a SHARED lock that no other `COMMIT` gets past.

### Bridge

`BInv`: for each thread, what it `Holds` (a request past replay protection has its signature
recorded and is not yet among the transactions; at `commit` it is `Allowed`), that
two such threads `Differ` in signature, and that the tables are `Sound` (pools are
sums of records, of which no two have the same reference). `SignatureOnce` is not
inductive without the last two: the transaction that records the signature was
committed before the one that moves the money. `Allowed` survives since the
thread that holds the write lock is the only one that changes the pools, and by the
same argument `row[t]` is at `commit` still the pool of the file: without that clause
`PoolsMatchRecords` is not inductive. `Counter(t)` does the same for the rate limit: a thread
that counts holds the lock, and once it has counted, its `count` is at least the
length of the window and one more, however often the window has slid.

### In-memory ledger

`LInv`: a thread between its critical sections `Knows` that its inputs were drawn
once and, *as far as they still are in the table*, are as it read them; who was
told `APPLIED` has inputs that are gone. Ids are never drawn again, so what is gone
stays gone, and that is why `OneWinner` does not depend on the bounded history.
The tokens present are exactly those of the index, and in each currency they are
worth what `Genesis` was (`Kept`).

### Redis store

`RInv` says that there *is* a table `tok`, of all tokens that ever were written, such
that the keys, every copy, every snapshot and everything a client has read are
parts of it (`Story(tok)`). No variable holds `tok`: what restores bring back, and late repairs
remove, can only be compared through it. `Covered` says which tokens an owner's
set may miss (`strays`), `Local` that what a client has read is still so as
long as its `WATCH` has not been marked `dirty`, and that orphans that come back
strayed, and `Operator` what a snapshot or restore knows as long as nobody
writes (`quiet`). `TypeOK` says that a token that a transaction made is worth
something; one that was added, or there at the beginning, may be worth 0.00, since
pydantic compares an amount with zero before it rounds to cents (`Brought`). Before it was proved, TLC checked `RInv` with `tok` as a history
variable.

### Wallet

`WInv` has one part for each file that commands compete for. A command that is alone at
the prompt finds no key, and so the first key that was created alone finds nobody who
could still replace it (`KeyIsKept`). A command that is alone with the locks is the only
one that has chosen, and has its inputs locked once it is to return its payment
(`OneChooses`). For a payment that was made alone, `Reserved` says of
*now* what `AloneIsKept` needs later: its tokens are in the file of locks, in every
copy of it that some command is about to write back, and in no choice that
waits to be written. The last two clauses are what makes the property inductive: the
file of locks is replaced as a whole, by what was read some steps ago.

`FewestInputs` concerns one step, `Select`, but any number of tokens. `FirstAreMost` shows
by induction on k that no k tokens are worth more than the first k of a list sorted
by amount: of k + 1 tokens one is not among the first k, hence worth no more
than the next in the list. All but the last chosen token fall short of the amount, so
any smaller choice does. What the amounts of a payment come to is `RoundedSum`: the rounded
amount and the rounded change are together worth the inputs, unless the amount ends in half a
cent and the inputs are worth an odd number of cents, in which case they are one off.
That is for any number of units to the cent and any amount. `LargestFirst` is the *set* of
ways to sort the tokens: which of two equal amounts comes first is left to the file.

### Sums and induction

`SumLemmas` characterises the sum of a function over a finite set by its graph
(`SumEquation`), shows that it exists and is unique, and derives what the others
use (adding, removing, union, shifting indices, families of disjoint sets). The
induction over finite sets behind it is derived from the well-foundedness of the
natural numbers and of strict subsets, that is, by taking a least
counterexample, because the library's induction theorems take an operator
as a parameter, which the provers here cannot instantiate. Recursive *functions* such as
`SumOver` are reached by the same means; there is no `RECURSIVE` operator in a
module with proofs or below it.

*Only model-checked:* liveness (`LockReleased` and `Answered` of hamilton-core, `LocksReleased`
of the merchant, `LockReleased` of the bridge, `Readmitted` of admission), since TLAPS has no
rule for it here; and admission's `SecretKept`. What the runs that expect a violation show
are counterexamples, for which TLC is enough.

## 6. Disagreements found

1. **Tokens worth nothing** (`hamilton_subcent`). `_to_decimal` (hamilton/main.py:178)
   compares the amount with zero before it rounds down to a cent, so 0.005 passes a
   check whose error says "amount must be positive" and is stored as 0.00. The mint of the run needs
   the repair of connections of section 7, as everything in hamilton-core does.
2. **A payment that loses or makes a cent** (`wallet_fraction`). `build_payment` computes the
   change from the amount as it was asked for (wallet/cli.py:198), and pydantic then
   rounds both outputs to cents, half to even (core/models.py:30-38). 2.5 cents of a token
   of 3 become outputs of 2 and 0, and 1.5 cents become 2 and 2, while the fee is zero; the
   models' own `verify_economic_validity` "Validates value conservation (inputs = outputs +
   fee)" (core/models.py:150). `FewestInputs` says, and `PaymentsAreMinimal` proves, that
   this is the only way in which it happens. The run depends on a repair of section 7
   (`ModelIds`): as written, the payment fails at the file of locks.
3. **Connections used in the wrong thread** (`bridge_connections`). `get_db` is a plain
   generator, which FastAPI runs in a worker thread, while `verify_signature` is a
   coroutine: sqlite3's default `check_same_thread=True` refuses it. The docstring
   says "Yields a properly managed database connection" (bridge/main.py:72).
   hamilton/main.py:83 has the same shape; merchant/main.py:100 passes
   `check_same_thread=False`.
4. **A restore beside a transaction doubles value** (`redis_restore`). The store is
   described as "ensuring atomic and double-spend-resistant updates" (README.md:20).
   `restore` scans first and deletes later, without `WATCH` (utxo/store.py:298-314): what
   a transaction creates after the scan survives beside the inputs that come back.
   A snapshot taken while transactions run can hold both as well. `TransactionsAtomic`
   shows that the transactions themselves are not at fault. The run depends on a repair of
   section 7 (`ModelIds`): as written, no transaction commits.

Noted without a run:

* *No transaction of the declared type is ever applied.* `_compute_tx_hash` gives UUID objects
  to `json.dumps` (utxo/mock_store.py:66), which raises `TypeError`; utxo/store.py:80 is the
  same. The transactions of `memory_safety` contain one with such ids, which is refused
  that way. The system test expects success (test_system.py:148; as it stands it cannot
  even import the class it names).
* *Wallet and stores do not agree on what is signed.* `sign` (wallet/cli.py:219) hashes
  the transaction's random `transaction_id` with the rest, and the payment carries
  it; both stores derive a hash without it (utxo/store.py:78-88) and refuse any other
  id (utxo/store.py:205). "Signed transactions can be broadcast later for
  settlement" (README.md) is therefore not so for either of them.
* *The launcher.* `start_service` changes into `upi20` at each call (main.py:20), so
  start-all finds no `upi20/upi20` for its second service; the error is none that it
  catches, and the first service is left running. `stop` (main.py:88) runs in a
  process of its own, whose table is empty, and stops nothing.
* *Configured secrets are not used.* hamilton-core insists on `CLIENT_SECRET_BRIDGE` and
  `CLIENT_SECRET_WALLET` (hamilton/main.py:41-42), but `init_db` stores random secrets
  (line 161), which a client can only learn from the database.
* *The merchant's counter may never end* (merchant/main.py:159-161): `Readmitted` has to
  except it.
* README:102 speaks of Redis-backed idempotency keys, while hamilton-core keeps them in
  SQLite; README:20 speaks of a Redis UTXO store behind the system, while no service
  imports it.

## 7. Assumptions, and what is not modelled

* *Two repairs.* As they are written, several components fail at their first step, which
  would leave nothing to model behind it. Two assumptions repair that, and nothing else is
  changed:
  * *Connections work.* Because of the third disagreement, hamilton-core and the bridge
    refuse their own connections. `HamiltonCore` and `Bridge` model their handlers as they
    behave once `get_db` passes `check_same_thread=False`, as merchant's does.
  * *`ModelIds = "str"`.* `RedisStore` and `Wallet` run as they behave once `token_id` is declared
    a string: as a UUID, it makes every transaction and every payment fail in
    `json`. `MemoryLedger` runs with `"uuid"`, as declared.
* *What properties except.* Some properties say what holds outside a race that the code
  loses; a history variable names the exception, and what goes wrong inside it is
  not covered. `strays` (Redis store): tokens that came back with a restore, or during one, or
  were added twice, may be missing in the owner's set. `quiet`: only a snapshot or restore
  during which nobody writes is exact. `alone` (wallet): two `init`s, or two
  payments, at once may overwrite each other's key or locks. `raced` (admission): of two first
  starts at once, the second replaces the secret of the first. `Orphaned`: a merchant
  counter whose `EXPIRE` was lost never ends. The hazards concerned say so in
  `PROJECT.json`.
* *SQLite* is external: atomic and durable commits, one writer, rollback of the
  transactions of dead processes, snapshots for readers in WAL mode.
* *Cryptography*: no two hashes collide (`ChainHash` is a pair), a signature is good or
  not (`signed`, `signer`). `core/crypto.py` itself is not modelled: pure functions
  over bytes. It defines no `CryptoUtils`, which both stores, the wallet and the system
  test import; their modules take it as if it were there.
* *Authentication, roles, time windows, body limits* of hamilton-core decide whether a
  request is admitted and change no ledger state; they are the choice between
  `Receive` and `Refuse`. `Admission` models what is behind the choice and lasts:
  secrets and counters. Its `Incr` names its minute and counts in one step.
* *The merchant's status query, health checks, `get_utxo`, and the wallet's `balance` and
  `qr`* only read.
* *Redis* is external: one command at a time, transactions, `WATCH`, times to live, and
  the retries of its client library. `get_balance` reads sets of up to 200 ids in one
  batch, which is the only case modelled; each of `restore`'s scans is one step. The
  audit stream records what `EXEC` does and is read by nobody.
* *Core models*: the status machine and canonical forms have no caller in the repository.
* *The orchestrator* is sequential, and what goes wrong in it is decided by its first
  calls (section 6); the system test keeps no state.
* *Amounts* are integers: the 28-digit precision of Python's `Decimal` is out of reach of
  realistic amounts and left out.
* *`MemoryLedger`'s expiry*: a token may expire between validation and application and is
  then still spent, so `UtxoLedger` says nothing about expiry.

## 8. Plan

Done: the core and its abstraction, merchant, bridge, both UTXO stores and their
abstraction, wallet, admission, connections; and the proofs of section 5. Left is
admission's `SecretKept`, whose invariant says that a start-up which is to store a secret
of its own found none, and that a second one which does is recorded in `raced`.
