---------------------------- MODULE MemoryLedger ----------------------------
(***************************************************************************)
(* MemoryUTXOLedger (utxo/mock_store.py): threads that apply transactions  *)
(* to dictionaries guarded by one lock.  apply_transaction takes the lock  *)
(* twice, to read its inputs and to replace them, and validates in between *)
(* without it.  A critical section is one step here.                       *)
(*                                                                         *)
(* Nothing in the class adds a first token: the program around it fills    *)
(* the dictionaries, with Genesis, whose ids may have either type.         *)
(***************************************************************************)
EXTENDS UtxoTypes

CONSTANTS
  Threads,
  MAX_HISTORY_SIZE

\* The dictionaries, and what they are filled with, know finitely many keys.
ASSUME HistoryAssumption == MAX_HISTORY_SIZE \in Nat
ASSUME OwnersAssumption == IsFiniteSet(Owners)

VARIABLES
  utxos,         \* the tokens by id
  owner_index,   \* owner_index[pk]: the ids of pk's tokens
  processed_txs, \* hashes of recent transactions, oldest first
  next,          \* the next id that uuid4 will draw
  overdue,       \* ids whose expires_at has passed
  pc,            \* where thread t is
  tx,            \* the transaction that t handles, or handled last
  fetched,       \* the inputs that t has read
  outcome        \* what apply_transaction returned to t or raised

vars == <<utxos, owner_index, processed_txs, next, overdue, pc, tx, fetched, outcome>>
ledger == <<utxos, owner_index, processed_txs, next>>

NoTx == [ids |-> "none"]

Init ==
  /\ utxos = Genesis
  /\ owner_index = [o \in Owners |-> {id \in DOMAIN Genesis : Genesis[id].owner = o}]
  /\ processed_txs = <<>>
  /\ next = Cardinality(DOMAIN Genesis) + 1
  /\ overdue = {}
  /\ pc = [t \in Threads |-> "idle"]
  /\ tx = [t \in Threads |-> NoTx]
  /\ fetched = [t \in Threads |-> <<>>]
  /\ outcome = [t \in Threads |-> "NONE"]

Goto(t, label) == pc' = [pc EXCEPT ![t] = label]

\* apply_transaction returns, or raises: what it read goes with it.
Finish(t, verdict) ==
  /\ Goto(t, "idle")
  /\ outcome' = [outcome EXCEPT ![t] = verdict]
  /\ fetched' = [fetched EXCEPT ![t] = <<>>]

----------------------------------------------------------------------------
\* The checks on the transaction itself.
Submit(t) ==
  /\ pc[t] = "idle"
  /\ \E x \in Txs :
       /\ tx' = [tx EXCEPT ![t] = x]
       /\ IF ~ (Bounded(x) /\ Positive(x)) THEN Finish(t, "INVALID")
          ELSE IF ~ Serialisable(x) THEN Finish(t, "ERROR")
          ELSE IF ~ Identified(x) \/ ~ NoDuplicates(x) THEN Finish(t, "INVALID")
          ELSE /\ Goto(t, "fetch")
               /\ outcome' = [outcome EXCEPT ![t] = "NONE"]
               /\ UNCHANGED fetched
  /\ UNCHANGED <<ledger, overdue>>

Processed(x) == \E i \in DOMAIN processed_txs : processed_txs[i] = TxHash(x)

\* Variant: the inputs are not looked for again under the second lock.
NotAskedAgain(x) == TRUE

StillThere(x) == InputIds(x) \subseteq DOMAIN utxos

\* The first critical section.
FetchInputs(t) ==
  LET x == tx[t]
  IN  /\ pc[t] = "fetch"
      /\ IF Processed(x) THEN Finish(t, "INVALID")
         ELSE IF ~ InputIds(x) \subseteq DOMAIN utxos THEN Finish(t, "DOUBLE_SPEND")
         ELSE /\ fetched' = [fetched EXCEPT ![t] = [id \in InputIds(x) |-> utxos[id]]]
              /\ Goto(t, "validate")
              /\ UNCHANGED outcome
      /\ UNCHANGED <<ledger, overdue, tx>>

\* _validate_tx_intent, on the tokens as they were read and with no lock.
ValidateIntent(t) ==
  /\ pc[t] = "validate"
  /\ IF InputIds(tx[t]) \cap overdue = {} /\ Intent(tx[t], fetched[t])
     THEN Goto(t, "apply") /\ UNCHANGED <<outcome, fetched>>
     ELSE Finish(t, "INVALID")
  /\ UNCHANGED <<ledger, overdue, tx>>

\* Variant: ids are counted from the tokens that there are.
CountedId == Cardinality(DOMAIN utxos) + 1

FirstNewId == next

\* The inputs popped, the new tokens stored.
Replaced(x, new) ==
  LET placed == FirstNewId .. FirstNewId + Len(new) - 1
  IN  [id \in (DOMAIN utxos \ InputIds(x)) \cup placed |->
         IF id \in placed THEN new[id - FirstNewId + 1] ELSE utxos[id]]

\* Variant: spent ids stay in their owner's bucket.
OnlyAdded(x, new) ==
  [o \in Owners |->
     owner_index[o]
       \cup {FirstNewId + i - 1 : i \in {j \in DOMAIN new : new[j].owner = o}}]

\* The buckets of the old owners lose the inputs, those of the new ones gain.
Reindexed(x, new) ==
  [o \in Owners |->
     (owner_index[o] \ InputIds(x))
       \cup {FirstNewId + i - 1 : i \in {j \in DOMAIN new : new[j].owner = o}}]

\* Variant: nothing is ever forgotten.
RememberAll(x) == Append(processed_txs, TxHash(x))

\* The history gains x and, once it is full, loses its oldest entry.
Remember(x) ==
  LET all == Append(processed_txs, TxHash(x))
  IN  IF Len(all) > MAX_HISTORY_SIZE THEN Tail(all) ELSE all

\* The second critical section.
ApplyTransaction(t) ==
  LET x   == tx[t]
      new == Created(x, fetched[t])
  IN  /\ pc[t] = "apply"
      /\ IF Processed(x) \/ ~ StillThere(x)
         THEN Finish(t, "DOUBLE_SPEND") /\ UNCHANGED ledger
         ELSE /\ utxos' = Replaced(x, new)
              /\ owner_index' = Reindexed(x, new)
              /\ processed_txs' = Remember(x)
              /\ next' = next + Len(new)
              /\ Finish(t, "APPLIED")
      /\ UNCHANGED <<overdue, tx>>

\* The clock passes the expires_at of a token.
Expire(id) ==
  /\ Genesis[id].expires /\ id \notin overdue
  /\ overdue' = overdue \cup {id}
  /\ UNCHANGED <<ledger, pc, tx, fetched, outcome>>

Next ==
  \/ \E t \in Threads :
       Submit(t) \/ FetchInputs(t) \/ ValidateIntent(t) \/ ApplyTransaction(t)
  \/ \E id \in DOMAIN Genesis : Expire(id)

Spec == Init /\ [][Next]_vars

----------------------------------------------------------------------------
\* get_balance: what a caller is told that pk can spend in currency c.
Balance(pk, c) ==
  MapThenSumSet(LAMBDA id : utxos[id].amount,
    {id \in owner_index[pk] : /\ id \in DOMAIN utxos /\ utxos[id].currency = c
                              /\ id \notin overdue})

----------------------------------------------------------------------------
(* Properties *)

\* The dictionaries and the threads' locals hold what the code means them to,
\* every token that a transaction made is worth something (one that came from
\* elsewhere may be worth 0.00: pydantic rounds an amount after it has asked
\* it to be positive), and the history never outgrows its bound.
TypeOK ==
  /\ DOMAIN utxos \subseteq 1 .. next - 1
  /\ \A id \in DOMAIN utxos :
       utxos[id] \in Token /\ (id \in DOMAIN Genesis \/ utxos[id].amount > 0)
  /\ owner_index \in [Owners -> SUBSET (1 .. next - 1)]
  /\ Len(processed_txs) =< MAX_HISTORY_SIZE
  /\ overdue \subseteq DOMAIN Genesis
  /\ pc \in [Threads -> {"idle", "fetch", "validate", "apply"}]
  /\ \A t \in Threads : tx[t] \in Txs \cup {NoTx}
  /\ outcome \in [Threads -> {"NONE", "APPLIED", "INVALID", "DOUBLE_SPEND", "ERROR"}]

\* The owner index and the tokens never disagree: each bucket holds exactly
\* the tokens of its owner, none that is spent and none twice.
OwnerIndexExact ==
  \A o \in Owners : owner_index[o] = {id \in DOMAIN utxos : utxos[id].owner = o}

\* What all owners together are told they can spend, with what has expired,
\* is what was there at the beginning: fees included, in every currency.
SupplyConserved ==
  \A c \in Currencies :
    LET total(f, S) == MapThenSumSet(LAMBDA id : f[id].amount,
                                     {id \in S : f[id].currency = c})
    IN  MapThenSumSet(LAMBDA o : Balance(o, c), Owners)
          + total(utxos, DOMAIN utxos \cap overdue) = total(Genesis, DOMAIN Genesis)

\* Of the threads that compete for a token only one is told that it spent
\* it, and what it spent is gone for every other thread.
OneWinner ==
  \A t \in Threads :
    outcome[t] = "APPLIED" =>
      /\ InputIds(tx[t]) \cap DOMAIN utxos = {}
      /\ \A u \in Threads \ {t} :
           outcome[u] = "APPLIED" => InputIds(tx[t]) \cap InputIds(tx[u]) = {}

U == INSTANCE UtxoLedger WITH tokens <- utxos, used <- 1 .. next - 1

\* Although inputs are read, judged and replaced in three steps, with other
\* threads in between and a history that forgets, a transaction takes effect
\* at one instant and is sound for the tokens that are there at that instant.
ImplementsUtxoLedger == U!Spec
============================================================================
