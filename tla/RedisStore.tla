------------------------------ MODULE RedisStore ------------------------------
(***************************************************************************)
(* UTXOStore (utxo/store.py): processes that share one Redis server.       *)
(* Redis runs one command at a time, and the commands between MULTI and    *)
(* EXEC as one; everything else a process does in several round trips,     *)
(* between which others write.  process_transaction watches the keys it    *)
(* reads, so that its EXEC is refused if one of them was written since.    *)
(*                                                                         *)
(* The pool is made with retry_on_timeout: a pipeline that watches nothing *)
(* is sent again when its answer does not come, although it may have been  *)
(* executed; one that watches raises WatchError instead.                   *)
(***************************************************************************)
EXTENDS UtxoTypes

CONSTANTS
  Clients, \* processes, each with a connection of its own
  Adds,    \* tokens that callers of add_utxo bring
  MaxId,   \* bounds of the model: ids drawn by uuid4,
  MaxSnapshots \* and snapshots made

ASSUME RedisAssumption ==
  /\ Adds \subseteq Token /\ MaxId \in Nat /\ MaxSnapshots \in Nat
  \* what is read from Redis has been through pydantic
  /\ \A id \in DOMAIN Genesis : Genesis[id].ids = ModelIds

VARIABLES
  utxo,    \* the keys utxo:<id>
  owner,   \* the sets owner:<public key>
  txs,     \* the keys tx:<hash>, kept for seven days
  audit,   \* the stream ledger:audit_log
  next,    \* the next id that uuid4 will draw
  overdue, \* ids whose expires_at has passed
  pc, req, \* where client c is, and what it was asked
  held,    \* held[c]: the tokens, or the ids, that c has read
  dirty,   \* dirty[c]: a key that c watches was written
  stage,   \* where the process is that makes or restores a snapshot
  copy,    \* the snapshot that it is making
  must,    \* keys that its scan cannot miss
  doomed,  \* the keys that its pipeline will delete
  saved,   \* the snapshots that were made
  quiet,   \* history: no token was written since it started
  strays   \* history: ids that came back, or came while a restore ran

store == <<utxo, owner, txs, audit>>
client == <<pc, req, held>>
operator == <<stage, copy, must, doomed, saved>>
vars == <<store, next, overdue, client, dirty, operator, quiet, strays>>

NoReq == [op |-> "NONE"]
Nothing == [tokens |-> {}, owners |-> {}, txs |-> {}]
NoTokens == <<>>

OwnedBy(tokens) == [o \in Owners |-> {id \in DOMAIN tokens : tokens[id].owner = o}]

Init ==
  /\ utxo = Genesis /\ owner = OwnedBy(Genesis) /\ txs = {} /\ audit = <<>>
  /\ next = Len(Genesis) + 1
  /\ overdue = {}
  /\ pc = [c \in Clients |-> "idle"]
  /\ req = [c \in Clients |-> NoReq]
  /\ held = [c \in Clients |-> <<>>]
  /\ dirty = [c \in Clients |-> FALSE]
  /\ stage = "idle" /\ copy = NoTokens /\ must = {} /\ doomed = Nothing
  /\ saved = <<>>
  /\ quiet = TRUE /\ strays = {}

Goto(c, label) == pc' = [pc EXCEPT ![c] = label]

\* The call returns or raises; pipe.reset() ends what it watches.
Finish(c) ==
  /\ Goto(c, "idle")
  /\ req' = [req EXCEPT ![c] = NoReq]
  /\ held' = [held EXCEPT ![c] = <<>>]

Start(c, label, what) ==
  /\ Goto(c, label)
  /\ req' = [req EXCEPT ![c] = what]
  /\ UNCHANGED held

Watching(c) == pc[c] \in {"exists", "fetch", "exec"}

\* Variant: the inputs are not among the watched keys.
WatchesTx(c, ids, hashes) == TxHash(req[c].tx) \in hashes

Watches(c, ids, hashes) ==
  InputIds(req[c].tx) \cap ids # {} \/ TxHash(req[c].tx) \in hashes

\* These token keys and transaction keys are written; a client's own writes
\* do not count against it.
Touch(by, ids, hashes) ==
  dirty' = [c \in Clients |-> /\ c \notin by /\ Watching(c)
                              /\ dirty[c] \/ Watches(c, ids, hashes)]

Restoring == stage \in {"owners", "txs", "exec", "again"}

\* What the histories make of a client's write of these tokens.
Notice(ids, back) ==
  /\ quiet' = (quiet /\ stage = "idle")
  /\ strays' = IF Restoring \/ back THEN strays \cup ids ELSE strays

----------------------------------------------------------------------------
(* process_transaction *)

\* WATCH, for a transaction that passes the checks that need no store; the
\* others raise before anything happens.
Submit(c) ==
  /\ pc[c] = "idle"
  /\ \E x \in Txs :
       /\ Bounded(x) /\ NoDuplicates(x) /\ Serialisable(x) /\ Identified(x)
       /\ Start(c, "exists", [op |-> "TX", tx |-> x])
  /\ dirty' = [dirty EXCEPT ![c] = FALSE]
  /\ UNCHANGED <<store, next, overdue, operator, quiet, strays>>

CheckReplay(c) ==
  /\ pc[c] = "exists"
  /\ IF TxHash(req[c].tx) \in txs THEN Finish(c)
     ELSE Goto(c, "fetch") /\ UNCHANGED <<req, held>>
  /\ UNCHANGED <<store, next, overdue, dirty, operator, quiet, strays>>

Valid(x, tokens) ==
  InputIds(x) \cap overdue = {} /\ Intent(x, tokens) /\ Positive(x)

\* MGET, and _validate_tx_intent on what it returned.
FetchInputs(c) ==
  LET x == req[c].tx
      read == [id \in InputIds(x) |-> utxo[id]]
  IN  /\ pc[c] = "fetch"
      /\ IF ~ InputIds(x) \subseteq DOMAIN utxo THEN Finish(c)
         ELSE IF ~ Valid(x, read) THEN Finish(c)
         ELSE /\ held' = [held EXCEPT ![c] = read]
              /\ Goto(c, "exec")
              /\ UNCHANGED req
      /\ UNCHANGED <<store, next, overdue, dirty, operator, quiet, strays>>

\* The inputs deleted, the new tokens stored from the next id on.
Replaced(x, new) ==
  LET placed == next .. next + Len(new) - 1
  IN  [id \in (DOMAIN utxo \ InputIds(x)) \cup placed |->
         IF id \in placed THEN new[id - next + 1] ELSE utxo[id]]

\* Variant: new ids go to the owner of the first input.
IndexedByPayer(x, was, new) ==
  [o \in Owners |->
     (owner[o] \ {id \in InputIds(x) : was[id].owner = o})
       \cup {id \in next .. next + Len(new) - 1 : was[x.inputs[1].token_id].owner = o}]

\* SREM from the sets of the old owners, SADD to those of the new ones.
Reindexed(x, was, new) ==
  [o \in Owners |->
     (owner[o] \ {id \in InputIds(x) : was[id].owner = o})
       \cup {next + i - 1 : i \in {j \in DOMAIN new : new[j].owner = o}}]

\* EXEC.  If its answer is lost, the caller is told of a conflict, as it is
\* when the watched keys were written; it is not sent again.
Exec(c) ==
  LET x   == req[c].tx
      new == Created(x, held[c])
  IN  /\ pc[c] = "exec"
      /\ IF dirty[c] THEN UNCHANGED <<store, next, dirty, must, quiet, strays>>
         ELSE /\ next + Len(new) - 1 =< MaxId
              /\ utxo' = Replaced(x, new)
              /\ owner' = Reindexed(x, held[c], new)
              /\ txs' = txs \cup {TxHash(x)}
              /\ audit' = Append(audit, TxHash(x))
              /\ next' = next + Len(new)
              /\ Touch({c}, InputIds(x), {TxHash(x)})
              /\ must' = must \ InputIds(x)
              /\ Notice(next .. next' - 1, FALSE)
      /\ Finish(c)
      /\ UNCHANGED <<overdue, stage, copy, doomed, saved>>

----------------------------------------------------------------------------
(* add_utxo and get_balance *)

\* A token whose id is a string; json.dumps refuses a UUID object.
StartAdd(c) ==
  /\ pc[c] = "idle" /\ next =< MaxId
  /\ \E u \in Adds :
       /\ u.ids = "str"
       /\ Start(c, "add", [op |-> "ADD", id |-> next, token |-> [u EXCEPT !.ids = ModelIds]])
  /\ next' = next + 1
  /\ UNCHANGED <<store, overdue, dirty, operator, quiet, strays>>

\* SET and SADD.  Without an answer they are sent once more.
ExecAdd(c) ==
  LET id == req[c].id
      u  == req[c].token
  IN  /\ pc[c] \in {"add", "add again"}
      /\ utxo' = [i \in DOMAIN utxo \cup {id} |-> IF i = id THEN u ELSE utxo[i]]
      /\ owner' = [owner EXCEPT ![u.owner] = @ \cup {id}]
      /\ Touch({c}, {id}, {})
      /\ Notice({id}, pc[c] = "add again")
      /\ \/ Finish(c)
         \/ pc[c] = "add" /\ Goto(c, "add again") /\ UNCHANGED <<req, held>>
      /\ UNCHANGED <<txs, audit, next, overdue, operator>>

\* SSCAN of the owner's set.
StartBalance(c) ==
  /\ pc[c] = "idle"
  /\ \E o \in Owners :
       /\ owner[o] # {}
       /\ Goto(c, "mget")
       /\ req' = [req EXCEPT ![c] = [op |-> "BALANCE", owner |-> o]]
       /\ held' = [held EXCEPT ![c] = owner[o]]
  /\ UNCHANGED <<store, next, overdue, dirty, operator, quiet, strays>>

\* MGET of its tokens; those that are gone are to leave the set.
SumTokens(c) ==
  /\ pc[c] = "mget"
  /\ IF held[c] \subseteq DOMAIN utxo THEN Finish(c)
     ELSE /\ held' = [held EXCEPT ![c] = @ \ DOMAIN utxo]
          /\ Goto(c, "srem")
          /\ UNCHANGED req
  /\ UNCHANGED <<store, next, overdue, dirty, operator, quiet, strays>>

\* The repair of the index.  Sent again, it does what a late one does.
RemoveOrphans(c) ==
  /\ pc[c] = "srem"
  /\ owner' = [owner EXCEPT ![req[c].owner] = @ \ held[c]]
  /\ Finish(c)
  /\ UNCHANGED <<utxo, txs, audit, next, overdue, dirty, operator, quiet, strays>>

----------------------------------------------------------------------------
(* Failures and the clock *)

\* The connection or the process is lost before the next command gets there.
Lose(c) ==
  /\ pc[c] # "idle"
  /\ Finish(c)
  /\ UNCHANGED <<store, next, overdue, dirty, operator, quiet, strays>>

\* Seven days after a transaction.
Forget(h) ==
  /\ txs' = txs \ {h}
  /\ Touch({}, {}, {h})
  /\ UNCHANGED <<utxo, owner, audit, next, overdue, client, operator, quiet, strays>>

Expire(id) ==
  /\ Genesis[id].expires /\ id \notin overdue
  /\ overdue' = overdue \cup {id}
  /\ UNCHANGED <<store, next, client, dirty, operator, quiet, strays>>

----------------------------------------------------------------------------
(* snapshot and restore, by a process of the operator *)

To(label) == stage' = label

StartSnapshot ==
  /\ stage = "idle" /\ Len(saved) < MaxSnapshots /\ To("scan")
  /\ copy' = NoTokens
  /\ must' = DOMAIN utxo
  /\ quiet' = TRUE
  /\ UNCHANGED <<store, next, overdue, client, dirty, doomed, saved, strays>>

\* GET of a key that SCAN found.
CopyKey(id) ==
  /\ stage = "scan" /\ id \in DOMAIN utxo \ DOMAIN copy
  /\ copy' = [i \in DOMAIN copy \cup {id} |-> IF i = id THEN utxo[i] ELSE copy[i]]
  /\ UNCHANGED <<store, next, overdue, client, dirty, stage, must, doomed, saved, quiet, strays>>

\* SCAN may miss a key unless it was there from the beginning to the end.
EndSnapshot ==
  /\ stage = "scan" /\ must \subseteq DOMAIN copy
  /\ To("idle")
  /\ saved' = Append(saved, copy)
  /\ copy' = NoTokens /\ must' = {}
  /\ UNCHANGED <<store, next, overdue, client, dirty, doomed, quiet, strays>>

\* The three scans for keys to delete, each of them taken as one step: a key
\* that comes while one runs may be missed as if it came later.
StartRestore ==
  /\ stage = "idle" /\ saved # <<>> /\ To("owners")
  /\ doomed' = [doomed EXCEPT !.tokens = DOMAIN utxo]
  /\ quiet' = TRUE
  /\ UNCHANGED <<store, next, overdue, client, dirty, copy, must, saved, strays>>

ScanOwners ==
  /\ stage = "owners" /\ To("txs")
  /\ doomed' = [doomed EXCEPT !.owners = {o \in Owners : owner[o] # {}}]
  /\ UNCHANGED <<store, next, overdue, client, dirty, copy, must, saved, quiet, strays>>

ScanTxs ==
  /\ stage = "txs" /\ To("exec")
  /\ doomed' = [doomed EXCEPT !.txs = txs]
  /\ UNCHANGED <<store, next, overdue, client, dirty, copy, must, saved, quiet, strays>>

\* Variant: the owner sets are left to the repair in get_balance.
AddedOwners(tokens) == [o \in Owners |-> owner[o] \cup OwnedBy(tokens)[o]]

\* The doomed sets deleted, the saved tokens indexed.
RestoredOwners(tokens) ==
  [o \in Owners |->
     (IF o \in doomed.owners THEN {} ELSE owner[o]) \cup OwnedBy(tokens)[o]]

\* The pipeline: DEL of what was found, SET and SADD of what was saved.  It
\* watches nothing and, without an answer, is sent once more.
RestoreAll ==
  LET kept == saved[Len(saved)]
  IN  /\ stage \in {"exec", "again"}
      /\ utxo' = [id \in (DOMAIN utxo \ doomed.tokens) \cup DOMAIN kept |->
                    IF id \in DOMAIN kept THEN kept[id] ELSE utxo[id]]
      /\ owner' = RestoredOwners(kept)
      /\ txs' = txs \ doomed.txs
      /\ Touch({}, (doomed.tokens \cap DOMAIN utxo) \cup DOMAIN kept, doomed.txs \cap txs)
      /\ strays' = strays \cup (DOMAIN kept \ DOMAIN utxo)
      /\ \/ To("idle") /\ doomed' = Nothing
         \/ stage = "exec" /\ To("again") /\ UNCHANGED doomed
      /\ UNCHANGED <<audit, next, overdue, client, copy, must, saved, quiet>>

\* The operator's process stops before its pipeline is sent.
StopOperator ==
  /\ stage # "idle" /\ To("idle")
  /\ copy' = NoTokens /\ must' = {} /\ doomed' = Nothing
  /\ UNCHANGED <<store, next, overdue, client, dirty, saved, quiet, strays>>

----------------------------------------------------------------------------
Next ==
  \/ \E c \in Clients :
       \/ Submit(c) \/ CheckReplay(c) \/ FetchInputs(c) \/ Exec(c)
       \/ StartAdd(c) \/ ExecAdd(c)
       \/ StartBalance(c) \/ SumTokens(c) \/ RemoveOrphans(c)
       \/ Lose(c)
  \/ \E h \in txs : Forget(h)
  \/ \E id \in DOMAIN Genesis : Expire(id)
  \/ \E id \in DOMAIN utxo : CopyKey(id)
  \/ StartSnapshot \/ EndSnapshot
  \/ StartRestore \/ ScanOwners \/ ScanTxs \/ RestoreAll \/ StopOperator

Spec == Init /\ [][Next]_vars

----------------------------------------------------------------------------
(* Properties *)

\* Tokens that are not made here.  Pydantic compares an amount with zero before
\* it rounds it to cents, so that one of them may be worth nothing.
Brought ==
  {Genesis[id] : id \in DOMAIN Genesis} \cup {[u EXCEPT !.ids = ModelIds] : u \in Adds}

\* The keys and the clients' locals hold what the code means them to, and
\* every token that a transaction made is worth something.
TypeOK ==
  /\ DOMAIN utxo \subseteq 1 .. next - 1
  /\ \A id \in DOMAIN utxo :
       utxo[id] \in Token /\ (utxo[id] \in Brought \/ utxo[id].amount > 0)
  /\ owner \in [Owners -> SUBSET (1 .. next - 1)]
  /\ \A c \in Clients : pc[c] = "exec" => DOMAIN held[c] = InputIds(req[c].tx)
  /\ overdue \subseteq DOMAIN Genesis
  /\ \A i \in DOMAIN saved : DOMAIN saved[i] \subseteq 1 .. next - 1
  /\ strays \subseteq 1 .. next - 1

\* The owner index never leads to another owner's token, and it misses a
\* token only if that token came back after it was gone, or was created
\* while a restore ran: the repair in get_balance, which acts on what it
\* read earlier, harms no other.
IndexCovers ==
  \A o \in Owners :
    LET own == {id \in DOMAIN utxo : utxo[id].owner = o}
    IN  /\ owner[o] \cap DOMAIN utxo \subseteq own
        /\ own \ strays \subseteq owner[o]

U == INSTANCE UtxoLedger WITH tokens <- utxo, used <- 1 .. next - 1

\* Whatever others write between its round trips, restores and pipelines sent
\* twice among them, a transaction takes effect at one instant, is sound for
\* the tokens that are there at that instant, and was not processed before.
TransactionsAtomic ==
  [][\A c \in Clients :
       pc[c] = "exec" /\ pc'[c] # "exec" /\ utxo' # utxo =>
         U!Transact(req[c].tx) /\ TxHash(req[c].tx) \notin txs]_vars

\* A snapshot during which nothing was written holds the tokens as they are,
\* and a restore during which nothing was written leaves the tokens of the
\* snapshot, an exact index, and no transaction that would be refused as
\* processed.
QuietCopies ==
  [][quiet /\ quiet' =>
       /\ saved' # saved => saved'[Len(saved')] = utxo
       /\ stage = "exec" /\ utxo' # utxo =>
            /\ utxo' = saved[Len(saved)] /\ txs' = {}
            /\ owner' = OwnedBy(utxo')]_vars

\* "Atomic and double-spend-resistant updates": where nothing is added, what
\* the tokens are worth together stays what it was.
SupplyConserved ==
  \A cur \in Currencies :
    LET total(f) == MapThenSumSet(LAMBDA id : f[id].amount, {i \in DOMAIN f : f[i].currency = cur})
    IN  total(utxo) = total(Genesis)
============================================================================
