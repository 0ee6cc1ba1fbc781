-------------------------- MODULE RedisStore_proofs --------------------------
(***************************************************************************)
(* Proofs about the Redis store: whatever others write between the round   *)
(* trips of a transaction, it takes effect at one instant; the owner index *)
(* leads to no token of another owner; and a snapshot or a restore that    *)
(* nobody disturbed is exact.                                              *)
(***************************************************************************)
EXTENDS RedisStore, UtxoLemmas

----------------------------------------------------------------------------
(* The invariant *)

Labels == {"idle", "exists", "fetch", "exec", "add", "add again", "mget", "srem"}
Stages == {"idle", "scan", "owners", "txs", "exec", "again"}

Sound(u) == u \in Token /\ (u \in Brought \/ u.amount > 0)

\* The tables that agree with tok.
Parts(tok) == {[id \in D |-> tok[id]] : D \in SUBSET DOMAIN tok}

\* tok is what each id stands for that was ever written: tokens do not change,
\* whoever keeps a copy of them.  Ids below n were drawn.
Stands(tok, n, us, ow, cp, sv, st) ==
  /\ Table(tok, n) /\ \A id \in DOMAIN tok : Sound(tok[id])
  /\ us \in Parts(tok) /\ cp \in Parts(tok) /\ sv \in Seq(Parts(tok))
  /\ ow = [o \in Owners |-> ow[o]]
  /\ \A o \in Owners : ow[o] \subseteq {id \in DOMAIN tok : tok[id].owner = o}
  /\ st \subseteq DOMAIN tok

\* What a client holds agrees with tok; an id that it is to add is its own.
Recalls(tok, n, label, r, h) ==
  /\ label \in {"exists", "fetch", "exec"} =>
       r.tx \in Txs /\ Bounded(r.tx) /\ NoDuplicates(r.tx)
  /\ label = "exec" =>
       /\ Positive(r.tx) /\ Intent(r.tx, h)
       /\ h \in Parts(tok) /\ DOMAIN h = InputIds(r.tx)
  /\ label \in {"mget", "srem"} => h \subseteq DOMAIN tok
  /\ label \in {"add", "add again"} => Sound(r.token) /\ r.id \in 1 .. n - 1
  /\ label = "add" => r.id \notin DOMAIN tok
  /\ label = "add again" => r.id \in DOMAIN tok /\ tok[r.id] = r.token

Story(tok) ==
  /\ Stands(tok, next, utxo, owner, copy, saved, strays)
  /\ \A c \in Clients : Recalls(tok, next, pc[c], req[c], held[c])

\* What a client has read is still so unless it is dirty, and the orphans that
\* it found are gone unless they strayed.
Current(us, done, st, label, r, h, d) ==
  /\ label \in {"fetch", "exec"} /\ ~ d => TxHash(r.tx) \notin done
  /\ label = "exec" /\ ~ d => InputIds(r.tx) \subseteq DOMAIN us
  /\ label = "srem" => h \cap DOMAIN us \subseteq st

Local == \A c \in Clients : Current(utxo, txs, strays, pc[c], req[c], held[c], dirty[c])

Kinds ==
  /\ pc \in [Clients -> Labels] /\ dirty \in [Clients -> BOOLEAN]
  /\ req = [c \in Clients |-> req[c]] /\ held = [c \in Clients |-> held[c]]
  /\ overdue \subseteq DOMAIN Genesis
  /\ quiet \in BOOLEAN

\* No two clients are to add the same id.
Apart ==
  \A c, d \in Clients : c # d /\ pc[c] = "add" /\ pc[d] = "add" => req[c].id # req[d].id

\* A token that its owner's set misses strayed, and so did those that a
\* restore will not delete.
Covers(us, ow, st) == \A id \in DOMAIN us \ st : id \in ow[us[id].owner]

Covered ==
  /\ Covers(utxo, owner, strays)
  /\ Restoring => DOMAIN utxo \ doomed.tokens \subseteq strays

\* Where the operator's process is, and what it knows as long as nobody writes.
Operates(s, sv, dm) ==
  /\ s \in Stages
  /\ dm = [tokens |-> dm.tokens, owners |-> dm.owners, txs |-> dm.txs]
  /\ s \in {"owners", "txs", "exec", "again"} => sv # <<>>

Undisturbed(s, us, ow, done, cp, mu, dm) ==
  /\ s = "scan" => mu = DOMAIN us /\ DOMAIN cp \subseteq DOMAIN us
  /\ s \in {"owners", "txs", "exec"} => DOMAIN us \subseteq dm.tokens
  /\ s \in {"txs", "exec"} => \A o \in Owners \ dm.owners : ow[o] = {}
  /\ s = "exec" => done \subseteq dm.txs

Operator ==
  /\ Operates(stage, saved, doomed)
  /\ quiet => Undisturbed(stage, utxo, owner, txs, copy, must, doomed)

RInv ==
  /\ Kinds /\ Local /\ Apart /\ Covered /\ Operator
  /\ \E tok : Story(tok)

----------------------------------------------------------------------------
(* Tables that agree *)

LEMMA PartsOf ==
  ASSUME NEW tok, NEW us
  PROVE  us \in Parts(tok)
           <=> us = [id \in DOMAIN us |-> tok[id]] /\ DOMAIN us \subseteq DOMAIN tok
<1>1. ASSUME us \in Parts(tok)
      PROVE  us = [id \in DOMAIN us |-> tok[id]] /\ DOMAIN us \subseteq DOMAIN tok
  <2>1. PICK D \in SUBSET DOMAIN tok : us = [id \in D |-> tok[id]]
    BY <1>1 DEF Parts
  <2>2. QED BY <2>1
<1>2. ASSUME us = [id \in DOMAIN us |-> tok[id]], DOMAIN us \subseteq DOMAIN tok
      PROVE  us \in Parts(tok)
  BY <1>2 DEF Parts
<1>3. QED BY <1>1, <1>2

LEMMA PartsAgree ==
  ASSUME NEW tok, NEW us \in Parts(tok)
  PROVE  DOMAIN us \subseteq DOMAIN tok /\ \A id \in DOMAIN us : us[id] = tok[id]
BY PartsOf

LEMMA NoPart == ASSUME NEW tok PROVE NoTokens \in Parts(tok)
<1>1. DOMAIN NoTokens = {}
  BY DEF NoTokens
<1>2. NoTokens = [id \in {} |-> tok[id]]
  BY DEF NoTokens
<1>3. QED BY <1>1, <1>2, PartsOf

Grows(tok, new) ==
  DOMAIN tok \subseteq DOMAIN new /\ \A id \in DOMAIN tok : new[id] = tok[id]

LEMMA PartsGrow ==
  ASSUME NEW tok, NEW new, Grows(tok, new)
  PROVE  Parts(tok) \subseteq Parts(new) /\ Seq(Parts(tok)) \subseteq Seq(Parts(new))
<1>1. ASSUME NEW us \in Parts(tok) PROVE us \in Parts(new)
  <2>1. us = [id \in DOMAIN us |-> tok[id]] /\ DOMAIN us \subseteq DOMAIN tok
    BY PartsOf
  <2>2. DOMAIN us \subseteq DOMAIN new /\ \A id \in DOMAIN us : tok[id] = new[id]
    BY <2>1 DEF Grows
  <2>3. us = [id \in DOMAIN us |-> new[id]]
    BY <2>1, <2>2
  <2>4. QED BY <2>2, <2>3, PartsOf
<1>2. Parts(tok) \subseteq Parts(new)
  BY <1>1
<1>3. ASSUME NEW sv \in Seq(Parts(tok)) PROVE sv \in Seq(Parts(new))
  BY <1>2
<1>4. QED BY <1>2, <1>3

\* What a client knows stays true as tokens are written under other ids.
LEMMA RecallsStill ==
  ASSUME NEW tok, NEW new, NEW n \in Nat, NEW m \in Nat, NEW label, NEW r, NEW h,
         Recalls(tok, n, label, r, h), Grows(tok, new), n =< m,
         label = "add" => r.id \notin DOMAIN new
  PROVE  Recalls(new, m, label, r, h)
<1>1. Parts(tok) \subseteq Parts(new)
  BY PartsGrow
<1>2. 1 .. n - 1 \subseteq 1 .. m - 1
  OBVIOUS
<1>3. DOMAIN tok \subseteq DOMAIN new /\ \A id \in DOMAIN tok : new[id] = tok[id]
  BY DEF Grows
<1>4. QED BY <1>1, <1>2, <1>3 DEF Recalls

----------------------------------------------------------------------------
(* Steps that write no token *)

Typed ==
  /\ pc' \in [Clients -> Labels]
  /\ req' = [c \in Clients |-> req'[c]] /\ held' = [c \in Clients |-> held'[c]]

\* Only client c moves.
Moves(c) ==
  /\ Typed
  /\ \A d \in Clients \ {c} : pc'[d] = pc[d] /\ req'[d] = req[d] /\ held'[d] = held[d]

LEMMA GotoMoves ==
  ASSUME Kinds, NEW c \in Clients, NEW label \in Labels, Goto(c, label), UNCHANGED <<req, held>>
  PROVE  Moves(c) /\ pc'[c] = label /\ req'[c] = req[c] /\ held'[c] = held[c]
BY DEF Kinds, Goto, Moves, Typed

LEMMA FinishMoves ==
  ASSUME Kinds, NEW c \in Clients, Finish(c)
  PROVE  Moves(c) /\ pc'[c] = "idle"
BY DEF Kinds, Finish, Goto, Moves, Typed, Labels

LEMMA StartMoves ==
  ASSUME Kinds, NEW c \in Clients, NEW label \in Labels, NEW what, Start(c, label, what)
  PROVE  Moves(c) /\ pc'[c] = label /\ req'[c] = what /\ held'[c] = held[c]
BY DEF Kinds, Start, Goto, Moves, Typed

LEMMA HoldMoves ==
  ASSUME Kinds, NEW c \in Clients, NEW label \in Labels, NEW h, Goto(c, label),
         held' = [held EXCEPT ![c] = h], UNCHANGED req
  PROVE  Moves(c) /\ pc'[c] = label /\ req'[c] = req[c] /\ held'[c] = h
BY DEF Kinds, Goto, Moves, Typed

\* A step of client c that writes no key.
LEMMA ClientStep ==
  ASSUME RInv, NEW c \in Clients, Moves(c),
         UNCHANGED <<store, next, overdue, operator, quiet, strays>>,
         dirty' \in [Clients -> BOOLEAN], \A d \in Clients \ {c} : dirty'[d] = dirty[d],
         pc'[c] # "add",
         \A tok : Story(tok) => Recalls(tok, next, pc'[c], req'[c], held'[c]),
         Current(utxo, txs, strays, pc'[c], req'[c], held'[c], dirty'[c])
  PROVE  RInv'
<1>1. /\ utxo' = utxo /\ owner' = owner /\ txs' = txs /\ next' = next /\ overdue' = overdue
      /\ stage' = stage /\ copy' = copy /\ must' = must /\ doomed' = doomed /\ saved' = saved
      /\ quiet' = quiet /\ strays' = strays
  BY DEF store, operator
<1>2. Kinds'
  BY <1>1 DEF RInv, Kinds, Moves, Typed
<1>3. Local'
  <2>1. ASSUME NEW d \in Clients
        PROVE  Current(utxo, txs, strays, pc'[d], req'[d], held'[d], dirty'[d])
    BY DEF RInv, Local, Moves
  <2>2. QED BY <1>1, <2>1 DEF Local
<1>4. Apart'
  BY DEF RInv, Apart, Moves
<1>5. Covered' /\ Operator'
  BY <1>1 DEF RInv, Covered, Operator, Restoring
<1>6. PICK tok : Story(tok)
  BY DEF RInv
<1>7. ASSUME NEW d \in Clients
      PROVE  Recalls(tok, next, pc'[d], req'[d], held'[d])
  BY <1>6 DEF Story, Moves
<1>8. Story(tok)'
  BY <1>1, <1>6, <1>7 DEF Story
<1>9. QED BY <1>2, <1>3, <1>4, <1>5, <1>8 DEF RInv

\* A step of the operator that writes no key.
LEMMA OperatorStep ==
  ASSUME RInv, UNCHANGED <<store, next, overdue, client, dirty, strays>>, quiet' \in BOOLEAN,
         \A tok : Story(tok) => copy' \in Parts(tok) /\ saved' \in Seq(Parts(tok)),
         Restoring' => DOMAIN utxo \ doomed'.tokens \subseteq strays,
         Operates(stage', saved', doomed'),
         quiet' => Undisturbed(stage', utxo, owner, txs, copy', must', doomed')
  PROVE  RInv'
<1>1. /\ utxo' = utxo /\ owner' = owner /\ txs' = txs /\ next' = next /\ overdue' = overdue
      /\ pc' = pc /\ req' = req /\ held' = held /\ dirty' = dirty /\ strays' = strays
  BY DEF store, client
<1>2. Kinds' /\ Local' /\ Apart'
  BY <1>1 DEF RInv, Kinds, Local, Apart
<1>3. Covered' /\ Operator'
  BY <1>1 DEF RInv, Covered, Operator
<1>4. PICK tok : Story(tok)
  BY DEF RInv
<1>5. Story(tok)'
  BY <1>1, <1>4 DEF Story, Stands
<1>6. QED BY <1>2, <1>3, <1>5 DEF RInv

----------------------------------------------------------------------------
(* The beginning *)

LEMMA InitInv == Init => RInv
<1> SUFFICES ASSUME Init PROVE RInv
  OBVIOUS
<1>1. Genesis \in Seq(Token) /\ Len(Genesis) \in Nat /\ next = Len(Genesis) + 1
  BY GenesisSize DEF Init
<1>2. /\ utxo = Genesis /\ owner = OwnedBy(Genesis) /\ copy = NoTokens /\ saved = <<>>
      /\ strays = {} /\ txs = {} /\ stage = "idle" /\ doomed = Nothing
      /\ pc = [c \in Clients |-> "idle"] /\ dirty = [c \in Clients |-> FALSE]
      /\ req = [c \in Clients |-> NoReq] /\ held = [c \in Clients |-> <<>>]
      /\ overdue = {} /\ quiet = TRUE
  BY DEF Init
<1>3. Kinds
  BY <1>2 DEF Kinds, Labels
<1>4. Local /\ Apart
  BY <1>2 DEF Local, Apart, Current
<1>5. Covered
  <2>1. \A id \in DOMAIN Genesis : Genesis[id] \in Token
    BY <1>1
  <2>2. Covers(utxo, owner, strays)
    BY <1>2, <2>1 DEF Covers, OwnedBy, Token
  <2>3. QED BY <1>2, <2>2 DEF Covered, Restoring
<1>6. Operator
  BY <1>2 DEF Operator, Operates, Undisturbed, Stages, Nothing
<1>7. Story(Genesis)
  <2>1. Table(Genesis, next)
    BY <1>1, TableGenesis, GenesisSize
  <2>2. \A id \in DOMAIN Genesis : Sound(Genesis[id])
    BY <1>1 DEF Sound, Brought
  <2>3. utxo \in Parts(Genesis) /\ copy \in Parts(Genesis) /\ saved \in Seq(Parts(Genesis))
    <3>1. utxo = [id \in DOMAIN utxo |-> Genesis[id]]
      BY <1>1, <1>2
    <3>2. utxo \in Parts(Genesis)
      BY <1>2, <3>1, PartsOf
    <3>3. QED BY <1>2, <3>2, NoPart
  <2>4. owner = [o \in Owners |-> owner[o]] /\ strays \subseteq DOMAIN Genesis
        /\ \A o \in Owners : owner[o] \subseteq {id \in DOMAIN Genesis : Genesis[id].owner = o}
    BY <1>2 DEF OwnedBy
  <2>5. \A c \in Clients : Recalls(Genesis, next, pc[c], req[c], held[c])
    BY <1>2 DEF Recalls
  <2>6. QED BY <2>1, <2>2, <2>3, <2>4, <2>5 DEF Story, Stands
<1>8. QED BY <1>3, <1>4, <1>5, <1>6, <1>7 DEF RInv

----------------------------------------------------------------------------
(* The round trips of a client that write no key *)

LEMMA LoseInv ==
  ASSUME RInv, NEW c \in Clients, Finish(c), UNCHANGED dirty,
         UNCHANGED <<store, next, overdue, operator, quiet, strays>>
  PROVE  RInv'
<1>1. Moves(c) /\ pc'[c] = "idle"
  BY FinishMoves DEF RInv
<1>2. dirty' \in [Clients -> BOOLEAN] /\ \A d \in Clients : dirty'[d] = dirty[d]
  BY DEF RInv, Kinds
<1>3. \A tok : Recalls(tok, next, pc'[c], req'[c], held'[c])
  BY <1>1 DEF Recalls
<1>4. Current(utxo, txs, strays, pc'[c], req'[c], held'[c], dirty'[c])
  BY <1>1 DEF Current
<1>5. QED BY <1>1, <1>2, <1>3, <1>4, ClientStep

LEMMA SubmitInv ==
  ASSUME RInv, NEW c \in Clients, Submit(c)
  PROVE  RInv'
<1>1. PICK x \in Txs : /\ Bounded(x) /\ NoDuplicates(x)
                       /\ Start(c, "exists", [op |-> "TX", tx |-> x])
  BY DEF Submit
<1>2. Moves(c) /\ pc'[c] = "exists" /\ req'[c].tx = x
  <2>1. Kinds /\ "exists" \in Labels
    BY DEF RInv, Labels
  <2>2. Moves(c) /\ pc'[c] = "exists" /\ req'[c] = [op |-> "TX", tx |-> x]
    BY <1>1, <2>1, StartMoves
  <2>3. QED BY <2>2
<1>3. dirty' \in [Clients -> BOOLEAN] /\ \A d \in Clients \ {c} : dirty'[d] = dirty[d]
  BY DEF Submit, RInv, Kinds
<1>4. \A tok : Recalls(tok, next, pc'[c], req'[c], held'[c])
  BY <1>1, <1>2 DEF Recalls
<1>5. Current(utxo, txs, strays, pc'[c], req'[c], held'[c], dirty'[c])
  BY <1>2 DEF Current
<1>6. UNCHANGED <<store, next, overdue, operator, quiet, strays>>
  BY DEF Submit
<1>7. QED BY <1>2, <1>3, <1>4, <1>5, <1>6, ClientStep

LEMMA CheckReplayInv ==
  ASSUME RInv, NEW c \in Clients, CheckReplay(c)
  PROVE  RInv'
<1>1. UNCHANGED <<store, next, overdue, operator, quiet, strays>> /\ UNCHANGED dirty
      /\ pc[c] = "exists"
  BY DEF CheckReplay
<1>2. CASE Finish(c)
  BY <1>1, <1>2, LoseInv
<1>3. CASE TxHash(req[c].tx) \notin txs /\ Goto(c, "fetch") /\ UNCHANGED <<req, held>>
  <2>1. Moves(c) /\ pc'[c] = "fetch" /\ req'[c] = req[c] /\ held'[c] = held[c]
    BY <1>3, GotoMoves DEF RInv, Labels
  <2>2. \A tok : Story(tok) => Recalls(tok, next, pc'[c], req'[c], held'[c])
    BY <1>1, <2>1 DEF Story, Recalls
  <2>3. Current(utxo, txs, strays, pc'[c], req'[c], held'[c], dirty'[c])
    BY <1>3, <2>1 DEF Current
  <2>4. dirty' \in [Clients -> BOOLEAN]
    BY <1>1 DEF RInv, Kinds
  <2>5. QED BY <1>1, <2>1, <2>2, <2>3, <2>4, ClientStep
<1>4. QED BY <1>2, <1>3 DEF CheckReplay

LEMMA FetchInputsInv ==
  ASSUME RInv, NEW c \in Clients, FetchInputs(c)
  PROVE  RInv'
<1> DEFINE x == req[c].tx
           read == [id \in InputIds(x) |-> utxo[id]]
<1>1. UNCHANGED <<store, next, overdue, operator, quiet, strays>> /\ UNCHANGED dirty
      /\ pc[c] = "fetch"
  BY DEF FetchInputs
<1>2. CASE Finish(c)
  BY <1>1, <1>2, LoseInv
<1>3. CASE /\ InputIds(x) \subseteq DOMAIN utxo /\ Valid(x, read)
           /\ held' = [held EXCEPT ![c] = read] /\ Goto(c, "exec") /\ UNCHANGED req
  <2>1. Moves(c) /\ pc'[c] = "exec" /\ req'[c] = req[c] /\ held'[c] = read
    BY <1>3, HoldMoves DEF RInv, Labels
  <2>2. ASSUME NEW tok, Story(tok)
        PROVE  Recalls(tok, next, pc'[c], req'[c], held'[c])
    <3>1. utxo = [id \in DOMAIN utxo |-> tok[id]] /\ DOMAIN utxo \subseteq DOMAIN tok
      BY <2>2, PartsOf DEF Story, Stands
    <3>2. read = [id \in DOMAIN read |-> tok[id]] /\ DOMAIN read \subseteq DOMAIN tok
      BY <1>3, <3>1
    <3>3. read \in Parts(tok)
      BY <3>2, PartsOf
    <3>4. Positive(x) /\ Intent(x, read) /\ DOMAIN read = InputIds(x)
      BY <1>3 DEF Valid
    <3>5. x \in Txs /\ Bounded(x) /\ NoDuplicates(x)
      BY <1>1, <2>2 DEF Story, Recalls
    <3> HIDE DEF x, read
    <3>6. QED BY <2>1, <3>3, <3>4, <3>5 DEF Recalls, x
  <2>3. Current(utxo, txs, strays, pc'[c], req'[c], held'[c], dirty'[c])
    BY <1>1, <1>3, <2>1 DEF Current, RInv, Local
  <2>4. dirty' \in [Clients -> BOOLEAN]
    BY <1>1 DEF RInv, Kinds
  <2>5. QED BY <1>1, <2>1, <2>2, <2>3, <2>4, ClientStep
<1>4. QED BY <1>2, <1>3 DEF FetchInputs

LEMMA StartBalanceInv ==
  ASSUME RInv, NEW c \in Clients, StartBalance(c)
  PROVE  RInv'
<1>1. PICK o \in Owners :
        /\ Goto(c, "mget") /\ req' = [req EXCEPT ![c] = [op |-> "BALANCE", owner |-> o]]
        /\ held' = [held EXCEPT ![c] = owner[o]]
  BY DEF StartBalance
<1>2. UNCHANGED <<store, next, overdue, operator, quiet, strays>> /\ UNCHANGED dirty
  BY DEF StartBalance
<1>3. Moves(c) /\ pc'[c] = "mget" /\ held'[c] = owner[o]
  BY <1>1 DEF RInv, Kinds, Goto, Moves, Typed, Labels
<1>4. \A tok : Story(tok) => Recalls(tok, next, pc'[c], req'[c], held'[c])
  BY <1>3 DEF Story, Stands, Recalls
<1>5. Current(utxo, txs, strays, pc'[c], req'[c], held'[c], dirty'[c])
  BY <1>3 DEF Current
<1>6. dirty' \in [Clients -> BOOLEAN]
  BY <1>2 DEF RInv, Kinds
<1>7. QED BY <1>2, <1>3, <1>4, <1>5, <1>6, ClientStep

LEMMA SumTokensInv ==
  ASSUME RInv, NEW c \in Clients, SumTokens(c)
  PROVE  RInv'
<1>1. UNCHANGED <<store, next, overdue, operator, quiet, strays>> /\ UNCHANGED dirty
      /\ pc[c] = "mget"
  BY DEF SumTokens
<1>2. CASE Finish(c)
  BY <1>1, <1>2, LoseInv
<1>3. CASE /\ held' = [held EXCEPT ![c] = held[c] \ DOMAIN utxo] /\ Goto(c, "srem")
           /\ UNCHANGED req
  <2>1. Moves(c) /\ pc'[c] = "srem" /\ held'[c] = held[c] \ DOMAIN utxo
    BY <1>3, HoldMoves DEF RInv, Labels
  <2>2. \A tok : Story(tok) => Recalls(tok, next, pc'[c], req'[c], held'[c])
    BY <1>1, <2>1 DEF Story, Recalls
  <2>3. Current(utxo, txs, strays, pc'[c], req'[c], held'[c], dirty'[c])
    BY <2>1 DEF Current
  <2>4. dirty' \in [Clients -> BOOLEAN]
    BY <1>1 DEF RInv, Kinds
  <2>5. QED BY <1>1, <2>1, <2>2, <2>3, <2>4, ClientStep
<1>4. QED BY <1>2, <1>3 DEF SumTokens

----------------------------------------------------------------------------
(* The operator's steps before its pipeline *)

LEMMA StartSnapshotInv ==
  ASSUME RInv, StartSnapshot
  PROVE  RInv'
<1>1. /\ UNCHANGED <<store, next, overdue, client, dirty, strays>>
      /\ stage' = "scan" /\ copy' = NoTokens /\ must' = DOMAIN utxo
      /\ doomed' = doomed /\ saved' = saved /\ quiet' = TRUE
  BY DEF StartSnapshot, To
<1>2. \A tok : Story(tok) => copy' \in Parts(tok) /\ saved' \in Seq(Parts(tok))
  BY <1>1, NoPart DEF Story, Stands
<1>3. ~ Restoring'
  BY <1>1 DEF Restoring
<1>4. Operates(stage', saved', doomed')
  BY <1>1 DEF RInv, Operator, Operates, Stages
<1>5. Undisturbed(stage', utxo, owner, txs, copy', must', doomed')
  <2>1. DOMAIN NoTokens = {}
    BY DEF NoTokens
  <2>2. QED BY <1>1, <2>1 DEF Undisturbed
<1>6. quiet' \in BOOLEAN
  BY <1>1
<1>7. QED BY <1>1, <1>2, <1>3, <1>4, <1>5, <1>6, OperatorStep

LEMMA CopyKeyInv ==
  ASSUME RInv, NEW key \in DOMAIN utxo, CopyKey(key)
  PROVE  RInv'
<1>1. /\ UNCHANGED <<store, next, overdue, client, dirty, strays>>
      /\ stage = "scan" /\ stage' = stage /\ must' = must
      /\ doomed' = doomed /\ saved' = saved /\ quiet' = quiet
      /\ copy' = [i \in DOMAIN copy \cup {key} |-> IF i = key THEN utxo[i] ELSE copy[i]]
  BY DEF CopyKey
<1>2. ASSUME NEW tok, Story(tok)
      PROVE  copy' \in Parts(tok) /\ saved' \in Seq(Parts(tok))
  <2>1. utxo \in Parts(tok) /\ copy \in Parts(tok) /\ saved' \in Seq(Parts(tok))
    BY <1>1, <1>2 DEF Story, Stands
  <2>2. /\ DOMAIN utxo \subseteq DOMAIN tok /\ DOMAIN copy \subseteq DOMAIN tok
        /\ \A id \in DOMAIN utxo : utxo[id] = tok[id]
        /\ \A id \in DOMAIN copy : copy[id] = tok[id]
    BY <2>1, PartsAgree
  <2>3. copy' = [id \in DOMAIN copy' |-> tok[id]] /\ DOMAIN copy' \subseteq DOMAIN tok
    BY <1>1, <2>2
  <2>4. QED BY <2>1, <2>3, PartsOf
<1>3. ~ Restoring'
  BY <1>1 DEF Restoring
<1>4. Operates(stage', saved', doomed')
  BY <1>1 DEF RInv, Operator
<1>5. quiet' => Undisturbed(stage', utxo, owner, txs, copy', must', doomed')
  BY <1>1 DEF RInv, Operator, Undisturbed
<1>6. quiet' \in BOOLEAN
  BY <1>1 DEF RInv, Kinds
<1>7. QED BY <1>1, <1>2, <1>3, <1>4, <1>5, <1>6, OperatorStep

LEMMA EndSnapshotInv ==
  ASSUME RInv, EndSnapshot
  PROVE  RInv'
<1>1. /\ UNCHANGED <<store, next, overdue, client, dirty, strays>>
      /\ stage' = "idle" /\ copy' = NoTokens /\ saved' = Append(saved, copy)
      /\ doomed' = doomed /\ quiet' = quiet
  BY DEF EndSnapshot, To
<1>2. \A tok : Story(tok) => copy' \in Parts(tok) /\ saved' \in Seq(Parts(tok))
  BY <1>1, NoPart DEF Story, Stands
<1>3. ~ Restoring'
  BY <1>1 DEF Restoring
<1>4. Operates(stage', saved', doomed')
  BY <1>1 DEF RInv, Operator, Operates, Stages
<1>5. Undisturbed(stage', utxo, owner, txs, copy', must', doomed')
  BY <1>1 DEF Undisturbed
<1>6. quiet' \in BOOLEAN
  BY <1>1 DEF RInv, Kinds
<1>7. QED BY <1>1, <1>2, <1>3, <1>4, <1>5, <1>6, OperatorStep

LEMMA StartRestoreInv ==
  ASSUME RInv, StartRestore
  PROVE  RInv'
<1>1. /\ UNCHANGED <<store, next, overdue, client, dirty, strays>>
      /\ stage' = "owners" /\ copy' = copy /\ saved' = saved /\ quiet' = TRUE
      /\ doomed' = [doomed EXCEPT !.tokens = DOMAIN utxo] /\ saved # <<>>
  BY DEF StartRestore, To
<1>2. doomed = [tokens |-> doomed.tokens, owners |-> doomed.owners, txs |-> doomed.txs]
  BY DEF RInv, Operator, Operates
<1>3. doomed' = [tokens |-> DOMAIN utxo, owners |-> doomed.owners, txs |-> doomed.txs]
  BY <1>1, <1>2
<1>4. \A tok : Story(tok) => copy' \in Parts(tok) /\ saved' \in Seq(Parts(tok))
  BY <1>1 DEF Story, Stands
<1>5. DOMAIN utxo \ doomed'.tokens \subseteq strays
  BY <1>3
<1>6. Operates(stage', saved', doomed')
  BY <1>1, <1>3 DEF Operates, Stages
<1>7. Undisturbed(stage', utxo, owner, txs, copy', must', doomed')
  BY <1>1, <1>3 DEF Undisturbed
<1>8. quiet' \in BOOLEAN
  BY <1>1
<1>9. QED BY <1>1, <1>4, <1>5, <1>6, <1>7, <1>8, OperatorStep

LEMMA ScanOwnersInv ==
  ASSUME RInv, ScanOwners
  PROVE  RInv'
<1>1. /\ UNCHANGED <<store, next, overdue, client, dirty, strays>>
      /\ stage = "owners" /\ stage' = "txs" /\ copy' = copy /\ saved' = saved
      /\ quiet' = quiet
      /\ doomed' = [doomed EXCEPT !.owners = {o \in Owners : owner[o] # {}}]
  BY DEF ScanOwners, To
<1>2. doomed = [tokens |-> doomed.tokens, owners |-> doomed.owners, txs |-> doomed.txs]
  BY DEF RInv, Operator, Operates
<1>3. doomed' = [tokens |-> doomed.tokens, owners |-> {o \in Owners : owner[o] # {}},
                 txs |-> doomed.txs]
  BY <1>1, <1>2
<1>4. \A tok : Story(tok) => copy' \in Parts(tok) /\ saved' \in Seq(Parts(tok))
  BY <1>1 DEF Story, Stands
<1>5. DOMAIN utxo \ doomed'.tokens \subseteq strays
  BY <1>1, <1>3 DEF RInv, Covered, Restoring
<1>6. Operates(stage', saved', doomed')
  BY <1>1, <1>3 DEF RInv, Operator, Operates, Stages
<1>7. quiet' => Undisturbed(stage', utxo, owner, txs, copy', must', doomed')
  BY <1>1, <1>3 DEF RInv, Operator, Undisturbed
<1>8. quiet' \in BOOLEAN
  BY <1>1 DEF RInv, Kinds
<1>9. QED BY <1>1, <1>4, <1>5, <1>6, <1>7, <1>8, OperatorStep

LEMMA ScanTxsInv ==
  ASSUME RInv, ScanTxs
  PROVE  RInv'
<1>1. /\ UNCHANGED <<store, next, overdue, client, dirty, strays>>
      /\ stage = "txs" /\ stage' = "exec" /\ copy' = copy /\ saved' = saved
      /\ quiet' = quiet /\ doomed' = [doomed EXCEPT !.txs = txs]
  BY DEF ScanTxs, To
<1>2. doomed = [tokens |-> doomed.tokens, owners |-> doomed.owners, txs |-> doomed.txs]
  BY DEF RInv, Operator, Operates
<1>3. doomed' = [tokens |-> doomed.tokens, owners |-> doomed.owners, txs |-> txs]
  BY <1>1, <1>2
<1>4. \A tok : Story(tok) => copy' \in Parts(tok) /\ saved' \in Seq(Parts(tok))
  BY <1>1 DEF Story, Stands
<1>5. DOMAIN utxo \ doomed'.tokens \subseteq strays
  BY <1>1, <1>3 DEF RInv, Covered, Restoring
<1>6. Operates(stage', saved', doomed')
  BY <1>1, <1>3 DEF RInv, Operator, Operates, Stages
<1>7. quiet' => Undisturbed(stage', utxo, owner, txs, copy', must', doomed')
  BY <1>1, <1>3 DEF RInv, Operator, Undisturbed
<1>8. quiet' \in BOOLEAN
  BY <1>1 DEF RInv, Kinds
<1>9. QED BY <1>1, <1>4, <1>5, <1>6, <1>7, <1>8, OperatorStep

LEMMA StopOperatorInv ==
  ASSUME RInv, StopOperator
  PROVE  RInv'
<1>1. /\ UNCHANGED <<store, next, overdue, client, dirty, strays>>
      /\ stage' = "idle" /\ copy' = NoTokens /\ doomed' = Nothing /\ saved' = saved
      /\ quiet' = quiet
  BY DEF StopOperator, To
<1>2. \A tok : Story(tok) => copy' \in Parts(tok) /\ saved' \in Seq(Parts(tok))
  BY <1>1, NoPart DEF Story, Stands
<1>3. ~ Restoring'
  BY <1>1 DEF Restoring
<1>4. Operates(stage', saved', doomed')
  BY <1>1 DEF Operates, Stages, Nothing
<1>5. Undisturbed(stage', utxo, owner, txs, copy', must', doomed')
  BY <1>1 DEF Undisturbed
<1>6. quiet' \in BOOLEAN
  BY <1>1 DEF RInv, Kinds
<1>7. QED BY <1>1, <1>2, <1>3, <1>4, <1>5, <1>6, OperatorStep

----------------------------------------------------------------------------
(* Steps that write *)

\* A client that is not told of a write has read nothing that was written.
LEMMA StillCurrent ==
  ASSUME Kinds, Local, NEW d \in Clients, NEW by, NEW ids, NEW hashes,
         Touch(by, ids, hashes), d \notin by,
         DOMAIN utxo \ DOMAIN utxo' \subseteq ids, txs' \ txs \subseteq hashes,
         strays \subseteq strays',
         pc[d] = "srem" => held[d] \cap (DOMAIN utxo' \ DOMAIN utxo) \subseteq strays'
  PROVE  Current(utxo', txs', strays', pc[d], req[d], held[d], dirty'[d])
<1>1. Current(utxo, txs, strays, pc[d], req[d], held[d], dirty[d])
  BY DEF Local
<1>2. dirty'[d] <=> Watching(d) /\ (dirty[d] \/ Watches(d, ids, hashes))
  BY DEF Touch
<1>3. ASSUME pc[d] \in {"fetch", "exec"}, ~ dirty'[d]
      PROVE  TxHash(req[d].tx) \notin txs'
  <2>1. ~ dirty[d] /\ TxHash(req[d].tx) \notin hashes
    BY <1>2, <1>3 DEF Watching, Watches
  <2>2. QED BY <1>1, <1>3, <2>1 DEF Current
<1>4. ASSUME pc[d] = "exec", ~ dirty'[d]
      PROVE  InputIds(req[d].tx) \subseteq DOMAIN utxo'
  <2>1. ~ dirty[d] /\ InputIds(req[d].tx) \cap ids = {}
    BY <1>2, <1>4 DEF Watching, Watches
  <2>2. QED BY <1>1, <1>4, <2>1 DEF Current
<1>5. pc[d] = "srem" => held[d] \cap DOMAIN utxo' \subseteq strays'
  BY <1>1 DEF Current
<1>6. QED BY <1>3, <1>4, <1>5 DEF Current

LEMMA TouchTypes ==
  ASSUME NEW by, NEW ids, NEW hashes, Touch(by, ids, hashes)
  PROVE  dirty' \in [Clients -> BOOLEAN]
BY DEF Touch

LEMMA ForgetInv ==
  ASSUME RInv, NEW gone \in txs, Forget(gone)
  PROVE  RInv'
<1>1. /\ txs' = txs \ {gone} /\ Touch({}, {}, {gone})
      /\ utxo' = utxo /\ owner' = owner /\ next' = next /\ overdue' = overdue
      /\ pc' = pc /\ req' = req /\ held' = held
      /\ stage' = stage /\ copy' = copy /\ must' = must /\ doomed' = doomed /\ saved' = saved
      /\ quiet' = quiet /\ strays' = strays
  BY DEF Forget, client, operator
<1>2. Kinds'
  BY <1>1, TouchTypes DEF RInv, Kinds
<1>3. Local'
  <2>1. ASSUME NEW d \in Clients
        PROVE  Current(utxo', txs', strays', pc[d], req[d], held[d], dirty'[d])
    <3>1. Kinds /\ Local
      BY DEF RInv
    <3>2. /\ DOMAIN utxo \ DOMAIN utxo' \subseteq {} /\ txs' \ txs \subseteq {gone}
          /\ strays \subseteq strays' /\ d \notin {}
          /\ pc[d] = "srem" => held[d] \cap (DOMAIN utxo' \ DOMAIN utxo) \subseteq strays'
      BY <1>1
    <3>3. QED BY <1>1, <3>1, <3>2, StillCurrent
  <2>2. QED BY <1>1, <2>1 DEF Local
<1>4. Apart' /\ Covered'
  BY <1>1 DEF RInv, Apart, Covered, Restoring
<1>5. Operator'
  BY <1>1 DEF RInv, Operator, Undisturbed
<1>6. PICK tok : Story(tok)
  BY DEF RInv
<1>7. Story(tok)'
  BY <1>1, <1>6 DEF Story
<1>8. QED BY <1>2, <1>3, <1>4, <1>5, <1>7 DEF RInv

LEMMA ExpireInv ==
  ASSUME RInv, NEW id \in DOMAIN Genesis, Expire(id)
  PROVE  RInv'
<1>1. /\ overdue' = overdue \cup {id} /\ txs' = txs /\ dirty' = dirty
      /\ utxo' = utxo /\ owner' = owner /\ next' = next
      /\ pc' = pc /\ req' = req /\ held' = held
      /\ stage' = stage /\ copy' = copy /\ must' = must /\ doomed' = doomed /\ saved' = saved
      /\ quiet' = quiet /\ strays' = strays
  BY DEF Expire, client, operator, store
<1>2. Kinds' /\ Local' /\ Apart'
  BY <1>1 DEF RInv, Kinds, Local, Apart
<1>3. Covered' /\ Operator'
  BY <1>1 DEF RInv, Covered, Operator, Restoring
<1>4. PICK tok : Story(tok)
  BY DEF RInv
<1>5. Story(tok)'
  BY <1>1, <1>4 DEF Story
<1>6. QED BY <1>2, <1>3, <1>5 DEF RInv

LEMMA LaterTable ==
  ASSUME NEW tok, NEW n, NEW m \in Nat, Table(tok, n), n =< m
  PROVE  Table(tok, m)
<1>1. n \in Nat /\ n > Len(Genesis) /\ DOMAIN tok \subseteq 1 .. n - 1
  BY DEF Table
<1>2. 1 .. n - 1 \subseteq 1 .. m - 1 /\ m > Len(Genesis)
  BY <1>1, GenesisSize
<1>3. QED BY <1>1, <1>2 DEF Table

LEMMA StartAddInv ==
  ASSUME RInv, NEW c \in Clients, StartAdd(c)
  PROVE  RInv'
<1>1. PICK u \in Adds :
        Start(c, "add", [op |-> "ADD", id |-> next, token |-> [u EXCEPT !.ids = ModelIds]])
  BY DEF StartAdd
<1> DEFINE what == [op |-> "ADD", id |-> next, token |-> [u EXCEPT !.ids = ModelIds]]
<1>2. /\ next' = next + 1 /\ overdue' = overdue /\ dirty' = dirty
      /\ utxo' = utxo /\ owner' = owner /\ txs' = txs
      /\ stage' = stage /\ copy' = copy /\ must' = must /\ doomed' = doomed /\ saved' = saved
      /\ quiet' = quiet /\ strays' = strays
  BY DEF StartAdd, store, operator
<1>3. Moves(c) /\ pc'[c] = "add" /\ req'[c] = what /\ held'[c] = held[c]
  <2>1. Kinds /\ "add" \in Labels
    BY DEF RInv, Labels
  <2>2. QED BY <1>1, <2>1, StartMoves
<1>4. req'[c].id = next /\ req'[c].token = [u EXCEPT !.ids = ModelIds]
  BY <1>3
<1>5. Sound(req'[c].token)
  <2>1. u \in Token /\ ModelIds \in IdTypes
    BY RedisAssumption, UtxoAssumption
  <2>2. [u EXCEPT !.ids = ModelIds] \in Token
    BY <2>1 DEF Token
  <2>3. [u EXCEPT !.ids = ModelIds] \in Brought
    BY DEF Brought
  <2>4. QED BY <1>4, <2>2, <2>3 DEF Sound
<1> HIDE DEF what
<1>6. Kinds'
  BY <1>2, <1>3 DEF RInv, Kinds, Moves, Typed
<1>7. Local'
  <2>1. ASSUME NEW d \in Clients
        PROVE  Current(utxo, txs, strays, pc'[d], req'[d], held'[d], dirty[d])
    <3>1. CASE d = c
      BY <1>3, <3>1 DEF Current
    <3>2. CASE d # c
      BY <1>3, <3>2 DEF RInv, Local, Moves
    <3>3. QED BY <3>1, <3>2
  <2>2. QED BY <1>2, <2>1 DEF Local
<1>8. Covered' /\ Operator'
  BY <1>2 DEF RInv, Covered, Operator, Restoring
<1>9. PICK tok : Story(tok)
  BY DEF RInv
<1>10. next \in Nat \ {0} /\ DOMAIN tok \subseteq 1 .. next - 1 /\ Table(tok, next)
  BY <1>9, GenesisSize DEF Story, Stands, Table
<1>11. ASSUME NEW d \in Clients \ {c}
       PROVE  /\ Recalls(tok, next', pc'[d], req'[d], held'[d])
              /\ pc'[d] = "add" => req'[d].id \in 1 .. next - 1
  <2>1. Recalls(tok, next, pc[d], req[d], held[d])
    BY <1>9 DEF Story
  <2>2. Grows(tok, tok)
    BY DEF Grows
  <2>3. pc[d] = "add" => req[d].id \notin DOMAIN tok /\ req[d].id \in 1 .. next - 1
    BY <2>1 DEF Recalls
  <2>4. next \in Nat /\ next' \in Nat /\ next =< next'
    BY <1>2, <1>10
  <2>5. Recalls(tok, next', pc[d], req[d], held[d])
    BY <2>1, <2>2, <2>3, <2>4, RecallsStill
  <2>6. QED BY <1>3, <2>3, <2>5 DEF Moves
<1>12. Recalls(tok, next', pc'[c], req'[c], held'[c])
  <2>1. next \in 1 .. next' - 1 /\ next \notin DOMAIN tok
    BY <1>2, <1>10
  <2>2. QED BY <1>3, <1>4, <1>5, <2>1 DEF Recalls
<1>13. Apart'
  <2>1. next \notin 1 .. next - 1
    BY <1>10
  <2>2. \A d \in Clients \ {c} : pc'[d] = "add" => req'[d].id # req'[c].id
    BY <1>4, <1>11, <2>1
  <2>3. \A d, e \in Clients \ {c} :
          d # e /\ pc'[d] = "add" /\ pc'[e] = "add" => req'[d].id # req'[e].id
    BY <1>3 DEF RInv, Apart, Moves
  <2>4. QED BY <2>2, <2>3 DEF Apart
<1>14. Story(tok)'
  <2>1. Table(tok, next')
    <3>1. next' \in Nat /\ next =< next'
      BY <1>2, <1>10
    <3>2. QED BY <1>10, <3>1, LaterTable
  <2>2. \A d \in Clients : Recalls(tok, next', pc'[d], req'[d], held'[d])
    BY <1>11, <1>12
  <2>3. Stands(tok, next', utxo', owner', copy', saved', strays')
    BY <1>2, <1>9, <2>1 DEF Story, Stands
  <2>4. QED BY <2>2, <2>3 DEF Story
<1>15. QED BY <1>6, <1>7, <1>8, <1>13, <1>14 DEF RInv

LEMMA RemoveOrphansInv ==
  ASSUME RInv, NEW c \in Clients, RemoveOrphans(c)
  PROVE  RInv'
<1> DEFINE ro == req[c].owner
<1>1. /\ pc[c] = "srem" /\ owner' = [owner EXCEPT ![ro] = owner[ro] \ held[c]]
      /\ Finish(c) /\ dirty' = dirty /\ next' = next /\ overdue' = overdue
      /\ utxo' = utxo /\ txs' = txs
      /\ stage' = stage /\ copy' = copy /\ must' = must /\ doomed' = doomed /\ saved' = saved
      /\ quiet' = quiet /\ strays' = strays
  BY DEF RemoveOrphans, operator
<1>2. Moves(c) /\ pc'[c] = "idle"
  BY <1>1, FinishMoves DEF RInv
<1>3. PICK tok : Story(tok)
  BY DEF RInv
<1>4. owner = [o \in Owners |-> owner[o]]
  BY <1>3 DEF Story, Stands
<1>5. /\ owner' = [o \in Owners |-> owner'[o]]
      /\ \A o \in Owners : owner'[o] \subseteq owner[o]
      /\ \A o \in Owners : owner[o] \ held[c] \subseteq owner'[o]
  <2> HIDE DEF ro
  <2>1. QED BY <1>1, <1>4
<1>6. held[c] \cap DOMAIN utxo \subseteq strays
  BY <1>1 DEF RInv, Local, Current
<1>7. Kinds'
  BY <1>1, <1>2 DEF RInv, Kinds, Moves, Typed
<1>8. Local'
  <2>1. ASSUME NEW d \in Clients
        PROVE  Current(utxo, txs, strays, pc'[d], req'[d], held'[d], dirty[d])
    <3>1. CASE d = c
      BY <1>2, <3>1 DEF Current
    <3>2. CASE d # c
      BY <1>2, <3>2 DEF RInv, Local, Moves
    <3>3. QED BY <3>1, <3>2
  <2>2. QED BY <1>1, <2>1 DEF Local
<1>9. Apart'
  BY <1>2 DEF RInv, Apart, Moves
<1>10. Covered'
  <2>1. ASSUME NEW id \in DOMAIN utxo \ strays
        PROVE  id \in owner'[utxo[id].owner]
    <3>1. id \in owner[utxo[id].owner]
      BY DEF RInv, Covered, Covers
    <3>2. utxo[id].owner \in Owners
      <4>1. utxo \in Parts(tok)
        BY <1>3 DEF Story, Stands
      <4>2. id \in DOMAIN tok /\ utxo[id] = tok[id]
        BY <4>1, PartsAgree
      <4>3. utxo[id] \in Token
        BY <1>3, <4>2 DEF Story, Stands, Sound
      <4>4. QED BY <4>3 DEF Token
    <3>3. QED BY <1>5, <1>6, <3>1, <3>2
  <2>2. QED BY <1>1, <2>1 DEF RInv, Covered, Covers, Restoring
<1>11. Operator'
  <2>1. quiet => Undisturbed(stage, utxo, owner', txs, copy, must, doomed)
    BY <1>5 DEF RInv, Operator, Undisturbed
  <2>2. QED BY <1>1, <2>1 DEF RInv, Operator
<1>12. Story(tok)'
  <2>1. Stands(tok, next, utxo, owner', copy, saved, strays)
    BY <1>3, <1>5 DEF Story, Stands
  <2>2. ASSUME NEW d \in Clients
        PROVE  Recalls(tok, next, pc'[d], req'[d], held'[d])
    <3>1. CASE d = c
      BY <1>2, <3>1 DEF Recalls
    <3>2. CASE d # c
      BY <1>2, <1>3, <3>2 DEF Story, Moves
    <3>3. QED BY <3>1, <3>2
  <2>3. QED BY <1>1, <2>1, <2>2 DEF Story
<1>13. QED BY <1>7, <1>8, <1>9, <1>10, <1>11, <1>12 DEF RInv

\* The snapshot that a restore writes is one of those that were made.
LEMMA RestoresAPart ==
  ASSUME NEW tok, Story(tok), saved # <<>>
  PROVE  saved[Len(saved)] \in Parts(tok)
<1>1. saved \in Seq(Parts(tok))
  BY DEF Story, Stands
<1>2. QED BY <1>1

LEMMA RestoreAllInv ==
  ASSUME RInv, RestoreAll
  PROVE  RInv'
<1> DEFINE kept == saved[Len(saved)]
           left == DOMAIN utxo \ doomed.tokens
           ids  == (doomed.tokens \cap DOMAIN utxo) \cup DOMAIN kept
           gone == doomed.txs \cap txs
<1>1. /\ stage \in {"exec", "again"}
      /\ utxo' = [id \in left \cup DOMAIN kept |->
                    IF id \in DOMAIN kept THEN kept[id] ELSE utxo[id]]
      /\ owner' = RestoredOwners(kept) /\ txs' = txs \ doomed.txs
      /\ Touch({}, ids, gone)
      /\ strays' = strays \cup (DOMAIN kept \ DOMAIN utxo)
      /\ \/ stage' = "idle" /\ doomed' = Nothing
         \/ stage' = "again" /\ doomed' = doomed
      /\ next' = next /\ overdue' = overdue /\ pc' = pc /\ req' = req /\ held' = held
      /\ copy' = copy /\ must' = must /\ saved' = saved /\ quiet' = quiet
  BY DEF RestoreAll, To, client
<1>2. PICK tok : Story(tok)
  BY DEF RInv
<1>3. saved # <<>> /\ left \subseteq strays
  BY <1>1 DEF RInv, Operator, Operates, Covered, Restoring
<1>4. kept \in Parts(tok) /\ utxo \in Parts(tok) /\ strays \subseteq DOMAIN tok
  BY <1>2, <1>3, RestoresAPart DEF Story, Stands
<1>5. \A id \in DOMAIN tok : tok[id] \in Token
  BY <1>2 DEF Story, Stands, Sound
<1>6. /\ DOMAIN kept \subseteq DOMAIN tok /\ DOMAIN utxo \subseteq DOMAIN tok
      /\ \A id \in DOMAIN kept : kept[id] = tok[id]
      /\ \A id \in DOMAIN utxo : utxo[id] = tok[id]
  BY <1>4, PartsAgree
<1> HIDE DEF kept
<1>7. DOMAIN utxo' = left \cup DOMAIN kept /\ utxo' = [id \in DOMAIN utxo' |-> tok[id]]
  BY <1>1, <1>6
<1>8. /\ owner' = [o \in Owners |-> owner'[o]]
      /\ \A o \in Owners : {id \in DOMAIN kept : tok[id].owner = o} \subseteq owner'[o]
      /\ \A o \in Owners : owner'[o] \subseteq owner[o] \cup {id \in DOMAIN kept : tok[id].owner = o}
  <2>1. \A o \in Owners : OwnedBy(kept)[o] = {id \in DOMAIN kept : tok[id].owner = o}
    BY <1>6 DEF OwnedBy
  <2>2. QED BY <1>1, <2>1 DEF RestoredOwners
<1>9. Kinds'
  BY <1>1, TouchTypes DEF RInv, Kinds
<1>10. Local'
  <2>1. ASSUME NEW d \in Clients
        PROVE  Current(utxo', txs', strays', pc[d], req[d], held[d], dirty'[d])
    <3>1. Kinds /\ Local
      BY DEF RInv
    <3>2. DOMAIN utxo \ DOMAIN utxo' \subseteq ids /\ txs' \ txs \subseteq gone
      BY <1>1, <1>7
    <3>3. strays \subseteq strays' /\ d \notin {}
          /\ held[d] \cap (DOMAIN utxo' \ DOMAIN utxo) \subseteq strays'
      BY <1>1, <1>7
    <3> HIDE DEF ids, gone
    <3>4. QED BY <1>1, <3>1, <3>2, <3>3, StillCurrent
  <2>2. QED BY <1>1, <2>1 DEF Local
<1>11. Apart'
  BY <1>1 DEF RInv, Apart
<1>12. Covered'
  <2>1. ASSUME NEW id \in DOMAIN utxo' \ strays'
        PROVE  id \in owner'[utxo'[id].owner]
    <3>1. id \in DOMAIN kept /\ utxo'[id] = tok[id]
      BY <1>1, <1>3, <1>7
    <3>2. tok[id].owner \in Owners
      BY <1>5, <1>6, <3>1 DEF Token
    <3>3. QED BY <1>8, <3>1, <3>2
  <2>2. Restoring' => DOMAIN utxo' \ doomed'.tokens \subseteq strays'
    <3>1. CASE stage' = "idle"
      BY <3>1 DEF Restoring
    <3>2. CASE doomed' = doomed
      BY <1>1, <1>3, <1>7, <3>2
    <3>3. QED BY <1>1, <3>1, <3>2
  <2>3. QED BY <2>1, <2>2 DEF Covered, Covers
<1>13. Operator'
  <2>1. Operates(stage', saved', doomed')
    BY <1>1, <1>3 DEF RInv, Operator, Operates, Stages, Nothing
  <2>2. Undisturbed(stage', utxo', owner', txs', copy', must', doomed')
    BY <1>1 DEF Undisturbed
  <2>3. QED BY <2>1, <2>2 DEF Operator
<1>14. Story(tok)'
  <2>1. utxo' \in Parts(tok)
    BY <1>6, <1>7, PartsOf
  <2>2. strays' \subseteq DOMAIN tok
    BY <1>1, <1>4, <1>6
  <2>3. \A o \in Owners : owner'[o] \subseteq {id \in DOMAIN tok : tok[id].owner = o}
    <3>1. \A o \in Owners : owner[o] \subseteq {id \in DOMAIN tok : tok[id].owner = o}
      BY <1>2 DEF Story, Stands
    <3>2. QED BY <1>6, <1>8, <3>1
  <2>4. Stands(tok, next, utxo', owner', copy, saved, strays')
    BY <1>2, <1>8, <2>1, <2>2, <2>3 DEF Story, Stands
  <2>5. QED BY <1>1, <1>2, <2>4 DEF Story
<1>15. QED BY <1>9, <1>10, <1>11, <1>12, <1>13, <1>14 DEF RInv

----------------------------------------------------------------------------
(* A token that is added *)

\* The story with one id more, or with one that is told again.
Told(tok, id, u) == [i \in DOMAIN tok \cup {id} |-> IF i = id THEN u ELSE tok[i]]

\* What new is once id was told to stand for u.
Tells(tok, n, id, u, new) ==
  /\ Table(new, n) /\ Grows(tok, new) /\ \A i \in DOMAIN new : Sound(new[i])
  /\ DOMAIN new = DOMAIN tok \cup {id} /\ new[id] = u

LEMMA ToldTells ==
  ASSUME NEW tok, NEW n, NEW id, NEW u, Table(tok, n), \A i \in DOMAIN tok : Sound(tok[i]),
         id \in 1 .. n - 1, Sound(u), id \in DOMAIN tok => tok[id] = u
  PROVE  Tells(tok, n, id, u, Told(tok, id, u))
<1>1. DOMAIN Told(tok, id, u) = DOMAIN tok \cup {id} /\ Told(tok, id, u)[id] = u
  BY DEF Told
<1>2. Grows(tok, Told(tok, id, u))
  BY DEF Told, Grows
<1>3. \A i \in DOMAIN Told(tok, id, u) : Sound(Told(tok, id, u)[i])
  BY <1>1, <1>2 DEF Grows
<1>4. Table(Told(tok, id, u), n)
  <2>1. Told(tok, id, u) = [i \in DOMAIN Told(tok, id, u) |-> Told(tok, id, u)[i]]
    BY DEF Told
  <2>2. QED BY <1>1, <1>3, <2>1 DEF Table, Sound
<1>5. QED BY <1>1, <1>2, <1>3, <1>4 DEF Tells

LEMMA ExecAddInv ==
  ASSUME RInv, NEW c \in Clients, ExecAdd(c)
  PROVE  RInv'
<1> DEFINE id == req[c].id
           u  == req[c].token
           o  == u.owner
<1>1. /\ pc[c] \in {"add", "add again"}
      /\ utxo' = [i \in DOMAIN utxo \cup {id} |-> IF i = id THEN u ELSE utxo[i]]
      /\ owner' = [owner EXCEPT ![o] = owner[o] \cup {id}]
      /\ Touch({c}, {id}, {}) /\ Notice({id}, pc[c] = "add again")
      /\ Finish(c) \/ (Goto(c, "add again") /\ UNCHANGED <<req, held>>)
      /\ txs' = txs /\ next' = next /\ overdue' = overdue
      /\ stage' = stage /\ copy' = copy /\ must' = must /\ doomed' = doomed /\ saved' = saved
  BY DEF ExecAdd, operator
<1>2. Kinds
  BY DEF RInv
<1>3. Moves(c) /\ (pc'[c] = "idle" \/ (pc'[c] = "add again" /\ req'[c] = req[c]))
  <2>1. CASE Finish(c)
    BY <1>2, <2>1, FinishMoves
  <2>2. CASE Goto(c, "add again") /\ UNCHANGED <<req, held>>
    BY <1>2, <2>2, GotoMoves DEF Labels
  <2>3. QED BY <1>1, <2>1, <2>2
<1>4. PICK tok : Story(tok)
  BY DEF RInv
<1>5. /\ Sound(u) /\ id \in 1 .. next - 1 /\ o \in Owners /\ next \in Nat
      /\ pc[c] = "add" => id \notin DOMAIN tok
      /\ pc[c] = "add again" => id \in DOMAIN tok /\ tok[id] = u
  <2>1. Recalls(tok, next, pc[c], req[c], held[c])
    BY <1>4 DEF Story
  <2>2. Sound(u) => o \in Owners
    BY DEF Sound, Token
  <2>3. next \in Nat
    BY <1>4 DEF Story, Stands, Table
  <2>4. QED BY <1>1, <2>1, <2>2, <2>3 DEF Recalls
<1>6. PICK new :
        /\ Table(new, next) /\ Grows(tok, new) /\ \A i \in DOMAIN new : Sound(new[i])
        /\ DOMAIN new = DOMAIN tok \cup {id} /\ new[id] = u
  <2>1. Table(tok, next) /\ \A i \in DOMAIN tok : Sound(tok[i])
    BY <1>4 DEF Story, Stands
  <2>2. id \in 1 .. next - 1 /\ Sound(u) /\ (id \in DOMAIN tok => tok[id] = u)
    BY <1>1, <1>5
  <2> HIDE DEF id, u, o
  <2>3. Tells(tok, next, id, u, Told(tok, id, u))
    BY <2>1, <2>2, ToldTells
  <2>4. QED BY <2>3 DEF Tells
<1> HIDE DEF id, u, o
<1>7. strays \subseteq strays' /\ strays' \subseteq strays \cup {id}
      /\ (pc[c] = "add again" \/ Restoring => id \in strays')
      /\ quiet' = (quiet /\ stage = "idle")
  BY <1>1 DEF Notice
<1>8. /\ DOMAIN utxo' = DOMAIN utxo \cup {id} /\ utxo'[id] = u
      /\ \A i \in DOMAIN utxo : i # id => utxo'[i] = utxo[i]
  BY <1>1
<1>9. /\ owner' = [p \in Owners |-> owner'[p]]
      /\ \A p \in Owners : owner[p] \subseteq owner'[p]
      /\ id \in owner'[o]
      /\ \A p \in Owners : p # o => owner'[p] = owner[p]
      /\ owner'[o] = owner[o] \cup {id}
  <2>1. owner = [p \in Owners |-> owner[p]]
    BY <1>4 DEF Story, Stands
  <2>2. QED BY <1>1, <1>5, <2>1
<1>10. Kinds'
  <2>1. dirty' \in [Clients -> BOOLEAN] /\ quiet' \in BOOLEAN
    BY <1>1, <1>7, TouchTypes
  <2>2. QED BY <1>1, <1>2, <1>3, <2>1 DEF Kinds, Moves, Typed
<1>11. utxo' \in Parts(new)
  <2>1. utxo \in Parts(tok)
    BY <1>4 DEF Story, Stands
  <2>2. DOMAIN utxo \subseteq DOMAIN tok /\ \A i \in DOMAIN utxo : utxo[i] = tok[i]
    BY <2>1, PartsAgree
  <2>3. DOMAIN tok \subseteq DOMAIN new /\ \A i \in DOMAIN tok : new[i] = tok[i]
    BY <1>6 DEF Grows
  <2>4. \A i \in DOMAIN utxo' : i \in DOMAIN new /\ utxo'[i] = new[i]
    BY <1>6, <1>8, <2>2, <2>3
  <2>5. utxo' = [i \in DOMAIN utxo' |-> utxo'[i]]
    BY <1>1
  <2>6. utxo' = [i \in DOMAIN utxo' |-> new[i]] /\ DOMAIN utxo' \subseteq DOMAIN new
    BY <2>4, <2>5
  <2>7. QED BY <2>6, PartsOf
<1>12. Local'
  <2>1. ASSUME NEW d \in Clients \ {c}
        PROVE  Current(utxo', txs', strays', pc[d], req[d], held[d], dirty'[d])
    <3>1. Local /\ d \in Clients /\ d \notin {c}
      BY DEF RInv
    <3>2. DOMAIN utxo \ DOMAIN utxo' \subseteq {id} /\ txs' \ txs \subseteq {}
      BY <1>1, <1>8
    <3>3. pc[d] = "srem" => held[d] \cap (DOMAIN utxo' \ DOMAIN utxo) \subseteq strays'
      <4>1. pc[d] = "srem" => held[d] \subseteq DOMAIN tok
        BY <1>4 DEF Story, Recalls
      <4>2. CASE pc[c] = "add"
        BY <1>5, <1>8, <4>1, <4>2 DEF id
      <4>3. CASE pc[c] = "add again"
        BY <1>7, <1>8, <4>3
      <4>4. QED BY <1>1, <4>2, <4>3
    <3>4. QED BY <1>1, <1>2, <1>7, <3>1, <3>2, <3>3, StillCurrent
  <2>2. Current(utxo', txs', strays', pc'[c], req'[c], held'[c], dirty'[c])
    BY <1>3 DEF Current
  <2>3. \A d \in Clients \ {c} :
          Current(utxo', txs', strays', pc'[d], req'[d], held'[d], dirty'[d])
    BY <1>3, <2>1 DEF Moves
  <2>4. QED BY <2>2, <2>3 DEF Local
<1>13. Apart'
  BY <1>3 DEF RInv, Apart, Moves
<1>14. Covered'
  <2>1. ASSUME NEW i \in DOMAIN utxo' \ strays'
        PROVE  i \in owner'[utxo'[i].owner]
    <3>1. CASE i = id
      BY <1>8, <1>9, <3>1 DEF o
    <3>2. CASE i # id
      <4>1. i \in DOMAIN utxo \ strays /\ utxo'[i] = utxo[i]
        BY <1>7, <1>8, <3>2
      <4>2. i \in owner[utxo[i].owner]
        BY <4>1 DEF RInv, Covered, Covers
      <4>3. utxo'[i].owner \in Owners
        <5>1. i \in DOMAIN new /\ utxo'[i] = new[i]
          BY <1>11, PartsAgree
        <5>2. QED BY <1>6, <5>1 DEF Sound, Token
      <4>4. QED BY <1>9, <4>1, <4>2, <4>3
    <3>3. QED BY <3>1, <3>2
  <2>2. Restoring' => DOMAIN utxo' \ doomed'.tokens \subseteq strays'
    <3>1. Restoring' <=> Restoring
      BY <1>1 DEF Restoring
    <3>2. Restoring => DOMAIN utxo \ doomed.tokens \subseteq strays
      BY DEF RInv, Covered
    <3>3. QED BY <1>1, <1>7, <1>8, <3>1, <3>2
  <2>3. QED BY <2>1, <2>2 DEF Covered, Covers
<1>15. Operator'
  <2>1. Operates(stage', saved', doomed')
    BY <1>1 DEF RInv, Operator
  <2>2. quiet' => Undisturbed(stage', utxo', owner', txs', copy', must', doomed')
    BY <1>1, <1>7 DEF Undisturbed
  <2>3. QED BY <2>1, <2>2 DEF Operator
<1>16. Story(new)'
  <2>1. Parts(tok) \subseteq Parts(new) /\ Seq(Parts(tok)) \subseteq Seq(Parts(new))
    BY <1>6, PartsGrow
  <2>2. \A p \in Owners : owner'[p] \subseteq {i \in DOMAIN new : new[i].owner = p}
    <3>1. \A p \in Owners : owner[p] \subseteq {i \in DOMAIN new : new[i].owner = p}
      BY <1>4, <1>6 DEF Story, Stands, Grows
    <3>2. new[id].owner = o
      BY <1>6 DEF o
    <3>3. QED BY <1>6, <1>9, <3>1, <3>2
  <2>3. strays' \subseteq DOMAIN new
    BY <1>4, <1>6, <1>7 DEF Story, Stands
  <2>4. Stands(new, next', utxo', owner', copy', saved', strays')
    BY <1>1, <1>4, <1>6, <1>9, <1>11, <2>1, <2>2, <2>3 DEF Story, Stands
  <2>5. ASSUME NEW d \in Clients \ {c}
        PROVE  Recalls(new, next', pc'[d], req'[d], held'[d])
    <3>1. Recalls(tok, next, pc[d], req[d], held[d])
      BY <1>4 DEF Story
    <3>2. pc[d] = "add" => req[d].id \notin DOMAIN new
      <4>1. pc[d] = "add" => req[d].id \notin DOMAIN tok
        BY <3>1 DEF Recalls
      <4>2. pc[d] = "add" => req[d].id # id
        <5>1. CASE pc[c] = "add"
          BY <5>1 DEF RInv, Apart, id
        <5>2. CASE pc[c] = "add again"
          BY <1>5, <4>1, <5>2 DEF id
        <5>3. QED BY <1>1, <5>1, <5>2
      <4>3. QED BY <1>6, <4>1, <4>2
    <3>3. Recalls(new, next, pc[d], req[d], held[d])
      <4>1. next \in Nat
        BY <1>5
      <4>2. next =< next
        BY <4>1
      <4>3. Grows(tok, new)
        BY <1>6
      <4>4. QED BY <3>1, <3>2, <4>1, <4>2, <4>3, RecallsStill
    <3>4. QED BY <1>1, <1>3, <3>3 DEF Moves
  <2>6. Recalls(new, next', pc'[c], req'[c], held'[c])
    BY <1>1, <1>3, <1>5, <1>6 DEF Recalls, id, u
  <2>7. QED BY <2>4, <2>5, <2>6 DEF Story
<1>17. QED BY <1>10, <1>12, <1>13, <1>14, <1>15, <1>16 DEF RInv

----------------------------------------------------------------------------
(* EXEC *)

\* What an EXEC does that is not refused, in terms of the tokens of that instant.
Applies(c, x, new) ==
  /\ Checked(x) /\ TxHash(x) \notin txs
  /\ InputIds(x) \subseteq DOMAIN utxo /\ Intent(x, utxo)
  /\ new = Created(x, utxo) /\ new \in Seq(Token) /\ Len(new) \in Nat \ {0}
  /\ \A i \in 1 .. Len(new) : new[i].amount > 0
  /\ Replaces(utxo, next, InputIds(x), new, utxo') /\ Table(utxo, next)
  /\ owner' = Reindexed(x, held[c], new)
  /\ txs' = txs \cup {TxHash(x)}
  /\ next' = next + Len(new)
  /\ Touch({c}, InputIds(x), {TxHash(x)})
  /\ Notice(next .. next' - 1, FALSE)

LEMMA UtxoTable ==
  ASSUME NEW tok, Story(tok)
  PROVE  Table(utxo, next)
<1>1. Table(tok, next) /\ utxo \in Parts(tok)
  BY DEF Story, Stands
<1>2. utxo = [id \in DOMAIN utxo |-> tok[id]] /\ DOMAIN utxo \subseteq DOMAIN tok
  BY <1>1, PartsOf
<1>3. utxo = [id \in DOMAIN utxo |-> utxo[id]] /\ \A id \in DOMAIN utxo : utxo[id] = tok[id]
  BY <1>2
<1>4. QED BY <1>1, <1>2, <1>3 DEF Table

\* The keys that it watches were not written, so its inputs are there as it
\* read them: what it judged and what it makes of them is right for the tokens
\* that there are.
LEMMA ExecApplies ==
  ASSUME RInv, NEW c \in Clients, Exec(c), ~ dirty[c]
  PROVE  Applies(c, req[c].tx, Created(req[c].tx, held[c]))
<1> DEFINE x == req[c].tx
           h == held[c]
           new == Created(x, h)
<1>1. PICK tok : Story(tok)
  BY DEF RInv
<1>2. pc[c] = "exec"
  BY DEF Exec
<1>3. /\ x \in Txs /\ Bounded(x) /\ NoDuplicates(x) /\ Positive(x) /\ Intent(x, h)
      /\ h \in Parts(tok) /\ DOMAIN h = InputIds(x)
  BY <1>1, <1>2 DEF Story, Recalls
<1>4. TxHash(x) \notin txs /\ InputIds(x) \subseteq DOMAIN utxo
  BY <1>2 DEF RInv, Local, Current
<1>5. /\ utxo' = Replaced(x, new) /\ owner' = Reindexed(x, h, new)
      /\ txs' = txs \cup {TxHash(x)} /\ next' = next + Len(new)
      /\ Touch({c}, InputIds(x), {TxHash(x)}) /\ Notice(next .. next' - 1, FALSE)
  BY DEF Exec
<1>6. Table(utxo, next) /\ utxo \in Parts(tok)
  BY <1>1, UtxoTable DEF Story, Stands
<1> HIDE DEF x, h
<1>7. \A id \in InputIds(x) : h[id] = utxo[id]
  BY <1>3, <1>4, <1>6, PartsAgree
<1>8. (Intent(x, h) <=> Intent(x, utxo)) /\ Created(x, h) = Created(x, utxo)
  BY <1>3, <1>7, ReadsInputs
<1>9. utxo[x.inputs[1].token_id].currency \in Currencies
  <2>1. x.inputs[1].token_id \in InputIds(x)
    BY <1>3, TxShape
  <2>2. utxo[x.inputs[1].token_id] \in Token
    BY <1>4, <1>6, <2>1 DEF Table
  <2>3. QED BY <2>2 DEF Token
<1>10. /\ Created(x, utxo) \in Seq(Token) /\ Len(Created(x, utxo)) \in Nat \ {0}
       /\ \A i \in 1 .. Len(Created(x, utxo)) : Created(x, utxo)[i].amount > 0
  BY <1>3, <1>9, CreatedShape
<1>11. new = Created(x, utxo)
  BY <1>8
<1> HIDE DEF new
<1>12. utxo' = After(utxo, next, InputIds(x), new)
  BY <1>5 DEF Replaced, After
<1>13. Replaces(utxo, next, InputIds(x), new, utxo')
  BY <1>6, <1>10, <1>11, <1>12, AfterReplaces
<1>14. Checked(x)
  BY <1>3 DEF Checked
<1>15. Applies(c, x, new)
  BY <1>3, <1>4, <1>5, <1>6, <1>8, <1>10, <1>11, <1>13, <1>14 DEF Applies, h
<1>16. QED BY <1>15 DEF new, x, h

\* The story with the new tokens.
Continues(tok, n, new, tale) ==
  /\ Table(tale, n + Len(new)) /\ Grows(tok, tale)
  /\ \A i \in DOMAIN tale : Sound(tale[i])
  /\ DOMAIN tale = DOMAIN tok \cup (n .. n + Len(new) - 1)
  /\ \A i \in 1 .. Len(new) : tale[n + i - 1] = new[i]

LEMMA TaleContinues ==
  ASSUME NEW tok, NEW n, NEW new, Table(tok, n), \A i \in DOMAIN tok : Sound(tok[i]),
         new \in Seq(Token), \A i \in 1 .. Len(new) : new[i].amount > 0
  PROVE  Continues(tok, n, new, After(tok, n, {}, new))
<1> DEFINE tale == After(tok, n, {}, new)
           k == Len(new)
           P == n .. n + k - 1
<1>1. Replaces(tok, n, {}, new, tale)
  BY AfterReplaces
<1> HIDE DEF tale
<1>2. /\ DOMAIN tale = (DOMAIN tok \ {}) \cup P
      /\ \A i \in 1 .. k : tale[n + i - 1] = new[i]
      /\ \A id \in DOMAIN tok \ {} : tale[id] = tok[id]
      /\ Table(tale, n + k)
  BY <1>1 DEF Replaces
<1>3. n \in Nat /\ k \in Nat
  BY DEF Table
<1>4. Grows(tok, tale)
  BY <1>2 DEF Grows
<1>5. ASSUME NEW i \in DOMAIN tale PROVE Sound(tale[i])
  <2>1. CASE i \in DOMAIN tok
    BY <1>2, <2>1
  <2>2. CASE i \in P
    <3>1. i - n + 1 \in 1 .. k /\ n + (i - n + 1) - 1 = i
      BY <1>3, <2>2
    <3>2. tale[i] = new[i - n + 1]
      BY <1>2, <3>1
    <3>3. new[i - n + 1] \in Token /\ new[i - n + 1].amount > 0
      BY <3>1
    <3>4. QED BY <3>2, <3>3 DEF Sound
  <2>3. QED BY <1>2, <2>1, <2>2
<1>6. QED BY <1>2, <1>4, <1>5 DEF Continues, tale

\* The index after an EXEC: the new tokens are in, the inputs are out, and
\* nothing else changes.
LEMMA ReindexedIs ==
  ASSUME NEW x, NEW was, NEW new, NEW o \in Owners, NEW us, new \in Seq(Token), next \in Nat,
         \A i \in 1 .. Len(new) : us[next + i - 1] = new[i]
  PROVE  /\ owner[o] \ InputIds(x) \subseteq Reindexed(x, was, new)[o]
         /\ Reindexed(x, was, new)[o]
              \subseteq owner[o] \cup {id \in next .. next + Len(new) - 1 : us[id].owner = o}
         /\ {id \in next .. next + Len(new) - 1 : us[id].owner = o}
              \subseteq Reindexed(x, was, new)[o]
<1> DEFINE k == Len(new)
           F == {id \in next .. next + k - 1 : us[id].owner = o}
           G == {next + i - 1 : i \in {j \in DOMAIN new : new[j].owner = o}}
<1>1. Reindexed(x, was, new)[o] = (owner[o] \ {id \in InputIds(x) : was[id].owner = o}) \cup G
  BY DEF Reindexed
<1>2. DOMAIN new = 1 .. k /\ k \in Nat
  OBVIOUS
<1>3. ASSUME NEW i \in 1 .. k, new[i].owner = o PROVE next + i - 1 \in F
  <2>1. next + i - 1 \in next .. next + k - 1
    BY <1>2
  <2>2. us[next + i - 1] = new[i]
    OBVIOUS
  <2>3. QED BY <1>3, <2>1, <2>2
<1>4. ASSUME NEW id \in F PROVE id \in G
  <2>1. id - next + 1 \in 1 .. k /\ id = next + (id - next + 1) - 1
    BY <1>2
  <2>2. us[id] = new[id - next + 1]
    BY <2>1
  <2>3. id - next + 1 \in {j \in DOMAIN new : new[j].owner = o}
    BY <1>2, <2>1, <2>2
  <2>4. QED BY <2>1, <2>3
<1>5. G = F
  BY <1>2, <1>3, <1>4
<1> HIDE DEF F, G
<1>6. QED BY <1>1, <1>5 DEF F

LEMMA ExecInv ==
  ASSUME RInv, NEW c \in Clients, Exec(c)
  PROVE  RInv'
<1>1. CASE dirty[c]
  <2>1. /\ UNCHANGED <<store, next, dirty, must, quiet, strays>> /\ Finish(c)
        /\ UNCHANGED <<overdue, stage, copy, doomed, saved>>
    BY <1>1 DEF Exec
  <2>2. UNCHANGED <<store, next, overdue, operator, quiet, strays>>
    BY <2>1 DEF operator
  <2>3. QED BY <2>1, <2>2, LoseInv
<1>2. CASE ~ dirty[c]
  <2>1. PICK x, new : /\ x = req[c].tx /\ new = Created(req[c].tx, held[c])
                      /\ Applies(c, x, new)
    BY <1>2, ExecApplies
  <2> DEFINE I == InputIds(x)
             k == Len(new)
             P == next .. next + k - 1
  <2>2. /\ Finish(c) /\ UNCHANGED <<overdue, stage, copy, doomed, saved>>
    BY DEF Exec
  <2>3. /\ I \subseteq DOMAIN utxo /\ new \in Seq(Token) /\ k \in Nat
        /\ \A i \in 1 .. k : new[i].amount > 0
        /\ next \in Nat /\ DOMAIN utxo \subseteq 1 .. next - 1
        /\ DOMAIN utxo' = (DOMAIN utxo \ I) \cup P
        /\ utxo' = [id \in DOMAIN utxo' |-> utxo'[id]]
        /\ \A i \in 1 .. k : utxo'[next + i - 1] = new[i]
        /\ \A id \in DOMAIN utxo \ I : utxo'[id] = utxo[id]
        /\ owner' = Reindexed(x, held[c], new)
        /\ txs' = txs \cup {TxHash(x)}
        /\ next' = next + k
        /\ Touch({c}, I, {TxHash(x)})
        /\ Notice(next .. next' - 1, FALSE)
    BY <2>1 DEF Applies, Replaces, Table
  <2>4. Moves(c) /\ pc'[c] = "idle"
    BY <2>2, FinishMoves DEF RInv
  <2>5. PICK tok : Story(tok)
    BY DEF RInv
  <2>6. /\ Table(tok, next) /\ \A i \in DOMAIN tok : Sound(tok[i])
        /\ DOMAIN tok \subseteq 1 .. next - 1
    BY <2>5 DEF Story, Stands, Table
  <2>7. PICK tale : Continues(tok, next, new, tale)
    BY <2>3, <2>6, TaleContinues
  <2>8. /\ Table(tale, next') /\ Grows(tok, tale) /\ \A i \in DOMAIN tale : Sound(tale[i])
        /\ DOMAIN tale = DOMAIN tok \cup P
        /\ \A i \in 1 .. k : tale[next + i - 1] = new[i]
    BY <2>3, <2>7 DEF Continues
  <2>9. ASSUME NEW o \in Owners
        PROVE  /\ owner[o] \ I \subseteq owner'[o]
               /\ owner'[o] \subseteq owner[o] \cup {id \in P : utxo'[id].owner = o}
               /\ {id \in P : utxo'[id].owner = o} \subseteq owner'[o]
    BY <2>3, ReindexedIs
  <2>10. owner' = [o \in Owners |-> owner'[o]]
    BY <2>3 DEF Reindexed
  <2>11. \A id \in P : utxo'[id] = tale[id]
    <3>1. ASSUME NEW id \in P PROVE utxo'[id] = tale[id]
      <4>1. id - next + 1 \in 1 .. k /\ next + (id - next + 1) - 1 = id
        BY <2>3
      <4>2. QED BY <2>3, <2>8, <4>1
    <3>2. QED BY <3>1
  <2>12. P \cap (1 .. next - 1) = {} /\ next .. next' - 1 = P
    BY <2>3
  <2>13. /\ strays \subseteq strays' /\ strays' \subseteq strays \cup P
         /\ (Restoring => P \subseteq strays')
         /\ quiet' = (quiet /\ stage = "idle")
    BY <2>3, <2>12 DEF Notice
  <2> HIDE DEF I, k, P
  <2>14. utxo' \in Parts(tale)
    <3>1. utxo \in Parts(tok)
      BY <2>5 DEF Story, Stands
    <3>2. DOMAIN utxo \subseteq DOMAIN tok /\ \A id \in DOMAIN utxo : utxo[id] = tok[id]
      BY <3>1, PartsAgree
    <3>3. \A id \in DOMAIN utxo' : id \in DOMAIN tale /\ utxo'[id] = tale[id]
      BY <2>3, <2>8, <2>11, <3>2 DEF Grows
    <3>4. utxo' = [id \in DOMAIN utxo' |-> tale[id]] /\ DOMAIN utxo' \subseteq DOMAIN tale
      BY <2>3, <3>3
    <3>5. QED BY <3>4, PartsOf
  <2>15. Kinds'
    <3>1. dirty' \in [Clients -> BOOLEAN] /\ quiet' \in BOOLEAN
      BY <2>3, <2>13, TouchTypes
    <3>2. QED BY <2>2, <2>4, <3>1 DEF RInv, Kinds, Moves, Typed
  <2>16. Local'
    <3>1. ASSUME NEW d \in Clients \ {c}
          PROVE  Current(utxo', txs', strays', pc[d], req[d], held[d], dirty'[d])
      <4>1. Kinds /\ Local /\ d \in Clients /\ d \notin {c}
        BY DEF RInv
      <4>2. DOMAIN utxo \ DOMAIN utxo' \subseteq I /\ txs' \ txs \subseteq {TxHash(x)}
        BY <2>3
      <4>3. pc[d] = "srem" => held[d] \cap (DOMAIN utxo' \ DOMAIN utxo) \subseteq strays'
        <5>1. pc[d] = "srem" => held[d] \subseteq DOMAIN tok
          BY <2>5 DEF Story, Recalls
        <5>2. QED BY <2>3, <2>6, <2>12, <5>1
      <4>4. QED BY <2>3, <2>13, <4>1, <4>2, <4>3, StillCurrent
    <3>2. Current(utxo', txs', strays', pc'[c], req'[c], held'[c], dirty'[c])
      BY <2>4 DEF Current
    <3>3. \A d \in Clients \ {c} :
            Current(utxo', txs', strays', pc'[d], req'[d], held'[d], dirty'[d])
      BY <2>4, <3>1 DEF Moves
    <3>4. QED BY <3>2, <3>3 DEF Local
  <2>17. Apart'
    BY <2>4 DEF RInv, Apart, Moves
  <2>18. Covered'
    <3>1. ASSUME NEW id \in DOMAIN utxo' \ strays'
          PROVE  id \in owner'[utxo'[id].owner]
      <4>1. utxo'[id].owner \in Owners
        <5>1. id \in DOMAIN tale /\ utxo'[id] = tale[id]
          BY <2>14, PartsAgree
        <5>2. QED BY <2>8, <5>1 DEF Sound, Token
      <4>2. CASE id \in P
        BY <2>9, <4>1, <4>2
      <4>3. CASE id \in DOMAIN utxo \ I
        <5>1. utxo'[id] = utxo[id] /\ id \notin strays
          BY <2>3, <2>13, <4>3
        <5>2. id \in owner[utxo[id].owner]
          BY <4>3, <5>1 DEF RInv, Covered, Covers
        <5>3. QED BY <2>9, <4>1, <4>3, <5>1, <5>2
      <4>4. QED BY <2>3, <4>2, <4>3
    <3>2. Restoring' => DOMAIN utxo' \ doomed'.tokens \subseteq strays'
      <4>1. (Restoring' <=> Restoring) /\ doomed' = doomed
        BY <2>2 DEF Restoring
      <4>2. Restoring => DOMAIN utxo \ doomed.tokens \subseteq strays
        BY DEF RInv, Covered
      <4>3. QED BY <2>3, <2>13, <4>1, <4>2
    <3>3. QED BY <3>1, <3>2 DEF Covered, Covers
  <2>19. Operator'
    <3>1. Operates(stage', saved', doomed')
      BY <2>2 DEF RInv, Operator
    <3>2. quiet' => Undisturbed(stage', utxo', owner', txs', copy', must', doomed')
      BY <2>2, <2>13 DEF Undisturbed
    <3>3. QED BY <3>1, <3>2 DEF Operator
  <2>20. Story(tale)'
    <3>1. Parts(tok) \subseteq Parts(tale) /\ Seq(Parts(tok)) \subseteq Seq(Parts(tale))
      BY <2>8, PartsGrow
    <3>2. \A o \in Owners : owner'[o] \subseteq {id \in DOMAIN tale : tale[id].owner = o}
      <4>1. \A o \in Owners : owner[o] \subseteq {id \in DOMAIN tale : tale[id].owner = o}
        BY <2>5, <2>8 DEF Story, Stands, Grows
      <4>2. QED BY <2>8, <2>9, <2>11, <4>1
    <3>3. strays' \subseteq DOMAIN tale
      BY <2>5, <2>8, <2>13 DEF Story, Stands
    <3>4. Stands(tale, next', utxo', owner', copy', saved', strays')
      BY <2>2, <2>5, <2>8, <2>10, <2>14, <3>1, <3>2, <3>3 DEF Story, Stands
    <3>5. ASSUME NEW d \in Clients \ {c}
          PROVE  Recalls(tale, next', pc'[d], req'[d], held'[d])
      <4>1. Recalls(tok, next, pc[d], req[d], held[d])
        BY <2>5 DEF Story
      <4>2. pc[d] = "add" => req[d].id \notin DOMAIN tale
        <5>1. pc[d] = "add" => req[d].id \in 1 .. next - 1 /\ req[d].id \notin DOMAIN tok
          BY <4>1 DEF Recalls
        <5>2. QED BY <2>8, <2>12, <5>1
      <4>3. next \in Nat /\ next' \in Nat /\ next =< next' /\ Grows(tok, tale)
        BY <2>3, <2>8
      <4>4. Recalls(tale, next', pc[d], req[d], held[d])
        BY <4>1, <4>2, <4>3, RecallsStill
      <4>5. QED BY <2>4, <4>4 DEF Moves
    <3>6. Recalls(tale, next', pc'[c], req'[c], held'[c])
      BY <2>4 DEF Recalls
    <3>7. QED BY <3>4, <3>5, <3>6 DEF Story
  <2>21. QED BY <2>15, <2>16, <2>17, <2>18, <2>19, <2>20 DEF RInv
<1>3. QED BY <1>1, <1>2

----------------------------------------------------------------------------
(* The invariant holds *)

LEMMA StepInv == RInv /\ [Next]_vars => RInv'
<1> SUFFICES ASSUME RInv, [Next]_vars PROVE RInv'
  OBVIOUS
<1>1. ASSUME NEW c \in Clients,
             \/ Submit(c) \/ CheckReplay(c) \/ FetchInputs(c) \/ Exec(c)
             \/ StartAdd(c) \/ ExecAdd(c)
             \/ StartBalance(c) \/ SumTokens(c) \/ RemoveOrphans(c)
      PROVE  RInv'
  BY <1>1, SubmitInv, CheckReplayInv, FetchInputsInv, ExecInv, StartAddInv, ExecAddInv,
     StartBalanceInv, SumTokensInv, RemoveOrphansInv
<1>2. ASSUME NEW c \in Clients, Lose(c) PROVE RInv'
  BY <1>2, LoseInv DEF Lose
<1>3. ASSUME NEW gone \in txs, Forget(gone) PROVE RInv'
  BY <1>3, ForgetInv
<1>4. ASSUME NEW id \in DOMAIN Genesis, Expire(id) PROVE RInv'
  BY <1>4, ExpireInv
<1>5. ASSUME NEW id \in DOMAIN utxo, CopyKey(id) PROVE RInv'
  BY <1>5, CopyKeyInv
<1>6. ASSUME \/ StartSnapshot \/ EndSnapshot \/ StartRestore \/ ScanOwners \/ ScanTxs
             \/ RestoreAll \/ StopOperator
      PROVE  RInv'
  BY <1>6, StartSnapshotInv, EndSnapshotInv, StartRestoreInv, ScanOwnersInv, ScanTxsInv,
     RestoreAllInv, StopOperatorInv
<1>7. CASE UNCHANGED vars
  <2>1. /\ utxo' = utxo /\ owner' = owner /\ txs' = txs /\ next' = next /\ overdue' = overdue
        /\ pc' = pc /\ req' = req /\ held' = held /\ dirty' = dirty
        /\ stage' = stage /\ copy' = copy /\ must' = must /\ doomed' = doomed
        /\ saved' = saved /\ quiet' = quiet /\ strays' = strays
    BY <1>7 DEF vars, store, client, operator
  <2>2. Kinds' /\ Local' /\ Apart'
    BY <2>1 DEF RInv, Kinds, Local, Apart
  <2>3. Covered' /\ Operator'
    BY <2>1 DEF RInv, Covered, Operator, Restoring
  <2>4. PICK tok : Story(tok)
    BY DEF RInv
  <2>5. Story(tok)'
    BY <2>1, <2>4 DEF Story
  <2>6. QED BY <2>2, <2>3, <2>5 DEF RInv
<1>8. QED BY <1>1, <1>2, <1>3, <1>4, <1>5, <1>6, <1>7 DEF Next

LEMMA AlwaysRInv == Spec => []RInv
BY InitInv, StepInv, PTL DEF Spec

----------------------------------------------------------------------------
(* Theorems *)

\* The keys and what the clients hold are always well-typed, and every token
\* that process_transaction made is worth something.
THEOREM RedisTypes == Spec => []TypeOK
<1>1. RInv => TypeOK
  <2> SUFFICES ASSUME RInv PROVE TypeOK
    OBVIOUS
  <2>1. PICK tok : Story(tok)
    BY DEF RInv
  <2>2. /\ DOMAIN tok \subseteq 1 .. next - 1 /\ \A id \in DOMAIN tok : Sound(tok[id])
        /\ utxo \in Parts(tok) /\ saved \in Seq(Parts(tok)) /\ strays \subseteq DOMAIN tok
        /\ owner = [o \in Owners |-> owner[o]]
        /\ \A o \in Owners : owner[o] \subseteq DOMAIN tok
    BY <2>1 DEF Story, Stands, Table
  <2>3. DOMAIN utxo \subseteq DOMAIN tok /\ \A id \in DOMAIN utxo : utxo[id] = tok[id]
    BY <2>2, PartsAgree
  <2>4. \A i \in DOMAIN saved : DOMAIN saved[i] \subseteq DOMAIN tok
    <3>1. ASSUME NEW i \in DOMAIN saved PROVE DOMAIN saved[i] \subseteq DOMAIN tok
      <4>1. saved[i] \in Parts(tok)
        BY <2>2
      <4>2. QED BY <4>1, PartsAgree
    <3>2. QED BY <3>1
  <2>5. \A c \in Clients : pc[c] = "exec" => DOMAIN held[c] = InputIds(req[c].tx)
    BY <2>1 DEF Story, Recalls
  <2>6. owner \in [Owners -> SUBSET (1 .. next - 1)]
    BY <2>2
  <2>7. overdue \subseteq DOMAIN Genesis
    BY DEF RInv, Kinds
  <2>8. QED BY <2>2, <2>3, <2>4, <2>5, <2>6, <2>7 DEF TypeOK, Sound
<1>2. QED BY <1>1, AlwaysRInv, PTL

\* The set of an owner leads to no token of another owner, and misses only
\* tokens that came back after they were gone or came while a restore ran:
\* the repair in get_balance, which acts on what it read earlier, harms none.
THEOREM IndexLeadsToOwn == Spec => []IndexCovers
<1>1. RInv => IndexCovers
  <2> SUFFICES ASSUME RInv, NEW o \in Owners
               PROVE  LET own == {id \in DOMAIN utxo : utxo[id].owner = o}
                      IN  /\ owner[o] \cap DOMAIN utxo \subseteq own
                          /\ own \ strays \subseteq owner[o]
    BY DEF IndexCovers
  <2>1. PICK tok : Story(tok)
    BY DEF RInv
  <2>2. /\ utxo \in Parts(tok)
        /\ owner[o] \subseteq {id \in DOMAIN tok : tok[id].owner = o}
    BY <2>1 DEF Story, Stands
  <2>3. \A id \in DOMAIN utxo : utxo[id] = tok[id]
    BY <2>2, PartsAgree
  <2>4. \A id \in DOMAIN utxo \ strays : id \in owner[utxo[id].owner]
    BY DEF RInv, Covered, Covers
  <2>5. QED BY <2>2, <2>3, <2>4
<1>2. QED BY <1>1, AlwaysRInv, PTL

LEMMA SameCounting == \A S : U!Cardinality(S) = Cardinality(S)
BY DEF U!Cardinality, Cardinality

LEMMA SameSums == \A f : U!SumAmounts(f) = SumAmounts(f)
BY DEF U!SumAmounts, SumAmounts, U!MapThenSumSet, MapThenSumSet, U!MapThenFoldSet,
       MapThenFoldSet

\* UtxoLedger speaks of transactions in the words of UtxoTypes.
LEMMA SameWords ==
  ASSUME NEW x, NEW us
  PROVE  /\ U!Bounded(x) <=> Bounded(x)
         /\ U!Positive(x) <=> Positive(x)
         /\ U!NoDuplicates(x) <=> NoDuplicates(x)
         /\ U!InputIds(x) = InputIds(x)
         /\ U!Created(x, us) = Created(x, us)
         /\ U!Intent(x, us) <=> Intent(x, us)
<1>1. U!Bounded(x) <=> Bounded(x)
  BY DEF U!Bounded, Bounded
<1>2. U!Positive(x) <=> Positive(x)
  BY DEF U!Positive, Positive
<1>3. U!InputIds(x) = InputIds(x)
  BY DEF U!InputIds, InputIds
<1>4. U!NoDuplicates(x) <=> NoDuplicates(x)
  BY <1>3, SameCounting DEF U!NoDuplicates, NoDuplicates
<1>5. U!Created(x, us) = Created(x, us)
  BY DEF U!Created, Created, U!NewToken, NewToken
<1>6. U!Intent(x, us) <=> Intent(x, us)
  BY <1>3, SameSums DEF U!Intent, Intent
<1>7. QED BY <1>1, <1>2, <1>3, <1>4, <1>5, <1>6

\* An EXEC that is not refused is one step of the abstract ledger.
LEMMA AppliesTransacts ==
  ASSUME NEW c, NEW x, NEW new, Applies(c, x, new)
  PROVE  U!Transact(x)
<1> DEFINE I == InputIds(x)
           k == Len(new)
           D == DOMAIN utxo
           P == next .. next + k - 1
           came == DOMAIN utxo' \ DOMAIN utxo
           gone == U!InputIds(x)
           made == U!Created(x, utxo)
           place == [i \in 1 .. k |-> next + i - 1]
<1>1. /\ Checked(x) /\ I \subseteq D /\ Intent(x, utxo)
      /\ new = Created(x, utxo) /\ new \in Seq(Token) /\ k \in Nat \ {0}
      /\ Replaces(utxo, next, I, new, utxo') /\ next' = next + k
      /\ next \in Nat /\ next > Len(Genesis) /\ D \subseteq 1 .. next - 1
  BY DEF Applies, Table
<1>2. next > 0
  BY <1>1, GenesisSize
<1>3. /\ DOMAIN utxo' = (D \ I) \cup P
      /\ \A i \in 1 .. k : utxo'[next + i - 1] = new[i]
      /\ \A id \in D \ I : utxo'[id] = utxo[id]
  BY <1>1 DEF Replaces
<1>4. DOMAIN new = 1 .. k
  BY <1>1
<1>5. made = new /\ gone = I
  BY <1>1, SameWords
<1> HIDE DEF I, k, D, made, gone
<1>6. P \cap D = {} /\ P \cap (1 .. next - 1) = {}
  BY <1>1, <1>2
<1>7. came = P
  BY <1>3, <1>6 DEF D
<1>8. Cardinality(P) = k
  BY <1>1, <1>2, FS_Interval
<1>9. 1 .. next' - 1 = (1 .. next - 1) \cup P
  BY <1>1, <1>2
<1>10. place \in [1 .. k -> P] /\ \A i, j \in 1 .. k : place[i] = place[j] => i = j
  BY <1>1, <1>2
<1>11. \A i \in 1 .. k : utxo'[place[i]] = new[i]
  BY <1>3
<1> HIDE DEF place, P, came
<1>12. \E p \in [DOMAIN made -> came] :
         /\ \A i, j \in DOMAIN made : p[i] = p[j] => i = j
         /\ \A i \in DOMAIN made : utxo'[p[i]] = made[i]
  <2>1. \E p \in [DOMAIN new -> came] :
          /\ \A i, j \in DOMAIN new : p[i] = p[j] => i = j
          /\ \A i \in DOMAIN new : utxo'[p[i]] = new[i]
    BY <1>4, <1>7, <1>10, <1>11
  <2>2. QED BY <1>5, <2>1
<1>13. /\ gone \subseteq DOMAIN utxo
       /\ DOMAIN utxo' = (DOMAIN utxo \ gone) \cup came
       /\ \A id \in DOMAIN utxo \ gone : utxo'[id] = utxo[id]
  BY <1>1, <1>3, <1>5, <1>7 DEF D
<1>14. /\ came \cap (1 .. next - 1) = {} /\ U!Cardinality(came) = Len(made)
       /\ 1 .. next' - 1 = (1 .. next - 1) \cup came
  BY <1>5, <1>6, <1>7, <1>8, <1>9, SameCounting DEF k
<1>15. U!Bounded(x) /\ U!Positive(x) /\ U!NoDuplicates(x) /\ U!Intent(x, utxo)
  BY <1>1, SameWords DEF Checked
<1>16. QED BY <1>12, <1>13, <1>14, <1>15 DEF U!Transact, made, gone, came

\* Whatever others write between its round trips, a transaction takes effect
\* at one instant, is sound for the tokens of that instant, and was not
\* processed before.
THEOREM TransactionsTakeOneStep == Spec => TransactionsAtomic
<1> DEFINE Instant ==
      \A c \in Clients :
        pc[c] = "exec" /\ pc'[c] # "exec" /\ utxo' # utxo =>
          U!Transact(req[c].tx) /\ TxHash(req[c].tx) \notin txs
<1>1. RInv /\ [Next]_vars => [Instant]_vars
  <2> SUFFICES ASSUME RInv, Next, NEW c \in Clients,
                      pc[c] = "exec", pc'[c] # "exec", utxo' # utxo
               PROVE  U!Transact(req[c].tx) /\ TxHash(req[c].tx) \notin txs
    OBVIOUS
  <2>1. ASSUME NEW d \in Clients, Exec(d)
        PROVE  U!Transact(req[c].tx) /\ TxHash(req[c].tx) \notin txs
    <3>1. d = c
      <4>1. pc' = [pc EXCEPT ![d] = "idle"]
        BY <2>1 DEF Exec, Finish, Goto
      <4>2. QED BY <4>1 DEF RInv, Kinds
    <3>2. ~ dirty[d]
      BY <2>1 DEF Exec, store
    <3>3. Applies(c, req[c].tx, Created(req[c].tx, held[c]))
      BY <2>1, <3>1, <3>2, ExecApplies
    <3>4. QED BY <3>3, AppliesTransacts DEF Applies
  <2>2. ASSUME NEW d \in Clients, ExecAdd(d) PROVE FALSE
    <3>1. d # c
      BY <2>2 DEF ExecAdd
    <3>2. pc'[c] = pc[c]
      BY <2>2, <3>1 DEF ExecAdd, Finish, Goto, RInv, Kinds
    <3>3. QED BY <3>2
  <2>3. ASSUME NEW d \in Clients,
               \/ Submit(d) \/ CheckReplay(d) \/ FetchInputs(d) \/ StartAdd(d)
               \/ StartBalance(d) \/ SumTokens(d) \/ RemoveOrphans(d) \/ Lose(d)
        PROVE  FALSE
    BY <2>3 DEF Submit, CheckReplay, FetchInputs, StartAdd, StartBalance, SumTokens,
                RemoveOrphans, Lose, store
  <2>4. ASSUME NEW gone \in txs, Forget(gone) PROVE FALSE
    BY <2>4 DEF Forget
  <2>5. ASSUME NEW id \in DOMAIN Genesis, Expire(id) PROVE FALSE
    BY <2>5 DEF Expire, store
  <2>6. ASSUME NEW id \in DOMAIN utxo, CopyKey(id) PROVE FALSE
    BY <2>6 DEF CopyKey, store
  <2>7. ASSUME \/ StartSnapshot \/ EndSnapshot \/ StartRestore \/ ScanOwners \/ ScanTxs
               \/ StopOperator
        PROVE  FALSE
    BY <2>7 DEF StartSnapshot, EndSnapshot, StartRestore, ScanOwners, ScanTxs, StopOperator,
                store
  <2>8. ASSUME RestoreAll PROVE FALSE
    BY <2>8 DEF RestoreAll, client
  <2>9. QED BY <2>1, <2>2, <2>3, <2>4, <2>5, <2>6, <2>7, <2>8 DEF Next
<1>2. QED BY <1>1, AlwaysRInv, PTL DEF Spec, TransactionsAtomic

\* A table that agrees with the story and has the keys of another is the other.
LEMMA SamePart ==
  ASSUME NEW tok, NEW us \in Parts(tok), NEW vs \in Parts(tok), DOMAIN us = DOMAIN vs
  PROVE  us = vs
<1>1. us = [id \in DOMAIN us |-> tok[id]] /\ vs = [id \in DOMAIN vs |-> tok[id]]
  BY PartsOf
<1>2. QED BY <1>1

\* A snapshot that ends undisturbed is what the tokens are.
LEMMA QuietSnapshot ==
  ASSUME RInv, EndSnapshot, quiet
  PROVE  saved'[Len(saved')] = utxo
<1>1. stage = "scan" /\ must \subseteq DOMAIN copy /\ saved' = Append(saved, copy)
  BY DEF EndSnapshot
<1>2. DOMAIN copy = DOMAIN utxo
  BY <1>1 DEF RInv, Operator, Undisturbed
<1>3. PICK tok : Story(tok)
  BY DEF RInv
<1>4. copy \in Parts(tok) /\ utxo \in Parts(tok) /\ saved \in Seq(Parts(tok))
  BY <1>3 DEF Story, Stands
<1>5. copy = utxo
  BY <1>2, <1>4, SamePart
<1>6. saved'[Len(saved')] = copy
  BY <1>1, <1>4
<1>7. QED BY <1>5, <1>6

\* A restore that nobody disturbed leaves what its snapshot holds.
LEMMA QuietRestore ==
  ASSUME RInv, RestoreAll, quiet, stage = "exec"
  PROVE  utxo' = saved[Len(saved)] /\ txs' = {} /\ owner' = OwnedBy(utxo')
<1> DEFINE kept == saved[Len(saved)]
<1>1. /\ utxo' = [id \in (DOMAIN utxo \ doomed.tokens) \cup DOMAIN kept |->
                    IF id \in DOMAIN kept THEN kept[id] ELSE utxo[id]]
      /\ owner' = RestoredOwners(kept) /\ txs' = txs \ doomed.txs
  BY DEF RestoreAll
<1>2. /\ DOMAIN utxo \subseteq doomed.tokens /\ txs \subseteq doomed.txs
      /\ \A o \in Owners \ doomed.owners : owner[o] = {}
  BY DEF RInv, Operator, Undisturbed
<1>3. PICK tok : Story(tok)
  BY DEF RInv
<1>4. kept \in Parts(tok)
  <2>1. saved # <<>>
    BY DEF RInv, Operator, Operates
  <2>2. QED BY <1>3, <2>1, RestoresAPart
<1>5. kept = [id \in DOMAIN kept |-> tok[id]]
  BY <1>4, PartsOf
<1> HIDE DEF kept
<1>6. utxo' = [id \in DOMAIN kept |-> kept[id]]
  BY <1>1, <1>2
<1>7. utxo' = kept
  BY <1>5, <1>6
<1>8. owner' = OwnedBy(kept)
  <2>1. \A o \in Owners :
          (IF o \in doomed.owners THEN {} ELSE owner[o]) \cup OwnedBy(kept)[o]
            = {id \in DOMAIN kept : kept[id].owner = o}
    BY <1>2 DEF OwnedBy
  <2>2. QED BY <1>1, <2>1 DEF RestoredOwners, OwnedBy
<1>9. QED BY <1>1, <1>2, <1>7, <1>8 DEF kept

\* A snapshot during which nothing was written is exact, and so is a restore,
\* whose index and table of transactions fit the tokens that it leaves.
THEOREM CopiesAreExact == Spec => QuietCopies
<1> DEFINE Exact ==
      quiet /\ quiet' =>
        /\ saved' # saved => saved'[Len(saved')] = utxo
        /\ stage = "exec" /\ utxo' # utxo =>
             /\ utxo' = saved[Len(saved)] /\ txs' = {}
             /\ owner' = OwnedBy(utxo')
<1>1. RInv /\ [Next]_vars => [Exact]_vars
  <2> SUFFICES ASSUME RInv, Next, quiet, quiet' PROVE Exact
    OBVIOUS
  <2>1. ASSUME NEW c \in Clients, Exec(c) \/ ExecAdd(c) PROVE Exact
    <3>1. saved' = saved /\ (utxo' = utxo \/ stage = "idle")
      BY <2>1 DEF Exec, ExecAdd, Notice, operator, store
    <3>2. QED BY <3>1
  <2>2. ASSUME NEW c \in Clients,
               \/ Submit(c) \/ CheckReplay(c) \/ FetchInputs(c) \/ StartAdd(c)
               \/ StartBalance(c) \/ SumTokens(c) \/ RemoveOrphans(c) \/ Lose(c)
        PROVE  Exact
    BY <2>2 DEF Submit, CheckReplay, FetchInputs, StartAdd, StartBalance, SumTokens,
                RemoveOrphans, Lose, store, operator
  <2>3. ASSUME NEW gone \in txs, Forget(gone) PROVE Exact
    BY <2>3 DEF Forget, operator
  <2>4. ASSUME NEW id \in DOMAIN Genesis, Expire(id) PROVE Exact
    BY <2>4 DEF Expire, store, operator
  <2>5. ASSUME NEW id \in DOMAIN utxo, CopyKey(id) PROVE Exact
    BY <2>5 DEF CopyKey, store
  <2>6. ASSUME \/ StartSnapshot \/ StartRestore \/ ScanOwners \/ ScanTxs \/ StopOperator
        PROVE  Exact
    BY <2>6 DEF StartSnapshot, StartRestore, ScanOwners, ScanTxs, StopOperator, store
  <2>7. ASSUME EndSnapshot PROVE Exact
    <3>1. utxo' = utxo
      BY <2>7 DEF EndSnapshot, store
    <3>2. QED BY <2>7, <3>1, QuietSnapshot
  <2>8. ASSUME RestoreAll PROVE Exact
    <3>1. saved' = saved
      BY <2>8 DEF RestoreAll
    <3>2. QED BY <2>8, <3>1, QuietRestore
  <2>9. QED BY <2>1, <2>2, <2>3, <2>4, <2>5, <2>6, <2>7, <2>8 DEF Next
<1>2. QED BY <1>1, AlwaysRInv, PTL DEF Spec, QuietCopies
============================================================================
