------------------------ MODULE MemoryLedger_proofs ------------------------
(***************************************************************************)
(* Proofs about the in-memory ledger: although a thread reads its inputs,  *)
(* judges them and replaces them in three steps, a token is spent once,    *)
(* the index never disagrees with the tokens, and no value is lost.        *)
(***************************************************************************)
EXTENDS MemoryLedger, UtxoLemmas

----------------------------------------------------------------------------
(* The invariant *)

Labels == {"idle", "fetch", "validate", "apply"}
Verdicts == {"NONE", "APPLIED", "INVALID", "DOUBLE_SPEND", "ERROR"}

\* What a token that is not of the beginning is worth.
Positives(us) == \A id \in DOMAIN us : id \in DOMAIN Genesis \/ us[id].amount > 0

Index(us) == [o \in Owners |-> {id \in DOMAIN us : us[id].owner = o}]

\* The dictionaries.
Stored(us, oi, done, n) ==
  /\ Table(us, n) /\ Positives(us)
  /\ oi = Index(us)
  /\ done \in Seq({TxHash(x) : x \in Txs}) /\ Len(done) =< MAX_HISTORY_SIZE

Shape ==
  /\ Stored(utxos, owner_index, processed_txs, next)
  /\ overdue \subseteq DOMAIN Genesis
  /\ pc \in [Threads -> Labels]
  /\ tx \in [Threads -> Txs \cup {NoTx}]
  /\ fetched = [t \in Threads |-> fetched[t]]
  /\ outcome \in [Threads -> Verdicts]

\* What a thread knows.  The inputs that it has read were tokens once and,
\* as far as they still are, they are the same; what it has spent is gone.
Knows(us, n, label, x, read, verdict) ==
  /\ label # "idle" => Checked(x) /\ verdict = "NONE"
  /\ label \in {"validate", "apply"} =>
       /\ InputIds(x) \subseteq 1 .. n - 1
       /\ \A id \in InputIds(x) : read[id] \in Token
       /\ \A id \in InputIds(x) \cap DOMAIN us : read[id] = us[id]
  /\ label = "apply" => Intent(x, read)
  /\ verdict = "APPLIED" =>
       x \in Txs /\ InputIds(x) \subseteq 1 .. n - 1 /\ InputIds(x) \cap DOMAIN us = {}

Local == \A t \in Threads : Knows(utxos, next, pc[t], tx[t], fetched[t], outcome[t])

\* No two threads have spent the same token.
Apart ==
  \A t, u \in Threads :
    t # u /\ outcome[t] = "APPLIED" /\ outcome[u] = "APPLIED" =>
      InputIds(tx[t]) \cap InputIds(tx[u]) = {}

\* In each currency the tokens are worth what they were at the beginning.
Kept == \A c \in Currencies : Worth(utxos, c) = Worth(Genesis, c)

LInv == Shape /\ Local /\ Apart /\ Kept

----------------------------------------------------------------------------
(* Tables that advance *)

LEMMA StaysAsItIs ==
  ASSUME NEW us, NEW n, Table(us, n)
  PROVE  Advances(us, n, us, n)
<1>1. n \in Nat
  BY DEF Table
<1>2. QED BY <1>1 DEF Advances

LEMMA LongerInterval ==
  ASSUME NEW n \in Nat, NEW m \in Nat, n =< m
  PROVE  1 .. n - 1 \subseteq 1 .. m - 1
OBVIOUS

\* What a thread knows stays true when another one replaces tokens.
LEMMA KnowsStill ==
  ASSUME NEW us, NEW n, NEW vs, NEW m, NEW label, NEW x, NEW read, NEW verdict,
         Table(us, n), Advances(us, n, vs, m), Knows(us, n, label, x, read, verdict)
  PROVE  Knows(vs, m, label, x, read, verdict)
<1>1. n \in Nat /\ m \in Nat /\ n =< m
  BY DEF Table, Advances
<1>2. 1 .. n - 1 \subseteq 1 .. m - 1
  BY <1>1
<1>3. ASSUME InputIds(x) \subseteq 1 .. n - 1
      PROVE  /\ InputIds(x) \subseteq 1 .. m - 1
             /\ InputIds(x) \cap DOMAIN vs \subseteq DOMAIN us
             /\ \A id \in InputIds(x) \cap DOMAIN vs : vs[id] = us[id]
  BY <1>2, <1>3 DEF Advances
<1>4. label \in {"validate", "apply"} =>
        /\ InputIds(x) \subseteq 1 .. m - 1
        /\ \A id \in InputIds(x) : read[id] \in Token
        /\ \A id \in InputIds(x) \cap DOMAIN vs : read[id] = vs[id]
  BY <1>3 DEF Knows
<1>5. verdict = "APPLIED" =>
        x \in Txs /\ InputIds(x) \subseteq 1 .. m - 1 /\ InputIds(x) \cap DOMAIN vs = {}
  BY <1>3 DEF Knows
<1>6. QED BY <1>4, <1>5 DEF Knows

\* Only thread t changes.
Alone(t) ==
  /\ pc' \in [Threads -> Labels] /\ tx' \in [Threads -> Txs \cup {NoTx}]
  /\ outcome' \in [Threads -> Verdicts]
  /\ fetched' = [u \in Threads |-> fetched'[u]]
  /\ \A u \in Threads \ {t} : /\ pc'[u] = pc[u] /\ tx'[u] = tx[u]
                              /\ fetched'[u] = fetched[u] /\ outcome'[u] = outcome[u]

\* It is enough to look at the thread that moved.
LEMMA OthersKnow ==
  ASSUME NEW t \in Threads, Shape, Local, Alone(t), Advances(utxos, next, utxos', next'),
         Knows(utxos', next', pc'[t], tx'[t], fetched'[t], outcome'[t])
  PROVE  Local'
<1>1. Table(utxos, next)
  BY DEF Shape, Stored
<1>2. ASSUME NEW u \in Threads
      PROVE  Knows(utxos', next', pc'[u], tx'[u], fetched'[u], outcome'[u])
  <2>1. CASE u = t
    BY <2>1
  <2>2. CASE u # t
    <3>1. Knows(utxos, next, pc[u], tx[u], fetched[u], outcome[u])
      BY DEF Local
    <3>2. Knows(utxos', next', pc[u], tx[u], fetched[u], outcome[u])
      BY <1>1, <3>1, KnowsStill
    <3>3. /\ pc'[u] = pc[u] /\ tx'[u] = tx[u]
          /\ fetched'[u] = fetched[u] /\ outcome'[u] = outcome[u]
      BY <2>2 DEF Alone
    <3>4. QED BY <3>2, <3>3
  <2>3. QED BY <2>1, <2>2
<1>3. QED BY <1>2 DEF Local

\* A step of t that leaves the dictionaries alone and applies nothing.
LEMMA QuietStep ==
  ASSUME NEW t \in Threads, LInv, Alone(t), UNCHANGED <<ledger, overdue>>,
         Knows(utxos, next, pc'[t], tx'[t], fetched'[t], outcome'[t]),
         outcome'[t] # "APPLIED"
  PROVE  LInv'
<1>1. utxos' = utxos /\ owner_index' = owner_index /\ processed_txs' = processed_txs
      /\ next' = next /\ overdue' = overdue
  BY DEF ledger
<1>2. Shape'
  BY <1>1 DEF LInv, Shape, Alone
<1>3. Local'
  <2>1. Advances(utxos, next, utxos, next)
    BY StaysAsItIs DEF LInv, Shape, Stored
  <2>2. QED BY <1>1, <2>1, OthersKnow DEF LInv
<1>4. Apart'
  BY DEF LInv, Apart, Alone
<1>5. Kept'
  BY <1>1 DEF LInv, Kept
<1>6. QED BY <1>2, <1>3, <1>4, <1>5 DEF LInv

\* Finish, when the verdict is not that the transaction was applied.
LEMMA Refuses ==
  ASSUME NEW t \in Threads, NEW v \in Verdicts \ {"APPLIED"}, Shape, Finish(t, v),
         UNCHANGED tx \/ \E x \in Txs : tx' = [tx EXCEPT ![t] = x]
  PROVE  /\ Alone(t) /\ outcome'[t] # "APPLIED"
         /\ Knows(utxos, next, pc'[t], tx'[t], fetched'[t], outcome'[t])
<1>1. pc' = [pc EXCEPT ![t] = "idle"] /\ outcome' = [outcome EXCEPT ![t] = v]
      /\ fetched' = [fetched EXCEPT ![t] = <<>>]
  BY DEF Finish, Goto
<1>2. /\ pc \in [Threads -> Labels] /\ tx \in [Threads -> Txs \cup {NoTx}]
      /\ outcome \in [Threads -> Verdicts]
  BY DEF Shape
<1>3. DOMAIN fetched = Threads
  BY DEF Shape
<1>4. tx' \in [Threads -> Txs \cup {NoTx}] /\ \A u \in Threads \ {t} : tx'[u] = tx[u]
  BY <1>2
<1>5. pc'[t] = "idle" /\ outcome'[t] = v /\ pc' \in [Threads -> Labels]
      /\ outcome' \in [Threads -> Verdicts]
  BY <1>1, <1>2 DEF Labels
<1>6. fetched' = [u \in Threads |-> fetched'[u]]
      /\ \A u \in Threads \ {t} : fetched'[u] = fetched[u]
  BY <1>1, <1>3
<1>7. Alone(t)
  BY <1>1, <1>2, <1>4, <1>5, <1>6 DEF Alone
<1>8. QED BY <1>5, <1>7 DEF Knows

----------------------------------------------------------------------------
(* The steps *)

LEMMA InitInv == Init => LInv
<1> SUFFICES ASSUME Init PROVE LInv
  OBVIOUS
<1>1. Table(utxos, next)
  BY TableGenesis DEF Init
<1>2. Stored(utxos, owner_index, processed_txs, next)
  <2>1. Positives(utxos) /\ owner_index = Index(utxos)
    BY DEF Init, Positives, Index
  <2>2. processed_txs \in Seq({TxHash(x) : x \in Txs}) /\ Len(processed_txs) = 0
    BY DEF Init
  <2>3. QED BY <1>1, <2>1, <2>2, HistoryAssumption DEF Stored
<1>3. Shape
  BY <1>2 DEF Init, Shape, Labels, Verdicts
<1>4. Local
  BY DEF Init, Local, Knows
<1>5. Apart
  BY DEF Init, Apart
<1>6. Kept
  BY DEF Init, Kept
<1>7. QED BY <1>3, <1>4, <1>5, <1>6 DEF LInv

LEMMA SubmitInv ==
  ASSUME LInv, NEW t \in Threads, Submit(t)
  PROVE  LInv'
<1>1. PICK x \in Txs :
        /\ tx' = [tx EXCEPT ![t] = x]
        /\ IF ~ (Bounded(x) /\ Positive(x)) THEN Finish(t, "INVALID")
           ELSE IF ~ Serialisable(x) THEN Finish(t, "ERROR")
           ELSE IF ~ Identified(x) \/ ~ NoDuplicates(x) THEN Finish(t, "INVALID")
           ELSE /\ Goto(t, "fetch")
                /\ outcome' = [outcome EXCEPT ![t] = "NONE"]
                /\ UNCHANGED fetched
  BY DEF Submit
<1>2. UNCHANGED <<ledger, overdue>> /\ Shape
  BY DEF Submit, LInv
<1>3. CASE Finish(t, "INVALID") \/ Finish(t, "ERROR")
  <2>1. PICK v \in {"INVALID", "ERROR"} : Finish(t, v)
    BY <1>3
  <2>2. v \in Verdicts \ {"APPLIED"}
    BY DEF Verdicts
  <2>3. QED BY <1>1, <1>2, <2>1, <2>2, Refuses, QuietStep
<1>4. CASE /\ Checked(x) /\ Goto(t, "fetch") /\ UNCHANGED fetched
           /\ outcome' = [outcome EXCEPT ![t] = "NONE"]
  <2>1. Alone(t) /\ pc'[t] = "fetch" /\ tx'[t] = x /\ outcome'[t] = "NONE"
    BY <1>1, <1>2, <1>4 DEF Alone, Goto, Shape, Labels, Verdicts
  <2>2. Knows(utxos, next, pc'[t], tx'[t], fetched'[t], outcome'[t])
    BY <1>4, <2>1 DEF Knows
  <2>3. QED BY <1>2, <2>1, <2>2, QuietStep
<1>5. QED BY <1>1, <1>3, <1>4 DEF Checked

LEMMA FetchInv ==
  ASSUME LInv, NEW t \in Threads, FetchInputs(t)
  PROVE  LInv'
<1> DEFINE x == tx[t]
           f == [id \in InputIds(x) |-> utxos[id]]
<1>1. /\ pc[t] = "fetch" /\ UNCHANGED <<ledger, overdue>> /\ UNCHANGED tx /\ Shape
      /\ Table(utxos, next)
  BY DEF FetchInputs, LInv, Shape, Stored
<1>2. Checked(x) /\ outcome[t] = "NONE"
  BY <1>1 DEF LInv, Local, Knows
<1>3. CASE Finish(t, "INVALID") \/ Finish(t, "DOUBLE_SPEND")
  <2>1. PICK v \in {"INVALID", "DOUBLE_SPEND"} : Finish(t, v)
    BY <1>3
  <2>2. v \in Verdicts \ {"APPLIED"}
    BY DEF Verdicts
  <2>3. QED BY <1>1, <2>1, <2>2, Refuses, QuietStep
<1>4. CASE /\ InputIds(x) \subseteq DOMAIN utxos /\ fetched' = [fetched EXCEPT ![t] = f]
           /\ Goto(t, "validate") /\ UNCHANGED outcome
  <2>1. Alone(t) /\ pc'[t] = "validate" /\ tx'[t] = x /\ outcome'[t] = "NONE"
        /\ fetched'[t] = f
    <3>1. DOMAIN fetched = Threads
      BY <1>1 DEF Shape
    <3> HIDE DEF f
    <3>2. fetched' = [u \in Threads |-> fetched'[u]] /\ fetched'[t] = f
          /\ \A u \in Threads \ {t} : fetched'[u] = fetched[u]
      BY <1>4, <3>1
    <3>3. QED BY <1>1, <1>2, <1>4, <3>2 DEF Alone, Goto, Shape, Labels, Verdicts
  <2>2. \A id \in InputIds(x) : f[id] = utxos[id] /\ utxos[id] \in Token
    BY <1>1, <1>4 DEF Table
  <2>3. InputIds(x) \subseteq 1 .. next - 1
    BY <1>1, <1>4 DEF Table
  <2> HIDE DEF x, f
  <2>4. Knows(utxos, next, pc'[t], tx'[t], fetched'[t], outcome'[t])
    BY <1>2, <2>1, <2>2, <2>3 DEF Knows
  <2>5. QED BY <1>1, <2>1, <2>4, QuietStep
<1>5. QED BY <1>3, <1>4 DEF FetchInputs

LEMMA ValidateInv ==
  ASSUME LInv, NEW t \in Threads, ValidateIntent(t)
  PROVE  LInv'
<1>1. pc[t] = "validate" /\ UNCHANGED <<ledger, overdue>> /\ UNCHANGED tx /\ Shape
  BY DEF ValidateIntent, LInv
<1>2. CASE Finish(t, "INVALID")
  <2>1. "INVALID" \in Verdicts \ {"APPLIED"}
    BY DEF Verdicts
  <2>2. QED BY <1>1, <1>2, <2>1, Refuses, QuietStep
<1>3. CASE Intent(tx[t], fetched[t]) /\ Goto(t, "apply") /\ UNCHANGED <<outcome, fetched>>
  <2>1. Alone(t) /\ pc'[t] = "apply" /\ tx'[t] = tx[t]
        /\ outcome'[t] = outcome[t] /\ fetched'[t] = fetched[t]
    BY <1>1, <1>3 DEF Alone, Goto, Shape, Labels
  <2>2. Knows(utxos, next, pc[t], tx[t], fetched[t], outcome[t])
    BY DEF LInv, Local
  <2>3. /\ Knows(utxos, next, pc'[t], tx'[t], fetched'[t], outcome'[t])
        /\ outcome'[t] # "APPLIED"
    BY <1>1, <1>3, <2>1, <2>2 DEF Knows
  <2>4. QED BY <1>1, <2>1, <2>3, QuietStep
<1>4. QED BY <1>2, <1>3 DEF ValidateIntent

LEMMA ExpireInv ==
  ASSUME LInv, NEW id \in DOMAIN Genesis, Expire(id)
  PROVE  LInv'
<1>1. /\ utxos' = utxos /\ owner_index' = owner_index /\ processed_txs' = processed_txs
      /\ next' = next /\ pc' = pc /\ tx' = tx /\ fetched' = fetched /\ outcome' = outcome
      /\ overdue' = overdue \cup {id}
  BY DEF Expire, ledger
<1>2. QED BY <1>1 DEF LInv, Shape, Local, Apart, Kept

----------------------------------------------------------------------------
(* The second critical section *)

\* The history gains the transaction and keeps its bound.
LEMMA RememberBounded ==
  ASSUME NEW x \in Txs, processed_txs \in Seq({TxHash(y) : y \in Txs}),
         Len(processed_txs) =< MAX_HISTORY_SIZE
  PROVE  /\ Remember(x) \in Seq({TxHash(y) : y \in Txs})
         /\ Len(Remember(x)) =< MAX_HISTORY_SIZE
<1> DEFINE H == {TxHash(y) : y \in Txs}
           h == TxHash(x)
           all == Append(processed_txs, h)
<1>1. h \in H
  OBVIOUS
<1> HIDE DEF H, h
<1>2. /\ all \in Seq(H) /\ Len(all) = Len(processed_txs) + 1 /\ Len(processed_txs) \in Nat
      /\ Tail(all) \in Seq(H) /\ Len(Tail(all)) = Len(processed_txs)
  <2>1. processed_txs \in Seq(H)
    BY DEF H
  <2>2. QED BY <1>1, <2>1
<1>3. Remember(x) = IF Len(all) > MAX_HISTORY_SIZE THEN Tail(all) ELSE all
  BY DEF Remember, h
<1> HIDE DEF all
<1>4. QED BY <1>2, <1>3, HistoryAssumption DEF H

\* What there is in the new table, for the owner of each token.
LEMMA ReindexedExact ==
  ASSUME NEW x, NEW new, NEW vs, Replaces(utxos, next, InputIds(x), new, vs),
         new \in Seq(Token), next \in Nat, owner_index = Index(utxos)
  PROVE  Reindexed(x, new) = Index(vs)
<1>1. ASSUME NEW o \in Owners
      PROVE  (owner_index[o] \ InputIds(x))
               \cup {next + i - 1 : i \in {j \in DOMAIN new : new[j].owner = o}}
             = {id \in DOMAIN vs : vs[id].owner = o}
  <2> DEFINE k == Len(new)
             P == next .. next + k - 1
             A == {next + i - 1 : i \in {j \in DOMAIN new : new[j].owner = o}}
             B == {id \in DOMAIN vs : vs[id].owner = o}
             O == owner_index[o] \ InputIds(x)
  <2>1. k \in Nat /\ DOMAIN new = 1 .. k
    OBVIOUS
  <2>2. /\ DOMAIN vs = (DOMAIN utxos \ InputIds(x)) \cup P
        /\ \A i \in 1 .. k : vs[next + i - 1] = new[i]
        /\ \A id \in DOMAIN utxos \ InputIds(x) : vs[id] = utxos[id]
    BY DEF Replaces
  <2>3. O = {id \in DOMAIN utxos \ InputIds(x) : utxos[id].owner = o}
    BY DEF Index
  <2>4. \A id \in A : id \in B
    <3>1. ASSUME NEW i \in 1 .. k, new[i].owner = o
          PROVE  next + i - 1 \in P /\ vs[next + i - 1].owner = o
      BY <2>1, <2>2, <3>1
    <3>2. QED BY <2>1, <2>2, <3>1
  <2>5. \A id \in O : id \in B
    BY <2>2, <2>3
  <2>6. \A id \in B : id \in O \/ id \in A
    <3>1. ASSUME NEW id \in P, vs[id].owner = o PROVE id \in A
      <4>1. id - next + 1 \in 1 .. k /\ next + (id - next + 1) - 1 = id
        BY <2>1
      <4>2. new[id - next + 1].owner = o
        BY <2>2, <3>1, <4>1
      <4>3. QED BY <2>1, <4>1, <4>2
    <3> HIDE DEF P, A, O
    <3>2. QED BY <2>2, <2>3, <3>1
  <2> HIDE DEF A, B, O
  <2>7. O \cup A = B
    BY <2>4, <2>5, <2>6
  <2>8. QED BY <2>7 DEF O, A, B
<1>2. QED BY <1>1 DEF Reindexed, Index, FirstNewId

\* What a thread changes when its transaction is applied.
Applies(t) ==
  LET x   == tx[t]
      new == Created(x, utxos)
  IN  /\ Checked(x) /\ InputIds(x) \subseteq DOMAIN utxos /\ Intent(x, utxos)
      /\ new \in Seq(Token) /\ Len(new) \in Nat \ {0}
      /\ \A i \in 1 .. Len(new) : new[i].amount > 0
      /\ utxos' = After(utxos, next, InputIds(x), new)
      /\ Replaces(utxos, next, InputIds(x), new, utxos')
      /\ owner_index' = Reindexed(x, new)
      /\ processed_txs' = Remember(x)
      /\ next' = next + Len(new)
      /\ Finish(t, "APPLIED")

\* Its inputs are still there, so they are what it read: what it judged and
\* what it makes of them is right for the tokens that there are.
LEMMA ApplyIs ==
  ASSUME LInv, NEW t \in Threads, ApplyTransaction(t)
  PROVE  /\ UNCHANGED <<overdue, tx>>
         /\ \/ Applies(t)
            \/ Finish(t, "DOUBLE_SPEND") /\ UNCHANGED ledger
<1> DEFINE x == tx[t]
<1>1. pc[t] = "apply" /\ UNCHANGED <<overdue, tx>> /\ Table(utxos, next)
  BY DEF ApplyTransaction, LInv, Shape, Stored
<1>2. Knows(utxos, next, pc[t], x, fetched[t], outcome[t])
  BY DEF LInv, Local
<1>3. Checked(x) /\ Intent(x, fetched[t])
  BY <1>1, <1>2 DEF Knows
<1>4. CASE Processed(x) \/ ~ StillThere(x)
  BY <1>1, <1>4 DEF ApplyTransaction
<1>5. CASE ~ (Processed(x) \/ ~ StillThere(x))
  <2> DEFINE new == Created(x, fetched[t])
  <2>1. /\ utxos' = Replaced(x, new) /\ owner_index' = Reindexed(x, new)
        /\ processed_txs' = Remember(x) /\ next' = next + Len(new) /\ Finish(t, "APPLIED")
        /\ InputIds(x) \subseteq DOMAIN utxos
    BY <1>5 DEF ApplyTransaction, StillThere
  <2>2. \A id \in InputIds(x) : fetched[t][id] = utxos[id]
    BY <1>1, <1>2, <2>1 DEF Knows
  <2>3. new = Created(x, utxos) /\ Intent(x, utxos)
    <3>1. x \in Txs /\ Bounded(x) /\ Intent(x, fetched[t])
      BY <1>3 DEF Checked
    <3> HIDE DEF x
    <3>2. QED BY <2>2, <3>1, ReadsInputs
  <2>4. utxos[x.inputs[1].token_id].currency \in Currencies
    <3>1. x.inputs[1].token_id \in InputIds(x)
      BY <1>3, TxShape DEF Checked
    <3>2. utxos[x.inputs[1].token_id] \in Token
      BY <1>1, <2>1, <3>1 DEF Table
    <3>3. QED BY <3>2 DEF Token
  <2> HIDE DEF x
  <2>5. /\ Created(x, utxos) \in Seq(Token) /\ Len(Created(x, utxos)) \in Nat \ {0}
        /\ \A i \in 1 .. Len(Created(x, utxos)) : Created(x, utxos)[i].amount > 0
    BY <1>3, <2>4, CreatedShape DEF Checked
  <2> HIDE DEF new
  <2>6. utxos' = After(utxos, next, InputIds(x), new)
    BY <2>1 DEF Replaced, After, FirstNewId
  <2>7. Replaces(utxos, next, InputIds(x), new, utxos')
    BY <1>1, <2>3, <2>5, <2>6, AfterReplaces
  <2>8. Applies(t)
    BY <1>3, <2>1, <2>3, <2>5, <2>6, <2>7 DEF Applies, x
  <2>9. QED BY <1>1, <2>8
<1>6. QED BY <1>4, <1>5

LEMMA ApplyInv ==
  ASSUME LInv, NEW t \in Threads, ApplyTransaction(t)
  PROVE  LInv'
<1>1. UNCHANGED <<overdue, tx>> /\ Shape /\ Table(utxos, next)
  BY ApplyIs DEF LInv, Shape, Stored
<1>2. CASE Finish(t, "DOUBLE_SPEND") /\ UNCHANGED ledger
  <2>1. "DOUBLE_SPEND" \in Verdicts \ {"APPLIED"}
    BY DEF Verdicts
  <2>2. QED BY <1>1, <1>2, <2>1, Refuses, QuietStep
<1>3. CASE Applies(t)
  <2> DEFINE x == tx[t]
             I == InputIds(x)
             new == Created(x, utxos)
  <2>1. /\ Checked(x) /\ I \subseteq DOMAIN utxos /\ Intent(x, utxos)
        /\ new \in Seq(Token) /\ Len(new) \in Nat \ {0}
        /\ \A i \in 1 .. Len(new) : new[i].amount > 0
        /\ Replaces(utxos, next, I, new, utxos')
        /\ utxos' = After(utxos, next, I, new)
        /\ owner_index' = Reindexed(x, new)
        /\ processed_txs' = Remember(x)
        /\ next' = next + Len(new)
        /\ Finish(t, "APPLIED")
    BY <1>3 DEF Applies
  <2> HIDE DEF x, I, new
  <2>2. /\ DOMAIN utxos' = (DOMAIN utxos \ I) \cup (next .. next + Len(new) - 1)
        /\ \A i \in 1 .. Len(new) : utxos'[next + i - 1] = new[i]
        /\ \A id \in DOMAIN utxos \ I : utxos'[id] = utxos[id]
        /\ Table(utxos', next') /\ Advances(utxos, next, utxos', next')
    BY <2>1 DEF Replaces
  <2>3. /\ next \in Nat /\ next' \in Nat /\ next =< next' /\ DOMAIN utxos \subseteq 1 .. next - 1
        /\ Positives(utxos) /\ owner_index = Index(utxos)
        /\ processed_txs \in Seq({TxHash(y) : y \in Txs})
        /\ Len(processed_txs) =< MAX_HISTORY_SIZE
    BY <1>1, <2>1 DEF Table, Shape, Stored
  <2>4. Positives(utxos')
    <3>1. ASSUME NEW id \in DOMAIN utxos'
          PROVE  id \in DOMAIN Genesis \/ utxos'[id].amount > 0
      <4>1. CASE id \in DOMAIN utxos \ I
        BY <2>2, <2>3, <4>1 DEF Positives
      <4>2. CASE id \in next .. next + Len(new) - 1
        <5>1. id - next + 1 \in 1 .. Len(new) /\ next + (id - next + 1) - 1 = id
          BY <2>1, <2>3, <4>2
        <5>2. QED BY <2>1, <2>2, <5>1
      <4>3. QED BY <2>2, <4>1, <4>2
    <3>2. QED BY <3>1 DEF Positives
  <2>5. owner_index' = Index(utxos')
    BY <2>1, <2>3, ReindexedExact DEF I
  <2>6. /\ processed_txs' \in Seq({TxHash(y) : y \in Txs})
        /\ Len(processed_txs') =< MAX_HISTORY_SIZE
    BY <2>1, <2>3, RememberBounded DEF Checked
  <2>7. /\ Alone(t) /\ pc'[t] = "idle" /\ tx'[t] = x /\ outcome'[t] = "APPLIED"
        /\ pc' \in [Threads -> Labels] /\ outcome' \in [Threads -> Verdicts]
        /\ fetched' = [u \in Threads |-> fetched'[u]]
    <3>1. /\ pc' = [pc EXCEPT ![t] = "idle"] /\ outcome' = [outcome EXCEPT ![t] = "APPLIED"]
          /\ fetched' = [fetched EXCEPT ![t] = <<>>]
      BY <2>1 DEF Finish, Goto
    <3>2. DOMAIN fetched = Threads
      BY <1>1 DEF Shape
    <3>3. QED BY <1>1, <3>1, <3>2 DEF Alone, Shape, Labels, Verdicts, x
  <2>8. Shape'
    <3>1. Stored(utxos', owner_index', processed_txs', next')
      BY <2>2, <2>4, <2>5, <2>6 DEF Stored
    <3>2. QED BY <1>1, <2>7, <3>1 DEF Shape
  <2>9. I \cap DOMAIN utxos' = {} /\ I \subseteq 1 .. next' - 1
    <3>1. \A id \in next .. next + Len(new) - 1 : id \notin DOMAIN utxos
      BY <2>1, <2>3
    <3>2. 1 .. next - 1 \subseteq 1 .. next' - 1
      BY <2>3, LongerInterval
    <3>3. QED BY <2>1, <2>2, <2>3, <3>1, <3>2
  <2>10. Knows(utxos', next', pc'[t], tx'[t], fetched'[t], outcome'[t])
    BY <2>1, <2>7, <2>9 DEF Knows, Checked, I
  <2>11. Local'
    BY <1>1, <2>2, <2>7, <2>10, OthersKnow DEF LInv
  <2>12. Apart'
    <3>1. ASSUME NEW u \in Threads \ {t}, outcome'[u] = "APPLIED"
          PROVE  InputIds(tx'[u]) \cap I = {}
      <4>1. outcome[u] = "APPLIED" /\ tx'[u] = tx[u]
        BY <2>7, <3>1 DEF Alone
      <4>2. InputIds(tx[u]) \cap DOMAIN utxos = {}
        BY <4>1 DEF LInv, Local, Knows
      <4>3. QED BY <2>1, <4>1, <4>2
    <3>2. ASSUME NEW u \in Threads, NEW w \in Threads, u # w,
                 outcome'[u] = "APPLIED", outcome'[w] = "APPLIED"
          PROVE  InputIds(tx'[u]) \cap InputIds(tx'[w]) = {}
      <4>1. CASE u = t
        BY <2>7, <3>1, <3>2, <4>1 DEF I
      <4>2. CASE w = t
        BY <2>7, <3>1, <3>2, <4>2 DEF I
      <4>3. CASE u # t /\ w # t
        BY <2>7, <3>2, <4>3 DEF LInv, Apart, Alone
      <4>4. QED BY <4>1, <4>2, <4>3
    <3>3. QED BY <3>2 DEF Apart
  <2>13. Kept'
    <3>1. ASSUME NEW c \in Currencies PROVE Worth(utxos', c) = Worth(utxos, c)
      <4>1. x \in Txs /\ Bounded(x) /\ Positive(x)
        BY <2>1 DEF Checked
      <4>2. Worth(After(utxos, next, I, new), c) = Worth(utxos, c)
        BY <1>1, <2>1, <4>1, TransactionKeepsWorth DEF I, new
      <4>3. QED BY <2>1, <4>2
    <3>2. \A c \in Currencies : Worth(utxos, c) = Worth(Genesis, c)
      BY DEF LInv, Kept
    <3>3. \A c \in Currencies : Worth(utxos', c) = Worth(Genesis, c)
      BY <3>1, <3>2
    <3>4. QED BY <3>3 DEF Kept
  <2>14. QED BY <2>8, <2>11, <2>12, <2>13 DEF LInv
<1>4. QED BY <1>2, <1>3, ApplyIs

LEMMA NextInv == LInv /\ [Next]_vars => LInv'
<1> SUFFICES ASSUME LInv, [Next]_vars PROVE LInv'
  OBVIOUS
<1>1. CASE \E t \in Threads :
             Submit(t) \/ FetchInputs(t) \/ ValidateIntent(t) \/ ApplyTransaction(t)
  BY <1>1, SubmitInv, FetchInv, ValidateInv, ApplyInv
<1>2. CASE \E id \in DOMAIN Genesis : Expire(id)
  BY <1>2, ExpireInv
<1>3. CASE UNCHANGED vars
  BY <1>3 DEF vars, LInv, Shape, Local, Apart, Kept
<1>4. QED BY <1>1, <1>2, <1>3 DEF Next

LEMMA AlwaysLInv == Spec => []LInv
BY InitInv, NextInv, PTL DEF Spec

----------------------------------------------------------------------------
(* Theorems *)

\* The dictionaries and the threads' locals hold what the code means them to,
\* and the history keeps its bound, whatever threads apply.
THEOREM MemoryTypes == Spec => []TypeOK
<1>1. LInv => TypeOK
  <2> SUFFICES ASSUME LInv PROVE TypeOK
    OBVIOUS
  <2>1. /\ DOMAIN utxos \subseteq 1 .. next - 1
        /\ \A id \in DOMAIN utxos :
             utxos[id] \in Token /\ (id \in DOMAIN Genesis \/ utxos[id].amount > 0)
        /\ owner_index = Index(utxos) /\ Len(processed_txs) =< MAX_HISTORY_SIZE
    BY DEF LInv, Shape, Stored, Table, Positives
  <2>2. owner_index \in [Owners -> SUBSET (1 .. next - 1)]
    BY <2>1 DEF Index
  <2>3. QED BY <2>1, <2>2 DEF LInv, Shape, TypeOK, Labels, Verdicts
<1>2. QED BY <1>1, AlwaysLInv, PTL

\* Each owner's bucket holds exactly the tokens of that owner.
THEOREM IndexIsExact == Spec => []OwnerIndexExact
<1>1. LInv => OwnerIndexExact
  BY DEF LInv, Shape, Stored, Index, OwnerIndexExact
<1>2. QED BY <1>1, AlwaysLInv, PTL

\* Of the threads that compete for a token one is told that it spent it.
THEOREM SpentOnce == Spec => []OneWinner
<1>1. LInv => OneWinner
  BY DEF LInv, Local, Knows, Apart, OneWinner
<1>2. QED BY <1>1, AlwaysLInv, PTL

LEMMA SameCounting == \A S : U!Cardinality(S) = Cardinality(S)
BY DEF U!Cardinality, Cardinality

LEMMA SameSums == \A f : U!SumAmounts(f) = SumAmounts(f)
BY DEF U!SumAmounts, SumAmounts, U!MapThenSumSet, MapThenSumSet, U!MapThenFoldSet,
       MapThenFoldSet

\* UtxoLedger speaks of transactions in the words of UtxoTypes.
LEMMA SameWords ==
  ASSUME NEW x, NEW us
  PROVE  /\ U!Bounded(x) <=> Bounded(x)
         /\ U!Positive(x) <=> Positive(x)
         /\ U!NoDuplicates(x) <=> NoDuplicates(x)
         /\ U!InputIds(x) = InputIds(x)
         /\ U!Created(x, us) = Created(x, us)
         /\ U!Intent(x, us) <=> Intent(x, us)
<1>1. U!Bounded(x) <=> Bounded(x)
  BY DEF U!Bounded, Bounded
<1>2. U!Positive(x) <=> Positive(x)
  BY DEF U!Positive, Positive
<1>3. U!InputIds(x) = InputIds(x)
  BY DEF U!InputIds, InputIds
<1>4. U!NoDuplicates(x) <=> NoDuplicates(x)
  BY <1>3, SameCounting DEF U!NoDuplicates, NoDuplicates
<1>5. U!Created(x, us) = Created(x, us)
  BY DEF U!Created, Created, U!NewToken, NewToken
<1>6. U!Intent(x, us) <=> Intent(x, us)
  BY <1>3, SameSums DEF U!Intent, Intent
<1>7. QED BY <1>1, <1>2, <1>3, <1>4, <1>5, <1>6

\* A thread whose transaction is applied takes one step of the abstract ledger.
LEMMA ApplyTransacts ==
  ASSUME LInv, NEW t \in Threads, Applies(t)
  PROVE  U!Next
<1> DEFINE x == tx[t]
           I == InputIds(x)
           new == Created(x, utxos)
           k == Len(new)
           P == next .. next + k - 1
           D == DOMAIN utxos
           fresh == DOMAIN utxos' \ D
<1>1. /\ Checked(x) /\ I \subseteq D /\ Intent(x, utxos)
      /\ new \in Seq(Token) /\ k \in Nat \ {0}
      /\ Replaces(utxos, next, I, new, utxos') /\ next' = next + k
  BY DEF Applies
<1>2. next \in Nat /\ next > 0 /\ D \subseteq 1 .. next - 1
  BY GenesisSize DEF LInv, Shape, Stored, Table
<1>3. /\ DOMAIN utxos' = (D \ I) \cup P
      /\ \A i \in 1 .. k : utxos'[next + i - 1] = new[i]
      /\ \A id \in D \ I : utxos'[id] = utxos[id]
  BY <1>1 DEF Replaces
<1>4. DOMAIN new = 1 .. k
  BY <1>1
<1> HIDE DEF x, I, new, k, D
<1>5. P \cap D = {} /\ P \cap (1 .. next - 1) = {}
  BY <1>1, <1>2
<1>6. fresh = P
  BY <1>3, <1>5
<1>7. Cardinality(P) = k
  BY <1>1, <1>2, FS_Interval
<1>8. 1 .. next' - 1 = (1 .. next - 1) \cup P
  BY <1>1, <1>2
<1> DEFINE place == [i \in 1 .. k |-> next + i - 1]
<1>9. place \in [1 .. k -> P] /\ \A i, j \in 1 .. k : place[i] = place[j] => i = j
  BY <1>1, <1>2
<1>10. \A i \in 1 .. k : utxos'[place[i]] = new[i]
  BY <1>3
<1> HIDE DEF place, P, fresh
<1>11. U!Transact(x)
  <2>1. \E p \in [DOMAIN new -> fresh] :
          /\ \A i, j \in DOMAIN new : p[i] = p[j] => i = j
          /\ \A i \in DOMAIN new : utxos'[p[i]] = new[i]
    BY <1>4, <1>6, <1>9, <1>10
  <2>2. /\ Bounded(x) /\ Positive(x) /\ NoDuplicates(x) /\ InputIds(x) \subseteq DOMAIN utxos
        /\ Intent(x, utxos)
    BY <1>1 DEF Checked, I, D
  <2>3. /\ DOMAIN utxos' = (DOMAIN utxos \ InputIds(x)) \cup fresh
        /\ \A id \in DOMAIN utxos \ InputIds(x) : utxos'[id] = utxos[id]
    BY <1>3, <1>6 DEF D, I
  <2>4. /\ fresh \cap (1 .. next - 1) = {} /\ Cardinality(fresh) = Len(new)
        /\ 1 .. next' - 1 = (1 .. next - 1) \cup fresh
    BY <1>5, <1>6, <1>7, <1>8 DEF k
  <2>5. /\ U!Bounded(x) /\ U!Positive(x) /\ U!NoDuplicates(x)
        /\ U!InputIds(x) = InputIds(x) /\ U!Created(x, utxos) = new /\ U!Intent(x, utxos)
        /\ U!Cardinality(fresh) = Len(new)
    BY <2>2, <2>4, SameWords, SameCounting DEF new
  <2>6. fresh = DOMAIN utxos' \ DOMAIN utxos
    BY DEF fresh, D
  <2> DEFINE made == U!Created(x, utxos)
             gone == U!InputIds(x)
             came == DOMAIN utxos' \ DOMAIN utxos
  <2>7. made = new /\ gone = InputIds(x) /\ came = fresh
    BY <2>5, <2>6
  <2> HIDE DEF fresh, new, made, gone, came
  <2>8. \E p \in [DOMAIN made -> came] :
          /\ \A i, j \in DOMAIN made : p[i] = p[j] => i = j
          /\ \A i \in DOMAIN made : utxos'[p[i]] = made[i]
    BY <2>1, <2>7
  <2>9. /\ gone \subseteq DOMAIN utxos
        /\ DOMAIN utxos' = (DOMAIN utxos \ gone) \cup came
        /\ \A id \in DOMAIN utxos \ gone : utxos'[id] = utxos[id]
    BY <2>2, <2>3, <2>7
  <2>10. /\ came \cap (1 .. next - 1) = {} /\ U!Cardinality(came) = Len(made)
         /\ (1 .. next - 1)' = (1 .. next - 1) \cup came
    BY <2>4, <2>5, <2>7
  <2>11. U!Bounded(x) /\ U!Positive(x) /\ U!NoDuplicates(x) /\ U!Intent(x, utxos)
    BY <2>5
  <2>12. QED BY <2>8, <2>9, <2>10, <2>11 DEF U!Transact, made, gone, came
<1>12. x \in Txs
  BY <1>1 DEF Checked
<1>13. QED BY <1>11, <1>12 DEF U!Next

\* Each step of the ledger is a step of UtxoLedger or leaves its state alone:
\* a transaction takes effect at one instant, for the tokens of that instant.
THEOREM MemoryImplementsLedger == Spec => ImplementsUtxoLedger
<1>1. Init => U!Init
  <2> SUFFICES ASSUME Init PROVE U!Init
    OBVIOUS
  <2>1. next = Len(Genesis) + 1
    BY GenesisSize DEF Init
  <2>2. 1 .. next - 1 = DOMAIN Genesis
    BY <2>1, GenesisSize
  <2>3. QED BY <2>2 DEF Init, U!Init
<1>2. LInv /\ [Next]_vars => [U!Next]_<<utxos, 1 .. next - 1>>
  <2> SUFFICES ASSUME LInv, [Next]_vars
               PROVE  U!Next \/ (utxos' = utxos /\ next' = next)
    OBVIOUS
  <2>1. ASSUME NEW t \in Threads, ApplyTransaction(t)
        PROVE  U!Next \/ (utxos' = utxos /\ next' = next)
    BY <2>1, ApplyIs, ApplyTransacts DEF ledger
  <2>2. ASSUME NEW t \in Threads, Submit(t) \/ FetchInputs(t) \/ ValidateIntent(t)
        PROVE  utxos' = utxos /\ next' = next
    BY <2>2 DEF Submit, FetchInputs, ValidateIntent, ledger
  <2>3. ASSUME NEW id \in DOMAIN Genesis, Expire(id)
        PROVE  utxos' = utxos /\ next' = next
    BY <2>3 DEF Expire, ledger
  <2>4. CASE UNCHANGED vars
    BY <2>4 DEF vars
  <2>5. QED BY <2>1, <2>2, <2>3, <2>4 DEF Next
<1>3. QED BY <1>1, <1>2, AlwaysLInv, PTL DEF Spec, U!Spec, ImplementsUtxoLedger

----------------------------------------------------------------------------
(* What owners are told that they can spend *)

\* The tokens that get_balance counts.
Counts(o, c) == {id \in owner_index[o] :
                   id \in DOMAIN utxos /\ utxos[id].currency = c /\ id \notin overdue}

LEMMA BalanceIs ==
  ASSUME NEW o, NEW c, IsFiniteSet(Counts(o, c))
  PROVE  Balance(o, c) = SumOver(AmountsOf(utxos), Counts(o, c))
<1> DEFINE A == AmountsOf(utxos)
           T == Counts(o, c)
           Eq(g) == g = [s \in SUBSET T |->
                           IF s = {} THEN 0
                           ELSE utxos[CHOOSE x \in s : TRUE].amount
                                + g[s \ {CHOOSE x \in s : TRUE}]]
           g == CHOOSE g : Eq(g)
<1>1. ASSUME NEW h
      PROVE  Eq(h) <=> SumEquation(A, h, SUBSET T)
  <2>1. ASSUME NEW s \in SUBSET T, s # {}
        PROVE  A[Some(s)] = utxos[CHOOSE x \in s : TRUE].amount
    <3>1. Some(s) \in DOMAIN utxos
      BY <2>1 DEF Some, Counts
    <3>2. QED BY <3>1 DEF AmountsOf, Some
  <2>2. \A s \in SUBSET T :
          (IF s = {} THEN 0 ELSE A[Some(s)] + h[s \ {Some(s)}])
            = IF s = {} THEN 0 ELSE utxos[CHOOSE x \in s : TRUE].amount
                                    + h[s \ {CHOOSE x \in s : TRUE}]
    BY <2>1 DEF Some
  <2> HIDE DEF A, T
  <2>3. QED BY <2>2, Zenon DEF SumEquation
<1>2. Eq(g)
  <2>1. IsFiniteSet(T)
    OBVIOUS
  <2> HIDE DEF A, T, Eq
  <2>2. \E h : SumEquation(A, h, SUBSET T)
    BY ONLY <2>1, SumExists
  <2>3. \E h : Eq(h)
    BY <1>1, <2>2
  <2>4. QED BY <2>3
<1>3. Balance(o, c) = g[T]
  BY DEF Balance, Counts, MapThenSumSet, MapThenFoldSet
<1> HIDE DEF g, A, T, Eq
<1>4. g[T] = SumOver(A, T)
  BY <1>1, <1>2, SumOverIs DEF T
<1>5. QED BY <1>3, <1>4 DEF A, T

\* The totals that SupplyConserved takes, and those of all owners.
Totalled(f, S, c) ==
  MapThenSumSet(LAMBDA id : f[id].amount, {id \in S : f[id].currency = c})

LEMMA TotalledIs ==
  ASSUME NEW f, NEW S \in SUBSET DOMAIN f, NEW c, IsFiniteSet(S)
  PROVE  Totalled(f, S, c) = SumOver(AmountsOf(f), {id \in S : f[id].currency = c})
<1> DEFINE A == AmountsOf(f)
           T == {id \in S : f[id].currency = c}
           Eq(g) == g = [s \in SUBSET T |->
                           IF s = {} THEN 0
                           ELSE f[CHOOSE x \in s : TRUE].amount
                                + g[s \ {CHOOSE x \in s : TRUE}]]
           g == CHOOSE g : Eq(g)
<1>1. ASSUME NEW h
      PROVE  Eq(h) <=> SumEquation(A, h, SUBSET T)
  <2>1. ASSUME NEW s \in SUBSET T, s # {}
        PROVE  A[Some(s)] = f[CHOOSE x \in s : TRUE].amount
    <3>1. Some(s) \in DOMAIN f
      BY <2>1 DEF Some
    <3>2. QED BY <3>1 DEF AmountsOf, Some
  <2>2. \A s \in SUBSET T :
          (IF s = {} THEN 0 ELSE A[Some(s)] + h[s \ {Some(s)}])
            = IF s = {} THEN 0 ELSE f[CHOOSE x \in s : TRUE].amount
                                    + h[s \ {CHOOSE x \in s : TRUE}]
    BY <2>1 DEF Some
  <2> HIDE DEF A, T
  <2>3. QED BY <2>2, Zenon DEF SumEquation
<1>0. IsFiniteSet(T)
  BY FS_Subset
<1>2. Eq(g)
  <2> HIDE DEF A, T, Eq
  <2>1. \E h : SumEquation(A, h, SUBSET T)
    BY ONLY <1>0, SumExists
  <2>2. \E h : Eq(h)
    BY <1>1, <2>1
  <2>3. QED BY <2>2
<1>3. Totalled(f, S, c) = g[T]
  BY DEF Totalled, MapThenSumSet, MapThenFoldSet
<1> HIDE DEF g, A, T, Eq
<1>4. g[T] = SumOver(A, T)
  BY <1>0, <1>1, <1>2, SumOverIs
<1>5. QED BY <1>3, <1>4 DEF A, T

AllBalances(c) == MapThenSumSet(LAMBDA o : Balance(o, c), Owners)

LEMMA AllBalancesIs ==
  ASSUME NEW c
  PROVE  AllBalances(c) = SumOver([o \in Owners |-> Balance(o, c)], Owners)
<1> DEFINE A == [o \in Owners |-> Balance(o, c)]
           Eq(g) == g = [s \in SUBSET Owners |->
                           IF s = {} THEN 0
                           ELSE Balance(CHOOSE x \in s : TRUE, c)
                                + g[s \ {CHOOSE x \in s : TRUE}]]
           g == CHOOSE g : Eq(g)
<1>1. ASSUME NEW h
      PROVE  Eq(h) <=> SumEquation(A, h, SUBSET Owners)
  <2>1. ASSUME NEW s \in SUBSET Owners, s # {}
        PROVE  A[Some(s)] = Balance(CHOOSE x \in s : TRUE, c)
    <3>1. Some(s) \in Owners
      BY <2>1 DEF Some
    <3>2. QED BY <3>1 DEF Some
  <2>2. \A s \in SUBSET Owners :
          (IF s = {} THEN 0 ELSE A[Some(s)] + h[s \ {Some(s)}])
            = IF s = {} THEN 0 ELSE Balance(CHOOSE x \in s : TRUE, c)
                                    + h[s \ {CHOOSE x \in s : TRUE}]
    BY <2>1 DEF Some
  <2> HIDE DEF A
  <2>3. QED BY <2>2, Zenon DEF SumEquation
<1>2. Eq(g)
  <2> HIDE DEF A, Eq
  <2>1. \E h : SumEquation(A, h, SUBSET Owners)
    BY ONLY OwnersAssumption, SumExists
  <2>2. \E h : Eq(h)
    BY <1>1, <2>1
  <2>3. QED BY <2>2
<1>3. AllBalances(c) = g[Owners]
  BY DEF AllBalances, MapThenSumSet, MapThenFoldSet
<1> HIDE DEF g, A, Eq
<1>4. g[Owners] = SumOver(A, Owners)
  BY <1>1, <1>2, OwnersAssumption, SumOverIs
<1>5. QED BY <1>3, <1>4 DEF A

\* The buckets part the tokens that have not expired: all that owners are
\* told, and what has expired, is what the tokens are worth.
LEMMA BalancesAddUp ==
  ASSUME LInv, NEW c
  PROVE  AllBalances(c) + Totalled(utxos, DOMAIN utxos \cap overdue, c) = Worth(utxos, c)
<1> DEFINE A == AmountsOf(utxos)
           H == InCurrency(utxos, c)
           V == {id \in H : id \notin overdue}
           X == {id \in DOMAIN utxos \cap overdue : utxos[id].currency = c}
           B == [o \in Owners |-> Counts(o, c)]
           h == [o \in Owners |-> Balance(o, c)]
<1>1. /\ owner_index = Index(utxos) /\ Table(utxos, next)
      /\ \A id \in DOMAIN utxos : utxos[id] \in Token
  BY DEF LInv, Shape, Stored, Table
<1>2. IsFiniteSet(DOMAIN utxos)
  BY <1>1, TableFinite
<1>3. IsFiniteSet(V) /\ IsFiniteSet(X) /\ IsFiniteSet(DOMAIN utxos \cap overdue)
  BY <1>2, FS_Subset DEF InCurrency
<1>4. ASSUME NEW id \in DOMAIN utxos
      PROVE  A[id] \in Int /\ utxos[id].owner \in Owners
  <2>1. A[id] = utxos[id].amount
    BY DEF AmountsOf
  <2>2. QED BY <1>1, <2>1 DEF Token
<1>5. ASSUME NEW o \in Owners
      PROVE  B[o] = {id \in V : utxos[id].owner = o}
  BY <1>1 DEF Counts, Index, InCurrency
<1>6. ASSUME NEW o \in Owners
      PROVE  B[o] \subseteq V /\ h[o] = SumOver(A, B[o])
  <2>1. B[o] \subseteq V /\ B[o] = Counts(o, c)
    BY <1>5
  <2>2. IsFiniteSet(Counts(o, c))
    <3> HIDE DEF V, B
    <3>1. QED BY <1>3, <2>1, FS_Subset
  <2>3. Balance(o, c) = SumOver(A, Counts(o, c))
    BY <2>2, BalanceIs
  <2>4. QED BY <2>1, <2>3
<1>7. Disjoint(B, Owners)
  BY <1>5 DEF Disjoint
<1>8. {id \in V : \E o \in Owners : id \in B[o]} = V
  BY <1>4, <1>5 DEF InCurrency
<1>9. \A id \in V : A[id] \in Int
  BY <1>4 DEF InCurrency
<1>10. H = V \cup X /\ V \cap X = {} /\ \A id \in V \cup X : A[id] \in Int
  BY <1>4 DEF InCurrency
<1>11. AllBalances(c) = SumOver(h, Owners)
  BY AllBalancesIs
<1>12. Totalled(utxos, DOMAIN utxos \cap overdue, c) = SumOver(A, X)
  BY <1>3, TotalledIs
<1> HIDE DEF A, H, V, X, B, h
<1>13. SumOver(h, Owners) = SumOver(A, V)
  <2>1. \A o \in Owners : B[o] \subseteq V /\ h[o] = SumOver(A, B[o])
    BY <1>6
  <2>2. SumOver(h, Owners) = SumOver(A, {id \in V : \E o \in Owners : id \in B[o]})
    BY ONLY <1>3, <1>7, <1>9, <2>1, OwnersAssumption, SumFamily
  <2>3. QED BY <1>8, <2>2
<1>14. SumOver(A, V \cup X) = SumOver(A, V) + SumOver(A, X)
  BY ONLY <1>3, <1>10, SumUnion
<1>15. QED BY <1>10, <1>11, <1>12, <1>13, <1>14 DEF Worth, A, H

\* What all owners are told that they can spend, with what has expired, is
\* what was there at the beginning, in every currency and fees included.
THEOREM SupplyIsConserved == Spec => []SupplyConserved
<1>1. LInv => SupplyConserved
  <2> SUFFICES ASSUME LInv PROVE SupplyConserved
    OBVIOUS
  <2>1. ASSUME NEW c \in Currencies
        PROVE  AllBalances(c) + Totalled(utxos, DOMAIN utxos \cap overdue, c)
                 = Totalled(Genesis, DOMAIN Genesis, c)
    <3>1. Worth(utxos, c) = Worth(Genesis, c)
      BY DEF LInv, Kept
    <3>2. IsFiniteSet(DOMAIN Genesis)
      BY TableGenesis, TableFinite
    <3>3. Totalled(Genesis, DOMAIN Genesis, c) = Worth(Genesis, c)
      BY <3>2, TotalledIs DEF Worth, InCurrency
    <3>4. QED BY <3>1, <3>3, BalancesAddUp
  <2>2. QED BY <2>1 DEF SupplyConserved, AllBalances, Totalled
<1>2. QED BY <1>1, AlwaysLInv, PTL
============================================================================
