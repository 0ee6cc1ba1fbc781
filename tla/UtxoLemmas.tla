----------------------------- MODULE UtxoLemmas -----------------------------
(***************************************************************************)
(* Facts about transactions and the tokens they make, whatever store they  *)
(* are kept in: what Created returns, what Intent and Created read, and    *)
(* what replacing inputs by new tokens does to a table of tokens.          *)
(***************************************************************************)
EXTENDS UtxoTypes, SumLemmas, FunctionTheorems

----------------------------------------------------------------------------
(* Transactions                                                             *)

\* What a transaction that passed the checks without a store looks like.
Checked(x) == x \in Txs /\ Bounded(x) /\ Positive(x) /\ NoDuplicates(x)

LEMMA TxShape ==
  ASSUME NEW x, x \in Txs, Bounded(x)
  PROVE  /\ x.inputs \in Seq(Input) /\ x.outputs \in Seq(Output) /\ x.fee \in Int
         /\ Len(x.inputs) \in Nat \ {0} /\ Len(x.outputs) \in Nat \ {0}
         /\ x.inputs[1].token_id \in InputIds(x)
         /\ InputIds(x) \subseteq Ids /\ IsFiniteSet(InputIds(x))
<1>1. x \in Tx
  BY UtxoAssumption
<1>2. x.inputs \in Seq(Input) /\ x.outputs \in Seq(Output) /\ x.fee \in Int
  BY <1>1 DEF Tx
<1>3. Len(x.inputs) \in Nat \ {0} /\ Len(x.outputs) \in Nat \ {0}
  BY <1>2 DEF Bounded
<1>4. 1 \in DOMAIN x.inputs /\ x.inputs[1].token_id \in InputIds(x)
  BY <1>2, <1>3 DEF InputIds
<1>5. InputIds(x) \subseteq Ids
  <2>1. ASSUME NEW i \in DOMAIN x.inputs PROVE x.inputs[i].token_id \in Ids
    <3>1. x.inputs[i] \in Input
      BY <1>2
    <3>2. QED BY <3>1 DEF Input
  <2>2. QED BY <2>1 DEF InputIds
<1>6. IsFiniteSet(InputIds(x))
  <2> DEFINE n == Len(x.inputs)
             f == [i \in 1 .. n |-> x.inputs[i].token_id]
  <2>1. n \in Nat /\ DOMAIN x.inputs = 1 .. n
    BY <1>2
  <2>2. InputIds(x) = {f[i] : i \in 1 .. n}
    BY <2>1 DEF InputIds
  <2> HIDE DEF n
  <2>3. IsFiniteSet(1 .. n)
    BY <2>1, FS_Interval
  <2>4. f \in Surjection(1 .. n, InputIds(x))
    BY <2>2 DEF Surjection
  <2> HIDE DEF f
  <2>5. QED BY <2>3, <2>4, FS_Surjection
<1>7. QED BY <1>2, <1>3, <1>4, <1>5, <1>6

\* Intent and Created read nothing but the inputs.
LEMMA ReadsInputs ==
  ASSUME NEW x, NEW f, NEW h, x \in Txs, Bounded(x),
         \A id \in InputIds(x) : f[id] = h[id]
  PROVE  (Intent(x, f) <=> Intent(x, h)) /\ Created(x, f) = Created(x, h)
<1>1. x.inputs[1].token_id \in InputIds(x)
  BY TxShape
<1>2. f[x.inputs[1].token_id] = h[x.inputs[1].token_id]
  BY <1>1
<1>3. \A i \in DOMAIN x.inputs : f[x.inputs[i].token_id] = h[x.inputs[i].token_id]
  BY DEF InputIds
<1>4. [id \in InputIds(x) |-> f[id]] = [id \in InputIds(x) |-> h[id]]
  OBVIOUS
<1>5. SumAmounts([id \in InputIds(x) |-> f[id]]) = SumAmounts([id \in InputIds(x) |-> h[id]])
  BY <1>4
<1>6. Intent(x, f) <=> Intent(x, h)
  BY <1>2, <1>3, <1>5 DEF Intent
<1>7. Created(x, f) = Created(x, h)
  BY <1>2 DEF Created
<1>8. QED BY <1>6, <1>7

\* The amounts of a list of tokens or outputs.
AmountsIn(list) == [i \in 1 .. Len(list) |-> list[i].amount]

\* Every new token is a token and worth something.  There is one for each
\* output, with its amount, and one for the fee if there is a fee.
LEMMA CreatedShape ==
  ASSUME NEW x, NEW held, x \in Txs, Bounded(x), Positive(x),
         held[x.inputs[1].token_id].currency \in Currencies
  PROVE  /\ Created(x, held) \in Seq(Token)
         /\ Len(Created(x, held)) \in Nat \ {0}
         /\ \A i \in 1 .. Len(Created(x, held)) : Created(x, held)[i].amount > 0
         /\ Len(Created(x, held)) = IF x.fee > 0 THEN Len(x.outputs) + 1 ELSE Len(x.outputs)
         /\ \A i \in 1 .. Len(x.outputs) :
              /\ Created(x, held)[i].amount = x.outputs[i].amount
              /\ Created(x, held)[i].currency = x.outputs[i].currency
         /\ x.fee > 0 =>
              /\ Created(x, held)[Len(x.outputs) + 1].amount = x.fee
              /\ Created(x, held)[Len(x.outputs) + 1].currency
                   = held[x.inputs[1].token_id].currency
<1> DEFINE n == Len(x.outputs)
           cur == held[x.inputs[1].token_id].currency
           outs == [i \in DOMAIN x.outputs |->
                      NewToken(x.outputs[i].amount, x.outputs[i].currency,
                               x.outputs[i].owner, x.outputs[i].locked)]
           feeToken == NewToken(x.fee, cur, FeeCollector, FALSE)
<1>1. /\ x.outputs \in Seq(Output) /\ x.fee \in Int /\ n \in Nat \ {0}
      /\ DOMAIN x.outputs = 1 .. n
  BY TxShape
<1>2. ASSUME NEW i \in 1 .. n
      PROVE  /\ outs[i] \in Token /\ outs[i].amount = x.outputs[i].amount
             /\ outs[i].amount > 0 /\ outs[i].currency = x.outputs[i].currency
  <2>1. x.outputs[i] \in Output /\ x.outputs[i].amount > 0
    BY <1>1 DEF Positive
  <2>2. outs[i] = [amount |-> x.outputs[i].amount, currency |-> x.outputs[i].currency,
                   owner |-> x.outputs[i].owner, locked |-> x.outputs[i].locked,
                   ids |-> ModelIds, expires |-> FALSE]
    BY <1>1 DEF NewToken
  <2>3. x.outputs[i].amount \in Nat
    BY <2>1 DEF Output
  <2> HIDE DEF outs, n
  <2>4. QED BY <2>1, <2>2, <2>3, UtxoAssumption DEF Token, Output
<1>3. outs \in Seq(Token) /\ Len(outs) = n
  <2>1. outs \in [1 .. n -> Token]
    <3>1. outs = [i \in 1 .. n |-> outs[i]]
      BY <1>1
    <3> HIDE DEF outs, n
    <3>2. QED BY <1>2, <3>1
  <2>2. QED BY <1>1, <2>1
<1>4. x.fee > 0 => /\ feeToken \in Token /\ feeToken.amount = x.fee
                   /\ feeToken.currency = cur
  BY <1>1, UtxoAssumption DEF NewToken, Token
<1>5. Created(x, held) = outs \o (IF x.fee > 0 THEN <<feeToken>> ELSE <<>>)
  BY DEF Created
<1> HIDE DEF outs, feeToken, n, cur
<1>6. CASE x.fee > 0
  <2>1. Created(x, held) = outs \o <<feeToken>>
    BY <1>5, <1>6
  <2>2. <<feeToken>> \in Seq(Token) /\ Len(<<feeToken>>) = 1 /\ <<feeToken>>[1] = feeToken
    BY <1>4, <1>6
  <2>3. Created(x, held) \in Seq(Token) /\ Len(Created(x, held)) = n + 1
    BY <1>3, <2>1, <2>2
  <2>4. /\ \A i \in 1 .. n : Created(x, held)[i] = outs[i]
        /\ Created(x, held)[n + 1] = feeToken
    BY <1>1, <1>3, <2>1, <2>2
  <2>5. \A i \in 1 .. n + 1 : Created(x, held)[i].amount > 0
    <3>1. ASSUME NEW i \in 1 .. n + 1 PROVE Created(x, held)[i].amount > 0
      <4>1. CASE i = n + 1
        BY <1>4, <1>6, <2>4, <4>1
      <4>2. CASE i \in 1 .. n
        BY <1>2, <2>4, <4>2
      <4>3. QED BY <1>1, <4>1, <4>2
    <3>2. QED BY <3>1
  <2>6. QED BY <1>1, <1>2, <1>4, <1>6, <2>3, <2>4, <2>5 DEF n, cur
<1>7. CASE ~ (x.fee > 0)
  <2>1. Created(x, held) = outs
    BY <1>3, <1>5, <1>7
  <2>2. QED BY <1>1, <1>2, <1>3, <1>7, <2>1 DEF n
<1>8. QED BY <1>6, <1>7

----------------------------------------------------------------------------
(* Tables of tokens                                                         *)

\* A table of tokens whose ids are below n, the next id that will be drawn.
Table(us, n) ==
  /\ n \in Nat /\ n > Len(Genesis)
  /\ us = [id \in DOMAIN us |-> us[id]]
  /\ DOMAIN us \subseteq 1 .. n - 1
  /\ \A id \in DOMAIN us : us[id] \in Token

\* us without the tokens ids, with the tokens new from id n on.
After(us, n, ids, new) ==
  [id \in (DOMAIN us \ ids) \cup (n .. n + Len(new) - 1) |->
     IF id \in n .. n + Len(new) - 1 THEN new[id - n + 1] ELSE us[id]]

\* vs may have replaced us, whose next id was n: ids are not used again and
\* tokens do not change.
Advances(us, n, vs, m) ==
  /\ m \in Nat /\ n =< m
  /\ DOMAIN vs \cap (1 .. n - 1) \subseteq DOMAIN us
  /\ \A id \in DOMAIN vs \cap DOMAIN us : vs[id] = us[id]

LEMMA GenesisSize ==
  /\ Genesis \in Seq(Token) /\ Len(Genesis) \in Nat /\ DOMAIN Genesis = 1 .. Len(Genesis)
  /\ Cardinality(DOMAIN Genesis) = Len(Genesis)
<1>1. Genesis \in Seq(Token) /\ Len(Genesis) \in Nat /\ DOMAIN Genesis = 1 .. Len(Genesis)
  <2>1. Genesis \in Seq(Token)
    BY UtxoAssumption
  <2>2. QED BY <2>1
<1>2. Cardinality(1 .. Len(Genesis)) = Len(Genesis)
  BY <1>1, FS_Interval
<1>3. QED BY <1>1, <1>2

LEMMA TableGenesis == Table(Genesis, Cardinality(DOMAIN Genesis) + 1)
<1>1. Genesis = [id \in DOMAIN Genesis |-> Genesis[id]] /\ \A id \in DOMAIN Genesis : Genesis[id] \in Token
  BY GenesisSize
<1>2. QED BY <1>1, GenesisSize DEF Table

LEMMA TableFinite ==
  ASSUME NEW us, NEW n, Table(us, n)
  PROVE  IsFiniteSet(DOMAIN us)
<1>1. n \in Nat /\ DOMAIN us \subseteq 1 .. n - 1
  BY DEF Table
<1>2. IsFiniteSet(1 .. n - 1)
  BY <1>1, FS_Interval
<1>3. QED BY <1>1, <1>2, FS_Subset

\* What vs is once the tokens ids of us made room for the tokens new.
Replaces(us, n, ids, new, vs) ==
  /\ DOMAIN vs = (DOMAIN us \ ids) \cup (n .. n + Len(new) - 1)
  /\ \A i \in 1 .. Len(new) : vs[n + i - 1] = new[i]
  /\ \A id \in DOMAIN us \ ids : vs[id] = us[id]
  /\ Table(vs, n + Len(new))
  /\ Advances(us, n, vs, n + Len(new))

LEMMA AfterReplaces ==
  ASSUME NEW us, NEW n, NEW ids, NEW new, Table(us, n), new \in Seq(Token)
  PROVE  Replaces(us, n, ids, new, After(us, n, ids, new))
<1> DEFINE vs == After(us, n, ids, new)
           k == Len(new)
           P == n .. n + k - 1
<1>1. /\ n \in Nat \ {0} /\ k \in Nat /\ DOMAIN us \subseteq 1 .. n - 1 /\ n > Len(Genesis)
      /\ Len(Genesis) \in Nat /\ \A id \in DOMAIN us : us[id] \in Token
  <2>1. Genesis \in Seq(Token)
    BY UtxoAssumption
  <2>2. Len(Genesis) \in Nat /\ k \in Nat
    BY <2>1
  <2>3. QED BY <2>2 DEF Table
<1>2. vs = [id \in (DOMAIN us \ ids) \cup P |-> IF id \in P THEN new[id - n + 1] ELSE us[id]]
  BY DEF After
<1> HIDE DEF vs
<1>3. DOMAIN vs = (DOMAIN us \ ids) \cup P
  BY <1>2
<1>4. ASSUME NEW i \in 1 .. k PROVE n + i - 1 \in P /\ vs[n + i - 1] = new[i]
  <2>1. n + i - 1 \in P /\ (n + i - 1) - n + 1 = i
    BY <1>1
  <2>2. QED BY <1>2, <2>1
<1>5. ASSUME NEW id \in DOMAIN us \ ids PROVE id \notin P /\ vs[id] = us[id]
  <2>1. id \notin P
    BY <1>1
  <2>2. QED BY <1>2, <2>1
<1>6. ASSUME NEW id \in P PROVE vs[id] \in Token /\ id \in 1 .. (n + k) - 1
  <2>1. id - n + 1 \in 1 .. k /\ n + (id - n + 1) - 1 = id
    BY <1>1
  <2>2. new[id - n + 1] \in Token
    BY <2>1
  <2>3. QED BY <1>1, <1>4, <2>1, <2>2
<1>7. vs = [id \in DOMAIN vs |-> vs[id]]
  BY <1>2
<1> HIDE DEF P
<1>8. \A id \in DOMAIN vs : vs[id] \in Token /\ id \in 1 .. (n + k) - 1
  BY <1>1, <1>3, <1>5, <1>6
<1>9. Table(vs, n + k)
  BY <1>1, <1>7, <1>8 DEF Table
<1>10. Advances(us, n, vs, n + k)
  <2>1. \A id \in P : id \notin 1 .. n - 1
    BY <1>1 DEF P
  <2>2. DOMAIN vs \cap (1 .. n - 1) \subseteq DOMAIN us
    BY <1>3, <2>1
  <2>3. \A id \in DOMAIN vs \cap DOMAIN us : vs[id] = us[id]
    BY <1>1, <1>3, <1>5, <2>1
  <2>4. QED BY <1>1, <2>2, <2>3 DEF Advances
<1>11. QED BY <1>3, <1>4, <1>5, <1>9, <1>10 DEF P, vs, Replaces

----------------------------------------------------------------------------
(* What the tokens of a table are worth                                     *)

AmountsOf(us) == [id \in DOMAIN us |-> us[id].amount]

InCurrency(us, c) == {id \in DOMAIN us : us[id].currency = c}

Worth(us, c) == SumOver(AmountsOf(us), InCurrency(us, c))

\* SumAmounts is the sum that SumLemmas speaks of.
LEMMA SumAmountsIs ==
  ASSUME NEW f, IsFiniteSet(DOMAIN f)
  PROVE  SumAmounts(f) = SumOver(AmountsOf(f), DOMAIN f)
<1> DEFINE A == AmountsOf(f)
           T == DOMAIN f
           Eq(g) == g = [s \in SUBSET T |->
                           IF s = {} THEN 0
                           ELSE f[CHOOSE x \in s : TRUE].amount
                                + g[s \ {CHOOSE x \in s : TRUE}]]
           g == CHOOSE g : Eq(g)
<1>1. ASSUME NEW h
      PROVE  Eq(h) <=> SumEquation(A, h, SUBSET T)
  <2>1. ASSUME NEW s \in SUBSET T, s # {}
        PROVE  A[Some(s)] = f[CHOOSE x \in s : TRUE].amount
    <3>1. Some(s) \in T
      BY <2>1 DEF Some
    <3>2. QED BY <3>1 DEF AmountsOf, Some
  <2>2. \A s \in SUBSET T :
          (IF s = {} THEN 0 ELSE A[Some(s)] + h[s \ {Some(s)}])
            = IF s = {} THEN 0 ELSE f[CHOOSE x \in s : TRUE].amount
                                    + h[s \ {CHOOSE x \in s : TRUE}]
    BY <2>1 DEF Some
  <2> HIDE DEF A, T
  <2>3. QED BY <2>2, Zenon DEF SumEquation
<1>2. Eq(g)
  <2>1. IsFiniteSet(T)
    OBVIOUS
  <2> HIDE DEF A, T, Eq
  <2>2. \E h : SumEquation(A, h, SUBSET T)
    BY ONLY <2>1, SumExists
  <2>3. \E h : Eq(h)
    BY <1>1, <2>2
  <2>4. QED BY <2>3
<1>3. SumAmounts(f) = g[T]
  BY DEF SumAmounts, MapThenSumSet, MapThenFoldSet
<1> HIDE DEF g, A, T, Eq
<1>4. g[T] = SumOver(A, T)
  BY <1>1, <1>2, SumOverIs DEF T
<1>5. QED BY <1>3, <1>4 DEF A, T

\* The new tokens are worth the outputs and the fee.
LEMMA CreatedWorth ==
  ASSUME NEW x, NEW held, x \in Txs, Bounded(x), Positive(x),
         held[x.inputs[1].token_id].currency \in Currencies
  PROVE  SumOver(AmountsIn(Created(x, held)), 1 .. Len(Created(x, held)))
           = SumAmounts(x.outputs) + x.fee
<1> DEFINE new == Created(x, held)
           n == Len(x.outputs)
           A == AmountsIn(new)
           O == AmountsOf(x.outputs)
<1>1. /\ Len(new) = IF x.fee > 0 THEN n + 1 ELSE n
      /\ \A i \in 1 .. n : new[i].amount = x.outputs[i].amount
      /\ x.fee > 0 => new[n + 1].amount = x.fee
  BY CreatedShape
<1>2. x.outputs \in Seq(Output) /\ n \in Nat /\ DOMAIN x.outputs = 1 .. n /\ x.fee \in Int
  BY TxShape
<1>3. x.fee >= 0
  BY DEF Positive
<1>4. IsFiniteSet(1 .. n)
  BY <1>2, FS_Interval
<1>5. SumAmounts(x.outputs) = SumOver(O, 1 .. n)
  BY <1>2, <1>4, SumAmountsIs
<1>6. ASSUME NEW i \in 1 .. n PROVE O[i] \in Int /\ A[i] = O[i]
  <2>1. x.outputs[i] \in Output
    BY <1>2
  <2>2. O[i] = x.outputs[i].amount
    BY <1>2 DEF AmountsOf
  <2>3. i \in 1 .. Len(new)
    BY <1>1, <1>2
  <2>4. A[i] = new[i].amount
    BY <2>3 DEF AmountsIn
  <2>5. QED BY <1>1, <2>1, <2>2, <2>4 DEF Output
<1>7. x.fee > 0 => A[n + 1] = x.fee
  BY <1>1, <1>2 DEF AmountsIn
<1> HIDE DEF A, O, new
<1> DEFINE I == 1 .. n
<1>8. SumOver(A, I) = SumOver(O, I)
  <2>1. IsFiniteSet(I) /\ \A i \in I : A[i] = O[i]
    BY <1>4, <1>6
  <2>2. QED BY ONLY <2>1, SumSame
<1>9. SumOver(A, I) \in Int
  <2>1. IsFiniteSet(I) /\ \A i \in I : A[i] \in Int
    BY <1>4, <1>6
  <2>2. QED BY ONLY <2>1, SumType
<1>10. CASE x.fee > 0
  <2> DEFINE y == n + 1
  <2>1. 1 .. Len(new) = I \cup {y} /\ y \notin I /\ A[y] = x.fee
    BY <1>1, <1>2, <1>7, <1>10
  <2>2. IsFiniteSet(I) /\ A[y] \in Int /\ \A i \in I : A[i] \in Int
    BY <1>2, <1>4, <1>6, <2>1
  <2> HIDE DEF I, y, n
  <2>3. SumOver(A, I \cup {y}) = SumOver(A, I) + A[y]
    BY ONLY <2>1, <2>2, SumAdd
  <2>4. QED BY <1>5, <1>8, <2>1, <2>3 DEF new, A, I, n
<1>11. CASE ~ (x.fee > 0)
  <2>1. x.fee = 0 /\ Len(new) = n
    BY <1>1, <1>2, <1>3, <1>11
  <2>2. QED BY <1>5, <1>8, <1>9, <2>1 DEF new, A
<1>12. QED BY <1>10, <1>11

\* A sound transaction leaves what the tokens of each currency are worth.
LEMMA TransactionKeepsWorth ==
  ASSUME NEW us, NEW n, NEW x, NEW c, Table(us, n), x \in Txs, Bounded(x), Positive(x),
         InputIds(x) \subseteq DOMAIN us, Intent(x, us)
  PROVE  Worth(After(us, n, InputIds(x), Created(x, us)), c) = Worth(us, c)
<1> DEFINE I   == InputIds(x)
           new == Created(x, us)
           k   == Len(new)
           P   == n .. n + k - 1
           vs  == After(us, n, I, new)
           cur == us[x.inputs[1].token_id].currency
           A   == AmountsOf(us)
           B   == AmountsOf(vs)
           H   == InCurrency(us, c)
<1>1. /\ n \in Nat /\ n > 0 /\ DOMAIN us \subseteq 1 .. n - 1
      /\ \A id \in DOMAIN us : us[id] \in Token
  <2>1. Genesis \in Seq(Token)
    BY UtxoAssumption
  <2>2. Len(Genesis) \in Nat
    BY <2>1
  <2>3. QED BY <2>2 DEF Table
<1>2. x.inputs[1].token_id \in I /\ cur \in Currencies /\ IsFiniteSet(I)
  <2>1. x.inputs[1].token_id \in I /\ IsFiniteSet(I)
    BY TxShape
  <2>2. us[x.inputs[1].token_id] \in Token
    BY <1>1, <2>1
  <2>3. QED BY <2>1, <2>2 DEF Token
<1>3. new \in Seq(Token) /\ k \in Nat \ {0}
  BY <1>2, CreatedShape
<1>4. \A i \in 1 .. k : new[i].currency = cur
  <2>1. \A i \in DOMAIN x.outputs : x.outputs[i].currency = cur
    BY DEF Intent
  <2>2. /\ k = IF x.fee > 0 THEN Len(x.outputs) + 1 ELSE Len(x.outputs)
        /\ \A i \in 1 .. Len(x.outputs) : new[i].currency = x.outputs[i].currency
        /\ x.fee > 0 => new[Len(x.outputs) + 1].currency = cur
    BY <1>2, CreatedShape
  <2>3. Len(x.outputs) \in Nat /\ DOMAIN x.outputs = 1 .. Len(x.outputs)
    <3>1. x.outputs \in Seq(Output)
      BY TxShape
    <3>2. QED BY <3>1
  <2> HIDE DEF new, k, cur
  <2>4. QED BY <2>1, <2>2, <2>3
<1>5. \A id \in I : us[id].currency = cur
  BY DEF InputIds, Intent
<1>6. /\ DOMAIN vs = (DOMAIN us \ I) \cup P
      /\ \A i \in 1 .. k : vs[n + i - 1] = new[i]
      /\ \A id \in DOMAIN us \ I : vs[id] = us[id]
      /\ Table(vs, n + k)
  <2>1. Table(us, n) /\ new \in Seq(Token)
    BY <1>3
  <2> HIDE DEF I, new
  <2>2. Replaces(us, n, I, new, vs)
    BY ONLY <2>1, AfterReplaces DEF vs
  <2> HIDE DEF vs
  <2>3. QED BY <2>2 DEF Replaces
<1>7. SumOver(AmountsIn(new), 1 .. k) = SumOver(A, I)
  <2> DEFINE h == [id \in I |-> us[id]]
  <2>1. SumAmounts(h) = SumAmounts(x.outputs) + x.fee
    BY DEF Intent
  <2>2. SumOver(AmountsIn(new), 1 .. k) = SumAmounts(x.outputs) + x.fee
    BY <1>2, CreatedWorth
  <2>3. SumAmounts(h) = SumOver(AmountsOf(h), I)
    <3>1. DOMAIN h = I /\ IsFiniteSet(DOMAIN h)
      BY <1>2
    <3> HIDE DEF h, I
    <3>2. SumAmounts(h) = SumOver(AmountsOf(h), DOMAIN h)
      BY ONLY <3>1, SumAmountsIs
    <3>3. QED BY <3>1, <3>2
  <2>4. SumOver(AmountsOf(h), I) = SumOver(A, I)
    <3> DEFINE F == AmountsOf(h)
    <3>1. IsFiniteSet(I) /\ \A id \in I : F[id] = A[id]
      BY <1>2 DEF AmountsOf
    <3> HIDE DEF F, A, I, h
    <3>2. SumOver(F, I) = SumOver(A, I)
      BY ONLY <3>1, SumSame
    <3>3. QED BY <3>2 DEF F
  <2> HIDE DEF h, A, I, new, k
  <2>5. QED BY <2>1, <2>2, <2>3, <2>4
<1> HIDE DEF I, new, k, vs, cur
<1>8. IsFiniteSet(DOMAIN us) /\ IsFiniteSet(H) /\ \A id \in DOMAIN us : A[id] \in Int
  <2>1. IsFiniteSet(DOMAIN us)
    BY TableFinite
  <2>2. ASSUME NEW id \in DOMAIN us PROVE A[id] \in Int
    BY <1>1 DEF AmountsOf, Token
  <2>3. QED BY <2>1, <2>2, FS_Subset DEF InCurrency
<1>9. ASSUME NEW id \in DOMAIN us \ I PROVE B[id] = A[id] /\ id \in DOMAIN vs
  BY <1>6 DEF AmountsOf
<1>10. ASSUME NEW id \in P
       PROVE  id \in DOMAIN vs /\ vs[id].currency = cur /\ id \notin DOMAIN us
  <2>1. id - n + 1 \in 1 .. k /\ n + (id - n + 1) - 1 = id /\ id \notin 1 .. n - 1
    BY <1>1, <1>3
  <2>2. vs[id] = new[id - n + 1]
    BY <1>6, <2>1
  <2>3. QED BY <1>1, <1>4, <1>6, <2>1, <2>2
<1>11. CASE c # cur
  <2>1. InCurrency(vs, c) = H
    <3>1. \A id \in InCurrency(vs, c) : id \in H
      BY <1>6, <1>10, <1>11 DEF InCurrency
    <3>2. \A id \in H : id \in InCurrency(vs, c)
      BY <1>5, <1>6, <1>11 DEF InCurrency
    <3>3. QED BY <3>1, <3>2
  <2>2. \A id \in H : B[id] = A[id]
    BY <1>5, <1>9, <1>11 DEF InCurrency
  <2> HIDE DEF A, B, H
  <2>3. SumOver(B, H) = SumOver(A, H)
    BY <1>8, <2>2, SumSame
  <2>4. QED BY <2>1, <2>3 DEF Worth, vs, new, I, A, B, H
<1>12. CASE c = cur
  <2> DEFINE R == H \ I
  <2>1. InCurrency(vs, c) = R \cup P /\ R \cap P = {}
    <3>1. \A id \in InCurrency(vs, c) : id \in R \cup P
      BY <1>6 DEF InCurrency
    <3>2. \A id \in R \cup P : id \in InCurrency(vs, c)
      BY <1>6, <1>10, <1>12 DEF InCurrency
    <3>3. R \cap P = {}
      BY <1>10 DEF InCurrency
    <3>4. QED BY <3>1, <3>2, <3>3
  <2>2. H = R \cup I /\ R \cap I = {}
    <3>1. I \subseteq DOMAIN us
      BY DEF I
    <3>2. QED BY <1>5, <1>12, <3>1 DEF InCurrency
  <2>3. IsFiniteSet(R) /\ IsFiniteSet(P)
    BY <1>1, <1>3, <1>8, FS_Subset, FS_Interval
  <2>4. \A id \in R \cup I : A[id] \in Int
    BY <1>8, <2>2 DEF InCurrency
  <2>5. SumOver(A, R \cup I) = SumOver(A, R) + SumOver(A, I)
    <3> HIDE DEF A, R
    <3>1. QED BY <1>2, <2>2, <2>3, <2>4, SumUnion
  <2>6. \A id \in R : B[id] = A[id]
    BY <1>9 DEF InCurrency
  <2>7. SumOver(B, R) = SumOver(A, R)
    <3> HIDE DEF A, B, R
    <3>1. QED BY <2>3, <2>6, SumSame
  <2> DEFINE F == AmountsIn(new)
  <2>8. \A i \in 1 .. k : F[i] \in Int /\ B[n + i - 1] = F[i]
    <3>1. ASSUME NEW i \in 1 .. k PROVE F[i] \in Int /\ B[n + i - 1] = F[i]
      <4>1. F[i] = new[i].amount
        BY DEF AmountsIn, k
      <4>2. new[i] \in Token
        BY <1>3 DEF k
      <4>3. n + i - 1 \in P
        BY <1>1, <1>3
      <4>4. B[n + i - 1] = vs[n + i - 1].amount
        BY <1>10, <4>3 DEF AmountsOf
      <4>5. QED BY <1>6, <4>1, <4>2, <4>4 DEF Token
    <3>2. QED BY <3>1
  <2>9. SumOver(B, P) = SumOver(F, 1 .. k)
    <3>1. n \in Nat /\ k \in Nat
      BY <1>1, <1>3
    <3> HIDE DEF B, F
    <3>2. QED BY ONLY <2>8, <3>1, SumShift
  <2>10. \A id \in R \cup P : B[id] \in Int
    <3>1. ASSUME NEW id \in P PROVE B[id] \in Int
      <4>1. id - n + 1 \in 1 .. k /\ n + (id - n + 1) - 1 = id
        BY <1>1, <1>3
      <4> HIDE DEF B, F
      <4>2. QED BY <2>8, <4>1
    <3>2. \A id \in R : B[id] \in Int
      BY <2>4, <2>6
    <3> HIDE DEF P, R, B
    <3>3. QED BY <3>1, <3>2
  <2>11. SumOver(B, R \cup P) = SumOver(B, R) + SumOver(B, P)
    <3> HIDE DEF B, R, P
    <3>1. QED BY <2>1, <2>3, <2>10, SumUnion
  <2>12. SumOver(F, 1 .. k) = SumOver(A, I)
    BY <1>7
  <2> HIDE DEF A, B, F, R, P
  <2>13. SumOver(B, InCurrency(vs, c)) = SumOver(A, R \cup I)
    BY <2>1, <2>5, <2>7, <2>9, <2>11, <2>12
  <2>14. QED BY <2>2, <2>13 DEF Worth, vs, new, I, A, B, H
<1>13. QED BY <1>11, <1>12
============================================================================
