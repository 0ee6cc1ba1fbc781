---------------------------- MODULE Wallet_proofs ----------------------------
(***************************************************************************)
(* Proofs about the wallet: what a command did alone stays, although       *)
(* commands read, ask and write without a lock; no choice of fewer tokens  *)
(* would have done for a payment; and what rounding does to its value.     *)
(***************************************************************************)
EXTENDS Wallet, SumLemmas

----------------------------------------------------------------------------
(* The invariant *)

Locking == {"extend", "write", "return"}
Labels == {"idle", "prompt", "fetched", "select"} \cup Locking

Tokens == {tokens \in SUBSET Token : IsFiniteSet(tokens)}

Output == [to: {"merchant", "self"}, amount: Int, currency: Currencies]

\* A transaction that build_payment returned.
Payment == [inputs: Seq(Token), outputs: Seq(Output), signed: Int, alone: BOOLEAN]

\* The locals of a command that is to pay, and of one that has chosen.
Asking == [op: {"PAY"}, tokens: Tokens, amount: Int, currency: Currencies]
Paying == [op: {"LOCK"}, inputs: Seq(Token), amount: Int, outputs: Seq(Output),
           available: Tokens, locks: SUBSET Nat]

\* What a command holds at each place.
Holds(label, m) ==
  /\ label \in Labels
  /\ label = "fetched" => m.tokens \in Tokens
  /\ label = "select" => m \in Asking
  /\ label \in Locking => m \in Paying
  /\ label = "return" => ModelIds # "uuid"

Shape ==
  /\ keys \in Seq(BOOLEAN) /\ file \in Tokens /\ locked \subseteq Nat
  /\ payments \in Seq(Payment)
  /\ pc = [c \in Commands |-> pc[c]] /\ mem = [c \in Commands |-> mem[c]]
  /\ alone \in [Commands -> BOOLEAN]
  /\ \A c \in Commands : Holds(pc[c], mem[c])

\* A command that is alone at the prompt finds no key and no other command
\* there; once it has created the key, nobody is.
KeyIsKept ==
  /\ \A i \in DOMAIN keys : keys[i] => i = Len(keys) /\ \A c \in Commands : pc[c] # "prompt"
  /\ \A c \in Commands :
       pc[c] = "prompt" /\ alone[c] =>
         keys = <<>> /\ \A d \in Commands : pc[d] = "prompt" => d = c

\* A command that is alone with the locks is the only one that has chosen, and
\* what it has locked stays locked.
OneChooses ==
  \A c \in Commands :
    pc[c] \in Locking /\ alone[c] =>
      /\ \A d \in Commands : pc[d] \in Locking => d = c
      /\ pc[c] = "return" => InputIds(mem[c]) \subseteq locked

\* Tokens of a payment that was made alone are locked, in every copy of the
\* locks that is to be written too, and no other payment has or gets them.
Reserved(i) ==
  /\ InputIds(payments[i]) \subseteq locked
  /\ \A j \in DOMAIN payments :
       i < j => InputIds(payments[i]) \cap InputIds(payments[j]) = {}
  /\ \A c \in Commands :
       /\ pc[c] \in Locking => InputIds(payments[i]) \cap InputIds(mem[c]) = {}
       /\ pc[c] = "write" => InputIds(payments[i]) \subseteq mem[c].locks

TokensAreKept ==
  /\ ModelIds = "uuid" => payments = <<>>
  /\ \A i \in DOMAIN payments : payments[i].alone => Reserved(i)

\* What FewestInputs says of the locals of a command.
Fewest(m) ==
  /\ ToSet(m.inputs) \subseteq m.available
  /\ Worth(ToSet(m.inputs)) >= m.amount
  /\ \A s \in SUBSET m.available :
       Cardinality(s) < Len(m.inputs) => Worth(s) < m.amount
  /\ IF RoundedAlike(m)
     THEN SumOf(m.outputs) - SumOf(m.inputs) \in {-1, 1}
     ELSE EconomicallyValid(m.inputs, m.outputs)

WInv == Shape /\ KeyIsKept /\ OneChooses /\ TokensAreKept /\ FewestInputs

----------------------------------------------------------------------------
(* Sums of amounts *)

AmountOf == [u \in Token |-> u.amount]

\* Total is the sum that SumLemmas speaks of.
LEMMA TotalIs ==
  ASSUME NEW T \in Tokens
  PROVE  Total(T) = SumOver(AmountOf, T)
<1> DEFINE A == AmountOf
           Eq(g) == g = [s \in SUBSET T |->
                           IF s = {} THEN 0
                           ELSE (CHOOSE x \in s : TRUE).amount
                                + g[s \ {CHOOSE x \in s : TRUE}]]
           g == CHOOSE g : Eq(g)
<1>0. IsFiniteSet(T)
  BY DEF Tokens
<1>1. ASSUME NEW h
      PROVE  Eq(h) <=> SumEquation(A, h, SUBSET T)
  <2>1. ASSUME NEW s \in SUBSET T, s # {}
        PROVE  A[Some(s)] = (CHOOSE x \in s : TRUE).amount
    <3>1. Some(s) \in Token
      BY <2>1 DEF Some, Tokens
    <3>2. QED BY <3>1 DEF AmountOf, Some
  <2>2. \A s \in SUBSET T :
          (IF s = {} THEN 0 ELSE A[Some(s)] + h[s \ {Some(s)}])
            = IF s = {} THEN 0 ELSE (CHOOSE x \in s : TRUE).amount
                                    + h[s \ {CHOOSE x \in s : TRUE}]
    BY <2>1 DEF Some
  <2> HIDE DEF A
  <2>3. QED BY <2>2, Zenon DEF SumEquation
<1>2. Eq(g)
  <2> HIDE DEF A, Eq
  <2>1. \E h : SumEquation(A, h, SUBSET T)
    BY ONLY <1>0, SumExists
  <2>2. \E h : Eq(h)
    BY <1>1, <2>1
  <2>3. QED BY <2>2
<1>3. Total(T) = g[T]
  BY DEF Total, MapThenSumSet, MapThenFoldSet
<1> HIDE DEF g, A, Eq
<1>4. g[T] = SumOver(A, T)
  BY <1>0, <1>1, <1>2, SumOverIs
<1>5. QED BY <1>3, <1>4 DEF A

LEMMA AmountsAreNat ==
  ASSUME NEW T \in Tokens
  PROVE  IsFiniteSet(T) /\ \A u \in T : u \in Token /\ AmountOf[u] = u.amount /\ u.amount \in Nat
BY DEF Tokens, Token, AmountOf

LEMMA TotalFacts ==
  /\ {} \in Tokens /\ Total({}) = 0
  /\ \A T \in Tokens : Total(T) \in Int
  /\ \A T \in Tokens, x \in Token : x \notin T =>
       T \cup {x} \in Tokens /\ Total(T \cup {x}) = Total(T) + x.amount
  /\ \A T \in Tokens, x \in Token : x \in T =>
       T \ {x} \in Tokens /\ Total(T) = Total(T \ {x}) + x.amount
<1>1. {} \in Tokens /\ Total({}) = 0
  <2>1. {} \in Tokens
    BY FS_EmptySet DEF Tokens
  <2>2. QED BY <2>1, TotalIs, SumEmpty
<1>2. ASSUME NEW T \in Tokens PROVE Total(T) \in Int
  BY TotalIs, AmountsAreNat, SumType
<1>3. ASSUME NEW T \in Tokens, NEW x \in Token, x \notin T
      PROVE  T \cup {x} \in Tokens /\ Total(T \cup {x}) = Total(T) + x.amount
  <2>1. T \cup {x} \in Tokens
    BY FS_AddElement DEF Tokens
  <2>2. AmountOf[x] = x.amount /\ x.amount \in Int
    BY DEF AmountOf, Token
  <2>3. IsFiniteSet(T) /\ \A u \in T : AmountOf[u] \in Int
    BY AmountsAreNat
  <2>4. SumOver(AmountOf, T \cup {x}) = SumOver(AmountOf, T) + AmountOf[x]
    BY ONLY <1>3, <2>2, <2>3, SumAdd
  <2>5. QED BY <2>1, <2>2, <2>4, TotalIs
<1>4. ASSUME NEW T \in Tokens, NEW x \in Token, x \in T
      PROVE  T \ {x} \in Tokens /\ Total(T) = Total(T \ {x}) + x.amount
  <2>1. T \ {x} \in Tokens /\ x \notin T \ {x} /\ (T \ {x}) \cup {x} = T
    BY <1>4, FS_RemoveElement DEF Tokens
  <2>2. QED BY <1>3, <2>1
<1>5. QED BY <1>1, <1>2, <1>3, <1>4

\* The sum over a list, as EconomicallyValid takes it.
AmountsAt(q) == [i \in DOMAIN q |-> q[i].amount]

LEMMA SumOfIs ==
  ASSUME NEW q, IsFiniteSet(DOMAIN q)
  PROVE  SumOf(q) = SumOver(AmountsAt(q), DOMAIN q)
<1> DEFINE A == AmountsAt(q)
           T == DOMAIN q
           Eq(g) == g = [s \in SUBSET T |->
                           IF s = {} THEN 0
                           ELSE q[CHOOSE x \in s : TRUE].amount
                                + g[s \ {CHOOSE x \in s : TRUE}]]
           g == CHOOSE g : Eq(g)
<1>1. ASSUME NEW h
      PROVE  Eq(h) <=> SumEquation(A, h, SUBSET T)
  <2>1. ASSUME NEW s \in SUBSET T, s # {}
        PROVE  A[Some(s)] = q[CHOOSE x \in s : TRUE].amount
    <3>1. Some(s) \in T
      BY <2>1 DEF Some
    <3>2. QED BY <3>1 DEF AmountsAt, Some
  <2>2. \A s \in SUBSET T :
          (IF s = {} THEN 0 ELSE A[Some(s)] + h[s \ {Some(s)}])
            = IF s = {} THEN 0 ELSE q[CHOOSE x \in s : TRUE].amount
                                    + h[s \ {CHOOSE x \in s : TRUE}]
    BY <2>1 DEF Some
  <2> HIDE DEF A, T
  <2>3. QED BY <2>2, Zenon DEF SumEquation
<1>2. Eq(g)
  <2>1. IsFiniteSet(T)
    OBVIOUS
  <2> HIDE DEF A, T, Eq
  <2>2. \E h : SumEquation(A, h, SUBSET T)
    BY ONLY <2>1, SumExists
  <2>3. \E h : Eq(h)
    BY <1>1, <2>2
  <2>4. QED BY <2>3
<1>3. SumOf(q) = g[T]
  BY DEF SumOf, MapThenSumSet, MapThenFoldSet
<1> HIDE DEF g, A, T, Eq
<1>4. g[T] = SumOver(A, T)
  BY <1>1, <1>2, SumOverIs DEF T
<1>5. QED BY <1>3, <1>4 DEF A, T

----------------------------------------------------------------------------
(* Sorted lists *)

\* The first k tokens of a list.
First(seq, k) == {seq[i] : i \in 1 .. k}

LEMMA SortedList ==
  ASSUME NEW A \in Tokens, NEW seq \in LargestFirst(A)
  PROVE  /\ seq \in Seq(Token) /\ Len(seq) = Cardinality(A) /\ Len(seq) \in Nat
         /\ DOMAIN seq = 1 .. Len(seq)
         /\ \A i \in DOMAIN seq : seq[i] \in A
         /\ \A i, j \in DOMAIN seq : seq[i] = seq[j] => i = j
         /\ \A i, j \in DOMAIN seq : i < j => seq[i].amount >= seq[j].amount
         /\ \A u \in A : \E i \in DOMAIN seq : u = seq[i]
<1> DEFINE N == Cardinality(A)
<1>1. IsFiniteSet(A) /\ A \subseteq Token /\ N \in Nat
  BY FS_CardinalityType DEF Tokens
<1>2. /\ seq \in [1 .. N -> A] /\ \A i, j \in 1 .. N : i # j => seq[i] # seq[j]
      /\ \A i, j \in DOMAIN seq : i < j => seq[i].amount >= seq[j].amount
  BY DEF LargestFirst, SetToSeqs
<1>3. seq \in Seq(Token) /\ Len(seq) = N /\ DOMAIN seq = 1 .. N
  BY <1>1, <1>2
<1>4. seq \in Surjection(1 .. N, A)
  <2>1. IsFiniteSet(1 .. N) /\ Cardinality(1 .. N) = N
    <3>1. 1 \in Int /\ N \in Int /\ (IF 1 > N THEN 0 ELSE N - 1 + 1) = N
      BY <1>1
    <3>2. QED BY <3>1, FS_Interval
  <2>2. seq \in Injection(1 .. N, A)
    BY <1>2 DEF Injection, IsInjective
  <2>3. QED BY <1>1, <2>1, <2>2, FS_Injection
<1>5. \A u \in A : \E i \in 1 .. N : u = seq[i]
  BY <1>4 DEF Surjection
<1>6. QED BY <1>1, <1>2, <1>3, <1>5

\* What the first k tokens of a sorted list are.
Tops(A, seq, k) ==
  /\ First(seq, k) \in Tokens /\ Cardinality(First(seq, k)) = k
  /\ Total(First(seq, k)) = SumOver(AmountsAt(seq), 1 .. k)
  /\ \A s \in SUBSET A : Cardinality(s) =< k => Total(s) =< Total(First(seq, k))

\* The first k tokens are worth their amounts in the list, and no k tokens are
\* worth more: of k + 1 tokens, one is not among the first k, so that it is
\* worth no more than the next in the list.
LEMMA FirstAreMost ==
  ASSUME NEW A \in Tokens, NEW seq \in LargestFirst(A)
  PROVE  \A k \in 0 .. Len(seq) : Tops(A, seq, k)
<1> DEFINE N == Len(seq)
           S == {k \in Nat : k =< N => Tops(A, seq, k)}
<1>1. /\ N \in Nat /\ DOMAIN seq = 1 .. N /\ IsFiniteSet(A)
      /\ \A i \in 1 .. N : seq[i] \in A /\ seq[i] \in Token
      /\ \A i, j \in 1 .. N : seq[i] = seq[j] => i = j
      /\ \A i, j \in 1 .. N : i < j => seq[i].amount >= seq[j].amount
      /\ \A u \in A : \E i \in 1 .. N : u = seq[i]
  BY SortedList DEF Tokens
<1>2. 0 \in S
  <2>1. First(seq, 0) = {} /\ 1 .. 0 = {}
    BY DEF First
  <2>2. SumOver(AmountsAt(seq), {}) = 0
    BY SumEmpty
  <2>3. ASSUME NEW s \in SUBSET A, Cardinality(s) =< 0 PROVE s = {}
    BY <1>1, <2>3, FS_Subset, FS_CardinalityType, FS_EmptySet
  <2>4. Tops(A, seq, 0)
    BY <2>1, <2>2, <2>3, TotalFacts, FS_EmptySet DEF Tops
  <2>5. QED BY <2>4
<1>3. ASSUME NEW k \in Nat, k \in S PROVE k + 1 \in S
  <2> SUFFICES ASSUME k + 1 =< N PROVE Tops(A, seq, k + 1)
    OBVIOUS
  <2> DEFINE x == seq[k + 1]
             F == First(seq, k)
             G == First(seq, k + 1)
  <2>1. k \in 1 .. N \/ k = 0
    BY <1>1
  <2>2. k + 1 \in 1 .. N /\ x \in A /\ x \in Token /\ x.amount \in Nat
    BY <1>1 DEF Token
  <2>3. F \in Tokens /\ Cardinality(F) = k /\ Total(F) = SumOver(AmountsAt(seq), 1 .. k)
    BY <1>1, <1>3 DEF Tops
  <2>4. \A s \in SUBSET A : Cardinality(s) =< k => Total(s) =< Total(F)
    BY <1>1, <1>3 DEF Tops
  <2>5. x \notin F /\ G = F \cup {x} /\ IsFiniteSet(F)
    <3>1. 1 .. k + 1 = (1 .. k) \cup {k + 1} /\ \A i \in 1 .. k : i \in 1 .. N /\ i # k + 1
      BY <1>1
    <3>2. QED BY <1>1, <2>2, <2>3, <3>1 DEF First, Tokens
  <2>6. G \in Tokens /\ Total(G) = Total(F) + x.amount
    <3> HIDE DEF x, F, G
    <3>1. QED BY <2>2, <2>3, <2>5, TotalFacts
  <2>7. Cardinality(G) = k + 1
    <3> HIDE DEF x, F, G
    <3>1. QED BY <2>3, <2>5, FS_AddElement
  <2>8. Total(G) = SumOver(AmountsAt(seq), 1 .. k + 1)
    <3>1. 1 .. k + 1 = (1 .. k) \cup {k + 1} /\ k + 1 \notin 1 .. k
      OBVIOUS
    <3>2. IsFiniteSet(1 .. k)
      BY FS_Interval
    <3>3. \A i \in (1 .. k) \cup {k + 1} : AmountsAt(seq)[i] \in Int
      BY <1>1 DEF AmountsAt, Token
    <3>4. AmountsAt(seq)[k + 1] = x.amount
      BY <1>1, <2>2 DEF AmountsAt
    <3>5. SumOver(AmountsAt(seq), (1 .. k) \cup {k + 1})
            = SumOver(AmountsAt(seq), 1 .. k) + AmountsAt(seq)[k + 1]
      <4>1. \A i \in 1 .. k : AmountsAt(seq)[i] \in Int
        BY <3>3
      <4>2. AmountsAt(seq)[k + 1] \in Int
        BY <3>3
      <4>3. PICK K, n : K = 1 .. k /\ n = k + 1
        OBVIOUS
      <4>4. n \notin K /\ IsFiniteSet(K)
        BY <3>1, <3>2, <4>3
      <4>5. AmountsAt(seq)[n] \in Int /\ \A i \in K : AmountsAt(seq)[i] \in Int
        BY <4>1, <4>2, <4>3
      <4>6. SumOver(AmountsAt(seq), K \cup {n}) = SumOver(AmountsAt(seq), K) + AmountsAt(seq)[n]
        BY ONLY <4>4, <4>5, SumAdd
      <4>7. QED BY <4>3, <4>6
    <3>6. QED BY <2>3, <2>6, <3>1, <3>4, <3>5
  <2>9. ASSUME NEW s \in SUBSET A, Cardinality(s) =< k + 1 PROVE Total(s) =< Total(G)
    <3>0. s \in Tokens /\ IsFiniteSet(s) /\ Total(s) \in Int /\ Total(F) \in Int
      BY <1>1, <2>3, FS_Subset, TotalFacts DEF Tokens
    <3>1. CASE s \subseteq F
      <4>1. Cardinality(s) =< k
        BY <2>3, <2>5, <3>1, FS_Subset
      <4>2. QED BY <2>2, <2>4, <2>6, <3>0, <4>1
    <3>2. ASSUME NEW y \in s, y \notin F PROVE Total(s) =< Total(G)
      <4>1. PICK j \in 1 .. N : y = seq[j]
        BY <1>1
      <4>2. j \notin 1 .. k
        BY <3>2, <4>1 DEF First
      <4>3. y \in Token /\ y.amount \in Nat /\ y.amount =< x.amount
        <5>1. j = k + 1 \/ k + 1 < j
          BY <1>1, <4>2
        <5>2. y \in Token /\ y.amount \in Nat
          BY <1>1, <4>1 DEF Token
        <5>3. QED BY <1>1, <2>2, <4>1, <5>1, <5>2
      <4>4. s \ {y} \in SUBSET A /\ Cardinality(s \ {y}) =< k
        <5>1. Cardinality(s) \in Nat /\ Cardinality(s) =< k + 1
          BY <2>9, <3>0, FS_CardinalityType
        <5>2. Cardinality(s \ {y}) = Cardinality(s) - 1
          BY <3>0, <3>2, FS_RemoveElement
        <5>3. QED BY <5>1, <5>2
      <4>5. Total(s \ {y}) =< Total(F)
        BY <2>4, <4>4
      <4>6. Total(s) = Total(s \ {y}) + y.amount /\ Total(s \ {y}) \in Int
        BY <3>0, <4>3, TotalFacts
      <4> HIDE DEF x, F, G
      <4>7. QED BY <2>2, <2>6, <3>0, <4>3, <4>5, <4>6
    <3>3. QED BY <3>1, <3>2
  <2>10. QED BY <2>6, <2>7, <2>8, <2>9 DEF Tops
<1>4. Nat \subseteq S
  <2> HIDE DEF S
  <2>1. QED BY <1>2, <1>3, NatSetInduction
<1>5. QED BY <1>1, <1>4

----------------------------------------------------------------------------
(* What build_payment chooses *)

LEMMA MinFacts ==
  ASSUME NEW S \in SUBSET Nat, S # {}
  PROVE  Min(S) \in S /\ \A y \in S : Min(S) =< y
<1> DEFINE R == {ss \in Nat \X Nat : ss[1] < ss[2]}
<1>1. IsWellFoundedOn(R, Nat)
  BY NatLessThanWellFounded DEF OpToRel
<1>2. PICK m \in S : \A y \in S : <<y, m>> \notin R
  <2> HIDE DEF R
  <2>1. QED BY <1>1, WFMin
<1>3. ASSUME NEW y \in S PROVE m =< y
  <2>1. y \in Nat /\ m \in Nat /\ <<y, m>> \notin R
    BY <1>2
  <2>2. ~ (y < m)
    BY <2>1
  <2>3. QED BY <2>1, <2>2
<1>4. QED BY <1>3 DEF Min

\* Division by the units of a cent.
LEMMA UnitsOf ==
  ASSUME NEW a \in Int
  PROVE  /\ Subunits \in Nat \ {0} /\ a \div Subunits \in Int
         /\ (a % Subunits) \in Nat /\ (a % Subunits) < Subunits
         /\ a = (Subunits * (a \div Subunits)) + (a % Subunits)
<1>0. PICK S \in Nat \ {0} : S = Subunits
  BY WalletAssumption
<1>1. a \div S \in Int
  OBVIOUS
<1>2. (a % S) \in 0 .. S - 1
  OBVIOUS
<1>3. a = (S * (a \div S)) + (a % S)
  OBVIOUS
<1>4. QED BY <1>0, <1>1, <1>2, <1>3

LEMMA CentsGrow ==
  ASSUME NEW S \in Nat \ {0}, NEW i \in Int, NEW j \in Int, i < j
  PROVE  /\ S * i \in Int /\ S * j \in Int /\ S * i + S =< S * j
<1>1. PICK k \in Nat : j = i + (k + 1)
  <2>1. j - i - 1 \in Nat /\ j = i + ((j - i - 1) + 1)
    OBVIOUS
  <2>2. QED BY <2>1
<1>2. S * j = S * i + S * (k + 1)
  BY <1>1
<1>3. S * (k + 1) = S * k + S /\ S * k >= 0 /\ S * k \in Int
  OBVIOUS
<1>4. S * i \in Int /\ S * j \in Int
  OBVIOUS
<1>5. QED BY <1>2, <1>3, <1>4

LEMMA WorthOrder ==
  ASSUME NEW x \in Int, NEW y \in Int, x =< y
  PROVE  Subunits * x =< Subunits * y
<1>0. PICK S \in Nat \ {0} : S = Subunits
  BY WalletAssumption
<1>1. CASE x = y
  BY <1>0, <1>1
<1>2. CASE x < y
  <2>1. S * x \in Int /\ S * y \in Int /\ S * x + S =< S * y
    BY <1>2, CentsGrow
  <2>2. QED BY <1>0, <2>1
<1>3. QED BY <1>1, <1>2

\* An amount of i cents and u units is divided in one way.
LEMMA OneDivision ==
  ASSUME NEW a \in Int, NEW i \in Int, NEW u \in Nat, u < Subunits, a = (Subunits * i) + u
  PROVE  a \div Subunits = i /\ (a % Subunits) = u
<1>0. PICK S \in Nat \ {0} : S = Subunits
  BY WalletAssumption
<1>1. PICK j \in Int, v \in Nat :
        j = a \div S /\ v = (a % S) /\ v < S /\ a = (S * j) + v
  BY <1>0, UnitsOf
<1>2. ~ (i < j)
  <2>1. i < j => S * i \in Int /\ S * j \in Int /\ S * i + S =< S * j
    BY CentsGrow
  <2>2. QED BY <1>0, <1>1, <2>1
<1>3. ~ (j < i)
  <2>1. j < i => S * i \in Int /\ S * j \in Int /\ S * j + S =< S * i
    BY CentsGrow
  <2>2. QED BY <1>0, <1>1, <2>1
<1>4. i = j
  BY <1>2, <1>3
<1>5. u = v
  BY <1>0, <1>1, <1>4
<1>6. QED BY <1>0, <1>1, <1>4, <1>5

\* The rounded amount a and the rounded rest of t cents are worth t cents again,
\* unless a ends in half a cent and t is odd: then they are a cent off.
LEMMA RoundedSum ==
  ASSUME NEW t \in Int, NEW a \in Int, Subunits * t >= a
  PROVE  LET rest  == Subunits * t - a
             sum   == Cents(a) + (IF rest > 0 THEN Cents(rest) ELSE 0)
             alike == 2 * (a % Subunits) = Subunits /\ t % 2 = 1
         IN  /\ Cents(a) \in Int /\ Cents(rest) \in Int
             /\ alike => sum - t \in {-1, 1}
             /\ ~ alike => sum = t
<1> DEFINE rest == Subunits * t - a
<1>1. PICK S \in Nat \ {0} : S = Subunits
  BY WalletAssumption
<1>2. PICK q \in Int, r \in Nat :
        q = a \div S /\ r = (a % S) /\ r < S /\ a = (S * q) + r
  BY <1>1, UnitsOf
<1>3. /\ S * t \in Int /\ S * q \in Int /\ rest \in Int /\ rest >= 0
      /\ rest = S * t - (S * q + r)
  BY <1>1, <1>2
<1>4. Cents(a) = IF 2 * r > S \/ (2 * r = S /\ q % 2 = 1) THEN q + 1 ELSE q
  BY <1>1, <1>2 DEF Cents
<1>5. CASE r = 0
  <2>1. S * (t - q) = S * t - S * q /\ rest = (S * (t - q)) + 0
    BY <1>3, <1>5
  <2>2. rest \div S = t - q /\ (rest % S) = 0
    <3> HIDE DEF rest
    <3>1. t - q \in Int /\ 0 \in Nat /\ 0 < Subunits
      BY <1>1
    <3>2. QED BY <1>1, <1>3, <2>1, <3>1, OneDivision
  <2>3. Cents(rest) = t - q
    <3> HIDE DEF rest
    <3>1. QED BY <1>1, <2>2 DEF Cents
  <2>4. Cents(a) = q
    BY <1>4, <1>5
  <2>5. ~ (rest > 0) => t = q
    <3>1. ~ (rest > 0) => rest = (S * 0) + 0
      <4> HIDE DEF rest
      <4>1. QED BY <1>3
    <3>2. 0 \in Int /\ 0 \in Nat /\ 0 < Subunits
      BY <1>1
    <3>3. ~ (rest > 0) => rest \div S = 0
      <4> HIDE DEF rest
      <4>1. QED BY <1>1, <1>3, <3>1, <3>2, OneDivision
    <3> HIDE DEF rest
    <3>4. QED BY <2>2, <3>3
  <2>6. ~ (2 * (a % Subunits) = Subunits)
    BY <1>1, <1>2, <1>5
  <2> HIDE DEF rest
  <2>7. QED BY <2>3, <2>4, <2>5, <2>6 DEF rest
<1>6. CASE r # 0
  <2> DEFINE x == t - q - 1
             u == S - r
  <2>1. S * x = S * t - S * q - S /\ rest = (S * x) + u
    BY <1>3
  <2>2. x \in Int /\ u \in Nat /\ u < S /\ u # 0
    BY <1>2, <1>6
  <2>3. rest \div S = x /\ (rest % S) = u
    <3> HIDE DEF rest, x, u
    <3>1. QED BY <1>1, <1>3, <2>1, <2>2, OneDivision
  <2>4. Cents(rest) = IF 2 * u > S \/ (2 * u = S /\ x % 2 = 1) THEN x + 1 ELSE x
    <3> HIDE DEF rest, x, u
    <3>1. QED BY <1>1, <2>3 DEF Cents
  <2>5. rest > 0
    <3>1. rest # 0
      <4>1. rest = 0 => rest = (S * 0) + 0
        <5> HIDE DEF rest
        <5>1. QED BY <1>3
      <4>2. rest = 0 => (rest % S) = 0
        <5> HIDE DEF rest
        <5>1. 0 \in Int /\ 0 \in Nat /\ 0 < Subunits
          BY <1>1
        <5>2. QED BY <1>1, <1>3, <4>1, <5>1, OneDivision
      <4> HIDE DEF rest, u, x
      <4>3. QED BY <2>2, <2>3, <4>2
    <3> HIDE DEF rest
    <3>2. QED BY <1>3, <3>1
  <2>6. (2 * (a % Subunits) = Subunits) <=> 2 * r = S
    BY <1>1, <1>2
  <2> HIDE DEF rest
  <2>7. CASE 2 * r > S
    BY <1>4, <2>2, <2>4, <2>5, <2>6, <2>7 DEF rest
  <2>8. CASE 2 * r < S
    BY <1>4, <2>2, <2>4, <2>5, <2>6, <2>8 DEF rest
  <2>9. CASE 2 * r = S
    <3>1. 2 * u = S
      BY <2>9
    <3>2. Cents(a) = IF q % 2 = 1 THEN q + 1 ELSE q
      BY <1>4, <2>9
    <3>3. Cents(rest) = IF x % 2 = 1 THEN x + 1 ELSE x
      BY <2>4, <3>1
    <3>4. /\ t % 2 = 1 => (q % 2 = 1 <=> x % 2 = 1)
          /\ ~ (t % 2 = 1) => (q % 2 = 1 <=> ~ (x % 2 = 1))
      OBVIOUS
    <3>5. QED BY <2>5, <2>6, <2>9, <3>2, <3>3, <3>4 DEF rest
  <2>10. QED BY <2>7, <2>8, <2>9
<1>7. QED BY <1>5, <1>6

\* The tokens chosen are the first; if they reach the amount, no fewer do.
LEMMA ChosenFacts ==
  ASSUME NEW A \in Tokens, NEW seq \in LargestFirst(A), NEW amount \in Int, amount > 0
  PROVE  \E n \in 0 .. Len(seq) :
           /\ Chosen(seq, amount) = SubSeq(seq, 1, n)
           /\ Len(Chosen(seq, amount)) = n
           /\ ToSet(Chosen(seq, amount)) = First(seq, n)
           /\ Worth(ToSet(Chosen(seq, amount))) >= amount =>
                n # 0 /\ \A s \in SUBSET A : Cardinality(s) < n => Worth(s) < amount
<1> DEFINE N == Len(seq)
           enough == {n \in 1 .. N : Worth(ToSet(SubSeq(seq, 1, n))) >= amount}
           n == IF enough = {} THEN N ELSE Min(enough)
<1>1. N \in Nat /\ seq \in Seq(Token)
  BY SortedList
<1>2. ASSUME NEW k \in 0 .. N
      PROVE  /\ SubSeq(seq, 1, k) \in Seq(Token) /\ Len(SubSeq(seq, 1, k)) = k
             /\ ToSet(SubSeq(seq, 1, k)) = First(seq, k)
  <2>1. SubSeq(seq, 1, k) \in Seq(Token) /\ Len(SubSeq(seq, 1, k)) = k
    BY <1>1
  <2>2. \A i \in 1 .. k : SubSeq(seq, 1, k)[i] = seq[i]
    BY <1>1
  <2>3. DOMAIN SubSeq(seq, 1, k) = 1 .. k
    BY <2>1
  <2> HIDE DEF N
  <2>4. QED BY <2>1, <2>2, <2>3 DEF ToSet, First
<1>3. Chosen(seq, amount) = SubSeq(seq, 1, n)
  BY DEF Chosen
<1>4. enough # {} => n \in enough /\ \A k \in enough : n =< k
  <2>1. enough \in SUBSET Nat
    BY <1>1
  <2> HIDE DEF enough
  <2>2. QED BY <2>1, MinFacts
<1>5. n \in 0 .. N
  <2> HIDE DEF n
  <2>1. CASE enough = {}
    BY <1>1, <2>1 DEF n
  <2>2. CASE enough # {}
    BY <1>1, <1>4, <2>2
  <2>3. QED BY <2>1, <2>2
<1>6. ASSUME Worth(ToSet(Chosen(seq, amount))) >= amount
      PROVE  n # 0 /\ \A s \in SUBSET A : Cardinality(s) < n => Worth(s) < amount
  <2>1. Worth(First(seq, n)) >= amount
    <3> HIDE DEF n
    <3>1. QED BY <1>2, <1>3, <1>5, <1>6
  <2>2. n # 0
    <3>1. First(seq, 0) = {} /\ Worth({}) = 0
      BY TotalFacts, WalletAssumption DEF First, Worth
    <3>2. ~ (Worth(First(seq, 0)) >= amount)
      BY <3>1
    <3> HIDE DEF n
    <3>3. QED BY <2>1, <3>2
  <2>3. n \in enough
    <3>1. n \in 1 .. N
      <4> HIDE DEF n
      <4>1. QED BY <1>1, <1>5, <2>2
    <3>2. ToSet(SubSeq(seq, 1, n)) = First(seq, n)
      <4> HIDE DEF n
      <4>1. QED BY <1>2, <1>5
    <3> HIDE DEF n
    <3>3. QED BY <2>1, <3>1, <3>2
  <2>4. ASSUME NEW s \in SUBSET A, Cardinality(s) < n PROVE Worth(s) < amount
    <3>1. n \in 1 .. N /\ n - 1 \in 0 .. N
      <4> HIDE DEF n
      <4>1. QED BY <1>1, <1>5, <2>2
    <3>2. Cardinality(s) \in Nat /\ s \in Tokens /\ Total(s) \in Int
      BY FS_Subset, FS_CardinalityType, TotalFacts DEF Tokens
    <3>3. Tops(A, seq, n - 1)
      <4> HIDE DEF n
      <4>1. QED BY <3>1, FirstAreMost
    <3>4. Total(s) =< Total(First(seq, n - 1)) /\ Total(First(seq, n - 1)) \in Int
      <4> HIDE DEF n
      <4>1. QED BY <2>4, <3>1, <3>2, <3>3, TotalFacts DEF Tops
    <3>5. Worth(First(seq, n - 1)) < amount
      <4>1. CASE n = 1
        <5>1. First(seq, 0) = {} /\ Worth({}) = 0 /\ n - 1 = 0
          BY <4>1, TotalFacts, WalletAssumption DEF First, Worth
        <5> HIDE DEF n
        <5>2. First(seq, n - 1) = {}
          BY <5>1
        <5>3. QED BY <5>1, <5>2
      <4>2. CASE n # 1
        <5>1. n - 1 \notin enough /\ n - 1 \in 1 .. N
          <6> HIDE DEF n, enough
          <6>1. QED BY <1>1, <1>4, <2>3, <3>1, <4>2
        <5>2. ToSet(SubSeq(seq, 1, n - 1)) = First(seq, n - 1)
          <6> HIDE DEF n, enough
          <6>1. QED BY <1>2, <3>1
        <5>3. ~ (Worth(First(seq, n - 1)) >= amount)
          <6> HIDE DEF n
          <6>1. QED BY <5>1, <5>2
        <5>4. Worth(First(seq, n - 1)) \in Int
          <6> HIDE DEF n
          <6>1. QED BY <3>4, WalletAssumption DEF Worth
        <5> HIDE DEF n
        <5>5. QED BY <5>3, <5>4
      <4>3. QED BY <4>1, <4>2
    <3> HIDE DEF n
    <3>6. Worth(s) =< Worth(First(seq, n - 1))
      BY <3>2, <3>4, WorthOrder DEF Worth
    <3>7. Worth(s) \in Int /\ Worth(First(seq, n - 1)) \in Int
      BY <3>2, <3>4, WalletAssumption DEF Worth
    <3>8. QED BY <3>5, <3>6, <3>7
  <2>5. QED BY <2>2, <2>4
<1>7. n \in 0 .. N /\ Len(SubSeq(seq, 1, n)) = n /\ ToSet(SubSeq(seq, 1, n)) = First(seq, n)
  <2> HIDE DEF n
  <2>1. QED BY <1>2, <1>5
<1>8. QED
  <2> HIDE DEF n
  <2>1. QED BY <1>3, <1>6, <1>7

\* The outputs are in the currency of the payment, and worth what RoundedSum
\* says.
LEMMA OutputsFacts ==
  ASSUME NEW chosen, NEW amount \in Int, NEW currency \in Currencies,
         Total(ToSet(chosen)) \in Int, Worth(ToSet(chosen)) >= amount
  PROVE  LET q    == Outputs(chosen, amount, currency)
             rest == Worth(ToSet(chosen)) - amount
         IN  /\ q \in Seq(Output) /\ q[1].currency = currency
             /\ SumOf(q) = Cents(amount) + (IF rest > 0 THEN Cents(rest) ELSE 0)
<1> DEFINE t == Total(ToSet(chosen))
           rest == Worth(ToSet(chosen)) - amount
           q == Outputs(chosen, amount, currency)
           x == Cents(amount)
           y == Cents(rest)
           a == [to |-> "merchant", amount |-> x, currency |-> currency]
           b == [to |-> "self", amount |-> y, currency |-> currency]
<1>0. x \in Int /\ y \in Int
  BY RoundedSum DEF Worth
<1>1. a \in Output /\ b \in Output
  <2> HIDE DEF x, y
  <2>1. QED BY <1>0 DEF Output
<1>2. q = IF rest > 0 THEN <<a>> \o <<b>> ELSE <<a>> \o <<>>
  BY DEF Outputs
<1>3. IsFiniteSet({}) /\ SumOver(AmountsAt(q), {}) = 0
  BY FS_EmptySet, SumEmpty
<1>4. CASE rest > 0
  <2>1. q = <<a>> \o <<b>>
    <3> HIDE DEF a, b, q, rest
    <3>1. QED BY <1>2, <1>4
  <2>2. q \in Seq(Output) /\ DOMAIN q = {1, 2} /\ q[1] = a /\ q[2] = b
    <3> HIDE DEF a, b, q
    <3>1. /\ <<a>> \in Seq(Output) /\ Len(<<a>>) = 1 /\ <<a>>[1] = a
          /\ <<b>> \in Seq(Output) /\ Len(<<b>>) = 1 /\ <<b>>[1] = b
      BY <1>1
    <3>2. q \in Seq(Output) /\ Len(q) = 2
      BY <2>1, <3>1
    <3>3. q[1] = a /\ q[2] = b
      BY <2>1, <3>1
    <3>4. DOMAIN q = {1, 2}
      BY <3>2
    <3>5. QED BY <3>2, <3>3, <3>4
  <2>3. AmountsAt(q)[1] = x /\ AmountsAt(q)[2] = y /\ q[1].currency = currency
    <3>1. a.amount = x /\ b.amount = y /\ a.currency = currency
      OBVIOUS
    <3> HIDE DEF a, b, q, x, y
    <3>2. QED BY <2>2, <3>1 DEF AmountsAt
  <2> HIDE DEF q, a, b, x, y, rest
  <2>4. IsFiniteSet({1}) /\ IsFiniteSet({1, 2})
    <3>1. IsFiniteSet({1})
      BY FS_Singleton
    <3>2. {1, 2} = {1} \cup {2}
      OBVIOUS
    <3>3. QED BY <3>1, <3>2, FS_AddElement
  <2>5. SumOver(AmountsAt(q), {1, 2}) = AmountsAt(q)[2] + SumOver(AmountsAt(q), {1})
    <3>1. \A i \in {1, 2} : AmountsAt(q)[i] \in Int
      BY <1>0, <2>3
    <3>2. SumOver(AmountsAt(q), {1, 2}) = AmountsAt(q)[2] + SumOver(AmountsAt(q), {1, 2} \ {2})
      <4>1. 2 \in {1, 2}
        OBVIOUS
      <4>2. QED BY ONLY <2>4, <3>1, <4>1, SumRemove
    <3>3. {1, 2} \ {2} = {1}
      OBVIOUS
    <3>4. QED BY <3>2, <3>3
  <2>6. SumOver(AmountsAt(q), {1}) = AmountsAt(q)[1] + SumOver(AmountsAt(q), {})
    <3>1. \A i \in {1} : AmountsAt(q)[i] \in Int
      BY <1>0, <2>3
    <3>2. SumOver(AmountsAt(q), {1}) = AmountsAt(q)[1] + SumOver(AmountsAt(q), {1} \ {1})
      <4>1. 1 \in {1}
        OBVIOUS
      <4>2. QED BY ONLY <2>4, <3>1, <4>1, SumRemove
    <3>3. {1} \ {1} = {}
      OBVIOUS
    <3>4. QED BY <3>2, <3>3
  <2>7. SumOf(q) = SumOver(AmountsAt(q), {1, 2})
    BY <2>2, <2>4, SumOfIs
  <2>8. SumOf(q) = x + y
    BY <1>0, <1>3, <2>3, <2>5, <2>6, <2>7
  <2>9. QED BY <1>4, <2>2, <2>3, <2>8 DEF q, x, y, rest
<1>5. CASE ~ (rest > 0)
  <2>1. q = <<a>>
    <3> HIDE DEF a, b, rest, q
    <3>1. QED BY <1>1, <1>2, <1>5
  <2>2. q \in Seq(Output) /\ DOMAIN q = {1} /\ q[1] = a
    <3> HIDE DEF a, q
    <3>1. QED BY <1>1, <2>1
  <2>3. AmountsAt(q)[1] = x /\ q[1].currency = currency
    <3>1. a.amount = x /\ a.currency = currency
      OBVIOUS
    <3> HIDE DEF a, q, x
    <3>2. QED BY <2>2, <3>1 DEF AmountsAt
  <2> HIDE DEF q, a, b, x, y, rest
  <2>4. SumOver(AmountsAt(q), {1}) = AmountsAt(q)[1] + SumOver(AmountsAt(q), {})
    <3>1. \A i \in {1} : AmountsAt(q)[i] \in Int
      BY <1>0, <2>3
    <3>2. SumOver(AmountsAt(q), {1}) = AmountsAt(q)[1] + SumOver(AmountsAt(q), {1} \ {1})
      <4>1. 1 \in {1} /\ IsFiniteSet({1})
        BY FS_Singleton
      <4>2. QED BY ONLY <3>1, <4>1, SumRemove
    <3>3. {1} \ {1} = {}
      OBVIOUS
    <3>4. QED BY <3>2, <3>3
  <2>5. SumOf(q) = SumOver(AmountsAt(q), {1})
    <3>1. IsFiniteSet(DOMAIN q)
      BY <2>2, FS_Singleton
    <3>2. QED BY <2>2, <3>1, SumOfIs
  <2>6. SumOf(q) = x + 0
    BY <1>0, <1>3, <2>3, <2>4, <2>5
  <2>7. QED BY <1>5, <2>2, <2>3, <2>6 DEF q, x, rest
<1>6. QED BY <1>4, <1>5

\* The locals after a choice.
Choice(chosen, amount, currency, available) ==
  [op |-> "LOCK", inputs |-> chosen, amount |-> amount,
   outputs |-> Outputs(chosen, amount, currency), available |-> available, locks |-> {}]

LEMMA ChoiceIsFewest ==
  ASSUME NEW A \in Tokens, NEW seq \in LargestFirst(A), NEW amount \in Int,
         NEW currency \in Currencies, \A u \in A : u.currency = currency,
         amount > 0, ~ (Worth(ToSet(Chosen(seq, amount))) < amount)
  PROVE  LET m == Choice(Chosen(seq, amount), amount, currency, A)
         IN  m \in Paying /\ Fewest(m) /\ ToSet(m.inputs) \subseteq A
<1> DEFINE chosen == Chosen(seq, amount)
           q == Outputs(chosen, amount, currency)
           m == Choice(chosen, amount, currency, A)
<1>1. /\ seq \in Seq(Token) /\ Len(seq) \in Nat /\ DOMAIN seq = 1 .. Len(seq)
      /\ \A i \in DOMAIN seq : seq[i] \in A
  BY SortedList
<1>2. PICK n \in 0 .. Len(seq) :
           /\ chosen = SubSeq(seq, 1, n) /\ Len(chosen) = n /\ ToSet(chosen) = First(seq, n)
           /\ Worth(ToSet(chosen)) >= amount =>
                n # 0 /\ \A s \in SUBSET A : Cardinality(s) < n => Worth(s) < amount
  BY ChosenFacts
<1>3. /\ First(seq, n) \in Tokens /\ Total(First(seq, n)) \in Int
      /\ Total(First(seq, n)) = SumOver(AmountsAt(seq), 1 .. n)
  BY FirstAreMost, TotalFacts DEF Tops
<1>4. /\ Total(ToSet(chosen)) \in Int /\ Worth(ToSet(chosen)) \in Int
      /\ Worth(ToSet(chosen)) >= amount /\ n # 0
  <2>1. Total(ToSet(chosen)) \in Int
    BY <1>2, <1>3
  <2>2. Worth(ToSet(chosen)) \in Int
    <3> HIDE DEF chosen
    <3>1. QED BY <2>1, WalletAssumption DEF Worth
  <2>3. ~ (Worth(ToSet(chosen)) < amount)
    OBVIOUS
  <2> HIDE DEF chosen
  <2>4. QED BY <1>2, <2>1, <2>2, <2>3
<1>5. /\ chosen \in Seq(Token) /\ DOMAIN chosen = 1 .. n
      /\ \A i \in 1 .. n : chosen[i] = seq[i] /\ chosen[i] \in A
                            /\ chosen[i].currency = currency
      /\ ToSet(chosen) \subseteq A
  <2>1. \A i \in 1 .. n : i \in DOMAIN seq /\ seq[i] \in A /\ seq[i] \in Token
    BY <1>1
  <2>2. chosen \in Seq(Token) /\ DOMAIN chosen = 1 .. n /\ \A i \in 1 .. n : chosen[i] = seq[i]
    <3> HIDE DEF chosen
    <3>1. QED BY <1>1, <1>2
  <2>3. \A i \in 1 .. n : seq[i].currency = currency
    BY <2>1
  <2> HIDE DEF chosen
  <2>4. QED BY <2>1, <2>2, <2>3 DEF ToSet
<1>6. /\ q \in Seq(Output) /\ q[1].currency = currency
      /\ SumOf(q) = Cents(amount)
                      + (IF Worth(ToSet(chosen)) - amount > 0
                         THEN Cents(Worth(ToSet(chosen)) - amount) ELSE 0)
  <2> HIDE DEF chosen
  <2>1. QED BY <1>4, OutputsFacts
<1>7. SumOf(chosen) = Total(ToSet(chosen))
  <2> HIDE DEF chosen
  <2>1. IsFiniteSet(1 .. n)
    BY FS_Interval
  <2>2. SumOf(chosen) = SumOver(AmountsAt(chosen), 1 .. n)
    BY <1>5, <2>1, SumOfIs
  <2>3. \A i \in 1 .. n : AmountsAt(chosen)[i] = AmountsAt(seq)[i]
    BY <1>1, <1>5 DEF AmountsAt
  <2>4. SumOver(AmountsAt(chosen), 1 .. n) = SumOver(AmountsAt(seq), 1 .. n)
    BY ONLY <2>1, <2>3, SumSame
  <2>5. QED BY <1>2, <1>3, <2>2, <2>4
<1> DEFINE t == SumOf(chosen)
           alike == 2 * (amount % Subunits) = Subunits /\ t % 2 = 1
<1>8. (alike => SumOf(q) - t \in {-1, 1}) /\ (~ alike => SumOf(q) = t)
  <2>1. t \in Int /\ Worth(ToSet(chosen)) = Subunits * t
    BY <1>4, <1>7 DEF Worth
  <2> HIDE DEF chosen, q, t
  <2>2. SumOf(q) = Cents(amount) + (IF Subunits * t - amount > 0
                                    THEN Cents(Subunits * t - amount) ELSE 0)
    BY <1>6, <2>1
  <2>3. Subunits * t >= amount
    BY <1>4, <2>1
  <2>4. QED BY <2>1, <2>2, <2>3, RoundedSum
<1>9. m.inputs = chosen /\ m.outputs = q /\ m.amount = amount /\ m.available = A
  BY DEF Choice
<1>10. m \in Paying
  <2> HIDE DEF chosen, q
  <2>1. QED BY <1>5, <1>6 DEF Paying, Choice, q
<1>11. EconomicallyValid(chosen, q) <=> t = SumOf(q)
  <2> HIDE DEF chosen, q
  <2>1. QED BY <1>5, <1>6 DEF EconomicallyValid
<1>12. Fewest(m)
  <2>1. RoundedAlike(m) <=> alike
    <3> HIDE DEF chosen, q, m
    <3>1. QED BY <1>9 DEF RoundedAlike
  <2>2. IF RoundedAlike(m)
        THEN SumOf(m.outputs) - SumOf(m.inputs) \in {-1, 1}
        ELSE EconomicallyValid(m.inputs, m.outputs)
    <3> HIDE DEF chosen, q, m, alike
    <3>1. QED BY <1>8, <1>9, <1>11, <2>1
  <2>3. /\ ToSet(chosen) \subseteq A /\ Worth(ToSet(chosen)) >= amount /\ Len(chosen) = n
        /\ \A s \in SUBSET A : Cardinality(s) < n => Worth(s) < amount
    <3> HIDE DEF chosen
    <3>1. QED BY <1>2, <1>4, <1>5
  <2> HIDE DEF chosen, q, m
  <2>4. QED BY <1>9, <2>2, <2>3 DEF Fewest
<1>13. ToSet(m.inputs) \subseteq A
  <2> HIDE DEF chosen, q, m
  <2>1. QED BY <1>5, <1>9
<1>14. QED BY ONLY <1>10, <1>12, <1>13, Zenon

----------------------------------------------------------------------------
(* The invariant is kept *)

LEMMA InitWInv == Init => WInv
<1> SUFFICES ASSUME Init PROVE WInv
  OBVIOUS
<1>1. Shape
  BY FS_EmptySet DEF Init, Shape, Holds, Labels, Locking, Tokens
<1>2. KeyIsKept /\ OneChooses /\ TokensAreKept /\ FewestInputs
  BY DEF Init, KeyIsKept, OneChooses, TokensAreKept, FewestInputs, Locking
<1>3. QED BY <1>1, <1>2 DEF WInv

LEMMA ShapeNext ==
  ASSUME Shape, keys' \in Seq(BOOLEAN), file' \in Tokens, locked' \subseteq Nat,
         payments' \in Seq(Payment), alone' \in [Commands -> BOOLEAN],
         pc' = [c \in Commands |-> pc'[c]], mem' = [c \in Commands |-> mem'[c]],
         \A c \in Commands : Holds(pc'[c], mem'[c])
  PROVE  Shape'
BY DEF Shape, Holds, Tokens, Token, Payment, Output, Labels, Locking, Asking, Paying

LEMMA FewestIs == FewestInputs <=> \A c \in Commands : pc[c] = "extend" => Fewest(mem[c])
BY DEF FewestInputs, Fewest

LEMMA FewestNext ==
  FewestInputs' <=> \A c \in Commands : pc'[c] = "extend" => Fewest(mem'[c])
BY DEF FewestInputs, Fewest, EconomicallyValid, RoundedAlike, SumOf, Worth, Total, MapThenSumSet,
       MapThenFoldSet, ToSet

\* c goes to a label with new locals; the others stay where they are.
Moves(c, label, m) ==
  /\ pc' = [d \in Commands |-> IF d = c THEN label ELSE pc[d]]
  /\ mem' = [d \in Commands |-> IF d = c THEN m ELSE mem[d]]

LEMMA FinishMoves ==
  ASSUME Shape, NEW c \in Commands, Finish(c)
  PROVE  Moves(c, "idle", Nothing) /\ alone' = [alone EXCEPT ![c] = FALSE]
BY DEF Shape, Finish, Goto, Moves

LEMMA GotoMoves ==
  ASSUME Shape, NEW c \in Commands, NEW label, NEW m, Goto(c, label), mem' = [mem EXCEPT ![c] = m]
  PROVE  Moves(c, label, m)
BY DEF Shape, Goto, Moves

LEMMA MovesHold ==
  ASSUME Shape, NEW c \in Commands, NEW label, NEW m, Moves(c, label, m), Holds(label, m)
  PROVE  /\ pc' = [d \in Commands |-> pc'[d]] /\ mem' = [d \in Commands |-> mem'[d]]
         /\ \A d \in Commands : Holds(pc'[d], mem'[d])
         /\ pc'[c] = label /\ mem'[c] = m
         /\ \A d \in Commands : d # c => pc'[d] = pc[d] /\ mem'[d] = mem[d]
BY DEF Shape, Moves

LEMMA MeetFacts ==
  ASSUME Shape, NEW c \in Commands, NEW labels, Meet(c, labels)
  PROVE  /\ alone' \in [Commands -> BOOLEAN]
         /\ alone'[c] => \A d \in Commands : pc[d] \in labels => d = c
         /\ \A d \in Commands : d # c /\ alone'[d] => alone[d] /\ pc[d] \notin labels
BY DEF Shape, Meet

\* A command that ends, or gets no further than to read, disturbs nothing.
LEMMA QuietW ==
  ASSUME WInv, NEW c \in Commands, NEW label, NEW m, Moves(c, label, m), Holds(label, m),
         label \in {"idle", "fetched", "select"}, file' \in Tokens,
         alone' \in {alone, [alone EXCEPT ![c] = FALSE]},
         UNCHANGED <<keys, locked, payments>>
  PROVE  WInv'
<1>1. /\ pc' = [d \in Commands |-> pc'[d]] /\ mem' = [d \in Commands |-> mem'[d]]
      /\ \A d \in Commands : Holds(pc'[d], mem'[d])
      /\ pc'[c] = label /\ mem'[c] = m
      /\ \A d \in Commands : d # c => pc'[d] = pc[d] /\ mem'[d] = mem[d]
  BY MovesHold DEF WInv
<1>2. /\ alone' \in [Commands -> BOOLEAN]
      /\ \A d \in Commands : d # c => alone'[d] = alone[d]
  BY DEF WInv, Shape
<1>3. Shape'
  BY <1>1, <1>2, ShapeNext DEF WInv, Shape
<1>4. pc'[c] # "prompt" /\ pc'[c] \notin Locking
  BY <1>1 DEF Locking
<1>5. KeyIsKept'
  BY <1>1, <1>2, <1>4 DEF WInv, KeyIsKept
<1>6. OneChooses'
  BY <1>1, <1>2, <1>4 DEF WInv, OneChooses, Locking, InputIds
<1>7. ASSUME NEW i \in DOMAIN payments, Reserved(i) PROVE Reserved(i)'
  BY <1>1, <1>4, <1>7 DEF Reserved, Locking, InputIds
<1>8. TokensAreKept'
  BY <1>7 DEF WInv, TokensAreKept
<1>9. FewestInputs'
  BY <1>1, <1>4, FewestIs, FewestNext DEF WInv
<1>10. QED BY <1>3, <1>5, <1>6, <1>8, <1>9 DEF WInv

LEMMA StopW ==
  ASSUME WInv, NEW c \in Commands, Stop(c)
  PROVE  WInv'
<1>1. Moves(c, "idle", Nothing) /\ alone' = [alone EXCEPT ![c] = FALSE]
  BY FinishMoves DEF Stop, WInv
<1>2. Holds("idle", Nothing)
  BY DEF Holds, Labels, Locking
<1>3. UNCHANGED <<keys, locked, payments>> /\ file' \in Tokens
  BY DEF Stop, WInv, Shape
<1>4. QED BY <1>1, <1>2, <1>3, QuietW

LEMMA WriteUtxosW ==
  ASSUME WInv, NEW c \in Commands, WriteUtxos(c)
  PROVE  WInv'
<1>1. Moves(c, "idle", Nothing) /\ alone' = [alone EXCEPT ![c] = FALSE]
  BY FinishMoves DEF WriteUtxos, WInv
<1>2. Holds("idle", Nothing)
  BY DEF Holds, Labels, Locking
<1>3. UNCHANGED <<keys, locked, payments>> /\ file' \in Tokens
  BY DEF WriteUtxos, WInv, Shape, Holds
<1>4. QED BY <1>1, <1>2, <1>3, QuietW

LEMMA FetchW ==
  ASSUME WInv, NEW c \in Commands, Fetch(c)
  PROVE  WInv'
<1>1. PICK answer \in Answers : mem' = [mem EXCEPT ![c] = [op |-> "SYNC", tokens |-> answer]]
  BY DEF Fetch
<1> DEFINE m == [op |-> "SYNC", tokens |-> answer]
<1>2. Moves(c, "fetched", m)
  BY <1>1, GotoMoves DEF Fetch, WInv
<1>3. Holds("fetched", m)
  BY WalletAssumption DEF Holds, Labels, Locking, Tokens
<1>4. UNCHANGED <<keys, locked, payments, alone>> /\ file' \in Tokens
  BY DEF Fetch, WInv, Shape
<1> HIDE DEF m
<1>5. QED BY <1>2, <1>3, <1>4, QuietW

LEMMA ReadUtxosW ==
  ASSUME WInv, NEW c \in Commands, ReadUtxos(c)
  PROVE  WInv'
<1>1. PICK ask \in Asks :
        mem' = [mem EXCEPT ![c] = [op |-> "PAY", tokens |-> file, amount |-> ask.amount,
                                   currency |-> ask.currency]]
  BY DEF ReadUtxos
<1> DEFINE m == [op |-> "PAY", tokens |-> file, amount |-> ask.amount,
                 currency |-> ask.currency]
<1>2. Moves(c, "select", m)
  BY <1>1, GotoMoves DEF ReadUtxos, WInv
<1>3. Holds("select", m)
  <2>1. ask.amount \in Int /\ ask.currency \in Currencies /\ file \in Tokens
    BY WalletAssumption DEF WInv, Shape
  <2>2. QED BY <2>1 DEF Holds, Labels, Locking, Asking
<1>4. UNCHANGED <<keys, locked, payments, alone>> /\ file' \in Tokens
  BY DEF ReadUtxos, WInv, Shape
<1> HIDE DEF m
<1>5. QED BY <1>2, <1>3, <1>4, QuietW

LEMMA CheckKeyFileW ==
  ASSUME WInv, NEW c \in Commands, CheckKeyFile(c)
  PROVE  WInv'
<1>1. /\ keys = <<>> /\ Meet(c, {"prompt"}) /\ UNCHANGED <<keys, file, locked, payments, mem>>
      /\ Moves(c, "prompt", mem[c]) /\ Shape
  BY DEF CheckKeyFile, Initialized, WInv, Shape, Goto, Moves
<1>2. Holds("prompt", mem[c])
  BY DEF Holds, Labels, Locking
<1>3. /\ pc' = [d \in Commands |-> pc'[d]] /\ mem' = [d \in Commands |-> mem'[d]]
      /\ \A d \in Commands : Holds(pc'[d], mem'[d])
      /\ pc'[c] = "prompt"
      /\ \A d \in Commands : d # c => pc'[d] = pc[d] /\ mem'[d] = mem[d]
  BY <1>1, <1>2, MovesHold
<1>4. /\ alone' \in [Commands -> BOOLEAN]
      /\ alone'[c] => \A d \in Commands : pc[d] = "prompt" => d = c
      /\ \A d \in Commands : d # c /\ alone'[d] => alone[d] /\ pc[d] # "prompt"
  BY <1>1, MeetFacts
<1>5. Shape'
  BY <1>1, <1>3, <1>4, ShapeNext DEF Shape
<1>6. KeyIsKept'
  BY <1>1, <1>3, <1>4 DEF KeyIsKept
<1>7. OneChooses'
  BY <1>1, <1>3, <1>4 DEF WInv, OneChooses, Locking, InputIds
<1>8. ASSUME NEW i \in DOMAIN payments, Reserved(i) PROVE Reserved(i)'
  BY <1>1, <1>3, <1>8 DEF Reserved, Locking, InputIds
<1>9. TokensAreKept'
  BY <1>1, <1>8 DEF WInv, TokensAreKept
<1>10. FewestInputs'
  BY <1>3, FewestIs, FewestNext DEF WInv
<1>11. QED BY <1>5, <1>6, <1>7, <1>9, <1>10 DEF WInv

\* The key of a command that was alone is the first, and no one is left at the
\* prompt to replace it.
LEMMA CreateW ==
  ASSUME WInv, NEW c \in Commands, Create(c)
  PROVE  WInv'
<1>1. /\ pc[c] = "prompt" /\ keys' = Append(keys, alone[c]) /\ Shape
      /\ UNCHANGED <<file, locked, payments>>
      /\ Moves(c, "idle", Nothing) /\ alone' = [alone EXCEPT ![c] = FALSE]
  BY FinishMoves DEF Create, WInv
<1>2. Holds("idle", Nothing)
  BY DEF Holds, Labels, Locking
<1>3. /\ pc' = [d \in Commands |-> pc'[d]] /\ mem' = [d \in Commands |-> mem'[d]]
      /\ \A d \in Commands : Holds(pc'[d], mem'[d])
      /\ pc'[c] = "idle"
      /\ \A d \in Commands : d # c => pc'[d] = pc[d] /\ mem'[d] = mem[d]
  BY <1>1, <1>2, MovesHold
<1>4. /\ alone' \in [Commands -> BOOLEAN] /\ alone'[c] = FALSE
      /\ \A d \in Commands : d # c => alone'[d] = alone[d]
  BY <1>1 DEF Shape
<1>5. keys \in Seq(BOOLEAN) /\ alone[c] \in BOOLEAN
  BY <1>1 DEF Shape
<1>6. Shape'
  <2>1. keys' \in Seq(BOOLEAN)
    BY <1>1, <1>5
  <2>2. QED BY <1>1, <1>3, <1>4, <2>1, ShapeNext DEF Shape
<1>7. KeyIsKept'
  <2>1. \A i \in DOMAIN keys : ~ keys[i]
    BY <1>1 DEF WInv, KeyIsKept
  <2>2. /\ \A i \in DOMAIN keys' : i # Len(keys') => ~ keys'[i]
        /\ keys'[Len(keys')] = alone[c]
    BY <1>1, <1>5, <2>1
  <2>3. alone[c] => \A d \in Commands : pc'[d] # "prompt"
    BY <1>1, <1>3 DEF WInv, KeyIsKept
  <2>4. ASSUME NEW i \in DOMAIN keys', keys'[i]
        PROVE  i = Len(keys') /\ \A d \in Commands : pc'[d] # "prompt"
    BY <2>2, <2>3, <2>4
  <2>5. ASSUME NEW d \in Commands, pc'[d] = "prompt", alone'[d] PROVE FALSE
    BY <1>1, <1>3, <1>4, <2>5 DEF WInv, KeyIsKept
  <2>6. QED BY <2>4, <2>5 DEF KeyIsKept
<1>8. OneChooses'
  BY <1>1, <1>3, <1>4 DEF WInv, OneChooses, Locking, InputIds
<1>9. ASSUME NEW i \in DOMAIN payments, Reserved(i) PROVE Reserved(i)'
  BY <1>1, <1>3, <1>9 DEF Reserved, Locking, InputIds
<1>10. TokensAreKept'
  BY <1>1, <1>9 DEF WInv, TokensAreKept
<1>11. FewestInputs'
  BY <1>3, FewestIs, FewestNext DEF WInv
<1>12. QED BY <1>6, <1>7, <1>8, <1>10, <1>11 DEF WInv

\* The tokens chosen are none that the locks name, so none of a payment that
\* was made alone.
LEMMA SelectW ==
  ASSUME WInv, NEW c \in Commands, Select(c)
  PROVE  WInv'
<1> DEFINE A == Spendable(mem[c].tokens, mem[c].currency, locked)
<1>1. /\ Shape /\ mem[c] \in Asking /\ UNCHANGED <<keys, file, locked, payments>>
  BY DEF Select, WInv, Shape, Holds
<1>2. PICK tokens, amount, currency :
        /\ tokens = mem[c].tokens /\ amount = mem[c].amount /\ currency = mem[c].currency
        /\ tokens \in Tokens /\ amount \in Int /\ currency \in Currencies
  BY <1>1 DEF Asking
<1>3. /\ A \in Tokens /\ \A u \in A : u.currency = currency
      /\ ModelIds = "str" => \A u \in A : u.id \notin locked
  <2>1. A \subseteq tokens
    BY <1>2 DEF Spendable
  <2>2. A \in Tokens
    BY <1>2, <2>1, FS_Subset DEF Tokens
  <2>3. QED BY <1>2, <2>2 DEF Spendable
<1>4. PICK seq \in LargestFirst(A) :
        \/ Finish(c)
        \/ /\ ~ (Worth(ToSet(Chosen(seq, amount))) < amount \/ amount =< 0)
           /\ mem' = [mem EXCEPT ![c] = Choice(Chosen(seq, amount), amount, currency, A)]
           /\ Goto(c, "extend") /\ Meet(c, Locking)
  BY <1>2 DEF Select, Choice, Locking
<1>5. CASE Finish(c)
  <2>1. Moves(c, "idle", Nothing) /\ alone' = [alone EXCEPT ![c] = FALSE]
    BY <1>1, <1>5, FinishMoves
  <2>2. Holds("idle", Nothing) /\ file' \in Tokens
    BY <1>1 DEF Holds, Labels, Locking, Shape
  <2>3. QED BY <1>1, <2>1, <2>2, QuietW
<1>6. CASE /\ ~ (Worth(ToSet(Chosen(seq, amount))) < amount \/ amount =< 0)
           /\ mem' = [mem EXCEPT ![c] = Choice(Chosen(seq, amount), amount, currency, A)]
           /\ Goto(c, "extend") /\ Meet(c, Locking)
  <2> DEFINE m == Choice(Chosen(seq, amount), amount, currency, A)
  <2>1. m \in Paying /\ Fewest(m) /\ ToSet(m.inputs) \subseteq A
    <3> HIDE DEF A
    <3>1. amount > 0
      BY <1>2, <1>6
    <3>2. QED BY <1>2, <1>3, <1>6, <3>1, ChoiceIsFewest
  <2>2. Moves(c, "extend", m)
    BY <1>1, <1>6, GotoMoves
  <2> HIDE DEF m, A
  <2>3. Holds("extend", m)
    BY <2>1 DEF Holds, Labels, Locking
  <2>4. /\ pc' = [d \in Commands |-> pc'[d]] /\ mem' = [d \in Commands |-> mem'[d]]
        /\ \A d \in Commands : Holds(pc'[d], mem'[d])
        /\ pc'[c] = "extend" /\ mem'[c] = m
        /\ \A d \in Commands : d # c => pc'[d] = pc[d] /\ mem'[d] = mem[d]
    BY <1>1, <2>2, <2>3, MovesHold
  <2>5. /\ alone' \in [Commands -> BOOLEAN]
        /\ alone'[c] => \A d \in Commands : pc[d] \in Locking => d = c
        /\ \A d \in Commands : d # c /\ alone'[d] => alone[d] /\ pc[d] \notin Locking
    BY <1>1, <1>6, MeetFacts
  <2>6. Shape'
    BY <1>1, <2>4, <2>5, ShapeNext DEF Shape
  <2>7. KeyIsKept'
    BY <1>1, <2>4, <2>5 DEF WInv, KeyIsKept
  <2>8. OneChooses'
    <3>1. ASSUME NEW d \in Commands, pc'[d] \in Locking, alone'[d]
          PROVE  pc'[d] # "return" /\ \A e \in Commands : pc'[e] \in Locking => e = d
      BY <2>4, <2>5, <3>1 DEF WInv, OneChooses, Locking
    <3>2. QED BY <3>1 DEF OneChooses, Locking
  <2>9. ASSUME NEW i \in DOMAIN payments, Reserved(i) PROVE Reserved(i)'
    <3>1. ModelIds = "str"
      BY WalletAssumption DEF WInv, TokensAreKept
    <3>2. InputIds(payments[i]) \subseteq locked
      BY <2>9 DEF Reserved
    <3>3. InputIds(payments[i]) \cap InputIds(m) = {}
      BY <1>3, <2>1, <3>1, <3>2 DEF InputIds
    <3>4. QED BY <1>1, <2>4, <2>9, <3>3 DEF Reserved, Locking, InputIds
  <2>10. TokensAreKept'
    BY <1>1, <2>9 DEF WInv, TokensAreKept
  <2>11. FewestInputs'
    BY <2>1, <2>4, FewestIs, FewestNext DEF WInv
  <2>12. QED BY <2>6, <2>7, <2>8, <2>10, <2>11 DEF WInv
<1>7. QED BY <1>4, <1>5, <1>6

\* The copy of the locks that is to be written names what is locked now.
LEMMA ReadLocksW ==
  ASSUME WInv, NEW c \in Commands, ReadLocks(c)
  PROVE  WInv'
<1> DEFINE m == [mem[c] EXCEPT !.locks = locked]
<1>1. /\ Shape /\ pc[c] = "extend" /\ mem[c] \in Paying /\ locked \subseteq Nat
      /\ UNCHANGED <<keys, file, locked, payments, alone>>
  BY DEF ReadLocks, WInv, Shape, Holds, Locking
<1>2. m \in Paying /\ m.inputs = mem[c].inputs /\ m.locks = locked
  BY <1>1 DEF Paying
<1>3. Moves(c, "write", m)
  <2>1. mem' = [mem EXCEPT ![c] = m]
    BY <1>1 DEF ReadLocks, Shape
  <2> HIDE DEF m
  <2>2. QED BY <1>1, <2>1, GotoMoves DEF ReadLocks
<1> HIDE DEF m
<1>4. Holds("write", m)
  BY <1>2 DEF Holds, Labels, Locking
<1>5. /\ pc' = [d \in Commands |-> pc'[d]] /\ mem' = [d \in Commands |-> mem'[d]]
      /\ \A d \in Commands : Holds(pc'[d], mem'[d])
      /\ pc'[c] = "write" /\ mem'[c] = m
      /\ \A d \in Commands : d # c => pc'[d] = pc[d] /\ mem'[d] = mem[d]
  BY <1>1, <1>3, <1>4, MovesHold
<1>6. Shape'
  BY <1>1, <1>5, ShapeNext DEF Shape
<1>7. KeyIsKept'
  BY <1>1, <1>5 DEF WInv, KeyIsKept
<1>8. OneChooses'
  <2>1. ASSUME NEW d \in Commands, pc'[d] \in Locking, alone'[d]
        PROVE  pc'[d] # "return" /\ \A e \in Commands : pc'[e] \in Locking => e = d
    BY <1>1, <1>5, <2>1 DEF WInv, OneChooses, Locking
  <2>2. QED BY <2>1 DEF OneChooses, Locking
<1>9. ASSUME NEW i \in DOMAIN payments, Reserved(i) PROVE Reserved(i)'
  <2>1. InputIds(m) = InputIds(mem[c])
    BY <1>2 DEF InputIds
  <2>2. InputIds(payments[i]) \cap InputIds(m) = {} /\ InputIds(payments[i]) \subseteq m.locks
    BY <1>1, <1>2, <1>9, <2>1 DEF Reserved, Locking
  <2>3. QED BY <1>1, <1>5, <1>9, <2>2 DEF Reserved, Locking, InputIds
<1>10. TokensAreKept'
  BY <1>1, <1>9 DEF WInv, TokensAreKept
<1>11. FewestInputs'
  BY <1>5, FewestIs, FewestNext DEF WInv
<1>12. QED BY <1>6, <1>7, <1>8, <1>10, <1>11 DEF WInv

\* The file of locks is replaced by one that names all tokens of payments that
\* were made alone, and those of the payment that is to be returned.
LEMMA WriteLocksW ==
  ASSUME WInv, NEW c \in Commands, WriteLocks(c)
  PROVE  WInv'
<1> DEFINE m == mem[c]
<1>1. Shape /\ pc[c] = "write" /\ m \in Paying /\ UNCHANGED <<keys, file, payments>>
  BY DEF WriteLocks, WInv, Shape, Holds, Locking
<1>2. CASE ModelIds = "uuid"
  <2>1. Moves(c, "idle", Nothing) /\ alone' = [alone EXCEPT ![c] = FALSE]
    BY <1>1, <1>2, FinishMoves DEF WriteLocks
  <2>2. Holds("idle", Nothing)
    BY DEF Holds, Labels, Locking
  <2>3. UNCHANGED locked /\ file' \in Tokens
    BY <1>1, <1>2 DEF WriteLocks, Shape
  <2>4. QED BY <1>1, <2>1, <2>2, <2>3, QuietW
<1>3. CASE ModelIds # "uuid"
  <2>1. locked' = m.locks \cup InputIds(m) /\ UNCHANGED alone
    BY <1>3 DEF WriteLocks
  <2>2. Moves(c, "return", m)
    BY <1>1, <1>3 DEF WriteLocks, Shape, Goto, Moves
  <2>3. Holds("return", m)
    BY <1>1, <1>3 DEF Holds, Labels, Locking
  <2>4. /\ pc' = [d \in Commands |-> pc'[d]] /\ mem' = [d \in Commands |-> mem'[d]]
        /\ \A d \in Commands : Holds(pc'[d], mem'[d])
        /\ pc'[c] = "return" /\ mem'[c] = m
        /\ \A d \in Commands : d # c => pc'[d] = pc[d] /\ mem'[d] = mem[d]
    BY <1>1, <2>2, <2>3, MovesHold
  <2>5. m.locks \subseteq Nat /\ InputIds(m) \subseteq Nat
    <3>1. m.locks \subseteq Nat /\ m.inputs \in Seq(Token)
      BY <1>1 DEF Paying
    <3>2. ASSUME NEW i \in DOMAIN m.inputs PROVE m.inputs[i].id \in Nat
      <4>1. m.inputs[i] \in Token
        BY <3>1
      <4>2. QED BY <4>1 DEF Token
    <3>3. QED BY <3>1, <3>2 DEF InputIds, ToSet
  <2>6. Shape'
    BY <1>1, <2>1, <2>4, <2>5, ShapeNext DEF Shape
  <2>7. KeyIsKept'
    BY <1>1, <2>1, <2>4 DEF WInv, KeyIsKept
  <2>8. OneChooses'
    <3>1. InputIds(mem'[c]) \subseteq locked'
      BY <2>1, <2>4
    <3>2. ASSUME NEW d \in Commands, pc'[d] \in Locking, alone'[d]
          PROVE  d = c /\ \A e \in Commands : pc'[e] \in Locking => e = d
      BY <1>1, <2>1, <2>4, <3>2 DEF WInv, OneChooses, Locking
    <3>3. QED BY <3>1, <3>2 DEF OneChooses, InputIds
  <2>9. ASSUME NEW i \in DOMAIN payments, Reserved(i) PROVE Reserved(i)'
    <3>1. /\ InputIds(payments[i]) \subseteq m.locks
          /\ InputIds(payments[i]) \cap InputIds(m) = {}
      BY <1>1, <2>9 DEF Reserved, Locking
    <3>2. QED BY <1>1, <2>1, <2>4, <2>9, <3>1 DEF Reserved, Locking, InputIds
  <2>10. TokensAreKept'
    BY <1>1, <2>9 DEF WInv, TokensAreKept
  <2>11. FewestInputs'
    BY <2>4, FewestIs, FewestNext DEF WInv
  <2>12. QED BY <2>6, <2>7, <2>8, <2>10, <2>11 DEF WInv
<1>4. QED BY <1>2, <1>3

\* The payment that is returned shares no token with one that was made alone;
\* was it made alone itself, nobody else is about to replace its locks.
LEMMA ReturnPaymentW ==
  ASSUME WInv, NEW c \in Commands, ReturnPayment(c)
  PROVE  WInv'
<1> DEFINE m == mem[c]
           p == [inputs |-> m.inputs, outputs |-> m.outputs, signed |-> 0,
                 alone |-> alone[c]]
<1>1. /\ Shape /\ pc[c] = "return" /\ m \in Paying /\ UNCHANGED <<keys, file, locked>>
      /\ Moves(c, "idle", Nothing) /\ alone' = [alone EXCEPT ![c] = FALSE]
  BY FinishMoves DEF ReturnPayment, WInv, Shape, Holds, Locking
<1>2. Holds("idle", Nothing)
  BY DEF Holds, Labels, Locking
<1>3. payments' = Append(payments, p) /\ payments \in Seq(Payment)
  BY <1>1 DEF ReturnPayment, Shape
<1>4. p \in Payment
  BY <1>1 DEF Payment, Paying, Shape
<1>5. /\ pc' = [d \in Commands |-> pc'[d]] /\ mem' = [d \in Commands |-> mem'[d]]
      /\ \A d \in Commands : Holds(pc'[d], mem'[d])
      /\ pc'[c] = "idle"
      /\ \A d \in Commands : d # c => pc'[d] = pc[d] /\ mem'[d] = mem[d]
  BY <1>1, <1>2, MovesHold
<1>6. /\ alone' \in [Commands -> BOOLEAN]
      /\ \A d \in Commands : d # c => alone'[d] = alone[d]
  BY <1>1 DEF Shape
<1>7. p.alone = alone[c] /\ InputIds(p) = InputIds(m)
  BY DEF InputIds
<1> HIDE DEF p
<1>8. /\ payments' \in Seq(Payment) /\ Len(payments') = Len(payments) + 1
      /\ DOMAIN payments' = 1 .. Len(payments) + 1 /\ payments'[Len(payments) + 1] = p
      /\ \A i \in DOMAIN payments : payments'[i] = payments[i] /\ i \in 1 .. Len(payments)
      /\ Len(payments) \in Nat
  BY <1>3, <1>4
<1>9. Shape'
  BY <1>1, <1>5, <1>6, <1>8, ShapeNext DEF Shape
<1>10. KeyIsKept'
  BY <1>1, <1>5, <1>6 DEF WInv, KeyIsKept
<1>11. OneChooses'
  BY <1>1, <1>5, <1>6 DEF WInv, OneChooses, Locking, InputIds
<1>12. ASSUME NEW i \in DOMAIN payments, Reserved(i) PROVE Reserved(i)'
  <2>1. InputIds(payments[i]) \cap InputIds(p) = {}
    BY <1>1, <1>7, <1>12 DEF Reserved, Locking
  <2>2. \A j \in DOMAIN payments' :
          i < j => InputIds(payments[i]) \cap InputIds(payments'[j]) = {}
    BY <1>8, <1>12, <2>1 DEF Reserved
  <2>3. QED BY <1>1, <1>5, <1>8, <1>12, <2>2 DEF Reserved, Locking, InputIds
<1>13. ASSUME p.alone
       PROVE  \A i \in {Len(payments) + 1} : Reserved(i)'
  <2> SUFFICES ASSUME NEW i \in {Len(payments) + 1} PROVE Reserved(i)'
    OBVIOUS
  <2>1. InputIds(payments'[i]) \subseteq locked'
    BY <1>1, <1>7, <1>8, <1>13 DEF WInv, OneChooses, Locking
  <2>2. \A j \in DOMAIN payments' : ~ (i < j)
    BY <1>8
  <2>3. \A d \in Commands : pc'[d] \notin Locking /\ pc'[d] # "write"
    BY <1>1, <1>5, <1>7, <1>13 DEF WInv, OneChooses, Locking
  <2>4. QED BY <2>1, <2>2, <2>3 DEF Reserved, InputIds
<1>14. TokensAreKept'
  <2>1. ASSUME NEW i \in DOMAIN payments', payments'[i].alone PROVE Reserved(i)'
    <3>1. CASE i \in DOMAIN payments
      BY <1>8, <1>12, <2>1, <3>1 DEF WInv, TokensAreKept
    <3>2. CASE i \notin DOMAIN payments
      <4>1. i = Len(payments) + 1
        BY <1>3, <1>8, <3>2
      <4>2. QED BY <1>8, <1>13, <2>1, <4>1
    <3>3. QED BY <3>1, <3>2
  <2>2. ModelIds # "uuid"
    BY <1>1 DEF Shape, Holds
  <2>3. QED BY <2>1, <2>2 DEF TokensAreKept
<1>15. FewestInputs'
  BY <1>5, FewestIs, FewestNext DEF WInv
<1>16. QED BY <1>9, <1>10, <1>11, <1>14, <1>15 DEF WInv

\* A signature changes neither the inputs of a payment nor whether it was made
\* alone.
LEMMA SignW ==
  ASSUME WInv, NEW i \in DOMAIN payments, Sign(i)
  PROVE  WInv'
<1> DEFINE p == payments[i]
           missing == {n \in DOMAIN p.inputs : p.inputs[n].id \notin {u.id : u \in file}}
           n == IF missing = {} THEN Len(p.inputs) ELSE Max({p.signed, Min(missing) - 1})
<1>1. /\ Shape /\ payments \in Seq(Payment) /\ UNCHANGED <<keys, file, locked, pc, mem, alone>>
      /\ payments' = [payments EXCEPT ![i].signed = n] /\ p \in Payment
  BY DEF Sign, WInv, Shape
<1>2. n \in Int
  <2>1. p.inputs \in Seq(Token) /\ p.signed \in Int
    BY <1>1 DEF Payment
  <2>2. Len(p.inputs) \in Int /\ missing \in SUBSET Nat
    BY <2>1
  <2> HIDE DEF p, missing
  <2>3. ASSUME missing # {} PROVE n \in Int
    <3>1. Min(missing) - 1 \in Int
      <4>1. Min(missing) \in missing
        BY <2>2, <2>3, MinFacts
      <4>2. Min(missing) \in Nat
        BY <2>2, <4>1
      <4>3. QED BY <4>2
    <3>2. PICK a, b : a = p.signed /\ b = Min(missing) - 1 /\ a \in Int /\ b \in Int
      BY <2>1, <3>1
    <3>3. \E x \in {a, b} : \A y \in {a, b} : x >= y
      BY <3>2
    <3>4. Max({a, b}) \in {a, b}
      BY <3>3 DEF Max
    <3>5. QED BY <2>3, <3>2, <3>4
  <2>4. QED BY <2>2, <2>3
<1> HIDE DEF n
<1>3. /\ payments' \in Seq(Payment) /\ DOMAIN payments' = DOMAIN payments
      /\ \A j \in DOMAIN payments : /\ payments'[j].inputs = payments[j].inputs
                                    /\ payments'[j].alone = payments[j].alone
  <2>1. [p EXCEPT !.signed = n] \in Payment
    BY <1>1, <1>2 DEF Payment
  <2>2. payments' = [payments EXCEPT ![i] = [p EXCEPT !.signed = n]]
    BY <1>1
  <2>3. /\ [p EXCEPT !.signed = n].inputs = p.inputs
        /\ [p EXCEPT !.signed = n].alone = p.alone
    BY <1>1 DEF Payment
  <2>4. QED BY <1>1, <2>1, <2>2, <2>3
<1>4. Shape'
  BY <1>1, <1>3, ShapeNext DEF Shape
<1>5. KeyIsKept' /\ OneChooses'
  BY <1>1 DEF WInv, KeyIsKept, OneChooses, Locking, InputIds
<1>6. \A j \in DOMAIN payments : InputIds(payments'[j]) = InputIds(payments[j])
  BY <1>3 DEF InputIds
<1>7. ASSUME NEW j \in DOMAIN payments, Reserved(j) PROVE Reserved(j)'
  <2>1. InputIds(payments'[j]) \subseteq locked
    BY <1>6, <1>7 DEF Reserved
  <2>2. \A k \in DOMAIN payments' :
          j < k => InputIds(payments'[j]) \cap InputIds(payments'[k]) = {}
    BY <1>3, <1>6, <1>7 DEF Reserved
  <2>3. \A c \in Commands :
          /\ pc[c] \in Locking => InputIds(payments'[j]) \cap InputIds(mem[c]) = {}
          /\ pc[c] = "write" => InputIds(payments'[j]) \subseteq mem[c].locks
    BY <1>6, <1>7 DEF Reserved
  <2>4. QED BY <1>1, <2>1, <2>2, <2>3 DEF Reserved, Locking, InputIds
<1>8. TokensAreKept'
  BY <1>1, <1>3, <1>7 DEF WInv, TokensAreKept
<1>9. FewestInputs'
  BY <1>1, FewestIs, FewestNext DEF WInv
<1>10. QED BY <1>4, <1>5, <1>8, <1>9 DEF WInv

LEMMA NextWInv == WInv /\ [Next]_vars => WInv'
<1> SUFFICES ASSUME WInv, [Next]_vars PROVE WInv'
  OBVIOUS
<1>1. CASE UNCHANGED vars
  <2>1. UNCHANGED <<keys, file, locked, payments, pc, mem, alone>>
    BY <1>1 DEF vars
  <2>2. Shape'
    BY <2>1, ShapeNext DEF WInv, Shape
  <2>3. KeyIsKept' /\ OneChooses'
    BY <2>1 DEF WInv, KeyIsKept, OneChooses, Locking, InputIds
  <2>4. TokensAreKept'
    BY <2>1 DEF WInv, TokensAreKept, Reserved, Locking, InputIds
  <2>5. FewestInputs'
    BY <2>1, FewestIs, FewestNext DEF WInv
  <2>6. QED BY <2>2, <2>3, <2>4, <2>5 DEF WInv
<1>2. ASSUME NEW c \in Commands, CheckKeyFile(c) \/ Create(c) PROVE WInv'
  BY <1>2, CheckKeyFileW, CreateW
<1>3. ASSUME NEW c \in Commands, Fetch(c) \/ WriteUtxos(c) \/ ReadUtxos(c) \/ Stop(c)
      PROVE  WInv'
  BY <1>3, FetchW, WriteUtxosW, ReadUtxosW, StopW
<1>4. ASSUME NEW c \in Commands,
             Select(c) \/ ReadLocks(c) \/ WriteLocks(c) \/ ReturnPayment(c)
      PROVE  WInv'
  BY <1>4, SelectW, ReadLocksW, WriteLocksW, ReturnPaymentW
<1>5. ASSUME NEW i \in DOMAIN payments, Sign(i) PROVE WInv'
  BY <1>5, SignW
<1>6. QED BY <1>1, <1>2, <1>3, <1>4, <1>5 DEF Next

LEMMA Invariance == Spec => []WInv
BY InitWInv, NextWInv, PTL DEF Spec

----------------------------------------------------------------------------
(* Theorems *)

\* build_payment: the inputs of a payment are the wallet's and cover the amount,
\* as few as any tokens could; and with an amount of any fraction of a cent,
\* rounded as pydantic rounds it, they are worth the outputs, except exactly
\* where the amount and the change are rounded alike: there, they are a cent
\* off.  For tokens of any number and amounts, however equal amounts are ordered.
THEOREM PaymentsAreMinimal == Spec => []FewestInputs
<1>1. WInv => FewestInputs
  BY DEF WInv
<1>2. QED BY <1>1, Invariance, PTL

\* init and build_payment: what a command did alone, no number of later
\* commands undoes, interrupted or not, whatever nodes answer.
THEOREM WhatIsAloneStays == Spec => []AloneIsKept
<1>1. WInv => AloneIsKept
  BY DEF WInv, KeyIsKept, TokensAreKept, Reserved, AloneIsKept
<1>2. QED BY <1>1, Invariance, PTL
============================================================================
