------------------------------ MODULE SumLemmas ------------------------------
(***************************************************************************)
(* Induction, and sums over lists and over finite sets, as facts that the  *)
(* other proof modules cite.  Induction is stated for sets, so that it can *)
(* be used with any set that a comprehension describes; it comes from the  *)
(* well-foundedness of < on Nat and of the strict inclusion of finite sets.*)
(***************************************************************************)
EXTENDS Integers, Sequences, FiniteSetsExt, FiniteSetTheorems, TLAPS

----------------------------------------------------------------------------
(* Induction *)

LEMMA NatSetInduction ==
  ASSUME NEW S, 0 \in S, \A n \in Nat : n \in S => n + 1 \in S
  PROVE  Nat \subseteq S
<1> DEFINE R == {ss \in Nat \X Nat : ss[1] < ss[2]}
           T == Nat \ S
<1>1. IsWellFoundedOn(R, Nat)
  BY NatLessThanWellFounded DEF OpToRel
<1>2. SUFFICES ASSUME T # {} PROVE FALSE
  OBVIOUS
<1>3. PICK x \in T : \A y \in T : <<y, x>> \notin R
  <2> HIDE DEF R
  <2>1. T \subseteq Nat
    OBVIOUS
  <2>2. QED BY <1>1, <1>2, <2>1, WFMin
<1>4. x \in Nat \ {0} /\ x - 1 \in Nat
  OBVIOUS
<1>5. <<x - 1, x>> \in R
  BY <1>4
<1>6. x - 1 \in S
  BY <1>3, <1>4, <1>5
<1>7. QED BY <1>3, <1>4, <1>6

LEMMA FiniteSetInduction ==
  ASSUME NEW S, IsFiniteSet(S), NEW P, {} \in P,
         \A T \in SUBSET S, x \in S : T \in P /\ x \notin T => T \cup {x} \in P
  PROVE  S \in P
<1> DEFINE R == StrictSubsetOrdering(S)
           Bad == (SUBSET S) \ P
<1>1. IsWellFoundedOn(R, SUBSET S)
  BY FS_StrictSubsetOrderingWellFounded, FS_FiniteSubsetsOfFinite
<1>2. SUFFICES ASSUME Bad # {} PROVE FALSE
  OBVIOUS
<1>3. PICK m \in Bad : \A y \in Bad : <<y, m>> \notin R
  <2> HIDE DEF R
  <2>1. Bad \subseteq SUBSET S
    OBVIOUS
  <2>2. QED BY <1>1, <1>2, <2>1, WFMin
<1>4. PICK x \in S : x \in m
  <2>1. m # {} /\ m \subseteq S
    BY <1>3
  <2>2. QED BY <2>1
<1>5. <<m \ {x}, m>> \in R
  <2>1. m \in SUBSET S /\ m \ {x} \in SUBSET S /\ m \ {x} # m
    BY <1>3, <1>4
  <2>2. QED BY <2>1 DEF StrictSubsetOrdering
<1>6. m \ {x} \in P
  BY <1>3, <1>5
<1>7. m = (m \ {x}) \cup {x} /\ m \ {x} \in SUBSET S /\ x \notin m \ {x}
  BY <1>3, <1>4
<1>8. (m \ {x}) \cup {x} \in P
  BY <1>4, <1>6, <1>7
<1>9. QED BY <1>3, <1>7, <1>8

----------------------------------------------------------------------------
(* Partial sums over a list: the function that the models' recursive        *)
(* definitions choose exists, and so satisfies its equation.                *)

LEMMA PartialSums ==
  ASSUME NEW v, NEW n \in Nat
  PROVE  \E g : g = [k \in 0 .. n |-> IF k = 0 THEN 0 ELSE g[k - 1] + v[k]]
<1> DEFINE Has(m, g) == g = [k \in 0 .. m |-> IF k = 0 THEN 0 ELSE g[k - 1] + v[k]]
           S == {m \in Nat : \E g : Has(m, g)}
<1>1. 0 \in S
  <2>1. Has(0, [k \in 0 .. 0 |-> 0])
    OBVIOUS
  <2>2. QED BY <2>1
<1>2. ASSUME NEW m \in Nat, m \in S PROVE m + 1 \in S
  <2>1. PICK g : Has(m, g)
    BY <1>2
  <2> DEFINE h == [k \in 0 .. m + 1 |-> IF k = m + 1 THEN g[m] + v[m + 1] ELSE g[k]]
  <2>2. ASSUME NEW k \in 0 .. m + 1 PROVE h[k] = IF k = 0 THEN 0 ELSE h[k - 1] + v[k]
    <3>1. CASE k = 0
      BY <2>1, <3>1
    <3>2. CASE k = m + 1
      BY <3>2
    <3>3. CASE k \in 1 .. m
      <4>1. k \in 0 .. m /\ k - 1 \in 0 .. m
        BY <3>3
      <4>2. g[k] = g[k - 1] + v[k]
        BY <2>1, <3>3, <4>1
      <4>3. QED BY <3>3, <4>1, <4>2
    <3>4. QED BY <3>1, <3>2, <3>3
  <2>3. Has(m + 1, h)
    BY <2>2
  <2> HIDE DEF h, Has
  <2>4. QED BY <2>3
<1> HIDE DEF Has, S
<1>3. n \in S
  BY <1>1, <1>2, NatSetInduction
<1>4. QED BY <1>3 DEF S, Has

----------------------------------------------------------------------------
(* Sums over a finite set.  MapThenSumSet picks the elements one by one;    *)
(* SumOver is the same for the values of a function.                        *)

Some(s) == CHOOSE x \in s : TRUE

\* What a function g from sets to sums must satisfy on the sets of D.
SumEquation(f, g, D) ==
  g = [s \in D |-> IF s = {} THEN 0 ELSE f[Some(s)] + g[s \ {Some(s)}]]

SumOver(f, S) == (CHOOSE g : SumEquation(f, g, SUBSET S))[S]

\* A set of subsets of a finite set has a smallest member.
LEMMA SmallestSubset ==
  ASSUME NEW S, IsFiniteSet(S), NEW B \in SUBSET (SUBSET S), B # {}
  PROVE  \E m \in B : \A y \in B : y \subseteq m => y = m
<1> DEFINE R == StrictSubsetOrdering(S)
<1>1. IsWellFoundedOn(R, SUBSET S)
  BY FS_StrictSubsetOrderingWellFounded, FS_FiniteSubsetsOfFinite
<1>2. PICK m \in B : \A y \in B : <<y, m>> \notin R
  <2> HIDE DEF R
  <2>1. QED BY <1>1, WFMin
<1>3. QED BY <1>2 DEF StrictSubsetOrdering

\* The equation has a solution: by induction on the size of the sets.
LEMMA SumExists ==
  ASSUME NEW f, NEW S, IsFiniteSet(S)
  PROVE  \E g : SumEquation(f, g, SUBSET S)
<1> DEFINE D(n) == {s \in SUBSET S : Cardinality(s) <= n}
           P == {n \in Nat : \E g : SumEquation(f, g, D(n))}
<1>0. ASSUME NEW s \in SUBSET S
      PROVE  /\ IsFiniteSet(s) /\ Cardinality(s) \in Nat
             /\ s # {} => /\ Some(s) \in s /\ s \ {Some(s)} \in SUBSET S
                          /\ Cardinality(s) \in Nat \ {0}
                          /\ Cardinality(s \ {Some(s)}) = Cardinality(s) - 1
             /\ Cardinality(s) = 0 => s = {}
  <2>1. IsFiniteSet(s) /\ Cardinality(s) \in Nat
    BY FS_Subset, FS_CardinalityType
  <2>2. Cardinality(s) = 0 <=> s = {}
    BY <2>1, FS_EmptySet
  <2>3. s # {} => Some(s) \in s
    BY DEF Some
  <2>4. QED BY <2>1, <2>2, <2>3, FS_RemoveElement
<1>1. 0 \in P
  <2>1. ASSUME NEW s \in D(0) PROVE s = {}
    <3>1. s \in SUBSET S /\ Cardinality(s) <= 0
      OBVIOUS
    <3>2. Cardinality(s) \in Nat /\ (Cardinality(s) = 0 => s = {})
      BY <1>0, <3>1
    <3>3. QED BY <3>1, <3>2
  <2>2. SumEquation(f, [s \in D(0) |-> 0], D(0))
    BY <2>1 DEF SumEquation
  <2>3. QED BY <2>2
<1>2. ASSUME NEW n \in Nat, n \in P PROVE n + 1 \in P
  <2>1. PICK g : SumEquation(f, g, D(n))
    BY <1>2
  <2> DEFINE h == [s \in D(n + 1) |-> IF s \in D(n) THEN g[s]
                                      ELSE f[Some(s)] + g[s \ {Some(s)}]]
  <2>2. ASSUME NEW s \in D(n + 1)
        PROVE  h[s] = IF s = {} THEN 0 ELSE f[Some(s)] + h[s \ {Some(s)}]
    <3>1. CASE s = {}
      <4>1. s \in D(n)
        BY <3>1, FS_EmptySet
      <4>2. QED BY <2>1, <3>1, <4>1 DEF SumEquation
    <3>2. CASE s # {}
      <4>1. s \ {Some(s)} \in D(n) /\ s \ {Some(s)} \in D(n + 1)
        BY <1>0, <3>2
      <4>2. h[s \ {Some(s)}] = g[s \ {Some(s)}]
        BY <4>1
      <4>3. h[s] = f[Some(s)] + g[s \ {Some(s)}]
        <5>1. CASE s \in D(n)
          BY <2>1, <3>2, <5>1 DEF SumEquation
        <5>2. CASE s \notin D(n)
          BY <5>2
        <5>3. QED BY <5>1, <5>2
      <4>4. QED BY <3>2, <4>2, <4>3
    <3>3. QED BY <3>1, <3>2
  <2>3. SumEquation(f, h, D(n + 1))
    <3> DEFINE e == [s \in D(n + 1) |->
                       IF s = {} THEN 0 ELSE f[Some(s)] + h[s \ {Some(s)}]]
    <3>1. \A s \in D(n + 1) : h[s] = e[s]
      BY <2>2
    <3>2. h = e
      BY <3>1
    <3>3. QED BY <3>2 DEF SumEquation
  <2> HIDE DEF h, D
  <2>4. QED BY <2>3
<1> HIDE DEF P, D
<1>3. Cardinality(S) \in P
  <2>1. Nat \subseteq P
    BY <1>1, <1>2, NatSetInduction
  <2>2. QED BY <2>1, FS_CardinalityType
<1>4. D(Cardinality(S)) = SUBSET S
  BY <1>0, FS_Subset DEF D
<1>5. QED BY <1>3, <1>4 DEF P

\* Solutions agree wherever both are defined, for functions that agree there.
LEMMA SumUnique ==
  ASSUME NEW S, NEW T \in SUBSET S, NEW f, NEW h, NEW g, NEW k,
         IsFiniteSet(S), \A x \in T : f[x] = h[x],
         SumEquation(f, g, SUBSET S), SumEquation(h, k, SUBSET T)
  PROVE  g[T] = k[T]
<1> DEFINE B == {s \in SUBSET T : g[s] # k[s]}
<1>1. SUFFICES ASSUME B # {} PROVE FALSE
  OBVIOUS
<1>2. PICK m \in B : \A y \in B : y \subseteq m => y = m
  <2>1. IsFiniteSet(T) /\ B \in SUBSET (SUBSET T)
    BY FS_Subset
  <2> HIDE DEF B
  <2>2. QED BY <1>1, <2>1, SmallestSubset
<1>3. m \in SUBSET S /\ m \in SUBSET T
  BY <1>2
<1>4. CASE m = {}
  BY <1>2, <1>3, <1>4 DEF SumEquation
<1>5. CASE m # {}
  <2>1. Some(m) \in m /\ Some(m) \in T
    BY <1>3, <1>5 DEF Some
  <2>2. g[m \ {Some(m)}] = k[m \ {Some(m)}]
    BY <1>2, <1>3, <2>1
  <2>3. /\ g[m] = f[Some(m)] + g[m \ {Some(m)}]
        /\ k[m] = h[Some(m)] + k[m \ {Some(m)}]
    BY <1>3, <1>5 DEF SumEquation
  <2>4. QED BY <1>2, <2>1, <2>2, <2>3
<1>6. QED BY <1>4, <1>5

LEMMA SumOverIs ==
  ASSUME NEW f, NEW S, IsFiniteSet(S)
  PROVE  /\ SumEquation(f, CHOOSE g : SumEquation(f, g, SUBSET S), SUBSET S)
         /\ \A g : SumEquation(f, g, SUBSET S) => g[S] = SumOver(f, S)
<1>1. SumEquation(f, CHOOSE g : SumEquation(f, g, SUBSET S), SUBSET S)
  BY SumExists
<1>2. ASSUME NEW g, SumEquation(f, g, SUBSET S) PROVE g[S] = SumOver(f, S)
  <2> DEFINE k == CHOOSE k : SumEquation(f, k, SUBSET S)
  <2>1. SumEquation(f, k, SUBSET S)
    BY <1>1
  <2> HIDE DEF k
  <2>2. S \in SUBSET S /\ \A x \in S : f[x] = f[x]
    OBVIOUS
  <2>3. g[S] = k[S]
    BY <1>2, <2>1, <2>2, SumUnique
  <2>4. QED BY <2>3 DEF SumOver, k
<1>3. QED BY <1>1, <1>2

----------------------------------------------------------------------------
(* What the other proofs use of sums                                        *)

LEMMA SumEmpty ==
  ASSUME NEW f
  PROVE  SumOver(f, {}) = 0
<1>1. IsFiniteSet({})
  BY FS_EmptySet
<1> DEFINE g == CHOOSE g : SumEquation(f, g, SUBSET {})
<1>2. SumEquation(f, g, SUBSET {})
  BY <1>1, SumOverIs
<1> HIDE DEF g
<1>3. g[{}] = 0
  BY <1>2 DEF SumEquation
<1>4. QED BY <1>3 DEF SumOver, g

\* Only the values at the elements matter.
LEMMA SumSame ==
  ASSUME NEW S, NEW f, NEW h, IsFiniteSet(S), \A x \in S : f[x] = h[x]
  PROVE  SumOver(f, S) = SumOver(h, S)
<1> DEFINE g == CHOOSE g : SumEquation(f, g, SUBSET S)
           k == CHOOSE k : SumEquation(h, k, SUBSET S)
<1>1. SumEquation(f, g, SUBSET S) /\ SumEquation(h, k, SUBSET S)
  BY SumOverIs
<1> HIDE DEF g, k
<1>2. g[S] = k[S]
  BY <1>1, SumUnique
<1>3. QED BY <1>2 DEF SumOver, g, k

\* The sum over a set is the value of its first element and the rest.
LEMMA SumFirst ==
  ASSUME NEW S, NEW f, IsFiniteSet(S), S # {}
  PROVE  SumOver(f, S) = f[Some(S)] + SumOver(f, S \ {Some(S)})
<1>1. PICK R \in SUBSET S : R = S \ {Some(S)}
  OBVIOUS
<1>2. IsFiniteSet(R)
  BY FS_Subset
<1>3. PICK g : SumEquation(f, g, SUBSET S) /\ SumOver(f, S) = g[S]
  BY SumOverIs DEF SumOver
<1>4. PICK k : SumEquation(f, k, SUBSET R) /\ SumOver(f, R) = k[R]
  BY <1>2, SumOverIs DEF SumOver
<1>5. g[R] = k[R]
  <2>1. \A x \in R : f[x] = f[x]
    OBVIOUS
  <2>2. QED BY <1>3, <1>4, <2>1, SumUnique
<1>6. g[S] = f[Some(S)] + g[R]
  BY <1>1, <1>3 DEF SumEquation
<1>7. QED BY <1>1, <1>3, <1>4, <1>5, <1>6

\* A sum of integers is an integer.
LEMMA SumType ==
  ASSUME NEW S, NEW f, IsFiniteSet(S), \A x \in S : f[x] \in Int
  PROVE  SumOver(f, S) \in Int
<1> DEFINE B == {s \in SUBSET S : SumOver(f, s) \notin Int}
<1>1. SUFFICES ASSUME B # {} PROVE FALSE
  BY DEF B
<1>2. PICK m \in B : \A y \in B : y \subseteq m => y = m
  <2>1. B \in SUBSET (SUBSET S)
    OBVIOUS
  <2> HIDE DEF B
  <2>2. QED BY <1>1, <2>1, SmallestSubset
<1>3. m # {}
  <2>1. SumOver(f, {}) \in Int
    BY SumEmpty
  <2>2. QED BY <1>2, <2>1
<1>4. Some(m) \in m /\ m \in SUBSET S /\ IsFiniteSet(m)
  BY <1>2, <1>3, FS_Subset DEF Some
<1>5. SumOver(f, m \ {Some(m)}) \in Int
  BY <1>2, <1>4
<1>6. SumOver(f, m) \in Int
  <2>1. SumOver(f, m) = f[Some(m)] + SumOver(f, m \ {Some(m)})
    BY <1>3, <1>4, SumFirst
  <2>2. f[Some(m)] \in Int
    BY <1>4
  <2>3. QED BY <1>5, <2>1, <2>2
<1>7. QED BY <1>2, <1>6

\* Any element may be taken out first.
LEMMA SumRemove ==
  ASSUME NEW S, NEW f, NEW x \in S, IsFiniteSet(S), \A y \in S : f[y] \in Int
  PROVE  SumOver(f, S) = f[x] + SumOver(f, S \ {x})
<1> DEFINE Good(s) == \A y \in s : SumOver(f, s) = f[y] + SumOver(f, s \ {y})
           B == {s \in SUBSET S : ~ Good(s)}
<1>1. SUFFICES ASSUME B # {} PROVE FALSE
  BY DEF B
<1>2. PICK m \in B : \A y \in B : y \subseteq m => y = m
  <2>1. B \in SUBSET (SUBSET S)
    OBVIOUS
  <2> HIDE DEF B
  <2>2. QED BY <1>1, <2>1, SmallestSubset
<1>3. PICK y \in m : SumOver(f, m) # f[y] + SumOver(f, m \ {y})
  BY <1>2
<1> DEFINE z == Some(m)
<1>4. z \in m /\ m \in SUBSET S /\ IsFiniteSet(m)
  BY <1>2, <1>3, FS_Subset DEF Some
<1>5. SumOver(f, m) = f[z] + SumOver(f, m \ {z})
  BY <1>3, <1>4, SumFirst
<1> HIDE DEF z
<1>6. y # z
  BY <1>3, <1>5
<1>7. /\ SumOver(f, m \ {z}) = f[y] + SumOver(f, (m \ {z}) \ {y})
      /\ SumOver(f, m \ {y}) = f[z] + SumOver(f, (m \ {y}) \ {z})
  <2>1. m \ {z} \notin B /\ m \ {y} \notin B
    BY <1>2, <1>3, <1>4
  <2>2. Good(m \ {z}) /\ Good(m \ {y})
    BY <1>4, <2>1
  <2>3. QED BY <1>3, <1>4, <1>6, <2>2
<1>8. (m \ {z}) \ {y} = (m \ {y}) \ {z}
  OBVIOUS
<1>9. SumOver(f, (m \ {z}) \ {y}) \in Int /\ f[y] \in Int /\ f[z] \in Int
  <2>1. (m \ {z}) \ {y} \in SUBSET S
    BY <1>4
  <2>2. IsFiniteSet((m \ {z}) \ {y})
    BY <2>1, FS_Subset
  <2>3. QED BY <1>3, <1>4, <2>1, <2>2, SumType
<1> DEFINE rest == SumOver(f, (m \ {z}) \ {y})
<1>10. SumOver(f, m) = f[z] + (f[y] + rest) /\ SumOver(f, m \ {y}) = f[z] + rest
  BY <1>5, <1>7, <1>8
<1> HIDE DEF rest
<1>11. rest \in Int /\ f[y] \in Int /\ f[z] \in Int
  BY <1>9 DEF rest
<1>12. SumOver(f, m) = f[y] + SumOver(f, m \ {y})
  BY <1>10, <1>11
<1>13. QED BY <1>3, <1>12

\* One element more.
LEMMA SumAdd ==
  ASSUME NEW S, NEW f, NEW x, x \notin S, IsFiniteSet(S), f[x] \in Int,
         \A y \in S : f[y] \in Int
  PROVE  SumOver(f, S \cup {x}) = SumOver(f, S) + f[x]
<1>1. IsFiniteSet(S \cup {x}) /\ (S \cup {x}) \ {x} = S
  BY FS_AddElement
<1>2. SumOver(f, S \cup {x}) = f[x] + SumOver(f, S)
  <2> DEFINE T == S \cup {x}
  <2>1. x \in T /\ \A y \in T : f[y] \in Int
    OBVIOUS
  <2> HIDE DEF T
  <2>2. SumOver(f, T) = f[x] + SumOver(f, T \ {x})
    BY <1>1, <2>1, SumRemove DEF T
  <2>3. QED BY <1>1, <2>2 DEF T
<1>3. SumOver(f, S) \in Int
  BY SumType
<1>4. QED BY <1>2, <1>3

\* The sum over two sets with nothing in common.
LEMMA SumUnion ==
  ASSUME NEW S, NEW T, NEW f, IsFiniteSet(S), IsFiniteSet(T), S \cap T = {},
         \A x \in S \cup T : f[x] \in Int
  PROVE  SumOver(f, S \cup T) = SumOver(f, S) + SumOver(f, T)
<1> DEFINE P == {R \in SUBSET T : SumOver(f, S \cup R) = SumOver(f, S) + SumOver(f, R)}
<1>0. SumOver(f, S) \in Int
  BY SumType
<1>1. {} \in P
  <2>1. S \cup {} = S /\ SumOver(f, {}) = 0
    BY SumEmpty
  <2>2. QED BY <1>0, <2>1
<1>2. ASSUME NEW R \in SUBSET T, NEW x \in T, R \in P, x \notin R
      PROVE  R \cup {x} \in P
  <2>1. IsFiniteSet(R) /\ IsFiniteSet(S \cup R)
    BY FS_Subset, FS_Union
  <2>2. x \notin S \cup R /\ f[x] \in Int
    BY <1>2
  <2>3. (S \cup R) \cup {x} = S \cup (R \cup {x})
    OBVIOUS
  <2>4. SumOver(f, (S \cup R) \cup {x}) = SumOver(f, S \cup R) + f[x]
    <3> DEFINE W == S \cup R
    <3>1. IsFiniteSet(W) /\ x \notin W /\ \A y \in W : f[y] \in Int
      BY <2>1, <2>2
    <3> HIDE DEF W
    <3>2. SumOver(f, W \cup {x}) = SumOver(f, W) + f[x]
      BY <2>2, <3>1, SumAdd
    <3>3. QED BY <3>2 DEF W
  <2>5. SumOver(f, R \cup {x}) = SumOver(f, R) + f[x]
    <3>1. \A y \in R : f[y] \in Int
      OBVIOUS
    <3>2. QED BY <1>2, <2>1, <2>2, <3>1, SumAdd
  <2>6. SumOver(f, R) \in Int
    <3>1. \A y \in R : f[y] \in Int
      OBVIOUS
    <3>2. QED BY <2>1, <3>1, SumType
  <2>7. SumOver(f, S \cup R) = SumOver(f, S) + SumOver(f, R)
    BY <1>2
  <2>8. SumOver(f, S \cup (R \cup {x})) = SumOver(f, S) + SumOver(f, R \cup {x})
    <3> DEFINE a == SumOver(f, S)
               b == SumOver(f, R)
               d == f[x]
    <3>1. a \in Int /\ b \in Int /\ d \in Int
      BY <1>0, <2>2, <2>6
    <3>2. SumOver(f, S \cup (R \cup {x})) = (a + b) + d /\ SumOver(f, R \cup {x}) = b + d
      BY <2>3, <2>4, <2>5, <2>7
    <3> HIDE DEF a, b, d
    <3>3. SumOver(f, S \cup (R \cup {x})) = a + SumOver(f, R \cup {x})
      BY <3>1, <3>2
    <3>4. QED BY <3>3 DEF a
  <2>9. QED BY <2>8
<1> HIDE DEF P
<1>3. T \in P
  BY <1>1, <1>2, FiniteSetInduction
<1>4. QED BY <1>3 DEF P

\* A set of consecutive numbers may be numbered from any place.
LEMMA SumShift ==
  ASSUME NEW n \in Nat, NEW k \in Nat, NEW f, NEW g,
         \A i \in 1 .. n : f[i] \in Int /\ g[k + i - 1] = f[i]
  PROVE  SumOver(g, k .. k + n - 1) = SumOver(f, 1 .. n)
<1> DEFINE P == {m \in Nat : m =< n => SumOver(g, k .. k + m - 1) = SumOver(f, 1 .. m)}
<1>1. 0 \in P
  <2>1. k .. k + 0 - 1 = {} /\ 1 .. 0 = {}
    OBVIOUS
  <2>2. QED BY <2>1, SumEmpty
<1>2. ASSUME NEW m \in Nat, m \in P PROVE m + 1 \in P
  <2>1. SUFFICES ASSUME m + 1 =< n
                 PROVE  SumOver(g, k .. k + (m + 1) - 1) = SumOver(f, 1 .. m + 1)
    OBVIOUS
  <2> DEFINE K == k .. k + m - 1
             I == 1 .. m
  <2>2. /\ k .. k + (m + 1) - 1 = K \cup {k + m} /\ k + m \notin K
        /\ 1 .. m + 1 = I \cup {m + 1} /\ m + 1 \notin I
    OBVIOUS
  <2>3. IsFiniteSet(K) /\ IsFiniteSet(I)
    BY FS_Interval
  <2>4. f[m + 1] \in Int /\ g[k + m] = f[m + 1] /\ g[k + m] \in Int
    <3>1. m + 1 \in 1 .. n /\ k + (m + 1) - 1 = k + m
      BY <2>1
    <3>2. QED BY <3>1
  <2>5. (\A y \in I : f[y] \in Int) /\ \A y \in K : g[y] \in Int
    <3>1. ASSUME NEW y \in K PROVE g[y] \in Int
      <4>1. y - k + 1 \in 1 .. n /\ k + (y - k + 1) - 1 = y
        BY <2>1
      <4>2. QED BY <4>1
    <3>2. QED BY <2>1, <3>1
  <2>6. SumOver(g, K) = SumOver(f, I)
    BY <1>2, <2>1
  <2> DEFINE y == k + m
             z == m + 1
  <2> HIDE DEF K, I, P
  <2>7. SumOver(g, K \cup {k + m}) = SumOver(g, K) + g[k + m]
    <3>1. y \notin K /\ g[y] \in Int
      BY <2>2, <2>4
    <3> HIDE DEF y
    <3>2. IsFiniteSet(K) /\ \A j \in K : g[j] \in Int
      BY <2>3, <2>5
    <3>3. SumOver(g, K \cup {y}) = SumOver(g, K) + g[y]
      BY ONLY <3>1, <3>2, SumAdd
    <3>4. QED BY <3>3 DEF y
  <2>8. SumOver(f, I \cup {m + 1}) = SumOver(f, I) + f[m + 1]
    <3>1. z \notin I /\ f[z] \in Int
      BY <2>2, <2>4
    <3> HIDE DEF z
    <3>2. IsFiniteSet(I) /\ \A j \in I : f[j] \in Int
      BY <2>3, <2>5
    <3>3. SumOver(f, I \cup {z}) = SumOver(f, I) + f[z]
      BY ONLY <3>1, <3>2, SumAdd
    <3>4. QED BY <3>3 DEF z
  <2>9. QED BY <2>2, <2>4, <2>6, <2>7, <2>8
<1> HIDE DEF P
<1>3. n \in P
  BY <1>1, <1>2, NatSetInduction
<1>4. QED BY <1>3 DEF P

\* What two members of a family have in common.
Disjoint(B, O) == \A o, p \in O : o # p => B[o] \cap B[p] = {}

\* The sum of the sums over a family of disjoint sets is the sum over all.
LEMMA SumFamily ==
  ASSUME NEW O, NEW B, NEW f, NEW h, NEW V, IsFiniteSet(O), IsFiniteSet(V),
         Disjoint(B, O), \A o \in O : B[o] \subseteq V /\ h[o] = SumOver(f, B[o]),
         \A x \in V : f[x] \in Int
  PROVE  SumOver(h, O) = SumOver(f, {x \in V : \E o \in O : x \in B[o]})
<1> DEFINE All(R) == {x \in V : \E o \in R : x \in B[o]}
           P == {R \in SUBSET O : SumOver(h, R) = SumOver(f, All(R))}
<1>1. {} \in P
  <2>1. All({}) = {}
    OBVIOUS
  <2>2. QED BY <2>1, SumEmpty
<1>2. ASSUME NEW o \in O
      PROVE  IsFiniteSet(B[o]) /\ h[o] = SumOver(f, B[o]) /\ h[o] \in Int
  <2>1. IsFiniteSet(B[o]) /\ \A x \in B[o] : f[x] \in Int
    BY FS_Subset
  <2>2. SumOver(f, B[o]) \in Int
    BY <2>1, SumType
  <2>3. QED BY <2>1, <2>2
<1>3. ASSUME NEW R \in SUBSET O, NEW o \in O, R \in P, o \notin R
      PROVE  R \cup {o} \in P
  <2>1. All(R \cup {o}) = All(R) \cup B[o] /\ All(R) \cap B[o] = {}
    BY <1>3 DEF Disjoint
  <2>2. IsFiniteSet(R) /\ IsFiniteSet(All(R)) /\ IsFiniteSet(B[o])
    BY <1>2, FS_Subset
  <2>3. \A x \in All(R) \cup B[o] : f[x] \in Int
    OBVIOUS
  <2>4. SumOver(h, R \cup {o}) = SumOver(h, R) + h[o]
    <3>1. (\A p \in R : h[p] \in Int) /\ h[o] \in Int
      BY <1>2
    <3> HIDE DEF P, All
    <3>2. QED BY <1>3, <2>2, <3>1, SumAdd
  <2>5. SumOver(f, All(R) \cup B[o]) = SumOver(f, All(R)) + SumOver(f, B[o])
    <3> DEFINE W == All(R)
               C == B[o]
    <3>1. IsFiniteSet(W) /\ IsFiniteSet(C) /\ W \cap C = {} /\ \A x \in W \cup C : f[x] \in Int
      BY <2>1, <2>2, <2>3
    <3> HIDE DEF W, C
    <3>2. SumOver(f, W \cup C) = SumOver(f, W) + SumOver(f, C)
      BY <3>1, SumUnion
    <3>3. QED BY <3>2 DEF W, C
  <2>6. SumOver(h, R) = SumOver(f, All(R))
    BY <1>3
  <2>7. SumOver(h, R \cup {o}) = SumOver(f, All(R \cup {o}))
    BY <1>2, <2>1, <2>4, <2>5, <2>6
  <2> HIDE DEF All
  <2>8. QED BY <2>7
<1> HIDE DEF P, All
<1>4. O \in P
  BY <1>1, <1>3, FiniteSetInduction
<1>5. QED BY <1>4 DEF P, All
============================================================================
