---------------------------- MODULE Bridge_proofs ----------------------------
(***************************************************************************)
(* Proofs about the liquidity bridge: each signature and each bank         *)
(* reference moves money once, the pools are what the records make them,   *)
(* and no window lets more through than the limit.                         *)
(***************************************************************************)
EXTENDS Bridge, SumLemmas

----------------------------------------------------------------------------
(* The invariant *)

Labels == {"idle", "rate", "count", "counted", "signature", "begin", "check", "commit", "respond"}
Business == {"begin", "check", "commit"}
Pool == [total: Nat, available: Nat, exists: BOOLEAN]

\* What each request does to its pool, as a function.
Deltas == [s \in Sends |-> Delta(s)]

RecordsOf(T, c) == {x \in T : x.currency = c}

\* The pools P are what the records T make them.
Balanced(T, P) ==
  \A c \in Currencies : /\ P[c].total = SumOver(Deltas, RecordsOf(T, c))
                        /\ P[c].available = SumOver(Deltas, RecordsOf(T, c))

LetThrough(W) == {i \in 1 .. Len(W) : W[i]}

\* What the tables say of each other: T records, P pools, R signatures.
Sound(T, P, R, W) ==
  /\ T \subseteq Sends /\ IsFiniteSet(T) /\ R \subseteq Sigs /\ W \in Seq(BOOLEAN)
  /\ \A x \in T : x.sig \in R
  /\ \A x, y \in T : x.bank_reference = y.bank_reference => x = y
  /\ P \in [Currencies -> Pool] /\ Balanced(T, P)
  /\ Cardinality(LetThrough(W)) =< RATE_LIMIT

\* A request s may be carried out: it is no duplicate, and a burn is covered.
Allowed(T, P, s) ==
  /\ ~ \E x \in T : x.bank_reference = s.bank_reference
  /\ P[s.currency].available + Delta(s) >= 0

\* What a thread holds at each place of its request: s is the request, r the
\* pool that it has read.
Holds(t, label, s, T, P, R, holder, r) ==
  /\ label \in Labels
  /\ label # "idle" => s \in Sends
  /\ label \in {"check", "commit"} => holder = t
  /\ label \in Business => s.sig \in R /\ s \notin T
  /\ label = "commit" => Allowed(T, P, s) /\ r = P[s.currency]

Local(t) == Holds(t, pc[t], send[t], transactions, liquidity, replay, writer, row[t])

\* Between INSERT and COMMIT of the rate limiter: n counts the request itself,
\* and then all that are in the window.
Counting(t, label, holder, n, W) ==
  /\ label \in {"count", "counted"} => holder = t
  /\ label = "count" => n >= 1
  /\ label = "counted" => Len(W) + 1 =< n

Counter(t) == Counting(t, pc[t], writer, count[t], window)

Differ(t, u) ==
  pc[t] \in Business /\ pc[u] \in Business /\ send[t].sig = send[u].sig => t = u

Shape ==
  /\ writer \in Threads \cup {NoThread}
  /\ pc = [t \in Threads |-> pc[t]] /\ send = [t \in Threads |-> send[t]]
  /\ code = [t \in Threads |-> code[t]]
  /\ row \in [Threads -> Pool] /\ count \in [Threads -> Nat]

BInv ==
  /\ Shape /\ Sound(transactions, liquidity, replay, window)
  /\ \A t \in Threads : Local(t)
  /\ \A t \in Threads : Counter(t)
  /\ \A t, u \in Threads : Differ(t, u)

----------------------------------------------------------------------------
(* What the invariant says of the next state *)

LEMMA ShapeNext ==
  ASSUME writer' \in Threads \cup {NoThread},
         pc' = [t \in Threads |-> pc'[t]], send' = [t \in Threads |-> send'[t]],
         code' = [t \in Threads |-> code'[t]],
         row' \in [Threads -> Pool], count' \in [Threads -> Nat]
  PROVE  Shape'
BY DEF Shape, Pool

LEMMA BInvNext ==
  ASSUME Shape', Sound(transactions', liquidity', replay', window'),
         \A t \in Threads :
           Holds(t, pc'[t], send'[t], transactions', liquidity', replay', writer', row'[t]),
         \A t \in Threads : Counting(t, pc'[t], writer', count'[t], window'),
         \A t, u \in Threads :
           pc'[t] \in Business /\ pc'[u] \in Business /\ send'[t].sig = send'[u].sig => t = u
  PROVE  BInv'
<1>1. Sound(transactions, liquidity, replay, window)'
  BY DEF Sound, Balanced, RecordsOf, Deltas, Delta, LetThrough, Pool, Sigs, SumOver, SumEquation,
         Some
<1>2. \A t \in Threads : Local(t)'
  BY DEF Local, Holds, Allowed, Delta, Labels, Business
<1>3. \A t \in Threads : Counter(t)'
  BY DEF Counter, Counting
<1>4. \A t, u \in Threads : Differ(t, u)'
  BY DEF Differ, Business
<1>5. QED BY <1>1, <1>2, <1>3, <1>4 DEF BInv

\* A step of thread t that touches no record, no pool and no signature, and
\* brings t no further into its business; it may change the window if t holds
\* the lock.
LEMMA QuietStep ==
  ASSUME BInv, NEW t \in Threads, Shape', transactions' = transactions,
         liquidity' = liquidity, replay' = replay, window' = window \/ writer = t,
         window' \in Seq(BOOLEAN), Cardinality(LetThrough(window')) =< RATE_LIMIT,
         \A u \in Threads \ {t} :
           /\ pc'[u] = pc[u] /\ send'[u] = send[u] /\ row'[u] = row[u] /\ count'[u] = count[u]
           /\ writer = u => writer' = u,
         Holds(t, pc'[t], send'[t], transactions, liquidity, replay, writer', row'[t]),
         Counting(t, pc'[t], writer', count'[t], window'),
         pc'[t] \in Business => pc[t] \in Business /\ send'[t] = send[t]
  PROVE  BInv'
<1>1. Sound(transactions', liquidity', replay', window')
  BY DEF BInv, Sound
<1>2. ASSUME NEW u \in Threads
      PROVE  Holds(u, pc'[u], send'[u], transactions', liquidity', replay', writer', row'[u])
  <2>1. CASE u = t
    BY <2>1
  <2>2. CASE u # t
    <3>1. Local(u)
      BY DEF BInv
    <3>2. QED BY <2>2, <3>1 DEF Local, Holds
  <2>3. QED BY <2>1, <2>2
<1>3. ASSUME NEW u \in Threads
      PROVE  Counting(u, pc'[u], writer', count'[u], window')
  <2>1. CASE u = t
    BY <2>1
  <2>2. CASE u # t
    <3>1. Counter(u)
      BY DEF BInv
    <3>2. QED BY <2>2, <3>1 DEF Counter, Counting
  <2>3. QED BY <2>1, <2>2
<1>4. ASSUME NEW u \in Threads, NEW v \in Threads,
             pc'[u] \in Business, pc'[v] \in Business, send'[u].sig = send'[v].sig
      PROVE  u = v
  <2>1. /\ pc[u] \in Business /\ send'[u] = send[u]
        /\ pc[v] \in Business /\ send'[v] = send[v]
    BY <1>4
  <2>2. QED BY <1>4, <2>1 DEF BInv, Differ
<1>5. QED BY <1>1, <1>2, <1>3, <1>4, BInvNext

(* The window *)

\* One more request in the count: let through only while within the limit.
LEMMA WindowGrows ==
  ASSUME NEW W \in Seq(BOOLEAN), NEW k \in Nat, Len(W) + 1 =< k,
         NEW V, V = Append(W, Within(k)), Cardinality(LetThrough(W)) =< RATE_LIMIT
  PROVE  V \in Seq(BOOLEAN) /\ Cardinality(LetThrough(V)) =< RATE_LIMIT
<1> DEFINE n == Len(W)
           b == Within(k)
<1>1. n \in Nat /\ b \in BOOLEAN /\ V = Append(W, b)
  BY DEF Within
<1> HIDE DEF b
<1>2. /\ V \in Seq(BOOLEAN) /\ Len(V) = n + 1 /\ V[n + 1] = b
      /\ \A i \in 1 .. n : V[i] = W[i]
  BY <1>1
<1>3. LetThrough(V) \subseteq 1 .. n + 1 /\ (~ b => LetThrough(V) = LetThrough(W))
  <2>1. LetThrough(V) \subseteq 1 .. n + 1
    BY <1>2 DEF LetThrough
  <2>2. ASSUME ~ b, NEW i PROVE i \in LetThrough(V) <=> i \in LetThrough(W)
    <3>1. i \in 1 .. n + 1 <=> i \in 1 .. n \/ i = n + 1
      BY <1>1
    <3>2. i \in LetThrough(V) <=> i \in 1 .. n + 1 /\ V[i]
      BY <1>2 DEF LetThrough
    <3>3. i \in LetThrough(W) <=> i \in 1 .. n /\ W[i]
      BY DEF LetThrough
    <3>4. n + 1 \notin 1 .. n
      BY <1>1
    <3> HIDE DEF n
    <3>5. QED BY <1>2, <2>2, <3>1, <3>2, <3>3, <3>4
  <2>3. QED BY <2>1, <2>2
<1>4. b => n + 1 =< RATE_LIMIT
  BY <1>1, BridgeAssumption DEF b, Within
<1>5. ASSUME b PROVE Cardinality(LetThrough(V)) =< RATE_LIMIT
  <2>1. IsFiniteSet(1 .. n + 1) /\ Cardinality(1 .. n + 1) = n + 1
    BY <1>1, FS_Interval
  <2> HIDE DEF n
  <2>2. Cardinality(LetThrough(V)) =< Cardinality(1 .. n + 1)
    BY <1>3, <2>1, FS_Subset
  <2>3. IsFiniteSet(LetThrough(V))
    BY <1>3, <2>1, FS_Subset
  <2>4. Cardinality(LetThrough(V)) \in Nat
    BY <2>3, FS_CardinalityType
  <2>5. n + 1 =< RATE_LIMIT /\ n \in Nat /\ RATE_LIMIT \in Nat
    BY <1>1, <1>4, <1>5, BridgeAssumption
  <2>6. QED BY ONLY <2>1, <2>2, <2>4, <2>5
<1>6. QED BY <1>2, <1>3, <1>5

\* The oldest request leaves.
LEMMA WindowShrinks ==
  ASSUME NEW W \in Seq(BOOLEAN), W # <<>>, Cardinality(LetThrough(W)) =< RATE_LIMIT
  PROVE  Tail(W) \in Seq(BOOLEAN) /\ Cardinality(LetThrough(Tail(W))) =< RATE_LIMIT
<1> DEFINE V == Tail(W)
           f == [i \in LetThrough(V) |-> i + 1]
<1>1. /\ V \in Seq(BOOLEAN) /\ Len(W) \in Nat /\ Len(V) = Len(W) - 1
      /\ \A i \in 1 .. Len(V) : V[i] = W[i + 1]
  OBVIOUS
<1> HIDE DEF V
<1>2. ASSUME NEW i \in LetThrough(V) PROVE i \in Nat /\ i + 1 \in LetThrough(W)
  <2>1. i \in 1 .. Len(V) /\ V[i]
    BY DEF LetThrough
  <2>2. i + 1 \in 1 .. Len(W) /\ i \in Nat
    BY <1>1, <2>1
  <2>3. V[i] = W[i + 1]
    BY <1>1, <2>1, Zenon
  <2>4. QED BY <2>1, <2>2, <2>3, Zenon DEF LetThrough
<1>3. f \in Injection(LetThrough(V), LetThrough(W))
  BY <1>2 DEF Injection, IsInjective
<1>4. IsFiniteSet(LetThrough(W))
  <2>1. IsFiniteSet(1 .. Len(W)) /\ LetThrough(W) \subseteq 1 .. Len(W)
    BY <1>1, FS_Interval DEF LetThrough
  <2>2. QED BY <2>1, FS_Subset
<1> HIDE DEF f
<1>5. /\ IsFiniteSet(LetThrough(V))
      /\ Cardinality(LetThrough(V)) =< Cardinality(LetThrough(W))
  BY <1>3, <1>4, FS_Injection
<1>6. Cardinality(LetThrough(V)) \in Nat /\ Cardinality(LetThrough(W)) \in Nat
  BY <1>4, <1>5, FS_CardinalityType
<1>7. Cardinality(LetThrough(V)) =< RATE_LIMIT
  BY <1>5, <1>6, BridgeAssumption
<1>8. QED BY <1>1, <1>7 DEF V

----------------------------------------------------------------------------
(* The steps before and after the business *)

LEMMA ArriveStep ==
  ASSUME BInv, NEW t \in Threads, Arrive(t)
  PROVE  BInv'
<1>1. PICK s \in Sends : send' = [send EXCEPT ![t] = s]
  BY DEF Arrive
<1>2. /\ pc' = [pc EXCEPT ![t] = "rate"]
      /\ UNCHANGED <<transactions, liquidity, replay, window, writer, count, row, code>>
  BY DEF Arrive, Goto, tables, locals
<1>3. Shape /\ Sound(transactions, liquidity, replay, window)
  BY DEF BInv
<1>4. Shape'
  BY <1>1, <1>2, <1>3, ShapeNext DEF Shape
<1>5. pc'[t] = "rate" /\ send'[t] = s
  BY <1>1, <1>2, <1>3 DEF Shape
<1>6. Holds(t, pc'[t], send'[t], transactions, liquidity, replay, writer', row'[t])
  BY <1>5 DEF Holds, Labels, Business
<1>7. /\ Counting(t, pc'[t], writer', count'[t], window')
      /\ \A u \in Threads \ {t} : pc'[u] = pc[u] /\ send'[u] = send[u]
  BY <1>1, <1>2, <1>3, <1>5 DEF Shape, Counting
<1>8. window' \in Seq(BOOLEAN) /\ Cardinality(LetThrough(window')) =< RATE_LIMIT
  BY <1>2, <1>3 DEF Sound
<1>9. QED BY <1>2, <1>4, <1>5, <1>6, <1>7, <1>8, QuietStep DEF Business

\* The step ends the request of t: it goes to respond, or it is over.
LEMMA EndStep ==
  ASSUME BInv, NEW t \in Threads, NEW status, NEW label \in {"respond", "idle"},
         UNCHANGED <<transactions, liquidity, replay>>, window' = window \/ writer = t,
         window' \in Seq(BOOLEAN), Cardinality(LetThrough(window')) =< RATE_LIMIT,
         pc' = [pc EXCEPT ![t] = label], code' = [code EXCEPT ![t] = status],
         \/ count' = count /\ row' = row
         \/ count' = [count EXCEPT ![t] = 0] /\ row' = [row EXCEPT ![t] = NoPool],
         send' = send \/ (label = "idle" /\ send' = [send EXCEPT ![t] = NoSend]),
         label = "respond" => pc[t] # "idle",
         writer' \in {writer, t} \/ (writer = t /\ writer' = NoThread)
           \/ (writer = NoThread /\ writer' = t),
         writer' = t => writer \in {t, NoThread}
  PROVE  BInv'
<1>1. Shape /\ Local(t)
  BY DEF BInv
<1>2. Shape'
  <2>1. writer' \in Threads \cup {NoThread} /\ send' = [u \in Threads |-> send'[u]]
    BY <1>1 DEF Shape
  <2>2. NoPool \in Pool /\ row \in [Threads -> Pool] /\ count \in [Threads -> Nat]
    BY <1>1 DEF Shape, NoPool, Pool
  <2>3. row' \in [Threads -> Pool]
    BY <2>2
  <2>4. count' \in [Threads -> Nat]
    BY <2>2
  <2>5. QED BY <1>1, <2>1, <2>3, <2>4, ShapeNext DEF Shape
<1>3. pc'[t] = label /\ (label = "respond" => send'[t] = send[t])
  BY <1>1 DEF Shape
<1>4. Holds(t, pc'[t], send'[t], transactions, liquidity, replay, writer', row'[t])
  BY <1>1, <1>3 DEF Local, Holds, Labels, Business
<1>5. \A u \in Threads \ {t} :
        /\ pc'[u] = pc[u] /\ send'[u] = send[u] /\ row'[u] = row[u] /\ count'[u] = count[u]
        /\ writer = u => writer' = u
  BY <1>1, BridgeAssumption DEF Shape
<1>6. pc'[t] \notin Business /\ Counting(t, pc'[t], writer', count'[t], window')
  BY <1>3 DEF Business, Counting
<1>7. QED BY <1>2, <1>4, <1>5, <1>6, QuietStep

LEMMA WindowKept ==
  ASSUME BInv, window' = window
  PROVE  window' \in Seq(BOOLEAN) /\ Cardinality(LetThrough(window')) =< RATE_LIMIT
BY DEF BInv, Sound

\* The INSERT takes the write lock.
LEMMA InsertStep ==
  ASSUME BInv, NEW t \in Threads, InsertRequest(t)
  PROVE  BInv'
<1>1. Shape /\ Local(t) /\ pc[t] = "rate" /\ writer = NoThread /\ writer' = t
      /\ pc' = [pc EXCEPT ![t] = "count"] /\ count' = [count EXCEPT ![t] = 1]
      /\ UNCHANGED <<transactions, liquidity, replay, window, send, row, code>>
  BY DEF BInv, InsertRequest, Goto, tables
<1>2. Shape'
  BY <1>1, ShapeNext DEF Shape
<1>3. pc'[t] = "count" /\ count'[t] = 1
  BY <1>1 DEF Shape
<1>4. /\ Holds(t, pc'[t], send'[t], transactions, liquidity, replay, writer', row'[t])
      /\ Counting(t, pc'[t], writer', count'[t], window') /\ pc'[t] \notin Business
  BY <1>1, <1>3 DEF Local, Holds, Counting, Labels, Business
<1>5. \A u \in Threads \ {t} :
        /\ pc'[u] = pc[u] /\ send'[u] = send[u] /\ row'[u] = row[u] /\ count'[u] = count[u]
        /\ writer = u => writer' = u
  BY <1>1, BridgeAssumption DEF Shape
<1>6. QED BY <1>1, <1>2, <1>4, <1>5, QuietStep, WindowKept

LEMMA CountStep ==
  ASSUME BInv, NEW t \in Threads, CountRequests(t)
  PROVE  BInv'
<1>1. /\ Shape /\ Local(t) /\ Counter(t) /\ pc[t] = "count" /\ Len(window) \in Nat
      /\ pc' = [pc EXCEPT ![t] = "counted"]
      /\ count' = [count EXCEPT ![t] = count[t] + Len(window)]
      /\ UNCHANGED <<transactions, liquidity, replay, window, writer, send, row, code>>
  BY DEF BInv, Sound, CountRequests, Goto, tables
<1>2. /\ writer = t /\ count[t] \in Nat /\ count[t] >= 1 /\ count[t] + Len(window) \in Nat
      /\ pc'[t] = "counted" /\ count'[t] = count[t] + Len(window)
  BY <1>1 DEF Shape, Counter, Counting
<1>3. Shape'
  BY <1>1, <1>2, ShapeNext DEF Shape
<1>4. /\ Holds(t, pc'[t], send'[t], transactions, liquidity, replay, writer', row'[t])
      /\ Counting(t, pc'[t], writer', count'[t], window') /\ pc'[t] \notin Business
  BY <1>1, <1>2 DEF Local, Holds, Counting, Labels, Business
<1>5. \A u \in Threads \ {t} :
        /\ pc'[u] = pc[u] /\ send'[u] = send[u] /\ row'[u] = row[u] /\ count'[u] = count[u]
        /\ writer = u => writer' = u
  BY <1>1 DEF Shape
<1>6. QED BY <1>1, <1>3, <1>4, <1>5, QuietStep, WindowKept

\* The window is no longer than it was when it was counted.
LEMMA CommitCountStep ==
  ASSUME BInv, NEW t \in Threads, CommitCount(t)
  PROVE  BInv'
<1>1. /\ Shape /\ Local(t) /\ Counter(t) /\ Sound(transactions, liquidity, replay, window)
      /\ pc[t] = "counted" /\ window' = Append(window, Within(count[t])) /\ writer' = NoThread
      /\ UNCHANGED <<transactions, liquidity, replay, send>>
  BY DEF BInv, CommitCount
<1>2. writer = t /\ count[t] \in Nat /\ Len(window) + 1 =< count[t]
  BY <1>1 DEF Shape, Counter, Counting
<1>3. window' \in Seq(BOOLEAN) /\ Cardinality(LetThrough(window')) =< RATE_LIMIT
  BY <1>1, <1>2, WindowGrows DEF Sound
<1>4. CASE Goto(t, "signature") /\ count' = [count EXCEPT ![t] = 0] /\ UNCHANGED <<row, code>>
  <2>1. pc' = [pc EXCEPT ![t] = "signature"] /\ row' = row /\ code' = code
    BY <1>4 DEF Goto
  <2>2. Shape'
    BY <1>1, <1>4, <2>1, ShapeNext DEF Shape
  <2>3. pc'[t] = "signature"
    BY <1>1, <2>1 DEF Shape
  <2>4. /\ Holds(t, pc'[t], send'[t], transactions, liquidity, replay, writer', row'[t])
        /\ Counting(t, pc'[t], writer', count'[t], window') /\ pc'[t] \notin Business
    BY <1>1, <2>3 DEF Local, Holds, Counting, Labels, Business
  <2>5. \A u \in Threads \ {t} :
          /\ pc'[u] = pc[u] /\ send'[u] = send[u] /\ row'[u] = row[u] /\ count'[u] = count[u]
          /\ writer = u => writer' = u
    BY <1>1, <1>2, <1>4, <2>1 DEF Shape
  <2>6. QED BY <1>1, <1>2, <1>3, <2>2, <2>4, <2>5, QuietStep
<1>5. CASE Finish(t, "LIMITED")
  BY <1>1, <1>2, <1>3, <1>5, EndStep DEF Finish, Goto
<1>6. QED BY <1>4, <1>5 DEF CommitCount

\* The signature is new: it is used up, and t is the only one with it.
LEMMA SignatureStep ==
  ASSUME BInv, NEW t \in Threads, VerifySignature(t)
  PROVE  BInv'
<1>1. Shape /\ Local(t) /\ Sound(transactions, liquidity, replay, window)
  BY DEF BInv
<1>2. pc[t] = "signature" /\ writer = NoThread
      /\ UNCHANGED <<transactions, liquidity, window, send>>
  BY DEF VerifySignature
<1>3. CASE New(send[t].sig)
  <2>1. /\ replay' = replay \cup {send[t].sig} /\ pc' = [pc EXCEPT ![t] = "begin"]
        /\ send[t].sig \notin replay /\ UNCHANGED <<writer, count, row, code>>
    BY <1>3 DEF VerifySignature, Goto, New, locals
  <2>2. Shape'
    BY <1>1, <1>2, <2>1, ShapeNext DEF Shape
  <2>3. send[t] \in Sends /\ send[t].sig \in Sigs /\ send[t] \notin transactions
    BY <1>1, <1>2, <2>1 DEF Local, Holds, Sigs, Sound
  <2>4. Sound(transactions', liquidity', replay', window')
    BY <1>1, <1>2, <2>1, <2>3 DEF Sound
  <2>5. pc'[t] = "begin" /\ \A u \in Threads \ {t} : pc'[u] = pc[u]
    BY <1>1, <2>1 DEF Shape
  <2>6. ASSUME NEW u \in Threads
        PROVE  Holds(u, pc'[u], send'[u], transactions', liquidity', replay', writer', row'[u])
    <3>1. CASE u = t
      BY <1>2, <2>1, <2>3, <2>5, <3>1 DEF Holds, Labels, Business
    <3>2. CASE u # t
      <4>1. Local(u)
        BY DEF BInv
      <4>2. QED BY <1>2, <2>1, <2>5, <3>2, <4>1 DEF Local, Holds
    <3>3. QED BY <3>1, <3>2
  <2>7. \A u \in Threads : Counting(u, pc'[u], writer', count'[u], window')
    BY <1>2, <2>1, <2>5 DEF BInv, Counter, Counting
  <2>8. ASSUME NEW u \in Threads, NEW v \in Threads,
               pc'[u] \in Business, pc'[v] \in Business, send'[u].sig = send'[v].sig
        PROVE  u = v
    <3>1. \A x \in Threads \ {t} : pc[x] \in Business => send[x].sig # send[t].sig
      BY <2>1 DEF BInv, Local, Holds
    <3>2. CASE u = t \/ v = t
      BY <1>2, <2>5, <2>8, <3>1, <3>2
    <3>3. CASE u # t /\ v # t
      BY <1>2, <2>5, <2>8, <3>3 DEF BInv, Differ
    <3>4. QED BY <3>2, <3>3
  <2>9. QED BY <2>2, <2>4, <2>6, <2>7, <2>8, BInvNext
<1>4. CASE ~ New(send[t].sig)
  BY <1>2, <1>4, EndStep, WindowKept DEF VerifySignature, Finish, Goto
<1>5. QED BY <1>3, <1>4

LEMMA RejectStep ==
  ASSUME BInv, NEW t \in Threads, RejectSignature(t) \/ Busy(t) \/ Fault(t) \/ Respond(t)
  PROVE  BInv'
<1>1. CASE RejectSignature(t) \/ Busy(t)
  BY <1>1, EndStep, WindowKept DEF RejectSignature, Busy, Waiting, Finish, Goto, tables
<1>2. CASE Fault(t)
  BY <1>2, EndStep, WindowKept DEF Fault, Finish, Goto, tables
<1>3. CASE Respond(t)
  BY <1>3, EndStep, WindowKept DEF Respond, Close, Goto, tables, locals
<1>4. QED BY <1>1, <1>2, <1>3

LEMMA SlideStep ==
  ASSUME BInv, WindowSlides
  PROVE  BInv'
<1>1. /\ window # <<>> /\ window' = Tail(window)
      /\ count' = [t \in Threads |-> IF pc[t] = "count" THEN count[t] + 1 ELSE count[t]]
      /\ UNCHANGED <<transactions, liquidity, replay, writer, pc, send, row, code>>
  BY DEF WindowSlides
<1>2. Shape /\ Sound(transactions, liquidity, replay, window)
  BY DEF BInv
<1>3. Shape'
  <2>1. count' \in [Threads -> Nat]
    BY <1>1, <1>2 DEF Shape
  <2>2. QED BY <1>1, <1>2, <2>1, ShapeNext DEF Shape
<1>4. window' \in Seq(BOOLEAN) /\ Cardinality(LetThrough(window')) =< RATE_LIMIT
  BY <1>1, <1>2, WindowShrinks DEF Sound
<1>5. Sound(transactions', liquidity', replay', window')
  BY <1>1, <1>2, <1>4 DEF Sound
<1>6. \A t \in Threads :
        Holds(t, pc'[t], send'[t], transactions', liquidity', replay', writer', row'[t])
  BY <1>1 DEF BInv, Local
<1>7. \A t \in Threads : Counting(t, pc'[t], writer', count'[t], window')
  <2>1. Len(window) \in Nat /\ Len(window') \in Nat /\ Len(window') =< Len(window)
    BY <1>1, <1>2 DEF Sound
  <2>2. \A t \in Threads : Counter(t) /\ count[t] \in Nat
    BY <1>2 DEF BInv, Shape
  <2>3. QED BY <1>1, <2>1, <2>2 DEF Counter, Counting
<1>8. \A t, u \in Threads :
        pc'[t] \in Business /\ pc'[u] \in Business /\ send'[t].sig = send'[u].sig => t = u
  BY <1>1 DEF BInv, Differ
<1>9. QED BY <1>3, <1>5, <1>6, <1>7, <1>8, BInvNext

LEMMA CrashStep ==
  ASSUME BInv, Crash
  PROVE  BInv'
<1>1. /\ pc' = [t \in Threads |-> "idle"] /\ send' = [t \in Threads |-> NoSend]
      /\ code' = [t \in Threads |-> "NONE"] /\ writer' = NoThread
      /\ count' = [t \in Threads |-> 0] /\ row' = [t \in Threads |-> NoPool]
      /\ UNCHANGED <<transactions, liquidity, replay, window>>
  BY DEF Crash, tables
<1>2. Shape'
  <2>1. row' \in [Threads -> Pool] /\ count' \in [Threads -> Nat]
    BY <1>1 DEF NoPool, Pool
  <2>2. QED BY <1>1, <2>1, ShapeNext
<1>3. Sound(transactions', liquidity', replay', window')
  BY <1>1 DEF BInv
<1>4. \A t \in Threads :
        Holds(t, pc'[t], send'[t], transactions', liquidity', replay', writer', row'[t])
  BY <1>1 DEF Holds, Labels, Business
<1>5. \A t \in Threads : /\ pc'[t] \notin Business
                          /\ Counting(t, pc'[t], writer', count'[t], window')
  BY <1>1 DEF Business, Counting
<1>6. QED BY <1>2, <1>3, <1>4, <1>5, BInvNext

----------------------------------------------------------------------------
(* The business: one transaction                                            *)

LEMMA BeginStep ==
  ASSUME BInv, NEW t \in Threads, Begin(t)
  PROVE  BInv'
<1>1. /\ pc[t] = "begin" /\ writer = NoThread /\ writer' = t
      /\ pc' = [pc EXCEPT ![t] = "check"]
      /\ UNCHANGED <<transactions, liquidity, replay, window, send, count, row, code>>
  BY DEF Begin, Goto, tables, locals
<1>2. Shape /\ Local(t)
  BY DEF BInv
<1>3. Shape'
  BY <1>1, <1>2, ShapeNext DEF Shape
<1>4. pc'[t] = "check"
  BY <1>1, <1>2 DEF Shape
<1>5. Holds(t, pc'[t], send'[t], transactions, liquidity, replay, writer', row'[t])
  BY <1>1, <1>2, <1>4 DEF Local, Holds, Labels, Business
<1>6. \A u \in Threads \ {t} :
        pc'[u] = pc[u] /\ send'[u] = send[u] /\ (writer = u => writer' = u)
  BY <1>1, <1>2, BridgeAssumption DEF Shape
<1>7. Counting(t, pc'[t], writer', count'[t], window')
  BY <1>4 DEF Counting
<1>8. QED BY <1>1, <1>3, <1>5, <1>6, <1>7, QuietStep, WindowKept DEF Business

LEMMA CheckStep ==
  ASSUME BInv, NEW t \in Threads, CheckRequest(t)
  PROVE  BInv'
<1> DEFINE s == send[t]
<1>1. Shape /\ Local(t) /\ Sound(transactions, liquidity, replay, window) /\ pc[t] = "check"
  BY DEF BInv, CheckRequest
<1>2. writer = t /\ s \in Sends
  BY <1>1 DEF Local, Holds
<1>3. CASE Abort(t, "DUPLICATE") \/ Abort(t, "INSUFFICIENT")
  BY <1>1, <1>2, <1>3, EndStep, WindowKept DEF Abort, Finish, Goto, tables
<1>4. CASE /\ ~ Duplicate(s) /\ ~ Insufficient(s) /\ pc' = [pc EXCEPT ![t] = "commit"]
           /\ row' = [row EXCEPT ![t] = liquidity[s.currency]]
           /\ UNCHANGED <<transactions, liquidity, replay, window, writer, send, count, code>>
  <2>1. Allowed(transactions, liquidity, s)
    <3>1. /\ s.currency \in Currencies /\ s.type \in {"mint", "burn"}
          /\ s.amount \in Nat \ {0}
      BY <1>2, BridgeAssumption
    <3>2. liquidity[s.currency] \in Pool
      BY <1>1, <3>1 DEF Sound
    <3>3. liquidity[s.currency].available \in Nat /\ Delta(s) \in Int
      BY <3>1, <3>2 DEF Pool, Delta
    <3>4. liquidity[s.currency].available + Delta(s) >= 0
      <4>1. CASE liquidity[s.currency].exists
        BY <1>4, <3>3, <4>1 DEF Insufficient
      <4>2. CASE ~ liquidity[s.currency].exists
        <5>1. s.type = "mint"
          BY <1>4, <3>1, <4>2 DEF Insufficient
        <5>2. QED BY <3>1, <3>3, <5>1 DEF Delta
      <4>3. QED BY <4>1, <4>2
    <3>5. QED BY <1>4, <3>4 DEF Allowed, Duplicate
  <2>2. Shape'
    <3>1. liquidity[s.currency] \in Pool
      BY <1>1, <1>2, BridgeAssumption DEF Sound
    <3>2. QED BY <1>1, <1>4, <3>1, ShapeNext DEF Shape
  <2>3. pc'[t] = "commit" /\ row'[t] = liquidity[s.currency]
    BY <1>1, <1>4 DEF Shape
  <2>4. Holds(t, pc'[t], send'[t], transactions, liquidity, replay, writer', row'[t])
    BY <1>1, <1>4, <2>1, <2>3 DEF Local, Holds, Labels, Business
  <2>5. /\ \A u \in Threads \ {t} :
             /\ pc'[u] = pc[u] /\ send'[u] = send[u] /\ row'[u] = row[u]
             /\ writer = u => writer' = u
        /\ Counting(t, pc'[t], writer', count'[t], window')
    BY <1>1, <1>4, <2>3 DEF Shape, Counting
  <2>6. QED BY <1>1, <1>4, <2>2, <2>4, <2>5, QuietStep, WindowKept DEF Business
<1>5. QED BY <1>3, <1>4 DEF CheckRequest, Goto, tables

\* Q is P with the pool of c moved by x.
MovedBy(P, Q, c, x) ==
  Q = [P EXCEPT ![c] = [total |-> @.total + x, available |-> @.available + x, exists |-> TRUE]]

\* A new record and the pool that goes with it.
LEMMA RecordBalances ==
  ASSUME NEW T, NEW P, NEW R, NEW W, NEW s \in Sends, NEW Q, Sound(T, P, R, W),
         s \notin T, s.sig \in R, Allowed(T, P, s), MovedBy(P, Q, s.currency, Delta(s))
  PROVE  Sound(T \cup {s}, Q, R, W)
<1> DEFINE c == s.currency
           x == Delta(s)
           f == Deltas
<1>1. /\ c \in Currencies /\ x \in Int /\ f[s] = x
      /\ \A r \in Sends : f[r] \in Int
  BY BridgeAssumption DEF Delta, Deltas
<1>2. P \in [Currencies -> Pool] /\ T \subseteq Sends /\ IsFiniteSet(T) /\ Balanced(T, P)
  BY DEF Sound
<1>3. /\ P[c].total \in Nat /\ P[c].available \in Nat /\ P[c].total = P[c].available
      /\ P[c].available + x >= 0
  BY <1>1, <1>2 DEF Pool, Balanced, Allowed
<1>4. /\ Q[c].total = P[c].total + x /\ Q[c].available = P[c].available + x
      /\ \A o \in Currencies : o # c => Q[o] = P[o]
  BY <1>1, <1>2 DEF MovedBy
<1>5. Q \in [Currencies -> Pool]
  <2> DEFINE moved == [total |-> P[c].total + x, available |-> P[c].available + x,
                     exists |-> TRUE]
  <2>1. moved \in Pool
    BY <1>1, <1>3 DEF Pool
  <2>2. Q = [P EXCEPT ![c] = moved]
    BY DEF MovedBy
  <2> HIDE DEF moved
  <2>3. QED BY <1>2, <2>1, <2>2
<1>6. Balanced(T \cup {s}, Q)
  <2>1. ASSUME NEW o \in Currencies, o # c
        PROVE  RecordsOf(T \cup {s}, o) = RecordsOf(T, o)
    BY <2>1 DEF RecordsOf
  <2>2. RecordsOf(T \cup {s}, c) = RecordsOf(T, c) \cup {s}
    BY DEF RecordsOf
  <2>3. SumOver(f, RecordsOf(T, c) \cup {s}) = SumOver(f, RecordsOf(T, c)) + x
    <3> DEFINE S == RecordsOf(T, c)
    <3>1. S \subseteq T /\ s \notin S
      BY DEF RecordsOf
    <3>2. IsFiniteSet(S)
      BY <1>2, <3>1, FS_Subset
    <3>3. \A r \in S : f[r] \in Int
      BY <1>1, <1>2, <3>1
    <3> HIDE DEF S, f, x
    <3>4. SumOver(f, S \cup {s}) = SumOver(f, S) + f[s]
      BY <1>1, <3>1, <3>2, <3>3, SumAdd
    <3>5. QED BY <1>1, <3>4 DEF S
  <2> HIDE DEF c, x
  <2>4. ASSUME NEW o \in Currencies
        PROVE  /\ Q[o].total = SumOver(Deltas, RecordsOf(T \cup {s}, o))
               /\ Q[o].available = SumOver(Deltas, RecordsOf(T \cup {s}, o))
    <3>1. CASE o = c
      BY <1>1, <1>2, <1>4, <2>2, <2>3, <3>1 DEF Balanced
    <3>2. CASE o # c
      BY <1>2, <1>4, <2>1, <3>2 DEF Balanced
    <3>3. QED BY <3>1, <3>2
  <2>5. QED BY <2>4 DEF Balanced
<1>7. IsFiniteSet(T \cup {s})
  BY <1>2, FS_AddElement
<1>8. \A y, z \in T \cup {s} : y.bank_reference = z.bank_reference => y = z
  BY DEF Sound, Allowed
<1>9. QED BY <1>2, <1>5, <1>6, <1>7, <1>8 DEF Sound

LEMMA CommitStep ==
  ASSUME BInv, NEW t \in Threads, Commit(t)
  PROVE  BInv'
<1> DEFINE s == send[t]
<1>1. /\ pc[t] = "commit" /\ transactions' = transactions \cup {s}
      /\ liquidity' = [liquidity EXCEPT ![s.currency] = Adjusted(row[t], s)]
      /\ writer' = NoThread
      /\ count' = [count EXCEPT ![t] = 0] /\ row' = [row EXCEPT ![t] = NoPool]
      /\ pc' = [pc EXCEPT ![t] = "respond"] /\ code' = [code EXCEPT ![t] = "COMPLETED"]
      /\ UNCHANGED <<replay, window, send>>
  BY DEF Commit, Finish, Goto
<1>2. Shape /\ Local(t) /\ Sound(transactions, liquidity, replay, window)
  BY DEF BInv
<1>3. /\ s \in Sends /\ writer = t /\ s.sig \in replay /\ s \notin transactions
      /\ Allowed(transactions, liquidity, s) /\ row[t] = liquidity[s.currency]
  BY <1>1, <1>2 DEF Local, Holds, Business
<1>4. MovedBy(liquidity, liquidity', s.currency, Delta(s))
  BY <1>1, <1>3 DEF MovedBy, Adjusted
<1>5. Sound(transactions', liquidity', replay', window')
  <2> DEFINE T == transactions
             P == liquidity
             Q == liquidity'
             R == replay
             W == window
  <2>1. /\ Sound(T, P, R, W) /\ s \in Sends /\ s \notin T /\ s.sig \in R
        /\ Allowed(T, P, s) /\ MovedBy(P, Q, s.currency, Delta(s))
    BY <1>2, <1>3, <1>4
  <2> HIDE DEF T, P, Q, R, W, s
  <2>2. Sound(T \cup {s}, Q, R, W)
    BY <2>1, RecordBalances
  <2>3. QED BY <1>1, <2>2 DEF T, Q, R, W
<1>6. Shape'
  <2>1. row' \in [Threads -> Pool] /\ count' \in [Threads -> Nat]
    BY <1>1, <1>2 DEF Shape, NoPool, Pool
  <2>2. QED BY <1>1, <1>2, <2>1, ShapeNext DEF Shape
<1>7. pc'[t] = "respond" /\ \A u \in Threads \ {t} : pc'[u] = pc[u]
  BY <1>1, <1>2 DEF Shape
<1>8. ASSUME NEW u \in Threads
      PROVE  Holds(u, pc'[u], send'[u], transactions', liquidity', replay', writer', row'[u])
  <2>1. CASE u = t
    BY <1>1, <1>3, <1>7, <2>1 DEF Holds, Labels, Business
  <2>2. CASE u # t
    <3>1. Local(u) /\ pc[u] \notin {"check", "commit"}
      BY <1>3, <2>2 DEF BInv, Local, Holds
    <3>2. pc[u] \in Business => send[u] # s
      BY <1>1, <2>2 DEF BInv, Differ, Business
    <3>3. QED BY <1>1, <1>7, <2>2, <3>1, <3>2 DEF Local, Holds
  <2>3. QED BY <2>1, <2>2
<1>9. ASSUME NEW u \in Threads, NEW v \in Threads,
             pc'[u] \in Business, pc'[v] \in Business, send'[u].sig = send'[v].sig
      PROVE  u = v
  <2>1. u # t /\ v # t
    BY <1>7, <1>9 DEF Business
  <2>2. QED BY <1>1, <1>7, <1>9, <2>1 DEF BInv, Differ
<1>10. ASSUME NEW u \in Threads
       PROVE  Counting(u, pc'[u], writer', count'[u], window')
  <2>1. CASE u = t
    BY <1>7, <2>1 DEF Counting
  <2>2. CASE u # t
    <3>1. Counter(u) /\ pc'[u] = pc[u] /\ pc[u] \notin {"count", "counted"}
      BY <1>3, <1>7, <2>2 DEF BInv, Counter, Counting
    <3>2. QED BY <3>1 DEF Counting
  <2>3. QED BY <2>1, <2>2
<1>11. QED BY <1>5, <1>6, <1>8, <1>9, <1>10, BInvNext

----------------------------------------------------------------------------
(* The theorems *)

LEMMA InitBInv == Init => BInv
<1> SUFFICES ASSUME Init PROVE BInv
  OBVIOUS
<1>1. /\ transactions = {} /\ replay = {} /\ window = <<>> /\ writer = NoThread
      /\ liquidity = [c \in Currencies |-> NoPool]
      /\ \A t \in Threads : pc[t] = "idle"
  BY DEF Init
<1>2. Shape
  BY DEF Init, Shape, NoPool, Pool
<1>3. Sound(transactions, liquidity, replay, window)
  <2>1. LetThrough(window) = {} /\ IsFiniteSet({}) /\ Cardinality({}) = 0
    BY <1>1, FS_EmptySet DEF LetThrough
  <2>2. liquidity \in [Currencies -> Pool]
    BY <1>1 DEF NoPool, Pool
  <2>3. Balanced(transactions, liquidity)
    <3>1. \A c \in Currencies : RecordsOf(transactions, c) = {}
      BY <1>1 DEF RecordsOf
    <3>2. QED BY <1>1, <3>1, SumEmpty DEF Balanced, NoPool
  <2>4. window \in Seq(BOOLEAN)
    BY <1>1
  <2>5. Cardinality(LetThrough(window)) =< RATE_LIMIT
    BY <2>1, BridgeAssumption
  <2>6. /\ transactions \subseteq Sends /\ IsFiniteSet(transactions) /\ replay \subseteq Sigs
        /\ \A x \in transactions : x.sig \in replay
        /\ \A x, y \in transactions : x.bank_reference = y.bank_reference => x = y
    BY <1>1, <2>1
  <2>7. QED BY <2>2, <2>3, <2>4, <2>5, <2>6, Zenon DEF Sound
<1>4. \A t \in Threads : Local(t)
  BY <1>1 DEF Local, Holds, Labels, Business
<1>5. \A t, u \in Threads : Differ(t, u)
  BY <1>1 DEF Differ, Business
<1>6. \A t \in Threads : Counter(t)
  BY <1>1 DEF Counter, Counting
<1>7. QED BY <1>2, <1>3, <1>4, <1>5, <1>6 DEF BInv

LEMMA NextBInv == BInv /\ [Next]_vars => BInv'
<1> SUFFICES ASSUME BInv, [Next]_vars PROVE BInv'
  OBVIOUS
<1>1. CASE UNCHANGED vars
  <2>1. Shape'
    BY <1>1, ShapeNext DEF BInv, Shape, vars
  <2>2. QED BY <1>1, <2>1, BInvNext DEF BInv, Local, Counter, Differ, vars
<1>2. ASSUME NEW t \in Threads, Arrive(t) \/ RejectSignature(t) \/ Serve(t) \/ Fault(t)
      PROVE  BInv'
  BY <1>2, ArriveStep, RejectStep, InsertStep, CountStep, CommitCountStep, SignatureStep, BeginStep, CheckStep, CommitStep
  DEF Serve
<1>3. QED BY <1>1, <1>2, SlideStep, CrashStep DEF Next

LEMMA BAlways == Spec => []BInv
BY InitBInv, NextBInv, PTL DEF Spec

\* Pools are never negative, because a request is checked and its pool is read
\* and changed under one write lock.
THEOREM BridgeTypes == Spec => []TypeOK
<1>1. BInv => TypeOK
  BY DEF BInv, Shape, Sound, TypeOK, Pool
<1>2. QED BY <1>1, BAlways, PTL

\* Whatever fails half-way, the pools are what the records make them: a pool that
\* was read is still the same when its sum is written back.
THEOREM PoolsBalance == Spec => []PoolsMatchRecords
<1>1. ASSUME NEW T \in SUBSET Sends, IsFiniteSet(T) PROVE NetValue(T) = SumOver(Deltas, T)
  <2> DEFINE Eq(g) == g = [S \in SUBSET T |->
                            IF S = {} THEN 0
                            ELSE Delta(CHOOSE x \in S : TRUE) + g[S \ {CHOOSE x \in S : TRUE}]]
             g == CHOOSE g : Eq(g)
  <2>1. ASSUME NEW h PROVE Eq(h) <=> SumEquation(Deltas, h, SUBSET T)
    <3>1. ASSUME NEW S \in SUBSET T, S # {}
          PROVE  Deltas[Some(S)] = Delta(CHOOSE x \in S : TRUE)
      <4>1. Some(S) \in Sends
        BY <3>1 DEF Some
      <4>2. QED BY <4>1 DEF Deltas, Some
    <3>2. \A S \in SUBSET T :
            (IF S = {} THEN 0 ELSE Deltas[Some(S)] + h[S \ {Some(S)}])
              = IF S = {} THEN 0
                ELSE Delta(CHOOSE x \in S : TRUE) + h[S \ {CHOOSE x \in S : TRUE}]
      BY <3>1 DEF Some
    <3>3. QED BY <3>2, Zenon DEF SumEquation
  <2>2. Eq(g)
    <3>1. \E h : Eq(h)
      <4> HIDE DEF Eq
      <4>1. PICK h : SumEquation(Deltas, h, SUBSET T)
        BY <1>1, SumExists
      <4>2. QED BY <2>1, <4>1
    <3> HIDE DEF Eq
    <3>2. QED BY <3>1
  <2>3. NetValue(T) = g[T]
    BY DEF NetValue, MapThenSumSet, MapThenFoldSet
  <2> HIDE DEF g, Eq
  <2>4. g[T] = SumOver(Deltas, T)
    BY <1>1, <2>1, <2>2, SumOverIs
  <2>5. QED BY <2>3, <2>4
<1>2. ASSUME BInv, NEW c \in Currencies
      PROVE  LET net == NetValue({x \in transactions : x.currency = c})
             IN  liquidity[c].total = net /\ liquidity[c].available = net
  <2> DEFINE T == RecordsOf(transactions, c)
  <2>1. T \in SUBSET Sends /\ T \subseteq transactions /\ IsFiniteSet(transactions)
    BY <1>2 DEF BInv, Sound, RecordsOf
  <2>2. IsFiniteSet(T)
    BY <2>1, FS_Subset
  <2>3. liquidity[c].total = SumOver(Deltas, T) /\ liquidity[c].available = SumOver(Deltas, T)
    BY <1>2 DEF BInv, Sound, Balanced
  <2>4. T = {x \in transactions : x.currency = c}
    BY DEF RecordsOf
  <2> HIDE DEF T
  <2>5. NetValue(T) = SumOver(Deltas, T)
    BY <1>1, <2>1, <2>2
  <2>6. QED BY <2>3, <2>4, <2>5
<1>3. BInv => PoolsMatchRecords
  BY <1>2 DEF PoolsMatchRecords
<1>4. QED BY <1>3, BAlways, PTL

\* A bank reference moves money at most once, under whatever signatures.
THEOREM OneMovePerReference == Spec => []OncePerReference
<1>1. BInv => OncePerReference
  BY DEF BInv, Sound, OncePerReference
<1>2. QED BY <1>1, BAlways, PTL

\* A signed request is in business at most once, ever.
THEOREM SignaturesWorkOnce == Spec => []SignatureOnce
<1>1. BInv => SignatureOnce
  BY DEF BInv, Local, Holds, Differ, Business, SignatureOnce
<1>2. QED BY <1>1, BAlways, PTL

\* Whatever comes between them, INSERT, COUNT and COMMIT are one transaction: the
\* count includes the request itself, is not outdated when it decides, and no
\* window lets more than RATE_LIMIT requests through.
THEOREM WindowsAreLimited == Spec => []RateHolds
<1>1. BInv => RateHolds
  BY DEF BInv, Sound, LetThrough, RateHolds
<1>2. QED BY <1>1, BAlways, PTL

----------------------------------------------------------------------------
============================================================================
