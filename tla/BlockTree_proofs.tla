-------------------------- MODULE BlockTree_proofs --------------------------
(***************************************************************************)
(* Proofs about the block index and the choice of the best chain, for      *)
(* every tree of blocks, any work, any invalid blocks, and any interleaving*)
(* of received blocks, failures, crashes and restarts.                     *)
(***************************************************************************)
EXTENDS BlockTree, SequenceTheorems, FiniteSetTheorems, WellFoundedInduction, TLAPS

(***************************************************************************)
(* Recursion and induction.  Every induction below goes by a least         *)
(* counterexample.                                                         *)
(***************************************************************************)
LEMMA LeastElement ==
    ASSUME NEW S \in SUBSET Nat, S # {}
    PROVE  \E x \in S : \A y \in S : x <= y
<1> DEFINE R == {p \in Nat \X Nat : p[1] < p[2]}
<1>1. IsWellFoundedOn(R, Nat)
  BY NatLessThanWellFounded DEF OpToRel
<1> HIDE DEF R
<1>2. PICK x \in S : \A y \in S : ~(<<y, x>> \in R)
  BY <1>1, WFMin
<1>3. \A y \in S : ~(y < x)
  BY <1>2 DEF R
<1> QED BY <1>3

(* Functions on the tree defined from the value at the parent exist.       *)
TreeStep(V, v0, G) == v0 \in V /\ G \in [Block \X V -> V]
TreeFunction(f, V, v0, G) ==
    /\ f \in [Block -> V]
    /\ f[Genesis] = v0
    /\ \A b \in Block \ {Genesis} : f[b] = G[<<b, f[Parent[b]]>>]

LEMMA TreeRecursion ==
    ASSUME NEW V, NEW v0, NEW G, TreeStep(V, v0, G)
    PROVE  \E f : TreeFunction(f, V, v0, G)
<1> USE DEF TreeStep, TreeFunction
<1> DEFINE Low(n) == {b \in Block : nHeight[b] <= n}
           Good(f, n) == /\ f \in [Low(n) -> V]
                         /\ f[Genesis] = v0
                         /\ \A b \in Low(n) \ {Genesis} : f[b] = G[<<b, f[Parent[b]]>>]
<1>0. /\ Genesis \in Block /\ nHeight[Genesis] = 0
      /\ \A b \in Block : nHeight[b] \in Nat
      /\ \A b \in Block \ {Genesis} : Parent[b] \in Block /\ nHeight[b] = nHeight[Parent[b]] + 1
  BY TreeAssumption
<1>1. \A n \in Nat : \E f : Good(f, n)
  <2> DEFINE S == {n \in Nat : ~ \E f : Good(f, n)}
  <2> SUFFICES ASSUME S # {} PROVE FALSE
    OBVIOUS
  <2>1. PICK n \in S : \A m \in S : n <= m
    BY LeastElement
  <2>2. CASE n = 0
    <3>1. \A b \in Low(0) : b = Genesis
      BY <1>0
    <3>2. Good([b \in Low(0) |-> v0], 0)
      BY <1>0, <3>1
    <3> QED BY <2>2, <3>2
  <2>3. CASE n # 0
    <3>1. n - 1 \in Nat /\ n - 1 \notin S
      <4>1. n \in Nat
        OBVIOUS
      <4> HIDE DEF S
      <4> QED BY <2>1, <2>3, <4>1
    <3>2. PICK g : Good(g, n - 1)
      <4> HIDE DEF Good
      <4> QED BY <3>1
    <3> DEFINE f == [b \in Low(n) |-> IF b \in Low(n - 1) THEN g[b] ELSE G[<<b, g[Parent[b]]>>]]
    <3>3. \A b \in Low(n) \ {Genesis} : Parent[b] \in Low(n - 1)
      BY <1>0, <2>3
    <3>4. Genesis \in Low(n - 1) /\ Low(n - 1) \subseteq Low(n)
      BY <1>0, <3>1
    <3>5. \A b \in Low(n - 1) : g[b] \in V
      BY <3>2
    <3>6. f \in [Low(n) -> V]
      <4>1. ASSUME NEW b \in Low(n) PROVE f[b] \in V
        BY <1>0, <3>3, <3>4, <3>5
      <4> QED BY <4>1
    <3>7. f[Genesis] = v0
      BY <3>2, <3>4
    <3>8. ASSUME NEW b \in Low(n) \ {Genesis} PROVE f[b] = G[<<b, f[Parent[b]]>>]
      <4>1. f[Parent[b]] = g[Parent[b]]
        BY <3>3, <3>4
      <4> QED BY <3>2, <4>1
    <3>9. Good(f, n)
      BY <3>6, <3>7, <3>8
    <3> QED BY <3>9
  <2> QED BY <2>2, <2>3
<1>2. ASSUME NEW n \in Nat, NEW m \in Nat, m <= n, NEW f, NEW g, Good(f, n), Good(g, m)
      PROVE  \A b \in Low(m) : f[b] = g[b]
  <2> DEFINE S == {k \in Nat : \E b \in Low(m) : nHeight[b] = k /\ f[b] # g[b]}
  <2> SUFFICES ASSUME S # {} PROVE FALSE
    BY <1>0
  <2>1. PICK k \in S : \A j \in S : k <= j
    BY LeastElement
  <2>2. PICK b \in Low(m) : nHeight[b] = k /\ f[b] # g[b]
    BY <2>1
  <2>3. b # Genesis
    BY <1>2, <2>2
  <2>4. Parent[b] \in Low(m) /\ nHeight[Parent[b]] \in Nat /\ nHeight[Parent[b]] < k
    BY <1>0, <2>2, <2>3
  <2>5. f[Parent[b]] = g[Parent[b]]
    BY <2>1, <2>4
  <2>6. b \in Low(n)
    BY <1>0, <1>2
  <2>7. f[b] = G[<<b, f[Parent[b]]>>]
    BY <1>2, <2>3, <2>6
  <2>8. g[b] = G[<<b, g[Parent[b]]>>]
    BY <1>2, <2>2, <2>3
  <2> QED BY <2>2, <2>5, <2>7, <2>8
<1> DEFINE H(n) == CHOOSE f : Good(f, n)
           F == [b \in Block |-> H(nHeight[b])[b]]
<1>3. \A n \in Nat : Good(H(n), n)
  BY <1>1
<1> HIDE DEF Good, H
<1>4. \A b \in Block : b \in Low(nHeight[b]) /\ F[b] \in V
  <2> SUFFICES ASSUME NEW b \in Block PROVE b \in Low(nHeight[b]) /\ F[b] \in V
    OBVIOUS
  <2>1. Good(H(nHeight[b]), nHeight[b]) /\ b \in Low(nHeight[b])
    BY <1>0, <1>3
  <2> QED BY <2>1 DEF Good
<1>5. F[Genesis] = v0
  BY <1>0, <1>3 DEF Good
<1>6. ASSUME NEW b \in Block \ {Genesis} PROVE F[b] = G[<<b, F[Parent[b]]>>]
  <2> DEFINE n == nHeight[b]  p == Parent[b]  m == nHeight[p]
  <2>1. n \in Nat /\ m \in Nat /\ m <= n /\ p \in Block /\ p \in Low(m) /\ b \in Low(n)
    BY <1>0, <1>4
  <2>2. Good(H(n), n) /\ Good(H(m), m)
    BY <1>3, <2>1
  <2>3. H(n)[p] = H(m)[p]
    BY <1>2, <2>1, <2>2
  <2>4. H(n)[b] = G[<<b, H(n)[p]>>]
    BY <2>1, <2>2 DEF Good
  <2> QED BY <2>1, <2>3, <2>4
<1> QED
  <2>1. F \in [Block -> V]
    BY <1>4
  <2> QED BY <1>5, <1>6, <2>1

(* And so do functions on 0..N defined from the value before.              *)
SeqStep(N, V, v0, G) == N \in Nat /\ v0 \in V /\ G \in [(1..N) \X V -> V]
SeqFunction(f, N, V, v0, G) ==
    f \in [0..N -> V] /\ f[0] = v0 /\ \A i \in 1..N : f[i] = G[<<i, f[i - 1]>>]

LEMMA SeqRecursion ==
    ASSUME NEW N, NEW V, NEW v0, NEW G, SeqStep(N, V, v0, G)
    PROVE  \E f : SeqFunction(f, N, V, v0, G)
<1> USE DEF SeqStep, SeqFunction
<1> DEFINE Good(f, n) == /\ f \in [0..n -> V]
                         /\ f[0] = v0
                         /\ \A i \in 1..n : f[i] = G[<<i, f[i - 1]>>]
           S == {n \in Nat : n <= N /\ ~ \E f : Good(f, n)}
<1> SUFFICES ASSUME S # {} PROVE FALSE
  <2>1. N \notin S => \E f : Good(f, N)
    OBVIOUS
  <2> QED BY <2>1
<1>1. PICK n \in S : \A m \in S : n <= m
  BY LeastElement
<1>2. n \in Nat /\ n <= N /\ ~ \E f : Good(f, n)
  OBVIOUS
<1>3. CASE n = 0
  <2>1. Good([i \in 0..0 |-> v0], 0)
    OBVIOUS
  <2> QED BY <1>2, <1>3, <2>1
<1>4. CASE n # 0
  <2>1. n - 1 \in Nat /\ n - 1 <= N /\ n - 1 \notin S
    <3> HIDE DEF S
    <3> QED BY <1>1, <1>2, <1>4
  <2>2. PICK g : Good(g, n - 1)
    <3> HIDE DEF Good
    <3> QED BY <2>1
  <2> DEFINE f == [i \in 0..n |-> IF i = n THEN G[<<n, g[n - 1]>>] ELSE g[i]]
  <2>3. \A i \in 0..(n - 1) : g[i] \in V
    BY <2>2
  <2>4. f \in [0..n -> V]
    <3>1. ASSUME NEW i \in 0..n PROVE f[i] \in V
      BY <1>2, <1>4, <2>1, <2>3
    <3> QED BY <3>1
  <2>5. f[0] = v0
    BY <1>4, <2>1, <2>2
  <2>6. ASSUME NEW i \in 1..n PROVE f[i] = G[<<i, f[i - 1]>>]
    <3>1. f[i - 1] = g[i - 1]
      BY <2>1
    <3>2. CASE i = n
      <4>1. f[n] = G[<<n, g[n - 1]>>]
        BY <1>2
      <4> HIDE DEF f
      <4> QED BY <3>1, <3>2, <4>1
    <3>3. CASE i # n
      BY <2>1, <2>2, <3>1, <3>3
    <3> QED BY <3>2, <3>3
  <2>7. Good(f, n)
    BY <2>4, <2>5, <2>6
  <2> QED BY <1>2, <2>7
<1> QED BY <1>3, <1>4

(* p gives the places of s, the first n of them, that o holds: the ones    *)
(* with a member of S, in order.                                           *)
Places(p, o, s, n, S) ==
    /\ p \in [1..Len(o) -> 1..n]
    /\ \A i \in 1..Len(o) : o[i] = s[p[i]] /\ s[p[i]] \in S
    /\ \A i, j \in 1..Len(o) : i < j => p[i] < p[j]
    /\ \A k \in 1..n : s[k] \in S => \E i \in 1..Len(o) : p[i] = k

(* Only(s, S) picks exactly the places of s that hold members of S, in     *)
(* order.                                                                  *)
LEMMA OnlyPicks ==
    ASSUME NEW T, NEW s \in Seq(T), NEW S
    PROVE  Only(s, S) \in Seq(T) /\ \E p : Places(p, Only(s, S), s, Len(s), S)
<1> DEFINE N == Len(s)
           Def(K) == [i \in 0..N |-> IF i = 0 THEN <<>>
                                     ELSE IF s[i] \in S THEN Append(K[i - 1], s[i]) ELSE K[i - 1]]
           Kept == CHOOSE K : K = Def(K)
<1>0. N \in Nat /\ \A i \in 1..N : s[i] \in T
  OBVIOUS
<1>1. Kept = Def(Kept)
  <2> DEFINE G == [x \in (1..N) \X Seq(T) |-> IF s[x[1]] \in S THEN Append(x[2], s[x[1]]) ELSE x[2]]
  <2>1. G \in [(1..N) \X Seq(T) -> Seq(T)]
    BY <1>0
  <2>2. PICK f \in [0..N -> Seq(T)] : f[0] = <<>> /\ \A i \in 1..N : f[i] = G[<<i, f[i - 1]>>]
    <3>1. SeqStep(N, Seq(T), <<>>, G)
      BY <1>0, <2>1 DEF SeqStep
    <3>2. PICK f : SeqFunction(f, N, Seq(T), <<>>, G)
      BY <3>1, SeqRecursion
    <3> HIDE DEF G, N
    <3> QED BY <3>2 DEF SeqFunction
  <2>3. f = Def(f)
    <3>1. ASSUME NEW i \in 0..N PROVE f[i] = Def(f)[i]
      <4>1. CASE i = 0
        BY <2>2, <4>1
      <4>2. CASE i # 0
        <5>1. i \in 1..N /\ i - 1 \in 0..N
          BY <1>0, <4>2
        <5>2. f[i - 1] \in Seq(T)
          BY <5>1
        <5>3. f[i] = G[<<i, f[i - 1]>>]
          BY <2>2, <5>1
        <5> QED BY <4>2, <5>1, <5>2, <5>3
      <4> QED BY <4>1, <4>2
    <3> QED BY <3>1
  <2> QED BY <2>3
<1>2. /\ Kept[0] = <<>>
      /\ \A n \in 1..N : Kept[n] = IF s[n] \in S THEN Append(Kept[n - 1], s[n]) ELSE Kept[n - 1]
  <2>1. \A i \in 0..N : Kept[i] = Def(Kept)[i]
    BY <1>1
  <2> HIDE DEF Kept
  <2> QED BY <1>0, <2>1
<1> HIDE DEF Kept
<1> DEFINE Picks(p, n) ==
             /\ p \in [1..Len(Kept[n]) -> 1..n]
             /\ \A i \in 1..Len(Kept[n]) : Kept[n][i] = s[p[i]] /\ s[p[i]] \in S
             /\ \A i, j \in 1..Len(Kept[n]) : i < j => p[i] < p[j]
             /\ \A k \in 1..n : s[k] \in S => \E i \in 1..Len(Kept[n]) : p[i] = k
           Good(n) == Kept[n] \in Seq(T) /\ \E p : Picks(p, n)
           Bad == {n \in Nat : n <= N /\ ~Good(n)}
<1>3. Bad = {}
  <2> SUFFICES ASSUME Bad # {} PROVE FALSE
    OBVIOUS
  <2>1. PICK n \in Bad : \A m \in Bad : n <= m
    BY LeastElement
  <2>2. n \in Nat /\ n <= N /\ ~Good(n)
    OBVIOUS
  <2>3. n # 0
    <3> SUFFICES ASSUME n = 0 PROVE FALSE
      OBVIOUS
    <3>1. Len(Kept[0]) = 0 /\ Kept[0] \in Seq(T)
      BY <1>2
    <3>2. Picks(<<>>, 0)
      BY <3>1
    <3> QED BY <2>2, <3>1, <3>2
  <2>4. n - 1 \in Nat /\ n - 1 <= N /\ Good(n - 1)
    <3>1. n - 1 \in Nat /\ n - 1 <= N /\ n - 1 \notin Bad
      <4> HIDE DEF Bad
      <4> QED BY <2>1, <2>2, <2>3
    <3> HIDE DEF Good
    <3> QED BY <3>1
  <2>5. PICK q : Picks(q, n - 1)
    BY <2>4
  <2>6. Kept[n - 1] \in Seq(T) /\ n \in 1..N /\ s[n] \in T
    BY <1>0, <2>2, <2>3, <2>4
  <2>7. CASE s[n] \notin S
    <3>1. Kept[n] = Kept[n - 1]
      BY <1>2, <2>6, <2>7
    <3>2. Picks(q, n)
      BY <2>4, <2>5, <2>6, <2>7, <3>1
    <3> QED BY <2>2, <2>6, <3>1, <3>2
  <2>8. CASE s[n] \in S
    <3> DEFINE L == Len(Kept[n - 1])
               p == [i \in 1..(L + 1) |-> IF i = L + 1 THEN n ELSE q[i]]
    <3>1. Kept[n] = Append(Kept[n - 1], s[n])
      BY <1>2, <2>6, <2>8
    <3>2. /\ L \in Nat /\ Len(Kept[n]) = L + 1 /\ Kept[n] \in Seq(T)
          /\ \A i \in 1..L : Kept[n][i] = Kept[n - 1][i]
          /\ Kept[n][L + 1] = s[n]
      BY <2>6, <3>1
    <3>3. \A i \in 1..L : q[i] \in 1..(n - 1) /\ p[i] = q[i]
      <4>1. q \in [1..L -> 1..(n - 1)]
        BY <2>5
      <4> HIDE DEF L
      <4> QED BY <3>2, <4>1
    <3>4. p[L + 1] = n
      BY <3>2
    <3>5. \A i \in 1..(L + 1) : i \in 1..L \/ i = L + 1
      BY <3>2
    <3>6. p \in [1..(L + 1) -> 1..n]
      <4>1. ASSUME NEW i \in 1..(L + 1) PROVE p[i] \in 1..n
        <5> HIDE DEF p, L
        <5> QED BY <2>2, <2>3, <3>2, <3>3, <3>4, <3>5
      <4>2. p = [i \in 1..(L + 1) |-> p[i]]
        OBVIOUS
      <4> HIDE DEF p, L
      <4> QED BY <4>1, <4>2
    <3> HIDE DEF p, L
    <3>7. \A i \in 1..(L + 1) : Kept[n][i] = s[p[i]] /\ s[p[i]] \in S
      BY <2>5, <2>8, <3>2, <3>3, <3>4, <3>5 DEF L
    <3>8. ASSUME NEW i \in 1..(L + 1), NEW j \in 1..(L + 1), i < j PROVE p[i] < p[j]
      <4>1. i \in 1..L
        BY <3>2, <3>8
      <4>2. CASE j = L + 1
        BY <2>2, <3>3, <3>4, <4>1, <4>2
      <4>3. CASE j \in 1..L
        BY <2>5, <3>3, <3>8, <4>1, <4>3 DEF L
      <4> QED BY <3>5, <4>2, <4>3
    <3>9. ASSUME NEW k \in 1..n, s[k] \in S PROVE \E i \in 1..(L + 1) : p[i] = k
      <4>1. CASE k = n
        BY <3>2, <3>4, <4>1
      <4>2. CASE k # n
        <5>1. k \in 1..(n - 1)
          BY <2>2, <4>2
        <5>2. PICK i \in 1..L : q[i] = k
          BY <2>5, <3>9, <5>1 DEF L
        <5>3. i \in 1..(L + 1) /\ p[i] = k
          BY <3>2, <3>3, <5>2
        <5> QED BY <5>3
      <4> QED BY <4>1, <4>2
    <3>10. Picks(p, n)
      BY <3>2, <3>6, <3>7, <3>8, <3>9
    <3> QED BY <2>2, <3>2, <3>10
  <2> QED BY <2>7, <2>8
<1>4. Good(N)
  <2> HIDE DEF Good, N
  <2> QED BY <1>0, <1>3
<1>5. Only(s, S) = Kept[N]
  BY DEF Only, Kept
<1>6. PICK p : Picks(p, N)
  BY <1>4
<1>7. Places(p, Kept[N], s, N, S)
  <2> HIDE DEF N
  <2> QED BY <1>6 DEF Places
<1>8. Kept[N] \in Seq(T)
  BY <1>4
<1> HIDE DEF Picks
<1> QED BY <1>5, <1>7, <1>8

LEMMA OnlySet ==
    ASSUME NEW T, NEW s \in Seq(T), NEW S
    PROVE  Only(s, S) \in Seq(T) /\ ToSet(Only(s, S)) = ToSet(s) \cap S
<1> DEFINE o == Only(s, S)
<1>1. o \in Seq(T)
  BY OnlyPicks
<1>0. PICK p : Places(p, o, s, Len(s), S)
  BY OnlyPicks
<1> HIDE DEF o
<1>2. /\ p \in [1..Len(o) -> 1..Len(s)]
      /\ \A i \in 1..Len(o) : o[i] = s[p[i]] /\ s[p[i]] \in S
      /\ \A k \in 1..Len(s) : s[k] \in S => \E i \in 1..Len(o) : p[i] = k
  BY <1>0 DEF Places
<1>3. DOMAIN o = 1..Len(o) /\ DOMAIN s = 1..Len(s)
  BY <1>1
<1>4. ToSet(o) \subseteq ToSet(s) \cap S
  BY <1>2, <1>3 DEF ToSet
<1>5. ASSUME NEW x \in ToSet(s) \cap S PROVE x \in ToSet(o)
  <2>1. PICK k \in 1..Len(s) : x = s[k]
    BY <1>3 DEF ToSet
  <2>2. PICK i \in 1..Len(o) : p[i] = k
    BY <1>2, <2>1
  <2>3. o[i] = x
    BY <1>2, <2>1, <2>2
  <2> QED BY <1>3, <2>3 DEF ToSet
<1> QED BY <1>1, <1>4, <1>5 DEF o

-----------------------------------------------------------------------------
(***************************************************************************)
(* The tree.                                                               *)
(***************************************************************************)
LEMMA TreeFacts ==
    /\ Genesis \in Block /\ None \notin Block /\ nHeight[Genesis] = 0
    /\ \A b \in Block : nHeight[b] \in Nat /\ BlockWork[b] \in Nat \ {0} /\ HashOf[b] \in Nat
    /\ \A b \in Block \ {Genesis} : Parent[b] \in Block /\ nHeight[b] = nHeight[Parent[b]] + 1
BY TreeAssumption

LEMMA ChainDef ==
    /\ Chain \in [Block -> Seq(Block)]
    /\ Chain[Genesis] = <<Genesis>>
    /\ \A b \in Block \ {Genesis} : Chain[b] = Append(Chain[Parent[b]], b)
<1> DEFINE Def(f) == [b \in Block |-> IF b = Genesis THEN <<b>> ELSE Append(f[Parent[b]], b)]
           V == Seq(Block)
           G == [x \in Block \X V |-> Append(x[2], x[1])]
<1>1. TreeStep(V, <<Genesis>>, G)
  BY TreeFacts DEF TreeStep
<1>2. PICK f : TreeFunction(f, V, <<Genesis>>, G)
  <2> HIDE DEF G, V
  <2> QED BY <1>1, TreeRecursion
<1>3. f = Def(f)
  <2>1. f \in [Block -> V]
    BY <1>2 DEF TreeFunction
  <2>2. ASSUME NEW b \in Block PROVE f[b] = Def(f)[b]
    <3>1. CASE b = Genesis
      BY <1>2, <3>1 DEF TreeFunction
    <3>2. CASE b # Genesis
      <4>1. f[b] = G[<<b, f[Parent[b]]>>] /\ f[Parent[b]] \in V
        BY <1>2, <2>1, <3>2, TreeFacts DEF TreeFunction
      <4> QED BY <3>2, <4>1
    <3> QED BY <3>1, <3>2
  <2> HIDE DEF V
  <2> QED BY <2>1, <2>2
<1>4. Chain = Def(Chain)
  BY <1>3 DEF Chain
<1>5. Chain[Genesis] = <<Genesis>> /\ \A b \in Block \ {Genesis} : Chain[b] = Append(Chain[Parent[b]], b)
  BY <1>4, TreeFacts
<1> DEFINE Bad == {n \in Nat : \E b \in Block : nHeight[b] = n /\ Chain[b] \notin V}
<1>6. Bad = {}
  <2> SUFFICES ASSUME Bad # {} PROVE FALSE
    OBVIOUS
  <2>1. PICK n \in Bad : \A m \in Bad : n <= m
    BY LeastElement
  <2>2. PICK b \in Block : nHeight[b] = n /\ Chain[b] \notin V
    BY <2>1
  <2>3. b # Genesis
    <3>1. <<Genesis>> \in Seq(Block)
      BY TreeFacts
    <3> QED BY <1>5, <2>2, <3>1
  <2>4. Parent[b] \in Block /\ nHeight[Parent[b]] \in Nat /\ nHeight[Parent[b]] < n
    BY <2>2, <2>3, TreeFacts
  <2>5. Chain[Parent[b]] \in V
    BY <2>1, <2>4
  <2>6. Append(Chain[Parent[b]], b) \in V
    <3> DEFINE c == Chain[Parent[b]]
    <3>1. c \in Seq(Block) /\ b \in Block
      BY <2>5
    <3> HIDE DEF c
    <3>2. Append(c, b) \in Seq(Block)
      BY <3>1
    <3> QED BY <3>2 DEF c
  <2> QED BY <1>5, <2>2, <2>3, <2>6
<1>7. \A b \in Block : Chain[b] \in V
  BY <1>6, TreeFacts
<1>8. Chain \in [Block -> V]
  <2> HIDE DEF V
  <2> QED BY <1>4, <1>7
<1> QED BY <1>5, <1>8

(* Work adds up along a chain.                                             *)
LEMMA WorkDef ==
    /\ nChainWork \in [Block -> Nat]
    /\ \A b \in Block \ {Genesis} : nChainWork[b] > nChainWork[Parent[b]]
<1> DEFINE Def(f) == [b \in Block |-> BlockWork[b] + IF b = Genesis THEN 0 ELSE f[Parent[b]]]
           G == [x \in Block \X Nat |-> BlockWork[x[1]] + x[2]]
<1>1. TreeStep(Nat, BlockWork[Genesis], G)
  BY TreeFacts DEF TreeStep
<1>2. PICK f : TreeFunction(f, Nat, BlockWork[Genesis], G)
  <2> HIDE DEF G
  <2> QED BY <1>1, TreeRecursion
<1>3. f = Def(f)
  <2>1. f \in [Block -> Nat]
    BY <1>2 DEF TreeFunction
  <2>2. ASSUME NEW b \in Block PROVE f[b] = Def(f)[b]
    <3>1. CASE b = Genesis
      BY <1>2, <3>1, TreeFacts DEF TreeFunction
    <3>2. CASE b # Genesis
      <4>1. f[b] = G[<<b, f[Parent[b]]>>] /\ f[Parent[b]] \in Nat
        BY <1>2, <2>1, <3>2, TreeFacts DEF TreeFunction
      <4> QED BY <3>2, <4>1
    <3> QED BY <3>1, <3>2
  <2> QED BY <2>1, <2>2
<1>4. nChainWork = Def(nChainWork)
  BY <1>3 DEF nChainWork
<1>5. /\ nChainWork[Genesis] = BlockWork[Genesis] + 0
      /\ \A b \in Block \ {Genesis} : nChainWork[b] = BlockWork[b] + nChainWork[Parent[b]]
  BY <1>4, TreeFacts
<1> DEFINE Bad == {n \in Nat : \E b \in Block : nHeight[b] = n /\ nChainWork[b] \notin Nat}
<1>6. Bad = {}
  <2> SUFFICES ASSUME Bad # {} PROVE FALSE
    OBVIOUS
  <2>1. PICK n \in Bad : \A m \in Bad : n <= m
    BY LeastElement
  <2>2. PICK b \in Block : nHeight[b] = n /\ nChainWork[b] \notin Nat
    BY <2>1
  <2>3. b # Genesis
    BY <1>5, <2>2, TreeFacts
  <2>4. Parent[b] \in Block /\ nHeight[Parent[b]] \in Nat /\ nHeight[Parent[b]] < n
    BY <2>2, <2>3, TreeFacts
  <2>5. nChainWork[Parent[b]] \in Nat
    BY <2>1, <2>4
  <2> QED BY <1>5, <2>2, <2>3, <2>5, TreeFacts
<1>7. \A b \in Block : nChainWork[b] \in Nat
  BY <1>6, TreeFacts
<1>8. nChainWork \in [Block -> Nat]
  BY <1>4, <1>7
<1>9. ASSUME NEW b \in Block \ {Genesis} PROVE nChainWork[b] > nChainWork[Parent[b]]
  <2>1. BlockWork[b] \in Nat \ {0} /\ nChainWork[Parent[b]] \in Nat
    BY <1>7, TreeFacts
  <2> QED BY <1>5, <2>1
<1> QED BY <1>8, <1>9

(* A chain has one block of each height, each the parent of the next.      *)
LEMMA ChainShape ==
    ASSUME NEW b \in Block
    PROVE  /\ Chain[b] \in Seq(Block) /\ Len(Chain[b]) = nHeight[b] + 1
           /\ Chain[b][nHeight[b] + 1] = b
           /\ \A i \in 1..(nHeight[b] + 1) : Chain[b][i] \in Block /\ nHeight[Chain[b][i]] = i - 1
<1> DEFINE Good(c) == /\ Len(Chain[c]) = nHeight[c] + 1
                      /\ Chain[c][nHeight[c] + 1] = c
                      /\ \A i \in 1..(nHeight[c] + 1) : nHeight[Chain[c][i]] = i - 1
           Bad == {n \in Nat : \E c \in Block : nHeight[c] = n /\ ~Good(c)}
<1>1. \A c \in Block : Chain[c] \in Seq(Block)
  BY ChainDef
<1>2. Bad = {}
  <2> SUFFICES ASSUME Bad # {} PROVE FALSE
    OBVIOUS
  <2>1. PICK n \in Bad : \A m \in Bad : n <= m
    BY LeastElement
  <2>2. PICK c \in Block : nHeight[c] = n /\ ~Good(c)
    BY <2>1
  <2>3. c # Genesis
    <3>1. Good(Genesis)
      <4>1. Len(<<Genesis>>) = 1 /\ <<Genesis>>[1] = Genesis
        OBVIOUS
      <4>2. \A i \in 1..(0 + 1) : i = 1
        OBVIOUS
      <4> QED BY <4>1, <4>2, ChainDef, TreeFacts
    <3> QED BY <2>2, <3>1
  <2>4. Parent[c] \in Block /\ nHeight[Parent[c]] \in Nat /\ nHeight[c] = nHeight[Parent[c]] + 1
    BY <2>2, <2>3, TreeFacts
  <2>5. Good(Parent[c])
    <3>1. nHeight[Parent[c]] \notin Bad
      <4>1. nHeight[Parent[c]] < n
        BY <2>2, <2>4
      <4> HIDE DEF Bad
      <4> QED BY <2>1, <2>2, <2>4, <4>1, TreeFacts
    <3> HIDE DEF Good
    <3> QED BY <2>4, <3>1
  <2>6. Chain[c] = Append(Chain[Parent[c]], c) /\ Chain[Parent[c]] \in Seq(Block)
    BY <1>1, <2>3, <2>4, ChainDef
  <2>7. /\ Len(Chain[c]) = nHeight[c] + 1 /\ Chain[c][nHeight[c] + 1] = c
        /\ \A i \in 1..nHeight[c] : Chain[c][i] = Chain[Parent[c]][i]
    BY <2>4, <2>5, <2>6
  <2>8. ASSUME NEW i \in 1..(nHeight[c] + 1) PROVE nHeight[Chain[c][i]] = i - 1
    <3>1. CASE i = nHeight[c] + 1
      BY <2>4, <2>7, <3>1
    <3>2. CASE i \in 1..nHeight[c]
      BY <2>4, <2>5, <2>7, <3>2
    <3> QED BY <2>4, <3>1, <3>2
  <2> QED BY <2>2, <2>7, <2>8
<1>3. Good(b)
  <2> HIDE DEF Good
  <2> QED BY <1>2, TreeFacts
<1>4. \A i \in 1..(nHeight[b] + 1) : Chain[b][i] \in Block
  BY <1>1, <1>3
<1> QED BY <1>1, <1>3, <1>4

LEMMA AncestorsDef ==
    ASSUME NEW b \in Block
    PROVE  /\ Ancestors(b) \subseteq Block
           /\ Ancestors(b) = {Chain[b][i] : i \in 1..(nHeight[b] + 1)}
           /\ b \in Ancestors(b)
           /\ \A a \in Ancestors(b) : nHeight[a] <= nHeight[b] /\ a = Chain[b][nHeight[a] + 1]
<1>1. DOMAIN Chain[b] = 1..(nHeight[b] + 1) /\ nHeight[b] \in Nat
  BY ChainShape, TreeFacts
<1>2. Ancestors(b) = {Chain[b][i] : i \in 1..(nHeight[b] + 1)}
  BY <1>1 DEF Ancestors, ToSet
<1>3. ASSUME NEW a \in Ancestors(b)
      PROVE  a \in Block /\ nHeight[a] <= nHeight[b] /\ a = Chain[b][nHeight[a] + 1]
  <2>1. PICK i \in 1..(nHeight[b] + 1) : a = Chain[b][i]
    BY <1>2
  <2>2. nHeight[a] = i - 1 /\ a \in Block
    BY <2>1, ChainShape
  <2>3. nHeight[a] + 1 = i
    BY <1>1, <2>2
  <2> QED BY <1>1, <2>1, <2>2, <2>3
<1>4. b \in Ancestors(b)
  <2>1. nHeight[b] + 1 \in 1..(nHeight[b] + 1) /\ Chain[b][nHeight[b] + 1] = b
    BY <1>1, ChainShape
  <2> QED BY <1>2, <2>1
<1> QED BY <1>2, <1>3, <1>4

(* Appending a value adds it to the set of a sequence's values.            *)
LEMMA AppendSet ==
    ASSUME NEW T, NEW q \in Seq(T), NEW x \in T
    PROVE  ToSet(Append(q, x)) = ToSet(q) \cup {x}
<1> DEFINE n == Len(q)  r == Append(q, x)
<1>1. n \in Nat /\ DOMAIN q = 1..n /\ DOMAIN r = 1..(n + 1)
  OBVIOUS
<1>2. \A i \in 1..n : r[i] = q[i]
  OBVIOUS
<1>3. r[n + 1] = x
  OBVIOUS
<1> HIDE DEF n, r
<1>4. ASSUME NEW y \in ToSet(r) PROVE y \in ToSet(q) \cup {x}
  <2>1. PICK i \in 1..(n + 1) : y = r[i]
    BY <1>1, <1>4 DEF ToSet
  <2>2. i = n + 1 \/ i \in 1..n
    BY <1>1
  <2> QED BY <1>1, <1>2, <1>3, <2>1, <2>2 DEF ToSet
<1>5. ASSUME NEW y \in ToSet(q) \cup {x} PROVE y \in ToSet(r)
  <2>1. \A i \in 1..n : i \in 1..(n + 1)
    BY <1>1
  <2>2. n + 1 \in 1..(n + 1)
    BY <1>1
  <2> QED BY <1>1, <1>2, <1>3, <2>1, <2>2 DEF ToSet
<1>6. ToSet(r) = ToSet(q) \cup {x}
  BY <1>4, <1>5
<1> QED BY <1>6 DEF r

LEMMA AncestorsStep ==
    /\ Ancestors(Genesis) = {Genesis}
    /\ \A b \in Block \ {Genesis} : Ancestors(b) = Ancestors(Parent[b]) \cup {b}
<1>1. Ancestors(Genesis) = {Genesis}
  BY ChainDef DEF Ancestors, ToSet
<1>2. ASSUME NEW b \in Block \ {Genesis} PROVE Ancestors(b) = Ancestors(Parent[b]) \cup {b}
  <2>1. Parent[b] \in Block /\ Chain[Parent[b]] \in Seq(Block)
    BY ChainDef, TreeFacts
  <2>2. Chain[b] = Append(Chain[Parent[b]], b)
    BY ChainDef
  <2> DEFINE q == Chain[Parent[b]]
  <2>3. ToSet(Append(q, b)) = ToSet(q) \cup {b}
    <3> HIDE DEF q
    <3> QED BY <2>1, AppendSet DEF q
  <2> QED BY <2>2, <2>3 DEF Ancestors
<1> QED BY <1>1, <1>2

LEMMA OnChain ==
    ASSUME NEW b \in Block, NEW i \in 1..(nHeight[b] + 1)
    PROVE  Chain[b][i] \in Block /\ nHeight[Chain[b][i]] = i - 1 /\ Chain[b][i] \in Ancestors(b)
<1>1. Chain[b][i] \in Block /\ nHeight[Chain[b][i]] = i - 1
  BY ChainShape
<1>2. Ancestors(b) = {Chain[b][k] : k \in 1..(nHeight[b] + 1)}
  BY AncestorsDef
<1> QED BY <1>1, <1>2

(* Ancestors of ancestors; two blocks of one height are never on one chain.*)
LEMMA AncestorsClosed ==
    ASSUME NEW b \in Block
    PROVE  /\ Genesis \in Ancestors(b)
           /\ \A a \in Ancestors(b) : Ancestors(a) \subseteq Ancestors(b)
           /\ \A a \in Ancestors(b) \ {Genesis} : Parent[a] \in Ancestors(b)
           /\ \A a, c \in Ancestors(b) : nHeight[a] = nHeight[c] => a = c
           /\ \A a \in Ancestors(b) : nChainWork[a] <= nChainWork[b]
<1> DEFINE Good(c) == /\ Genesis \in Ancestors(c)
                      /\ \A a \in Ancestors(c) : /\ Ancestors(a) \subseteq Ancestors(c)
                                                 /\ a # Genesis => Parent[a] \in Ancestors(c)
                                                 /\ nChainWork[a] <= nChainWork[c]
           Bad == {n \in Nat : \E c \in Block : nHeight[c] = n /\ ~Good(c)}
<1>1. Bad = {}
  <2> SUFFICES ASSUME Bad # {} PROVE FALSE
    OBVIOUS
  <2>1. PICK n \in Bad : \A m \in Bad : n <= m
    BY LeastElement
  <2>2. PICK c \in Block : nHeight[c] = n /\ ~Good(c)
    BY <2>1
  <2>3. c # Genesis
    BY <2>2, AncestorsStep, TreeFacts, WorkDef
  <2>4. Parent[c] \in Block /\ nHeight[Parent[c]] \in Nat /\ nHeight[c] = nHeight[Parent[c]] + 1
    BY <2>2, <2>3, TreeFacts
  <2>5. Good(Parent[c])
    <3>1. nHeight[Parent[c]] \notin Bad
      <4>1. nHeight[Parent[c]] < n
        BY <2>2, <2>4
      <4> HIDE DEF Bad
      <4> QED BY <2>1, <2>2, <2>4, <4>1, TreeFacts
    <3> HIDE DEF Good
    <3> QED BY <2>4, <3>1
  <2>6. Ancestors(c) = Ancestors(Parent[c]) \cup {c} /\ Parent[c] \in Ancestors(Parent[c])
    BY <2>3, <2>4, AncestorsStep, AncestorsDef
  <2>7. nChainWork[c] \in Nat /\ nChainWork[Parent[c]] \in Nat /\ nChainWork[c] > nChainWork[Parent[c]]
        /\ \A a \in Ancestors(Parent[c]) : nChainWork[a] \in Nat
    BY <2>3, <2>4, WorkDef, AncestorsDef
  <2>8. Good(c)
    BY <2>5, <2>6, <2>7
  <2> QED BY <2>2, <2>8
<1>2. Good(b)
  <2> HIDE DEF Good
  <2> QED BY <1>1, TreeFacts
<1>3. \A a, c \in Ancestors(b) : nHeight[a] = nHeight[c] => a = c
  <2> SUFFICES ASSUME NEW a \in Ancestors(b), NEW c \in Ancestors(b), nHeight[a] = nHeight[c]
               PROVE  a = c
    OBVIOUS
  <2>1. a = Chain[b][nHeight[a] + 1] /\ c = Chain[b][nHeight[c] + 1]
    BY AncestorsDef
  <2> QED BY <2>1
<1> QED BY <1>2, <1>3

LEMMA OneChild ==
    ASSUME NEW b \in Block, NEW a \in Ancestors(b) \ {Genesis}, NEW c \in Ancestors(b) \ {Genesis},
           Parent[a] = Parent[c]
    PROVE  a = c
<1>1. a \in Block /\ c \in Block
  BY AncestorsDef
<1>2. nHeight[a] = nHeight[c]
  BY <1>1, TreeFacts
<1> QED BY <1>2, AncestorsClosed

(* Along a chain, lower blocks are ancestors of the higher ones and have   *)
(* less work.                                                              *)
LEMMA ChainOrder ==
    ASSUME NEW b \in Block, NEW i \in 1..(nHeight[b] + 1), NEW j \in 1..(nHeight[b] + 1), i < j
    PROVE  /\ Chain[b][i] \in Ancestors(Chain[b][j])
           /\ nChainWork[Chain[b][i]] < nChainWork[Chain[b][j]]
<1> DEFINE a == Chain[b][i]  c == Chain[b][j]
<1>1. /\ a \in Block /\ nHeight[a] = i - 1 /\ c \in Block /\ nHeight[c] = j - 1
      /\ a \in Ancestors(b) /\ c \in Ancestors(b)
  BY OnChain
<1>2. nHeight[b] \in Nat /\ i \in Nat /\ j \in Nat
  BY TreeFacts
<1> HIDE DEF a, c
<1>3. i \in 1..(nHeight[c] + 1) /\ i # nHeight[c] + 1
  BY <1>1, <1>2
<1> DEFINE x == Chain[c][i]
<1>4. x \in Ancestors(c) /\ nHeight[x] = i - 1
  BY <1>1, <1>3, OnChain
<1> HIDE DEF x
<1>5. x \in Ancestors(b)
  BY <1>1, <1>4, AncestorsClosed
<1>6. x = a
  BY <1>1, <1>4, <1>5, AncestorsClosed
<1>7. a \in Ancestors(c) /\ c # Genesis
  BY <1>1, <1>2, <1>4, <1>6, TreeFacts
<1>8. a \in Ancestors(Parent[c]) /\ Parent[c] \in Block
  <2>1. a # c
    BY <1>1, <1>2
  <2> QED BY <1>1, <1>7, <2>1, AncestorsStep, TreeFacts
<1>9. nChainWork[a] <= nChainWork[Parent[c]]
  BY <1>8, AncestorsClosed
<1>10. nChainWork[Parent[c]] < nChainWork[c]
  BY <1>1, <1>7, WorkDef
<1>11. nChainWork[a] \in Nat /\ nChainWork[c] \in Nat /\ nChainWork[Parent[c]] \in Nat
  BY <1>1, <1>8, WorkDef
<1>12. nChainWork[a] < nChainWork[c]
  BY <1>9, <1>10, <1>11
<1> QED BY <1>7, <1>12 DEF a, c

-----------------------------------------------------------------------------
(***************************************************************************)
(* The inductive invariant.  nStatus, the durable index and every write    *)
(* that is still in flight are of one kind: entries that are justified and *)
(* never lack a parent.                                                    *)
(***************************************************************************)
Marked(s) == s \cap {"FAILED_VALID", "FAILED_CHILD"} # {}

(* The flags of a block are deserved: undo data only for a block that      *)
(* ConnectBlock accepts, a failed mark only with an invalid ancestor.      *)
EntryOK(b, s) ==
    /\ b \in Block /\ s \in SUBSET Flags
    /\ "UNDO" \in s => b \notin BadBlock
    /\ Marked(s) => Ancestors(b) \cap BadBlock # {}

IndexOK(d) ==
    /\ d \in [DOMAIN d -> SUBSET Flags]
    /\ \A b \in DOMAIN d : EntryOK(b, d[b])
    /\ Genesis \in DOMAIN d
    /\ \A b \in DOMAIN d \ {Genesis} : Parent[b] \in DOMAIN d

(* A write never takes back undo data that is already durable.             *)
LogOK ==
    /\ log \in Seq(Block \X SUBSET Flags)
    /\ \A i \in 1..Len(log) :
          LET b == log[i][1]
          IN  /\ EntryOK(b, log[i][2])
              /\ b # Genesis => \/ Parent[b] \in DOMAIN index
                                \/ \E j \in 1..(i - 1) : log[j][1] = Parent[b]
              /\ b \in DOMAIN index /\ "UNDO" \in index[b] => "UNDO" \in log[i][2]

Running == pc \notin {"down", "lost"}

MemOK ==
    /\ IndexOK(nStatus)
    /\ setBlockIndexValid \subseteq DOMAIN nStatus
    /\ pindexBest \in DOMAIN nStatus /\ coinsTip \in DOMAIN nStatus
    /\ pnext \in [Block -> Block \cup {None}]
    /\ mapOrphanBlocks \subseteq Block \ DOMAIN nStatus

CtlOK ==
    /\ pc \in {"idle", "connect", "switch", "sync", "flush", "commit", "failed", "drain",
               "down", "lost"}
    /\ accepting \in DOMAIN nStatus \cup {None}
    /\ vAttach \in Seq(DOMAIN nStatus) /\ vWorkQueue \in Seq(DOMAIN nStatus)
    /\ pc \in {"sync", "flush", "commit"} => vAttach # <<>>

(* What the process believes is what the database would give back.         *)
DiskOK ==
    /\ IndexOK(index) /\ LogOK
    /\ coinsDB \in Seq(Block) /\ coinsDB # <<>>
    /\ Running => nStatus = FoundIndex /\ ~exposed
    /\ pc = "flush" => log = <<>>

(* A process that is not running has nothing in memory.                    *)
DownOK ==
    ~Running =>
        /\ nStatus = [b \in {Genesis} |-> {}] /\ setBlockIndexValid = {Genesis}
        /\ pindexBest = Genesis /\ coinsTip = Genesis /\ pnext = [b \in Block |-> None]
        /\ mapOrphanBlocks = {} /\ accepting = None /\ vAttach = <<>> /\ vWorkQueue = <<>>

CoreInv == MemOK /\ CtlOK /\ DiskOK /\ DownOK

(* The whole chain of a block has undo data in d.                          *)
HasUndo(b, d) == \A a \in Ancestors(b) \ {Genesis} : a \in DOMAIN d /\ "UNDO" \in d[a]

TipInv ==
    /\ HasUndo(pindexBest, nStatus) /\ HasUndo(coinsTip, nStatus)
    /\ pc \in {"sync", "flush", "commit"} => HasUndo(Head(vAttach), nStatus)

CoinsInv == coinsTip = pindexBest \/ fRequestShutdown

(* Every orphan whose parent is indexed is about to be tried, or was given *)
(* up.                                                                     *)
Calling == pc \in {"connect", "switch", "sync", "flush", "commit", "failed"}

QueueInv ==
    /\ pc = "idle" \/ accepting = None => vWorkQueue = <<>>
    /\ \A b \in mapOrphanBlocks : Parent[b] \in DOMAIN nStatus =>
          \/ Parent[b] \in refused
          \/ Parent[b] \in ToSet(vWorkQueue)
          \/ Calling /\ Parent[b] = accepting

(* The blocks to switch to have more and more work.                        *)
WorkInv ==
    pc \in {"switch", "sync", "flush", "commit"} =>
        /\ \A i \in 1..Len(vAttach) : nChainWork[vAttach[i]] > nChainWork[pindexBest]
        /\ \A i, j \in 1..Len(vAttach) : i < j => nChainWork[vAttach[i]] < nChainWork[vAttach[j]]

(* No block that is valid with its ancestors stops being a candidate, and  *)
(* the switches lead to a candidate with the most work.                    *)
CandidateInv ==
    /\ \A b \in DOMAIN nStatus : Ancestors(b) \cap BadBlock = {} => b \in setBlockIndexValid
    /\ pc \in {"switch", "sync", "flush", "commit"} =>
          \A b \in setBlockIndexValid :
              nChainWork[b] <= nChainWork[IF vAttach = <<>> THEN pindexBest ELSE Last(vAttach)]
    /\ pc \in {"idle", "drain"} /\ fConnected =>
          \A b \in setBlockIndexValid : nChainWork[b] <= nChainWork[pindexBest]

-----------------------------------------------------------------------------
(***************************************************************************)
(* The operators of ConnectBestBlock and SetBestChain.                     *)
(***************************************************************************)
LEMMA GreatestElement ==
    ASSUME NEW N \in Nat, NEW S \in SUBSET (1..N), S # {}
    PROVE  \E m \in S : \A k \in S : k <= m
<1> DEFINE T == {k \in 0..N : N - k \in S}
<1>1. T \in SUBSET Nat /\ \A k \in S : N - k \in T
  OBVIOUS
<1>2. T # {}
  BY <1>1
<1>3. PICK y \in T : \A x \in T : y <= x
  <2> HIDE DEF T
  <2> QED BY <1>1, <1>2, LeastElement
<1>4. N - y \in S
  BY <1>3
<1>5. \A k \in S : y <= N - k
  BY <1>1, <1>3
<1> QED BY <1>4, <1>5

(* The blocks above f are those of the chain that have f as an ancestor,   *)
(* without f itself.                                                       *)
LEMMA AboveFacts ==
    ASSUME NEW c \in Block, NEW f \in Ancestors(c)
    PROVE  /\ Above(c, f) \in Seq(Block)
           /\ ToSet(Above(c, f)) \subseteq Ancestors(c) \ {f}
           /\ \A x \in ToSet(Above(c, f)) : f \in Ancestors(x)
           /\ c # f => c \in ToSet(Above(c, f))
<1> DEFINE m == nHeight[f] + 2  n == nHeight[c] + 1  s == Above(c, f)
<1>1. f \in Block /\ nHeight[f] <= nHeight[c] /\ f = Chain[c][nHeight[f] + 1]
      /\ nHeight[f] \in Nat /\ nHeight[c] \in Nat
  BY AncestorsDef, TreeFacts
<1>2. s = SubSeq(Chain[c], m, n)
  <2>1. Len(Chain[c]) = n /\ Len(Chain[f]) + 1 = m
    BY <1>1, ChainShape
  <2> QED BY <2>1 DEF Above
<1>3. \A i \in m..n : i \in 1..n /\ Chain[c][i] \in Block
  BY <1>1, ChainShape
<1>4. m \in Int /\ n \in Int
  BY <1>1
<1>5. /\ s \in Seq(Block)
      /\ Len(s) = IF m <= n THEN n - m + 1 ELSE 0
      /\ \A i \in 1..(n - m + 1) : s[i] = Chain[c][m + i - 1]
  <2> HIDE DEF m, n, s
  <2> QED BY <1>2, <1>3, <1>4, SubSeqProperties
<1>6. ASSUME NEW x \in ToSet(s)
      PROVE  x \in Ancestors(c) /\ x # f /\ f \in Ancestors(x)
  <2>1. PICK i \in 1..Len(s) : x = s[i]
    BY <1>5 DEF ToSet
  <2>2. i \in 1..(n - m + 1) /\ m + i - 1 \in 1..n /\ nHeight[f] + 1 \in 1..n
        /\ nHeight[f] + 1 < m + i - 1
    <3>1. i \in Nat /\ 1 <= i /\ i <= Len(s)
      BY <1>5
    <3>2. m <= n /\ Len(s) = n - m + 1
      BY <1>1, <1>5, <3>1
    <3>3. nHeight[f] \in Nat /\ nHeight[c] \in Nat /\ nHeight[f] <= nHeight[c]
      BY <1>1
    <3>4. i <= n - m + 1
      BY <3>1, <3>2
    <3> HIDE DEF s
    <3>5. i \in 1..(n - m + 1)
      BY <3>1, <3>3, <3>4
    <3>6. m + i - 1 \in 1..n /\ nHeight[f] + 1 \in 1..n /\ nHeight[f] + 1 < m + i - 1
      <4>1. ASSUME NEW hf \in Nat, NEW hc \in Nat, NEW j \in Nat, hf <= hc, 1 <= j,
                   j <= (hc + 1) - (hf + 2) + 1
            PROVE  hf + 2 + j - 1 \in 1..(hc + 1) /\ hf + 1 \in 1..(hc + 1) /\ hf + 1 < hf + 2 + j - 1
        BY <4>1
      <4> QED BY <3>1, <3>3, <3>4, <4>1
    <3> QED BY <3>5, <3>6
  <2>3. x = Chain[c][m + i - 1]
    BY <1>5, <2>1, <2>2
  <2>4. nHeight[x] = m + i - 2 /\ x \in Ancestors(c)
    <3> DEFINE k == m + i - 1
    <3>1. k \in 1..(nHeight[c] + 1) /\ k - 1 = m + i - 2
      <4>1. ASSUME NEW h \in Nat, NEW j \in Nat PROVE (h + 2 + j - 1) - 1 = h + 2 + j - 2
        BY <4>1
      <4>2. i \in Nat
        BY <2>1
      <4> QED BY <1>1, <2>2, <4>1, <4>2
    <3> HIDE DEF k
    <3>2. nHeight[Chain[c][k]] = k - 1 /\ Chain[c][k] \in Ancestors(c)
      BY <3>1, OnChain
    <3> QED BY <2>3, <3>1, <3>2 DEF k
  <2>5. x # f
    <3>1. ASSUME NEW h \in Nat, NEW j \in Nat, 1 <= j PROVE h + 2 + j - 2 # h
      BY <3>1
    <3>2. i \in Nat /\ 1 <= i
      BY <2>1
    <3> QED BY <1>1, <2>4, <3>1, <3>2
  <2>6. f \in Ancestors(x)
    BY <1>1, <2>2, <2>3, ChainOrder
  <2> QED BY <2>4, <2>5, <2>6
<1>7. ASSUME c # f PROVE c \in ToSet(s)
  <2>1. nHeight[c] # nHeight[f]
    BY <1>7, AncestorsClosed, AncestorsDef
  <2>2. m <= n
    BY <1>1, <2>1
  <2>3. n - m + 1 \in 1..(n - m + 1) /\ m + (n - m + 1) - 1 = n
    BY <1>1, <2>2
  <2>4. s[n - m + 1] = c
    BY <1>5, <2>3, ChainShape
  <2>5. n - m + 1 \in DOMAIN s
    BY <1>5, <2>2, <2>3
  <2> QED BY <2>4, <2>5 DEF ToSet
<1> QED BY <1>5, <1>6, <1>7

(* The walk is the upper end of the candidate's chain.                     *)
LEMMA WalkFacts ==
    ASSUME NEW c \in Block
    PROVE  /\ Walk(c) \in Seq(Block) /\ Walk(c) # <<>>
           /\ Walk(c)[Len(Walk(c))] = c
           /\ \A i \in 1..Len(Walk(c)) : Walk(c)[i] \in Ancestors(c)
           /\ \A i, j \in 1..Len(Walk(c)) :
                 i < j => nChainWork[Walk(c)[i]] < nChainWork[Walk(c)[j]]
<1> DEFINE n == nHeight[c] + 1
           stops == {i \in DOMAIN Chain[c] : i = 1 \/ pnext[Chain[c][i]] # None}
           low == CHOOSE i \in stops : \A j \in stops : j <= i
           w == Walk(c)
<1>1. n \in Nat \ {0} /\ DOMAIN Chain[c] = 1..n /\ Len(Chain[c]) = n
      /\ \A i \in 1..n : Chain[c][i] \in Block
  BY ChainShape, TreeFacts
<1>2. \E m \in stops : \A k \in stops : k <= m
  <2>1. stops \in SUBSET (1..n) /\ stops # {} /\ n \in Nat
    BY <1>1
  <2> HIDE DEF stops, n
  <2> QED BY <2>1, GreatestElement
<1>3. low \in 1..n
  <2>1. low \in stops
    BY <1>2
  <2> QED BY <1>1, <2>1
<1>4. w = SubSeq(Chain[c], low, n)
  BY <1>1 DEF Walk
<1> HIDE DEF low, w, n
<1>5. /\ w \in Seq(Block) /\ Len(w) = n - low + 1
      /\ \A i \in 1..Len(w) : w[i] = Chain[c][low + i - 1] /\ low + i - 1 \in 1..n
  <2>1. low \in Int /\ n \in Int /\ low <= n /\ \A i \in low..n : Chain[c][i] \in Block
    BY <1>1, <1>3
  <2>2. /\ SubSeq(Chain[c], low, n) \in Seq(Block)
        /\ Len(SubSeq(Chain[c], low, n)) = n - low + 1
        /\ \A i \in 1..(n - low + 1) : SubSeq(Chain[c], low, n)[i] = Chain[c][low + i - 1]
    BY <2>1, SubSeqProperties
  <2> QED BY <1>1, <1>3, <1>4, <2>2
<1>6. w[Len(w)] = c /\ w # <<>>
  <2>1. Len(w) \in 1..Len(w) /\ low + Len(w) - 1 = n
    BY <1>1, <1>3, <1>5
  <2>2. w[Len(w)] = Chain[c][n]
    BY <1>5, <2>1
  <2>3. Chain[c][n] = c
    BY ChainShape DEF n
  <2>4. Len(w) # 0
    BY <1>1, <1>3, <1>5
  <2> QED BY <2>2, <2>3, <2>4
<1>7. \A i \in 1..Len(w) : w[i] \in Ancestors(c)
  BY <1>5, AncestorsDef DEF n
<1>8. ASSUME NEW i \in 1..Len(w), NEW j \in 1..Len(w), i < j
      PROVE  nChainWork[w[i]] < nChainWork[w[j]]
  <2>1. low + i - 1 < low + j - 1
    BY <1>3, <1>8
  <2> QED BY <1>5, <2>1, ChainOrder DEF n
<1> QED BY <1>5, <1>6, <1>7, <1>8 DEF w

(* ConnectBestBlock collects ancestors of the candidate with more and more *)
(* work, all more than the best chain has; the candidate comes last.       *)
LEMMA AttachFacts ==
    ASSUME NEW c \in Block, pindexBest \in Block
    PROVE  LET a == Attach(Walk(c))
           IN  /\ a \in Seq(Block) /\ ToSet(a) \subseteq Ancestors(c)
               /\ \A i \in 1..Len(a) : nChainWork[a[i]] > nChainWork[pindexBest]
               /\ \A i, j \in 1..Len(a) : i < j => nChainWork[a[i]] < nChainWork[a[j]]
               /\ IF nChainWork[c] > nChainWork[pindexBest]
                  THEN a # <<>> /\ Last(a) = c
                  ELSE a = <<>>
<1> DEFINE w == Walk(c)
           S == {b \in Block : nChainWork[b] > nChainWork[pindexBest]}
           a == Only(w, S)
<1>1. /\ w \in Seq(Block) /\ w # <<>> /\ w[Len(w)] = c
      /\ \A i \in 1..Len(w) : w[i] \in Ancestors(c)
      /\ \A i, j \in 1..Len(w) : i < j => nChainWork[w[i]] < nChainWork[w[j]]
  BY WalkFacts
<1> HIDE DEF w
<1>2. a \in Seq(Block)
  BY <1>1, OnlyPicks
<1>0. PICK p : Places(p, a, w, Len(w), S)
  <2> HIDE DEF S
  <2> QED BY <1>1, OnlyPicks
<1>3. /\ p \in [1..Len(a) -> 1..Len(w)]
      /\ \A i \in 1..Len(a) : a[i] = w[p[i]] /\ w[p[i]] \in S
      /\ \A i, j \in 1..Len(a) : i < j => p[i] < p[j]
      /\ \A k \in 1..Len(w) : w[k] \in S => \E i \in 1..Len(a) : p[i] = k
  <2> HIDE DEF S, a
  <2> QED BY <1>0 DEF Places
<1>4. Attach(w) = a
  BY DEF Attach
<1> HIDE DEF a
<1>5. \A i \in 1..Len(a) : nChainWork[a[i]] > nChainWork[pindexBest] /\ a[i] \in Ancestors(c)
  BY <1>1, <1>3
<1>6. \A i, j \in 1..Len(a) : i < j => nChainWork[a[i]] < nChainWork[a[j]]
  <2> SUFFICES ASSUME NEW i \in 1..Len(a), NEW j \in 1..Len(a), i < j
               PROVE  nChainWork[a[i]] < nChainWork[a[j]]
    OBVIOUS
  <2>1. p[i] \in 1..Len(w) /\ p[j] \in 1..Len(w) /\ p[i] < p[j]
    BY <1>3
  <2>2. nChainWork[w[p[i]]] < nChainWork[w[p[j]]]
    BY <1>1, <2>1
  <2> QED BY <1>3, <2>2
<1>7. ToSet(a) \subseteq Ancestors(c)
  BY <1>2, <1>5 DEF ToSet
<1>8. ASSUME nChainWork[c] > nChainWork[pindexBest] PROVE a # <<>> /\ Last(a) = c
  <2>1. Len(w) \in 1..Len(w) /\ w[Len(w)] \in S /\ Len(a) \in Nat
    BY <1>1, <1>2, <1>8
  <2>2. PICK i \in 1..Len(a) : p[i] = Len(w)
    BY <1>3, <2>1
  <2>3. i = Len(a)
    <3> SUFFICES ASSUME i < Len(a) PROVE FALSE
      BY <2>1
    <3>1. Len(a) \in 1..Len(a) /\ p[Len(a)] \in 1..Len(w)
      BY <1>3, <2>1
    <3>2. p[i] < p[Len(a)]
      BY <1>3, <3>1
    <3> QED BY <2>1, <2>2, <3>1, <3>2
  <2>4. a[Len(a)] = c /\ a # <<>>
    BY <1>1, <1>2, <1>3, <2>1, <2>2, <2>3
  <2> QED BY <2>4 DEF Last
<1>9. ASSUME ~(nChainWork[c] > nChainWork[pindexBest]) PROVE a = <<>>
  <2>1. ASSUME NEW i \in 1..Len(a) PROVE FALSE
    <3>1. a[i] \in Ancestors(c) /\ nChainWork[a[i]] > nChainWork[pindexBest]
      BY <1>5
    <3>2. nChainWork[a[i]] <= nChainWork[c] /\ a[i] \in Block
      BY <3>1, AncestorsClosed, AncestorsDef
    <3>3. nChainWork[a[i]] \in Nat /\ nChainWork[c] \in Nat /\ nChainWork[pindexBest] \in Nat
      BY <3>2, WorkDef
    <3> QED BY <1>9, <3>1, <3>2, <3>3
  <2>2. Len(a) = 0
    BY <1>2, <2>1
  <2> QED BY <1>2, <2>2
<1> QED BY <1>2, <1>4, <1>5, <1>6, <1>7, <1>8, <1>9 DEF w

(* The two branches of a reorganisation.                                   *)
LEMMA BranchFacts ==
    ASSUME NEW b \in Block, coinsTip \in Block
    PROVE  /\ vConnect(b) \in Seq(Block) /\ ToSet(vConnect(b)) = Ancestors(b) \ Ancestors(coinsTip)
           /\ ToSet(vDisconnect(b)) = Ancestors(coinsTip) \ Ancestors(b)
<1>1. Chain[b] \in Seq(Block) /\ Chain[coinsTip] \in Seq(Block)
  BY ChainDef
<1>2. Ancestors(b) \subseteq Block /\ Ancestors(coinsTip) \subseteq Block
  BY AncestorsDef
<1>3. vConnect(b) \in Seq(Block) /\ ToSet(vConnect(b)) = ToSet(Chain[b]) \cap (Block \ Ancestors(coinsTip))
  BY <1>1, OnlySet DEF vConnect
<1>4. ToSet(vConnect(b)) = Ancestors(b) \ Ancestors(coinsTip)
  BY <1>2, <1>3 DEF Ancestors
<1> DEFINE d == Only(Chain[coinsTip], Block \ Ancestors(b))
<1>5. d \in Seq(Block) /\ ToSet(d) = Ancestors(coinsTip) \cap (Block \ Ancestors(b))
  BY <1>1, OnlySet DEF Ancestors
<1>6. ToSet(Reverse(d)) = ToSet(d)
  <2> HIDE DEF d
  <2>1. DOMAIN d = 1..Len(d) /\ Len(d) \in Nat
    BY <1>5
  <2>2. DOMAIN Reverse(d) = 1..Len(d) /\ \A i \in 1..Len(d) : Reverse(d)[i] = d[Len(d) - i + 1]
    BY DEF Reverse
  <2>3. \A i \in 1..Len(d) : Len(d) - i + 1 \in 1..Len(d) /\ Len(d) - (Len(d) - i + 1) + 1 = i
    BY <2>1
  <2>4. ToSet(Reverse(d)) \subseteq ToSet(d)
    BY <2>1, <2>2, <2>3 DEF ToSet
  <2>5. ToSet(d) \subseteq ToSet(Reverse(d))
    <3> SUFFICES ASSUME NEW i \in 1..Len(d) PROVE d[i] \in ToSet(Reverse(d))
      BY <2>1 DEF ToSet
    <3>1. Reverse(d)[Len(d) - i + 1] = d[i]
      BY <2>2, <2>3
    <3> QED BY <2>2, <2>3, <3>1 DEF ToSet
  <2> QED BY <2>4, <2>5
<1>7. ToSet(vDisconnect(b)) = Ancestors(coinsTip) \ Ancestors(b)
  BY <1>2, <1>5, <1>6 DEF vDisconnect
<1> QED BY <1>3, <1>4, <1>7

-----------------------------------------------------------------------------
(***************************************************************************)
(* The index database and the writes to it.                                *)
(***************************************************************************)
Applied(A, db, w) ==
    /\ DOMAIN A = DOMAIN db \cup {w[i][1] : i \in 1..Len(w)}
    /\ A = [b \in DOMAIN A |-> A[b]]
    /\ \A b \in DOMAIN A :
          \/ /\ b \in DOMAIN db /\ A[b] = db[b]
             /\ \A i \in 1..Len(w) : w[i][1] # b
          \/ \E i \in 1..Len(w) :
                /\ w[i][1] = b /\ A[b] = w[i][2]
                /\ \A j \in 1..Len(w) : w[j][1] = b => j <= i

LEMMA ApplyFacts ==
    ASSUME NEW db, NEW X, NEW w \in Seq(X)
    PROVE  Applied(Apply(db, w), db, w)
<1> DEFINE To(b)    == {i \in DOMAIN w : w[i][1] = b}
           Final(b) == CHOOSE i \in To(b) : \A j \in To(b) : j <= i
           D == DOMAIN db \cup {w[i][1] : i \in DOMAIN w}
           A == [b \in D |-> IF To(b) = {} THEN db[b] ELSE w[Final(b)][2]]
<1>0. DOMAIN w = 1..Len(w) /\ Len(w) \in Nat
  OBVIOUS
<1>1. Apply(db, w) = A
  BY DEF Apply
<1>2. DOMAIN A = DOMAIN db \cup {w[i][1] : i \in 1..Len(w)}
  BY <1>0
<1>3. A = [b \in DOMAIN A |-> A[b]]
  OBVIOUS
<1>4. ASSUME NEW b \in D
      PROVE  \/ /\ b \in DOMAIN db /\ A[b] = db[b]
                /\ \A i \in 1..Len(w) : w[i][1] # b
             \/ \E i \in 1..Len(w) :
                   /\ w[i][1] = b /\ A[b] = w[i][2]
                   /\ \A j \in 1..Len(w) : w[j][1] = b => j <= i
  <2>1. CASE To(b) = {}
    BY <1>0, <2>1
  <2>2. CASE To(b) # {}
    <3>1. \E m \in To(b) : \A k \in To(b) : k <= m
      <4>1. To(b) \in SUBSET (1..Len(w))
        BY <1>0
      <4> HIDE DEF To
      <4> QED BY <1>0, <2>2, <4>1, GreatestElement
    <3>2. Final(b) \in To(b) /\ \A k \in To(b) : k <= Final(b)
      <4> HIDE DEF To
      <4> QED BY <3>1
    <3>3. A[b] = w[Final(b)][2]
      BY <2>2
    <3> HIDE DEF A, Final
    <3> QED BY <1>0, <3>2, <3>3
  <2> QED BY <2>1, <2>2
<1> HIDE DEF A
<1>5. DOMAIN A = D
  BY <1>0, <1>2
<1> QED BY <1>1, <1>2, <1>3, <1>4, <1>5 DEF Applied

LEMMA ApplyNone ==
    ASSUME NEW S, NEW T, NEW db \in [S -> T]
    PROVE  Apply(db, <<>>) = db
<1> DEFINE A == Apply(db, <<>>)
           w == <<>>
<1>1. w \in Seq(Nat) /\ \A i \in 1..Len(w) : FALSE
  OBVIOUS
<1> HIDE DEF w
<1>2. Applied(Apply(db, w), db, w)
  BY <1>1, ApplyFacts
<1>2a. Applied(A, db, w)
  BY <1>2 DEF w
<1> HIDE DEF A
<1>3. DOMAIN A = S
  BY <1>1, <1>2a DEF Applied
<1>4. \A b \in S : A[b] = db[b]
  BY <1>1, <1>2a, <1>3 DEF Applied
<1>5. A = [b \in DOMAIN A |-> A[b]]
  BY <1>2a DEF Applied
<1>6. A = db
  BY <1>3, <1>4, <1>5
<1> QED BY <1>6 DEF A

Joined(x, s, t, X) ==
    /\ x \in Seq(X) /\ Len(x) = Len(s) + Len(t) /\ Len(s) \in Nat /\ Len(t) \in Nat
    /\ \A i \in 1..Len(s) : x[i] = s[i] /\ i \in 1..Len(x)
    /\ \A i \in 1..Len(t) : x[Len(s) + i] = t[i] /\ Len(s) + i \in 1..Len(x)
    /\ \A i \in 1..Len(x) : i \in 1..Len(s) \/ \E k \in 1..Len(t) : i = Len(s) + k

LEMMA ConcatFacts ==
    ASSUME NEW X, NEW s \in Seq(X), NEW t \in Seq(X)
    PROVE  Joined(s \o t, s, t, X)
<1> DEFINE x == s \o t  m == Len(s)  n == Len(t)
<1>1. /\ m \in Nat /\ n \in Nat /\ x \in Seq(X) /\ Len(x) = m + n
      /\ \A i \in 1..(m + n) : x[i] = IF i <= m THEN s[i] ELSE t[i - m]
  BY ConcatProperties
<1> HIDE DEF x, m, n
<1>2. ASSUME NEW i \in 1..m PROVE x[i] = s[i] /\ i \in 1..Len(x)
  BY <1>1
<1>3. ASSUME NEW i \in 1..n PROVE x[m + i] = t[i] /\ m + i \in 1..Len(x)
  <2>1. m + i \in 1..(m + n) /\ ~(m + i <= m) /\ (m + i) - m = i
    BY <1>1
  <2> QED BY <1>1, <2>1
<1>4. ASSUME NEW i \in 1..Len(x), i \notin 1..m PROVE \E k \in 1..n : i = m + k
  <2>1. i - m \in 1..n /\ i = m + (i - m)
    BY <1>1, <1>4
  <2> QED BY <2>1
<1> QED BY <1>1, <1>2, <1>3, <1>4 DEF Joined, x, m, n

Written(v, bs, st, D, T) ==
    /\ v \in Seq(D \X T) /\ Len(v) = Len(bs)
    /\ \A i \in 1..Len(bs) : v[i] = <<bs[i], st[bs[i]]>>

LEMMA WritesFacts ==
    ASSUME NEW D, NEW T, NEW bs \in Seq(D), NEW st \in [D -> T]
    PROVE  Written(Writes(bs, st), bs, st, D, T)
<1> USE DEF Written
<1>1. DOMAIN bs = 1..Len(bs) /\ Len(bs) \in Nat /\ \A i \in 1..Len(bs) : bs[i] \in D
  OBVIOUS
<1>2. Writes(bs, st) = [i \in 1..Len(bs) |-> <<bs[i], st[bs[i]]>>]
  BY <1>1 DEF Writes
<1> QED BY <1>1, <1>2

(* More writes.                                                            *)
Overwritten(more, old, bs, st) ==
    /\ DOMAIN more = DOMAIN old \cup ToSet(bs)
    /\ more = [b \in DOMAIN more |-> more[b]]
    /\ \A b \in ToSet(bs) : more[b] = st[b]
    /\ \A b \in DOMAIN old \ ToSet(bs) : more[b] = old[b]

LEMMA ApplyMore ==
    ASSUME NEW db, NEW X, NEW w \in Seq(X),
           NEW D, NEW bs \in Seq(D), NEW T, NEW st \in [D -> T]
    PROVE  Overwritten(Apply(db, w \o Writes(bs, st)), Apply(db, w), bs, st)
<1> DEFINE v == Writes(bs, st)
           x == w \o v
           Y == X \cup (D \X T)
           m == Len(w)
           n == Len(bs)
           old == Apply(db, w)
           more == Apply(db, x)
<1>1. v \in Seq(Y) /\ Len(v) = n /\ \A i \in 1..n : v[i] = <<bs[i], st[bs[i]]>>
  <2>1. v \in Seq(D \X T) /\ Len(v) = n /\ \A i \in 1..n : v[i] = <<bs[i], st[bs[i]]>>
    <3>1. Written(Writes(bs, st), bs, st, D, T)
      BY WritesFacts
    <3> QED BY <3>1 DEF Written
  <2>2. D \X T \subseteq Y
    OBVIOUS
  <2> HIDE DEF v, Y
  <2> QED BY <2>1, <2>2, SeqMonotonic
<1>2. w \in Seq(Y)
  <2>1. X \subseteq Y
    OBVIOUS
  <2> HIDE DEF Y
  <2> QED BY <2>1, SeqMonotonic
<1>3. m \in Nat /\ n \in Nat /\ DOMAIN bs = 1..n
  OBVIOUS
<1> HIDE DEF v, Y
<1>4. Joined(x, w, v, Y)
  BY <1>1, <1>2, ConcatFacts
<1> HIDE DEF x
<1>5. /\ x \in Seq(Y) /\ Len(x) = m + n
      /\ \A i \in 1..m : x[i] = w[i] /\ i \in 1..(m + n)
      /\ \A i \in 1..n : x[m + i][1] = bs[i] /\ x[m + i][2] = st[bs[i]] /\ m + i \in 1..(m + n)
      /\ \A i \in 1..(m + n) : i \in 1..m \/ \E k \in 1..n : i = m + k
  <2>1. /\ x \in Seq(Y) /\ Len(x) = m + n
        /\ \A i \in 1..m : x[i] = w[i] /\ i \in 1..(m + n)
        /\ \A i \in 1..n : x[m + i] = v[i] /\ m + i \in 1..(m + n)
        /\ \A i \in 1..(m + n) : i \in 1..m \/ \E k \in 1..n : i = m + k
    BY <1>1, <1>4 DEF Joined
  <2> HIDE DEF m, n
  <2> QED BY <1>1, <2>1
<1> HIDE DEF m, n
<1>6. /\ DOMAIN old = DOMAIN db \cup {w[i][1] : i \in 1..m}
      /\ \A b \in DOMAIN old :
            \/ /\ b \in DOMAIN db /\ old[b] = db[b]
               /\ \A i \in 1..m : w[i][1] # b
            \/ \E i \in 1..m :
                  /\ w[i][1] = b /\ old[b] = w[i][2]
                  /\ \A j \in 1..m : w[j][1] = b => j <= i
  <2>1. Applied(Apply(db, w), db, w)
    BY ApplyFacts
  <2> QED BY <2>1 DEF Applied, m
<1>7. /\ DOMAIN more = DOMAIN db \cup {x[i][1] : i \in 1..(m + n)}
      /\ more = [b \in DOMAIN more |-> more[b]]
      /\ \A b \in DOMAIN more :
            \/ /\ b \in DOMAIN db /\ more[b] = db[b]
               /\ \A i \in 1..(m + n) : x[i][1] # b
            \/ \E i \in 1..(m + n) :
                  /\ x[i][1] = b /\ more[b] = x[i][2]
                  /\ \A j \in 1..(m + n) : x[j][1] = b => j <= i
  <2>1. Applied(Apply(db, x), db, x)
    BY <1>5, ApplyFacts
  <2> QED BY <1>5, <2>1 DEF Applied
<1> HIDE DEF old, more
<1>8. ToSet(bs) = {bs[i] : i \in 1..n}
  BY <1>3 DEF ToSet
<1>9. DOMAIN more = DOMAIN old \cup ToSet(bs)
  <2>1. {x[i][1] : i \in 1..(m + n)} = {w[i][1] : i \in 1..m} \cup {bs[i] : i \in 1..n}
    <3>1. ASSUME NEW i \in 1..(m + n)
          PROVE  x[i][1] \in {w[k][1] : k \in 1..m} \cup {bs[k] : k \in 1..n}
      <4>1. CASE i \in 1..m
        BY <1>5, <4>1
      <4>2. CASE i \notin 1..m
        BY <1>5, <4>2
      <4> QED BY <4>1, <4>2
    <3>2. ASSUME NEW i \in 1..m PROVE w[i][1] \in {x[k][1] : k \in 1..(m + n)}
      BY <1>5
    <3>3. ASSUME NEW i \in 1..n PROVE bs[i] \in {x[k][1] : k \in 1..(m + n)}
      BY <1>5
    <3> QED BY <3>1, <3>2, <3>3
  <2> QED BY <1>6, <1>7, <1>8, <2>1
<1>10. ASSUME NEW b \in ToSet(bs) PROVE more[b] = st[b]
  <2>1. PICK k \in 1..n : bs[k] = b
    BY <1>8
  <2>2. x[m + k][1] = b /\ m + k \in 1..(m + n)
    BY <1>5, <2>1
  <2>3. PICK i \in 1..(m + n) : /\ x[i][1] = b /\ more[b] = x[i][2]
                                /\ \A j \in 1..(m + n) : x[j][1] = b => j <= i
    BY <1>7, <1>9, <2>2
  <2>4. m + k <= i
    BY <2>2, <2>3
  <2>5. i \notin 1..m
    BY <1>3, <2>4
  <2>6. PICK l \in 1..n : i = m + l
    BY <1>5, <2>5
  <2> QED BY <1>5, <2>3, <2>6
<1>11. ASSUME NEW b \in DOMAIN old \ ToSet(bs) PROVE more[b] = old[b]
  <2>1. \A i \in 1..(m + n) : x[i][1] = b => i \in 1..m
    BY <1>5, <1>8
  <2>2. b \in DOMAIN more
    BY <1>9
  <2>3. CASE \A i \in 1..m : w[i][1] # b
    <3>1. b \in DOMAIN db /\ old[b] = db[b]
      BY <1>6, <2>3
    <3>2. \A i \in 1..(m + n) : x[i][1] # b
      BY <1>5, <2>1, <2>3
    <3> QED BY <1>7, <2>2, <3>1, <3>2
  <2>4. CASE \E i \in 1..m : w[i][1] = b
    <3>1. PICK i \in 1..m : w[i][1] = b /\ old[b] = w[i][2] /\ \A j \in 1..m : w[j][1] = b => j <= i
      BY <1>6, <2>4
    <3>2. x[i][1] = b /\ i \in 1..(m + n)
      BY <1>5, <3>1
    <3>3. PICK k \in 1..(m + n) : /\ x[k][1] = b /\ more[b] = x[k][2]
                                  /\ \A j \in 1..(m + n) : x[j][1] = b => j <= k
      BY <1>7, <2>2, <3>2
    <3>4. k \in 1..m /\ i <= k
      BY <2>1, <3>2, <3>3
    <3>5. w[k][1] = b /\ more[b] = w[k][2]
      BY <1>5, <3>3, <3>4
    <3>6. k = i
      BY <1>3, <3>1, <3>4, <3>5
    <3> QED BY <3>1, <3>5, <3>6
  <2> QED BY <2>3, <2>4
<1> QED BY <1>7, <1>9, <1>10, <1>11 DEF Overwritten, more, old, x, v

(* What any surviving prefix of the writes makes of the index: its entries *)
(* are justified, no parent is missing, and no undo data is lost.          *)
LEMMA PrefixOK ==
    ASSUME IndexOK(index), LogOK, NEW n \in 0..Len(log)
    PROVE  LET A == Apply(index, SubSeq(log, 1, n))
           IN  /\ IndexOK(A)
               /\ \A b \in DOMAIN index : "UNDO" \in index[b] => b \in DOMAIN A /\ "UNDO" \in A[b]
<1> DEFINE X == Block \X SUBSET Flags
           w == SubSeq(log, 1, n)
           A == Apply(index, w)
<1>1. log \in Seq(X) /\ Len(log) \in Nat
  BY DEF LogOK
<1>2. w \in Seq(X) /\ Len(w) = n /\ \A i \in 1..n : w[i] = log[i] /\ i \in 1..Len(log)
  <2> HIDE DEF X
  <2> QED BY <1>1
<1>3. Applied(A, index, w)
  <2> HIDE DEF w, X
  <2> QED BY <1>2, ApplyFacts
<1> HIDE DEF A, w, X
<1>4. DOMAIN A = DOMAIN index \cup {log[i][1] : i \in 1..n}
  BY <1>2, <1>3 DEF Applied
<1>5. \A b \in DOMAIN A :
         \/ b \in DOMAIN index /\ A[b] = index[b]
         \/ \E i \in 1..n : log[i][1] = b /\ A[b] = log[i][2]
  BY <1>2, <1>3 DEF Applied
<1>6. ASSUME NEW b \in DOMAIN A PROVE EntryOK(b, A[b])
  BY <1>2, <1>5 DEF IndexOK, LogOK
<1>7. A \in [DOMAIN A -> SUBSET Flags]
  <2>1. A = [b \in DOMAIN A |-> A[b]]
    BY <1>3 DEF Applied
  <2>2. \A b \in DOMAIN A : A[b] \in SUBSET Flags
    BY <1>6 DEF EntryOK
  <2> QED BY <2>1, <2>2
<1>8. Genesis \in DOMAIN A
  BY <1>4 DEF IndexOK
<1>9. ASSUME NEW b \in DOMAIN A \ {Genesis} PROVE Parent[b] \in DOMAIN A
  <2>1. CASE b \in DOMAIN index
    BY <1>4, <2>1 DEF IndexOK
  <2>2. CASE b \notin DOMAIN index
    <3>1. PICK i \in 1..n : b = log[i][1]
      BY <1>4, <2>2
    <3>2. \/ Parent[b] \in DOMAIN index
          \/ \E j \in 1..(i - 1) : log[j][1] = Parent[b]
      BY <1>2, <3>1 DEF LogOK
    <3>3. \A j \in 1..(i - 1) : j \in 1..n
      OBVIOUS
    <3> QED BY <1>4, <3>2, <3>3
  <2> QED BY <2>1, <2>2
<1>10. ASSUME NEW b \in DOMAIN index, "UNDO" \in index[b]
       PROVE  b \in DOMAIN A /\ "UNDO" \in A[b]
  <2>1. b \in DOMAIN A
    BY <1>4
  <2>2. CASE A[b] = index[b]
    BY <1>10, <2>1, <2>2
  <2>3. CASE \E i \in 1..n : log[i][1] = b /\ A[b] = log[i][2]
    BY <1>2, <1>10, <2>1, <2>3 DEF LogOK
  <2> QED BY <1>5, <2>1, <2>2, <2>3
<1> QED BY <1>6, <1>7, <1>8, <1>9, <1>10 DEF IndexOK, A, w

LEMMA FoundOK ==
    ASSUME IndexOK(index), LogOK
    PROVE  /\ IndexOK(FoundIndex)
           /\ DOMAIN FoundIndex = DOMAIN index \cup {log[i][1] : i \in 1..Len(log)}
           /\ \A b \in DOMAIN index : "UNDO" \in index[b] => b \in DOMAIN FoundIndex
                                                              /\ "UNDO" \in FoundIndex[b]
<1>1. log \in Seq(Block \X SUBSET Flags) /\ Len(log) \in 0..Len(log)
  BY DEF LogOK
<1>2. SubSeq(log, 1, Len(log)) = log
  BY <1>1
<1>3. Applied(Apply(index, log), index, log)
  BY <1>1, ApplyFacts
<1>4. DOMAIN FoundIndex = DOMAIN index \cup {log[i][1] : i \in 1..Len(log)}
  BY <1>3 DEF Applied, FoundIndex
<1>5. LET A == Apply(index, SubSeq(log, 1, Len(log)))
      IN  /\ IndexOK(A)
          /\ \A b \in DOMAIN index : "UNDO" \in index[b] => b \in DOMAIN A /\ "UNDO" \in A[b]
  BY <1>1, PrefixOK
<1> QED BY <1>2, <1>4, <1>5 DEF FoundIndex

(* A call writes the blocks bs as they now are in nStatus: the database    *)
(* stays what the process believes.                                        *)
LEMMA LogGrows ==
    ASSUME IndexOK(index), LogOK, nStatus = FoundIndex,
           IndexOK(nStatus'), NEW bs \in Seq(DOMAIN nStatus'),
           DOMAIN nStatus' = DOMAIN nStatus \cup ToSet(bs),
           \A b \in DOMAIN nStatus \ ToSet(bs) : nStatus'[b] = nStatus[b],
           \A b \in DOMAIN nStatus : "UNDO" \in nStatus[b] => "UNDO" \in nStatus'[b],
           \A b \in ToSet(bs) \ {Genesis} : Parent[b] \in DOMAIN nStatus,
           log' = log \o Writes(bs, nStatus'), index' = index
    PROVE  LogOK' /\ nStatus' = FoundIndex'
<1> DEFINE X == Block \X SUBSET Flags
           D == DOMAIN nStatus'
           T == SUBSET Flags
           v == Writes(bs, nStatus')
           m == Len(log)
           n == Len(bs)
<1>1. log \in Seq(X) /\ m \in Nat /\ n \in Nat /\ DOMAIN bs = 1..n /\ \A i \in 1..n : bs[i] \in D
  BY DEF LogOK
<1>2. nStatus' \in [D -> T]
  BY DEF IndexOK
<1>3. Written(v, bs, nStatus', D, T)
  <2> HIDE DEF D, T
  <2> QED BY <1>2, WritesFacts
<1>4. v \in Seq(X) /\ Len(v) = n /\ \A i \in 1..n : v[i] = <<bs[i], nStatus'[bs[i]]>>
  <2>1. D \X T \subseteq X
    BY DEF IndexOK, EntryOK
  <2>2. v \in Seq(D \X T) /\ Len(v) = n /\ \A i \in 1..n : v[i] = <<bs[i], nStatus'[bs[i]]>>
    BY <1>3 DEF Written
  <2> HIDE DEF v, D, T, X
  <2> QED BY <2>1, <2>2, SeqMonotonic
<1>5. /\ log' \in Seq(X) /\ Len(log') = m + n
      /\ \A i \in 1..m : log'[i] = log[i]
      /\ \A i \in 1..n : log'[m + i] = v[i]
      /\ \A i \in 1..(m + n) : i \in 1..m \/ \E k \in 1..n : i = m + k
  <2>1. Joined(log \o v, log, v, X)
    <3> HIDE DEF v, X
    <3> QED BY <1>1, <1>4, ConcatFacts
  <2>2. Joined(log', log, v, X)
    BY <2>1
  <2> HIDE DEF v, X
  <2> QED BY <1>4, <2>2 DEF Joined
<1>5a. m \in Nat /\ n \in Nat
  BY <1>1
<1> HIDE DEF m, n
<1>6. DOMAIN nStatus = DOMAIN index \cup {log[i][1] : i \in 1..m}
  BY FoundOK DEF m
<1>7. ASSUME NEW i \in 1..m
      PROVE  LET b == log'[i][1]
             IN  /\ EntryOK(b, log'[i][2])
                 /\ b # Genesis => \/ Parent[b] \in DOMAIN index'
                                   \/ \E j \in 1..(i - 1) : log'[j][1] = Parent[b]
                 /\ b \in DOMAIN index' /\ "UNDO" \in index'[b] => "UNDO" \in log'[i][2]
  <2>1. \A j \in 1..(i - 1) : j \in 1..m
    BY <1>5a
  <2>2. \A j \in 1..(i - 1) : log'[j] = log[j]
    BY <1>5, <2>1
  <2> QED BY <1>5, <2>2 DEF LogOK, m
<1>8. ASSUME NEW k \in 1..n, NEW i \in Nat, i = m + k
      PROVE  LET b == log'[i][1]
             IN  /\ EntryOK(b, log'[i][2])
                 /\ b # Genesis => \/ Parent[b] \in DOMAIN index'
                                   \/ \E j \in 1..(i - 1) : log'[j][1] = Parent[b]
                 /\ b \in DOMAIN index' /\ "UNDO" \in index'[b] => "UNDO" \in log'[i][2]
  <2> DEFINE b == bs[k]
  <2>1. log'[i][1] = b /\ log'[i][2] = nStatus'[b] /\ b \in D /\ b \in ToSet(bs)
    <3>1. log'[i] = <<b, nStatus'[b]>>
      <4> HIDE DEF v, D
      <4> QED BY <1>4, <1>5, <1>8 DEF n
    <3>2. b \in D /\ b \in ToSet(bs)
      BY <1>1 DEF ToSet, n
    <3> QED BY <3>1, <3>2
  <2> HIDE DEF b
  <2>2. EntryOK(b, nStatus'[b])
    BY <2>1 DEF IndexOK
  <2>3. ASSUME b # Genesis
        PROVE  \/ Parent[b] \in DOMAIN index'
               \/ \E j \in 1..(i - 1) : log'[j][1] = Parent[b]
    <3>1. Parent[b] \in DOMAIN nStatus
      BY <2>1, <2>3
    <3>2. CASE Parent[b] \in DOMAIN index
      BY <3>2
    <3>3. CASE \E j \in 1..m : log[j][1] = Parent[b]
      <4>1. PICK j \in 1..m : log[j][1] = Parent[b]
        BY <3>3
      <4>2. j \in 1..(i - 1)
        BY <1>5a, <1>8
      <4>3. log'[j] = log[j]
        BY <1>5
      <4> QED BY <4>1, <4>2, <4>3
    <3> QED BY <1>6, <3>1, <3>2, <3>3
  <2>4. ASSUME b \in DOMAIN index, "UNDO" \in index[b] PROVE "UNDO" \in nStatus'[b]
    <3>1. b \in DOMAIN nStatus /\ "UNDO" \in nStatus[b]
      BY <2>4, FoundOK
    <3> QED BY <3>1
  <2> QED BY <2>1, <2>2, <2>3, <2>4
<1>9. ASSUME NEW i \in 1..(m + n)
      PROVE  LET b == log'[i][1]
             IN  /\ EntryOK(b, log'[i][2])
                 /\ b # Genesis => \/ Parent[b] \in DOMAIN index'
                                   \/ \E j \in 1..(i - 1) : log'[j][1] = Parent[b]
                 /\ b \in DOMAIN index' /\ "UNDO" \in index'[b] => "UNDO" \in log'[i][2]
  <2>1. CASE i \in 1..m
    BY <1>7, <2>1
  <2>2. CASE i \notin 1..m
    <3>1. PICK k \in 1..n : i = m + k
      BY <1>5, <2>2
    <3>2. i \in Nat
      BY <1>5a
    <3> QED BY <1>8, <3>1, <3>2
  <2> QED BY <2>1, <2>2
<1>10. LogOK'
  <2>1. log' \in Seq(Block \X SUBSET Flags) /\ Len(log') = m + n
    BY <1>5
  <2> QED BY <1>9, <2>1 DEF LogOK, EntryOK, Ancestors, Marked, Flags
<1>11. nStatus' = FoundIndex'
  <2> DEFINE more == Apply(index, log \o v)
  <2>1. Overwritten(more, Apply(index, log), bs, nStatus')
    <3>1. bs \in Seq(D)
      OBVIOUS
    <3> HIDE DEF X, D, T
    <3> QED BY <1>1, <1>2, <3>1, ApplyMore
  <2>2. FoundIndex' = more
    BY DEF FoundIndex
  <2>3. FoundIndex = Apply(index, log)
    BY DEF FoundIndex
  <2> HIDE DEF more
  <2>4. DOMAIN more = D /\ \A b \in D : more[b] = nStatus'[b]
    BY <2>1, <2>3 DEF Overwritten
  <2>5. more = nStatus'
    BY <1>2, <2>1, <2>4 DEF Overwritten
  <2> QED BY <2>2, <2>5
<1> QED BY <1>10, <1>11

-----------------------------------------------------------------------------
(***************************************************************************)
(* How the steps of a call change nStatus and the log.                     *)
(***************************************************************************)

(* The index holds whole chains.                                           *)
LEMMA ChainsIndexed ==
    ASSUME NEW d, IndexOK(d), NEW b \in DOMAIN d
    PROVE  b \in Block /\ Ancestors(b) \subseteq DOMAIN d
<1>1. DOMAIN d \subseteq Block
  BY DEF IndexOK, EntryOK
<1> DEFINE Bad == {n \in Nat : \E c \in DOMAIN d : nHeight[c] = n /\ ~(Ancestors(c) \subseteq DOMAIN d)}
<1>2. Bad = {}
  <2> SUFFICES ASSUME Bad # {} PROVE FALSE
    OBVIOUS
  <2>1. PICK n \in Bad : \A m \in Bad : n <= m
    BY LeastElement
  <2>2. PICK c \in DOMAIN d : nHeight[c] = n /\ ~(Ancestors(c) \subseteq DOMAIN d)
    BY <2>1
  <2>3. c # Genesis
    BY <2>2, AncestorsStep DEF IndexOK
  <2>4. Parent[c] \in DOMAIN d
    BY <2>3 DEF IndexOK
  <2>5. nHeight[Parent[c]] \in Nat /\ nHeight[Parent[c]] < n
    BY <1>1, <2>2, <2>3, TreeFacts
  <2>6. Ancestors(Parent[c]) \subseteq DOMAIN d
    BY <2>1, <2>4, <2>5
  <2>7. Ancestors(c) = Ancestors(Parent[c]) \cup {c}
    BY <1>1, <2>3, AncestorsStep
  <2> QED BY <2>2, <2>6, <2>7
<1>3. nHeight[b] \in Nat
  BY <1>1, TreeFacts
<1> QED BY <1>1, <1>2, <1>3

(* The outcome of a step that rewrites entries: the index in memory stays  *)
(* sound and the log follows it.                                           *)
Rewrites ==
    /\ IndexOK(nStatus') /\ LogOK' /\ nStatus' = FoundIndex'
    /\ DOMAIN nStatus' = DOMAIN nStatus
    /\ \A b \in DOMAIN nStatus : nStatus[b] \subseteq nStatus'[b]

LEMMA RewriteStep ==
    ASSUME MemOK, DiskOK, Running, NEW bs \in Seq(DOMAIN nStatus),
           nStatus' \in [DOMAIN nStatus -> SUBSET Flags],
           \A b \in DOMAIN nStatus : EntryOK(b, nStatus'[b]) /\ nStatus[b] \subseteq nStatus'[b],
           \A b \in DOMAIN nStatus \ ToSet(bs) : nStatus'[b] = nStatus[b],
           log' = log \o Writes(bs, nStatus'), index' = index
    PROVE  Rewrites
<1>1. DOMAIN nStatus' = DOMAIN nStatus
  OBVIOUS
<1>2. IndexOK(nStatus')
  <2>1. IndexOK(nStatus)
    BY DEF MemOK
  <2> QED BY <1>1, <2>1 DEF IndexOK
<1>3. ToSet(bs) \subseteq DOMAIN nStatus
  BY DEF ToSet
<1>4. \A b \in ToSet(bs) \ {Genesis} : Parent[b] \in DOMAIN nStatus
  BY <1>3 DEF MemOK, IndexOK
<1>5. IndexOK(index) /\ LogOK /\ nStatus = FoundIndex
  BY DEF DiskOK
<1>6. LogOK' /\ nStatus' = FoundIndex'
  BY <1>1, <1>2, <1>3, <1>4, <1>5, LogGrows
<1> QED BY <1>1, <1>2, <1>6 DEF Rewrites

LEMMA MarkFailedChildStep ==
    ASSUME MemOK, DiskOK, Running, NEW c \in DOMAIN nStatus, NEW f \in Ancestors(c), Failed(f),
           MarkFailedChild(c, f), index' = index
    PROVE  /\ Rewrites
           /\ setBlockIndexValid' = setBlockIndexValid \ ToSet(Above(c, f))
           /\ \A x \in ToSet(Above(c, f)) : Ancestors(x) \cap BadBlock # {}
<1> DEFINE up == Above(c, f)  bs == Reverse(up)
<1>1. c \in Block /\ Ancestors(c) \subseteq DOMAIN nStatus
  BY ChainsIndexed DEF MemOK
<1>2. up \in Seq(Block) /\ ToSet(up) \subseteq Ancestors(c) /\ \A x \in ToSet(up) : f \in Ancestors(x)
  BY <1>1, AboveFacts
<1>3. \A x \in ToSet(up) : Ancestors(x) \cap BadBlock # {}
  <2>1. Ancestors(f) \cap BadBlock # {}
    BY <1>1 DEF MemOK, IndexOK, EntryOK, Marked, Failed
  <2>2. \A x \in ToSet(up) : x \in Block
    BY <1>1, <1>2, AncestorsDef
  <2> QED BY <1>2, <2>1, <2>2, AncestorsClosed
<1> HIDE DEF up
<1>4. bs \in Seq(DOMAIN nStatus) /\ ToSet(bs) = ToSet(up)
  <2>1. DOMAIN up = 1..Len(up) /\ Len(up) \in Nat
    BY <1>2
  <2>2. bs = [i \in 1..Len(up) |-> up[Len(up) - i + 1]]
    BY DEF Reverse
  <2>3. \A i \in 1..Len(up) : Len(up) - i + 1 \in 1..Len(up) /\ Len(up) - (Len(up) - i + 1) + 1 = i
    BY <2>1
  <2>4. \A i \in 1..Len(up) : up[i] \in DOMAIN nStatus
    BY <1>1, <1>2, <2>1 DEF ToSet
  <2>5. bs \in Seq(DOMAIN nStatus)
    BY <2>1, <2>2, <2>3, <2>4
  <2>6. DOMAIN bs = 1..Len(up) /\ \A i \in 1..Len(up) : bs[i] = up[Len(up) - i + 1]
    BY <2>2
  <2> HIDE DEF bs
  <2>7. ToSet(bs) \subseteq ToSet(up)
    BY <2>1, <2>3, <2>6 DEF ToSet
  <2>8. ToSet(up) \subseteq ToSet(bs)
    <3> SUFFICES ASSUME NEW i \in 1..Len(up) PROVE up[i] \in ToSet(bs)
      BY <2>1 DEF ToSet
    <3>1. bs[Len(up) - i + 1] = up[i]
      BY <2>3, <2>6
    <3> QED BY <2>3, <2>6, <3>1 DEF ToSet
  <2> QED BY <2>5, <2>7, <2>8
<1>5. /\ nStatus' = [b \in DOMAIN nStatus |-> IF b \in ToSet(up) THEN nStatus[b] \cup {"FAILED_CHILD"}
                                              ELSE nStatus[b]]
      /\ setBlockIndexValid' = setBlockIndexValid \ ToSet(up)
      /\ log' = log \o Writes(bs, nStatus')
  BY DEF MarkFailedChild, up
<1> HIDE DEF bs
<1>6. \A b \in DOMAIN nStatus : b \in Block /\ nStatus[b] \in SUBSET Flags /\ EntryOK(b, nStatus[b])
  BY DEF MemOK, IndexOK, EntryOK
<1>7. nStatus' \in [DOMAIN nStatus -> SUBSET Flags]
  BY <1>5, <1>6 DEF Flags
<1>8. ASSUME NEW b \in DOMAIN nStatus PROVE EntryOK(b, nStatus'[b]) /\ nStatus[b] \subseteq nStatus'[b]
  BY <1>3, <1>5, <1>6, <1>7 DEF EntryOK, Marked
<1>9. \A b \in DOMAIN nStatus \ ToSet(bs) : nStatus'[b] = nStatus[b]
  BY <1>4, <1>5
<1>10. Rewrites
  BY <1>4, <1>5, <1>7, <1>8, <1>9, RewriteStep
<1> QED BY <1>3, <1>5, <1>10 DEF up

(* Connecting blocks that ConnectBlock accepts.                            *)
LEMMA ConnectedFacts ==
    ASSUME MemOK, NEW s \in Seq(Block), ToSet(s) \subseteq DOMAIN nStatus, ToSet(s) \cap BadBlock = {}
    PROVE  /\ NeedUndo(s) \in Seq(DOMAIN nStatus)
           /\ ToSet(NeedUndo(s)) \subseteq ToSet(s)
           /\ Connected(s) \in [DOMAIN nStatus -> SUBSET Flags]
           /\ \A b \in DOMAIN nStatus : EntryOK(b, Connected(s)[b]) /\ nStatus[b] \subseteq Connected(s)[b]
           /\ \A b \in DOMAIN nStatus \ ToSet(NeedUndo(s)) : Connected(s)[b] = nStatus[b]
           /\ \A b \in ToSet(s) \ {Genesis} : "UNDO" \in Connected(s)[b]
<1> DEFINE D == {b \in DOMAIN nStatus \ {Genesis} : "UNDO" \notin nStatus[b]}
<1>1. s \in Seq(DOMAIN nStatus)
  <2>1. DOMAIN s = 1..Len(s) /\ Len(s) \in Nat /\ \A i \in 1..Len(s) : s[i] \in DOMAIN nStatus
    BY DEF ToSet
  <2>2. s = [i \in 1..Len(s) |-> s[i]]
    OBVIOUS
  <2> QED BY <2>1, <2>2
<1>2. NeedUndo(s) \in Seq(DOMAIN nStatus) /\ ToSet(NeedUndo(s)) = ToSet(s) \cap D
  <2> HIDE DEF D
  <2>1. NeedUndo(s) = Only(s, D)
    BY DEF NeedUndo, D
  <2> QED BY <1>1, <2>1, OnlySet
<1>3. Connected(s) = [b \in DOMAIN nStatus |-> IF b \in ToSet(NeedUndo(s))
                                               THEN nStatus[b] \cup {"UNDO"} ELSE nStatus[b]]
  BY DEF Connected
<1>4. \A b \in DOMAIN nStatus : b \in Block /\ nStatus[b] \in SUBSET Flags /\ EntryOK(b, nStatus[b])
  BY DEF MemOK, IndexOK, EntryOK
<1>5. Connected(s) \in [DOMAIN nStatus -> SUBSET Flags]
  BY <1>3, <1>4 DEF Flags
<1>6. ASSUME NEW b \in DOMAIN nStatus
      PROVE  EntryOK(b, Connected(s)[b]) /\ nStatus[b] \subseteq Connected(s)[b]
  <2>1. CASE b \in ToSet(NeedUndo(s))
    <3>1. Connected(s)[b] = nStatus[b] \cup {"UNDO"} /\ b \notin BadBlock
      BY <1>2, <1>3, <2>1
    <3>2. Marked(nStatus[b] \cup {"UNDO"}) => Marked(nStatus[b])
      BY DEF Marked
    <3> QED BY <1>4, <3>1, <3>2 DEF EntryOK, Flags
  <2>2. CASE b \notin ToSet(NeedUndo(s))
    BY <1>3, <1>4, <2>2
  <2> QED BY <2>1, <2>2
<1>7. \A b \in DOMAIN nStatus \ ToSet(NeedUndo(s)) : Connected(s)[b] = nStatus[b]
  BY <1>3
<1>8. \A b \in ToSet(s) \ {Genesis} : "UNDO" \in Connected(s)[b]
  BY <1>2, <1>3
<1> QED BY <1>2, <1>5, <1>6, <1>7, <1>8

(* CBlockIndexWorkComparator orders any candidates: there is a best one.   *)
Better(c, d) ==
    nChainWork[c] > nChainWork[d] \/ (nChainWork[c] = nChainWork[d] /\ HashOf[c] <= HashOf[d])

LEMMA BestExists ==
    ASSUME NEW S \in SUBSET Block, S # {}
    PROVE  \E c \in S : \A d \in S : Better(c, d)
<1> DEFINE Good(U) == U = {} \/ \E c \in U : \A d \in U : Better(c, d)
           Bad == {n \in Nat : \E U \in SUBSET Block : Cardinality(U) = n /\ ~Good(U)}
<1>0. \A U \in SUBSET Block : IsFiniteSet(U) /\ Cardinality(U) \in Nat
  BY TreeAssumption, FS_Subset, FS_CardinalityType
<1>1. /\ \A b \in Block : nChainWork[b] \in Nat /\ HashOf[b] \in Nat
  BY WorkDef, TreeFacts
<1>2. /\ \A b \in Block : Better(b, b)
      /\ \A b, c \in Block : Better(b, c) \/ Better(c, b)
      /\ \A b, c, d \in Block : Better(b, c) /\ Better(c, d) => Better(b, d)
  BY <1>1 DEF Better
<1>3. Bad = {}
  <2> SUFFICES ASSUME Bad # {} PROVE FALSE
    OBVIOUS
  <2>1. PICK n \in Bad : \A m \in Bad : n <= m
    BY LeastElement
  <2>2. PICK U \in SUBSET Block : Cardinality(U) = n /\ ~Good(U)
    BY <2>1
  <2>3. PICK b \in U : TRUE
    BY <2>2
  <2> DEFINE W == U \ {b}
  <2>4. W \in SUBSET Block /\ Cardinality(W) = n - 1 /\ n \in Nat /\ Cardinality(W) \in Nat
    BY <1>0, <2>2, <2>3, FS_RemoveElement
  <2>5. Good(W)
    <3>1. Cardinality(W) \notin Bad
      <4> HIDE DEF Bad, W
      <4> QED BY <2>1, <2>4
    <3> HIDE DEF Good, W
    <3> QED BY <2>4, <3>1
  <2>6. CASE W = {}
    BY <1>2, <2>2, <2>3, <2>6
  <2>7. CASE W # {}
    <3>1. PICK c \in W : \A d \in W : Better(c, d)
      BY <2>5, <2>7
    <3>2. b \in Block /\ c \in Block /\ c \in U /\ \A d \in U : d \in Block /\ (d = b \/ d \in W)
      OBVIOUS
    <3>3. CASE Better(c, b)
      BY <2>2, <3>1, <3>2, <3>3
    <3>4. CASE Better(b, c)
      <4>1. \A d \in U : Better(b, d)
        BY <1>2, <3>1, <3>2, <3>4
      <4> QED BY <2>2, <4>1
    <3> QED BY <1>2, <3>2, <3>3, <3>4
  <2> QED BY <2>6, <2>7
<1>4. Good(S)
  <2> HIDE DEF Good
  <2> QED BY <1>0, <1>3
<1> QED BY <1>4

LEMMA BestCandidateFacts ==
    ASSUME setBlockIndexValid \in SUBSET Block, setBlockIndexValid # {}
    PROVE  /\ BestCandidate \in setBlockIndexValid
           /\ \A d \in setBlockIndexValid : nChainWork[d] <= nChainWork[BestCandidate]
<1>1. \E c \in setBlockIndexValid : \A d \in setBlockIndexValid : Better(c, d)
  BY BestExists
<1>2. BestCandidate \in setBlockIndexValid /\ \A d \in setBlockIndexValid : Better(BestCandidate, d)
  BY <1>1 DEF BestCandidate, Better
<1>3. \A b \in Block : nChainWork[b] \in Nat
  BY WorkDef
<1> QED BY <1>2, <1>3 DEF Better

(***************************************************************************)
(* What each step of ConnectBestBlock and SetBestChain does.               *)
(***************************************************************************)

(* A turn of ConnectBestBlock either marks blocks failed, and only invalid *)
(* branches lose candidates, or it chooses where to switch.                *)
Marks ==
    /\ Rewrites
    /\ setBlockIndexValid' \subseteq setBlockIndexValid
    /\ \A x \in setBlockIndexValid \ setBlockIndexValid' : Ancestors(x) \cap BadBlock # {}
    /\ UNCHANGED <<pc, vAttach, pindexBest, coinsTip, pnext, mapOrphanBlocks, fRequestShutdown,
                   accepting, vWorkQueue, index, coinsDB, hist>>

MoreAndMoreWork(s, best) ==
    /\ \A i \in 1..Len(s) : nChainWork[s[i]] > nChainWork[best]
    /\ \A i, j \in 1..Len(s) : i < j => nChainWork[s[i]] < nChainWork[s[j]]

Chooses ==
    /\ vAttach' \in Seq(DOMAIN nStatus)
    /\ MoreAndMoreWork(vAttach', pindexBest)
    /\ \A b \in setBlockIndexValid :
          nChainWork[b] <= nChainWork[IF vAttach' = <<>> THEN pindexBest ELSE Last(vAttach')]
    /\ pc' = "switch"
    /\ UNCHANGED <<mem, log, accepting, vWorkQueue, index, coinsDB, hist>>

LEMMA SeqInto ==
    ASSUME NEW S, NEW T, NEW s \in Seq(S), ToSet(s) \subseteq T
    PROVE  s \in Seq(T)
<1>1. DOMAIN s = 1..Len(s) /\ Len(s) \in Nat /\ \A i \in 1..Len(s) : s[i] \in T
  BY DEF ToSet
<1>2. s = [i \in 1..Len(s) |-> s[i]]
  OBVIOUS
<1> QED BY <1>1, <1>2

LEMMA ConnectBestBlockStep ==
    ASSUME CoreInv, ConnectBestBlock
    PROVE  Marks \/ Chooses
<1> DEFINE c    == BestCandidate
           walk == Walk(c)
           bad  == {i \in DOMAIN walk : Failed(walk[i])}
           f    == walk[CHOOSE i \in bad : \A j \in bad : j <= i]
<1>1. DOMAIN nStatus \subseteq Block /\ setBlockIndexValid \subseteq DOMAIN nStatus
      /\ pindexBest \in DOMAIN nStatus
  BY DEF CoreInv, MemOK, IndexOK, EntryOK
<1>2. CASE setBlockIndexValid = {}
  <2>1. vAttach' = <<>> /\ pc' = "switch"
        /\ UNCHANGED <<mem, log, accepting, vWorkQueue, index, coinsDB, hist>>
    BY <1>2 DEF ConnectBestBlock
  <2>2. MoreAndMoreWork(<<>>, pindexBest) /\ <<>> \in Seq(DOMAIN nStatus)
    BY DEF MoreAndMoreWork
  <2> QED BY <1>2, <2>1, <2>2 DEF Chooses
<1>3. CASE setBlockIndexValid # {}
  <2>1. c \in DOMAIN nStatus /\ c \in Block /\ \A d \in setBlockIndexValid : nChainWork[d] <= nChainWork[c]
    BY <1>1, <1>3, BestCandidateFacts
  <2>2. Ancestors(c) \subseteq DOMAIN nStatus
    BY <2>1, ChainsIndexed DEF CoreInv, MemOK
  <2>3. UNCHANGED <<accepting, vWorkQueue, index, coinsDB, hist>> /\ Running
    BY DEF ConnectBestBlock, Running
  <2>4. CASE bad # {}
    <3>1. /\ MarkFailedChild(c, f)
          /\ UNCHANGED <<pc, vAttach, pindexBest, coinsTip, pnext, mapOrphanBlocks, fRequestShutdown>>
      BY <1>3, <2>4 DEF ConnectBestBlock
    <3>2. walk \in Seq(Block) /\ \A i \in 1..Len(walk) : walk[i] \in Ancestors(c)
      <4> HIDE DEF c
      <4> QED BY <2>1, WalkFacts
    <3> HIDE DEF walk, c
    <3>3. DOMAIN walk = 1..Len(walk) /\ Len(walk) \in Nat
      BY <3>2
    <3>4. \E m \in bad : \A k \in bad : k <= m
      <4>1. bad \in SUBSET (1..Len(walk))
        BY <3>3
      <4> HIDE DEF bad
      <4> QED BY <2>4, <3>3, <4>1, GreatestElement
    <3>5. (CHOOSE i \in bad : \A j \in bad : j <= i) \in bad
      <4> HIDE DEF bad
      <4> QED BY <3>4
    <3>6. f \in Ancestors(c) /\ Failed(f)
      BY <3>2, <3>3, <3>5
    <3> HIDE DEF f
    <3>7. /\ Rewrites
          /\ setBlockIndexValid' = setBlockIndexValid \ ToSet(Above(c, f))
          /\ \A x \in ToSet(Above(c, f)) : Ancestors(x) \cap BadBlock # {}
      BY <2>1, <2>3, <3>1, <3>6, MarkFailedChildStep DEF CoreInv
    <3> QED BY <2>3, <3>1, <3>7 DEF Marks
  <2>5. CASE bad = {}
    <3> DEFINE a == Attach(walk)
    <3>1. vAttach' = a /\ pc' = "switch" /\ UNCHANGED <<mem, log>>
      BY <1>3, <2>5 DEF ConnectBestBlock
    <3>2. pindexBest \in Block
      BY <1>1
    <3> HIDE DEF c, bad
    <3>3. /\ a \in Seq(Block) /\ ToSet(a) \subseteq Ancestors(c)
          /\ MoreAndMoreWork(a, pindexBest)
          /\ IF nChainWork[c] > nChainWork[pindexBest] THEN a # <<>> /\ Last(a) = c ELSE a = <<>>
      BY <2>1, <3>2, AttachFacts DEF MoreAndMoreWork
    <3> HIDE DEF a, walk
    <3>4. a \in Seq(DOMAIN nStatus)
      BY <2>2, <3>3, SeqInto
    <3>5. \A b \in setBlockIndexValid : nChainWork[b] <= nChainWork[IF a = <<>> THEN pindexBest ELSE Last(a)]
      <4>1. \A b \in Block : nChainWork[b] \in Nat
        BY WorkDef
      <4> QED BY <1>1, <2>1, <3>2, <3>3, <4>1
    <3> QED BY <2>3, <3>1, <3>3, <3>4, <3>5 DEF Chooses
  <2> QED BY <2>4, <2>5
<1> QED BY <1>2, <1>3

(* The branch that SetBestChain connects is indexed.                       *)
LEMMA HeadBranch ==
    ASSUME CoreInv, vAttach # <<>>
    PROVE  LET b == Head(vAttach)
           IN  /\ b \in DOMAIN nStatus /\ b \in Block /\ Ancestors(b) \subseteq DOMAIN nStatus
               /\ coinsTip \in Block
               /\ vConnect(b) \in Seq(Block)
               /\ ToSet(vConnect(b)) = Ancestors(b) \ Ancestors(coinsTip)
               /\ ToSet(vDisconnect(b)) = Ancestors(coinsTip) \ Ancestors(b)
<1> DEFINE b == Head(vAttach)
<1>1. b \in DOMAIN nStatus
  <2>1. vAttach \in Seq(DOMAIN nStatus)
    BY DEF CoreInv, CtlOK
  <2> QED BY <2>1
<1>2. coinsTip \in Block
  BY DEF CoreInv, MemOK, IndexOK, EntryOK
<1> HIDE DEF b
<1>3. b \in Block /\ Ancestors(b) \subseteq DOMAIN nStatus
  BY <1>1, ChainsIndexed DEF CoreInv, MemOK
<1> QED BY <1>1, <1>2, <1>3, BranchFacts DEF b

LEMMA LowerPart ==
    ASSUME NEW S, NEW s \in Seq(S), NEW k \in 0..Len(s)
    PROVE  LET t == SubSeq(s, 1, k)
           IN  t \in Seq(S) /\ Len(t) = k /\ ToSet(t) = {s[i] : i \in 1..k} /\ ToSet(t) \subseteq ToSet(s)
<1> DEFINE t == SubSeq(s, 1, k)
<1>1. t \in Seq(S) /\ Len(t) = k /\ \A i \in 1..k : t[i] = s[i] /\ i \in 1..Len(s)
  OBVIOUS
<1> HIDE DEF t
<1>2. DOMAIN t = 1..k /\ DOMAIN s = 1..Len(s)
  BY <1>1
<1> QED BY <1>1, <1>2 DEF ToSet, t

(* Blocks below a failure, or all of them, have been connected.            *)
LEMMA ConnectStep ==
    ASSUME MemOK, DiskOK, Running, NEW s \in Seq(Block), ToSet(s) \subseteq DOMAIN nStatus,
           ToSet(s) \cap BadBlock = {},
           nStatus' = Connected(s), log' = log \o Writes(NeedUndo(s), nStatus'), index' = index
    PROVE  Rewrites /\ \A b \in ToSet(s) \ {Genesis} : "UNDO" \in nStatus'[b]
<1>1. /\ NeedUndo(s) \in Seq(DOMAIN nStatus)
      /\ nStatus' \in [DOMAIN nStatus -> SUBSET Flags]
      /\ \A b \in DOMAIN nStatus : EntryOK(b, nStatus'[b]) /\ nStatus[b] \subseteq nStatus'[b]
      /\ \A b \in DOMAIN nStatus \ ToSet(NeedUndo(s)) : nStatus'[b] = nStatus[b]
      /\ \A b \in ToSet(s) \ {Genesis} : "UNDO" \in nStatus'[b]
  BY ConnectedFacts
<1> DEFINE bs == NeedUndo(s)
<1>2. log' = log \o Writes(bs, nStatus')
  OBVIOUS
<1> HIDE DEF bs
<1>3. Rewrites
  BY <1>1, <1>2, RewriteStep DEF bs
<1> QED BY <1>1, <1>3

LEMMA ConnectAllStep ==
    ASSUME CoreInv, NEW fFlush, SetBestChainConnect(fFlush)
    PROVE  /\ Rewrites
           /\ \A b \in Ancestors(Head(vAttach)) \ Ancestors(coinsTip) :
                 b # Genesis => "UNDO" \in nStatus'[b]
<1> DEFINE s == vConnect(Head(vAttach))
<1>1. /\ vAttach # <<>> /\ Running
      /\ ToSet(s) \cap BadBlock = {}
      /\ nStatus' = Connected(s) /\ log' = log \o Writes(NeedUndo(s), nStatus') /\ index' = index
  BY DEF SetBestChainConnect, Running
<1>2. s \in Seq(Block) /\ ToSet(s) \subseteq DOMAIN nStatus
      /\ ToSet(s) = Ancestors(Head(vAttach)) \ Ancestors(coinsTip)
  BY <1>1, HeadBranch
<1> HIDE DEF s
<1>3. Rewrites /\ \A b \in ToSet(s) \ {Genesis} : "UNDO" \in nStatus'[b]
  BY <1>1, <1>2, ConnectStep DEF CoreInv
<1> QED BY <1>2, <1>3

LEMMA AbortStep ==
    ASSUME CoreInv, SetBestChainAbort
    PROVE  Rewrites
<1> DEFINE s == vConnect(Head(vAttach))
<1>1. vAttach # <<>> /\ Running /\ index' = index
  BY DEF SetBestChainAbort, Running
<1>2. PICK k \in 0..(Len(s) - 1) :
        /\ k > 0 => ToSet(SubSeq(s, 1, k)) \cap BadBlock = {}
        /\ nStatus' = Connected(SubSeq(s, 1, k))
        /\ log' = log \o Writes(NeedUndo(SubSeq(s, 1, k)), nStatus')
  BY DEF SetBestChainAbort
<1>3. s \in Seq(Block) /\ ToSet(s) \subseteq DOMAIN nStatus
  BY <1>1, HeadBranch
<1> HIDE DEF s
<1> DEFINE t == SubSeq(s, 1, k)
<1>4. t \in Seq(Block) /\ ToSet(t) = {s[i] : i \in 1..k} /\ ToSet(t) \subseteq ToSet(s)
  <2>1. k \in 0..Len(s)
    BY <1>3
  <2> QED BY <1>3, <2>1, LowerPart
<1>5. ToSet(t) \cap BadBlock = {}
  <2>1. CASE k > 0
    BY <1>2, <2>1
  <2>2. CASE k = 0
    BY <1>4, <2>2
  <2> QED BY <1>2, <2>1, <2>2
<1>6. nStatus' = Connected(t) /\ log' = log \o Writes(NeedUndo(t), nStatus')
  BY <1>2
<1> HIDE DEF t
<1> QED BY <1>1, <1>3, <1>4, <1>5, <1>6, ConnectStep DEF CoreInv

LEMMA InvalidStep ==
    ASSUME CoreInv, SetBestChainInvalid
    PROVE  /\ Rewrites
           /\ \E b \in BadBlock : setBlockIndexValid' = setBlockIndexValid \ {b}
<1> DEFINE s == vConnect(Head(vAttach))
<1>1. vAttach # <<>> /\ Running /\ index' = index
  BY DEF SetBestChainInvalid, Running
<1>2. PICK k \in DOMAIN s :
        /\ s[k] \in BadBlock /\ ToSet(SubSeq(s, 1, k - 1)) \cap BadBlock = {}
        /\ InvalidBlockFound(s[k], Connected(SubSeq(s, 1, k - 1)))
        /\ log' = log \o Writes(NeedUndo(SubSeq(s, 1, k - 1)) \o <<s[k]>>, nStatus')
  BY DEF SetBestChainInvalid
<1>3. s \in Seq(Block) /\ ToSet(s) \subseteq DOMAIN nStatus
  BY <1>1, HeadBranch
<1> HIDE DEF s
<1> DEFINE t == SubSeq(s, 1, k - 1)
           x == s[k]
           u == NeedUndo(t)
           bs == u \o <<x>>
<1>4. t \in Seq(Block) /\ ToSet(t) \subseteq ToSet(s) /\ x \in DOMAIN nStatus /\ x \in BadBlock
  <2>1. k - 1 \in 0..Len(s) /\ x \in ToSet(s)
    BY <1>3 DEF ToSet
  <2>2. t \in Seq(Block) /\ ToSet(t) \subseteq ToSet(s)
    BY <1>3, <2>1, LowerPart
  <2> QED BY <1>2, <1>3, <2>1, <2>2
<1>5. /\ nStatus' = [Connected(t) EXCEPT ![x] = @ \cup {"FAILED_VALID"}]
      /\ setBlockIndexValid' = setBlockIndexValid \ {x}
      /\ log' = log \o Writes(bs, nStatus')
      /\ ToSet(t) \cap BadBlock = {}
  BY <1>2 DEF InvalidBlockFound
<1> HIDE DEF t, x
<1>6. /\ u \in Seq(DOMAIN nStatus)
      /\ Connected(t) \in [DOMAIN nStatus -> SUBSET Flags]
      /\ \A b \in DOMAIN nStatus : EntryOK(b, Connected(t)[b]) /\ nStatus[b] \subseteq Connected(t)[b]
      /\ \A b \in DOMAIN nStatus \ ToSet(u) : Connected(t)[b] = nStatus[b]
  BY <1>3, <1>4, <1>5, ConnectedFacts DEF CoreInv
<1> HIDE DEF u
<1>7. bs \in Seq(DOMAIN nStatus) /\ ToSet(u) \subseteq ToSet(bs) /\ x \in ToSet(bs)
  <2>1. <<x>> \in Seq(DOMAIN nStatus) /\ Len(<<x>>) = 1 /\ <<x>>[1] = x
    BY <1>4
  <2> DEFINE y == <<x>>
  <2> HIDE DEF y
  <2>2. Joined(u \o y, u, y, DOMAIN nStatus)
    BY <1>6, <2>1, ConcatFacts DEF y
  <2>3. Joined(bs, u, y, DOMAIN nStatus) /\ Len(y) = 1 /\ y[1] = x /\ 1 \in 1..Len(y)
    BY <2>1, <2>2 DEF y
  <2>4. DOMAIN u = 1..Len(u) /\ DOMAIN bs = 1..Len(bs)
    BY <1>6, <2>3 DEF Joined
  <2> HIDE DEF bs
  <2>5. ASSUME NEW i \in 1..Len(u) PROVE u[i] \in ToSet(bs)
    <3>1. bs[i] = u[i] /\ i \in DOMAIN bs
      BY <2>3, <2>4 DEF Joined
    <3> QED BY <3>1 DEF ToSet
  <2>6. x \in ToSet(bs)
    <3>1. bs[Len(u) + 1] = x /\ Len(u) + 1 \in DOMAIN bs
      BY <2>3, <2>4 DEF Joined
    <3> QED BY <3>1 DEF ToSet
  <2>7. ToSet(u) \subseteq ToSet(bs)
    BY <2>4, <2>5 DEF ToSet
  <2>8. bs \in Seq(DOMAIN nStatus)
    BY <2>3 DEF Joined
  <2> QED BY <2>6, <2>7, <2>8
<1> HIDE DEF bs
<1>8. \A b \in DOMAIN nStatus : nStatus'[b] = IF b = x THEN Connected(t)[x] \cup {"FAILED_VALID"}
                                             ELSE Connected(t)[b]
  BY <1>4, <1>5, <1>6
<1>9. nStatus' \in [DOMAIN nStatus -> SUBSET Flags]
  BY <1>4, <1>5, <1>6 DEF Flags
<1>10. ASSUME NEW b \in DOMAIN nStatus PROVE EntryOK(b, nStatus'[b]) /\ nStatus[b] \subseteq nStatus'[b]
  <2>1. CASE b # x
    BY <1>6, <1>8, <2>1
  <2>2. CASE b = x
    <3>1. x \in Ancestors(x) \cap BadBlock
      <4>1. x \in Block
        BY <1>6, <2>2 DEF EntryOK
      <4> QED BY <1>4, <4>1, AncestorsDef
    <3>2. nStatus'[x] = Connected(t)[x] \cup {"FAILED_VALID"}
      BY <1>4, <1>8
    <3>3. EntryOK(x, Connected(t)[x]) /\ nStatus[x] \subseteq Connected(t)[x]
      BY <1>4, <1>6
    <3>4. "UNDO" \in nStatus'[x] => x \notin BadBlock
      BY <3>2, <3>3 DEF EntryOK
    <3> QED BY <2>2, <3>1, <3>2, <3>3, <3>4 DEF EntryOK, Flags
  <2> QED BY <2>1, <2>2
<1>11. \A b \in DOMAIN nStatus \ ToSet(bs) : nStatus'[b] = nStatus[b]
  BY <1>6, <1>7, <1>8
<1>12. Rewrites
  BY <1>1, <1>5, <1>7, <1>9, <1>10, <1>11, RewriteStep DEF CoreInv
<1> QED BY <1>4, <1>5, <1>12

(* A new block enters the index, with its parent there.                    *)
Adds(b) ==
    /\ IndexOK(nStatus') /\ LogOK' /\ nStatus' = FoundIndex'
    /\ DOMAIN nStatus' = DOMAIN nStatus \cup {b}
    /\ nStatus'[b] = {}
    /\ \A c \in DOMAIN nStatus : nStatus'[c] = nStatus[c]

LEMMA AddStep ==
    ASSUME MemOK, DiskOK, Running, NEW b \in Block \ {Genesis}, b \notin DOMAIN nStatus,
           Parent[b] \in DOMAIN nStatus, AddToBlockIndex(b), index' = index
    PROVE  Adds(b)
<1> DEFINE bs == <<b>>
<1>1. /\ nStatus' = [c \in DOMAIN nStatus \cup {b} |-> IF c = b THEN {} ELSE nStatus[c]]
      /\ log' = Append(log, <<b, {}>>)
  BY DEF AddToBlockIndex
<1>2. /\ DOMAIN nStatus' = DOMAIN nStatus \cup {b} /\ nStatus'[b] = {}
      /\ \A c \in DOMAIN nStatus : nStatus'[c] = nStatus[c]
  BY <1>1
<1>3. EntryOK(b, {})
  BY DEF EntryOK, Marked
<1>4. IndexOK(nStatus')
  <2>1. \A c \in DOMAIN nStatus : EntryOK(c, nStatus[c]) /\ nStatus[c] \in SUBSET Flags
    BY DEF MemOK, IndexOK
  <2>2. nStatus' \in [DOMAIN nStatus' -> SUBSET Flags]
    BY <1>1, <2>1
  <2>3. \A c \in DOMAIN nStatus' : EntryOK(c, nStatus'[c])
    BY <1>2, <1>3, <2>1
  <2>4. Genesis \in DOMAIN nStatus' /\ \A c \in DOMAIN nStatus' \ {Genesis} : Parent[c] \in DOMAIN nStatus'
    BY <1>2 DEF MemOK, IndexOK
  <2> QED BY <2>2, <2>3, <2>4 DEF IndexOK
<1>5. bs \in Seq(DOMAIN nStatus') /\ ToSet(bs) = {b}
  BY <1>2 DEF ToSet
<1>6. log' = log \o Writes(bs, nStatus')
  <2>1. Writes(bs, nStatus') = <<<<b, {}>>>>
    BY <1>2 DEF Writes
  <2>2. log \in Seq(Block \X SUBSET Flags)
    BY DEF DiskOK, LogOK
  <2>3. <<b, {}>> \in Block \X SUBSET Flags
    OBVIOUS
  <2> DEFINE e == <<b, {}>>  X == Block \X SUBSET Flags
  <2>4. log \in Seq(X) /\ e \in X
    BY <2>2, <2>3
  <2> HIDE DEF e, X
  <2>5. Append(log, e) = log \o <<e>>
    BY <2>4, AppendIsConcat
  <2> QED BY <1>1, <2>1, <2>5 DEF e
<1> HIDE DEF bs
<1>7. IndexOK(index) /\ LogOK /\ nStatus = FoundIndex
  BY DEF DiskOK
<1>8. DOMAIN nStatus' = DOMAIN nStatus \cup ToSet(bs)
      /\ (\A c \in DOMAIN nStatus \ ToSet(bs) : nStatus'[c] = nStatus[c])
      /\ (\A c \in DOMAIN nStatus : "UNDO" \in nStatus[c] => "UNDO" \in nStatus'[c])
      /\ (\A c \in ToSet(bs) \ {Genesis} : Parent[c] \in DOMAIN nStatus)
  BY <1>2, <1>5
<1>9. LogOK' /\ nStatus' = FoundIndex'
  BY <1>4, <1>5, <1>6, <1>7, <1>8, LogGrows
<1> QED BY <1>2, <1>4, <1>9 DEF Adds

-----------------------------------------------------------------------------
(***************************************************************************)
(* CoreInv is inductive.                                                   *)
(***************************************************************************)
LEMMA PrimedIndex ==
    /\ IndexOK(nStatus') => IndexOK(nStatus)'
    /\ IndexOK(index') => IndexOK(index)'
BY DEF IndexOK, EntryOK, Ancestors, Marked, Flags

LEMMA EmptyIndex == IndexOK([b \in {Genesis} |-> {}])
<1> DEFINE d == [b \in {Genesis} |-> {}]
<1>1. DOMAIN d = {Genesis} /\ d[Genesis] = {} /\ d \in [{Genesis} -> SUBSET Flags]
  OBVIOUS
<1> HIDE DEF d
<1>2. EntryOK(Genesis, {})
  BY TreeFacts DEF EntryOK, Marked
<1>3. IndexOK(d)
  BY <1>1, <1>2 DEF IndexOK
<1> QED BY <1>3 DEF d

LEMMA CoreInit == Init => CoreInv
<1> SUFFICES ASSUME Init PROVE CoreInv
  OBVIOUS
<1> DEFINE d == [b \in {Genesis} |-> {}]
<1>1. IndexOK(d) /\ DOMAIN d = {Genesis} /\ d \in [{Genesis} -> SUBSET Flags]
  BY EmptyIndex
<1>2. Apply(d, <<>>) = d
  <2> HIDE DEF d
  <2> QED BY <1>1, ApplyNone
<1>3. nStatus = d /\ index = d
  BY DEF Init
<1> HIDE DEF d
<1>4. MemOK
  BY <1>1, <1>3, TreeFacts DEF Init, MemOK
<1>5. CtlOK
  BY <1>1, <1>3 DEF Init, CtlOK
<1>6. LogOK
  BY DEF Init, LogOK
<1>7. nStatus = FoundIndex
  BY <1>2, <1>3 DEF Init, FoundIndex
<1>8. DiskOK
  <2>1. coinsDB \in Seq(Block) /\ coinsDB # <<>>
    BY TreeFacts DEF Init
  <2>2. ~exposed /\ pc # "flush"
    BY DEF Init
  <2> QED BY <1>1, <1>3, <1>6, <1>7, <2>1, <2>2 DEF DiskOK
<1>9. DownOK
  BY DEF Init, DownOK, Running
<1> QED BY <1>4, <1>5, <1>8, <1>9 DEF CoreInv

(* The steps that write to the index.                                      *)
LEMMA RewriteCore ==
    ASSUME CoreInv, Running, Rewrites, setBlockIndexValid' \subseteq setBlockIndexValid,
           UNCHANGED <<pindexBest, coinsTip, pnext, mapOrphanBlocks, accepting, vAttach, vWorkQueue,
                       index, coinsDB, exposed>>,
           pc' \in {"connect", "sync", "commit", "failed"},
           pc' \in {"sync", "commit"} => vAttach # <<>>
    PROVE  CoreInv'
<1>1. IndexOK(nStatus') /\ LogOK' /\ nStatus' = FoundIndex' /\ DOMAIN nStatus' = DOMAIN nStatus
  BY DEF Rewrites
<1>2. MemOK'
  <2>1. IndexOK(nStatus)'
    BY <1>1, PrimedIndex
  <2> QED BY <1>1, <2>1 DEF CoreInv, MemOK
<1>3. CtlOK'
  BY <1>1 DEF CoreInv, CtlOK
<1>4. DiskOK'
  <2>1. IndexOK(index)'
    BY PrimedIndex DEF CoreInv, DiskOK
  <2> QED BY <1>1, <2>1 DEF CoreInv, DiskOK, Running
<1>5. DownOK'
  BY DEF DownOK, Running
<1> QED BY <1>2, <1>3, <1>4, <1>5 DEF CoreInv

LEMMA AddCore ==
    ASSUME CoreInv, Running, NEW b \in Block \ {Genesis}, Adds(b), b \notin mapOrphanBlocks',
           setBlockIndexValid' = setBlockIndexValid \cup {b},
           mapOrphanBlocks' \subseteq mapOrphanBlocks, accepting' = b, pc' = "connect",
           vWorkQueue' \in Seq(DOMAIN nStatus),
           UNCHANGED <<pindexBest, coinsTip, pnext, vAttach, index, coinsDB, exposed>>
    PROVE  CoreInv'
<1>1. IndexOK(nStatus') /\ LogOK' /\ nStatus' = FoundIndex' /\ DOMAIN nStatus' = DOMAIN nStatus \cup {b}
  BY DEF Adds
<1>2. MemOK'
  <2>1. IndexOK(nStatus)'
    BY <1>1, PrimedIndex
  <2> QED BY <1>1, <2>1 DEF CoreInv, MemOK
<1>3. CtlOK'
  <2> DEFINE D == DOMAIN nStatus  E == DOMAIN nStatus'
  <2>1. D \subseteq E /\ vAttach \in Seq(D) /\ vWorkQueue' \in Seq(D)
    BY <1>1 DEF CoreInv, CtlOK
  <2> HIDE DEF D, E
  <2>2. vAttach \in Seq(E) /\ vWorkQueue' \in Seq(E)
    BY <2>1, SeqMonotonic
  <2> QED BY <1>1, <2>2 DEF CtlOK, E
<1>4. DiskOK'
  <2>1. IndexOK(index)'
    BY PrimedIndex DEF CoreInv, DiskOK
  <2> QED BY <1>1, <2>1 DEF CoreInv, DiskOK, Running
<1>5. DownOK'
  BY DEF DownOK, Running
<1> QED BY <1>2, <1>3, <1>4, <1>5 DEF CoreInv

(* The steps that leave the index and the databases alone.                 *)
LEMMA LogKept ==
    ASSUME LogOK, UNCHANGED <<index, log>>
    PROVE  LogOK'
BY DEF LogOK, EntryOK, Ancestors, Marked, Flags

LEMMA ControlCore ==
    ASSUME CoreInv, Running, UNCHANGED <<nStatus, setBlockIndexValid, index, log, coinsDB, exposed>>,
           pindexBest' \in DOMAIN nStatus, coinsTip' \in DOMAIN nStatus,
           pnext' \in [Block -> Block \cup {None}],
           mapOrphanBlocks' \subseteq Block \ DOMAIN nStatus,
           accepting' \in DOMAIN nStatus \cup {None},
           vAttach' \in Seq(DOMAIN nStatus), vWorkQueue' \in Seq(DOMAIN nStatus),
           pc' \in {"idle", "connect", "switch", "failed", "drain"}
    PROVE  CoreInv'
<1>1. MemOK'
  <2>1. IndexOK(nStatus)'
    BY PrimedIndex DEF CoreInv, MemOK
  <2> QED BY <2>1 DEF CoreInv, MemOK
<1>2. CtlOK'
  BY DEF CtlOK
<1>3. DiskOK'
  <2>1. IndexOK(index)'
    BY PrimedIndex DEF CoreInv, DiskOK
  <2>2. LogOK'
    BY LogKept DEF CoreInv, DiskOK
  <2>3. FoundIndex' = FoundIndex
    BY DEF FoundIndex
  <2> QED BY <2>1, <2>2, <2>3 DEF CoreInv, DiskOK, Running
<1>4. DownOK'
  BY DEF DownOK, Running
<1> QED BY <1>1, <1>2, <1>3, <1>4 DEF CoreInv

LEMMA NothingLogged ==
    ASSUME IndexOK(index'), log' = <<>>
    PROVE  LogOK' /\ FoundIndex' = index'
<1>1. LogOK'
  BY DEF LogOK
<1>2. index' \in [DOMAIN index' -> SUBSET Flags]
  BY DEF IndexOK
<1>3. Apply(index', <<>>) = index'
  BY <1>2, ApplyNone
<1> QED BY <1>1, <1>3 DEF FoundIndex

LEMMA SyncCore ==
    ASSUME CoreInv, SyncIndex
    PROVE  CoreInv' /\ index' = nStatus
<1>0. Running /\ IndexOK(index) /\ LogOK /\ nStatus = FoundIndex
  BY DEF SyncIndex, Running, CoreInv, DiskOK
<1>1. index' = nStatus /\ log' = <<>> /\ nStatus' = nStatus
  BY <1>0 DEF SyncIndex, FoundIndex, mem
<1>2. IndexOK(index')
  BY <1>1 DEF CoreInv, MemOK
<1>3. LogOK' /\ FoundIndex' = index'
  BY <1>1, <1>2, NothingLogged
<1>4. MemOK'
  <2>1. IndexOK(nStatus)'
    BY <1>1, PrimedIndex DEF CoreInv, MemOK
  <2> QED BY <2>1 DEF CoreInv, MemOK, SyncIndex, mem
<1>5. CtlOK'
  BY <1>1 DEF CoreInv, CtlOK, SyncIndex
<1>6. DiskOK'
  <2>1. IndexOK(index)'
    BY <1>2, PrimedIndex
  <2>2. UNCHANGED <<coinsDB, exposed>>
    BY DEF SyncIndex, hist
  <2> QED BY <1>0, <1>1, <1>3, <2>1, <2>2 DEF CoreInv, DiskOK, Running
<1>7. DownOK'
  BY DEF DownOK, Running, SyncIndex
<1> QED BY <1>1, <1>4, <1>5, <1>6, <1>7 DEF CoreInv

LEMMA FlushCoinsCore ==
    ASSUME CoreInv, FlushCoins
    PROVE  CoreInv'
<1>1. Running /\ vAttach # <<>>
  BY DEF FlushCoins, Running, CoreInv, CtlOK
<1>2. Head(vAttach) \in Block
  BY <1>1, HeadBranch
<1>3. UNCHANGED <<nStatus, setBlockIndexValid, pindexBest, coinsTip, pnext, mapOrphanBlocks,
                  accepting, vAttach, vWorkQueue, index, log, exposed>>
      /\ pc' = "commit" /\ coinsDB' = Append(coinsDB, Head(vAttach))
  BY DEF FlushCoins, mem, hist
<1>4. MemOK'
  <2>1. IndexOK(nStatus)'
    BY <1>3, PrimedIndex DEF CoreInv, MemOK
  <2> QED BY <1>3, <2>1 DEF CoreInv, MemOK
<1>5. CtlOK'
  BY <1>1, <1>3 DEF CoreInv, CtlOK
<1>6. DiskOK'
  <2>1. IndexOK(index)'
    BY <1>3, PrimedIndex DEF CoreInv, DiskOK
  <2>2. LogOK'
    BY <1>3, LogKept DEF CoreInv, DiskOK
  <2>3. FoundIndex' = FoundIndex
    BY <1>3 DEF FoundIndex
  <2>4. coinsDB' \in Seq(Block) /\ coinsDB' # <<>>
    BY <1>2, <1>3 DEF CoreInv, DiskOK
  <2> QED BY <1>1, <1>3, <2>1, <2>2, <2>3, <2>4 DEF CoreInv, DiskOK
<1>7. DownOK'
  BY <1>3 DEF DownOK, Running
<1> QED BY <1>4, <1>5, <1>6, <1>7 DEF CoreInv

(* The process ends, one way or the other.                                 *)
LEMMA DownCore ==
    ASSUME Down, IndexOK(index'), LogOK', coinsDB' \in Seq(Block), coinsDB' # <<>>
    PROVE  CoreInv'
<1>1. pc' = "down" /\ nStatus' = [b \in {Genesis} |-> {}]
  BY DEF Down
<1>2. IndexOK(nStatus') /\ DOMAIN nStatus' = {Genesis}
  BY <1>1, EmptyIndex
<1>3. MemOK'
  <2>1. IndexOK(nStatus)'
    BY <1>2, PrimedIndex
  <2>2. pnext' = [b \in Block |-> None]
    BY DEF Down
  <2> QED BY <1>2, <2>1, <2>2 DEF MemOK, Down
<1>4. CtlOK'
  BY <1>2 DEF CtlOK, Down
<1>5. DiskOK'
  <2>1. IndexOK(index)'
    BY PrimedIndex
  <2> QED BY <1>1, <2>1 DEF DiskOK, Running
<1>6. DownOK'
  BY DEF DownOK, Down
<1> QED BY <1>3, <1>4, <1>5, <1>6 DEF CoreInv

LEMMA CrashCore ==
    ASSUME CoreInv, StartupFailed \/ Shutdown \/ Crash \/ PowerLoss
    PROVE  CoreInv'
<1>0. /\ IndexOK(index) /\ LogOK /\ coinsDB \in Seq(Block) /\ coinsDB # <<>>
      /\ coinsTip \in Block /\ Down
  BY DEF CoreInv, DiskOK, MemOK, IndexOK, EntryOK, StartupFailed, Shutdown, Crash, PowerLoss
<1>1. CASE UNCHANGED <<index, log>> /\ coinsDB' \in Seq(Block) /\ coinsDB' # <<>>
  <2>1. LogOK'
    BY <1>0, <1>1, LogKept
  <2> QED BY <1>0, <1>1, <2>1, DownCore
<1>2. CASE StartupFailed \/ Crash
  BY <1>0, <1>1, <1>2 DEF StartupFailed, Crash, disk
<1>3. CASE Shutdown
  <2>1. UNCHANGED <<index, log>> /\ (coinsDB' = coinsDB \/ coinsDB' = Append(coinsDB, coinsTip))
    BY <1>3 DEF Shutdown
  <2>2. coinsDB' \in Seq(Block) /\ coinsDB' # <<>>
    BY <1>0, <2>1
  <2> QED BY <1>1, <2>1, <2>2
<1>4. CASE PowerLoss
  <2>1. PICK n \in 0..Len(log) : index' = Apply(index, SubSeq(log, 1, n))
    BY <1>4 DEF PowerLoss
  <2>2. IndexOK(index')
    BY <1>0, <2>1, PrefixOK
  <2>3. LogOK'
    BY <1>4, <2>2, NothingLogged DEF PowerLoss
  <2>4. coinsDB' \in Seq(Block) /\ coinsDB' # <<>>
    BY <1>0, <1>4 DEF PowerLoss
  <2> QED BY <1>0, <2>2, <2>3, <2>4, DownCore
<1> QED BY <1>2, <1>3, <1>4

LEMMA LoadFacts ==
    ASSUME CoreInv, LoadBlockIndexDB
    PROVE  /\ IndexOK(FoundIndex) /\ FoundTip \in Block /\ Ancestors(FoundTip) \subseteq DOMAIN FoundIndex
           /\ \A b \in DOMAIN index : "UNDO" \in index[b] => b \in DOMAIN FoundIndex
                                                              /\ "UNDO" \in FoundIndex[b]
<1>1. IndexOK(index) /\ LogOK
  BY DEF CoreInv, DiskOK
<1>2. /\ IndexOK(FoundIndex)
      /\ \A b \in DOMAIN index : "UNDO" \in index[b] => b \in DOMAIN FoundIndex
                                                         /\ "UNDO" \in FoundIndex[b]
  BY <1>1, FoundOK
<1>3. FoundTip \in DOMAIN FoundIndex
  BY DEF LoadBlockIndexDB
<1> QED BY <1>2, <1>3, ChainsIndexed

LEMMA LoadCore ==
    ASSUME CoreInv, LoadBlockIndexDB
    PROVE  CoreInv'
<1>0. DownOK /\ ~Running
  BY DEF CoreInv, LoadBlockIndexDB, Running
<1>1. IndexOK(FoundIndex) /\ FoundTip \in Block /\ FoundTip \in DOMAIN FoundIndex
      /\ Ancestors(FoundTip) \subseteq Block
  BY LoadFacts, AncestorsDef DEF LoadBlockIndexDB
<1>2. /\ nStatus' = FoundIndex /\ index' = FoundIndex /\ log' = <<>> /\ coinsDB' = <<FoundTip>>
      /\ setBlockIndexValid' \subseteq DOMAIN FoundIndex
      /\ pindexBest' = FoundTip /\ coinsTip' = FoundTip
      /\ pc' = "connect" /\ exposed' = FALSE
      /\ mapOrphanBlocks' = {} /\ accepting' = None /\ vAttach' = <<>> /\ vWorkQueue' = <<>>
  BY <1>0 DEF LoadBlockIndexDB, DownOK
<1>3. pnext' \in [Block -> Block \cup {None}]
  <2> DEFINE A == Ancestors(FoundTip) \ {Genesis}
             N(d) == IF \E c \in A : Parent[c] = d THEN CHOOSE c \in A : Parent[c] = d ELSE None
  <2>1. \A d \in Block : N(d) \in Block \cup {None}
    BY <1>1
  <2>2. pnext' = [d \in Block |-> N(d)]
    BY DEF LoadBlockIndexDB
  <2> HIDE DEF N
  <2> QED BY <2>1, <2>2
<1>4. IndexOK(nStatus)' /\ IndexOK(index)'
  <2>1. IndexOK(nStatus') /\ IndexOK(index')
    BY <1>1, <1>2
  <2> QED BY <2>1, PrimedIndex
<1>5. MemOK'
  BY <1>1, <1>2, <1>3, <1>4 DEF MemOK
<1>6. CtlOK'
  BY <1>2 DEF CtlOK
<1>7. DiskOK'
  <2>1. LogOK' /\ FoundIndex' = index'
    BY <1>1, <1>2, NothingLogged
  <2>2. coinsDB' \in Seq(Block) /\ coinsDB' # <<>>
    BY <1>1, <1>2
  <2> QED BY <1>2, <1>4, <2>1, <2>2 DEF DiskOK
<1>8. DownOK'
  BY <1>2 DEF DownOK, Running
<1> QED BY <1>5, <1>6, <1>7, <1>8 DEF CoreInv

LEMMA ReindexCore ==
    ASSUME CoreInv, Reindex
    PROVE  CoreInv'
<1> DEFINE d == [b \in {Genesis} |-> {}]
<1>0. DownOK /\ ~Running
  BY DEF CoreInv, Reindex, Running
<1>1. /\ index' = d /\ log' = <<>> /\ coinsDB' = <<Genesis>> /\ pc' = "idle" /\ exposed' = FALSE
      /\ UNCHANGED <<nStatus, setBlockIndexValid, pindexBest, coinsTip, pnext, mapOrphanBlocks,
                     accepting, vAttach, vWorkQueue>>
  BY DEF Reindex, mem
<1>2. nStatus = d /\ IndexOK(d) /\ DOMAIN d = {Genesis}
  BY <1>0, EmptyIndex DEF DownOK
<1> HIDE DEF d
<1>3. IndexOK(nStatus)' /\ IndexOK(index)'
  BY <1>1, <1>2, PrimedIndex
<1>4. MemOK'
  BY <1>1, <1>3 DEF CoreInv, MemOK
<1>5. CtlOK'
  BY <1>1 DEF CoreInv, CtlOK
<1>6. DiskOK'
  <2>1. LogOK' /\ FoundIndex' = index'
    BY <1>1, <1>2, NothingLogged
  <2>2. coinsDB' \in Seq(Block) /\ coinsDB' # <<>>
    BY <1>1, TreeFacts
  <2> QED BY <1>1, <1>2, <1>3, <2>1, <2>2 DEF DiskOK
<1>7. DownOK'
  BY <1>1 DEF DownOK, Running
<1> QED BY <1>4, <1>5, <1>6, <1>7 DEF CoreInv

LEMMA IdleCore ==
    ASSUME CoreInv, LoadWithoutTip \/ UNCHANGED vars
    PROVE  CoreInv'
<1>1. /\ UNCHANGED <<nStatus, setBlockIndexValid, pindexBest, coinsTip, pnext, mapOrphanBlocks,
                     accepting, vAttach, vWorkQueue, index, log, coinsDB, exposed>>
      /\ pc' = pc \/ (pc = "down" /\ pc' = "lost")
  BY DEF LoadWithoutTip, vars, mem, ctl, disk, hist
<1>2. IndexOK(nStatus)' /\ IndexOK(index)'
  BY <1>1, PrimedIndex DEF CoreInv, MemOK, DiskOK
<1>3. MemOK'
  BY <1>1, <1>2 DEF CoreInv, MemOK
<1>4. CtlOK'
  BY <1>1 DEF CoreInv, CtlOK
<1>5. DiskOK'
  <2>1. LogOK'
    BY <1>1, LogKept DEF CoreInv, DiskOK
  <2>2. FoundIndex' = FoundIndex
    BY <1>1 DEF FoundIndex
  <2> QED BY <1>1, <1>2, <2>1, <2>2 DEF CoreInv, DiskOK, Running
<1>6. DownOK'
  BY <1>1 DEF CoreInv, DownOK, Running
<1> QED BY <1>3, <1>4, <1>5, <1>6 DEF CoreInv

LEMMA PointersType ==
    ASSUME CoreInv, vAttach # <<>>
    PROVE  NextPointers(Head(vAttach)) \in [Block -> Block \cup {None}]
<1> DEFINE b == Head(vAttach)  C == ToSet(vConnect(b))  E == ToSet(vDisconnect(b))
           P(d) == IF \E c \in C : c # Genesis /\ Parent[c] = d
                   THEN CHOOSE c \in C : c # Genesis /\ Parent[c] = d
                   ELSE IF \E c \in E : Parent[c] = d THEN None ELSE pnext[d]
<1>1. C \subseteq Block
  BY HeadBranch, AncestorsDef
<1>2. NextPointers(b) = [d \in Block |-> P(d)]
  BY DEF NextPointers
<1>3. ASSUME NEW d \in Block PROVE P(d) \in Block \cup {None}
  <2>1. pnext[d] \in Block \cup {None}
    BY DEF CoreInv, MemOK
  <2> HIDE DEF C, E
  <2> QED BY <1>1, <2>1
<1> HIDE DEF P, b
<1>4. NextPointers(b) \in [Block -> Block \cup {None}]
  BY <1>2, <1>3
<1> QED BY <1>4 DEF b

LEMMA ProcessStep ==
    ASSUME CoreInv, NEW b \in Block \ {Genesis}, ProcessBlock(b)
    PROVE  Adds(b)
<1>1. Running /\ b \notin DOMAIN nStatus /\ Parent[b] \in DOMAIN nStatus /\ AddToBlockIndex(b)
      /\ index' = index
  BY DEF ProcessBlock, AcceptBlock, Running
<1> QED BY <1>1, AddStep DEF CoreInv

LEMMA OrphanStep ==
    ASSUME CoreInv, NEW b \in Block \ {Genesis}, AcceptOrphanBlock(b)
    PROVE  /\ vWorkQueue # <<>> /\ Parent[b] = Head(vWorkQueue) /\ Parent[b] \in DOMAIN nStatus
           /\ b \in mapOrphanBlocks /\ b \notin DOMAIN nStatus
           /\ AddToBlockIndex(b) => Adds(b)
<1>1. vWorkQueue # <<>> /\ b \in mapOrphanBlocks /\ Parent[b] = Head(vWorkQueue) /\ Running
      /\ index' = index
  BY DEF AcceptOrphanBlock, WaitingForHead, Running
<1>2. Parent[b] \in DOMAIN nStatus
  <2>1. vWorkQueue \in Seq(DOMAIN nStatus)
    BY DEF CoreInv, CtlOK
  <2> QED BY <1>1, <2>1
<1>3. b \notin DOMAIN nStatus
  BY <1>1 DEF CoreInv, MemOK
<1>4. AddToBlockIndex(b) => Adds(b)
  BY <1>1, <1>2, <1>3, AddStep DEF CoreInv
<1> QED BY <1>1, <1>2, <1>3, <1>4

LEMMA CoreNext == CoreInv /\ [Next]_vars => CoreInv'
<1> SUFFICES ASSUME CoreInv, [Next]_vars PROVE CoreInv'
  OBVIOUS
<1>0. /\ pindexBest \in DOMAIN nStatus /\ coinsTip \in DOMAIN nStatus
      /\ pnext \in [Block -> Block \cup {None}]
      /\ mapOrphanBlocks \subseteq Block \ DOMAIN nStatus
      /\ accepting \in DOMAIN nStatus \cup {None}
      /\ vAttach \in Seq(DOMAIN nStatus) /\ vWorkQueue \in Seq(DOMAIN nStatus)
  BY DEF CoreInv, MemOK, CtlOK
<1>1. CASE ConnectBestBlock
  <2>1. CASE Marks
    BY <1>1, <2>1, RewriteCore DEF Marks, ConnectBestBlock, Running, hist
  <2>2. CASE Chooses
    BY <1>0, <1>1, <2>2, ControlCore DEF Chooses, ConnectBestBlock, Running, mem, hist
  <2> QED BY <1>1, <2>1, <2>2, ConnectBestBlockStep
<1>2. CASE SetBestChainStuck
  BY <1>0, <1>2, ControlCore DEF SetBestChainStuck, Running, mem, disk, hist
<1>3. CASE SetBestChainInvalid
  <2>1. Rewrites /\ setBlockIndexValid' \subseteq setBlockIndexValid
    BY <1>3, InvalidStep
  <2> QED BY <1>3, <2>1, RewriteCore DEF SetBestChainInvalid, Running, hist
<1>4. CASE SetBestChainAbort
  <2>1. Rewrites
    BY <1>4, AbortStep
  <2> QED BY <1>4, <2>1, RewriteCore DEF SetBestChainAbort, Running, hist
<1>5. ASSUME NEW fFlush \in BOOLEAN, SetBestChainConnect(fFlush) PROVE CoreInv'
  <2>1. Rewrites
    BY <1>5, ConnectAllStep
  <2> QED BY <1>5, <2>1, RewriteCore DEF SetBestChainConnect, Running, hist
<1>6. CASE SyncIndex
  BY <1>6, SyncCore
<1>7. CASE FlushAbort
  <2>1. Running /\ vAttach # <<>>
    BY <1>7 DEF FlushAbort, Running, CoreInv, CtlOK
  <2>2. Head(vAttach) \in DOMAIN nStatus
    BY <1>0, <2>1
  <2> QED BY <1>0, <1>7, <2>1, <2>2, ControlCore DEF FlushAbort, disk, hist
<1>8. CASE FlushCoins
  BY <1>8, FlushCoinsCore
<1>9. CASE SetBestChainCommit
  <2>1. Running /\ vAttach # <<>>
    BY <1>9 DEF SetBestChainCommit, Running, CoreInv, CtlOK
  <2>2. Head(vAttach) \in DOMAIN nStatus /\ Tail(vAttach) \in Seq(DOMAIN nStatus)
    BY <1>0, <2>1
  <2>3. pnext' \in [Block -> Block \cup {None}]
    BY <1>9, <2>1, PointersType DEF SetBestChainCommit
  <2> QED BY <1>0, <1>9, <2>1, <2>2, <2>3, ControlCore DEF SetBestChainCommit, disk, hist
<1>10. CASE ConnectBestBlockDone
  <2>1. vWorkQueue' \in Seq(DOMAIN nStatus)
    <3>1. vWorkQueue' = IF accepting = None THEN <<>> ELSE Append(vWorkQueue, accepting)
      BY <1>10 DEF ConnectBestBlockDone
    <3>2. CASE accepting = None
      BY <3>1, <3>2
    <3>3. CASE accepting # None
      <4>1. accepting \in DOMAIN nStatus /\ vWorkQueue' = Append(vWorkQueue, accepting)
        BY <1>0, <3>1, <3>3
      <4> QED BY <1>0, <4>1
    <3> QED BY <3>2, <3>3
  <2> QED BY <1>0, <1>10, <2>1, ControlCore DEF ConnectBestBlockDone, Running, mem, disk
<1>11. CASE ConnectBestBlockFailed
  <2>1. vAttach' \in Seq(DOMAIN nStatus)
    BY <1>11 DEF ConnectBestBlockFailed
  <2> QED BY <1>0, <1>11, <2>1, ControlCore DEF ConnectBestBlockFailed, Running, mem, disk
<1>12. CASE StartupFailed \/ Shutdown \/ Crash \/ PowerLoss
  BY <1>12, CrashCore
<1>13. ASSUME NEW b \in Block \ {Genesis}, AcceptOrphanBlock(b) PROVE CoreInv'
  <2>1. /\ Running /\ mapOrphanBlocks' = mapOrphanBlocks \ {b}
        /\ UNCHANGED <<pindexBest, coinsTip, pnext, vAttach, vWorkQueue, index, coinsDB, exposed>>
    BY <1>13 DEF AcceptOrphanBlock, Running, hist
  <2>2. CASE AddToBlockIndex(b)
    <3>1. Adds(b)
      BY <1>13, <2>2, OrphanStep
    <3> QED BY <1>0, <2>1, <2>2, <3>1, AddCore DEF AddToBlockIndex
  <2>3. CASE UNCHANGED <<nStatus, setBlockIndexValid, log, accepting, pc>>
    BY <1>0, <1>13, <2>1, <2>3, ControlCore DEF AcceptOrphanBlock
  <2> QED BY <1>13, <2>2, <2>3 DEF AcceptOrphanBlock, AcceptBlock
<1>14. CASE NextInQueue
  <2>1. vWorkQueue' \in Seq(DOMAIN nStatus)
    <3>1. vWorkQueue' = <<>> \/ (vWorkQueue # <<>> /\ vWorkQueue' = Tail(vWorkQueue))
      BY <1>14 DEF NextInQueue
    <3>2. CASE vWorkQueue' = <<>>
      BY <3>2
    <3>3. CASE vWorkQueue # <<>> /\ vWorkQueue' = Tail(vWorkQueue)
      <4>1. Tail(vWorkQueue) \in Seq(DOMAIN nStatus)
        BY <1>0, <3>3
      <4> QED BY <3>3, <4>1
    <3> QED BY <3>1, <3>2, <3>3
  <2> QED BY <1>0, <1>14, <2>1, ControlCore DEF NextInQueue, Running, mem, disk, hist
<1>15. ASSUME NEW b \in Block \ {Genesis}, ProcessBlock(b) PROVE CoreInv'
  <2>1. Adds(b)
    BY <1>15, ProcessStep
  <2>2. vWorkQueue' \in Seq(DOMAIN nStatus)
    BY <1>15 DEF ProcessBlock
  <2> QED BY <1>15, <2>1, <2>2, AddCore DEF ProcessBlock, AcceptBlock, AddToBlockIndex, Running, hist
<1>16. ASSUME NEW b \in Block \ {Genesis}, ProcessOrphanBlock(b) PROVE CoreInv'
  BY <1>0, <1>16, ControlCore DEF ProcessOrphanBlock, Running, ctl, disk, hist
<1>17. CASE LoadBlockIndexDB
  BY <1>17, LoadCore
<1>18. CASE Reindex
  BY <1>18, ReindexCore
<1>19. CASE LoadWithoutTip \/ UNCHANGED vars
  BY <1>19, IdleCore
<1> QED BY <1>1, <1>2, <1>3, <1>4, <1>5, <1>6, <1>7, <1>8, <1>9, <1>10, <1>11, <1>12, <1>13, <1>14,
           <1>15, <1>16, <1>17, <1>18, <1>19 DEF Next, Step

(* The fundamental invariant, for every tree of blocks: what the node      *)
(* holds in memory is what the index database would give back, and every   *)
(* entry in it, durable or in flight, is justified.                        *)
THEOREM CoreHolds == Spec => []CoreInv
<1>1. Init => CoreInv
  BY CoreInit
<1>2. CoreInv /\ [Next]_vars => CoreInv'
  BY CoreNext
<1> QED BY <1>1, <1>2, PTL DEF Spec

(* Type correctness; candidates and tips are indexed, orphans are not.     *)
THEOREM TypeCorrect == Spec => []TypeOK
<1>1. CoreInv => TypeOK
  BY DEF CoreInv, MemOK, CtlOK, IndexOK, EntryOK, TypeOK
<1> QED BY <1>1, CoreHolds, PTL

(* A failed mark, in memory or in the database, is deserved: the block or  *)
(* an ancestor of it is invalid - whatever failures, crashes and restarts  *)
(* came in between.                                                        *)
THEOREM MarksAreDeserved == Spec => []ValidNeverFailed
<1>1. CoreInv => ValidNeverFailed
  <2> SUFFICES ASSUME CoreInv PROVE ValidNeverFailed
    OBVIOUS
  <2>1. IndexOK(nStatus) /\ IndexOK(FoundIndex)
    BY FoundOK DEF CoreInv, MemOK, DiskOK
  <2> QED BY <2>1 DEF ValidNeverFailed, IndexOK, EntryOK, Marked, Failed
<1> QED BY <1>1, CoreHolds, PTL

(***************************************************************************)
(* The coins and the tip.                                                  *)
(***************************************************************************)
LEMMA CoinsNext == CoreInv /\ CoinsInv /\ [Next]_vars => CoinsInv'
<1> SUFFICES ASSUME CoreInv, CoinsInv, [Next]_vars PROVE CoinsInv'
  OBVIOUS
<1>1. CASE UNCHANGED <<coinsTip, pindexBest>> /\ (fRequestShutdown => fRequestShutdown')
  BY <1>1 DEF CoinsInv
<1>2. CASE ConnectBestBlock
  BY <1>1, <1>2, ConnectBestBlockStep DEF Marks, Chooses, mem
<1>3. CASE SetBestChainStuck \/ SetBestChainInvalid \/ SetBestChainAbort
  BY <1>1, <1>3 DEF SetBestChainStuck, SetBestChainInvalid, SetBestChainAbort, mem
<1>4. ASSUME NEW fFlush \in BOOLEAN, SetBestChainConnect(fFlush) PROVE CoinsInv'
  BY <1>1, <1>4 DEF SetBestChainConnect
<1>5. CASE SyncIndex \/ FlushCoins \/ ConnectBestBlockDone \/ ConnectBestBlockFailed \/ NextInQueue
           \/ LoadWithoutTip \/ Reindex \/ UNCHANGED vars
  BY <1>1, <1>5 DEF SyncIndex, FlushCoins, ConnectBestBlockDone, ConnectBestBlockFailed, NextInQueue,
                    LoadWithoutTip, Reindex, vars, mem
<1>6. CASE FlushAbort
  BY <1>6 DEF FlushAbort, CoinsInv
<1>7. CASE SetBestChainCommit
  BY <1>7 DEF SetBestChainCommit, CoinsInv
<1>8. CASE StartupFailed \/ Shutdown \/ Crash \/ PowerLoss
  BY <1>8 DEF StartupFailed, Shutdown, Crash, PowerLoss, Down, CoinsInv
<1>9. ASSUME NEW b \in Block \ {Genesis}, AcceptOrphanBlock(b) \/ ProcessBlock(b) \/ ProcessOrphanBlock(b)
      PROVE  CoinsInv'
  BY <1>1, <1>9 DEF AcceptOrphanBlock, ProcessBlock, ProcessOrphanBlock
<1>10. CASE LoadBlockIndexDB
  BY <1>10 DEF LoadBlockIndexDB, CoinsInv
<1> QED BY <1>2, <1>3, <1>4, <1>5, <1>6, <1>7, <1>8, <1>9, <1>10 DEF Next, Step

(* Between calls the coins are those of the tip, unless a flush failed and *)
(* the node is shutting down.                                              *)
THEOREM CoinsFollowTip == Spec => []CoinsAtTip
<1>1. Init => CoinsInv
  BY DEF Init, CoinsInv
<1>2. CoreInv /\ CoinsInv /\ [Next]_vars => CoinsInv'
  BY CoinsNext
<1>3. CoinsInv => CoinsAtTip
  BY DEF CoinsInv, CoinsAtTip
<1> QED BY <1>1, <1>2, <1>3, CoreHolds, PTL DEF Spec

LEMMA UndoKept ==
    ASSUME NEW b, NEW d, NEW e, HasUndo(b, d),
           \A a \in DOMAIN d : "UNDO" \in d[a] => a \in DOMAIN e /\ "UNDO" \in e[a]
    PROVE  HasUndo(b, e)
BY DEF HasUndo

LEMMA PrimedUndo ==
    /\ HasUndo(pindexBest', nStatus') => HasUndo(pindexBest, nStatus)'
    /\ HasUndo(coinsTip', nStatus') => HasUndo(coinsTip, nStatus)'
    /\ HasUndo(Head(vAttach'), nStatus') => HasUndo(Head(vAttach), nStatus)'
BY DEF HasUndo, Ancestors

(* A step that takes no undo data back.                                    *)
KeepsUndo == \A a \in DOMAIN nStatus : "UNDO" \in nStatus[a] => a \in DOMAIN nStatus' /\ "UNDO" \in nStatus'[a]

LEMMA TipKept ==
    ASSUME TipInv, KeepsUndo, pindexBest' = pindexBest, coinsTip' = coinsTip,
           pc' \in {"sync", "flush", "commit"} => HasUndo(Head(vAttach'), nStatus')
    PROVE  TipInv'
<1>1. HasUndo(pindexBest', nStatus') /\ HasUndo(coinsTip', nStatus')
  BY UndoKept DEF TipInv, KeepsUndo
<1> QED BY <1>1, PrimedUndo DEF TipInv

LEMMA GenesisUndo == \A d : HasUndo(Genesis, d)
BY AncestorsStep DEF HasUndo

LEMMA TipNext == CoreInv /\ TipInv /\ [Next]_vars => TipInv'
<1> SUFFICES ASSUME CoreInv, TipInv, [Next]_vars PROVE TipInv'
  OBVIOUS
<1>1. Rewrites \/ nStatus' = nStatus => KeepsUndo
  BY DEF Rewrites, KeepsUndo
<1>2. \A b : Adds(b) => KeepsUndo
  BY DEF Adds, KeepsUndo
<1>3. CASE ConnectBestBlock
  BY <1>1, <1>3, ConnectBestBlockStep, TipKept DEF Marks, Chooses, mem, ConnectBestBlock
<1>4. CASE SetBestChainStuck
  BY <1>1, <1>4, TipKept DEF SetBestChainStuck, mem
<1>5. CASE SetBestChainInvalid \/ SetBestChainAbort
  <2>1. Rewrites
    BY <1>5, InvalidStep, AbortStep
  <2> QED BY <1>1, <1>5, <2>1, TipKept DEF SetBestChainInvalid, SetBestChainAbort
<1>6. ASSUME NEW fFlush \in BOOLEAN, SetBestChainConnect(fFlush) PROVE TipInv'
  <2>1. /\ Rewrites
        /\ \A b \in Ancestors(Head(vAttach)) \ Ancestors(coinsTip) : b # Genesis => "UNDO" \in nStatus'[b]
    BY <1>6, ConnectAllStep
  <2>2. UNCHANGED <<pindexBest, coinsTip, vAttach>> /\ vAttach # <<>>
    BY <1>6 DEF SetBestChainConnect
  <2>3. Ancestors(Head(vAttach)) \subseteq DOMAIN nStatus'
    BY <2>1, <2>2, HeadBranch DEF Rewrites
  <2>4. HasUndo(coinsTip, nStatus')
    BY <1>1, <2>1, UndoKept DEF TipInv, KeepsUndo
  <2>5. HasUndo(Head(vAttach), nStatus')
    BY <2>1, <2>3, <2>4 DEF HasUndo
  <2> QED BY <1>1, <2>1, <2>2, <2>5, TipKept
<1>7. CASE SyncIndex \/ FlushCoins
  <2>1. UNCHANGED <<nStatus, pindexBest, coinsTip, vAttach>> /\ pc \in {"sync", "flush"}
    BY <1>7 DEF SyncIndex, FlushCoins, mem
  <2>2. HasUndo(Head(vAttach'), nStatus')
    BY <2>1 DEF TipInv
  <2> QED BY <1>1, <2>1, <2>2, TipKept
<1>8. CASE FlushAbort
  <2>1. HasUndo(Head(vAttach), nStatus) /\ HasUndo(pindexBest, nStatus)
    BY <1>8 DEF FlushAbort, TipInv
  <2>2. UNCHANGED <<nStatus, pindexBest>> /\ coinsTip' = Head(vAttach) /\ pc' = "failed"
    BY <1>8 DEF FlushAbort
  <2> QED BY <2>1, <2>2, PrimedUndo DEF TipInv
<1>9. CASE SetBestChainCommit
  <2>1. HasUndo(Head(vAttach), nStatus)
    BY <1>9 DEF SetBestChainCommit, TipInv
  <2>2. nStatus' = nStatus /\ pindexBest' = Head(vAttach) /\ coinsTip' = Head(vAttach) /\ pc' = "switch"
    BY <1>9 DEF SetBestChainCommit
  <2> QED BY <2>1, <2>2, PrimedUndo DEF TipInv
<1>10. CASE ConnectBestBlockDone \/ ConnectBestBlockFailed \/ NextInQueue \/ LoadWithoutTip \/ Reindex
  BY <1>1, <1>10, TipKept DEF ConnectBestBlockDone, ConnectBestBlockFailed, NextInQueue,
                              LoadWithoutTip, Reindex, mem
<1>11. CASE StartupFailed \/ Shutdown \/ Crash \/ PowerLoss
  <2>1. pindexBest' = Genesis /\ coinsTip' = Genesis /\ pc' = "down"
    BY <1>11 DEF StartupFailed, Shutdown, Crash, PowerLoss, Down
  <2> QED BY <2>1, GenesisUndo, PrimedUndo DEF TipInv
<1>12. ASSUME NEW b \in Block \ {Genesis}, AcceptOrphanBlock(b) PROVE TipInv'
  <2>1. KeepsUndo /\ pc' \in {"connect", "drain"}
    BY <1>1, <1>2, <1>12, OrphanStep DEF AcceptOrphanBlock, AcceptBlock, AddToBlockIndex
  <2> QED BY <1>12, <2>1, TipKept DEF AcceptOrphanBlock
<1>13. ASSUME NEW b \in Block \ {Genesis}, ProcessBlock(b) PROVE TipInv'
  <2>1. KeepsUndo /\ pc' = "connect"
    BY <1>2, <1>13, ProcessStep DEF ProcessBlock, AcceptBlock, AddToBlockIndex
  <2> QED BY <1>13, <2>1, TipKept DEF ProcessBlock
<1>14. ASSUME NEW b \in Block \ {Genesis}, ProcessOrphanBlock(b) PROVE TipInv'
  BY <1>1, <1>14, TipKept DEF ProcessOrphanBlock, ctl
<1>15. CASE LoadBlockIndexDB
  <2>1. nStatus' = FoundIndex /\ pindexBest' = FoundTip /\ coinsTip' = FoundTip /\ pc' = "connect"
    BY <1>15 DEF LoadBlockIndexDB
  <2>2. HasUndo(FoundTip, FoundIndex)
    BY <1>15, LoadFacts DEF LoadBlockIndexDB, VerifyDB, HasUndo
  <2> QED BY <2>1, <2>2, PrimedUndo DEF TipInv
<1>16. CASE UNCHANGED vars
  <2>1. UNCHANGED <<nStatus, pindexBest, coinsTip, vAttach, pc>>
    BY <1>16 DEF vars, mem, ctl
  <2> QED BY <1>1, <2>1, TipKept DEF TipInv
<1> QED BY <1>3, <1>4, <1>5, <1>6, <1>7, <1>8, <1>9, <1>10, <1>11, <1>12, <1>13, <1>14, <1>15, <1>16
        DEF Next, Step

LEMMA TipHolds == Spec => [](CoreInv /\ TipInv)
<1>1. Init => TipInv
  BY GenesisUndo DEF Init, TipInv
<1>2. CoreInv /\ TipInv /\ [Next]_vars => TipInv'
  BY TipNext
<1> QED BY <1>1, <1>2, CoreHolds, PTL DEF Spec

(* Every block of the best chain is valid, not marked failed, and can be   *)
(* taken out again.                                                        *)
THEOREM BestChainIsValid == Spec => []BestChainValid
<1>1. CoreInv /\ TipInv => BestChainValid
  <2> SUFFICES ASSUME CoreInv, TipInv, NEW b \in BestChain \ {Genesis}
               PROVE  b \notin BadBlock /\ ~Failed(b) /\ "UNDO" \in nStatus[b]
    BY DEF BestChainValid
  <2>1. pindexBest \in Block /\ BestChain = Ancestors(pindexBest)
    BY DEF CoreInv, MemOK, IndexOK, EntryOK, BestChain
  <2>2. \A a \in BestChain \ {Genesis} : a \in DOMAIN nStatus /\ "UNDO" \in nStatus[a] /\ a \notin BadBlock
    BY <2>1 DEF CoreInv, TipInv, HasUndo, MemOK, IndexOK, EntryOK
  <2>3. Ancestors(b) \subseteq BestChain
    BY <2>1, AncestorsClosed
  <2>4. Ancestors(b) \cap BadBlock = {}
    BY <2>2, <2>3, TreeAssumption
  <2>5. ~Failed(b)
    BY <2>2, <2>4 DEF CoreInv, MemOK, IndexOK, EntryOK, Marked, Failed
  <2> QED BY <2>2, <2>5
<1> QED BY <1>1, TipHolds, PTL

(***************************************************************************)
(* The two databases: which coins a crash may leave with which index.      *)
(***************************************************************************)
AllUndo(db, idx) == \A i \in 1..Len(db) : HasUndo(db[i], idx)
CoinsDBInv == exposed \/ AllUndo(coinsDB, index)

LEMMA PrimedAllUndo == exposed' \/ AllUndo(coinsDB', index') => CoinsDBInv'
BY DEF CoinsDBInv, AllUndo, HasUndo, Ancestors

LEMMA AllUndoKept ==
    ASSUME NEW db, NEW d, NEW e, AllUndo(db, d),
           \A a \in DOMAIN d : "UNDO" \in d[a] => a \in DOMAIN e /\ "UNDO" \in e[a]
    PROVE  AllUndo(db, e)
BY UndoKept DEF AllUndo

LEMMA AllUndoAppend ==
    ASSUME NEW db \in Seq(Block), NEW b \in Block, NEW d, AllUndo(db, d), HasUndo(b, d)
    PROVE  AllUndo(Append(db, b), d)
<1> DEFINE s == Append(db, b)
<1>1. Len(s) = Len(db) + 1 /\ Len(db) \in Nat /\ s[Len(db) + 1] = b /\ \A i \in 1..Len(db) : s[i] = db[i]
  OBVIOUS
<1> HIDE DEF s
<1>2. \A i \in 1..Len(s) : i \in 1..Len(db) \/ i = Len(db) + 1
  BY <1>1
<1>3. AllUndo(s, d)
  BY <1>1, <1>2 DEF AllUndo
<1> QED BY <1>3 DEF s

(* With no write in flight, the durable index is what the process has.     *)
LEMMA NothingPending ==
    ASSUME CoreInv, Running, log = <<>>
    PROVE  index = nStatus
<1>1. index \in [DOMAIN index -> SUBSET Flags] /\ nStatus = Apply(index, log)
  BY DEF CoreInv, DiskOK, IndexOK, FoundIndex
<1> QED BY <1>1, ApplyNone

LEMMA CoinsDBNext == CoreInv /\ TipInv /\ CoinsDBInv /\ [Next]_vars => CoinsDBInv'
<1> SUFFICES ASSUME CoreInv, TipInv, CoinsDBInv, [Next]_vars PROVE CoinsDBInv'
  OBVIOUS
<1>0. IndexOK(index) /\ LogOK /\ coinsDB \in Seq(Block) /\ coinsDB # <<>> /\ coinsTip \in Block
      /\ (Running => ~exposed)
  BY DEF CoreInv, DiskOK, MemOK, IndexOK, EntryOK
<1>1. CASE UNCHANGED <<coinsDB, index, exposed>>
  BY <1>1, PrimedAllUndo DEF CoinsDBInv
<1>2. CASE ConnectBestBlock
  BY <1>1, <1>2 DEF ConnectBestBlock, hist
<1>3. CASE SetBestChainStuck \/ SetBestChainInvalid \/ SetBestChainAbort
  BY <1>1, <1>3 DEF SetBestChainStuck, SetBestChainInvalid, SetBestChainAbort, disk, hist
<1>4. ASSUME NEW fFlush \in BOOLEAN, SetBestChainConnect(fFlush) PROVE CoinsDBInv'
  BY <1>1, <1>4 DEF SetBestChainConnect, hist
<1>5. CASE FlushAbort \/ SetBestChainCommit \/ ConnectBestBlockDone \/ ConnectBestBlockFailed
           \/ NextInQueue \/ LoadWithoutTip \/ StartupFailed \/ Crash
  BY <1>1, <1>5 DEF FlushAbort, SetBestChainCommit, ConnectBestBlockDone, ConnectBestBlockFailed,
                    NextInQueue, LoadWithoutTip, StartupFailed, Crash, disk, hist
<1>6. CASE UNCHANGED vars
  BY <1>1, <1>6 DEF vars, disk, hist
<1>7. ASSUME NEW b \in Block \ {Genesis}, AcceptOrphanBlock(b) \/ ProcessBlock(b) \/ ProcessOrphanBlock(b)
      PROVE  CoinsDBInv'
  BY <1>1, <1>7 DEF AcceptOrphanBlock, ProcessBlock, ProcessOrphanBlock, disk, hist
<1>8. CASE SyncIndex
  <2>1. index' = nStatus /\ UNCHANGED <<coinsDB, exposed>> /\ Running
    BY <1>8, SyncCore DEF SyncIndex, hist, Running
  <2>2. nStatus = FoundIndex /\ AllUndo(coinsDB, index)
    BY <1>0, <2>1 DEF CoreInv, DiskOK, CoinsDBInv
  <2>3. AllUndo(coinsDB, nStatus)
    BY <1>0, <2>2, FoundOK, AllUndoKept
  <2> QED BY <2>1, <2>3, PrimedAllUndo
<1>9. CASE FlushCoins
  <2>1. Running /\ pc = "flush" /\ coinsDB' = Append(coinsDB, Head(vAttach)) /\ index' = index
        /\ vAttach # <<>>
    BY <1>9 DEF FlushCoins, Running, CoreInv, CtlOK
  <2>2. index = nStatus
    BY <2>1, NothingPending DEF CoreInv, DiskOK
  <2>3. HasUndo(Head(vAttach), index) /\ Head(vAttach) \in Block
    BY <2>1, <2>2, HeadBranch DEF TipInv
  <2>4. AllUndo(coinsDB, index)
    BY <1>0, <2>1 DEF CoinsDBInv
  <2>5. AllUndo(coinsDB', index')
    BY <1>0, <2>1, <2>3, <2>4, AllUndoAppend
  <2> QED BY <2>5, PrimedAllUndo
<1>10. CASE Shutdown
  <2>1. Running /\ index' = index /\ (coinsDB' = coinsDB \/ coinsDB' = Append(coinsDB, coinsTip))
        /\ exposed' = (log # <<>>)
    BY <1>10 DEF Shutdown, Running
  <2>2. CASE log # <<>>
    BY <2>1, <2>2, PrimedAllUndo
  <2>3. CASE log = <<>>
    <3>1. AllUndo(coinsDB, index) /\ HasUndo(coinsTip, index)
      BY <1>0, <2>1, <2>3, NothingPending DEF CoinsDBInv, TipInv
    <3>2. AllUndo(coinsDB', index')
      BY <1>0, <2>1, <3>1, AllUndoAppend
    <3> QED BY <3>2, PrimedAllUndo
  <2> QED BY <2>2, <2>3
<1>11. CASE PowerLoss
  <2>1. PICK n \in 0..Len(log) : index' = Apply(index, SubSeq(log, 1, n))
    BY <1>11 DEF PowerLoss
  <2>2. PICK m \in 1..Len(coinsDB) : coinsDB' = <<coinsDB[m]>>
    BY <1>11 DEF PowerLoss
  <2>3. exposed' = exposed
    BY <1>11 DEF PowerLoss
  <2>4. \A a \in DOMAIN index : "UNDO" \in index[a] => a \in DOMAIN index' /\ "UNDO" \in index'[a]
    BY <1>0, <2>1, PrefixOK
  <2>5. CASE AllUndo(coinsDB, index)
    <3>1. HasUndo(coinsDB[m], index)
      BY <2>5 DEF AllUndo
    <3>2. HasUndo(coinsDB[m], index')
      BY <2>4, <3>1, UndoKept
    <3>3. Len(coinsDB') = 1 /\ coinsDB'[1] = coinsDB[m] /\ \A i \in 1..1 : i = 1
      BY <2>2
    <3>4. AllUndo(coinsDB', index')
      BY <3>2, <3>3 DEF AllUndo
    <3> QED BY <3>4, PrimedAllUndo
  <2> QED BY <2>3, <2>5, PrimedAllUndo DEF CoinsDBInv
<1>12. CASE LoadBlockIndexDB
  <2>1. index' = FoundIndex /\ coinsDB' = <<FoundTip>>
    BY <1>12 DEF LoadBlockIndexDB
  <2>2. HasUndo(FoundTip, FoundIndex)
    BY <1>12, LoadFacts DEF LoadBlockIndexDB, VerifyDB, HasUndo
  <2>3. Len(coinsDB') = 1 /\ coinsDB'[1] = FoundTip /\ \A i \in 1..1 : i = 1
    BY <2>1
  <2>4. AllUndo(coinsDB', index')
    BY <2>1, <2>2, <2>3 DEF AllUndo
  <2> QED BY <2>4, PrimedAllUndo
<1>13. CASE Reindex
  <2>1. coinsDB' = <<Genesis>>
    BY <1>13 DEF Reindex
  <2>2. Len(coinsDB') = 1 /\ coinsDB'[1] = Genesis /\ \A i \in 1..1 : i = 1
    BY <2>1
  <2>3. AllUndo(coinsDB', index')
    BY <2>2, GenesisUndo DEF AllUndo
  <2> QED BY <2>3, PrimedAllUndo
<1> QED BY <1>2, <1>3, <1>4, <1>5, <1>6, <1>7, <1>8, <1>9, <1>10, <1>11, <1>12, <1>13 DEF Next, Step

(* Any state of the coin database that a power failure can leave behind    *)
(* has its chain, with undo data, in the durable index: SetBestChain syncs *)
(* the index before it flushes the coins.                                  *)
THEOREM CoinsBehindIndex == Spec => []CoinsNeverAheadOfIndex
<1>1. Init => CoinsDBInv
  <2> SUFFICES ASSUME Init PROVE AllUndo(coinsDB, index)
    BY DEF CoinsDBInv
  <2>1. Len(coinsDB) = 1 /\ coinsDB[1] = Genesis /\ \A i \in 1..1 : i = 1
    BY DEF Init
  <2> QED BY <2>1, GenesisUndo DEF AllUndo
<1>2. CoreInv /\ TipInv /\ CoinsDBInv /\ [Next]_vars => CoinsDBInv'
  BY CoinsDBNext
<1>3. CoreInv /\ CoinsDBInv => CoinsNeverAheadOfIndex
  <2> SUFFICES ASSUME CoreInv, CoinsDBInv PROVE CoinsNeverAheadOfIndex
    OBVIOUS
  <2>1. DOMAIN coinsDB = 1..Len(coinsDB)
    BY DEF CoreInv, DiskOK
  <2> QED BY <2>1 DEF CoinsDBInv, AllUndo, HasUndo, CoinsNeverAheadOfIndex
<1> QED BY <1>1, <1>2, <1>3, TipHolds, PTL DEF Spec

(***************************************************************************)
(* Work.                                                                   *)
(***************************************************************************)
LEMMA LastOfTail ==
    ASSUME NEW S, NEW s \in Seq(S), s # <<>>
    PROVE  IF Tail(s) = <<>> THEN Last(s) = Head(s) ELSE Last(s) = Last(Tail(s))
<1> DEFINE t == Tail(s)  n == Len(s)
<1>1. /\ n \in Nat /\ n > 0 /\ Len(t) = n - 1 /\ Head(s) = s[1] /\ t \in Seq(S)
      /\ \A i \in 1..(n - 1) : t[i] = s[i + 1]
  OBVIOUS
<1>2. Last(s) = s[n] /\ Last(t) = t[Len(t)]
  BY DEF Last
<1> HIDE DEF t, n
<1>3. t = <<>> <=> n = 1
  <2>1. t = <<>> <=> Len(t) = 0
    BY <1>1, EmptySeq
  <2> QED BY <1>1, <2>1
<1>4. CASE n = 1
  BY <1>1, <1>2, <1>3, <1>4 DEF t
<1>5. CASE n # 1
  <2>1. n - 1 \in 1..(n - 1) /\ (n - 1) + 1 = n
    BY <1>1, <1>5
  <2>2. t[n - 1] = s[n]
    BY <1>1, <2>1
  <2> QED BY <1>1, <1>2, <1>3, <1>5, <2>2 DEF t
<1> QED BY <1>4, <1>5

LEMMA TailWork ==
    ASSUME NEW S, NEW s \in Seq(S), s # <<>>, NEW best, MoreAndMoreWork(s, best)
    PROVE  MoreAndMoreWork(Tail(s), Head(s)) /\ nChainWork[Head(s)] > nChainWork[best]
<1> DEFINE t == Tail(s)  n == Len(s)
<1>1. /\ n \in Nat /\ n > 0 /\ Len(t) = n - 1 /\ Head(s) = s[1]
      /\ \A i \in 1..(n - 1) : t[i] = s[i + 1]
  OBVIOUS
<1> HIDE DEF t, n
<1>2. \A i \in 1..(n - 1) : i + 1 \in 1..n /\ 1 < i + 1
  BY <1>1
<1>3. 1 \in 1..n
  BY <1>1
<1>4. \A i \in 1..n : nChainWork[s[i]] > nChainWork[best]
  BY DEF MoreAndMoreWork, n
<1>5. \A i, j \in 1..n : i < j => nChainWork[s[i]] < nChainWork[s[j]]
  BY DEF MoreAndMoreWork, n
<1>6. ASSUME NEW i \in 1..(n - 1) PROVE nChainWork[t[i]] > nChainWork[s[1]]
  BY <1>1, <1>2, <1>3, <1>5
<1>7. ASSUME NEW i \in 1..(n - 1), NEW j \in 1..(n - 1), i < j PROVE nChainWork[t[i]] < nChainWork[t[j]]
  <2>1. i + 1 < j + 1
    BY <1>1, <1>7
  <2> QED BY <1>1, <1>2, <1>5, <2>1
<1>8. MoreAndMoreWork(t, s[1])
  BY <1>1, <1>6, <1>7 DEF MoreAndMoreWork
<1>9. nChainWork[s[1]] > nChainWork[best]
  BY <1>3, <1>4
<1> QED BY <1>1, <1>8, <1>9 DEF t

LEMMA PrimedWork == (pc' \in {"switch", "sync", "flush", "commit"} => MoreAndMoreWork(vAttach', pindexBest')) => WorkInv'
BY DEF WorkInv, MoreAndMoreWork

LEMMA WorkNext == CoreInv /\ WorkInv /\ [Next]_vars => WorkInv'
<1> SUFFICES ASSUME CoreInv, WorkInv, [Next]_vars PROVE WorkInv'
  OBVIOUS
<1>0. pc \in {"switch", "sync", "flush", "commit"} => MoreAndMoreWork(vAttach, pindexBest)
  BY DEF WorkInv, MoreAndMoreWork
<1>1. CASE pc' \notin {"switch", "sync", "flush", "commit"}
  BY <1>1, PrimedWork
<1>2. CASE pc \in {"switch", "sync", "flush", "commit"} /\ UNCHANGED <<vAttach, pindexBest>>
  BY <1>0, <1>2, PrimedWork
<1>3. CASE ConnectBestBlock
  <2>1. CASE Marks
    BY <1>1, <1>3, <2>1 DEF Marks, ConnectBestBlock
  <2>2. CASE Chooses
    BY <2>2, PrimedWork DEF Chooses, mem
  <2> QED BY <1>3, <2>1, <2>2, ConnectBestBlockStep
<1>4. CASE SetBestChainStuck \/ SetBestChainInvalid \/ SetBestChainAbort \/ FlushAbort
           \/ ConnectBestBlockDone \/ ConnectBestBlockFailed \/ NextInQueue \/ LoadWithoutTip
           \/ LoadBlockIndexDB \/ Reindex
  BY <1>1, <1>4 DEF SetBestChainStuck, SetBestChainInvalid, SetBestChainAbort, FlushAbort,
                    ConnectBestBlockDone, ConnectBestBlockFailed, NextInQueue, LoadWithoutTip,
                    LoadBlockIndexDB, Reindex
<1>5. ASSUME NEW fFlush \in BOOLEAN, SetBestChainConnect(fFlush) PROVE WorkInv'
  BY <1>2, <1>5 DEF SetBestChainConnect
<1>6. CASE SyncIndex \/ FlushCoins
  BY <1>2, <1>6 DEF SyncIndex, FlushCoins, mem
<1>7. CASE SetBestChainCommit
  <2>1. vAttach \in Seq(DOMAIN nStatus) /\ vAttach # <<>> /\ MoreAndMoreWork(vAttach, pindexBest)
    BY <1>0, <1>7 DEF SetBestChainCommit, CoreInv, CtlOK
  <2>2. MoreAndMoreWork(Tail(vAttach), Head(vAttach))
    BY <2>1, TailWork
  <2> QED BY <1>7, <2>2, PrimedWork DEF SetBestChainCommit
<1>8. CASE StartupFailed \/ Shutdown \/ Crash \/ PowerLoss
  BY <1>1, <1>8 DEF StartupFailed, Shutdown, Crash, PowerLoss, Down
<1>9. ASSUME NEW b \in Block \ {Genesis}, AcceptOrphanBlock(b) \/ ProcessBlock(b) \/ ProcessOrphanBlock(b)
      PROVE  WorkInv'
  BY <1>1, <1>9 DEF AcceptOrphanBlock, ProcessBlock, ProcessOrphanBlock, AcceptBlock, AddToBlockIndex, ctl
<1>10. CASE UNCHANGED vars
  BY <1>1, <1>2, <1>10 DEF vars, mem, ctl
<1> QED BY <1>3, <1>4, <1>5, <1>6, <1>7, <1>8, <1>9, <1>10 DEF Next, Step

(* The best chain only ever moves to more work while the node runs.        *)
THEOREM WorkGrows == Spec => WorkNeverDrops
<1> DEFINE Move == pc # "down" /\ pc' # "down" /\ pindexBest' # pindexBest
                      => nChainWork[pindexBest'] > nChainWork[pindexBest]
<1>1. Init => WorkInv
  BY DEF Init, WorkInv
<1>2. CoreInv /\ WorkInv /\ [Next]_vars => WorkInv'
  BY WorkNext
<1>3. CoreInv /\ WorkInv /\ [Next]_vars => [Move]_vars
  <2> SUFFICES ASSUME CoreInv, WorkInv, Next PROVE Move
    OBVIOUS
  <2>1. CASE pindexBest' = pindexBest
    BY <2>1
  <2>2. CASE ConnectBestBlock
    BY <2>1, <2>2, ConnectBestBlockStep DEF Marks, Chooses, mem
  <2>3. CASE SetBestChainStuck \/ SetBestChainInvalid \/ SetBestChainAbort \/ FlushAbort \/ SyncIndex
             \/ FlushCoins \/ ConnectBestBlockDone \/ ConnectBestBlockFailed \/ NextInQueue
             \/ LoadWithoutTip \/ Reindex
    BY <2>1, <2>3 DEF SetBestChainStuck, SetBestChainInvalid, SetBestChainAbort, FlushAbort, SyncIndex,
                      FlushCoins, ConnectBestBlockDone, ConnectBestBlockFailed, NextInQueue,
                      LoadWithoutTip, Reindex, mem
  <2>4. ASSUME NEW fFlush \in BOOLEAN, SetBestChainConnect(fFlush) PROVE Move
    BY <2>1, <2>4 DEF SetBestChainConnect
  <2>5. CASE SetBestChainCommit
    <3>1. vAttach \in Seq(DOMAIN nStatus) /\ vAttach # <<>> /\ MoreAndMoreWork(vAttach, pindexBest)
      BY <2>5 DEF SetBestChainCommit, CoreInv, CtlOK, WorkInv, MoreAndMoreWork
    <3>2. nChainWork[Head(vAttach)] > nChainWork[pindexBest]
      BY <3>1, TailWork
    <3> QED BY <2>5, <3>2 DEF SetBestChainCommit
  <2>6. CASE StartupFailed \/ Shutdown \/ Crash \/ PowerLoss \/ LoadBlockIndexDB
    BY <2>6 DEF StartupFailed, Shutdown, Crash, PowerLoss, Down, LoadBlockIndexDB
  <2>7. ASSUME NEW b \in Block \ {Genesis}, AcceptOrphanBlock(b) \/ ProcessBlock(b) \/ ProcessOrphanBlock(b)
        PROVE  Move
    BY <2>1, <2>7 DEF AcceptOrphanBlock, ProcessBlock, ProcessOrphanBlock
  <2> QED BY <2>2, <2>3, <2>4, <2>5, <2>6, <2>7 DEF Next, Step
<1> QED BY <1>1, <1>2, <1>3, CoreHolds, PTL DEF Spec, WorkNeverDrops

(***************************************************************************)
(* The candidates.                                                         *)
(***************************************************************************)
NoneLost(d, S) == \A b \in DOMAIN d : Ancestors(b) \cap BadBlock = {} => b \in S
Below(S, b) == \A c \in S : nChainWork[c] <= nChainWork[b]
Target(s, best) == IF s = <<>> THEN best ELSE Last(s)
Switching == pc \in {"switch", "sync", "flush", "commit"}
Settled == pc \in {"idle", "drain"} /\ fConnected

LEMMA CandidateParts ==
    CandidateInv <=> /\ NoneLost(nStatus, setBlockIndexValid)
                     /\ Switching => Below(setBlockIndexValid, Target(vAttach, pindexBest))
                     /\ Settled => Below(setBlockIndexValid, pindexBest)
BY DEF CandidateInv, NoneLost, Below, Target, Switching, Settled

LEMMA PrimedCandidates ==
    /\ NoneLost(nStatus', setBlockIndexValid')
    /\ Switching' => Below(setBlockIndexValid', Target(vAttach', pindexBest'))
    /\ Settled' => Below(setBlockIndexValid', pindexBest')
    => CandidateInv'
BY DEF CandidateInv, NoneLost, Below, Target, Switching, Settled, Ancestors

(* Only blocks of invalid branches leave the candidates.                   *)
LEMMA NoneLostKept ==
    ASSUME NEW d, NEW e, NEW S, NEW T, NoneLost(d, S), DOMAIN e = DOMAIN d,
           \A x \in S \ T : Ancestors(x) \cap BadBlock # {}
    PROVE  NoneLost(e, T)
BY DEF NoneLost

LEMMA CandidateNext == CoreInv /\ CandidateInv /\ [Next]_vars => CandidateInv'
<1> SUFFICES ASSUME CoreInv, CandidateInv, [Next]_vars PROVE CandidateInv'
  OBVIOUS
<1> DEFINE S == setBlockIndexValid
<1>0. /\ NoneLost(nStatus, S)
      /\ Switching => Below(S, Target(vAttach, pindexBest))
      /\ Settled => Below(S, pindexBest)
  BY CandidateParts
<1>1. CASE UNCHANGED <<nStatus, setBlockIndexValid, pindexBest, vAttach>>
           /\ (Switching' => Switching) /\ (Settled' => Settled)
  BY <1>0, <1>1, PrimedCandidates
<1>2. CASE NoneLost(nStatus', setBlockIndexValid') /\ ~Switching' /\ ~Settled'
  BY <1>2, PrimedCandidates
<1>3. CASE ConnectBestBlock
  <2>1. CASE Marks
    <3>1. NoneLost(nStatus', setBlockIndexValid')
      BY <1>0, <2>1, NoneLostKept DEF Marks, Rewrites
    <3> QED BY <1>2, <1>3, <2>1, <3>1 DEF Marks, ConnectBestBlock, Switching, Settled
  <2>2. CASE Chooses
    <3>1. nStatus' = nStatus /\ setBlockIndexValid' = S /\ pindexBest' = pindexBest /\ pc' = "switch"
      BY <2>2 DEF Chooses, mem
    <3>2. Below(S, Target(vAttach', pindexBest))
      BY <2>2 DEF Chooses, Below, Target
    <3>3. ~Settled'
      BY <3>1 DEF Settled
    <3> QED BY <1>0, <3>1, <3>2, <3>3, PrimedCandidates
  <2> QED BY <1>3, <2>1, <2>2, ConnectBestBlockStep
<1>4. CASE SetBestChainStuck \/ FlushAbort \/ ConnectBestBlockFailed \/ LoadWithoutTip
  <2>1. UNCHANGED <<nStatus, setBlockIndexValid>>
        /\ (pc' \in {"failed", "lost"} \/ (pc' = "drain" /\ fConnected' = FALSE))
    BY <1>4 DEF SetBestChainStuck, FlushAbort, ConnectBestBlockFailed, LoadWithoutTip, mem
  <2> QED BY <1>0, <1>2, <2>1 DEF Switching, Settled
<1>5. CASE SetBestChainInvalid
  <2>1. Rewrites /\ \E b \in BadBlock : setBlockIndexValid' = setBlockIndexValid \ {b}
    BY <1>5, InvalidStep
  <2>2. \A b \in BadBlock : Ancestors(b) \cap BadBlock # {}
    BY TreeAssumption, AncestorsDef
  <2>3. NoneLost(nStatus', setBlockIndexValid')
    BY <1>0, <2>1, <2>2, NoneLostKept DEF Rewrites
  <2> QED BY <1>2, <1>5, <2>3 DEF SetBestChainInvalid, Switching, Settled
<1>6. CASE SetBestChainAbort
  <2>1. NoneLost(nStatus', setBlockIndexValid')
    BY <1>0, <1>6, AbortStep, NoneLostKept DEF SetBestChainAbort, Rewrites
  <2> QED BY <1>2, <1>6, <2>1 DEF SetBestChainAbort, Switching, Settled
<1>7. ASSUME NEW fFlush \in BOOLEAN, SetBestChainConnect(fFlush) PROVE CandidateInv'
  <2>1. UNCHANGED <<setBlockIndexValid, pindexBest, vAttach>> /\ Switching /\ pc' \in {"sync", "commit"}
    BY <1>7 DEF SetBestChainConnect, Switching
  <2>2. NoneLost(nStatus', setBlockIndexValid')
    BY <1>0, <1>7, <2>1, ConnectAllStep, NoneLostKept DEF Rewrites
  <2>3. ~Settled'
    BY <2>1 DEF Settled
  <2> QED BY <1>0, <2>1, <2>2, <2>3, PrimedCandidates
<1>8. CASE SyncIndex \/ FlushCoins
  BY <1>1, <1>8 DEF SyncIndex, FlushCoins, mem, Switching, Settled
<1>9. CASE SetBestChainCommit
  <2>1. vAttach \in Seq(DOMAIN nStatus) /\ vAttach # <<>> /\ Switching
    BY <1>9 DEF SetBestChainCommit, CoreInv, CtlOK, Switching
  <2>2. /\ UNCHANGED <<nStatus, setBlockIndexValid>> /\ pindexBest' = Head(vAttach)
        /\ vAttach' = Tail(vAttach) /\ pc' = "switch"
    BY <1>9 DEF SetBestChainCommit
  <2>3. Target(Tail(vAttach), Head(vAttach)) = Last(vAttach)
    <3>1. IF Tail(vAttach) = <<>> THEN Last(vAttach) = Head(vAttach) ELSE Last(vAttach) = Last(Tail(vAttach))
      BY <2>1, LastOfTail
    <3> QED BY <3>1 DEF Target
  <2>4. Below(S, Last(vAttach))
    BY <1>0, <2>1 DEF Target
  <2>5. ~Settled'
    BY <2>2 DEF Settled
  <2> QED BY <1>0, <2>2, <2>3, <2>4, <2>5, PrimedCandidates
<1>10. CASE ConnectBestBlockDone
  <2>1. UNCHANGED <<nStatus, setBlockIndexValid, pindexBest>> /\ Switching /\ vAttach = <<>> /\ pc' = "drain"
    BY <1>10 DEF ConnectBestBlockDone, mem, Switching
  <2>2. Below(S, pindexBest) /\ ~Switching'
    BY <1>0, <2>1 DEF Target, Switching
  <2> QED BY <1>0, <2>1, <2>2, PrimedCandidates
<1>11. CASE StartupFailed \/ Shutdown \/ Crash \/ PowerLoss
  <2>1. nStatus' = [b \in {Genesis} |-> {}] /\ setBlockIndexValid' = {Genesis} /\ pc' = "down"
    BY <1>11 DEF StartupFailed, Shutdown, Crash, PowerLoss, Down
  <2>2. NoneLost(nStatus', setBlockIndexValid')
    BY <2>1 DEF NoneLost
  <2> QED BY <1>2, <2>1, <2>2 DEF Switching, Settled
<1>12. ASSUME NEW b \in Block \ {Genesis}, Adds(b), setBlockIndexValid' = S \cup {b}, pc' = "connect"
       PROVE  CandidateInv'
  <2>1. NoneLost(nStatus', setBlockIndexValid')
    BY <1>0, <1>12 DEF NoneLost, Adds
  <2> QED BY <1>2, <1>12, <2>1 DEF Switching, Settled
<1>13. ASSUME NEW b \in Block \ {Genesis}, AcceptOrphanBlock(b) PROVE CandidateInv'
  <2>1. CASE AddToBlockIndex(b)
    BY <1>12, <1>13, <2>1, OrphanStep DEF AddToBlockIndex
  <2>2. CASE UNCHANGED <<nStatus, setBlockIndexValid, log, accepting, pc>>
    BY <1>1, <1>13, <2>2 DEF AcceptOrphanBlock, hist, Switching, Settled
  <2> QED BY <1>13, <2>1, <2>2 DEF AcceptOrphanBlock, AcceptBlock
<1>14. ASSUME NEW b \in Block \ {Genesis}, ProcessBlock(b) PROVE CandidateInv'
  BY <1>12, <1>14, ProcessStep DEF ProcessBlock, AcceptBlock, AddToBlockIndex
<1>15. ASSUME NEW b \in Block \ {Genesis}, ProcessOrphanBlock(b) PROVE CandidateInv'
  BY <1>1, <1>15 DEF ProcessOrphanBlock, ctl, hist, Switching, Settled
<1>16. CASE NextInQueue
  BY <1>1, <1>16 DEF NextInQueue, mem, hist, Switching, Settled
<1>17. CASE LoadBlockIndexDB
  <2>1. /\ nStatus' = FoundIndex /\ pc' = "connect"
        /\ setBlockIndexValid' = {b \in DOMAIN FoundIndex : ~Marked(FoundIndex[b])}
    BY <1>17 DEF LoadBlockIndexDB, Marked
  <2>2. \A b \in DOMAIN FoundIndex : Marked(FoundIndex[b]) => Ancestors(b) \cap BadBlock # {}
    BY <1>17, LoadFacts DEF IndexOK, EntryOK
  <2>3. NoneLost(nStatus', setBlockIndexValid')
    BY <2>1, <2>2 DEF NoneLost
  <2> QED BY <1>2, <2>1, <2>3 DEF Switching, Settled
<1>18. CASE Reindex
  <2>1. ~Running /\ UNCHANGED <<nStatus, setBlockIndexValid, pindexBest>> /\ pc' = "idle"
    BY <1>18 DEF Reindex, Running, mem
  <2>2. S = {Genesis} /\ pindexBest = Genesis
    BY <2>1 DEF CoreInv, DownOK
  <2>3. nChainWork[Genesis] \in Nat
    BY WorkDef, TreeFacts
  <2>4. Below(S, pindexBest)
    BY <2>2, <2>3 DEF Below
  <2>5. ~Switching'
    BY <2>1 DEF Switching
  <2> QED BY <1>0, <2>1, <2>4, <2>5, PrimedCandidates
<1>19. CASE UNCHANGED vars
  BY <1>1, <1>19 DEF vars, mem, ctl, hist, Switching, Settled
<1> QED BY <1>3, <1>4, <1>5, <1>6, <1>7, <1>8, <1>9, <1>10, <1>11, <1>13, <1>14, <1>15, <1>16, <1>17,
           <1>18, <1>19 DEF Next, Step

(* When the last ConnectBestBlock returned true, no indexed block that is  *)
(* valid with all its ancestors has more work than the tip.                *)
THEOREM TipHasMostWork == Spec => []BestHasMostWork
<1>1. Init => CandidateInv
  <2> SUFFICES ASSUME Init PROVE CandidateInv
    OBVIOUS
  <2>1. setBlockIndexValid = {Genesis} /\ pindexBest = Genesis /\ DOMAIN nStatus = {Genesis} /\ pc = "idle"
    BY DEF Init
  <2>2. nChainWork[Genesis] \in Nat
    BY WorkDef, TreeFacts
  <2> QED BY <2>1, <2>2 DEF CandidateInv
<1>2. CoreInv /\ CandidateInv /\ [Next]_vars => CandidateInv'
  BY CandidateNext
<1>3. CandidateInv => BestHasMostWork
  BY DEF CandidateInv, BestHasMostWork
<1> QED BY <1>1, <1>2, <1>3, CoreHolds, PTL DEF Spec

(***************************************************************************)
(* The successor pointers.                                                 *)
(***************************************************************************)
IsSuccessor(v, t, d) ==
    \/ v \in Ancestors(t) \ {Genesis} /\ Parent[v] = d
    \/ v = None /\ \A c \in Ancestors(t) \ {Genesis} : Parent[c] # d
Successor(t, d) ==
    IF \E c \in Ancestors(t) \ {Genesis} : Parent[c] = d
    THEN CHOOSE c \in Ancestors(t) \ {Genesis} : Parent[c] = d
    ELSE None
Successors(p, t) == \A d \in Block : IsSuccessor(p[d], t, d)
PnextInv == fRequestShutdown \/ Successors(pnext, pindexBest)

(* A block has at most one successor in a chain.                           *)
LEMMA SuccessorChoice ==
    ASSUME NEW t \in Block, NEW d, NEW v
    PROVE  IsSuccessor(v, t, d) <=> v = Successor(t, d)
<1> DEFINE A == Ancestors(t) \ {Genesis}
           x == CHOOSE c \in A : Parent[c] = d
<1>0. None \notin A
  BY AncestorsDef, TreeFacts
<1>1. CASE \E c \in A : Parent[c] = d
  <2>1. x \in A /\ Parent[x] = d
    BY <1>1
  <2> HIDE DEF x
  <2>2. IsSuccessor(v, t, d) <=> v \in A /\ Parent[v] = d
    BY <1>0, <1>1 DEF IsSuccessor
  <2>3. v \in A /\ Parent[v] = d => v = x
    BY <2>1, OneChild
  <2>4. IsSuccessor(v, t, d) <=> v = x
    BY <2>1, <2>2, <2>3
  <2> QED BY <1>1, <2>4 DEF x, Successor
<1>2. CASE ~ \E c \in A : Parent[c] = d
  BY <1>2 DEF IsSuccessor, Successor
<1> QED BY <1>1, <1>2

(* SetBestChain moves the pointers from one chain to the other.            *)
LEMMA PointersMove ==
    ASSUME NEW b \in Block, coinsTip \in Block, Successors(pnext, coinsTip)
    PROVE  Successors(NextPointers(b), b)
<1> DEFINE A == Ancestors(coinsTip)  B == Ancestors(b)
           C == ToSet(vConnect(b))  E == ToSet(vDisconnect(b))
<1>1. C = B \ A /\ E = A \ B /\ Genesis \in A /\ Genesis \in B
  BY BranchFacts, AncestorsClosed
<1> SUFFICES ASSUME NEW d \in Block PROVE IsSuccessor(NextPointers(b)[d], b, d)
  BY DEF Successors
<1> DEFINE v == NextPointers(b)[d]
<1>2. v = IF \E c \in C : c # Genesis /\ Parent[c] = d
          THEN CHOOSE c \in C : c # Genesis /\ Parent[c] = d
          ELSE IF \E c \in E : Parent[c] = d THEN None ELSE pnext[d]
  BY DEF NextPointers
<1> HIDE DEF v, C, E
<1>3. IsSuccessor(pnext[d], coinsTip, d)
  BY DEF Successors
<1>4. CASE \E c \in C : c # Genesis /\ Parent[c] = d
  <2>1. v \in C /\ v # Genesis /\ Parent[v] = d
    BY <1>2, <1>4
  <2>2. IsSuccessor(v, b, d)
    BY <1>1, <2>1 DEF IsSuccessor
  <2> QED BY <2>2 DEF v
<1>5. CASE ~(\E c \in C : c # Genesis /\ Parent[c] = d) /\ \E c \in E : Parent[c] = d
  <2>1. PICK c \in E : Parent[c] = d
    BY <1>5
  <2>2. c \in A \ {Genesis} /\ c \notin B
    BY <1>1, <2>1
  <2>3. ASSUME NEW y \in B \ {Genesis}, Parent[y] = d PROVE FALSE
    <3>1. y \in A \ {Genesis}
      BY <1>1, <1>5, <2>3
    <3>2. y = c
      BY <2>1, <2>2, <2>3, <3>1, OneChild
    <3> QED BY <2>2, <2>3, <3>2
  <2>4. v = None
    BY <1>2, <1>5
  <2>5. IsSuccessor(v, b, d)
    BY <2>3, <2>4 DEF IsSuccessor
  <2> QED BY <2>5 DEF v
<1>6. CASE ~(\E c \in C : c # Genesis /\ Parent[c] = d) /\ ~(\E c \in E : Parent[c] = d)
  <2>1. v = pnext[d]
    BY <1>2, <1>6
  <2>2. IsSuccessor(v, coinsTip, d)
    BY <1>3, <2>1
  <2>3. \A c \in A \ {Genesis} : Parent[c] = d => c \in B \ {Genesis}
    BY <1>1, <1>6
  <2>4. \A c \in B \ {Genesis} : Parent[c] = d => c \in A \ {Genesis}
    BY <1>1, <1>6
  <2>5. IsSuccessor(v, b, d)
    BY <2>2, <2>3, <2>4 DEF IsSuccessor
  <2> QED BY <2>5 DEF v
<1> QED BY <1>4, <1>5, <1>6

LEMMA PrimedSuccessors == fRequestShutdown' \/ Successors(pnext', pindexBest') => PnextInv'
BY DEF PnextInv, Successors, IsSuccessor, Ancestors

LEMMA NoSuccessors == Successors([b \in Block |-> None], Genesis)
BY AncestorsStep DEF Successors, IsSuccessor

LEMMA PnextNext == CoreInv /\ CoinsInv /\ PnextInv /\ [Next]_vars => PnextInv'
<1> SUFFICES ASSUME CoreInv, CoinsInv, PnextInv, [Next]_vars PROVE PnextInv'
  OBVIOUS
<1>1. CASE UNCHANGED <<pnext, pindexBest>> /\ (fRequestShutdown => fRequestShutdown')
  BY <1>1, PrimedSuccessors DEF PnextInv
<1>2. CASE ConnectBestBlock
  BY <1>1, <1>2, ConnectBestBlockStep DEF Marks, Chooses, mem
<1>3. CASE SetBestChainStuck \/ SetBestChainInvalid \/ SetBestChainAbort \/ FlushAbort \/ SyncIndex
           \/ FlushCoins \/ ConnectBestBlockDone \/ ConnectBestBlockFailed \/ NextInQueue
           \/ LoadWithoutTip \/ Reindex
  BY <1>1, <1>3 DEF SetBestChainStuck, SetBestChainInvalid, SetBestChainAbort, FlushAbort, SyncIndex,
                    FlushCoins, ConnectBestBlockDone, ConnectBestBlockFailed, NextInQueue,
                    LoadWithoutTip, Reindex, mem
<1>4. ASSUME NEW fFlush \in BOOLEAN, SetBestChainConnect(fFlush) PROVE PnextInv'
  BY <1>1, <1>4 DEF SetBestChainConnect
<1>5. CASE SetBestChainCommit
  <2>1. vAttach # <<>> /\ pnext' = NextPointers(Head(vAttach)) /\ pindexBest' = Head(vAttach)
        /\ fRequestShutdown' = fRequestShutdown
    BY <1>5 DEF SetBestChainCommit, CoreInv, CtlOK
  <2>2. Head(vAttach) \in Block /\ coinsTip \in Block
    BY <2>1, HeadBranch
  <2>3. CASE fRequestShutdown
    BY <2>1, <2>3, PrimedSuccessors
  <2>4. CASE coinsTip = pindexBest /\ Successors(pnext, pindexBest)
    <3>1. Successors(NextPointers(Head(vAttach)), Head(vAttach))
      BY <2>2, <2>4, PointersMove
    <3> QED BY <2>1, <3>1, PrimedSuccessors
  <2> QED BY <2>3, <2>4 DEF CoinsInv, PnextInv
<1>6. CASE StartupFailed \/ Shutdown \/ Crash \/ PowerLoss
  <2>1. pnext' = [b \in Block |-> None] /\ pindexBest' = Genesis
    BY <1>6 DEF StartupFailed, Shutdown, Crash, PowerLoss, Down
  <2> QED BY <2>1, NoSuccessors, PrimedSuccessors
<1>7. ASSUME NEW b \in Block \ {Genesis}, AcceptOrphanBlock(b) \/ ProcessBlock(b) \/ ProcessOrphanBlock(b)
      PROVE  PnextInv'
  BY <1>1, <1>7 DEF AcceptOrphanBlock, ProcessBlock, ProcessOrphanBlock
<1>8. CASE LoadBlockIndexDB
  <2>1. FoundTip \in Block
    BY <1>8, LoadFacts
  <2>2. pindexBest' = FoundTip /\
        \A d \in Block : pnext'[d] = IF \E c \in Ancestors(FoundTip) \ {Genesis} : Parent[c] = d
                                     THEN CHOOSE c \in Ancestors(FoundTip) \ {Genesis} : Parent[c] = d
                                     ELSE None
    BY <1>8 DEF LoadBlockIndexDB
  <2>3. Successors(pnext', FoundTip)
    <3>1. \A d \in Block : pnext'[d] = Successor(FoundTip, d)
      BY <2>2 DEF Successor
    <3> QED BY <2>1, <3>1, SuccessorChoice DEF Successors
  <2> QED BY <2>2, <2>3, PrimedSuccessors
<1>9. CASE UNCHANGED vars
  BY <1>1, <1>9 DEF vars, mem
<1> QED BY <1>2, <1>3, <1>4, <1>5, <1>6, <1>7, <1>8, <1>9 DEF Next, Step

(* The successor pointers describe the best chain and nothing else.        *)
THEOREM PointersFollowBest == Spec => []PnextIsBestChain
<1>1. Init => CoinsInv /\ PnextInv
  BY NoSuccessors DEF Init, CoinsInv, PnextInv
<1>2. CoreInv /\ CoinsInv /\ [Next]_vars => CoinsInv'
  BY CoinsNext
<1>3. CoreInv /\ CoinsInv /\ PnextInv /\ [Next]_vars => PnextInv'
  BY PnextNext
<1>4. CoreInv /\ PnextInv => PnextIsBestChain
  <2> SUFFICES ASSUME CoreInv, PnextInv PROVE PnextIsBestChain
    OBVIOUS
  <2>1. pindexBest \in Block /\ BestChain = Ancestors(pindexBest)
    BY DEF CoreInv, MemOK, IndexOK, EntryOK, BestChain
  <2>2. CASE fRequestShutdown
    BY <2>2 DEF PnextIsBestChain
  <2>3. CASE Successors(pnext, pindexBest)
    <3>1. \A d \in Block : pnext[d] = Successor(pindexBest, d)
      BY <2>1, <2>3, SuccessorChoice DEF Successors
    <3> QED BY <2>1, <3>1 DEF PnextIsBestChain, Successor
  <2> QED BY <2>2, <2>3 DEF PnextInv
<1> QED BY <1>1, <1>2, <1>3, <1>4, CoreHolds, PTL DEF Spec

(***************************************************************************)
(* The orphan blocks.                                                      *)
(***************************************************************************)
LEMMA QueueKept ==
    ASSUME QueueInv, UNCHANGED <<mapOrphanBlocks, vWorkQueue, accepting, refused>>,
           DOMAIN nStatus' = DOMAIN nStatus, Calling => Calling', pc' # "idle"
    PROVE  QueueInv'
BY DEF QueueInv, ToSet

LEMMA QueueNext == CoreInv /\ QueueInv /\ [Next]_vars => QueueInv'
<1> SUFFICES ASSUME CoreInv, QueueInv, [Next]_vars PROVE QueueInv'
  OBVIOUS
<1>0. /\ mapOrphanBlocks \subseteq Block \ DOMAIN nStatus /\ DOMAIN nStatus \subseteq Block
      /\ vWorkQueue \in Seq(DOMAIN nStatus) /\ Genesis \in DOMAIN nStatus
  BY DEF CoreInv, MemOK, CtlOK, IndexOK, EntryOK
<1>1. \A b \in mapOrphanBlocks : Parent[b] \in DOMAIN nStatus =>
          \/ Parent[b] \in refused
          \/ Parent[b] \in ToSet(vWorkQueue)
          \/ Calling /\ Parent[b] = accepting
  BY DEF QueueInv
<1>2. CASE ConnectBestBlock
  <2>1. DOMAIN nStatus' = DOMAIN nStatus /\ pc' \in {"connect", "switch"} /\ mapOrphanBlocks' = mapOrphanBlocks
    BY <1>2, ConnectBestBlockStep DEF Marks, Chooses, Rewrites, mem, ConnectBestBlock
  <2> QED BY <1>2, <2>1, QueueKept DEF ConnectBestBlock, hist, Calling
<1>3. CASE SetBestChainInvalid \/ SetBestChainAbort
  <2>1. DOMAIN nStatus' = DOMAIN nStatus
    BY <1>3, InvalidStep, AbortStep DEF Rewrites
  <2> QED BY <1>3, <2>1, QueueKept DEF SetBestChainInvalid, SetBestChainAbort, hist, Calling
<1>4. ASSUME NEW fFlush \in BOOLEAN, SetBestChainConnect(fFlush) PROVE QueueInv'
  <2>1. DOMAIN nStatus' = DOMAIN nStatus
    BY <1>4, ConnectAllStep DEF Rewrites
  <2> QED BY <1>4, <2>1, QueueKept DEF SetBestChainConnect, hist, Calling
<1>5. CASE SetBestChainStuck \/ SyncIndex \/ FlushAbort \/ FlushCoins \/ SetBestChainCommit \/ LoadWithoutTip
  BY <1>5, QueueKept DEF SetBestChainStuck, SyncIndex, FlushAbort, FlushCoins, SetBestChainCommit,
                         LoadWithoutTip, mem, hist, Calling
<1>6. CASE ConnectBestBlockDone
  <2>1. UNCHANGED <<nStatus, mapOrphanBlocks, accepting, refused>> /\ pc' = "drain"
        /\ vWorkQueue' = IF accepting = None THEN <<>> ELSE Append(vWorkQueue, accepting)
    BY <1>6 DEF ConnectBestBlockDone, mem
  <2>2. CASE accepting = None
    <3>1. vWorkQueue = <<>> /\ vWorkQueue' = <<>>
      BY <2>1, <2>2 DEF QueueInv
    <3>2. \A b \in mapOrphanBlocks : Parent[b] \in DOMAIN nStatus => Parent[b] \in refused
      <4>1. ToSet(vWorkQueue) = {}
        BY <3>1 DEF ToSet
      <4> QED BY <1>0, <1>1, <2>2, <4>1, TreeFacts
    <3> QED BY <2>1, <3>1, <3>2 DEF QueueInv
  <2>3. CASE accepting # None
    <3>1. vWorkQueue' = Append(vWorkQueue, accepting) /\ accepting \in DOMAIN nStatus
      BY <2>1, <2>3 DEF CoreInv, CtlOK
    <3>2. ToSet(vWorkQueue)  \subseteq ToSet(vWorkQueue') /\ accepting \in ToSet(vWorkQueue')
      BY <1>0, <3>1 DEF ToSet
    <3>3. \A b \in mapOrphanBlocks : Parent[b] \in DOMAIN nStatus =>
              Parent[b] \in refused \/ Parent[b] \in ToSet(vWorkQueue')
      BY <1>1, <3>2
    <3>4. ToSet(vWorkQueue)' = ToSet(vWorkQueue')
      BY DEF ToSet
    <3> QED BY <2>1, <2>3, <3>3, <3>4 DEF QueueInv
  <2> QED BY <2>2, <2>3
<1>7. CASE ConnectBestBlockFailed
  <2>1. UNCHANGED <<nStatus, mapOrphanBlocks, accepting, vWorkQueue>> /\ pc' = "drain"
        /\ refused' = refused \cup {accepting} /\ accepting # None
    BY <1>7 DEF ConnectBestBlockFailed, mem
  <2>2. ToSet(vWorkQueue)' = ToSet(vWorkQueue)
    BY <2>1 DEF ToSet
  <2> QED BY <1>1, <2>1, <2>2 DEF QueueInv
<1>8. CASE StartupFailed \/ Shutdown \/ Crash \/ PowerLoss
  BY <1>8 DEF StartupFailed, Shutdown, Crash, PowerLoss, Down, QueueInv
<1>9. ASSUME NEW b \in Block \ {Genesis}, AddToBlockIndex(b), ~Calling,
             mapOrphanBlocks' \subseteq mapOrphanBlocks, UNCHANGED <<vWorkQueue, refused>>
      PROVE  QueueInv'
  <2>1. DOMAIN nStatus' = DOMAIN nStatus \cup {b} /\ accepting' = b /\ pc' = "connect"
    BY <1>9 DEF AddToBlockIndex
  <2>2. ToSet(vWorkQueue)' = ToSet(vWorkQueue) /\ Calling'
    BY <1>9, <2>1 DEF ToSet, Calling
  <2>3. accepting' # None
    BY <2>1, TreeFacts
  <2>4. ASSUME NEW x \in mapOrphanBlocks', Parent[x] \in DOMAIN nStatus'
        PROVE  Parent[x] \in refused' \/ Parent[x] \in ToSet(vWorkQueue)' \/ Parent[x] = accepting'
    <3>1. CASE Parent[x] = b
      BY <2>1, <3>1
    <3>2. CASE Parent[x] # b
      <4>1. x \in mapOrphanBlocks /\ Parent[x] \in DOMAIN nStatus
        BY <1>9, <2>1, <2>4, <3>2
      <4>2. Parent[x] \in refused \/ Parent[x] \in ToSet(vWorkQueue)
        BY <1>1, <1>9, <4>1
      <4> QED BY <1>9, <2>2, <4>2
    <3> QED BY <3>1, <3>2
  <2> QED BY <2>1, <2>2, <2>3, <2>4 DEF QueueInv
<1>10. ASSUME NEW b \in Block \ {Genesis}, AcceptOrphanBlock(b) PROVE QueueInv'
  <2>1. mapOrphanBlocks' = mapOrphanBlocks \ {b} /\ UNCHANGED <<vWorkQueue, refused>> /\ pc = "drain"
    BY <1>10 DEF AcceptOrphanBlock, hist
  <2>2. CASE AddToBlockIndex(b)
    BY <1>9, <2>1, <2>2 DEF Calling
  <2>3. CASE UNCHANGED <<nStatus, setBlockIndexValid, log, accepting, pc>>
    <3>1. ToSet(vWorkQueue)' = ToSet(vWorkQueue)
      BY <2>1 DEF ToSet
    <3> QED BY <2>1, <2>3, <3>1 DEF QueueInv, Calling
  <2> QED BY <1>10, <2>2, <2>3 DEF AcceptOrphanBlock, AcceptBlock
<1>11. ASSUME NEW b \in Block \ {Genesis}, ProcessBlock(b) PROVE QueueInv'
  <2>1. pc = "idle" /\ AddToBlockIndex(b) /\ vWorkQueue' = <<>> /\ UNCHANGED <<mapOrphanBlocks, refused>>
    BY <1>11 DEF ProcessBlock, AcceptBlock, hist
  <2>2. vWorkQueue = <<>>
    BY <2>1 DEF QueueInv
  <2> QED BY <1>9, <2>1, <2>2 DEF Calling
<1>12. ASSUME NEW b \in Block \ {Genesis}, ProcessOrphanBlock(b) PROVE QueueInv'
  <2>1. /\ mapOrphanBlocks' = mapOrphanBlocks \cup {b} /\ Parent[b] \notin DOMAIN nStatus
        /\ UNCHANGED <<nStatus, vWorkQueue, accepting, refused, pc>>
    BY <1>12 DEF ProcessOrphanBlock, ctl, hist
  <2>2. ToSet(vWorkQueue)' = ToSet(vWorkQueue)
    BY <2>1 DEF ToSet
  <2> QED BY <2>1, <2>2 DEF QueueInv, Calling
<1>13. CASE NextInQueue
  <2>1. /\ pc = "drain" /\ WaitingForHead = {} /\ UNCHANGED <<nStatus, mapOrphanBlocks, refused>>
        /\ vWorkQueue' = IF vWorkQueue = <<>> THEN <<>> ELSE Tail(vWorkQueue)
        /\ pc' = IF Len(vWorkQueue) <= 1 THEN "idle" ELSE "drain"
        /\ accepting' = IF Len(vWorkQueue) <= 1 THEN None ELSE accepting
    BY <1>13 DEF NextInQueue, mem, hist
  <2>2. \A b \in mapOrphanBlocks : Parent[b] \in DOMAIN nStatus =>
            Parent[b] \in refused \/ Parent[b] \in ToSet(vWorkQueue)
    BY <1>1, <2>1 DEF Calling
  <2>3. ToSet(vWorkQueue)' = ToSet(vWorkQueue')
    BY DEF ToSet
  <2>4. CASE vWorkQueue = <<>>
    <3>1. Len(vWorkQueue) = 0 /\ ToSet(vWorkQueue) = {} /\ vWorkQueue' = <<>>
      BY <2>1, <2>4 DEF ToSet
    <3> QED BY <2>1, <2>2, <3>1 DEF QueueInv
  <2>5. CASE vWorkQueue # <<>>
    <3> DEFINE q == vWorkQueue  t == Tail(q)  n == Len(q)
    <3>1. /\ n \in Nat /\ n > 0 /\ Len(t) = n - 1 /\ Head(q) = q[1] /\ t \in Seq(DOMAIN nStatus)
          /\ \A i \in 1..(n - 1) : t[i] = q[i + 1]
      BY <1>0, <2>5
    <3>2. DOMAIN q = 1..n /\ DOMAIN t = 1..(n - 1)
      BY <1>0, <3>1
    <3>3. vWorkQueue' = t
      BY <2>1, <2>5
    <3>4. \A b \in mapOrphanBlocks : Parent[b] # Head(q)
      BY <2>1, <2>5 DEF WaitingForHead
    <3> HIDE DEF t, n, q
    <3>5. ASSUME NEW x \in ToSet(q) PROVE x = Head(q) \/ x \in ToSet(t)
      <4>1. PICK i \in 1..n : x = q[i]
        BY <3>2 DEF ToSet
      <4>2. CASE i = 1
        BY <3>1, <4>1, <4>2
      <4>3. CASE i # 1
        <5>1. i - 1 \in 1..(n - 1) /\ (i - 1) + 1 = i
          BY <3>1, <4>3
        <5>2. t[i - 1] = x
          BY <3>1, <4>1, <5>1
        <5> QED BY <3>2, <5>1, <5>2 DEF ToSet
      <4> QED BY <4>2, <4>3
    <3>6. \A b \in mapOrphanBlocks : Parent[b] \in DOMAIN nStatus =>
              Parent[b] \in refused \/ Parent[b] \in ToSet(vWorkQueue')
      BY <2>2, <3>3, <3>4, <3>5 DEF q
    <3>7. n <= 1 => vWorkQueue' = <<>>
      <4>1. t # <<>> => Len(t) \in Nat \ {0}
        BY <3>1, EmptySeq
      <4> QED BY <3>1, <3>3, <4>1
    <3>8. n > 1 => accepting' = accepting /\ pc' = "drain" /\ accepting # None
      <4>1. accepting # None
        BY <2>5 DEF QueueInv
      <4> QED BY <2>1, <3>1, <4>1 DEF n, q
    <3>9. pc' = "idle" \/ accepting' = None => vWorkQueue' = <<>>
      BY <3>1, <3>7, <3>8
    <3> QED BY <2>1, <2>3, <3>6, <3>9 DEF QueueInv
  <2> QED BY <2>4, <2>5
<1>14. CASE LoadBlockIndexDB \/ Reindex
  <2>1. ~Running /\ UNCHANGED <<mapOrphanBlocks, vWorkQueue>>
    BY <1>14 DEF LoadBlockIndexDB, Reindex, mem, Running
  <2>2. mapOrphanBlocks' = {} /\ vWorkQueue' = <<>>
    BY <2>1 DEF CoreInv, DownOK
  <2> QED BY <2>2 DEF QueueInv
<1>15. CASE UNCHANGED vars
  <2>1. UNCHANGED <<nStatus, mapOrphanBlocks, vWorkQueue, accepting, refused, pc>>
    BY <1>15 DEF vars, mem, ctl, hist
  <2>2. ToSet(vWorkQueue)' = ToSet(vWorkQueue)
    BY <2>1 DEF ToSet
  <2> QED BY <2>1, <2>2 DEF QueueInv, Calling
<1> QED BY <1>2, <1>3, <1>4, <1>5, <1>6, <1>7, <1>8, <1>10, <1>11, <1>12, <1>13, <1>14, <1>15 DEF Next, Step

(* No orphan block waits for a parent that is already indexed, except when *)
(* the parent's own AcceptBlock failed.                                    *)
THEOREM NoOrphanForgotten == Spec => []OrphansWaitForParent
<1>1. Init => QueueInv
  BY DEF Init, QueueInv
<1>2. CoreInv /\ QueueInv /\ [Next]_vars => QueueInv'
  BY QueueNext
<1>3. QueueInv => OrphansWaitForParent
  <2> SUFFICES ASSUME QueueInv, pc = "idle" PROVE OrphansWaitForParent
    BY DEF OrphansWaitForParent
  <2>1. vWorkQueue = <<>>
    BY DEF QueueInv
  <2>2. ToSet(vWorkQueue) = {}
    BY <2>1 DEF ToSet
  <2> QED BY <2>2 DEF QueueInv, Calling, OrphansWaitForParent
<1> QED BY <1>1, <1>2, <1>3, CoreHolds, PTL DEF Spec
=============================================================================
