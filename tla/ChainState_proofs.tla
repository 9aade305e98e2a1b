-------------------------- MODULE ChainState_proofs --------------------------
(***************************************************************************)
(* Proofs about the best chain, its coin view and the memory pool, for     *)
(* every set of transactions and every tree of blocks: the view is the     *)
(* chain's through any reorganisation, no money is created, and the pool   *)
(* follows the chain.                                                      *)
(***************************************************************************)
EXTENDS ChainState, SequenceTheorems, FiniteSetTheorems, WellFoundedInduction, TLAPS

(***************************************************************************)
(* Recursion and induction.  Every induction goes by a least               *)
(* counterexample.                                                         *)
(***************************************************************************)
LEMMA LeastElement ==
    ASSUME NEW S \in SUBSET Nat, S # {}
    PROVE  \E x \in S : \A y \in S : x <= y
<1> DEFINE R == {p \in Nat \X Nat : p[1] < p[2]}
<1>1. IsWellFoundedOn(R, Nat)
  BY NatLessThanWellFounded DEF OpToRel
<1> HIDE DEF R
<1>2. PICK x \in S : \A y \in S : ~(<<y, x>> \in R)
  BY <1>1, WFMin
<1>3. \A y \in S : ~(y < x)
  BY <1>2 DEF R
<1> QED BY <1>3

LEMMA GreatestElement ==
    ASSUME NEW n \in Nat, NEW S \in SUBSET (0..n), S # {}
    PROVE  \E x \in S : \A y \in S : x >= y
<1> DEFINE T == {n - x : x \in S}
<1>1. T \in SUBSET Nat /\ T # {}
  <2>1. ASSUME NEW x \in S PROVE n - x \in Nat
    OBVIOUS
  <2> QED BY <2>1
<1> HIDE DEF T
<1>2. PICK t \in T : \A u \in T : t <= u
  BY <1>1, LeastElement
<1>3. PICK x \in S : t = n - x
  BY DEF T
<1>4. ASSUME NEW y \in S PROVE x >= y
  <2>1. n - y \in T
    BY DEF T
  <2>2. t <= n - y
    BY <1>2, <2>1
  <2> QED BY <1>3, <2>2
<1> QED BY <1>4

(* A set of numbers from m to n that holds m, and with i - 1 also i, is    *)
(* m..n.                                                                   *)
LEMMA Interval ==
    ASSUME NEW m \in Nat, NEW n \in Nat, NEW T, m <= n,
           m \in T, \A i \in (m + 1)..n : i - 1 \in T => i \in T
    PROVE  \A i \in m..n : i \in T
<1> DEFINE S == {i \in m..n : i \notin T}
<1> SUFFICES ASSUME S # {} PROVE FALSE
  OBVIOUS
<1>1. S \in SUBSET Nat
  OBVIOUS
<1>2. PICK x \in S : \A y \in S : x <= y
  BY <1>1, LeastElement
<1>3. x \in m..n /\ x \notin T /\ x # m
  OBVIOUS
<1>4. x - 1 \in m..n /\ x \in (m + 1)..n
  BY <1>3
<1>5. x - 1 \notin S
  <2> HIDE DEF S
  <2> QED BY <1>1, <1>2, <1>3
<1> QED BY <1>3, <1>4, <1>5

LEMMA Interval0 ==
    ASSUME NEW n \in Nat, NEW T, 0 \in T, \A i \in 1..n : i - 1 \in T => i \in T
    PROVE  n \in T /\ \A i \in 0..n : i \in T
<1>1. \A i \in 0..n : i \in T
  BY Interval
<1> QED BY <1>1

(* Functions on 0..N defined from the value before exist.                  *)
SeqStep(N, V, v0, G) == N \in Nat /\ v0 \in V /\ G \in [(1..N) \X V -> V]
SeqFunction(f, N, V, v0, G) ==
    f \in [0..N -> V] /\ f[0] = v0 /\ \A i \in 1..N : f[i] = G[<<i, f[i - 1]>>]

LEMMA SeqRecursion ==
    ASSUME NEW N, NEW V, NEW v0, NEW G, SeqStep(N, V, v0, G)
    PROVE  \E f : SeqFunction(f, N, V, v0, G)
<1> USE DEF SeqStep, SeqFunction
<1> DEFINE Good(f, n) == /\ f \in [0..n -> V]
                         /\ f[0] = v0
                         /\ \A i \in 1..n : f[i] = G[<<i, f[i - 1]>>]
           T == {n \in Nat : \E f : Good(f, n)}
<1>1. 0 \in T
  <2>1. Good([i \in 0..0 |-> v0], 0)
    OBVIOUS
  <2> QED BY <2>1
<1>2. ASSUME NEW n \in 1..N, n - 1 \in T PROVE n \in T
  <2>0. n \in Nat /\ n - 1 \in Nat
    OBVIOUS
  <2>1. PICK g : Good(g, n - 1)
    BY <1>2
  <2> DEFINE f == [i \in 0..n |-> IF i = n THEN G[<<n, g[n - 1]>>] ELSE g[i]]
  <2>2. \A i \in 0..(n - 1) : g[i] \in V
    BY <2>1
  <2>3. f \in [0..n -> V]
    <3>1. ASSUME NEW i \in 0..n PROVE f[i] \in V
      BY <2>0, <2>2
    <3> QED BY <3>1
  <2>4. f[0] = v0
    BY <2>0, <2>1
  <2>5. ASSUME NEW i \in 1..n PROVE f[i] = G[<<i, f[i - 1]>>]
    <3>1. f[i - 1] = g[i - 1]
      BY <2>0
    <3>2. CASE i = n
      <4>1. f[n] = G[<<n, g[n - 1]>>]
        BY <2>0
      <4> HIDE DEF f
      <4> QED BY <3>1, <3>2, <4>1
    <3>3. CASE i # n
      BY <2>0, <2>1, <3>1, <3>3
    <3> QED BY <3>2, <3>3
  <2>6. Good(f, n)
    BY <2>3, <2>4, <2>5
  <2> QED BY <2>0, <2>6
<1>3. N \in T
  <2> HIDE DEF T
  <2> QED BY <1>1, <1>2, Interval
<1> QED BY <1>3

-----------------------------------------------------------------------------
(***************************************************************************)
(* The constants.                                                          *)
(***************************************************************************)
LEMMA TxFacts ==
    ASSUME NEW tx \in Tx
    PROVE  /\ vin[tx] \in Seq(Tx \X (Nat \ {0})) /\ Len(vin[tx]) \in Nat
           /\ DOMAIN vin[tx] = 1..Len(vin[tx])
           /\ \A i \in 1..Len(vin[tx]) : /\ vin[tx][i] = <<vin[tx][i][1], vin[tx][i][2]>>
                                         /\ vin[tx][i][1] \in Tx /\ vin[tx][i][2] \in Nat
           /\ \A i, j \in 1..Len(vin[tx]) : vin[tx][i] = vin[tx][j] => i = j
           /\ vout[tx] \in Seq(Nat) /\ Len(vout[tx]) \in Nat /\ DOMAIN vout[tx] = 1..Len(vout[tx])
           /\ tx \in CoinBase <=> Len(vin[tx]) = 0
<1>1. /\ vin[tx] \in Seq(Tx \X (Nat \ {0})) /\ vout[tx] \in Seq(Nat)
      /\ \A i, j \in DOMAIN vin[tx] : vin[tx][i] = vin[tx][j] => i = j
      /\ tx \in CoinBase <=> vin[tx] = <<>>
  BY BlockAssumption
<1>2. \A i \in 1..Len(vin[tx]) : vin[tx][i] \in Tx \X (Nat \ {0})
  BY <1>1
<1>3. \A i \in 1..Len(vin[tx]) : /\ vin[tx][i] = <<vin[tx][i][1], vin[tx][i][2]>>
                                 /\ vin[tx][i][1] \in Tx /\ vin[tx][i][2] \in Nat
  BY <1>2
<1>4. vin[tx] = <<>> <=> Len(vin[tx]) = 0
  BY <1>1
<1> QED BY <1>1, <1>3, <1>4, SMTT(30)

LEMMA BlockFacts ==
    ASSUME NEW b \in Block
    PROVE  /\ vtx[b] \in Seq(Tx) /\ Len(vtx[b]) \in Nat /\ Len(vtx[b]) >= 1
           /\ DOMAIN vtx[b] = 1..Len(vtx[b])
           /\ \A i \in 1..Len(vtx[b]) : vtx[b][i] \in Tx
           /\ \A i, j \in 1..Len(vtx[b]) : vtx[b][i] = vtx[b][j] => i = j
           /\ \A i \in 1..Len(vtx[b]) : vtx[b][i] \in CoinBase <=> i = 1
<1>1. /\ vtx[b] \in Seq(Tx) /\ vtx[b] # <<>>
      /\ \A i, j \in DOMAIN vtx[b] : vtx[b][i] = vtx[b][j] => i = j
      /\ \A i \in DOMAIN vtx[b] : vtx[b][i] \in CoinBase <=> i = 1
  BY BlockAssumption
<1>2. Len(vtx[b]) \in Nat /\ Len(vtx[b]) >= 1 /\ DOMAIN vtx[b] = 1..Len(vtx[b])
  BY <1>1
<1>3. \A i \in 1..Len(vtx[b]) : vtx[b][i] \in Tx
  BY <1>1
<1> QED BY <1>1, <1>2, <1>3

LEMMA PathFacts ==
    ASSUME NEW b \in Block
    PROVE  /\ Path[b] \in Seq(Block) /\ Len(Path[b]) \in Nat /\ Len(Path[b]) >= 1
           /\ Path[b][Len(Path[b])] = b
           /\ \A h \in 1..Len(Path[b]) :
                 /\ Path[b][h] \in Block
                 /\ Len(Path[Path[b][h]]) = h
                 /\ \A k \in 1..h : Path[Path[b][h]][k] = Path[b][k]
<1>1. /\ Path[b] \in Seq(Block) /\ Path[b] # <<>> /\ Path[b][Len(Path[b])] = b
      /\ \A h \in DOMAIN Path[b] : Path[Path[b][h]] = SubSeq(Path[b], 1, h)
  BY PathAssumption
<1>2. Len(Path[b]) \in Nat /\ Len(Path[b]) >= 1 /\ DOMAIN Path[b] = 1..Len(Path[b])
  BY <1>1
<1>3. ASSUME NEW h \in 1..Len(Path[b])
      PROVE  /\ Path[b][h] \in Block
             /\ Len(Path[Path[b][h]]) = h
             /\ \A k \in 1..h : Path[Path[b][h]][k] = Path[b][k]
  <2>1. Path[Path[b][h]] = SubSeq(Path[b], 1, h) /\ Path[b][h] \in Block
    BY <1>1, <1>2
  <2>2. Len(SubSeq(Path[b], 1, h)) = h /\ \A k \in 1..h : SubSeq(Path[b], 1, h)[k] = Path[b][k]
    BY <1>1, <1>2
  <2> QED BY <2>1, <2>2
<1> QED BY <1>1, <1>2, <1>3

-----------------------------------------------------------------------------
(***************************************************************************)
(* Places of a chain and what is unspent at one.                           *)
(***************************************************************************)
LEMMA PlacesDef ==
    ASSUME NEW c \in Seq(Block), NEW p
    PROVE  p \in Places(c) <=> /\ p \in Nat \X Nat /\ p = <<p[1], p[2]>>
                               /\ p[1] \in 1..Len(c) /\ p[2] \in 1..Len(vtx[c[p[1]]])
<1>1. \A h \in 1..Len(c) : c[h] \in Block /\ DOMAIN vtx[c[h]] = 1..Len(vtx[c[h]])
  BY BlockFacts
<1>2. DOMAIN c = 1..Len(c)
  OBVIOUS
<1>3. p \in Places(c) <=> \E h \in 1..Len(c) : p \in {h} \X (1..Len(vtx[c[h]]))
  BY <1>1, <1>2 DEF Places
<1>4. ASSUME NEW h \in 1..Len(c), p \in {h} \X (1..Len(vtx[c[h]]))
      PROVE  /\ p \in Nat \X Nat /\ p = <<p[1], p[2]>>
             /\ p[1] \in 1..Len(c) /\ p[2] \in 1..Len(vtx[c[p[1]]])
  <2>1. p = <<p[1], p[2]>> /\ p[1] = h /\ p[2] \in 1..Len(vtx[c[h]])
    BY <1>4
  <2>2. Len(vtx[c[h]]) \in Nat
    BY <1>1, BlockFacts
  <2> QED BY <2>1, <2>2
<1>5. ASSUME p = <<p[1], p[2]>>, p[1] \in 1..Len(c), p[2] \in 1..Len(vtx[c[p[1]]])
      PROVE  p \in {p[1]} \X (1..Len(vtx[c[p[1]]]))
  BY <1>5
<1> QED BY <1>3, <1>4, <1>5

LEMMA UptoStep ==
    ASSUME NEW c \in Seq(Block), NEW h \in 1..Len(c), NEW i \in 1..Len(vtx[c[h]])
    PROVE  /\ Upto(c, <<h, i + 1>>) = Upto(c, <<h, i>>) \cup {<<h, i>>}
           /\ <<h, i>> \notin Upto(c, <<h, i>>) /\ ~Before(<<h, i>>, <<h, i>>)
           /\ \A p \in Upto(c, <<h, i>>) : Before(p, <<h, i>>) /\ ~Before(<<h, i>>, p)
<1>0. h \in Nat /\ i \in Nat
  <2>1. c[h] \in Block
    OBVIOUS
  <2> QED BY <2>1, BlockFacts
<1>1. <<h, i>> \in Places(c)
  BY <1>0, PlacesDef
<1>2. Before(<<h, i>>, <<h, i + 1>>) /\ ~Before(<<h, i>>, <<h, i>>)
  BY <1>0 DEF Before
<1>3. ASSUME NEW p \in Places(c)
      PROVE  /\ Before(p, <<h, i + 1>>) <=> Before(p, <<h, i>>) \/ p = <<h, i>>
             /\ Before(p, <<h, i>>) => ~Before(<<h, i>>, p)
  <2>1. p[1] \in Nat /\ p[2] \in Nat /\ p = <<p[1], p[2]>>
    BY PlacesDef
  <2> QED BY <1>0, <2>1 DEF Before
<1> QED BY <1>1, <1>2, <1>3 DEF Upto

LEMMA UptoNext ==
    ASSUME NEW c \in Seq(Block), NEW h \in 1..Len(c)
    PROVE  Upto(c, <<h, Len(vtx[c[h]]) + 1>>) = Upto(c, <<h + 1, 1>>)
<1>0. h \in Nat /\ Len(vtx[c[h]]) \in Nat
  <2>1. c[h] \in Block
    OBVIOUS
  <2> QED BY <2>1, BlockFacts
<1>1. ASSUME NEW p \in Places(c)
      PROVE  Before(p, <<h, Len(vtx[c[h]]) + 1>>) <=> Before(p, <<h + 1, 1>>)
  <2>1. p[1] \in Nat /\ p[2] \in Nat /\ p[2] \in 1..Len(vtx[c[p[1]]])
    BY PlacesDef
  <2> QED BY <1>0, <2>1 DEF Before
<1> QED BY <1>1 DEF Upto

LEMMA UptoFirst ==
    ASSUME NEW c \in Seq(Block)
    PROVE  Upto(c, <<1, 1>>) = {}
<1>1. ASSUME NEW p \in Places(c) PROVE ~Before(p, <<1, 1>>)
  <2>1. p[1] \in Nat /\ p[2] \in Nat /\ p[1] >= 1 /\ p[2] >= 1
    BY PlacesDef
  <2> QED BY <2>1 DEF Before
<1> QED BY <1>1 DEF Upto

LEMMA UptoEnd ==
    ASSUME NEW c \in Seq(Block)
    PROVE  Upto(c, End(c)) = Places(c)
<1>1. ASSUME NEW p \in Places(c) PROVE Before(p, End(c))
  BY PlacesDef DEF Before, End
<1> QED BY <1>1 DEF Upto

(* The place end looks back on the same transactions in c and in d.        *)
Same(c, d, end) ==
    Upto(c, end) = Upto(d, end) /\ \A p \in Upto(c, end) : TxAt(c, p) = TxAt(d, p)

Agree(c, d, h) == h <= Len(c) /\ h <= Len(d) /\ \A k \in 1..h : c[k] = d[k]

LEMMA AgreeSame ==
    ASSUME NEW c \in Seq(Block), NEW d \in Seq(Block), NEW h \in Nat, Agree(c, d, h)
    PROVE  /\ Same(c, d, <<h + 1, 1>>)
           /\ \A k \in 1..h, i \in Nat : Same(c, d, <<k, i>>)
<1> USE DEF Agree
<1>1. ASSUME NEW e1 \in Nat, NEW e2 \in Nat, e1 <= h \/ (e1 = h + 1 /\ e2 = 1)
      PROVE  Same(c, d, <<e1, e2>>)
  <2>1. ASSUME NEW p \in Places(c), Before(p, <<e1, e2>>)
        PROVE  p \in Places(d) /\ TxAt(c, p) = TxAt(d, p)
    <3>1. /\ p \in Nat \X Nat /\ p = <<p[1], p[2]>> /\ p[1] \in Nat
          /\ p[1] \in 1..Len(c) /\ p[2] \in 1..Len(vtx[c[p[1]]])
      BY PlacesDef
    <3>2. p[1] \in 1..h
      BY <1>1, <2>1, <3>1 DEF Before
    <3> QED BY <3>1, <3>2, PlacesDef DEF TxAt
  <2>2. ASSUME NEW p \in Places(d), Before(p, <<e1, e2>>) PROVE p \in Places(c)
    <3>1. /\ p \in Nat \X Nat /\ p = <<p[1], p[2]>> /\ p[1] \in Nat
          /\ p[1] \in 1..Len(d) /\ p[2] \in 1..Len(vtx[d[p[1]]])
      BY PlacesDef
    <3>2. p[1] \in 1..h
      BY <1>1, <2>2, <3>1 DEF Before
    <3> QED BY <3>1, <3>2, PlacesDef
  <2> QED BY <2>1, <2>2 DEF Same, Upto
<1> QED BY <1>1

LEMMA SameUnspent ==
    ASSUME NEW c, NEW d, NEW end, Same(c, d, end)
    PROVE  /\ \A o : Unspent(c, o, end) <=> Unspent(d, o, end)
           /\ \A tx, h : LastAt(c, tx, h, end) <=> LastAt(d, tx, h, end)
<1>1. \A o : Unspent(c, o, end) <=> Unspent(d, o, end)
  BY DEF Same, Unspent
<1>2. \A tx, h : LastAt(c, tx, h, end) <=> LastAt(d, tx, h, end)
  BY DEF Same, LastAt
<1> QED BY <1>1, <1>2

LEMMA UnspentStep ==
    ASSUME NEW c \in Seq(Block), NEW h \in 1..Len(c), NEW i \in 1..Len(vtx[c[h]]), NEW o
    PROVE  Unspent(c, o, <<h, i + 1>>)
             <=> \/ vtx[c[h]][i] = o[1]
                 \/ Unspent(c, o, <<h, i>>) /\ o \notin Pool!Ins(vtx[c[h]][i])
<1> DEFINE e == <<h, i>>  old == Upto(c, e)  new == Upto(c, <<h, i + 1>>)  tx == vtx[c[h]][i]
<1>1. /\ new = old \cup {e} /\ e \notin old /\ ~Before(e, e)
      /\ \A p \in old : Before(p, e) /\ ~Before(e, p)
  BY UptoStep
<1>2. TxAt(c, e) = tx
  BY DEF TxAt
<1>3. Unspent(c, o, <<h, i + 1>>)
        <=> \E p \in new : TxAt(c, p) = o[1] /\ \A q \in new : Before(p, q) => o \notin Pool!Ins(TxAt(c, q))
  BY DEF Unspent
<1>4. Unspent(c, o, e)
        <=> \E p \in old : TxAt(c, p) = o[1] /\ \A q \in old : Before(p, q) => o \notin Pool!Ins(TxAt(c, q))
  BY DEF Unspent
<1> HIDE DEF e, old, new, tx
<1>5. ASSUME NEW p \in new, TxAt(c, p) = o[1], \A q \in new : Before(p, q) => o \notin Pool!Ins(TxAt(c, q)),
             tx # o[1]
      PROVE  Unspent(c, o, e) /\ o \notin Pool!Ins(tx)
  BY <1>1, <1>2, <1>4, <1>5
<1>6. ASSUME tx = o[1]
      PROVE  Unspent(c, o, <<h, i + 1>>)
  <2>1. e \in new /\ TxAt(c, e) = o[1]
    BY <1>1, <1>2, <1>6
  <2>2. \A q \in new : ~Before(e, q)
    BY <1>1
  <2> QED BY <1>3, <2>1, <2>2
<1>7. ASSUME Unspent(c, o, e), o \notin Pool!Ins(tx)
      PROVE  Unspent(c, o, <<h, i + 1>>)
  <2>1. PICK p \in old : TxAt(c, p) = o[1] /\ \A q \in old : Before(p, q) => o \notin Pool!Ins(TxAt(c, q))
    BY <1>4, <1>7
  <2> QED BY <1>1, <1>2, <1>3, <1>7, <2>1
<1>8. Unspent(c, o, <<h, i + 1>>) <=> tx = o[1] \/ (Unspent(c, o, e) /\ o \notin Pool!Ins(tx))
  BY <1>3, <1>5, <1>6, <1>7
<1> QED BY <1>8 DEF e, tx

LEMMA LastAtStep ==
    ASSUME NEW c \in Seq(Block), NEW h \in 1..Len(c), NEW i \in 1..Len(vtx[c[h]]), NEW t, NEW k
    PROVE  LastAt(c, t, k, <<h, i + 1>>)
             <=> IF vtx[c[h]][i] = t THEN k = h ELSE LastAt(c, t, k, <<h, i>>)
<1> DEFINE e == <<h, i>>  old == Upto(c, e)  new == Upto(c, <<h, i + 1>>)  tx == vtx[c[h]][i]
           Latest(p, past) == /\ TxAt(c, p) = t /\ p[1] = k
                              /\ \A q \in past : Before(p, q) => TxAt(c, q) # t
<1>1. /\ new = old \cup {e} /\ e \notin old /\ ~Before(e, e)
      /\ \A p \in old : Before(p, e) /\ ~Before(e, p)
  BY UptoStep
<1>2. TxAt(c, e) = tx /\ e[1] = h
  BY DEF TxAt
<1>3. LastAt(c, t, k, <<h, i + 1>>) <=> \E p \in new : Latest(p, new)
  BY DEF LastAt
<1>4. LastAt(c, t, k, e) <=> \E p \in old : Latest(p, old)
  BY DEF LastAt
<1> HIDE DEF e, old, new, tx
<1>5. CASE tx = t
  <2>1. \A p \in new : Latest(p, new) => p = e
    BY <1>1, <1>2, <1>5
  <2>2. Latest(e, new) <=> k = h
    BY <1>1, <1>2, <1>5
  <2>3. LastAt(c, t, k, <<h, i + 1>>) <=> k = h
    <3> HIDE DEF Latest
    <3> QED BY <1>1, <1>3, <2>1, <2>2
  <2> QED BY <2>3, <1>5 DEF tx
<1>6. CASE tx # t
  <2>1. \A p \in new : Latest(p, new) => p \in old /\ Latest(p, old)
    BY <1>1, <1>2, <1>6
  <2>2. \A p \in old : Latest(p, old) => Latest(p, new)
    BY <1>1, <1>2, <1>6
  <2>3. LastAt(c, t, k, <<h, i + 1>>) <=> LastAt(c, t, k, e)
    <3> HIDE DEF Latest
    <3> QED BY <1>1, <1>3, <1>4, <2>1, <2>2
  <2> QED BY <2>3, <1>6 DEF tx, e
<1> QED BY <1>5, <1>6

LEMMA UnspentNext ==
    ASSUME NEW c \in Seq(Block), NEW h \in 1..Len(c)
    PROVE  LET last == <<h, Len(vtx[c[h]]) + 1>>
           IN  /\ \A o : Unspent(c, o, last) <=> Unspent(c, o, <<h + 1, 1>>)
               /\ \A tx, k : LastAt(c, tx, k, last) <=> LastAt(c, tx, k, <<h + 1, 1>>)
<1>1. Upto(c, <<h, Len(vtx[c[h]]) + 1>>) = Upto(c, <<h + 1, 1>>)
  BY UptoNext
<1> QED BY <1>1 DEF Unspent, LastAt

-----------------------------------------------------------------------------
(***************************************************************************)
(* A view that is the chain's at a place, and what connecting one          *)
(* transaction does to it.                                                 *)
(***************************************************************************)
RawView == [Tx -> [vout : SUBSET Nat, nHeight : Nat]]

Matches(view, c, end) ==
    /\ view \in RawView
    /\ \A t \in Tx :
          /\ view[t].vout \subseteq DOMAIN vout[t]
          /\ \A n \in DOMAIN vout[t] : n \in view[t].vout <=> Unspent(c, <<t, n>>, end)
          /\ view[t].vout # {} => LastAt(c, t, view[t].nHeight, end)

LEMMA MatchesSame ==
    ASSUME NEW view, NEW c, NEW d, NEW end, Same(c, d, end), Matches(view, c, end)
    PROVE  Matches(view, d, end)
BY SameUnspent DEF Matches

LEMMA MatchesNext ==
    ASSUME NEW view, NEW c \in Seq(Block), NEW h \in 1..Len(c)
    PROVE  Matches(view, c, <<h, Len(vtx[c[h]]) + 1>>) <=> Matches(view, c, <<h + 1, 1>>)
BY UnspentNext DEF Matches

LEMMA InsDef ==
    ASSUME NEW tx \in Tx
    PROVE  /\ Pool!Ins(tx) = {vin[tx][j] : j \in 1..Len(vin[tx])}
           /\ \A o \in Pool!Ins(tx) : o[1] \in Tx /\ o[2] \in Nat /\ o = <<o[1], o[2]>>
<1>1. Pool!Ins(tx) = {vin[tx][j] : j \in 1..Len(vin[tx])}
  BY TxFacts DEF Pool!Ins
<1> QED BY <1>1, TxFacts

LEMMA SpentOfDef ==
    ASSUME NEW tx \in Tx, NEW t, NEW n
    PROVE  n \in SpentOf(t, tx, Len(vin[tx])) <=> <<t, n>> \in Pool!Ins(tx)
<1>1. n \in SpentOf(t, tx, Len(vin[tx])) <=> \E j \in 1..Len(vin[tx]) : vin[tx][j][1] = t /\ vin[tx][j][2] = n
  BY DEF SpentOf
<1>2. \A j \in 1..Len(vin[tx]) : vin[tx][j] = <<vin[tx][j][1], vin[tx][j][2]>>
  BY TxFacts
<1>3. <<t, n>> \in Pool!Ins(tx) <=> \E j \in 1..Len(vin[tx]) : vin[tx][j] = <<t, n>>
  BY InsDef
<1> QED BY <1>1, <1>2, <1>3

LEMMA UpdateFacts ==
    ASSUME NEW view \in RawView, NEW tx \in Tx, NEW h \in Nat
    PROVE  LET new == UpdateCoins(view, tx, h).view
           IN  /\ new \in RawView
               /\ new[tx] = [vout |-> DOMAIN vout[tx], nHeight |-> h]
               /\ \A t \in Tx : t # tx => /\ new[t].vout = view[t].vout \ SpentOf(t, tx, Len(vin[tx]))
                                          /\ new[t].nHeight = view[t].nHeight
<1> DEFINE new == UpdateCoins(view, tx, h).view
<1>1. new = [t \in Tx |-> IF t = tx THEN CCoins(tx, h)
                          ELSE [view[t] EXCEPT !.vout = @ \ SpentOf(t, tx, Len(vin[tx]))]]
  BY DEF UpdateCoins
<1>2. \A t \in Tx : view[t] \in [vout : SUBSET Nat, nHeight : Nat]
  BY DEF RawView
<1>3. CCoins(tx, h) \in [vout : SUBSET Nat, nHeight : Nat] /\ CCoins(tx, h) = [vout |-> DOMAIN vout[tx], nHeight |-> h]
  <2>1. DOMAIN vout[tx] \in SUBSET Nat
    BY TxFacts
  <2> QED BY <2>1 DEF CCoins
<1>4. ASSUME NEW t \in Tx
      PROVE  LET r == [view[t] EXCEPT !.vout = @ \ SpentOf(t, tx, Len(vin[tx]))]
             IN  /\ r \in [vout : SUBSET Nat, nHeight : Nat]
                 /\ r.vout = view[t].vout \ SpentOf(t, tx, Len(vin[tx]))
                 /\ r.nHeight = view[t].nHeight
  BY <1>2
<1> HIDE DEF new
<1>5. new \in RawView
  BY <1>1, <1>3, <1>4 DEF RawView
<1>6. new[tx] = [vout |-> DOMAIN vout[tx], nHeight |-> h]
  BY <1>1, <1>3
<1>7. \A t \in Tx : t # tx => new[t] = [view[t] EXCEPT !.vout = @ \ SpentOf(t, tx, Len(vin[tx]))]
  BY <1>1
<1>8. ASSUME NEW t \in Tx, t # tx
      PROVE  new[t].vout = view[t].vout \ SpentOf(t, tx, Len(vin[tx])) /\ new[t].nHeight = view[t].nHeight
  BY <1>4, <1>7, <1>8
<1> QED BY <1>5, <1>6, <1>8 DEF new

LEMMA UpdateMatches ==
    ASSUME NEW view, NEW c \in Seq(Block), NEW h \in 1..Len(c), NEW i \in 1..Len(vtx[c[h]]),
           Matches(view, c, <<h, i>>)
    PROVE  Matches(UpdateCoins(view, vtx[c[h]][i], h).view, c, <<h, i + 1>>)
<1> DEFINE tx == vtx[c[h]][i]  new == UpdateCoins(view, tx, h).view
<1>0. tx \in Tx /\ h \in Nat /\ view \in RawView
  <2>1. c[h] \in Block
    OBVIOUS
  <2> QED BY <2>1, BlockFacts DEF Matches
<1>1. /\ new \in RawView
      /\ new[tx] = [vout |-> DOMAIN vout[tx], nHeight |-> h]
      /\ \A t \in Tx : t # tx => /\ new[t].vout = view[t].vout \ SpentOf(t, tx, Len(vin[tx]))
                                 /\ new[t].nHeight = view[t].nHeight
  BY <1>0, UpdateFacts
<1>2. \A o : Unspent(c, o, <<h, i + 1>>)
               <=> tx = o[1] \/ (Unspent(c, o, <<h, i>>) /\ o \notin Pool!Ins(tx))
  BY UnspentStep
<1>3. \A t, k : LastAt(c, t, k, <<h, i + 1>>) <=> IF tx = t THEN k = h ELSE LastAt(c, t, k, <<h, i>>)
  BY LastAtStep
<1> HIDE DEF new, tx
<1>4. ASSUME NEW t \in Tx
      PROVE  /\ new[t].vout \subseteq DOMAIN vout[t]
             /\ \A n \in DOMAIN vout[t] : n \in new[t].vout <=> Unspent(c, <<t, n>>, <<h, i + 1>>)
             /\ new[t].vout # {} => LastAt(c, t, new[t].nHeight, <<h, i + 1>>)
  <2>1. CASE t = tx
    <3>1. new[t].vout = DOMAIN vout[t] /\ new[t].nHeight = h
      BY <1>1, <2>1
    <3>2. ASSUME NEW n PROVE Unspent(c, <<t, n>>, <<h, i + 1>>)
      BY <1>2, <2>1
    <3>3. LastAt(c, t, new[t].nHeight, <<h, i + 1>>)
      BY <1>3, <2>1, <3>1
    <3> QED BY <3>1, <3>2, <3>3
  <2>2. CASE t # tx
    <3>1. new[t].vout = view[t].vout \ SpentOf(t, tx, Len(vin[tx])) /\ new[t].nHeight = view[t].nHeight
      BY <1>1, <2>2
    <3>2. /\ view[t].vout \subseteq DOMAIN vout[t]
          /\ \A n \in DOMAIN vout[t] : n \in view[t].vout <=> Unspent(c, <<t, n>>, <<h, i>>)
          /\ view[t].vout # {} => LastAt(c, t, view[t].nHeight, <<h, i>>)
      BY DEF Matches
    <3>3. ASSUME NEW n \in DOMAIN vout[t]
          PROVE  n \in new[t].vout <=> Unspent(c, <<t, n>>, <<h, i + 1>>)
      <4>1. Unspent(c, <<t, n>>, <<h, i + 1>>)
              <=> Unspent(c, <<t, n>>, <<h, i>>) /\ <<t, n>> \notin Pool!Ins(tx)
        BY <1>2, <2>2
      <4>2. n \in SpentOf(t, tx, Len(vin[tx])) <=> <<t, n>> \in Pool!Ins(tx)
        BY <1>0, SpentOfDef
      <4> QED BY <3>1, <3>2, <4>1, <4>2
    <3>4. new[t].vout # {} => LastAt(c, t, new[t].nHeight, <<h, i + 1>>)
      <4>1. new[t].vout # {} => view[t].vout # {}
        BY <3>1
      <4> QED BY <1>3, <2>2, <3>1, <3>2, <4>1
    <3> QED BY <3>1, <3>2, <3>3, <3>4
  <2> QED BY <2>1, <2>2
<1> QED BY <1>1, <1>4 DEF Matches, new, tx

-----------------------------------------------------------------------------
(***************************************************************************)
(* Sums.                                                                   *)
(***************************************************************************)
Sums(f, s) ==
    f \in [0..Len(s) -> Int] /\ f[0] = 0 /\ \A i \in 1..Len(s) : f[i] = f[i - 1] + s[i]

LEMMA TotalDef ==
    ASSUME NEW s \in Seq(Int)
    PROVE  \E f : Sums(f, s) /\ Total(s) = f[Len(s)]
<1> DEFINE N == Len(s)
           Def(f) == [i \in 0..N |-> IF i = 0 THEN 0 ELSE f[i - 1] + s[i]]
           sum == CHOOSE f : f = Def(f)
<1>0. N \in Nat /\ \A i \in 1..N : s[i] \in Int
  OBVIOUS
<1>1. \E f : f = Def(f)
  <2> DEFINE G == [x \in (1..N) \X Int |-> x[2] + s[x[1]]]
  <2>1. SeqStep(N, Int, 0, G)
    BY <1>0 DEF SeqStep
  <2>2. PICK f : SeqFunction(f, N, Int, 0, G)
    <3> HIDE DEF G, N
    <3> QED BY <2>1, SeqRecursion
  <2>3. ASSUME NEW i \in 1..N PROVE f[i] = f[i - 1] + s[i]
    <3>1. f[i] = G[<<i, f[i - 1]>>] /\ f[i - 1] \in Int
      <4>1. i - 1 \in 0..N
        BY <1>0
      <4> HIDE DEF G, N
      <4> QED BY <2>2, <4>1 DEF SeqFunction
    <3> QED BY <3>1
  <2>4. f \in [0..N -> Int] /\ f[0] = 0
    BY <2>2 DEF SeqFunction
  <2>5. f = Def(f)
    <3>1. ASSUME NEW i \in 0..N PROVE f[i] = Def(f)[i]
      <4>1. CASE i = 0
        BY <2>4, <4>1
      <4>2. CASE i # 0
        BY <1>0, <2>3, <4>2
      <4> QED BY <4>1, <4>2
    <3> QED BY <2>4, <3>1
  <2> QED BY <2>5
<1>2. sum = Def(sum)
  BY <1>1
<1>3. Total(s) = sum[N]
  BY DEF Total
<1> HIDE DEF sum
<1>4. sum[0] = 0 /\ \A i \in 1..N : sum[i] = sum[i - 1] + s[i]
  <2>1. \A i \in 0..N : sum[i] = Def(sum)[i]
    BY <1>2
  <2> QED BY <1>0, <2>1
<1>5. \A i \in 0..N : sum[i] \in Int
  <2> DEFINE T == {i \in 0..N : sum[i] \in Int}
  <2>1. 0 \in T
    BY <1>0, <1>4
  <2>2. ASSUME NEW i \in 1..N, i - 1 \in T PROVE i \in T
    BY <1>0, <1>4, <2>2
  <2>3. \A i \in 0..N : i \in T
    <3> HIDE DEF T, N
    <3> QED BY <1>0, <2>1, <2>2, Interval0
  <2> QED BY <2>3
<1>6. sum \in [0..N -> Int]
  BY <1>2, <1>5
<1> QED BY <1>3, <1>4, <1>6 DEF Sums

LEMMA TotalInt ==
    ASSUME NEW s \in Seq(Int) PROVE Total(s) \in Int
BY TotalDef DEF Sums

LEMMA SumGap ==
    ASSUME NEW a \in Int, NEW b \in Int, NEW x \in Int, NEW y \in Int
    PROVE  (a + x) - (b + y) = (a - b) + (x - y) /\ (x = y => (a + x) - (b + y) = a - b)
OBVIOUS

(* Two sequences that agree everywhere but at k, and two that agree.       *)
LEMMA TotalPoint ==
    ASSUME NEW s \in Seq(Int), NEW r \in Seq(Int), Len(s) = Len(r), NEW k \in 1..Len(s),
           \A i \in 1..Len(s) : i # k => s[i] = r[i]
    PROVE  Total(s) - Total(r) = s[k] - r[k]
<1>0. Len(s) \in Nat /\ s[k] \in Int /\ r[k] \in Int /\ k \in Nat
  OBVIOUS
<1>1. PICK f : Sums(f, s) /\ Total(s) = f[Len(s)]
  BY TotalDef
<1>2. PICK g : Sums(g, r) /\ Total(r) = g[Len(s)]
  BY TotalDef
<1> DEFINE T == {i \in 0..Len(s) : f[i] - g[i] = IF i < k THEN 0 ELSE s[k] - r[k]}
<1>3. /\ f[0] = 0 /\ g[0] = 0
      /\ \A i \in 0..Len(s) : f[i] \in Int /\ g[i] \in Int
      /\ \A i \in 1..Len(s) : f[i] = f[i - 1] + s[i] /\ g[i] = g[i - 1] + r[i]
  BY <1>1, <1>2 DEF Sums
<1>4. 0 \in T
  BY <1>0, <1>3
<1>5. ASSUME NEW i \in 1..Len(s), i - 1 \in T PROVE i \in T
  <2>0. i \in Nat /\ i - 1 \in 0..Len(s) /\ i \in 0..Len(s)
    BY <1>0
  <2>a. f[i - 1] - g[i - 1] = IF i - 1 < k THEN 0 ELSE s[k] - r[k]
    BY <1>5
  <2>b. s[i] \in Int /\ r[i] \in Int
    OBVIOUS
  <2> HIDE DEF T
  <2>1. /\ f[i - 1] \in Int /\ g[i - 1] \in Int
        /\ f[i] = f[i - 1] + s[i] /\ g[i] = g[i - 1] + r[i]
    BY <1>3, <2>0
  <2>c. SUFFICES f[i] - g[i] = IF i < k THEN 0 ELSE s[k] - r[k]
    BY <2>0 DEF T
  <2>d. /\ f[i] - g[i] = (f[i - 1] - g[i - 1]) + (s[i] - r[i])
        /\ s[i] = r[i] => f[i] - g[i] = f[i - 1] - g[i - 1]
    <3> DEFINE a == f[i - 1]  b == g[i - 1]  x == s[i]  y == r[i]
    <3>1. a \in Int /\ b \in Int /\ x \in Int /\ y \in Int /\ f[i] = a + x /\ g[i] = b + y
      BY <2>b, <2>1
    <3> HIDE DEF a, b, x, y
    <3>2. (a + x) - (b + y) = (a - b) + (x - y) /\ (x = y => (a + x) - (b + y) = a - b)
      BY <3>1, SumGap
    <3>3. f[i] - g[i] = (a - b) + (x - y) /\ (x = y => f[i] - g[i] = a - b)
      BY <3>1, <3>2, Zenon
    <3> QED BY <3>3, Zenon DEF a, b, x, y
  <2>2. CASE i = k
    <3>1. i - 1 < k /\ ~(i < k)
      BY <1>0, <2>0, <2>2
    <3>2. s[i] - r[i] = 0 + (s[i] - r[i])
      BY <2>b
    <3> QED BY <2>2, <2>a, <2>d, <3>1, <3>2
  <2>3. CASE i # k
    <3>1. s[i] = r[i]
      BY <2>3
    <3>2. (i - 1 < k) <=> (i < k)
      BY <1>0, <2>0, <2>3
    <3>3. f[i] - g[i] = f[i - 1] - g[i - 1]
      BY <2>d, <3>1
    <3> QED BY <2>a, <3>2, <3>3
  <2> QED BY <2>2, <2>3
<1>6. Len(s) \in T
  <2> DEFINE N == Len(s)
  <2> HIDE DEF T
  <2>1. N \in Nat /\ \A i \in 1..N : i - 1 \in T => i \in T
    BY <1>0, <1>5
  <2> HIDE DEF N
  <2>2. N \in T
    BY <1>4, <2>1, Interval0
  <2> QED BY <2>2 DEF N
<1> QED BY <1>0, <1>1, <1>2, <1>6

LEMMA TotalSame ==
    ASSUME NEW s \in Seq(Int), NEW r \in Seq(Int), Len(s) = Len(r),
           \A i \in 1..Len(s) : s[i] = r[i]
    PROVE  Total(s) = Total(r)
<1>1. s = r
  OBVIOUS
<1> QED BY <1>1

LEMMA TotalZero ==
    ASSUME NEW s \in Seq(Int), \A i \in 1..Len(s) : s[i] = 0
    PROVE  Total(s) = 0
<1>1. PICK f : Sums(f, s) /\ Total(s) = f[Len(s)]
  BY TotalDef
<1> DEFINE T == {i \in 0..Len(s) : f[i] = 0}
<1>2. 0 \in T
  BY <1>1 DEF Sums
<1>3. ASSUME NEW i \in 1..Len(s), i - 1 \in T PROVE i \in T
  BY <1>1, <1>3 DEF Sums
<1>4. Len(s) \in T
  <2> DEFINE N == Len(s)
  <2> HIDE DEF T
  <2>1. N \in Nat /\ \A i \in 1..N : i - 1 \in T => i \in T
    BY <1>3
  <2> HIDE DEF N
  <2>2. N \in T
    BY <1>2, <2>1, Interval0
  <2> QED BY <2>2 DEF N
<1> QED BY <1>1, <1>4

(* The first terms.                                                        *)
LEMMA TotalLast ==
    ASSUME NEW s \in Seq(Int), NEW r \in Seq(Int), Len(s) = Len(r) + 1,
           \A i \in 1..Len(r) : s[i] = r[i]
    PROVE  Total(s) = Total(r) + s[Len(s)]
<1>0. Len(r) \in Nat /\ Len(s) \in Nat
  OBVIOUS
<1>1. PICK f : Sums(f, s) /\ Total(s) = f[Len(s)]
  BY TotalDef
<1>2. PICK g : Sums(g, r) /\ Total(r) = g[Len(r)]
  BY TotalDef
<1> DEFINE T == {i \in 0..Len(r) : f[i] = g[i]}
<1>3. 0 \in T
  BY <1>0, <1>1, <1>2 DEF Sums
<1>4. ASSUME NEW i \in 1..Len(r), i - 1 \in T PROVE i \in T
  <2>1. f[i] = f[i - 1] + s[i] /\ g[i] = g[i - 1] + r[i]
    BY <1>0, <1>1, <1>2 DEF Sums
  <2> QED BY <1>4, <2>1
<1>5. Len(r) \in T
  <2> DEFINE N == Len(r)
  <2> HIDE DEF T
  <2>1. N \in Nat /\ \A i \in 1..N : i - 1 \in T => i \in T
    BY <1>0, <1>4
  <2> HIDE DEF N
  <2>2. N \in T
    BY <1>3, <2>1, Interval0
  <2> QED BY <2>2 DEF N
<1>6. f[Len(s)] = f[Len(r)] + s[Len(s)]
  <2>1. \A i \in 1..Len(s) : f[i] = f[i - 1] + s[i]
    BY <1>1 DEF Sums
  <2>2. Len(s) \in 1..Len(s) /\ Len(s) - 1 = Len(r)
    BY <1>0
  <2> QED BY <2>1, <2>2
<1> QED BY <1>1, <1>2, <1>5, <1>6

LEMMA SubsidyInt ==
    ASSUME NEW h \in Nat PROVE Subsidy(h) \in Int
<1> DEFINE N == h \div HALVING
           Def(f) == [k \in 0..N |-> IF k = 0 THEN INITIAL_SUBSIDY ELSE f[k - 1] \div 2]
           halved == CHOOSE f : f = Def(f)
<1>0. N \in Nat /\ INITIAL_SUBSIDY \in Int
  BY BlockAssumption
<1> HIDE DEF N
<1>1. \E f : f = Def(f)
  <2> DEFINE G == [x \in (1..N) \X Int |-> x[2] \div 2]
  <2>1. SeqStep(N, Int, INITIAL_SUBSIDY, G)
    BY <1>0 DEF SeqStep
  <2>2. PICK f : SeqFunction(f, N, Int, INITIAL_SUBSIDY, G)
    <3> HIDE DEF G
    <3> QED BY <2>1, SeqRecursion
  <2>3. ASSUME NEW i \in 1..N PROVE f[i] = f[i - 1] \div 2
    <3>1. f[i] = G[<<i, f[i - 1]>>] /\ f[i - 1] \in Int
      <4>1. i - 1 \in 0..N
        BY <1>0
      <4> HIDE DEF G
      <4> QED BY <2>2, <4>1 DEF SeqFunction
    <3> QED BY <3>1
  <2>4. f \in [0..N -> Int] /\ f[0] = INITIAL_SUBSIDY
    BY <2>2 DEF SeqFunction
  <2>5. f = Def(f)
    <3>1. ASSUME NEW i \in 0..N PROVE f[i] = Def(f)[i]
      <4>1. CASE i = 0
        BY <2>4, <4>1
      <4>2. CASE i # 0
        <5>1. i \in 1..N
          BY <1>0, <4>2
        <5> QED BY <2>3, <4>2, <5>1
      <4> QED BY <4>1, <4>2
    <3> QED BY <2>4, <3>1
  <2> QED BY <2>5
<1>2. halved = Def(halved)
  BY <1>1
<1>3. Subsidy(h) = halved[N]
  BY DEF Subsidy, N
<1> HIDE DEF halved
<1>4. \A i \in 0..N : halved[i] = Def(halved)[i]
  BY <1>2
<1> DEFINE T == {i \in 0..N : halved[i] \in Int}
<1>5. 0 \in T
  BY <1>0, <1>4
<1>6. ASSUME NEW i \in 1..N, i - 1 \in T PROVE i \in T
  <2>1. i \in 0..N /\ halved[i] = halved[i - 1] \div 2 /\ halved[i - 1] \in Int
    BY <1>0, <1>4, <1>6
  <2> QED BY <2>1
<1>7. N \in T
  <2> HIDE DEF T
  <2> QED BY <1>0, <1>5, <1>6, Interval0
<1> QED BY <1>3, <1>7

-----------------------------------------------------------------------------
(***************************************************************************)
(* The loop of ConnectBlock.                                               *)
(***************************************************************************)
View == {v \in RawView : \A t \in Tx : v[t].vout \subseteq DOMAIN vout[t]}
ConnState == [ok : BOOLEAN, view : View, nFees : Int, undo : Seq(Seq(Nat))]

LEMMA MatchesView ==
    ASSUME NEW view, NEW c, NEW end, Matches(view, c, end)
    PROVE  view \in View
BY DEF Matches, View

LEMMA ValueOutInt ==
    ASSUME NEW tx \in Tx PROVE GetValueOut(tx) \in Int
<1>1. vout[tx] \in Seq(Nat)
  BY TxFacts
<1>2. vout[tx] \in Seq(Int)
  BY <1>1, SMTT(30)
<1> QED BY <1>2, TotalInt DEF GetValueOut

(* The values of the inputs of tx.                                         *)
InValues(tx) == [i \in DOMAIN vin[tx] |-> vout[vin[tx][i][1]][vin[tx][i][2]]]

LEMMA InValuesSeq ==
    ASSUME NEW tx \in Tx, NEW view \in View, HaveInputs(view, tx)
    PROVE  /\ InValues(tx) \in Seq(Int) /\ Len(InValues(tx)) = Len(vin[tx])
           /\ \A i \in 1..Len(vin[tx]) :
                 /\ InValues(tx)[i] = vout[vin[tx][i][1]][vin[tx][i][2]]
                 /\ vin[tx][i][2] \in DOMAIN vout[vin[tx][i][1]]
           /\ GetValueIn(tx) = Total(InValues(tx)) /\ GetValueIn(tx) \in Int
<1> DEFINE n == Len(vin[tx])
<1>1. n \in Nat /\ DOMAIN vin[tx] = 1..n
  BY TxFacts
<1>2. ASSUME NEW i \in 1..n
      PROVE  vin[tx][i][2] \in DOMAIN vout[vin[tx][i][1]] /\ vout[vin[tx][i][1]][vin[tx][i][2]] \in Int
  <2>1. vin[tx][i][1] \in Tx
    BY TxFacts
  <2>2. vin[tx][i][2] \in view[vin[tx][i][1]].vout
    BY <1>1 DEF HaveInputs, IsAvailable
  <2>3. vin[tx][i][2] \in DOMAIN vout[vin[tx][i][1]]
    BY <2>1, <2>2 DEF View
  <2>4. vout[vin[tx][i][1]] \in Seq(Nat)
    BY <2>1, TxFacts
  <2> QED BY <2>3, <2>4
<1>3. InValues(tx) = [i \in 1..n |-> vout[vin[tx][i][1]][vin[tx][i][2]]]
  BY <1>1 DEF InValues
<1> HIDE DEF n
<1>4. InValues(tx) \in [1..n -> Int]
  BY <1>2, <1>3
<1>5. InValues(tx) \in Seq(Int) /\ Len(InValues(tx)) = n
  BY <1>1, <1>4
<1>6. GetValueIn(tx) = Total(InValues(tx))
  BY DEF GetValueIn, InValues
<1> QED BY <1>2, <1>3, <1>5, <1>6, TotalInt DEF n

LEMMA UpdateTypes ==
    ASSUME NEW view \in View, NEW tx \in Tx, NEW h \in Nat
    PROVE  UpdateCoins(view, tx, h).view \in View /\ UpdateCoins(view, tx, h).undo \in Seq(Nat)
<1> DEFINE new == UpdateCoins(view, tx, h).view  u == UpdateCoins(view, tx, h).undo
<1>0. view \in RawView /\ \A t \in Tx : view[t].vout \subseteq DOMAIN vout[t] /\ view[t].nHeight \in Nat
  BY DEF View, RawView
<1>1. new \in View
  <2>1. /\ new \in RawView
        /\ new[tx] = [vout |-> DOMAIN vout[tx], nHeight |-> h]
        /\ \A t \in Tx : t # tx => /\ new[t].vout = view[t].vout \ SpentOf(t, tx, Len(vin[tx]))
                                   /\ new[t].nHeight = view[t].nHeight
    BY <1>0, UpdateFacts
  <2> HIDE DEF new
  <2>2. ASSUME NEW t \in Tx PROVE new[t].vout \subseteq DOMAIN vout[t]
    <3>1. CASE t = tx
      BY <2>1, <3>1
    <3>2. CASE t # tx
      BY <1>0, <2>1, <3>2
    <3> QED BY <3>1, <3>2
  <2> QED BY <2>1, <2>2 DEF View
<1>2. u = [i \in 1..Len(vin[tx]) |-> Spend(view, tx, i)]
  BY DEF UpdateCoins
<1>3. ASSUME NEW i \in 1..Len(vin[tx]) PROVE Spend(view, tx, i) \in Nat
  <2>1. vin[tx][i][1] \in Tx
    BY TxFacts
  <2> QED BY <1>0, <2>1 DEF Spend
<1>4. Len(vin[tx]) \in Nat
  BY TxFacts
<1>5. u \in Seq(Nat)
  <2> HIDE DEF u
  <2> QED BY <1>2, <1>3, <1>4
<1> QED BY <1>1, <1>5

(* One transaction: either it fails, or its inputs were checked.           *)
Accepts(st, new, tx, h) ==
    /\ st.ok /\ new.ok
    /\ tx \notin CoinBase => CheckInputs(st.view, tx, h)
    /\ new.view = UpdateCoins(st.view, tx, h).view
    /\ new.nFees = st.nFees + IF tx \in CoinBase THEN 0 ELSE GetValueIn(tx) - GetValueOut(tx)
    /\ new.undo = IF tx \in CoinBase THEN st.undo
                  ELSE Append(st.undo, UpdateCoins(st.view, tx, h).undo)

LEMMA ConnectTxFacts ==
    ASSUME NEW st \in ConnState, NEW tx \in Tx, NEW h \in Nat
    PROVE  /\ ConnectTx(st, tx, h) \in ConnState
           /\ ConnectTx(st, tx, h).ok => Accepts(st, ConnectTx(st, tx, h), tx, h)
<1> DEFINE new == ConnectTx(st, tx, h)  upd == UpdateCoins(st.view, tx, h)
           bad == ~st.ok \/ (tx \notin CoinBase /\ ~CheckInputs(st.view, tx, h))
<1>0. /\ st.ok \in BOOLEAN /\ st.view \in View /\ st.nFees \in Int /\ st.undo \in Seq(Seq(Nat))
  BY DEF ConnState
<1>1. CASE bad
  <2>1. new = [st EXCEPT !.ok = FALSE]
    BY <1>1 DEF ConnectTx
  <2>2. new \in ConnState /\ new.ok = FALSE
    BY <1>0, <2>1 DEF ConnState
  <2> QED BY <2>2
<1>2. CASE ~bad
  <2>1. new = [ok    |-> TRUE,
               view  |-> upd.view,
               nFees |-> st.nFees + IF tx \in CoinBase THEN 0 ELSE GetValueIn(tx) - GetValueOut(tx),
               undo  |-> IF tx \in CoinBase THEN st.undo ELSE Append(st.undo, upd.undo)]
    BY <1>2 DEF ConnectTx
  <2>2. upd.view \in View /\ upd.undo \in Seq(Nat)
    BY <1>0, UpdateTypes
  <2>3. (IF tx \in CoinBase THEN 0 ELSE GetValueIn(tx) - GetValueOut(tx)) \in Int
    <3>1. CASE tx \in CoinBase
      BY <3>1
    <3>2. CASE tx \notin CoinBase
      <4>1. HaveInputs(st.view, tx)
        BY <1>2, <3>2 DEF CheckInputs
      <4> QED BY <1>0, <3>2, <4>1, InValuesSeq, ValueOutInt
    <3> QED BY <3>1, <3>2
  <2>4. (IF tx \in CoinBase THEN st.undo ELSE Append(st.undo, upd.undo)) \in Seq(Seq(Nat))
    <3> HIDE DEF upd
    <3> QED BY <1>0, <2>2
  <2>5. new \in ConnState
    <3> HIDE DEF new, upd
    <3>1. st.nFees + (IF tx \in CoinBase THEN 0 ELSE GetValueIn(tx) - GetValueOut(tx)) \in Int
      BY <1>0, <2>3
    <3> QED BY <2>1, <2>2, <2>4, <3>1 DEF ConnState
  <2>6. Accepts(st, new, tx, h)
    <3> HIDE DEF new
    <3> QED BY <1>2, <2>1 DEF Accepts
  <2> QED BY <2>5, <2>6
<1> QED BY <1>1, <1>2

ConnectLoop(st, fresh, view, b, h) ==
    /\ st \in [0..Len(vtx[b]) -> ConnState]
    /\ st[0] = [ok |-> fresh, view |-> view, nFees |-> 0, undo |-> <<>>]
    /\ \A i \in 1..Len(vtx[b]) : st[i] = ConnectTx(st[i - 1], vtx[b][i], h)

LEMMA ConnectTxsDef ==
    ASSUME NEW b \in Block, NEW view \in View, NEW h \in Nat, NEW fresh \in BOOLEAN
    PROVE  \E st : /\ ConnectLoop(st, fresh, view, b, h)
                   /\ ConnectTxs(fresh, view, b, h) = st[Len(vtx[b])]
<1> DEFINE N == Len(vtx[b])
           v0 == [ok |-> fresh, view |-> view, nFees |-> 0, undo |-> <<>>]
           Def(f) == [i \in 0..N |-> IF i = 0 THEN v0 ELSE ConnectTx(f[i - 1], vtx[b][i], h)]
           run == CHOOSE f : f = Def(f)
<1>0. N \in Nat /\ \A i \in 1..N : vtx[b][i] \in Tx
  BY BlockFacts
<1>a. v0 \in ConnState
  BY DEF ConnState
<1>b. ConnectTxs(fresh, view, b, h) = run[N]
  BY DEF ConnectTxs
<1> HIDE DEF N, v0
<1>1. \E f : f = Def(f)
  <2> DEFINE G == [x \in (1..N) \X ConnState |-> ConnectTx(x[2], vtx[b][x[1]], h)]
  <2>1. SeqStep(N, ConnState, v0, G)
    <3>1. ASSUME NEW x \in (1..N) \X ConnState PROVE ConnectTx(x[2], vtx[b][x[1]], h) \in ConnState
      <4>1. x[1] \in 1..N /\ x[2] \in ConnState /\ vtx[b][x[1]] \in Tx
        BY <1>0
      <4> QED BY <4>1, ConnectTxFacts
    <3> QED BY <1>0, <1>a, <3>1 DEF SeqStep
  <2>2. PICK f : SeqFunction(f, N, ConnState, v0, G)
    <3> HIDE DEF G
    <3> QED BY <2>1, SeqRecursion
  <2>3. ASSUME NEW i \in 1..N PROVE f[i] = ConnectTx(f[i - 1], vtx[b][i], h)
    <3>1. f[i] = G[<<i, f[i - 1]>>] /\ f[i - 1] \in ConnState
      <4>1. i - 1 \in 0..N
        BY <1>0
      <4> HIDE DEF G
      <4> QED BY <2>2, <4>1 DEF SeqFunction
    <3> QED BY <3>1
  <2>4. f \in [0..N -> ConnState] /\ f[0] = v0
    BY <2>2 DEF SeqFunction
  <2>5. f = Def(f)
    <3>1. ASSUME NEW i \in 0..N PROVE f[i] = Def(f)[i]
      <4>1. CASE i = 0
        BY <2>4, <4>1
      <4>2. CASE i # 0
        <5>1. i \in 1..N
          BY <1>0, <4>2
        <5> QED BY <2>3, <4>2, <5>1
      <4> QED BY <4>1, <4>2
    <3> QED BY <2>4, <3>1
  <2> QED BY <2>5
<1>2. run = Def(run)
  BY <1>1
<1> HIDE DEF run
<1>3. \A i \in 0..N : run[i] = Def(run)[i]
  BY <1>2
<1>4. run[0] = v0
  BY <1>0, <1>3
<1>5. ASSUME NEW i \in 1..N PROVE run[i] = ConnectTx(run[i - 1], vtx[b][i], h)
  BY <1>0, <1>3
<1> DEFINE T == {i \in 0..N : run[i] \in ConnState}
<1>6. 0 \in T
  BY <1>0, <1>a, <1>4
<1>7. ASSUME NEW i \in 1..N, i - 1 \in T PROVE i \in T
  <2>1. i \in 0..N /\ run[i - 1] \in ConnState
    BY <1>0, <1>7
  <2> QED BY <1>0, <1>5, <2>1, ConnectTxFacts
<1>8. \A i \in 0..N : i \in T
  <2> HIDE DEF T
  <2> QED BY <1>0, <1>6, <1>7, Interval0
<1>9. run \in [0..N -> ConnState]
  BY <1>2, <1>8
<1> QED BY <1>b, <1>4, <1>5, <1>9 DEF ConnectLoop, N, v0

(* A loop that ends well accepted every transaction.                       *)
LEMMA ConnectRuns ==
    ASSUME NEW b \in Block, NEW view \in View, NEW h \in Nat, NEW fresh \in BOOLEAN, NEW st,
           ConnectLoop(st, fresh, view, b, h), st[Len(vtx[b])].ok
    PROVE  /\ fresh
           /\ \A i \in 1..Len(vtx[b]) : /\ st[i - 1] \in ConnState /\ st[i] \in ConnState
                                        /\ Accepts(st[i - 1], st[i], vtx[b][i], h)
<1> DEFINE N == Len(vtx[b])
<1>0. N \in Nat /\ N >= 1 /\ \A i \in 1..N : vtx[b][i] \in Tx
  BY BlockFacts
<1>1. /\ \A i \in 0..N : st[i] \in ConnState
      /\ st[0] = [ok |-> fresh, view |-> view, nFees |-> 0, undo |-> <<>>]
      /\ \A i \in 1..N : st[i] = ConnectTx(st[i - 1], vtx[b][i], h)
      /\ st[N].ok
  BY DEF ConnectLoop
<1> HIDE DEF N
<1>2. ASSUME NEW i \in 1..N
      PROVE  /\ st[i - 1] \in ConnState /\ st[i] \in ConnState
             /\ st[i].ok => Accepts(st[i - 1], st[i], vtx[b][i], h)
  <2>1. st[i - 1] \in ConnState /\ st[i] \in ConnState /\ st[i] = ConnectTx(st[i - 1], vtx[b][i], h)
    BY <1>0, <1>1
  <2> QED BY <1>0, <2>1, ConnectTxFacts
<1> DEFINE T == {k \in 0..N : st[N - k].ok}
<1>3. 0 \in T
  BY <1>0, <1>1
<1>4. ASSUME NEW k \in 1..N, k - 1 \in T PROVE k \in T
  <2> DEFINE i == N - (k - 1)
  <2>1. i \in 1..N /\ st[i].ok /\ i - 1 = N - k /\ k \in 0..N
    BY <1>0, <1>4
  <2> HIDE DEF i
  <2>2. st[i - 1].ok
    BY <1>2, <2>1 DEF Accepts
  <2> QED BY <2>1, <2>2
<1>5. \A k \in 0..N : k \in T
  <2> HIDE DEF T
  <2> QED BY <1>0, <1>3, <1>4, Interval0
<1>6. \A i \in 0..N : st[i].ok
  <2>1. ASSUME NEW i \in 0..N PROVE st[i].ok
    <3>1. N - i \in 0..N /\ N - (N - i) = i
      BY <1>0
    <3>2. N - i \in T
      BY <1>5, <3>1
    <3> QED BY <3>1, <3>2
  <2> QED BY <2>1
<1>7. fresh
  <2>1. st[0].ok
    BY <1>0, <1>6
  <2> QED BY <1>1, <2>1
<1>8. ASSUME NEW i \in 1..N
      PROVE  /\ st[i - 1] \in ConnState /\ st[i] \in ConnState
             /\ Accepts(st[i - 1], st[i], vtx[b][i], h)
  BY <1>0, <1>2, <1>6
<1> QED BY <1>7, <1>8 DEF N

-----------------------------------------------------------------------------
(* What holds of every transaction of a block that has connected: its      *)
(* inputs were unspent and it overwrote nothing; and its undo data, where  *)
(* it has a height, tells of the last output of a transaction and its      *)
(* place.                                                                  *)
ValidAt(c, e) ==
    /\ \A o \in Pool!Ins(TxAt(c, e)) : o[2] \in DOMAIN vout[o[1]] /\ Unspent(c, o, e)
    /\ \A n \in DOMAIN vout[TxAt(c, e)] : ~Unspent(c, <<TxAt(c, e), n>>, e)

UndoOK(c, e, u) ==
    \A j \in 1..Len(vin[TxAt(c, e)]) :
        LET t == vin[TxAt(c, e)][j][1]
        IN  /\ u[j] \in Nat
            /\ u[j] # 0 => /\ LastAt(c, t, u[j], e)
                           /\ \A n \in DOMAIN vout[t] :
                                 Unspent(c, <<t, n>>, e) => n \in SpentOf(t, TxAt(c, e), j)

GoodBlock(b, u) ==
    \A i \in 1..Len(vtx[b]) :
        /\ ValidAt(Path[b], <<Len(Path[b]), i>>)
        /\ i > 1 => UndoOK(Path[b], <<Len(Path[b]), i>>, u[i - 1])

LEMMA SpendUndo ==
    ASSUME NEW view, NEW c, NEW e, Matches(view, c, e), TxAt(c, e) \in Tx,
           HaveInputs(view, TxAt(c, e)), NEW h
    PROVE  UndoOK(c, e, UpdateCoins(view, TxAt(c, e), h).undo)
<1> DEFINE tx == TxAt(c, e)  u == UpdateCoins(view, tx, h).undo
<1>1. u = [i \in 1..Len(vin[tx]) |-> Spend(view, tx, i)]
  BY DEF UpdateCoins
<1> HIDE DEF tx, u
<1>2. ASSUME NEW j \in 1..Len(vin[tx])
      PROVE  LET t == vin[tx][j][1]
             IN  /\ u[j] \in Nat
                 /\ u[j] # 0 => /\ LastAt(c, t, u[j], e)
                                /\ \A n \in DOMAIN vout[t] : Unspent(c, <<t, n>>, e) => n \in SpentOf(t, tx, j)
  <2> DEFINE t == vin[tx][j][1]
  <2>1. t \in Tx /\ DOMAIN vin[tx] = 1..Len(vin[tx])
    BY TxFacts DEF tx
  <2>2. u[j] = IF view[t].vout \subseteq SpentOf(t, tx, j) THEN view[t].nHeight ELSE 0
    BY <1>1 DEF Spend
  <2>3. view[t].vout # {}
    BY <2>1 DEF HaveInputs, IsAvailable, tx
  <2>4. view[t].nHeight \in Nat
    BY <2>1 DEF Matches, RawView
  <2>5. LastAt(c, t, view[t].nHeight, e) /\ \A n \in DOMAIN vout[t] : n \in view[t].vout <=> Unspent(c, <<t, n>>, e)
    BY <2>1, <2>3 DEF Matches
  <2> HIDE DEF t
  <2>6. CASE view[t].vout \subseteq SpentOf(t, tx, j)
    BY <2>2, <2>4, <2>5, <2>6 DEF t
  <2>7. CASE ~(view[t].vout \subseteq SpentOf(t, tx, j))
    BY <2>2, <2>7
  <2> QED BY <2>6, <2>7 DEF t
<1> QED BY <1>2 DEF UndoOK, tx, u

LEMMA InputsUnspent ==
    ASSUME NEW view, NEW c, NEW e, Matches(view, c, e), NEW tx \in Tx, HaveInputs(view, tx),
           NEW o \in Pool!Ins(tx)
    PROVE  o[2] \in DOMAIN vout[o[1]] /\ Unspent(c, o, e)
<1>1. o[1] \in Tx /\ o = <<o[1], o[2]>>
  BY InsDef
<1>2. o[2] \in view[o[1]].vout
  BY DEF HaveInputs, IsAvailable, Pool!Ins
<1> QED BY <1>1, <1>2 DEF Matches

LEMMA ConnectBlockDef ==
    ASSUME NEW b \in Block, NEW view \in View, NEW h \in Nat
    PROVE  \E st : /\ ConnectLoop(st, Fresh(view, b), view, b, h)
                   /\ LET last == st[Len(vtx[b])]  r == ConnectBlock(view, b, h)
                      IN  /\ last \in ConnState
                          /\ r.ok \in BOOLEAN
                          /\ r.ok <=> last.ok /\ GetValueOut(vtx[b][1]) <= GetBlockValue(h, last.nFees)
                          /\ r.view = last.view /\ r.nFees = last.nFees /\ r.undo = last.undo
<1> DEFINE N == Len(vtx[b])  r == ConnectBlock(view, b, h)
<1>1. Fresh(view, b) \in BOOLEAN
  BY DEF Fresh
<1>2. PICK st : ConnectLoop(st, Fresh(view, b), view, b, h) /\ ConnectTxs(Fresh(view, b), view, b, h) = st[N]
  <2> HIDE DEF N
  <2> QED BY <1>1, ConnectTxsDef DEF N
<1>3. st[N] \in ConnState
  BY <1>2, BlockFacts DEF ConnectLoop
<1>4. r = [st[N] EXCEPT !.ok = @ /\ GetValueOut(vtx[b][1]) <= GetBlockValue(h, st[N].nFees)]
  BY <1>2 DEF ConnectBlock
<1> HIDE DEF N, r
<1>5. /\ r.ok = (st[N].ok /\ GetValueOut(vtx[b][1]) <= GetBlockValue(h, st[N].nFees))
      /\ r.view = st[N].view /\ r.nFees = st[N].nFees /\ r.undo = st[N].undo
  BY <1>3, <1>4 DEF ConnState
<1>6. (st[N].ok /\ GetValueOut(vtx[b][1]) <= GetBlockValue(h, st[N].nFees)) \in BOOLEAN
  OBVIOUS
<1> QED BY <1>2, <1>3, <1>5, <1>6 DEF N, r

LEMMA ConnectBlockMatches ==
    ASSUME NEW b \in Block, NEW view, Matches(view, Path[b], <<Len(Path[b]), 1>>),
           ConnectBlock(view, b, Len(Path[b])).ok
    PROVE  LET r == ConnectBlock(view, b, Len(Path[b]))
           IN  /\ Matches(r.view, Path[b], <<Len(Path[b]) + 1, 1>>)
               /\ GoodBlock(b, r.undo)
<1> DEFINE c == Path[b]  h == Len(c)  N == Len(vtx[b])  r == ConnectBlock(view, b, h)
<1>0. /\ N \in Nat /\ N >= 1 /\ \A i \in 1..N : vtx[b][i] \in Tx
      /\ \A i, j \in 1..N : vtx[b][i] = vtx[b][j] => i = j
      /\ \A i \in 1..N : vtx[b][i] \in CoinBase <=> i = 1
  BY BlockFacts
<1>a. c \in Seq(Block) /\ h \in Nat /\ h \in 1..Len(c) /\ c[h] = b
  BY PathFacts
<1>b. view \in View
  BY MatchesView
<1>1. PICK st : /\ ConnectLoop(st, Fresh(view, b), view, b, h)
                /\ st[N] \in ConnState /\ (r.ok => st[N].ok) /\ r.view = st[N].view /\ r.undo = st[N].undo
  BY <1>a, <1>b, ConnectBlockDef
<1>2. /\ Fresh(view, b)
      /\ \A i \in 1..N : /\ st[i - 1] \in ConnState /\ st[i] \in ConnState
                         /\ Accepts(st[i - 1], st[i], vtx[b][i], h)
  <2>1. Fresh(view, b) \in BOOLEAN
    BY DEF Fresh
  <2> HIDE DEF h, c, r
  <2> QED BY <1>a, <1>b, <1>1, <2>1, ConnectRuns DEF r, h, c
<1>3. st[0].view = view /\ st[0].undo = <<>>
  BY <1>1 DEF ConnectLoop
<1>c. Matches(view, c, <<h, 1>>)
  OBVIOUS
<1>d. \A i \in 1..N : TxAt(c, <<h, i>>) = vtx[b][i]
  BY <1>a DEF TxAt
<1> HIDE DEF c, h, N, r
<1> DEFINE T == {i \in 0..N : Matches(st[i].view, c, <<h, i + 1>>)}
<1>4. \A i \in 0..N : i \in T
  <2>1. 0 \in T
    BY <1>0, <1>3, <1>c
  <2>2. ASSUME NEW i \in 1..N, i - 1 \in T PROVE i \in T
    <3>1. i \in 0..N /\ (i - 1) + 1 = i /\ i \in 1..Len(vtx[c[h]])
      BY <1>0, <1>a DEF N
    <3>2. Matches(st[i - 1].view, c, <<h, i>>)
      BY <2>2, <3>1
    <3>3. st[i].view = UpdateCoins(st[i - 1].view, vtx[c[h]][i], h).view
      BY <1>2, <1>a DEF Accepts
    <3> QED BY <1>a, <3>1, <3>2, <3>3, UpdateMatches
  <2> HIDE DEF T
  <2> QED BY <1>0, <2>1, <2>2, Interval0
<1>5. Matches(r.view, c, <<h + 1, 1>>)
  <2>1. Matches(st[N].view, c, <<h, N + 1>>)
    BY <1>0, <1>4
  <2> QED BY <1>1, <1>a, <2>1, MatchesNext DEF N
<1>6. \A i \in 1..N : Matches(st[i - 1].view, c, <<h, i>>)
  <2>1. ASSUME NEW i \in 1..N PROVE Matches(st[i - 1].view, c, <<h, i>>)
    <3>1. i - 1 \in 0..N /\ (i - 1) + 1 = i
      BY <1>0
    <3>2. i - 1 \in T
      BY <1>4, <3>1
    <3> QED BY <3>1, <3>2
  <2> QED BY <2>1
<1> HIDE DEF T
<1> DEFINE F == {i \in 0..N : \A k \in (i + 1)..N : \A m \in DOMAIN vout[vtx[b][k]] :
                                 ~Unspent(c, <<vtx[b][k], m>>, <<h, i + 1>>)}
<1>7. \A i \in 0..N : i \in F
  <2>1. 0 \in F
    <3>1. ASSUME NEW k \in 1..N, NEW m \in DOMAIN vout[vtx[b][k]]
          PROVE  ~Unspent(c, <<vtx[b][k], m>>, <<h, 1>>)
      <4>1. view[vtx[b][k]].vout = {}
        BY <1>2, BlockFacts DEF Fresh, N
      <4> QED BY <1>0, <1>c, <4>1 DEF Matches
    <3> QED BY <1>0, <3>1
  <2>2. ASSUME NEW i \in 1..N, i - 1 \in F PROVE i \in F
    <3>0. i \in 0..N /\ i \in Nat /\ (i - 1) + 1 = i /\ i \in 1..Len(vtx[c[h]]) /\ c[h] = b
      BY <1>0, <1>a DEF N
    <3>1. ASSUME NEW k \in (i + 1)..N, NEW m \in DOMAIN vout[vtx[b][k]],
                 Unspent(c, <<vtx[b][k], m>>, <<h, i + 1>>)
          PROVE  FALSE
      <4>1. k \in i..N /\ k \in 1..N /\ k # i
        BY <1>0, <3>0
      <4>2. vtx[b][i] # vtx[b][k]
        BY <1>0, <4>1
      <4>3. Unspent(c, <<vtx[b][k], m>>, <<h, i>>)
        BY <1>a, <3>0, <3>1, <4>2, UnspentStep
      <4> QED BY <2>2, <3>0, <4>1, <4>3
    <3> QED BY <3>0, <3>1
  <2> HIDE DEF F
  <2> QED BY <1>0, <2>1, <2>2, Interval0
<1>8. ASSUME NEW i \in 1..N PROVE ValidAt(c, <<h, i>>)
  <2> DEFINE tx == vtx[b][i]
  <2>1. tx \in Tx /\ TxAt(c, <<h, i>>) = tx
    BY <1>0, <1>d
  <2>2. ASSUME NEW o \in Pool!Ins(tx) PROVE o[2] \in DOMAIN vout[o[1]] /\ Unspent(c, o, <<h, i>>)
    <3>1. tx \notin CoinBase
      <4>1. tx \in CoinBase => Pool!Ins(tx) = {}
        <5>1. Len(vin[tx]) \in Nat /\ (tx \in CoinBase => Len(vin[tx]) = 0)
          BY <2>1, TxFacts
        <5>2. Len(vin[tx]) = 0 => 1..Len(vin[tx]) = {}
          BY <5>1
        <5>3. \A o2 : o2 \in Pool!Ins(tx) <=> \E j \in 1..Len(vin[tx]) : o2 = vin[tx][j]
          BY <2>1, InsDef, SMTT(30)
        <5> QED BY <5>1, <5>2, <5>3
      <4> QED BY <4>1
    <3>2. HaveInputs(st[i - 1].view, tx)
      BY <1>2, <3>1 DEF Accepts, CheckInputs
    <3> HIDE DEF tx
    <3> QED BY <1>6, <2>1, <3>2, InputsUnspent
  <2>3. ASSUME NEW n \in DOMAIN vout[tx] PROVE ~Unspent(c, <<tx, n>>, <<h, i>>)
    <3>1. i - 1 \in 0..N /\ (i - 1) + 1 = i /\ i \in i..N
      BY <1>0
    <3>2. i - 1 \in F
      BY <1>7, <3>1
    <3> QED BY <3>1, <3>2
  <2> HIDE DEF tx
  <2> QED BY <2>1, <2>2, <2>3 DEF ValidAt
<1> HIDE DEF F
<1> DEFINE U(k) == UpdateCoins(st[k - 1].view, vtx[b][k], h).undo
           K == {i \in 1..N : /\ Len(st[i].undo) = i - 1
                              /\ \A k \in 2..i : st[i].undo[k - 1] = U(k)}
<1>9. \A i \in 1..N : i \in K
  <2>1. 1 \in K
    <3>1. 1 \in 1..N /\ vtx[b][1] \in CoinBase
      BY <1>0
    <3>2. st[1].undo = <<>>
      BY <1>2, <1>3, <3>1 DEF Accepts
    <3> QED BY <3>1, <3>2
  <2>2. ASSUME NEW i \in 2..N, i - 1 \in K PROVE i \in K
    <3>1. i \in 1..N /\ i - 1 \in 1..N /\ i # 1 /\ vtx[b][i] \notin CoinBase
      BY <1>0
    <3>2. st[i].undo = Append(st[i - 1].undo, U(i))
      BY <1>2, <3>1 DEF Accepts
    <3>3. st[i - 1].undo \in Seq(Seq(Nat)) /\ Len(st[i - 1].undo) = i - 2
      BY <1>2, <2>2, <3>1 DEF ConnState
    <3>4. \A k \in 2..(i - 1) : st[i - 1].undo[k - 1] = U(k)
      BY <2>2
    <3> HIDE DEF U, K
    <3>5. Len(st[i].undo) = i - 1 /\ st[i].undo[i - 1] = U(i)
      BY <3>1, <3>2, <3>3
    <3>6. ASSUME NEW k \in 2..i, k # i PROVE st[i].undo[k - 1] = U(k)
      <4>1. k - 1 \in 1..Len(st[i - 1].undo) /\ k \in 2..(i - 1)
        BY <3>1, <3>3, <3>6
      <4>2. st[i].undo[k - 1] = st[i - 1].undo[k - 1]
        BY <3>2, <3>3, <4>1
      <4> QED BY <3>4, <4>1, <4>2
    <3>7. \A k \in 2..i : st[i].undo[k - 1] = U(k)
      BY <3>5, <3>6
    <3> QED BY <3>1, <3>5, <3>7 DEF K
  <2> HIDE DEF K
  <2>3. \A i \in (1 + 1)..N : i - 1 \in K => i \in K
    BY <2>2
  <2> QED BY <1>0, <2>1, <2>3, Interval
<1>10. ASSUME NEW i \in 1..N, i > 1 PROVE UndoOK(c, <<h, i>>, r.undo[i - 1])
  <2>1. i \in 2..N /\ N \in 1..N
    BY <1>0, <1>10
  <2>2. r.undo[i - 1] = U(i)
    BY <1>1, <1>9, <2>1
  <2>a. TxAt(c, <<h, i>>) = vtx[b][i] /\ vtx[b][i] \in Tx
    BY <1>0, <1>d
  <2>3. TxAt(c, <<h, i>>) = vtx[b][i] /\ vtx[b][i] \in Tx /\ Matches(st[i - 1].view, c, <<h, i>>)
    BY <1>6, <2>a
  <2>4. vtx[b][i] \notin CoinBase
    BY <1>0, <1>10, SMTT(30)
  <2>5. HaveInputs(st[i - 1].view, vtx[b][i])
    BY <1>2, <2>4 DEF Accepts, CheckInputs
  <2> QED BY <2>2, <2>3, <2>5, SpendUndo
<1>11. GoodBlock(b, r.undo)
  BY <1>8, <1>10 DEF GoodBlock, c, h, N
<1> QED BY <1>5, <1>11 DEF r, c, h

-----------------------------------------------------------------------------
(***************************************************************************)
(* The loops of DisconnectBlock: what a clean disconnect leaves is the     *)
(* view before the block.                                                  *)
(***************************************************************************)
DiscState == [fClean : BOOLEAN, view : RawView]

LEMMA MinFacts ==
    ASSUME NEW S \in SUBSET Nat, S # {}
    PROVE  Min(S) \in S /\ \A y \in S : Min(S) <= y
<1>1. \E x \in S : \A y \in S : x <= y
  BY LeastElement
<1> QED BY <1>1 DEF Min

(* The inputs of tx that are outputs of t.                                 *)
From(tx, t) == {j \in 1..Len(vin[tx]) : vin[tx][j][1] = t}

LEMMA FromFacts ==
    ASSUME NEW tx \in Tx, NEW t, From(tx, t) # {}
    PROVE  /\ Min(From(tx, t)) \in 1..Len(vin[tx])
           /\ vin[tx][Min(From(tx, t))] = <<t, vin[tx][Min(From(tx, t))][2]>>
           /\ vin[tx][Min(From(tx, t))][2] \in Nat
           /\ \A k \in 1..Len(vin[tx]) : vin[tx][k][1] = t => Min(From(tx, t)) <= k
<1>1. From(tx, t) \in SUBSET Nat
  BY TxFacts DEF From
<1>2. Min(From(tx, t)) \in From(tx, t) /\ \A y \in From(tx, t) : Min(From(tx, t)) <= y
  BY <1>1, MinFacts
<1>3. Min(From(tx, t)) \in 1..Len(vin[tx]) /\ vin[tx][Min(From(tx, t))][1] = t
  BY <1>2 DEF From
<1>4. \A k \in 1..Len(vin[tx]) : vin[tx][k][1] = t => Min(From(tx, t)) <= k
  BY <1>2 DEF From
<1> QED BY <1>3, <1>4, TxFacts

Restored(view, tx, u) ==
    [t \in Tx |-> IF From(tx, t) # {}
                  THEN [vout |-> {vin[tx][Min(From(tx, t))][2]}, nHeight |-> u[Min(From(tx, t))]]
                  ELSE IF t = tx THEN Pruned ELSE view[t]]

LEMMA DisconnectTxDef ==
    ASSUME NEW b \in Block, NEW i \in 1..Len(vtx[b]), NEW st, NEW h, NEW u
    PROVE  LET tx == vtx[b][i]  new == DisconnectTx(st, b, i, h, u)
           IN  /\ new.fClean => st.fClean /\ \A j \in 1..Len(vin[tx]) : u[i - 1][j] # 0
               /\ new.fClean \in BOOLEAN
               /\ new.view = Restored(st.view, tx, u[i - 1])
<1> DEFINE tx == vtx[b][i]
<1>1. DOMAIN vin[tx] = 1..Len(vin[tx])
  BY BlockFacts, TxFacts
<1> QED BY <1>1 DEF DisconnectTx, From, Restored

LEMMA DisconnectTxType ==
    ASSUME NEW b \in Block, NEW i \in 1..Len(vtx[b]), NEW st \in DiscState, NEW h, NEW u, GoodBlock(b, u)
    PROVE  DisconnectTx(st, b, i, h, u) \in DiscState
<1> DEFINE tx == vtx[b][i]  new == DisconnectTx(st, b, i, h, u)
           Rec == [vout : SUBSET Nat, nHeight : Nat]
<1>0. /\ tx \in Tx /\ i \in Nat /\ (i = 1 => Len(vin[tx]) = 0)
      /\ TxAt(Path[b], <<Len(Path[b]), i>>) = tx
  <2>1. i \in Nat /\ tx \in Tx /\ (tx \in CoinBase <=> i = 1)
    BY BlockFacts
  <2>2. TxAt(Path[b], <<Len(Path[b]), i>>) = tx
    BY PathFacts DEF TxAt
  <2> QED BY <2>1, <2>2, TxFacts
<1>1. /\ new.fClean \in BOOLEAN
      /\ new.view = [t \in Tx |->
                        IF From(tx, t) # {}
                        THEN [vout |-> {vin[tx][Min(From(tx, t))][2]},
                              nHeight |-> u[i - 1][Min(From(tx, t))]]
                        ELSE IF t = tx THEN Pruned ELSE st.view[t]]
  <2>1. new.fClean \in BOOLEAN /\ new.view = Restored(st.view, tx, u[i - 1])
    BY DisconnectTxDef
  <2> QED BY <2>1 DEF Restored
<1>a. new = [fClean |-> new.fClean, view |-> new.view]
  BY DEF DisconnectTx
<1>2. st.fClean \in BOOLEAN /\ \A t \in Tx : st.view[t] \in Rec
  BY DEF DiscState, RawView
<1> HIDE DEF tx, new
<1>3. ASSUME NEW t \in Tx, From(tx, t) # {}
      PROVE  [vout |-> {vin[tx][Min(From(tx, t))][2]}, nHeight |-> u[i - 1][Min(From(tx, t))]] \in Rec
  <2> DEFINE j == Min(From(tx, t))
  <2>1. j \in 1..Len(vin[tx]) /\ vin[tx][j][2] \in Nat
    BY <1>0, <1>3, FromFacts
  <2>2. i > 1
    BY <1>0, <2>1
  <2> HIDE DEF j
  <2>3. u[i - 1][j] \in Nat
    BY <1>0, <2>1, <2>2 DEF GoodBlock, UndoOK
  <2> QED BY <2>1, <2>3 DEF j
<1>4. Pruned \in Rec
  BY DEF Pruned
<1>5. new.view \in RawView
  <2> HIDE DEF Rec
  <2>1. ASSUME NEW t \in Tx PROVE new.view[t] \in Rec
    <3>1. CASE From(tx, t) # {}
      BY <1>1, <1>3, <3>1
    <3>2. CASE From(tx, t) = {} /\ t = tx
      BY <1>1, <1>4, <3>2
    <3>3. CASE From(tx, t) = {} /\ t # tx
      BY <1>1, <1>2, <3>3
    <3> QED BY <3>1, <3>2, <3>3
  <2>2. new.view = [t \in Tx |-> new.view[t]]
    BY <1>1
  <2> QED BY <2>1, <2>2 DEF RawView, Rec
<1> QED BY <1>a, <1>1, <1>5 DEF DiscState, new

LEMMA DisconnectTxMatches ==
    ASSUME NEW b \in Block, NEW i \in 1..Len(vtx[b]), NEW st \in DiscState, NEW h, h = Len(Path[b]),
           NEW u, GoodBlock(b, u), DisconnectTx(st, b, i, h, u).fClean
    PROVE  /\ st.fClean
           /\ Matches(st.view, Path[b], <<h, i + 1>>)
                => Matches(DisconnectTx(st, b, i, h, u).view, Path[b], <<h, i>>)
<1> DEFINE c == Path[b]  e == <<h, i>>  tx == vtx[b][i]  new == DisconnectTx(st, b, i, h, u).view
<1>0. /\ c \in Seq(Block) /\ h \in 1..Len(c) /\ c[h] = b /\ tx \in Tx /\ i \in Nat
      /\ (i = 1 => Len(vin[tx]) = 0) /\ TxAt(c, e) = tx
  <2>1. i \in Nat /\ tx \in Tx /\ (tx \in CoinBase <=> i = 1)
    BY BlockFacts
  <2>2. c \in Seq(Block) /\ h \in 1..Len(c) /\ c[h] = b
    BY PathFacts
  <2> QED BY <2>1, <2>2, TxFacts DEF TxAt
<1>1. /\ st.fClean /\ \A j \in 1..Len(vin[tx]) : u[i - 1][j] # 0
      /\ new = [t \in Tx |->
                  IF From(tx, t) # {}
                  THEN [vout |-> {vin[tx][Min(From(tx, t))][2]},
                        nHeight |-> u[i - 1][Min(From(tx, t))]]
                  ELSE IF t = tx THEN Pruned ELSE st.view[t]]
  <2>1. /\ st.fClean /\ \A j \in 1..Len(vin[tx]) : u[i - 1][j] # 0
        /\ new = Restored(st.view, tx, u[i - 1])
    BY DisconnectTxDef
  <2> QED BY <2>1 DEF Restored
<1>2. new \in RawView
  BY DisconnectTxType DEF DiscState
<1>3. ValidAt(c, e) /\ (i > 1 => UndoOK(c, e, u[i - 1]))
  BY DEF GoodBlock
<1>4. /\ \A o : Unspent(c, o, <<h, i + 1>>) <=> tx = o[1] \/ (Unspent(c, o, e) /\ o \notin Pool!Ins(tx))
      /\ \A t, k : LastAt(c, t, k, <<h, i + 1>>) <=> IF tx = t THEN k = h ELSE LastAt(c, t, k, e)
  <2>1. i \in 1..Len(vtx[c[h]]) /\ vtx[c[h]][i] = tx
    BY <1>0
  <2>2. ASSUME NEW o
        PROVE  Unspent(c, o, <<h, i + 1>>) <=> tx = o[1] \/ (Unspent(c, o, e) /\ o \notin Pool!Ins(tx))
    <3> HIDE DEF c, tx
    <3> QED BY <1>0, <2>1, UnspentStep
  <2>3. ASSUME NEW t, NEW k
        PROVE  LastAt(c, t, k, <<h, i + 1>>) <=> IF tx = t THEN k = h ELSE LastAt(c, t, k, e)
    <3> HIDE DEF c, tx
    <3> QED BY <1>0, <2>1, LastAtStep, SMTT(30)
  <2> HIDE DEF c, e, tx, new
  <2> QED BY <2>2, <2>3, Zenon
<1> HIDE DEF c, e, tx, new
<1> SUFFICES ASSUME Matches(st.view, c, <<h, i + 1>>), NEW t \in Tx
             PROVE  /\ new[t].vout \subseteq DOMAIN vout[t]
                    /\ \A n \in DOMAIN vout[t] : n \in new[t].vout <=> Unspent(c, <<t, n>>, e)
                    /\ new[t].vout # {} => LastAt(c, t, new[t].nHeight, e)
  BY <1>1, <1>2 DEF Matches, c, e, new
<1>5. CASE From(tx, t) # {}
  <2> DEFINE j == Min(From(tx, t))
  <2>1. /\ j \in 1..Len(vin[tx]) /\ vin[tx][j] = <<t, vin[tx][j][2]>>
        /\ \A k \in 1..Len(vin[tx]) : vin[tx][k][1] = t => j <= k
    BY <1>0, <1>5, FromFacts
  <2>2. new[t].vout = {vin[tx][j][2]} /\ new[t].nHeight = u[i - 1][j]
    BY <1>1, <1>5
  <2> HIDE DEF j
  <2>3. i > 1
    BY <1>0, <2>1
  <2>4. vin[tx][j] \in Pool!Ins(tx)
    BY <1>0, <2>1, InsDef
  <2>5. vin[tx][j][2] \in DOMAIN vout[t] /\ Unspent(c, <<t, vin[tx][j][2]>>, e)
    <3>1. vin[tx][j][1] = t
      BY <2>1
    <3>2. vin[tx][j][2] \in DOMAIN vout[vin[tx][j][1]] /\ Unspent(c, vin[tx][j], e)
      BY <1>0, <1>3, <2>4 DEF ValidAt
    <3> QED BY <2>1, <3>1, <3>2
  <2>6. /\ LastAt(c, t, u[i - 1][j], e)
        /\ \A n \in DOMAIN vout[t] : Unspent(c, <<t, n>>, e) => n \in SpentOf(t, tx, j)
    <3>1. vin[tx][j][1] = t
      BY <2>1
    <3> QED BY <1>0, <1>1, <1>3, <2>1, <2>3, <3>1 DEF UndoOK
  <2>7. ASSUME NEW n \in DOMAIN vout[t], Unspent(c, <<t, n>>, e) PROVE n = vin[tx][j][2]
    <3>1. n \in SpentOf(t, tx, j)
      BY <2>6, <2>7
    <3>2. PICK k \in 1..j : vin[tx][k][1] = t /\ vin[tx][k][2] = n
      BY <3>1 DEF SpentOf
    <3>3. k \in 1..Len(vin[tx]) /\ k \in Nat /\ j \in Nat /\ k <= j
      BY <1>0, <2>1, TxFacts
    <3>4. j <= k
      BY <2>1, <3>2, <3>3
    <3> QED BY <3>2, <3>3, <3>4
  <2> QED BY <2>2, <2>5, <2>6, <2>7
<1>6. CASE From(tx, t) = {} /\ t = tx
  <2>1. new[t].vout = {}
    BY <1>1, <1>6 DEF Pruned
  <2>2. \A n \in DOMAIN vout[t] : ~Unspent(c, <<t, n>>, e)
    BY <1>0, <1>3, <1>6 DEF ValidAt
  <2> QED BY <2>1, <2>2
<1>7. CASE From(tx, t) = {} /\ t # tx
  <2>1. new[t] = st.view[t]
    BY <1>1, <1>7
  <2>2. \A n : <<t, n>> \notin Pool!Ins(tx)
    <3>1. ASSUME NEW n, <<t, n>> \in Pool!Ins(tx) PROVE FALSE
      <4>1. PICK j \in 1..Len(vin[tx]) : vin[tx][j] = <<t, n>>
        BY <1>0, <3>1, InsDef, SMTT(30)
      <4>a. vin[tx][j][1] = t
        BY <4>1
      <4>2. j \in From(tx, t)
        BY <4>a DEF From
      <4> QED BY <1>7, <4>2
    <3> QED BY <3>1
  <2>3. /\ st.view[t].vout \subseteq DOMAIN vout[t]
        /\ \A n \in DOMAIN vout[t] : n \in st.view[t].vout <=> Unspent(c, <<t, n>>, <<h, i + 1>>)
        /\ st.view[t].vout # {} => LastAt(c, t, st.view[t].nHeight, <<h, i + 1>>)
    BY DEF Matches
  <2>4. \A n : Unspent(c, <<t, n>>, <<h, i + 1>>) <=> Unspent(c, <<t, n>>, e)
    <3>1. ASSUME NEW n PROVE Unspent(c, <<t, n>>, <<h, i + 1>>) <=> Unspent(c, <<t, n>>, e)
      BY <1>4, <1>7, <2>2
    <3> QED BY <3>1
  <2> QED BY <1>4, <1>7, <2>1, <2>3, <2>4
<1> QED BY <1>5, <1>6, <1>7

DisconnectLoop(st, view, b, h, u) ==
    /\ st \in [0..Len(vtx[b]) -> DiscState]
    /\ st[0] = [fClean |-> TRUE, view |-> view]
    /\ \A k \in 1..Len(vtx[b]) : st[k] = DisconnectTx(st[k - 1], b, Len(vtx[b]) + 1 - k, h, u)

LEMMA DisconnectBlockDef ==
    ASSUME NEW b \in Block, NEW view \in RawView, NEW h, NEW u, GoodBlock(b, u)
    PROVE  \E st : /\ DisconnectLoop(st, view, b, h, u)
                   /\ DisconnectBlock(view, b, h, u) = st[Len(vtx[b])]
<1> DEFINE N == Len(vtx[b])
           v0 == [fClean |-> TRUE, view |-> view]
           Def(f) == [k \in 0..N |-> IF k = 0 THEN v0 ELSE DisconnectTx(f[k - 1], b, N + 1 - k, h, u)]
           run == CHOOSE f : f = Def(f)
<1>0. N \in Nat
  BY BlockFacts
<1>a. v0 \in DiscState
  BY DEF DiscState
<1>b. DisconnectBlock(view, b, h, u) = run[N]
  BY DEF DisconnectBlock
<1>c. ASSUME NEW k \in 1..N, NEW s \in DiscState PROVE DisconnectTx(s, b, N + 1 - k, h, u) \in DiscState
  <2>1. N + 1 - k \in 1..Len(vtx[b])
    BY <1>0
  <2> QED BY <2>1, DisconnectTxType
<1> HIDE DEF N, v0
<1>1. \E f : f = Def(f)
  <2> DEFINE G == [x \in (1..N) \X DiscState |-> DisconnectTx(x[2], b, N + 1 - x[1], h, u)]
  <2>1. SeqStep(N, DiscState, v0, G)
    <3>1. ASSUME NEW x \in (1..N) \X DiscState PROVE DisconnectTx(x[2], b, N + 1 - x[1], h, u) \in DiscState
      <4>1. x[1] \in 1..N /\ x[2] \in DiscState
        OBVIOUS
      <4> QED BY <1>c, <4>1
    <3> QED BY <1>0, <1>a, <3>1 DEF SeqStep
  <2>2. PICK f : SeqFunction(f, N, DiscState, v0, G)
    <3> HIDE DEF G
    <3> QED BY <2>1, SeqRecursion
  <2>3. ASSUME NEW i \in 1..N PROVE f[i] = DisconnectTx(f[i - 1], b, N + 1 - i, h, u)
    <3>1. f[i] = G[<<i, f[i - 1]>>] /\ f[i - 1] \in DiscState
      <4>1. i - 1 \in 0..N
        BY <1>0
      <4> HIDE DEF G
      <4> QED BY <2>2, <4>1 DEF SeqFunction
    <3> QED BY <3>1
  <2>4. f \in [0..N -> DiscState] /\ f[0] = v0
    BY <2>2 DEF SeqFunction
  <2>5. f = Def(f)
    <3>1. ASSUME NEW i \in 0..N PROVE f[i] = Def(f)[i]
      <4>1. CASE i = 0
        BY <2>4, <4>1
      <4>2. CASE i # 0
        <5>1. i \in 1..N
          BY <1>0, <4>2
        <5> QED BY <2>3, <4>2, <5>1
      <4> QED BY <4>1, <4>2
    <3> QED BY <2>4, <3>1
  <2> QED BY <2>5
<1>2. run = Def(run)
  BY <1>1
<1> HIDE DEF run
<1>3. \A i \in 0..N : run[i] = Def(run)[i]
  BY <1>2
<1>4. run[0] = v0
  BY <1>0, <1>3
<1>5. ASSUME NEW i \in 1..N PROVE run[i] = DisconnectTx(run[i - 1], b, N + 1 - i, h, u)
  BY <1>0, <1>3
<1> DEFINE T == {i \in 0..N : run[i] \in DiscState}
<1>6. 0 \in T
  BY <1>0, <1>a, <1>4
<1>7. ASSUME NEW i \in 1..N, i - 1 \in T PROVE i \in T
  <2>1. i \in 0..N /\ run[i - 1] \in DiscState
    BY <1>0, <1>7
  <2> QED BY <1>c, <1>5, <2>1
<1>8. \A i \in 0..N : i \in T
  <2> HIDE DEF T
  <2> QED BY <1>0, <1>6, <1>7, Interval0
<1>9. run \in [0..N -> DiscState]
  BY <1>2, <1>8
<1> QED BY <1>b, <1>4, <1>5, <1>9 DEF DisconnectLoop, N, v0

LEMMA DisconnectBlockMatches ==
    ASSUME NEW b \in Block, NEW view \in RawView, NEW h, h = Len(Path[b]), NEW u, GoodBlock(b, u)
    PROVE  /\ DisconnectBlock(view, b, h, u) \in DiscState
           /\ /\ DisconnectBlock(view, b, h, u).fClean
              /\ Matches(view, Path[b], <<h + 1, 1>>)
              => Matches(DisconnectBlock(view, b, h, u).view, Path[b], <<h, 1>>)
<1> DEFINE N == Len(vtx[b])  c == Path[b]
<1>0. N \in Nat /\ N >= 1 /\ c \in Seq(Block) /\ h \in 1..Len(c) /\ c[h] = b
  BY BlockFacts, PathFacts
<1>1. PICK st : DisconnectLoop(st, view, b, h, u) /\ DisconnectBlock(view, b, h, u) = st[N]
  BY DisconnectBlockDef
<1>2. /\ \A k \in 0..N : st[k] \in DiscState
      /\ st[0] = [fClean |-> TRUE, view |-> view]
      /\ \A k \in 1..N : st[k] = DisconnectTx(st[k - 1], b, N + 1 - k, h, u)
  BY <1>1 DEF DisconnectLoop
<1>3. ASSUME NEW k \in 1..N, st[k].fClean
      PROVE  /\ st[k - 1].fClean
             /\ Matches(st[k - 1].view, c, <<h, (N + 1 - k) + 1>>) => Matches(st[k].view, c, <<h, N + 1 - k>>)
  <2>1. N + 1 - k \in 1..Len(vtx[b]) /\ st[k - 1] \in DiscState /\ st[k] = DisconnectTx(st[k - 1], b, N + 1 - k, h, u)
    BY <1>0, <1>2
  <2> DEFINE i == N + 1 - k
  <2> HIDE DEF i, N, c
  <2>2. i \in 1..Len(vtx[b]) /\ st[k] = DisconnectTx(st[k - 1], b, i, h, u)
    BY <2>1 DEF i
  <2>3. st[k - 1].fClean /\ (Matches(st[k - 1].view, c, <<h, i + 1>>) => Matches(st[k].view, c, <<h, i>>))
    BY <1>3, <2>1, <2>2, DisconnectTxMatches DEF c
  <2> QED BY <2>3 DEF i
<1>4. st[N] \in DiscState
  BY <1>0, <1>2
<1> HIDE DEF N, c
<1>5. ASSUME st[N].fClean, Matches(view, c, <<h + 1, 1>>)
      PROVE  Matches(st[N].view, c, <<h, 1>>)
  <2> DEFINE D == {k \in 0..N : st[N - k].fClean}
  <2>1. 0 \in D
    BY <1>0, <1>5
  <2>2. ASSUME NEW k \in 1..N, k - 1 \in D PROVE k \in D
    <3> DEFINE i == N - (k - 1)
    <3>1. i \in 1..N /\ st[i].fClean /\ i - 1 = N - k /\ k \in 0..N
      BY <1>0, <2>2
    <3> HIDE DEF i
    <3>2. st[i - 1].fClean
      BY <1>3, <3>1
    <3> QED BY <3>1, <3>2
  <2>3. \A k \in 0..N : k \in D
    <3> HIDE DEF D
    <3> QED BY <1>0, <2>1, <2>2, Interval0
  <2>4. ASSUME NEW k \in 0..N PROVE st[k].fClean
    <3>1. N - k \in 0..N /\ N - (N - k) = k
      BY <1>0
    <3>2. N - k \in D
      BY <2>3, <3>1
    <3> QED BY <3>1, <3>2
  <2> HIDE DEF D
  <2> DEFINE T == {k \in 0..N : Matches(st[k].view, c, <<h, N + 1 - k>>)}
  <2>5. 0 \in T
    <3>1. N + 1 - 0 = N + 1
      BY <1>0
    <3>2. Matches(view, c, <<h, N + 1>>)
      BY <1>0, <1>5, MatchesNext DEF N
    <3> QED BY <1>0, <1>2, <3>1, <3>2
  <2>6. ASSUME NEW k \in 1..N, k - 1 \in T PROVE k \in T
    <3>1. k \in 0..N /\ N + 1 - (k - 1) = (N + 1 - k) + 1
      BY <1>0
    <3>2. Matches(st[k - 1].view, c, <<h, (N + 1 - k) + 1>>)
      BY <2>6, <3>1
    <3> QED BY <1>3, <2>4, <3>1, <3>2
  <2>7. N \in T
    <3> HIDE DEF T
    <3> QED BY <1>0, <2>5, <2>6, Interval0
  <2>8. N + 1 - N = 1
    BY <1>0
  <2> QED BY <2>7, <2>8
<1> QED BY <1>1, <1>4, <1>5 DEF N, c

-----------------------------------------------------------------------------
(***************************************************************************)
(* SetBestChain, part one: the view after the blocks above the fork are    *)
(* disconnected.                                                           *)
(***************************************************************************)
IsChain(c) == c \in Seq(Block) /\ (c = <<>> \/ \E b \in Block : c = Path[b])

LEMMA ChainPath ==
    ASSUME NEW c, IsChain(c)
    PROVE  /\ c \in Seq(Block) /\ Len(c) \in Nat
           /\ \A h \in 1..Len(c) : /\ h \in Nat /\ c[h] \in Block
                                   /\ Path[c[h]] \in Seq(Block)
                                   /\ Len(Path[c[h]]) = h
                                   /\ Agree(Path[c[h]], c, h) /\ Agree(c, Path[c[h]], h)
<1>1. c \in Seq(Block) /\ Len(c) \in Nat
  BY DEF IsChain
<1>2. ASSUME NEW h \in 1..Len(c)
      PROVE  /\ h \in Nat /\ c[h] \in Block /\ Path[c[h]] \in Seq(Block) /\ Len(Path[c[h]]) = h
             /\ Agree(Path[c[h]], c, h) /\ Agree(c, Path[c[h]], h)
  <2>0. h \in Nat /\ h <= Len(c)
    BY <1>1
  <2>1. c # <<>>
    BY <1>1, <1>2
  <2>2. PICK b \in Block : c = Path[b]
    BY <2>1 DEF IsChain
  <2>3. c[h] \in Block /\ Len(Path[c[h]]) = h /\ \A k \in 1..h : Path[c[h]][k] = c[k]
    BY <2>2, PathFacts
  <2>4. Path[c[h]] \in Seq(Block)
    BY <2>3, PathFacts
  <2> QED BY <2>0, <2>3, <2>4 DEF Agree
<1> QED BY <1>1, <1>2

(* A block on two chains is at the same height, with the same blocks below.*)
LEMMA ChainsAgree ==
    ASSUME NEW c, NEW d, IsChain(c), IsChain(d), NEW h \in 1..Len(c), NEW k \in 1..Len(d), c[h] = d[k]
    PROVE  h = k /\ Agree(c, d, h)
<1>1. h = k
  BY ChainPath
<1>2. Agree(c, Path[c[h]], h) /\ Agree(Path[d[k]], d, k) /\ h \in Nat
  BY ChainPath
<1>3. h <= Len(c) /\ h <= Len(d) /\ \A j \in 1..h : c[j] = Path[c[h]][j] /\ Path[c[h]][j] = d[j]
  BY <1>1, <1>2 DEF Agree
<1> QED BY <1>1, <1>3 DEF Agree

LEMMA ForkFacts ==
    ASSUME NEW new \in Seq(Block), chain \in Seq(Block)
    PROVE  /\ ForkHeight(new) \in Nat /\ Agree(chain, new, ForkHeight(new))
           /\ ForkHeight(new) <= Len(chain) /\ ForkHeight(new) <= Len(new)
           /\ \A n \in Nat : Agree(chain, new, n) => n <= ForkHeight(new)
<1> DEFINE S == {n \in 0..Len(chain) : n <= Len(new) /\ \A h \in 1..n : chain[h] = new[h]}
<1>0. Len(chain) \in Nat /\ Len(new) \in Nat
  OBVIOUS
<1>1. S \in SUBSET (0..Len(chain)) /\ 0 \in S
  BY <1>0
<1>2. ForkHeight(new) = Max(S)
  BY DEF ForkHeight
<1>3. \A n \in Nat : Agree(chain, new, n) => n \in S
  BY <1>0 DEF Agree
<1>4. \A n \in S : n \in Nat /\ Agree(chain, new, n)
  BY <1>0 DEF Agree
<1> HIDE DEF S
<1>5. \E x \in S : \A y \in S : x >= y
  BY <1>0, <1>1, GreatestElement
<1>6. Max(S) \in S /\ \A y \in S : Max(S) >= y
  BY <1>5 DEF Max
<1>7. ForkHeight(new) \in Nat /\ Agree(chain, new, ForkHeight(new))
  BY <1>2, <1>4, <1>6
<1>8. \A n \in Nat : Agree(chain, new, n) => n <= ForkHeight(new)
  BY <1>2, <1>3, <1>6, <1>7
<1> QED BY <1>7, <1>8 DEF Agree

Undos == UNION {[D -> Seq(Seq(Nat))] : D \in SUBSET Block}

UndoInv(u) == u \in Undos /\ \A b \in DOMAIN u : GoodBlock(b, u[b])

LEMMA UndosDef ==
    ASSUME NEW u
    PROVE  u \in Undos <=> DOMAIN u \subseteq Block /\ u \in [DOMAIN u -> Seq(Seq(Nat))]
BY DEF Undos

(* The chain, its undo data and its view.                                  *)
ChainOK(c, u, view) ==
    /\ IsChain(c)
    /\ UndoInv(u)
    /\ \A h \in 1..Len(c) : c[h] \in DOMAIN u
    /\ Matches(view, c, End(c))

LEMMA DisconnectOneFacts ==
    ASSUME ChainOK(chain, undo, coins), NEW h \in 1..Len(chain), NEW st \in DiscState
    PROVE  /\ DisconnectOne(st, h) \in DiscState
           /\ DisconnectOne(st, h).fClean =>
                /\ st.fClean
                /\ Matches(st.view, chain, <<h + 1, 1>>) => Matches(DisconnectOne(st, h).view, chain, <<h, 1>>)
<1> DEFINE b == chain[h]  r == DisconnectBlock(st.view, b, h, undo[b])
<1>1. /\ chain \in Seq(Block) /\ b \in Block /\ h \in Nat /\ Len(Path[b]) = h /\ Path[b] \in Seq(Block)
      /\ Agree(Path[b], chain, h) /\ Agree(chain, Path[b], h)
  BY ChainPath DEF ChainOK
<1>2. GoodBlock(b, undo[b]) /\ st.view \in RawView
  BY DEF ChainOK, UndoInv, DiscState
<1> HIDE DEF b
<1>3. /\ r \in DiscState
      /\ r.fClean /\ Matches(st.view, Path[b], <<h + 1, 1>>) => Matches(r.view, Path[b], <<h, 1>>)
  BY <1>1, <1>2, DisconnectBlockMatches
<1>4. /\ Matches(st.view, chain, <<h + 1, 1>>) => Matches(st.view, Path[b], <<h + 1, 1>>)
      /\ Matches(r.view, Path[b], <<h, 1>>) => Matches(r.view, chain, <<h, 1>>)
  <2>1. Same(chain, Path[b], <<h + 1, 1>>)
    BY <1>1, AgreeSame
  <2>2. Same(Path[b], chain, <<h, 1>>)
    <3>1. h \in 1..h /\ 1 \in Nat
      BY <1>1
    <3> QED BY <1>1, <3>1, AgreeSame
  <2> HIDE DEF r
  <2> QED BY <2>1, <2>2, MatchesSame
<1>5. CASE st.fClean
  <2>1. DisconnectOne(st, h) = r
    BY <1>5 DEF DisconnectOne, b
  <2> HIDE DEF r
  <2> QED BY <1>3, <1>4, <1>5, <2>1
<1>6. CASE ~st.fClean
  <2>1. DisconnectOne(st, h) = st
    BY <1>6 DEF DisconnectOne
  <2> QED BY <1>6, <2>1
<1> QED BY <1>5, <1>6

DisconnectAll(st, f) ==
    /\ st \in [0..(Len(chain) - f) -> DiscState]
    /\ st[0] = [fClean |-> TRUE, view |-> coins]
    /\ \A k \in 1..(Len(chain) - f) : st[k] = DisconnectOne(st[k - 1], Len(chain) + 1 - k)

LEMMA DisconnectedDef ==
    ASSUME ChainOK(chain, undo, coins), NEW new \in Seq(Block)
    PROVE  \E st : /\ DisconnectAll(st, ForkHeight(new))
                   /\ Disconnected(new) = st[Len(chain) - ForkHeight(new)]
<1> DEFINE N == Len(chain) - ForkHeight(new)
           v0 == [fClean |-> TRUE, view |-> coins]
           Def(f) == [k \in 0..N |-> IF k = 0 THEN v0 ELSE DisconnectOne(f[k - 1], Len(chain) + 1 - k)]
           run == CHOOSE f : f = Def(f)
<1>z. chain \in Seq(Block) /\ Len(chain) \in Nat
  BY ChainPath DEF ChainOK
<1>y. ForkHeight(new) \in Nat /\ ForkHeight(new) <= Len(chain)
  BY <1>z, ForkFacts
<1>0. N \in Nat /\ \A k \in 1..N : Len(chain) + 1 - k \in 1..Len(chain)
  BY <1>y, <1>z
<1>a. v0 \in DiscState
  BY DEF DiscState, ChainOK, Matches
<1>b. Disconnected(new) = run[N]
  BY DEF Disconnected
<1>c. ASSUME NEW k \in 1..N, NEW s \in DiscState PROVE DisconnectOne(s, Len(chain) + 1 - k) \in DiscState
  BY <1>0, DisconnectOneFacts
<1> HIDE DEF N, v0
<1>1. \E f : f = Def(f)
  <2> DEFINE G == [x \in (1..N) \X DiscState |-> DisconnectOne(x[2], Len(chain) + 1 - x[1])]
  <2>1. SeqStep(N, DiscState, v0, G)
    <3>1. ASSUME NEW x \in (1..N) \X DiscState PROVE DisconnectOne(x[2], Len(chain) + 1 - x[1]) \in DiscState
      <4>1. x[1] \in 1..N /\ x[2] \in DiscState
        OBVIOUS
      <4> QED BY <1>c, <4>1
    <3> QED BY <1>0, <1>a, <3>1 DEF SeqStep
  <2>2. PICK f : SeqFunction(f, N, DiscState, v0, G)
    <3> HIDE DEF G
    <3> QED BY <2>1, SeqRecursion
  <2>3. ASSUME NEW i \in 1..N PROVE f[i] = DisconnectOne(f[i - 1], Len(chain) + 1 - i)
    <3>1. f[i] = G[<<i, f[i - 1]>>] /\ f[i - 1] \in DiscState
      <4>1. i - 1 \in 0..N
        BY <1>0
      <4> HIDE DEF G
      <4> QED BY <2>2, <4>1 DEF SeqFunction
    <3> QED BY <3>1
  <2>4. f \in [0..N -> DiscState] /\ f[0] = v0
    BY <2>2 DEF SeqFunction
  <2>5. f = Def(f)
    <3>1. ASSUME NEW i \in 0..N PROVE f[i] = Def(f)[i]
      <4>1. CASE i = 0
        BY <2>4, <4>1
      <4>2. CASE i # 0
        <5>1. i \in 1..N
          BY <1>0, <4>2
        <5> QED BY <2>3, <4>2, <5>1
      <4> QED BY <4>1, <4>2
    <3> QED BY <2>4, <3>1
  <2> QED BY <2>5
<1>2. run = Def(run)
  BY <1>1
<1> HIDE DEF run
<1>3. \A i \in 0..N : run[i] = Def(run)[i]
  BY <1>2
<1>4. run[0] = v0
  BY <1>0, <1>3
<1>5. ASSUME NEW i \in 1..N PROVE run[i] = DisconnectOne(run[i - 1], Len(chain) + 1 - i)
  BY <1>0, <1>3
<1> DEFINE T == {i \in 0..N : run[i] \in DiscState}
<1>6. 0 \in T
  BY <1>0, <1>a, <1>4
<1>7. ASSUME NEW i \in 1..N, i - 1 \in T PROVE i \in T
  <2>1. i \in 0..N /\ run[i - 1] \in DiscState
    BY <1>0, <1>7
  <2> QED BY <1>c, <1>5, <2>1
<1>8. \A i \in 0..N : i \in T
  <2> HIDE DEF T
  <2> QED BY <1>0, <1>6, <1>7, Interval0
<1>9. run \in [0..N -> DiscState]
  BY <1>2, <1>8
<1> QED BY <1>b, <1>4, <1>5, <1>9 DEF DisconnectAll, N, v0

LEMMA DisconnectedMatches ==
    ASSUME ChainOK(chain, undo, coins), NEW new \in Seq(Block), Disconnected(new).fClean
    PROVE  /\ Matches(Disconnected(new).view, chain, <<ForkHeight(new) + 1, 1>>)
           /\ Matches(Disconnected(new).view, new, <<ForkHeight(new) + 1, 1>>)
<1> DEFINE f == ForkHeight(new)  n == Len(chain)  N == n - f
<1>z. chain \in Seq(Block) /\ n \in Nat
  BY ChainPath DEF ChainOK
<1>0. f \in Nat /\ f <= n /\ Agree(chain, new, f) /\ N \in Nat
  BY <1>z, ForkFacts
<1>1. PICK st : DisconnectAll(st, f) /\ Disconnected(new) = st[N]
  BY DisconnectedDef
<1>2. /\ \A k \in 0..N : st[k] \in DiscState
      /\ st[0] = [fClean |-> TRUE, view |-> coins]
      /\ \A k \in 1..N : st[k] = DisconnectOne(st[k - 1], n + 1 - k)
  BY <1>1 DEF DisconnectAll
<1> HIDE DEF f, n, N
<1> DEFINE T == {k \in 0..N : st[k].fClean => Matches(st[k].view, chain, <<n + 1 - k, 1>>)}
<1>3. 0 \in T
  <2>1. Matches(coins, chain, <<n + 1, 1>>)
    BY DEF ChainOK, End, n
  <2>2. n + 1 - 0 = n + 1
    BY <1>z
  <2> QED BY <1>0, <1>2, <2>1, <2>2
<1>4. ASSUME NEW k \in 1..N, k - 1 \in T PROVE k \in T
  <2> DEFINE h == n + 1 - k
  <2>1. h \in 1..Len(chain) /\ n + 1 - (k - 1) = h + 1 /\ k - 1 \in 0..N /\ k \in 0..N
    BY <1>0, <1>z DEF n, N
  <2>2. st[k - 1].fClean => Matches(st[k - 1].view, chain, <<h + 1, 1>>)
    BY <1>4, <2>1
  <2>3. st[k] = DisconnectOne(st[k - 1], h)
    BY <1>2
  <2> HIDE DEF h
  <2>4. st[k].fClean => Matches(st[k].view, chain, <<h, 1>>)
    <3>1. st[k - 1] \in DiscState
      BY <1>2, <2>1
    <3> QED BY <2>1, <2>2, <2>3, <3>1, DisconnectOneFacts
  <2> QED BY <2>1, <2>4 DEF h
<1>5. N \in T
  <2> HIDE DEF T
  <2> QED BY <1>0, <1>3, <1>4, Interval0
<1>6. n + 1 - N = f + 1
  BY <1>0, <1>z DEF N
<1>7. Matches(st[N].view, chain, <<f + 1, 1>>)
  BY <1>1, <1>5, <1>6
<1>8. Same(chain, new, <<f + 1, 1>>)
  BY <1>0, <1>z, AgreeSame
<1> QED BY <1>1, <1>7, <1>8, MatchesSame DEF f

-----------------------------------------------------------------------------
(***************************************************************************)
(* Part two: the blocks of the new branch connect.                         *)
(***************************************************************************)
ConnOut == [ok : BOOLEAN, view : View, undo : Undos]

(* The undo data u with that of b added, unless there is some already.     *)
Keep(u, b, x) == [c \in DOMAIN u \cup {b} |-> IF c \in DOMAIN u THEN u[c] ELSE x]

LEMMA KeepFacts ==
    ASSUME NEW u \in Undos, NEW b \in Block, NEW x \in Seq(Seq(Nat))
    PROVE  Keep(u, b, x) \in Undos /\ DOMAIN Keep(u, b, x) = DOMAIN u \cup {b}
<1>1. DOMAIN u \subseteq Block /\ \A c \in DOMAIN u : u[c] \in Seq(Seq(Nat))
  BY UndosDef
<1>2. DOMAIN Keep(u, b, x) = DOMAIN u \cup {b}
  BY DEF Keep
<1>3. Keep(u, b, x) \in [DOMAIN u \cup {b} -> Seq(Seq(Nat))]
  BY <1>1 DEF Keep
<1> QED BY <1>1, <1>2, <1>3, UndosDef

LEMMA ConnectOneType ==
    ASSUME NEW st \in ConnOut, NEW b \in Block, NEW h \in Nat
    PROVE  LET new == ConnectOne(st, b, h)  r == ConnectBlock(st.view, b, h)
           IN  /\ new \in ConnOut
               /\ new.ok => /\ st.ok /\ r.ok /\ new.view = r.view
                            /\ new.undo = Keep(st.undo, b, r.undo)
                            /\ r.undo \in Seq(Seq(Nat))
               /\ ~new.ok => new.undo = st.undo
<1> DEFINE new == ConnectOne(st, b, h)  r == ConnectBlock(st.view, b, h)
<1>1. st.ok \in BOOLEAN /\ st.view \in View /\ st.undo \in Undos
  BY DEF ConnOut
<1>2. r.ok \in BOOLEAN /\ r.view \in View /\ r.undo \in Seq(Seq(Nat))
  <2>1. PICK s : LET last == s[Len(vtx[b])]
                 IN  last \in ConnState /\ r.ok \in BOOLEAN /\ r.view = last.view /\ r.undo = last.undo
    BY <1>1, ConnectBlockDef
  <2> HIDE DEF r
  <2> QED BY <2>1 DEF ConnState
<1>3. CASE ~st.ok \/ ~r.ok
  <2>1. new = [st EXCEPT !.ok = FALSE]
    BY <1>3 DEF ConnectOne
  <2>2. new \in ConnOut /\ new.ok = FALSE /\ new.undo = st.undo
    BY <2>1 DEF ConnOut
  <2> QED BY <2>2
<1>4. CASE ~(~st.ok \/ ~r.ok)
  <2>1. new = [ok |-> TRUE, view |-> r.view, undo |-> Keep(st.undo, b, r.undo)]
    BY <1>4 DEF ConnectOne, Keep
  <2> HIDE DEF new, r
  <2>2. new.ok = TRUE /\ new.view = r.view /\ new.undo = Keep(st.undo, b, r.undo)
    BY <2>1
  <2>3. Keep(st.undo, b, r.undo) \in Undos
    BY <1>1, <1>2, KeepFacts
  <2>4. new \in ConnOut
    BY <1>2, <2>1, <2>3 DEF ConnOut
  <2> QED BY <1>2, <1>4, <2>2, <2>4 DEF new, r
<1> QED BY <1>3, <1>4

(* What holds of the loop once the blocks up to height h have been tried.  *)
UpTo(s, new, h) ==
    /\ UndoInv(s.undo)
    /\ DOMAIN undo \subseteq DOMAIN s.undo
    /\ s.ok => /\ Matches(s.view, new, <<h + 1, 1>>)
               /\ \A j \in 1..h : new[j] \in DOMAIN s.undo

LEMMA ConnectOneFacts ==
    ASSUME NEW new, IsChain(new), NEW h \in 1..Len(new), NEW st \in ConnOut, UpTo(st, new, h - 1)
    PROVE  UpTo(ConnectOne(st, new[h], h), new, h)
<1> DEFINE b == new[h]  r == ConnectBlock(st.view, b, h)  s == ConnectOne(st, b, h)
<1>1. /\ new \in Seq(Block) /\ b \in Block /\ h \in Nat /\ Len(Path[b]) = h /\ Path[b] \in Seq(Block)
      /\ Agree(Path[b], new, h) /\ Agree(new, Path[b], h)
  BY ChainPath
<1> HIDE DEF b
<1>2. /\ s \in ConnOut
      /\ s.ok => /\ st.ok /\ r.ok /\ s.view = r.view
                 /\ s.undo = Keep(st.undo, b, r.undo) /\ r.undo \in Seq(Seq(Nat))
      /\ ~s.ok => s.undo = st.undo
  BY <1>1, ConnectOneType
<1>3. UndoInv(st.undo) /\ DOMAIN undo \subseteq DOMAIN st.undo
  BY DEF UpTo
<1> HIDE DEF r, s
<1>4. CASE ~s.ok
  <2>1. UpTo(s, new, h)
    BY <1>2, <1>3, <1>4 DEF UpTo
  <2> QED BY <2>1 DEF s, b
<1>5. CASE s.ok
  <2>1. Matches(st.view, new, <<h, 1>>) /\ \A j \in 1..(h - 1) : new[j] \in DOMAIN st.undo
    <3>1. (h - 1) + 1 = h
      BY <1>1
    <3> QED BY <1>2, <1>5, <3>1 DEF UpTo
  <2>2. Matches(st.view, Path[b], <<Len(Path[b]), 1>>)
    <3>1. h \in 1..h /\ 1 \in Nat
      BY <1>1
    <3>2. Same(new, Path[b], <<h, 1>>)
      BY <1>1, <3>1, AgreeSame
    <3> QED BY <1>1, <2>1, <3>2, MatchesSame
  <2>3. Matches(r.view, Path[b], <<h + 1, 1>>) /\ GoodBlock(b, r.undo)
    BY <1>1, <1>2, <1>5, <2>2, ConnectBlockMatches DEF r
  <2>4. Matches(s.view, new, <<h + 1, 1>>)
    <3>1. Same(Path[b], new, <<h + 1, 1>>)
      BY <1>1, AgreeSame
    <3> QED BY <1>2, <1>5, <2>3, <3>1, MatchesSame
  <2>5. st.undo \in Undos /\ s.undo = Keep(st.undo, b, r.undo) /\ r.undo \in Seq(Seq(Nat))
    BY <1>2, <1>3, <1>5 DEF UndoInv
  <2>6. s.undo \in Undos /\ DOMAIN s.undo = DOMAIN st.undo \cup {b}
    <3>1. /\ Keep(st.undo, b, r.undo) \in Undos
          /\ DOMAIN Keep(st.undo, b, r.undo) = DOMAIN st.undo \cup {b}
      <4>1. b \in Block /\ st.undo \in Undos /\ r.undo \in Seq(Seq(Nat))
        BY <1>1, <2>5
      <4> QED BY ONLY <4>1, KeepFacts
    <3> QED BY <2>5, <3>1
  <2>7. ASSUME NEW c \in DOMAIN s.undo PROVE GoodBlock(c, s.undo[c])
    <3>1. CASE c \in DOMAIN st.undo
      <4>1. s.undo[c] = st.undo[c]
        BY <2>5, <3>1 DEF Keep
      <4> QED BY <1>3, <3>1, <4>1 DEF UndoInv
    <3>2. CASE c \notin DOMAIN st.undo
      <4>1. c = b /\ s.undo[c] = r.undo
        BY <2>5, <2>6, <3>2 DEF Keep
      <4> QED BY <2>3, <4>1
    <3> QED BY <3>1, <3>2
  <2>8. ASSUME NEW j \in 1..h PROVE new[j] \in DOMAIN s.undo
    <3>1. j \in 1..(h - 1) \/ j = h
      BY <1>1
    <3> QED BY <2>1, <2>6, <3>1 DEF b
  <2>9. UpTo(s, new, h)
    BY <1>3, <2>4, <2>6, <2>7, <2>8 DEF UpTo, UndoInv
  <2> QED BY <2>9 DEF s, b
<1> QED BY <1>4, <1>5

ConnectAll(st, new, f) ==
    /\ st \in [0..(Len(new) - f) -> ConnOut]
    /\ st[0] = [ok |-> TRUE, view |-> Disconnected(new).view, undo |-> undo]
    /\ \A k \in 1..(Len(new) - f) : st[k] = ConnectOne(st[k - 1], new[f + k], f + k)

LEMMA ConnectedDef ==
    ASSUME ChainOK(chain, undo, coins), NEW new, IsChain(new), Disconnected(new).fClean
    PROVE  \E st : /\ ConnectAll(st, new, ForkHeight(new))
                   /\ Connected(new) = st[Len(new) - ForkHeight(new)]
<1> DEFINE F == ForkHeight(new)
           N == Len(new) - F
           v0 == [ok |-> TRUE, view |-> Disconnected(new).view, undo |-> undo]
           Def(f) == [k \in 0..N |-> IF k = 0 THEN v0 ELSE ConnectOne(f[k - 1], new[F + k], F + k)]
           run == CHOOSE f : f = Def(f)
<1>z. chain \in Seq(Block) /\ new \in Seq(Block) /\ Len(new) \in Nat
  BY ChainPath DEF ChainOK
<1>y. F \in Nat /\ F <= Len(new)
  BY <1>z, ForkFacts
<1>0. N \in Nat /\ \A k \in 1..N : F + k \in 1..Len(new) /\ F + k \in Nat
  BY <1>y, <1>z
<1>a. v0 \in ConnOut
  <2>1. Disconnected(new).view \in View
    BY <1>z, DisconnectedMatches, MatchesView
  <2>2. undo \in Undos
    BY DEF ChainOK, UndoInv
  <2> QED BY <2>1, <2>2 DEF ConnOut
<1>b. Connected(new) = run[N]
  BY DEF Connected
<1>c. ASSUME NEW k \in 1..N, NEW s \in ConnOut PROVE ConnectOne(s, new[F + k], F + k) \in ConnOut
  <2>1. new[F + k] \in Block /\ F + k \in Nat
    BY <1>0, <1>z
  <2> HIDE DEF F, N
  <2> QED BY <2>1, ConnectOneType
<1> HIDE DEF N, v0, F
<1>1. \E f : f = Def(f)
  <2> DEFINE G == [x \in (1..N) \X ConnOut |-> ConnectOne(x[2], new[F + x[1]], F + x[1])]
  <2>1. SeqStep(N, ConnOut, v0, G)
    <3>1. ASSUME NEW x \in (1..N) \X ConnOut PROVE ConnectOne(x[2], new[F + x[1]], F + x[1]) \in ConnOut
      <4>1. x[1] \in 1..N /\ x[2] \in ConnOut
        OBVIOUS
      <4> QED BY <1>c, <4>1
    <3> QED BY <1>0, <1>a, <3>1 DEF SeqStep
  <2>2. PICK f : SeqFunction(f, N, ConnOut, v0, G)
    <3> HIDE DEF G
    <3> QED BY <2>1, SeqRecursion
  <2>3. ASSUME NEW i \in 1..N PROVE f[i] = ConnectOne(f[i - 1], new[F + i], F + i)
    <3>1. f[i] = G[<<i, f[i - 1]>>] /\ f[i - 1] \in ConnOut
      <4>1. i - 1 \in 0..N
        BY <1>0
      <4> HIDE DEF G
      <4> QED BY <2>2, <4>1 DEF SeqFunction
    <3> QED BY <3>1
  <2>4. f \in [0..N -> ConnOut] /\ f[0] = v0
    BY <2>2 DEF SeqFunction
  <2>5. f = Def(f)
    <3>1. ASSUME NEW i \in 0..N PROVE f[i] = Def(f)[i]
      <4>1. CASE i = 0
        BY <2>4, <4>1
      <4>2. CASE i # 0
        <5>1. i \in 1..N
          BY <1>0, <4>2
        <5> QED BY <2>3, <4>2, <5>1
      <4> QED BY <4>1, <4>2
    <3> QED BY <2>4, <3>1
  <2> QED BY <2>5
<1>2. run = Def(run)
  BY <1>1
<1> HIDE DEF run
<1>3. \A i \in 0..N : run[i] = Def(run)[i]
  BY <1>2
<1>4. run[0] = v0
  BY <1>0, <1>3
<1>5. ASSUME NEW i \in 1..N PROVE run[i] = ConnectOne(run[i - 1], new[F + i], F + i)
  BY <1>0, <1>3
<1> DEFINE T == {i \in 0..N : run[i] \in ConnOut}
<1>6. 0 \in T
  BY <1>0, <1>a, <1>4
<1>7. ASSUME NEW i \in 1..N, i - 1 \in T PROVE i \in T
  <2>1. i \in 0..N /\ run[i - 1] \in ConnOut
    BY <1>0, <1>7
  <2> QED BY <1>c, <1>5, <2>1
<1>8. \A i \in 0..N : i \in T
  <2> HIDE DEF T
  <2> QED BY <1>0, <1>6, <1>7, Interval0
<1>9. run \in [0..N -> ConnOut]
  BY <1>2, <1>8
<1> QED BY <1>b, <1>4, <1>5, <1>9 DEF ConnectAll, N, v0, F

LEMMA ConnectedRun ==
    ASSUME ChainOK(chain, undo, coins), NEW new, IsChain(new), Disconnected(new).fClean
    PROVE  \E st : /\ ConnectAll(st, new, ForkHeight(new))
                   /\ Connected(new) = st[Len(new) - ForkHeight(new)]
                   /\ \A k \in 0..(Len(new) - ForkHeight(new)) : UpTo(st[k], new, ForkHeight(new) + k)
<1> DEFINE f == ForkHeight(new)  N == Len(new) - f
<1>z. chain \in Seq(Block) /\ new \in Seq(Block) /\ Len(new) \in Nat
  BY ChainPath DEF ChainOK
<1>0. f \in Nat /\ f <= Len(new) /\ Agree(chain, new, f) /\ N \in Nat
  BY <1>z, ForkFacts
<1>1. PICK st : ConnectAll(st, new, f) /\ Connected(new) = st[N]
  BY ConnectedDef
<1>2. /\ \A k \in 0..N : st[k] \in ConnOut
      /\ st[0] = [ok |-> TRUE, view |-> Disconnected(new).view, undo |-> undo]
      /\ \A k \in 1..N : st[k] = ConnectOne(st[k - 1], new[f + k], f + k)
  BY <1>1 DEF ConnectAll
<1>3. Matches(Disconnected(new).view, new, <<f + 1, 1>>)
  BY <1>z, DisconnectedMatches
<1> HIDE DEF f, N
<1> DEFINE T == {k \in 0..N : UpTo(st[k], new, f + k)}
<1>4. 0 \in T
  <2>1. f + 0 = f
    BY <1>0
  <2>2. \A j \in 1..f : new[j] \in DOMAIN undo
    <3>1. ASSUME NEW j \in 1..f PROVE new[j] \in DOMAIN undo
      <4>1. j \in 1..Len(chain) /\ new[j] = chain[j]
        BY <1>0, <1>z DEF Agree
      <4> QED BY <4>1 DEF ChainOK
    <3> QED BY <3>1
  <2>3. UpTo(st[0], new, f)
    BY <1>2, <1>3, <2>2 DEF UpTo, ChainOK
  <2> QED BY <1>0, <2>1, <2>3
<1>5. ASSUME NEW k \in 1..N, k - 1 \in T PROVE k \in T
  <2> DEFINE h == f + k
  <2>1. h \in 1..Len(new) /\ f + (k - 1) = h - 1 /\ k - 1 \in 0..N /\ k \in 0..N
    BY <1>0, <1>z DEF N
  <2>2. UpTo(st[k - 1], new, h - 1) /\ st[k - 1] \in ConnOut /\ st[k] = ConnectOne(st[k - 1], new[h], h)
    BY <1>2, <1>5, <2>1
  <2> HIDE DEF h
  <2>3. UpTo(st[k], new, h)
    BY <2>1, <2>2, ConnectOneFacts
  <2> QED BY <2>1, <2>3 DEF h
<1>6. \A k \in 0..N : k \in T
  <2> HIDE DEF T
  <2> QED BY <1>0, <1>4, <1>5, Interval0
<1> QED BY <1>1, <1>6 DEF f, N

LEMMA ConnectedFacts ==
    ASSUME ChainOK(chain, undo, coins), NEW new, IsChain(new), Disconnected(new).fClean
    PROVE  /\ Connected(new) \in ConnOut
           /\ UndoInv(Connected(new).undo) /\ DOMAIN undo \subseteq DOMAIN Connected(new).undo
           /\ Connected(new).ok => ChainOK(new, Connected(new).undo, Connected(new).view)
<1> DEFINE f == ForkHeight(new)  N == Len(new) - f
<1>z. chain \in Seq(Block) /\ new \in Seq(Block) /\ Len(new) \in Nat
  BY ChainPath DEF ChainOK
<1>0. f \in Nat /\ f <= Len(new) /\ N \in Nat
  BY <1>z, ForkFacts
<1>1. PICK st : ConnectAll(st, new, f) /\ Connected(new) = st[N] /\ \A k \in 0..N : UpTo(st[k], new, f + k)
  BY ConnectedRun
<1>2. f + N = Len(new) /\ N \in 0..N
  BY <1>0, <1>z
<1>3. UpTo(st[N], new, Len(new)) /\ st[N] \in ConnOut
  <2> HIDE DEF f
  <2> QED BY <1>1, <1>2 DEF ConnectAll
<1> QED BY <1>1, <1>3 DEF UpTo, ChainOK, End

-----------------------------------------------------------------------------
(***************************************************************************)
(* The inductive invariant of the coin view: the chain is one of the tree, *)
(* every block of it has undo data, every block with undo data has         *)
(* connected on its own branch, and the view is the chain's.               *)
(***************************************************************************)
ChainInv == ChainOK(chain, undo, coins)

LEMMA EmptyMatches ==
    Matches(NoCoins, <<>>, End(<<>>))
<1>1. End(<<>>) = <<1, 1>> /\ <<>> \in Seq(Block)
  BY DEF End
<1>2. Upto(<<>>, <<1, 1>>) = {}
  BY <1>1, UptoFirst
<1>3. ASSUME NEW o PROVE ~Unspent(<<>>, o, <<1, 1>>)
  BY <1>2 DEF Unspent
<1>4. NoCoins \in RawView /\ \A t \in Tx : NoCoins[t].vout = {}
  BY DEF NoCoins, Pruned, RawView
<1> QED BY <1>1, <1>3, <1>4 DEF Matches

LEMMA ChainInvInit ==
    Init => ChainInv
<1> SUFFICES ASSUME Init PROVE ChainInv
  OBVIOUS
<1>1. chain = <<>> /\ coins = NoCoins /\ undo = [b \in {} |-> <<>>]
  BY DEF Init
<1>2. undo \in Undos /\ DOMAIN undo = {}
  BY <1>1, UndosDef
<1>3. IsChain(chain) /\ Len(chain) = 0
  BY <1>1 DEF IsChain
<1>4. Matches(coins, chain, End(chain))
  BY <1>1, EmptyMatches
<1> QED BY <1>2, <1>3, <1>4 DEF ChainInv, ChainOK, UndoInv

LEMMA PathIsChain ==
    ASSUME NEW b \in Block PROVE IsChain(Path[b])
BY PathFacts DEF IsChain

LEMMA PrimedChainOK ==
    ASSUME NEW c, NEW u, NEW view, ChainOK(c, u, view), chain' = c, undo' = u, coins' = view
    PROVE  ChainInv'
BY DEF ChainInv

LEMMA ChainInvStep ==
    ChainInv /\ [Next]_vars => ChainInv'
<1> SUFFICES ASSUME ChainInv, [Next]_vars PROVE ChainInv'
  OBVIOUS
<1>0. ChainOK(chain, undo, coins)
  BY DEF ChainInv
<1>1. CASE chain' = chain /\ undo' = undo /\ coins' = coins
  BY <1>0, <1>1, PrimedChainOK
<1>2. ASSUME NEW tx \in Tx, AcceptToMemoryPool(tx) PROVE ChainInv'
  BY <1>1, <1>2 DEF AcceptToMemoryPool
<1>3. ASSUME NEW b \in Block, NEW fFlush \in BOOLEAN, SetBestChain(b, fFlush) PROVE ChainInv'
  <2>1. /\ Disconnected(Path[b]).fClean /\ Connected(Path[b]).ok
        /\ chain' = Path[b] /\ coins' = Connected(Path[b]).view /\ undo' = Connected(Path[b]).undo
    BY <1>3 DEF SetBestChain
  <2>2. ChainOK(Path[b], Connected(Path[b]).undo, Connected(Path[b]).view)
    BY <1>0, <2>1, PathIsChain, ConnectedFacts
  <2> QED BY <2>1, <2>2, PrimedChainOK
<1>4. ASSUME NEW b \in Block, SetBestChainFails(b) PROVE ChainInv'
  <2>1. /\ Disconnected(Path[b]).fClean
        /\ chain' = chain /\ coins' = coins /\ undo' = Connected(Path[b]).undo
    BY <1>4 DEF SetBestChainFails
  <2>2. UndoInv(Connected(Path[b]).undo) /\ DOMAIN undo \subseteq DOMAIN Connected(Path[b]).undo
    BY <1>0, <2>1, PathIsChain, ConnectedFacts
  <2>3. ChainOK(chain, Connected(Path[b]).undo, coins)
    BY <1>0, <2>2 DEF ChainOK
  <2> QED BY <2>1, <2>3, PrimedChainOK
<1>5. ASSUME Restart PROVE ChainInv'
  BY <1>1, <1>5 DEF Restart
<1>6. ASSUME UNCHANGED vars PROVE ChainInv'
  BY <1>1, <1>6 DEF vars
<1> QED BY <1>2, <1>3, <1>4, <1>5, <1>6 DEF Next

(* The places of a chain whose blocks all have undo data are valid ones.   *)
LEMMA ChainValid ==
    ASSUME NEW c, NEW u, NEW view, ChainOK(c, u, view), NEW p \in Places(c)
    PROVE  ValidAt(c, p) /\ TxAt(c, p) \in Tx
<1>1. c \in Seq(Block) /\ IsChain(c)
  BY ChainPath DEF ChainOK
<1> DEFINE h == p[1]  i == p[2]  b == c[h]  d == Path[b]
<1>2. p = <<h, i>> /\ h \in 1..Len(c) /\ i \in 1..Len(vtx[c[h]]) /\ i \in Nat
  BY <1>1, PlacesDef
<1>3. b \in Block /\ d \in Seq(Block) /\ Len(d) = h /\ h \in Nat /\ Agree(d, c, h) /\ d[h] = b
  BY <1>1, <1>2, ChainPath, PathFacts
<1>4. b \in DOMAIN u /\ GoodBlock(b, u[b])
  BY <1>2 DEF ChainOK, UndoInv
<1>5. ValidAt(d, <<h, i>>)
  BY <1>2, <1>3, <1>4 DEF GoodBlock
<1>6. Same(d, c, <<h, i>>)
  <2>1. h \in 1..h
    BY <1>3, <1>2
  <2> QED BY <1>1, <1>2, <1>3, <2>1, AgreeSame
<1>7. TxAt(c, p) = vtx[b][i] /\ TxAt(d, <<h, i>>) = vtx[b][i] /\ vtx[b][i] \in Tx
  BY <1>2, <1>3, BlockFacts DEF TxAt
<1> HIDE DEF h, i, b, d
<1>8. \A o : Unspent(c, o, p) <=> Unspent(d, o, <<h, i>>)
  BY <1>2, <1>6, SameUnspent
<1> QED BY <1>5, <1>7, <1>8 DEF ValidAt

(* After any number of blocks connected and disconnected, and attempts     *)
(* that failed on the way, the coin view of SetBestChain is that of the    *)
(* best chain: an output is available exactly when the chain has made it   *)
(* and not spent it since, and every transaction of the chain has spent    *)
(* outputs that were unspent at its place.                                 *)
THEOREM CoinsFollowChain ==
    Spec => []CoinsMatchChain
<1>1. ChainInv => CoinsMatchChain
  <2> SUFFICES ASSUME ChainInv PROVE CoinsMatchChain
    OBVIOUS
  <2>1. ChainOK(chain, undo, coins) /\ Matches(coins, chain, End(chain))
    BY DEF ChainInv, ChainOK
  <2>2. \A p \in Places(chain) : ValidAt(chain, p)
    BY <2>1, ChainValid
  <2>3. \A tx \in Tx :
           /\ \A n \in DOMAIN vout[tx] : n \in coins[tx].vout <=> Unspent(chain, <<tx, n>>, End(chain))
           /\ coins[tx].vout # {} => LastAt(chain, tx, coins[tx].nHeight, End(chain))
    BY <2>1 DEF Matches
  <2> QED BY <2>2, <2>3 DEF CoinsMatchChain, ValidAt
<1> QED BY <1>1, ChainInvInit, ChainInvStep, PTL DEF Spec

-----------------------------------------------------------------------------
(***************************************************************************)
(* The sum over all transactions of what a view has of each.               *)
(***************************************************************************)
Pick(s) == CHOOSE x \in s : TRUE

LEMMA PickIn ==
    ASSUME NEW s, s # {} PROVE Pick(s) \in s
BY DEF Pick

(* f[s] sums W over s, taking the elements as MapThenSumSet does.          *)
SetSums(f, W) ==
    /\ f \in [SUBSET Tx -> Int]
    /\ \A s \in SUBSET Tx : f[s] = IF s = {} THEN 0 ELSE W[Pick(s)] + f[s \ {Pick(s)}]

Values(view) == [t \in Tx |-> Worth(view, t)]
WorthOf(view) == MapThenSumSet(LAMBDA tx : Worth(view, tx), Tx)

LEMMA SubsetCard ==
    ASSUME NEW s \in SUBSET Tx
    PROVE  /\ IsFiniteSet(s) /\ Cardinality(s) \in Nat /\ Cardinality(s) <= Cardinality(Tx)
           /\ Cardinality(Tx) \in Nat
           /\ s # {} => /\ Pick(s) \in s /\ Pick(s) \in Tx /\ s \ {Pick(s)} \in SUBSET Tx
                        /\ Cardinality(s \ {Pick(s)}) = Cardinality(s) - 1
<1>1. IsFiniteSet(Tx)
  BY BlockAssumption
<1>2. IsFiniteSet(s) /\ Cardinality(s) <= Cardinality(Tx)
  BY <1>1, FS_Subset
<1>3. Cardinality(s) \in Nat /\ Cardinality(Tx) \in Nat
  BY <1>1, <1>2, FS_CardinalityType
<1>4. s # {} => Pick(s) \in s /\ Pick(s) \in Tx /\ s \ {Pick(s)} \in SUBSET Tx
  BY PickIn
<1>5. s # {} => Cardinality(s \ {Pick(s)}) = Cardinality(s) - 1
  BY <1>2, <1>4, FS_RemoveElement
<1> QED BY <1>2, <1>3, <1>4, <1>5

(* Sets of transactions by the number of their elements.                   *)
LEMMA CardInduction ==
    ASSUME NEW T, {} \in T,
           \A s \in SUBSET Tx : s # {} /\ s \ {Pick(s)} \in T => s \in T
    PROVE  \A s \in SUBSET Tx : s \in T
<1> SUFFICES ASSUME NEW s0 \in SUBSET Tx, s0 \notin T PROVE FALSE
  OBVIOUS
<1> DEFINE B == {Cardinality(s) : s \in {r \in SUBSET Tx : r \notin T}}
<1>1. B \in SUBSET Nat /\ B # {}
  <2>1. ASSUME NEW s \in SUBSET Tx PROVE Cardinality(s) \in Nat
    BY SubsetCard
  <2>2. Cardinality(s0) \in B
    OBVIOUS
  <2> QED BY <2>1, <2>2
<1>2. PICK n \in B : \A m \in B : n <= m
  <2> HIDE DEF B
  <2> QED BY <1>1, LeastElement
<1>3. PICK s \in SUBSET Tx : s \notin T /\ n = Cardinality(s)
  OBVIOUS
<1>4. s # {}
  BY <1>3
<1>5. s \ {Pick(s)} \in SUBSET Tx /\ Cardinality(s \ {Pick(s)}) = Cardinality(s) - 1 /\ Cardinality(s) \in Nat
  BY <1>4, SubsetCard
<1>6. s \ {Pick(s)} \notin T
  BY <1>3, <1>4
<1>7. Cardinality(s) - 1 \in B
  BY <1>5, <1>6
<1>8. n <= Cardinality(s) - 1
  <2> HIDE DEF B
  <2> QED BY <1>2, <1>7
<1> QED BY <1>3, <1>5, <1>8

LEMMA SetSumsExist ==
    ASSUME NEW W \in [Tx -> Int]
    PROVE  \E f : SetSums(f, W)
<1> DEFINE N == Cardinality(Tx) + 1
           V == [SUBSET Tx -> Int]
           Step(g) == [s \in SUBSET Tx |-> IF s = {} THEN 0 ELSE W[Pick(s)] + g[s \ {Pick(s)}]]
           v0 == [s \in SUBSET Tx |-> 0]
           G == [x \in (1..N) \X V |-> Step(x[2])]
<1>0. N \in Nat /\ N >= 1 /\ N = Cardinality(Tx) + 1
  <2>1. {} \in SUBSET Tx
    OBVIOUS
  <2>2. Cardinality(Tx) \in Nat
    BY <2>1, SubsetCard
  <2> QED BY <2>2
<1>1. ASSUME NEW g \in V PROVE Step(g) \in V
  <2>1. ASSUME NEW s \in SUBSET Tx PROVE (IF s = {} THEN 0 ELSE W[Pick(s)] + g[s \ {Pick(s)}]) \in Int
    <3>1. CASE s # {}
      <4>1. W[Pick(s)] \in Int /\ g[s \ {Pick(s)}] \in Int
        BY <3>1, SubsetCard
      <4> QED BY <3>1, <4>1
    <3> QED BY <3>1
  <2> QED BY <2>1
<1> HIDE DEF N
<1>2. SeqStep(N, V, v0, G)
  <2>1. v0 \in V
    OBVIOUS
  <2>2. ASSUME NEW x \in (1..N) \X V PROVE Step(x[2]) \in V
    <3>1. x[2] \in V
      OBVIOUS
    <3> HIDE DEF Step, V
    <3> QED BY <1>1, <3>1
  <2> HIDE DEF v0, Step, V
  <2> QED BY <1>0, <2>1, <2>2 DEF SeqStep
<1>3. PICK F : SeqFunction(F, N, V, v0, G)
  <2> HIDE DEF G, V, v0
  <2> QED BY <1>2, SeqRecursion
<1>4. \A i \in 0..N : F[i] \in V
  BY <1>3 DEF SeqFunction
<1>5. ASSUME NEW i \in 1..N PROVE F[i] = Step(F[i - 1]) /\ i - 1 \in 0..N /\ F[i - 1] \in V
  <2>1. i - 1 \in 0..N
    BY <1>0
  <2>2. F[i] = G[<<i, F[i - 1]>>] /\ F[i - 1] \in V
    <3> HIDE DEF G, V, v0
    <3> QED BY <1>3, <1>4, <2>1 DEF SeqFunction
  <2>3. G[<<i, F[i - 1]>>] = Step(F[i - 1])
    <3> HIDE DEF V, Step
    <3> QED BY <2>2
  <2> QED BY <2>1, <2>2, <2>3
<1>6. ASSUME NEW i \in 1..N, NEW s \in SUBSET Tx
      PROVE F[i][s] = IF s = {} THEN 0 ELSE W[Pick(s)] + F[i - 1][s \ {Pick(s)}]
  BY <1>5
<1> HIDE DEF G, V, v0, Step
<1> DEFINE T == {i \in 0..N : i = 0 \/ \A s \in SUBSET Tx : Cardinality(s) < i => F[i][s] = F[i - 1][s]}
<1>7. 0 \in T
  BY <1>0
<1>8. ASSUME NEW i \in 1..N, i - 1 \in T PROVE i \in T
  <2>1. ASSUME NEW s \in SUBSET Tx, Cardinality(s) < i PROVE F[i][s] = F[i - 1][s]
    <3> DEFINE r == s \ {Pick(s)}
    <3>1. CASE i = 1
      <4>1. s = {}
        <5>1. Cardinality(s) = 0
          <6>1. Cardinality(s) \in Nat
            BY SubsetCard
          <6> QED BY <2>1, <3>1, <6>1
        <5> QED BY <5>1, SubsetCard, FS_EmptySet
      <4>2. F[1][{}] = 0
        BY <1>6, <3>1, <4>1
      <4>3. F[0] = v0 /\ v0[{}] = 0
        BY <1>3 DEF SeqFunction, v0
      <4> QED BY <3>1, <4>1, <4>2, <4>3
    <3>2. CASE i # 1
      <4>1. i - 1 \in 1..N /\ i - 1 # 0
        BY <1>0, <3>2
      <4>2. CASE s = {}
        <5>1. F[i][s] = 0
          BY <1>6, <4>2
        <5>2. F[i - 1][s] = 0
          BY <1>6, <4>1, <4>2
        <5> QED BY <5>1, <5>2
      <4>3. CASE s # {}
        <5>1. r \in SUBSET Tx /\ Cardinality(r) < i - 1
          BY <2>1, <4>1, <4>3, SubsetCard
        <5>2. F[i - 1][r] = F[i - 1 - 1][r]
          BY <1>8, <4>1, <5>1
        <5>3. F[i][s] = W[Pick(s)] + F[i - 1][r]
          BY <1>6, <4>3
        <5>4. F[i - 1][s] = W[Pick(s)] + F[i - 1 - 1][r]
          BY <1>6, <4>1, <4>3
        <5> QED BY <5>2, <5>3, <5>4
      <4> QED BY <4>2, <4>3
    <3> QED BY <3>1, <3>2
  <2>2. i \in 0..N
    BY <1>0
  <2> QED BY <2>1, <2>2
<1>9. N \in T
  <2> HIDE DEF T
  <2> QED BY <1>0, <1>7, <1>8, Interval0
<1>10. ASSUME NEW s \in SUBSET Tx
       PROVE F[N][s] = IF s = {} THEN 0 ELSE W[Pick(s)] + F[N][s \ {Pick(s)}]
  <2>1. N \in 1..N
    BY <1>0
  <2>2. CASE s = {}
    BY <1>6, <2>1, <2>2
  <2>3. CASE s # {}
    <3> DEFINE r == s \ {Pick(s)}
    <3>1. r \in SUBSET Tx /\ Cardinality(r) < N
      BY <1>0, <2>3, SubsetCard
    <3>2. F[N][r] = F[N - 1][r]
      BY <1>0, <1>9, <3>1
    <3>3. F[N][s] = W[Pick(s)] + F[N - 1][r]
      BY <1>6, <2>1, <2>3
    <3> QED BY <2>3, <3>2, <3>3
  <2> QED BY <2>2, <2>3
<1>11. F[N] \in [SUBSET Tx -> Int]
  <2>1. N \in 0..N
    BY <1>0
  <2>2. F[N] \in V
    BY <1>4, <2>1
  <2> QED BY <2>2 DEF V
<1>12. SetSums(F[N], W)
  BY <1>10, <1>11 DEF SetSums
<1> QED BY <1>12

LEMMA WorthInt ==
    ASSUME NEW view, NEW t \in Tx PROVE Worth(view, t) \in Int
<1> DEFINE s == [n \in DOMAIN vout[t] |-> IF n \in view[t].vout THEN vout[t][n] ELSE 0]
<1>1. vout[t] \in Seq(Nat) /\ Len(vout[t]) \in Nat /\ DOMAIN vout[t] = 1..Len(vout[t])
  BY TxFacts
<1>2. \A n \in 1..Len(vout[t]) : s[n] \in Int
  BY <1>1
<1>3. s \in Seq(Int)
  BY <1>1, <1>2
<1> HIDE DEF s
<1>4. Total(s) \in Int
  BY <1>3, TotalInt
<1> QED BY <1>4 DEF Worth, s

LEMMA WorthDef ==
    ASSUME NEW view
    PROVE  /\ Values(view) \in [Tx -> Int]
           /\ \E f : SetSums(f, Values(view)) /\ WorthOf(view) = f[Tx]
<1> DEFINE W == Values(view)
           Def(f) == [s \in SUBSET Tx |-> IF s = {} THEN 0
                        ELSE Worth(view, CHOOSE x \in s : TRUE) + f[s \ {CHOOSE x \in s : TRUE}]]
           iter == CHOOSE f : f = Def(f)
<1>1. W \in [Tx -> Int]
  BY WorthInt DEF Values
<1>2. WorthOf(view) = iter[Tx]
  BY DEF WorthOf, MapThenSumSet, MapThenFoldSet
<1>3. ASSUME NEW f, NEW s \in SUBSET Tx
      PROVE Def(f)[s] = IF s = {} THEN 0 ELSE W[Pick(s)] + f[s \ {Pick(s)}]
  <2>1. CASE s = {}
    BY <2>1
  <2>2. CASE s # {}
    <3>1. W[Pick(s)] = Worth(view, Pick(s))
      BY <2>2, PickIn DEF Values
    <3> QED BY <2>2, <3>1 DEF Pick
  <2> QED BY <2>1, <2>2
<1>4. PICK g : SetSums(g, W)
  <2> HIDE DEF W
  <2> QED BY <1>1, SetSumsExist
<1>5. g = Def(g)
  <2>1. ASSUME NEW s \in SUBSET Tx PROVE g[s] = Def(g)[s]
    BY <1>3, <1>4 DEF SetSums
  <2>2. g \in [SUBSET Tx -> Int]
    BY <1>4 DEF SetSums
  <2> QED BY <2>1, <2>2
<1>6. iter = Def(iter)
  BY <1>5
<1> HIDE DEF iter, W
<1>7. \A s \in SUBSET Tx : iter[s] = IF s = {} THEN 0 ELSE W[Pick(s)] + iter[s \ {Pick(s)}]
  <2>1. \A s \in SUBSET Tx : iter[s] = Def(iter)[s]
    BY <1>6
  <2> HIDE DEF Def
  <2> QED BY <1>3, <2>1
<1> DEFINE T == {s \in SUBSET Tx : iter[s] \in Int}
<1>8. {} \in T
  BY <1>7
<1>9. ASSUME NEW s \in SUBSET Tx, s # {}, s \ {Pick(s)} \in T PROVE s \in T
  <2>1. W[Pick(s)] \in Int /\ iter[s \ {Pick(s)}] \in Int
    BY <1>1, <1>9, SubsetCard
  <2> QED BY <1>7, <1>9, <2>1
<1>10. \A s \in SUBSET Tx : s \in T
  <2> HIDE DEF T
  <2> QED BY <1>8, <1>9, CardInduction
<1>11. iter \in [SUBSET Tx -> Int]
  <2>1. \A s \in SUBSET Tx : iter[s] \in Int
    BY <1>10
  <2>2. iter = [s \in SUBSET Tx |-> iter[s]]
    BY <1>6
  <2> QED BY <2>1, <2>2
<1>12. SetSums(iter, W)
  BY <1>7, <1>11 DEF SetSums
<1> QED BY <1>1, <1>2, <1>12 DEF W

LEMMA WorthOfInt ==
    ASSUME NEW view PROVE WorthOf(view) \in Int
<1>1. PICK f : SetSums(f, Values(view)) /\ WorthOf(view) = f[Tx]
  BY WorthDef
<1>2. f \in [SUBSET Tx -> Int] /\ Tx \in SUBSET Tx
  BY <1>1 DEF SetSums
<1> QED BY <1>1, <1>2

(* Views that differ in one transaction only.                              *)
LEMMA WorthPoint ==
    ASSUME NEW v, NEW w, NEW k \in Tx, \A t \in Tx : t # k => Worth(v, t) = Worth(w, t)
    PROVE  WorthOf(v) - WorthOf(w) = Worth(v, k) - Worth(w, k)
<1> DEFINE V == Values(v)  W == Values(w)
<1>1. PICK f : SetSums(f, V) /\ WorthOf(v) = f[Tx]
  BY WorthDef
<1>2. PICK g : SetSums(g, W) /\ WorthOf(w) = g[Tx]
  BY WorthDef
<1>3. \A t \in Tx : V[t] \in Int /\ W[t] \in Int
  BY WorthInt DEF Values
<1>4. V[k] = Worth(v, k) /\ W[k] = Worth(w, k) /\ \A t \in Tx : t # k => V[t] = W[t]
  BY DEF Values
<1> HIDE DEF V, W
<1>5. /\ \A s \in SUBSET Tx : f[s] \in Int /\ g[s] \in Int
      /\ f[{}] = 0 /\ g[{}] = 0
      /\ \A s \in SUBSET Tx : s # {} => /\ f[s] = V[Pick(s)] + f[s \ {Pick(s)}]
                                        /\ g[s] = W[Pick(s)] + g[s \ {Pick(s)}]
  BY <1>1, <1>2 DEF SetSums
<1> DEFINE T == {s \in SUBSET Tx : f[s] - g[s] = IF k \in s THEN V[k] - W[k] ELSE 0}
<1>6. {} \in T
  BY <1>5
<1>7. ASSUME NEW s \in SUBSET Tx, s # {}, s \ {Pick(s)} \in T PROVE s \in T
  <2> DEFINE x == Pick(s)  r == s \ {x}
  <2>1. x \in s /\ x \in Tx /\ r \in SUBSET Tx
    BY <1>7, SubsetCard
  <2>2. f[s] = V[x] + f[r] /\ g[s] = W[x] + g[r]
    BY <1>5, <1>7
  <2>3. f[r] - g[r] = IF k \in r THEN V[k] - W[k] ELSE 0
    BY <1>7
  <2>4. V[x] \in Int /\ W[x] \in Int /\ V[k] \in Int /\ W[k] \in Int /\ f[r] \in Int /\ g[r] \in Int
    BY <1>3, <1>5, <2>1
  <2>5. CASE k = x
    <3>1. k \notin r /\ k \in s
      BY <2>1, <2>5
    <3>2. f[r] - g[r] = 0
      BY <2>3, <3>1
    <3>3. f[s] - g[s] = V[k] - W[k]
      BY <2>2, <2>4, <2>5, <3>2
    <3> QED BY <3>1, <3>3
  <2>6. CASE k # x
    <3>1. k \in r <=> k \in s
      BY <2>6
    <3>2. V[x] = W[x]
      BY <1>4, <2>1, <2>6
    <3>3. f[s] - g[s] = f[r] - g[r]
      BY <2>2, <2>4, <3>2
    <3> QED BY <2>3, <3>1, <3>3
  <2> QED BY <2>5, <2>6
<1>8. \A s \in SUBSET Tx : s \in T
  <2> HIDE DEF T
  <2> QED BY <1>6, <1>7, CardInduction
<1>9. Tx \in T
  BY <1>8
<1> QED BY <1>1, <1>2, <1>4, <1>9

LEMMA WorthSame ==
    ASSUME NEW v, NEW w, \A t \in Tx : Worth(v, t) = Worth(w, t)
    PROVE  WorthOf(v) = WorthOf(w)
<1> DEFINE W == Values(w)
<1>1. Values(v) = W
  BY DEF Values
<1>2. PICK f : SetSums(f, W) /\ WorthOf(v) = f[Tx]
  BY <1>1, WorthDef
<1>3. PICK g : SetSums(g, W) /\ WorthOf(w) = g[Tx]
  BY WorthDef
<1> HIDE DEF W
<1>4. /\ f[{}] = g[{}]
      /\ \A s \in SUBSET Tx : s # {} => /\ f[s] = W[Pick(s)] + f[s \ {Pick(s)}]
                                        /\ g[s] = W[Pick(s)] + g[s \ {Pick(s)}]
  BY <1>2, <1>3 DEF SetSums
<1> DEFINE T == {s \in SUBSET Tx : f[s] = g[s]}
<1>5. {} \in T
  BY <1>4
<1>6. ASSUME NEW s \in SUBSET Tx, s # {}, s \ {Pick(s)} \in T PROVE s \in T
  BY <1>4, <1>6
<1>7. \A s \in SUBSET Tx : s \in T
  <2> HIDE DEF T
  <2> QED BY <1>5, <1>6, CardInduction
<1>8. Tx \in T
  BY <1>7
<1> QED BY <1>2, <1>3, <1>8

(* What a transaction is worth depends on its unspent outputs alone.       *)
LEMMA WorthOutputs ==
    ASSUME NEW v, NEW w, NEW t \in Tx, \A n \in DOMAIN vout[t] : n \in v[t].vout <=> n \in w[t].vout
    PROVE  Worth(v, t) = Worth(w, t)
<1>1. [n \in DOMAIN vout[t] |-> IF n \in v[t].vout THEN vout[t][n] ELSE 0]
        = [n \in DOMAIN vout[t] |-> IF n \in w[t].vout THEN vout[t][n] ELSE 0]
  OBVIOUS
<1> QED BY <1>1 DEF Worth

(* The outputs of t and their values, those outside S left out.            *)
Held(t, S) == [n \in 1..Len(vout[t]) |-> IF n \in S THEN vout[t][n] ELSE 0]

LEMMA HeldSeq ==
    ASSUME NEW t \in Tx, NEW S
    PROVE  /\ Held(t, S) \in Seq(Int) /\ Len(Held(t, S)) = Len(vout[t])
           /\ \A n \in 1..Len(vout[t]) : Held(t, S)[n] = IF n \in S THEN vout[t][n] ELSE 0
<1>1. vout[t] \in Seq(Nat) /\ Len(vout[t]) \in Nat /\ DOMAIN vout[t] = 1..Len(vout[t])
  BY TxFacts
<1>2. \A n \in 1..Len(vout[t]) : (IF n \in S THEN vout[t][n] ELSE 0) \in Int
  BY <1>1
<1> QED BY <1>1, <1>2 DEF Held

LEMMA WorthHeld ==
    ASSUME NEW view, NEW t \in Tx PROVE Worth(view, t) = Total(Held(t, view[t].vout))
BY TxFacts DEF Worth, Held

LEMMA WorthNone ==
    ASSUME NEW view, NEW t \in Tx, view[t].vout = {} PROVE Worth(view, t) = 0
<1> DEFINE s == Held(t, view[t].vout)
<1>1. s \in Seq(Int) /\ \A i \in 1..Len(s) : s[i] = 0
  BY HeldSeq
<1> HIDE DEF s
<1>2. Total(s) = 0
  BY <1>1, TotalZero
<1> QED BY <1>2, WorthHeld DEF s

LEMMA WorthAll ==
    ASSUME NEW view, NEW t \in Tx, view[t].vout = DOMAIN vout[t] PROVE Worth(view, t) = GetValueOut(t)
<1> DEFINE s == Held(t, view[t].vout)  r == vout[t]
<1>0. r \in Seq(Nat) /\ r \in Seq(Int) /\ DOMAIN r = 1..Len(r)
  BY TxFacts
<1>1. s \in Seq(Int) /\ Len(s) = Len(r) /\ \A i \in 1..Len(s) : s[i] = r[i]
  BY <1>0, HeldSeq
<1> HIDE DEF s, r
<1>2. Total(s) = Total(r)
  BY <1>0, <1>1, TotalSame
<1> QED BY <1>2, WorthHeld DEF s, r, GetValueOut

(* One output less.                                                        *)
LEMMA WorthLess ==
    ASSUME NEW v, NEW w, NEW t \in Tx, NEW n \in DOMAIN vout[t],
           n \in v[t].vout, n \notin w[t].vout,
           \A m \in DOMAIN vout[t] : m # n => (m \in v[t].vout <=> m \in w[t].vout)
    PROVE  Worth(v, t) - Worth(w, t) = vout[t][n]
<1> DEFINE s == Held(t, v[t].vout)  r == Held(t, w[t].vout)
<1>0. DOMAIN vout[t] = 1..Len(vout[t]) /\ vout[t][n] \in Nat
  BY TxFacts
<1>1. /\ s \in Seq(Int) /\ r \in Seq(Int) /\ Len(s) = Len(r) /\ n \in 1..Len(s)
      /\ s[n] = vout[t][n] /\ r[n] = 0
  BY <1>0, HeldSeq
<1>2. \A i \in 1..Len(s) : i # n => s[i] = r[i]
  <2>1. ASSUME NEW i \in 1..Len(s), i # n PROVE s[i] = r[i]
    <3>1. i \in 1..Len(vout[t]) /\ i \in DOMAIN vout[t]
      BY <1>0, HeldSeq
    <3>2. s[i] = IF i \in v[t].vout THEN vout[t][i] ELSE 0
      BY <3>1, HeldSeq
    <3>3. r[i] = IF i \in w[t].vout THEN vout[t][i] ELSE 0
      BY <3>1, HeldSeq
    <3>4. i \in v[t].vout <=> i \in w[t].vout
      BY <2>1, <3>1
    <3> HIDE DEF s, r
    <3> QED BY <3>2, <3>3, <3>4
  <2> QED BY <2>1
<1> HIDE DEF s, r
<1>3. Total(s) - Total(r) = s[n] - r[n]
  BY <1>1, <1>2, TotalPoint
<1>4. Total(s) - Total(r) = vout[t][n]
  BY <1>0, <1>1, <1>3
<1> QED BY <1>4, WorthHeld DEF s, r

(* The view once inputs 1 to j of tx are spent.                            *)
Less(view, tx, j) == [t \in Tx |-> [vout |-> view[t].vout \ SpentOf(t, tx, j), nHeight |-> 0]]

LEMMA SpentOfStep ==
    ASSUME NEW tx \in Tx, NEW j \in 1..Len(vin[tx]), NEW t, NEW n
    PROVE  /\ n \in SpentOf(t, tx, j) <=> \/ n \in SpentOf(t, tx, j - 1)
                                          \/ n = vin[tx][j][2] /\ vin[tx][j][1] = t
           /\ SpentOf(t, tx, 0) = {}
           /\ vin[tx][j][2] \notin SpentOf(vin[tx][j][1], tx, j - 1)
<1>0. Len(vin[tx]) \in Nat
  BY TxFacts
<1>1. 1..j = 1..(j - 1) \cup {j} /\ 1..0 = {}
  BY <1>0
<1>2. ASSUME vin[tx][j][2] \in SpentOf(vin[tx][j][1], tx, j - 1) PROVE FALSE
  <2>1. PICK k \in 1..(j - 1) : vin[tx][k][1] = vin[tx][j][1] /\ vin[tx][k][2] = vin[tx][j][2]
    BY <1>2 DEF SpentOf
  <2>2. k \in 1..Len(vin[tx]) /\ k # j
    BY <1>0, <2>1
  <2>3. vin[tx][k] = vin[tx][j]
    <3>1. vin[tx][k] = <<vin[tx][k][1], vin[tx][k][2]>>
      BY <2>2, TxFacts
    <3>2. vin[tx][j] = <<vin[tx][j][1], vin[tx][j][2]>>
      BY TxFacts
    <3> QED BY <2>1, <3>1, <3>2
  <2> QED BY <2>2, <2>3, TxFacts
<1>3. SpentOf(t, tx, 0) = {}
  BY <1>1 DEF SpentOf
<1>4. n \in SpentOf(t, tx, j) <=> \/ n \in SpentOf(t, tx, j - 1)
                                  \/ n = vin[tx][j][2] /\ vin[tx][j][1] = t
  BY <1>1 DEF SpentOf
<1> QED BY <1>2, <1>3, <1>4

LEMMA SpendWorth ==
    ASSUME NEW view \in View, NEW tx \in Tx, HaveInputs(view, tx), NEW j \in 1..Len(vin[tx])
    PROVE  WorthOf(Less(view, tx, j - 1)) - WorthOf(Less(view, tx, j)) = InValues(tx)[j]
<1> DEFINE t == vin[tx][j][1]  n == vin[tx][j][2]  v == Less(view, tx, j - 1)  w == Less(view, tx, j)
<1>1. t \in Tx /\ n \in DOMAIN vout[t] /\ InValues(tx)[j] = vout[t][n]
  BY TxFacts, InValuesSeq
<1>2. n \in view[t].vout
  BY TxFacts DEF HaveInputs, IsAvailable
<1>3. \A u \in Tx : /\ v[u].vout = view[u].vout \ SpentOf(u, tx, j - 1)
                    /\ w[u].vout = view[u].vout \ SpentOf(u, tx, j)
  BY DEF Less
<1> HIDE DEF v, w, t, n
<1>4. ASSUME NEW u \in Tx, NEW m PROVE m \in w[u].vout <=> m \in v[u].vout /\ ~(m = n /\ u = t)
  BY <1>3, SpentOfStep DEF t, n
<1>5. n \in v[t].vout /\ n \notin w[t].vout
  BY <1>1, <1>2, <1>3, <1>4, SpentOfStep DEF t, n
<1>6. Worth(v, t) - Worth(w, t) = vout[t][n]
  BY <1>1, <1>4, <1>5, WorthLess
<1>7. \A u \in Tx : u # t => Worth(v, u) = Worth(w, u)
  BY <1>4, WorthOutputs
<1>8. WorthOf(v) - WorthOf(w) = Worth(v, t) - Worth(w, t)
  BY <1>1, <1>7, WorthPoint
<1> QED BY <1>1, <1>6, <1>8 DEF v, w

(* A transaction that connects moves value from its inputs to its outputs. *)
LEMMA UpdateWorth ==
    ASSUME NEW view \in View, NEW tx \in Tx, NEW h \in Nat, view[tx].vout = {}, HaveInputs(view, tx)
    PROVE  WorthOf(UpdateCoins(view, tx, h).view) = WorthOf(view) + GetValueOut(tx) - GetValueIn(tx)
<1> DEFINE N == Len(vin[tx])  s == InValues(tx)  new == UpdateCoins(view, tx, h).view
           v(j) == WorthOf(Less(view, tx, j))
<1>0. N \in Nat /\ s \in Seq(Int) /\ Len(s) = N /\ GetValueIn(tx) = Total(s)
  BY TxFacts, InValuesSeq
<1>1. PICK f : Sums(f, s) /\ Total(s) = f[N]
  <2> HIDE DEF s
  <2> QED BY <1>0, TotalDef
<1>2. /\ f[0] = 0 /\ \A i \in 0..N : f[i] \in Int
      /\ \A i \in 1..N : f[i] = f[i - 1] + s[i]
  BY <1>0, <1>1 DEF Sums
<1>3. \A i \in 1..N : s[i] \in Int
  <2> HIDE DEF s, N
  <2> QED BY <1>0
<1>4. ASSUME NEW j \in 1..N PROVE v(j - 1) - v(j) = s[j]
  BY SpendWorth
<1>5. ASSUME NEW j PROVE v(j) \in Int
  BY WorthOfInt
<1>6. v(0) = WorthOf(view)
  <2>1. ASSUME NEW t \in Tx PROVE Worth(Less(view, tx, 0), t) = Worth(view, t)
    <3>1. SpentOf(t, tx, 0) = {}
      BY DEF SpentOf
    <3>2. Less(view, tx, 0)[t].vout = view[t].vout
      BY <3>1 DEF Less
    <3> QED BY <3>2, WorthOutputs
  <2> QED BY <2>1, WorthSame
<1> HIDE DEF N, s, v
<1> DEFINE T == {j \in 0..N : v(0) - v(j) = f[j]}
<1>7. 0 \in T
  BY <1>0, <1>2, <1>5
<1>8. ASSUME NEW j \in 1..N, j - 1 \in T PROVE j \in T
  <2>1. j - 1 \in 0..N /\ j \in 0..N
    BY <1>0
  <2>2. v(0) - v(j - 1) = f[j - 1] /\ v(j - 1) - v(j) = s[j] /\ f[j] = f[j - 1] + s[j]
    BY <1>2, <1>4, <1>8
  <2>3. v(0) \in Int /\ v(j) \in Int /\ v(j - 1) \in Int /\ s[j] \in Int /\ f[j] \in Int /\ f[j - 1] \in Int
    BY <1>2, <1>3, <1>5, <2>1
  <2>4. v(0) - v(j) = f[j]
    BY <2>2, <2>3
  <2> QED BY <2>1, <2>4
<1>9. N \in T
  <2> HIDE DEF T
  <2> QED BY <1>0, <1>7, <1>8, Interval0
<1>10. v(0) - v(N) = GetValueIn(tx)
  BY <1>0, <1>1, <1>9
<1>11. /\ new[tx].vout = DOMAIN vout[tx]
       /\ \A t \in Tx : t # tx => new[t].vout = Less(view, tx, N)[t].vout
  <2>1. view \in RawView
    BY DEF View
  <2>2. /\ new[tx] = [vout |-> DOMAIN vout[tx], nHeight |-> h]
        /\ \A t \in Tx : t # tx => new[t].vout = view[t].vout \ SpentOf(t, tx, Len(vin[tx]))
    BY <2>1, UpdateFacts
  <2>3. \A t \in Tx : Less(view, tx, N)[t].vout = view[t].vout \ SpentOf(t, tx, N)
    BY DEF Less
  <2> HIDE DEF new
  <2>4. new[tx].vout = DOMAIN vout[tx]
    BY <2>2
  <2>5. ASSUME NEW t \in Tx, t # tx PROVE new[t].vout = Less(view, tx, N)[t].vout
    BY <2>2, <2>3, <2>5 DEF N
  <2> QED BY <2>4, <2>5
<1> HIDE DEF new
<1>12. Less(view, tx, N)[tx].vout = {}
  BY DEF Less
<1>13. Worth(new, tx) = GetValueOut(tx) /\ Worth(Less(view, tx, N), tx) = 0
  BY <1>11, <1>12, WorthAll, WorthNone
<1>14. \A t \in Tx : t # tx => Worth(new, t) = Worth(Less(view, tx, N), t)
  BY <1>11, WorthOutputs
<1>15. WorthOf(new) - v(N) = Worth(new, tx) - Worth(Less(view, tx, N), tx)
  BY <1>14, WorthPoint DEF v
<1>16. WorthOf(new) \in Int /\ v(N) \in Int /\ v(0) \in Int /\ GetValueOut(tx) \in Int /\ GetValueIn(tx) \in Int
  BY <1>5, WorthOfInt, ValueOutInt, InValuesSeq
<1>17. WorthOf(new) = v(0) + GetValueOut(tx) - GetValueIn(tx)
  BY <1>10, <1>13, <1>15, <1>16
<1> QED BY <1>6, <1>17 DEF new

LEMMA UpdateOther ==
    ASSUME NEW view \in RawView, NEW tx \in Tx, NEW h \in Nat, NEW t \in Tx, t # tx
    PROVE  UpdateCoins(view, tx, h).view[t].vout = view[t].vout \ SpentOf(t, tx, Len(vin[tx]))
<1> DEFINE new == UpdateCoins(view, tx, h).view
<1>1. /\ new \in RawView
      /\ new[tx] = [vout |-> DOMAIN vout[tx], nHeight |-> h]
      /\ \A u \in Tx : u # tx => /\ new[u].vout = view[u].vout \ SpentOf(u, tx, Len(vin[tx]))
                                 /\ new[u].nHeight = view[u].nHeight
  BY UpdateFacts
<1> HIDE DEF new
<1>2. new[t].vout = view[t].vout \ SpentOf(t, tx, Len(vin[tx]))
  BY <1>1
<1> QED BY <1>2 DEF new

LEMMA CoinBaseValueIn ==
    ASSUME NEW tx \in CoinBase, NEW view \in View
    PROVE  HaveInputs(view, tx) /\ GetValueIn(tx) = 0
<1>1. tx \in Tx
  BY BlockAssumption
<1>2. Len(vin[tx]) = 0 /\ DOMAIN vin[tx] = 1..0
  BY <1>1, TxFacts
<1>3. HaveInputs(view, tx)
  BY <1>2 DEF HaveInputs
<1> DEFINE s == InValues(tx)
<1>4. s \in Seq(Int) /\ Len(s) = 0 /\ GetValueIn(tx) = Total(s)
  BY <1>1, <1>2, <1>3, InValuesSeq
<1> HIDE DEF s
<1>5. Total(s) = 0
  <2>1. \A i \in 1..Len(s) : s[i] = 0
    BY <1>4
  <2> QED BY <1>4, <2>1, TotalZero
<1> QED BY <1>3, <1>4, <1>5

(* The transactions of a block move value and may leave fees; the coinbase *)
(* takes no more than the subsidy and those fees.                          *)
LEMMA ConnectBlockWorth ==
    ASSUME NEW b \in Block, NEW view \in View, NEW h \in Nat, ConnectBlock(view, b, h).ok
    PROVE  WorthOf(ConnectBlock(view, b, h).view) <= WorthOf(view) + Subsidy(h)
<1> DEFINE N == Len(vtx[b])  r == ConnectBlock(view, b, h)  cb == vtx[b][1]
<1>0. /\ N \in Nat /\ N >= 1 /\ \A i \in 1..N : vtx[b][i] \in Tx
      /\ \A i, j \in 1..N : vtx[b][i] = vtx[b][j] => i = j
      /\ \A i \in 1..N : vtx[b][i] \in CoinBase <=> i = 1
  BY BlockFacts
<1>1. PICK st : /\ ConnectLoop(st, Fresh(view, b), view, b, h)
                /\ st[N].ok /\ GetValueOut(cb) <= GetBlockValue(h, st[N].nFees)
                /\ r.view = st[N].view
  BY ConnectBlockDef
<1>2. Fresh(view, b) \in BOOLEAN
  BY DEF Fresh
<1>3. /\ Fresh(view, b)
      /\ \A i \in 1..N : /\ st[i - 1] \in ConnState /\ st[i] \in ConnState
                         /\ Accepts(st[i - 1], st[i], vtx[b][i], h)
  BY <1>1, <1>2, ConnectRuns
<1>4. st[0].view = view /\ st[0].nFees = 0 /\ st[0] \in ConnState
  <2>1. 0 \in 0..N
    BY <1>0
  <2> QED BY <1>1, <2>1 DEF ConnectLoop
<1>5. \A i \in 0..N : st[i].view \in View /\ st[i].nFees \in Int
  BY <1>1 DEF ConnectLoop, ConnState
<1> HIDE DEF N, r
<1> DEFINE S == {i \in 0..N : \A k \in (i + 1)..N : st[i].view[vtx[b][k]].vout = {}}
<1>6. \A i \in 0..N : i \in S
  <2>1. 0 \in S
    <3>1. \A k \in 1..N : view[vtx[b][k]].vout = {}
      BY <1>3, BlockFacts DEF Fresh, N
    <3> QED BY <1>0, <1>4, <3>1
  <2>2. ASSUME NEW i \in 1..N, i - 1 \in S PROVE i \in S
    <3>1. i \in 0..N /\ i - 1 \in 0..N
      BY <1>0
    <3>2. ASSUME NEW k \in (i + 1)..N PROVE st[i].view[vtx[b][k]].vout = {}
      <4>1. k \in 1..N /\ k # i /\ k \in ((i - 1) + 1)..N
        BY <1>0
      <4>2. st[i - 1].view[vtx[b][k]].vout = {}
        BY <2>2, <4>1
      <4>3. vtx[b][k] \in Tx /\ vtx[b][i] \in Tx /\ vtx[b][k] # vtx[b][i]
        BY <1>0, <4>1
      <4>4. st[i].view = UpdateCoins(st[i - 1].view, vtx[b][i], h).view
        BY <1>3 DEF Accepts
      <4>5. st[i - 1].view \in RawView
        BY <1>5, <3>1 DEF View
      <4>6. st[i].view[vtx[b][k]].vout
              = st[i - 1].view[vtx[b][k]].vout \ SpentOf(vtx[b][k], vtx[b][i], Len(vin[vtx[b][i]]))
        BY <4>3, <4>4, <4>5, UpdateOther
      <4> QED BY <4>2, <4>6
    <3> QED BY <3>1, <3>2
  <2> HIDE DEF S
  <2> QED BY <1>0, <2>1, <2>2, Interval0
<1>7. ASSUME NEW i \in 1..N
      PROVE  /\ GetValueIn(vtx[b][i]) \in Int /\ GetValueOut(vtx[b][i]) \in Int
             /\ WorthOf(st[i].view) = WorthOf(st[i - 1].view)
                                        + GetValueOut(vtx[b][i]) - GetValueIn(vtx[b][i])
             /\ i = 1 => GetValueIn(vtx[b][i]) = 0
             /\ st[i].nFees = st[i - 1].nFees
                    + IF i = 1 THEN 0 ELSE GetValueIn(vtx[b][i]) - GetValueOut(vtx[b][i])
  <2> DEFINE tx == vtx[b][i]  v == st[i - 1].view
  <2>1. i - 1 \in 0..N /\ i \in ((i - 1) + 1)..N
    BY <1>0
  <2>2. tx \in Tx /\ (tx \in CoinBase <=> i = 1) /\ v \in View /\ v[tx].vout = {}
    BY <1>0, <1>5, <1>6, <2>1
  <2>3. Accepts(st[i - 1], st[i], tx, h)
    BY <1>3
  <2>4. HaveInputs(v, tx) /\ (i = 1 => GetValueIn(tx) = 0)
    <3>1. CASE i = 1
      BY <2>2, <3>1, CoinBaseValueIn
    <3>2. CASE i # 1
      BY <2>2, <2>3, <3>2 DEF Accepts, CheckInputs
    <3> QED BY <3>1, <3>2
  <2>5. GetValueIn(tx) \in Int /\ GetValueOut(tx) \in Int
    BY <2>2, <2>4, InValuesSeq, ValueOutInt
  <2>6. WorthOf(UpdateCoins(v, tx, h).view) = WorthOf(v) + GetValueOut(tx) - GetValueIn(tx)
    BY <2>2, <2>4, UpdateWorth
  <2>7. /\ st[i].view = UpdateCoins(v, tx, h).view
        /\ st[i].nFees = st[i - 1].nFees + IF tx \in CoinBase THEN 0 ELSE GetValueIn(tx) - GetValueOut(tx)
    BY <2>3 DEF Accepts
  <2> HIDE DEF tx, v
  <2>8. st[i].nFees = st[i - 1].nFees + IF i = 1 THEN 0 ELSE GetValueIn(tx) - GetValueOut(tx)
    BY <2>2, <2>7
  <2> QED BY <2>4, <2>5, <2>6, <2>7, <2>8 DEF tx, v
<1> DEFINE W(i) == WorthOf(st[i].view)
<1>8. ASSUME NEW i PROVE W(i) \in Int
  BY WorthOfInt
<1>9. cb \in Tx /\ GetValueOut(cb) \in Int
  BY <1>0, ValueOutInt
<1> DEFINE T == {i \in 0..N : W(i) + st[i].nFees = W(0) + IF i = 0 THEN 0 ELSE GetValueOut(cb)}
<1>10. 0 \in T
  BY <1>0, <1>4, <1>8
<1>11. ASSUME NEW i \in 1..N, i - 1 \in T PROVE i \in T
  <2> DEFINE in == GetValueIn(vtx[b][i])  out == GetValueOut(vtx[b][i])
  <2>1. i \in 0..N /\ i - 1 \in 0..N /\ i # 0
    BY <1>0
  <2>2. /\ in \in Int /\ out \in Int /\ W(i) = W(i - 1) + out - in /\ (i = 1 => in = 0)
        /\ st[i].nFees = st[i - 1].nFees + IF i = 1 THEN 0 ELSE in - out
    BY <1>7
  <2>3. W(i - 1) + st[i - 1].nFees = W(0) + IF i - 1 = 0 THEN 0 ELSE GetValueOut(cb)
    BY <1>11
  <2>4. /\ W(i) \in Int /\ W(i - 1) \in Int /\ W(0) \in Int
        /\ st[i].nFees \in Int /\ st[i - 1].nFees \in Int
    BY <1>5, <1>8, <2>1
  <2>5. i = 1 => out = GetValueOut(cb)
    OBVIOUS
  <2> HIDE DEF W, in, out
  <2>6. W(i) + st[i].nFees = W(0) + GetValueOut(cb)
    BY <1>9, <2>1, <2>2, <2>3, <2>4, <2>5
  <2> QED BY <2>1, <2>6
<1> HIDE DEF W
<1>12. N \in T
  <2> HIDE DEF T
  <2> QED BY <1>0, <1>10, <1>11, Interval0
<1>13. W(N) + st[N].nFees = W(0) + GetValueOut(cb)
  BY <1>0, <1>12
<1>14. GetValueOut(cb) <= Subsidy(h) + st[N].nFees
  BY <1>1 DEF GetBlockValue
<1>15. N \in 0..N /\ st[N].nFees \in Int /\ Subsidy(h) \in Int
  BY <1>0, <1>5, SubsidyInt
<1>16. W(N) <= W(0) + Subsidy(h)
  BY <1>8, <1>9, <1>13, <1>14, <1>15
<1> QED BY <1>1, <1>4, <1>16 DEF W, r

(* The money issued up to height n.                                        *)
Issued(n) == Total([k \in 1..n |-> Subsidy(k)])

LEMMA IssuedStep ==
    ASSUME NEW n \in Nat
    PROVE  Issued(n) \in Int /\ Issued(n + 1) = Issued(n) + Subsidy(n + 1) /\ Issued(0) = 0
<1> DEFINE s(m) == [k \in 1..m |-> Subsidy(k)]
<1>1. ASSUME NEW m \in Nat PROVE s(m) \in Seq(Int) /\ Len(s(m)) = m
  <2>1. \A k \in 1..m : Subsidy(k) \in Int
    BY SubsidyInt
  <2> QED BY <2>1
<1>2. \A i \in 1..n : s(n + 1)[i] = s(n)[i]
  OBVIOUS
<1>3. s(n + 1)[n + 1] = Subsidy(n + 1)
  OBVIOUS
<1>4. n + 1 \in Nat
  OBVIOUS
<1> HIDE DEF s
<1>5. Total(s(n + 1)) = Total(s(n)) + Subsidy(n + 1)
  <2>1. Total(s(n + 1)) = Total(s(n)) + s(n + 1)[Len(s(n + 1))]
    BY <1>1, <1>2, <1>4, TotalLast
  <2> QED BY <1>1, <1>3, <1>4, <2>1
<1>6. Total(s(n)) \in Int
  BY <1>1, TotalInt
<1>7. Total(s(0)) = 0
  BY <1>1, TotalZero
<1> QED BY <1>5, <1>6, <1>7 DEF Issued, s

LEMMA WorthNothing ==
    ASSUME NEW view, \A t \in Tx : view[t].vout = {}
    PROVE  WorthOf(view) = 0
<1> DEFINE W == Values(view)
<1>1. PICK f : SetSums(f, W) /\ WorthOf(view) = f[Tx]
  BY WorthDef
<1>2. \A t \in Tx : W[t] = 0
  BY WorthNone DEF Values
<1> HIDE DEF W
<1>3. f[{}] = 0 /\ \A s \in SUBSET Tx : s # {} => f[s] = W[Pick(s)] + f[s \ {Pick(s)}]
  BY <1>1 DEF SetSums
<1> DEFINE T == {s \in SUBSET Tx : f[s] = 0}
<1>4. {} \in T
  BY <1>3
<1>5. ASSUME NEW s \in SUBSET Tx, s # {}, s \ {Pick(s)} \in T PROVE s \in T
  <2>1. W[Pick(s)] = 0 /\ f[s \ {Pick(s)}] = 0
    BY <1>2, <1>5, SubsetCard
  <2>2. f[s] = W[Pick(s)] + f[s \ {Pick(s)}]
    BY <1>3, <1>5
  <2>3. f[s] = 0
    BY <2>1, <2>2
  <2> QED BY <2>3
<1>6. \A s \in SUBSET Tx : s \in T
  <2> HIDE DEF T
  <2> QED BY <1>4, <1>5, CardInduction
<1>7. Tx \in T
  BY <1>6
<1> QED BY <1>1, <1>7

LEMMA MatchesWorth ==
    ASSUME NEW v, NEW w, NEW c, NEW end, Matches(v, c, end), Matches(w, c, end)
    PROVE  WorthOf(v) = WorthOf(w)
<1>1. ASSUME NEW t \in Tx PROVE Worth(v, t) = Worth(w, t)
  <2>1. \A n \in DOMAIN vout[t] : n \in v[t].vout <=> n \in w[t].vout
    BY DEF Matches
  <2> QED BY <2>1, WorthOutputs
<1> QED BY <1>1, WorthSame

(* No chain that has connected is worth more than its subsidies.           *)
Affordable(b) ==
    \A view : Matches(view, Path[b], End(Path[b])) => WorthOf(view) <= Issued(Len(Path[b]))

AllAffordable(u) == \A b \in DOMAIN u : Affordable(b)

(* The view at the fork is that of a chain that has connected.             *)
LEMMA ForkAffordable ==
    ASSUME NEW c, NEW u, NEW view, NEW f \in Nat, NEW v,
           ChainOK(c, u, view), f <= Len(c), Matches(v, c, <<f + 1, 1>>), AllAffordable(u)
    PROVE  WorthOf(v) <= Issued(f)
<1>0. c \in Seq(Block) /\ IsChain(c) /\ Len(c) \in Nat
  BY ChainPath DEF ChainOK
<1>1. CASE f = 0
  <2>1. Upto(c, <<1, 1>>) = {}
    BY <1>0, UptoFirst
  <2>2. \A o : ~Unspent(c, o, <<1, 1>>)
    BY <2>1 DEF Unspent
  <2>3. Matches(v, c, <<1, 1>>)
    BY <1>1
  <2>4. \A t \in Tx : v[t].vout = {}
    BY <2>2, <2>3 DEF Matches
  <2>5. WorthOf(v) = 0 /\ Issued(0) = 0
    BY <2>4, WorthNothing, IssuedStep
  <2> QED BY <1>1, <2>5
<1>2. CASE f # 0
  <2> DEFINE b == c[f]
  <2>1. f \in 1..Len(c)
    BY <1>0, <1>2
  <2>2. b \in Block /\ Path[b] \in Seq(Block) /\ Len(Path[b]) = f /\ Agree(c, Path[b], f) /\ b \in DOMAIN u
    BY <1>0, <2>1, ChainPath DEF ChainOK
  <2> HIDE DEF b
  <2>3. Same(c, Path[b], <<f + 1, 1>>)
    BY <1>0, <2>2, AgreeSame
  <2>4. Matches(v, Path[b], <<f + 1, 1>>)
    BY <2>3, MatchesSame
  <2>5. Affordable(b) /\ End(Path[b]) = <<f + 1, 1>>
    BY <2>2 DEF AllAffordable, End
  <2> QED BY <2>2, <2>4, <2>5 DEF Affordable
<1> QED BY <1>1, <1>2

LEMMA ConnectOneAffordable ==
    ASSUME NEW new, IsChain(new), NEW h \in 1..Len(new), NEW st \in ConnOut,
           UpTo(st, new, h - 1), UpTo(ConnectOne(st, new[h], h), new, h),
           AllAffordable(st.undo), st.ok => WorthOf(st.view) <= Issued(h - 1)
    PROVE  LET s == ConnectOne(st, new[h], h)
           IN  AllAffordable(s.undo) /\ (s.ok => WorthOf(s.view) <= Issued(h))
<1> DEFINE b == new[h]  r == ConnectBlock(st.view, b, h)  s == ConnectOne(st, b, h)
<1>1. /\ new \in Seq(Block) /\ b \in Block /\ h \in Nat /\ Len(Path[b]) = h /\ Path[b] \in Seq(Block)
      /\ Agree(new, Path[b], h)
  BY ChainPath
<1> HIDE DEF b
<1>2. /\ s \in ConnOut
      /\ s.ok => /\ st.ok /\ r.ok /\ s.view = r.view
                 /\ s.undo = Keep(st.undo, b, r.undo) /\ r.undo \in Seq(Seq(Nat))
      /\ ~s.ok => s.undo = st.undo
  BY <1>1, ConnectOneType
<1>3. UpTo(s, new, h)
  BY DEF b
<1> HIDE DEF s
<1>4. CASE ~s.ok
  BY <1>2, <1>4 DEF s, b
<1>5. CASE s.ok
  <2>1. WorthOf(s.view) <= Issued(h)
    <3>1. WorthOf(r.view) <= WorthOf(st.view) + Subsidy(h)
      BY <1>1, <1>2, <1>5, ConnectBlockWorth DEF ConnOut
    <3>2. h - 1 \in Nat /\ (h - 1) + 1 = h
      BY <1>1
    <3>3. Issued(h - 1) \in Int /\ Issued(h) = Issued(h - 1) + Subsidy(h)
      BY <3>2, IssuedStep
    <3>4. WorthOf(r.view) \in Int /\ WorthOf(st.view) \in Int /\ Subsidy(h) \in Int
      BY <1>1, WorthOfInt, SubsidyInt
    <3> HIDE DEF r
    <3>5. WorthOf(r.view) <= Issued(h)
      BY <1>2, <1>5, <3>1, <3>3, <3>4
    <3> QED BY <1>2, <1>5, <3>5
  <2>2. Matches(s.view, Path[b], End(Path[b]))
    <3>1. Same(new, Path[b], <<h + 1, 1>>)
      BY <1>1, AgreeSame
    <3>2. Matches(s.view, new, <<h + 1, 1>>)
      BY <1>3, <1>5 DEF UpTo
    <3>3. Matches(s.view, Path[b], <<h + 1, 1>>)
      BY <3>1, <3>2, MatchesSame
    <3> QED BY <1>1, <3>3 DEF End
  <2>3. Affordable(b)
    BY <1>1, <2>1, <2>2, MatchesWorth DEF Affordable
  <2>4. DOMAIN s.undo = DOMAIN st.undo \cup {b}
    <3> HIDE DEF r
    <3>1. s.undo = Keep(st.undo, b, r.undo)
      BY <1>2, <1>5
    <3> QED BY <3>1 DEF Keep
  <2>5. AllAffordable(s.undo)
    BY <2>3, <2>4 DEF AllAffordable
  <2> QED BY <2>1, <2>5 DEF s, b
<1> QED BY <1>4, <1>5

LEMMA ConnectedAffordable ==
    ASSUME ChainOK(chain, undo, coins), NEW new, IsChain(new), Disconnected(new).fClean, AllAffordable(undo)
    PROVE  AllAffordable(Connected(new).undo)
<1> DEFINE f == ForkHeight(new)  N == Len(new) - f
<1>z. chain \in Seq(Block) /\ new \in Seq(Block) /\ Len(new) \in Nat
  BY ChainPath DEF ChainOK
<1>0. f \in Nat /\ f <= Len(chain) /\ f <= Len(new) /\ N \in Nat
  BY <1>z, ForkFacts
<1>1. PICK st : ConnectAll(st, new, f) /\ Connected(new) = st[N] /\ \A k \in 0..N : UpTo(st[k], new, f + k)
  BY ConnectedRun
<1>2. /\ \A k \in 0..N : st[k] \in ConnOut
      /\ st[0] = [ok |-> TRUE, view |-> Disconnected(new).view, undo |-> undo]
      /\ \A k \in 1..N : st[k] = ConnectOne(st[k - 1], new[f + k], f + k)
  BY <1>1 DEF ConnectAll
<1>3. WorthOf(Disconnected(new).view) <= Issued(f)
  <2>1. Matches(Disconnected(new).view, chain, <<f + 1, 1>>)
    BY <1>z, DisconnectedMatches
  <2> HIDE DEF f
  <2> QED BY <1>0, <2>1, ForkAffordable
<1> HIDE DEF f, N
<1> DEFINE Good(s, h) == AllAffordable(s.undo) /\ (s.ok => WorthOf(s.view) <= Issued(h))
           T == {k \in 0..N : Good(st[k], f + k)}
<1>4. 0 \in T
  <2>1. f + 0 = f
    BY <1>0
  <2> QED BY <1>0, <1>2, <1>3, <2>1
<1>5. ASSUME NEW k \in 1..N, k - 1 \in T PROVE k \in T
  <2> DEFINE h == f + k
  <2>1. h \in 1..Len(new) /\ f + (k - 1) = h - 1 /\ k - 1 \in 0..N /\ k \in 0..N
    BY <1>0, <1>z DEF N
  <2>2. Good(st[k - 1], h - 1) /\ st[k - 1] \in ConnOut /\ st[k] = ConnectOne(st[k - 1], new[h], h)
    BY <1>2, <1>5, <2>1
  <2>3. UpTo(st[k - 1], new, h - 1) /\ UpTo(ConnectOne(st[k - 1], new[h], h), new, h)
    <3>1. UpTo(st[k - 1], new, h - 1)
      BY <1>1, <2>1
    <3>2. UpTo(st[k], new, h)
      BY <1>1, <2>1
    <3> QED BY <2>2, <3>1, <3>2
  <2> HIDE DEF h
  <2>4. Good(ConnectOne(st[k - 1], new[h], h), h)
    BY <2>1, <2>2, <2>3, ConnectOneAffordable
  <2>5. Good(st[k], h)
    <3> HIDE DEF Good
    <3> QED BY <2>2, <2>4
  <2> QED BY <2>1, <2>5 DEF h
<1>6. N \in T
  <2> HIDE DEF T
  <2> QED BY <1>0, <1>4, <1>5, Interval0
<1> QED BY <1>1, <1>6

MoneyInv == ChainInv /\ AllAffordable(undo)

LEMMA PrimedAffordable ==
    ASSUME NEW u, AllAffordable(u), undo' = u
    PROVE  AllAffordable(undo)'
OBVIOUS

LEMMA MoneyInvStep ==
    MoneyInv /\ [Next]_vars => MoneyInv'
<1> SUFFICES ASSUME MoneyInv, [Next]_vars PROVE AllAffordable(undo)'
  BY ChainInvStep DEF MoneyInv
<1>0. ChainOK(chain, undo, coins) /\ AllAffordable(undo)
  BY DEF MoneyInv, ChainInv
<1>1. ASSUME NEW b \in Block, Disconnected(Path[b]).fClean, undo' = Connected(Path[b]).undo
      PROVE  AllAffordable(undo)'
  <2>1. AllAffordable(Connected(Path[b]).undo)
    BY <1>0, <1>1, PathIsChain, ConnectedAffordable
  <2> QED BY <1>1, <2>1, PrimedAffordable
<1>2. CASE undo' = undo
  BY <1>0, <1>2, PrimedAffordable
<1>3. ASSUME NEW b \in Block, NEW fFlush \in BOOLEAN, SetBestChain(b, fFlush) PROVE AllAffordable(undo)'
  BY <1>1, <1>3 DEF SetBestChain
<1>4. ASSUME NEW b \in Block, SetBestChainFails(b) PROVE AllAffordable(undo)'
  BY <1>1, <1>4 DEF SetBestChainFails
<1> QED BY <1>2, <1>3, <1>4 DEF Next, AcceptToMemoryPool, Restart, vars

LEMMA MoneyInvImplies ==
    MoneyInv => NoInflation
<1> SUFFICES ASSUME MoneyInv PROVE NoInflation
  OBVIOUS
<1>0. ChainOK(chain, undo, coins) /\ AllAffordable(undo) /\ Matches(coins, chain, End(chain))
  BY DEF MoneyInv, ChainInv, ChainOK
<1>1. chain \in Seq(Block) /\ Len(chain) \in Nat /\ DOMAIN chain = 1..Len(chain)
  BY <1>0, ChainPath DEF ChainOK
<1>2. WorthOf(coins) <= Issued(Len(chain))
  <2> DEFINE n == Len(chain)
  <2>1. n \in Nat /\ n <= Len(chain) /\ Matches(coins, chain, <<n + 1, 1>>)
    BY <1>0, <1>1 DEF End
  <2> QED BY <1>0, <2>1, ForkAffordable
<1> QED BY <1>1, <1>2 DEF NoInflation, WorthOf, Issued

(* Reorganisations create no money: whatever blocks connect and disconnect,*)
(* the outputs of the coin view are worth at most the subsidies of the     *)
(* blocks of the best chain.                                               *)
THEOREM NoMoneyFromNothing ==
    Spec => []NoInflation
<1>1. Init => MoneyInv
  <2> SUFFICES ASSUME Init PROVE AllAffordable(undo)
    BY ChainInvInit DEF MoneyInv
  <2>1. DOMAIN undo = {}
    BY DEF Init
  <2> QED BY <2>1 DEF AllAffordable
<1> QED BY <1>1, MoneyInvStep, MoneyInvImplies, PTL DEF Spec

-----------------------------------------------------------------------------
(***************************************************************************)
(* The memory pool: what an insertion, remove(tx, true) and the two calls  *)
(* for a mined transaction leave in it.                                    *)
(***************************************************************************)
IsPool(pool) ==
    /\ pool.mapTx \in SUBSET Tx
    /\ DOMAIN pool.mapNextTx \subseteq Tx \X Nat
    /\ pool.mapNextTx \in [DOMAIN pool.mapNextTx -> Tx]
    /\ pool = [mapTx |-> pool.mapTx, mapNextTx |-> pool.mapNextTx]

GoodPool(pool) == IsPool(pool) /\ Pool!Exact(pool)

LEMMA ExactDef ==
    ASSUME NEW pool
    PROVE  Pool!Exact(pool) <=>
             /\ DOMAIN pool.mapNextTx = UNION {Pool!Ins(tx) : tx \in pool.mapTx}
             /\ \A tx \in pool.mapTx : \A o \in Pool!Ins(tx) : pool.mapNextTx[o] = tx
BY DEF Pool!Exact

LEMMA EmptyPoolGood ==
    GoodPool(Pool!EmptyPool) /\ Pool!EmptyPool.mapTx = {}
BY DEF GoodPool, IsPool, Pool!Exact, Pool!EmptyPool

LEMMA WithoutGood ==
    ASSUME NEW pool, NEW gone, GoodPool(pool)
    PROVE  GoodPool(Pool!Without(pool, gone)) /\ Pool!Without(pool, gone).mapTx = pool.mapTx \ gone
<1> DEFINE erased == gone \cap pool.mapTx
           spent  == UNION {Pool!Ins(tx) : tx \in erased}
           rest   == Pool!Without(pool, gone)
<1>0. IsPool(pool) /\ Pool!Exact(pool)
  BY DEF GoodPool
<1>1. rest = [mapTx |-> pool.mapTx \ erased,
              mapNextTx |-> [o \in DOMAIN pool.mapNextTx \ spent |-> pool.mapNextTx[o]]]
  BY DEF Pool!Without
<1>2. /\ rest.mapTx = pool.mapTx \ erased
      /\ rest.mapNextTx = [o \in DOMAIN pool.mapNextTx \ spent |-> pool.mapNextTx[o]]
      /\ rest = [mapTx |-> rest.mapTx, mapNextTx |-> rest.mapNextTx]
  <2> HIDE DEF rest, spent
  <2> QED BY <1>1
<1> HIDE DEF rest
<1>3. IsPool(rest)
  <2> HIDE DEF spent
  <2> QED BY <1>0, <1>2 DEF IsPool
<1>4. ASSUME NEW tx \in rest.mapTx, NEW o \in Pool!Ins(tx)
      PROVE  o \in DOMAIN pool.mapNextTx /\ o \notin spent /\ pool.mapNextTx[o] = tx
  <2>1. tx \in pool.mapTx /\ tx \notin erased
    BY <1>2, <1>4
  <2>2. pool.mapNextTx[o] = tx
    BY <1>0, <1>4, <2>1, ExactDef
  <2>3. ASSUME NEW e \in erased, o \in Pool!Ins(e) PROVE FALSE
    <3>1. pool.mapNextTx[o] = e
      BY <1>0, <2>3, ExactDef
    <3> QED BY <2>1, <2>2, <3>1
  <2> QED BY <1>0, <2>1, <2>2, <2>3, ExactDef
<1>5. DOMAIN rest.mapNextTx = UNION {Pool!Ins(tx) : tx \in rest.mapTx}
  <2>1. ASSUME NEW o \in DOMAIN rest.mapNextTx PROVE \E tx \in rest.mapTx : o \in Pool!Ins(tx)
    <3>1. o \in DOMAIN pool.mapNextTx /\ o \notin spent
      BY <1>2
    <3>2. PICK tx \in pool.mapTx : o \in Pool!Ins(tx)
      BY <1>0, <3>1, ExactDef
    <3>3. tx \notin erased
      BY <3>1, <3>2
    <3> QED BY <1>2, <3>2, <3>3
  <2>2. ASSUME NEW tx \in rest.mapTx, NEW o \in Pool!Ins(tx) PROVE o \in DOMAIN rest.mapNextTx
    BY <1>2, <1>4
  <2> QED BY <2>1, <2>2
<1>6. ASSUME NEW tx \in rest.mapTx, NEW o \in Pool!Ins(tx) PROVE rest.mapNextTx[o] = tx
  BY <1>2, <1>4
<1>7. Pool!Exact(rest)
  BY <1>5, <1>6, ExactDef
<1> QED BY <1>2, <1>3, <1>7 DEF GoodPool, rest

LEMMA AddGood ==
    ASSUME NEW pool, NEW tx \in Tx, GoodPool(pool), Pool!MayEnter(pool, tx)
    PROVE  GoodPool(Pool!addUnchecked(pool, tx)) /\ Pool!addUnchecked(pool, tx).mapTx = pool.mapTx \cup {tx}
<1> DEFINE more == Pool!addUnchecked(pool, tx)
<1>0. IsPool(pool) /\ Pool!Exact(pool)
  BY DEF GoodPool
<1>1. more = [mapTx |-> pool.mapTx \cup {tx},
              mapNextTx |-> [o \in DOMAIN pool.mapNextTx \cup Pool!Ins(tx) |->
                                IF o \in Pool!Ins(tx) THEN tx ELSE pool.mapNextTx[o]]]
  BY DEF Pool!addUnchecked
<1> HIDE DEF more
<1>2. /\ more.mapTx = pool.mapTx \cup {tx}
      /\ more.mapNextTx = [o \in DOMAIN pool.mapNextTx \cup Pool!Ins(tx) |->
                              IF o \in Pool!Ins(tx) THEN tx ELSE pool.mapNextTx[o]]
      /\ more = [mapTx |-> more.mapTx, mapNextTx |-> more.mapNextTx]
  BY <1>1
<1>3. Pool!Ins(tx) \cap DOMAIN pool.mapNextTx = {}
  BY DEF Pool!MayEnter
<1>4. Pool!Ins(tx) \subseteq Tx \X Nat
  BY InsDef
<1>5. IsPool(more)
  BY <1>0, <1>2, <1>4 DEF IsPool
<1>6. DOMAIN more.mapNextTx = UNION {Pool!Ins(t) : t \in more.mapTx}
  BY <1>0, <1>2, ExactDef
<1>7. ASSUME NEW t \in more.mapTx, NEW o \in Pool!Ins(t) PROVE more.mapNextTx[o] = t
  <2>1. CASE t = tx
    BY <1>2, <1>7, <2>1
  <2>2. CASE t # tx
    <3>1. t \in pool.mapTx /\ o \in DOMAIN pool.mapNextTx /\ pool.mapNextTx[o] = t
      BY <1>0, <1>2, <1>7, <2>2, ExactDef
    <3> QED BY <1>2, <1>3, <3>1
  <2> QED BY <2>1, <2>2
<1>8. Pool!Exact(more)
  BY <1>6, <1>7, ExactDef
<1> QED BY <1>2, <1>5, <1>8 DEF GoodPool, more

(* In an exact index the spenders of d are the pool transactions with an   *)
(* input from d, and those of the outputs of tx are its conflicts.         *)
LEMMA SpendersDef ==
    ASSUME NEW pool, GoodPool(pool), NEW d, NEW x
    PROVE  x \in Pool!Spenders(pool, d) <=> x \in pool.mapTx /\ \E o \in Pool!Ins(x) : o[1] = d
<1>0. Pool!Exact(pool)
  BY DEF GoodPool
<1>1. ASSUME x \in Pool!Spenders(pool, d) PROVE x \in pool.mapTx /\ \E o \in Pool!Ins(x) : o[1] = d
  <2>1. PICK o \in DOMAIN pool.mapNextTx : o[1] = d /\ x = pool.mapNextTx[o]
    BY <1>1 DEF Pool!Spenders
  <2>2. PICK u \in pool.mapTx : o \in Pool!Ins(u)
    BY <1>0, ExactDef
  <2>3. u = x
    BY <1>0, <2>1, <2>2, ExactDef
  <2> QED BY <2>1, <2>2, <2>3
<1>2. ASSUME x \in pool.mapTx, NEW o \in Pool!Ins(x), o[1] = d PROVE x \in Pool!Spenders(pool, d)
  <2>1. o \in DOMAIN pool.mapNextTx /\ pool.mapNextTx[o] = x
    BY <1>0, <1>2, ExactDef
  <2> QED BY <1>2, <2>1 DEF Pool!Spenders
<1> QED BY <1>1, <1>2

LEMMA ConflictsDef ==
    ASSUME NEW pool, GoodPool(pool), NEW tx, NEW x
    PROVE  x \in Pool!Conflicts(pool, tx)
             <=> x # tx /\ x \in pool.mapTx /\ Pool!Ins(x) \cap Pool!Ins(tx) # {}
<1>0. Pool!Exact(pool)
  BY DEF GoodPool
<1>1. ASSUME x \in Pool!Conflicts(pool, tx)
      PROVE  x # tx /\ x \in pool.mapTx /\ Pool!Ins(x) \cap Pool!Ins(tx) # {}
  <2>1. PICK o \in DOMAIN pool.mapNextTx : o \in Pool!Ins(tx) /\ x = pool.mapNextTx[o] /\ x # tx
    BY <1>1 DEF Pool!Conflicts
  <2>2. PICK u \in pool.mapTx : o \in Pool!Ins(u)
    BY <1>0, ExactDef
  <2>3. u = x
    BY <1>0, <2>1, <2>2, ExactDef
  <2> QED BY <2>1, <2>2, <2>3
<1>2. ASSUME x # tx, x \in pool.mapTx, NEW o \in Pool!Ins(x), o \in Pool!Ins(tx)
      PROVE  x \in Pool!Conflicts(pool, tx)
  <2>1. o \in DOMAIN pool.mapNextTx /\ pool.mapNextTx[o] = x
    BY <1>0, <1>2, ExactDef
  <2> QED BY <1>2, <2>1 DEF Pool!Conflicts
<1> QED BY <1>1, <1>2

(* A set of pool transactions that holds the spenders of its members.      *)
Closed(pool, K) == \A x \in pool.mapTx : (\E o \in Pool!Ins(x) : o[1] \in K) => x \in K

LEMMA DescendantsFacts ==
    ASSUME NEW pool, GoodPool(pool), NEW tx
    PROVE  /\ Pool!Descendants(pool, tx) \subseteq pool.mapTx
           /\ Closed(pool, Pool!Descendants(pool, tx))
           /\ \A x \in pool.mapTx : (\E o \in Pool!Ins(x) : o[1] = tx) => x \in Pool!Descendants(pool, tx)
           /\ \A K \in SUBSET pool.mapTx :
                 /\ Closed(pool, K)
                 /\ \A x \in pool.mapTx : (\E o \in Pool!Ins(x) : o[1] = tx) => x \in K
                 => Pool!Descendants(pool, tx) \subseteq K
<1> DEFINE D == Pool!Descendants(pool, tx)
           Above(S) == /\ Pool!Spenders(pool, tx) \subseteq S
                       /\ \A d \in S : Pool!Spenders(pool, d) \subseteq S
<1>1. D = {d \in pool.mapTx : \A S \in SUBSET pool.mapTx : Above(S) => d \in S}
  BY DEF Pool!Descendants
<1> HIDE DEF D
<1>2. ASSUME NEW K PROVE Above(K) => D \subseteq K \/ K \notin SUBSET pool.mapTx
  BY <1>1
<1>3. ASSUME NEW x \in pool.mapTx, NEW o \in Pool!Ins(x), o[1] = tx PROVE x \in D
  <2>1. x \in Pool!Spenders(pool, tx)
    BY <1>3, SpendersDef
  <2> QED BY <1>1, <2>1
<1>4. ASSUME NEW x \in pool.mapTx, NEW o \in Pool!Ins(x), o[1] \in D PROVE x \in D
  <2>1. x \in Pool!Spenders(pool, o[1])
    BY <1>4, SpendersDef
  <2> QED BY <1>1, <1>4, <2>1
<1>5. ASSUME NEW K \in SUBSET pool.mapTx, Closed(pool, K),
             \A x \in pool.mapTx : (\E o \in Pool!Ins(x) : o[1] = tx) => x \in K
      PROVE  D \subseteq K
  <2>1. Above(K)
    BY <1>5, SpendersDef DEF Closed
  <2> QED BY <1>2, <2>1
<1>6. D \subseteq pool.mapTx
  BY <1>1
<1>7. Closed(pool, D)
  BY <1>4 DEF Closed
<1> QED BY <1>3, <1>5, <1>6, <1>7 DEF D

(* remove(tx, true): tx and what spends from it go, at any distance; a     *)
(* transaction without parents in the pool stays.                          *)
RemovedFrom(p, q, tx) ==
    /\ GoodPool(q) /\ q.mapTx \subseteq p.mapTx /\ tx \notin q.mapTx
    /\ \A u \in q.mapTx : \A o \in Pool!Ins(u) : o[1] # tx /\ (o[1] \in p.mapTx => o[1] \in q.mapTx)
    /\ \A u \in p.mapTx : u # tx /\ (\A o \in Pool!Ins(u) : o[1] # tx /\ o[1] \notin p.mapTx) => u \in q.mapTx

(* A mined tx: it goes, and what conflicts with it goes with all that      *)
(* spends from that.                                                       *)
MinedFrom(p, q, tx) ==
    /\ GoodPool(q) /\ q.mapTx \subseteq p.mapTx /\ tx \notin q.mapTx
    /\ \A u \in q.mapTx :
          /\ Pool!Ins(u) \cap Pool!Ins(tx) = {}
          /\ \A o \in Pool!Ins(u) : o[1] \in p.mapTx => o[1] \in q.mapTx \/ o[1] = tx
    /\ \A u \in p.mapTx :
          /\ u # tx /\ Pool!Ins(u) \cap Pool!Ins(tx) = {}
          /\ \A o \in Pool!Ins(u) : o[1] \notin p.mapTx
          => u \in q.mapTx

(* The rest of a pool without one childless-parent transaction is closed.  *)
LEMMA RestClosed ==
    ASSUME NEW pool, NEW u, \A o \in Pool!Ins(u) : o[1] \notin pool.mapTx
    PROVE  Closed(pool, pool.mapTx \ {u})
BY DEF Closed

LEMMA RemoveFacts ==
    ASSUME NEW p, NEW tx, GoodPool(p)
    PROVE  RemovedFrom(p, Pool!remove(p, tx, TRUE), tx)
<1> DEFINE D == Pool!Descendants(p, tx)  gone == {tx} \cup D  q == Pool!remove(p, tx, TRUE)
<1>1. q = Pool!Without(p, gone)
  BY DEF Pool!remove
<1>2. GoodPool(q) /\ q.mapTx = p.mapTx \ gone
  <2> HIDE DEF gone, q
  <2>1. GoodPool(Pool!Without(p, gone)) /\ Pool!Without(p, gone).mapTx = p.mapTx \ gone
    BY WithoutGood
  <2> QED BY <1>1, <2>1
<1>3. /\ D \subseteq p.mapTx /\ Closed(p, D)
      /\ \A x \in p.mapTx : (\E o \in Pool!Ins(x) : o[1] = tx) => x \in D
  BY DescendantsFacts
<1>4. ASSUME NEW u \in p.mapTx, u # tx, \A o \in Pool!Ins(u) : o[1] # tx /\ o[1] \notin p.mapTx
      PROVE  u \notin D
  <2> DEFINE K == p.mapTx \ {u}
  <2>1. K \in SUBSET p.mapTx /\ Closed(p, K)
    BY <1>4, RestClosed
  <2>2. \A x \in p.mapTx : (\E o \in Pool!Ins(x) : o[1] = tx) => x \in K
    BY <1>4
  <2> HIDE DEF K
  <2>3. D \subseteq K
    BY <2>1, <2>2, DescendantsFacts
  <2> QED BY <2>3 DEF K
<1> HIDE DEF D, q
<1>5. ASSUME NEW u \in q.mapTx, NEW o \in Pool!Ins(u)
      PROVE  o[1] # tx /\ (o[1] \in p.mapTx => o[1] \in q.mapTx)
  BY <1>2, <1>3 DEF Closed
<1>6. ASSUME NEW u \in p.mapTx, u # tx, \A o \in Pool!Ins(u) : o[1] # tx /\ o[1] \notin p.mapTx
      PROVE  u \in q.mapTx
  BY <1>2, <1>4, <1>6
<1>7. q.mapTx \subseteq p.mapTx /\ tx \notin q.mapTx
  BY <1>2
<1> QED BY <1>2, <1>5, <1>6, <1>7 DEF RemovedFrom, q

LEMMA DeleteFacts ==
    ASSUME NEW p, NEW tx, GoodPool(p)
    PROVE  MinedFrom(p, DeleteMined(p, tx), tx)
<1> DEFINE r == Pool!remove(p, tx, FALSE)
           C == Pool!Conflicts(r, tx)
           gone == C \cup UNION {Pool!Descendants(r, c) : c \in C}
           q == DeleteMined(p, tx)
<1>1. r = Pool!Without(p, {tx})
  BY DEF Pool!remove
<1>2. GoodPool(r) /\ r.mapTx = p.mapTx \ {tx}
  <2>1. GoodPool(Pool!Without(p, {tx})) /\ Pool!Without(p, {tx}).mapTx = p.mapTx \ {tx}
    BY WithoutGood
  <2> HIDE DEF r
  <2> QED BY <1>1, <2>1
<1>3. q = Pool!Without(r, gone)
  BY DEF DeleteMined, Pool!removeConflicts
<1> HIDE DEF r
<1>4. GoodPool(q) /\ q.mapTx = r.mapTx \ gone
  <2> HIDE DEF gone
  <2> QED BY <1>2, <1>3, WithoutGood
<1>5. \A x : x \in C <=> x # tx /\ x \in r.mapTx /\ Pool!Ins(x) \cap Pool!Ins(tx) # {}
  BY <1>2, ConflictsDef
<1>6. ASSUME NEW c PROVE /\ Pool!Descendants(r, c) \subseteq r.mapTx /\ Closed(r, Pool!Descendants(r, c))
                         /\ \A x \in r.mapTx : (\E o \in Pool!Ins(x) : o[1] = c) => x \in Pool!Descendants(r, c)
  BY <1>2, DescendantsFacts
<1>7. ASSUME NEW x \in r.mapTx, NEW o \in Pool!Ins(x), o[1] \in gone PROVE x \in gone
  <2>1. CASE o[1] \in C
    BY <1>6, <1>7, <2>1
  <2>2. ASSUME NEW c \in C, o[1] \in Pool!Descendants(r, c) PROVE x \in gone
    <3>1. x \in Pool!Descendants(r, c)
      BY <1>6, <1>7, <2>2 DEF Closed
    <3> QED BY <2>2, <3>1
  <2> QED BY <1>7, <2>1, <2>2
<1>8. ASSUME NEW u \in r.mapTx, Pool!Ins(u) \cap Pool!Ins(tx) = {}, \A o \in Pool!Ins(u) : o[1] \notin r.mapTx
      PROVE  u \notin gone
  <2> DEFINE K == r.mapTx \ {u}
  <2>1. K \in SUBSET r.mapTx /\ Closed(r, K)
    BY <1>8, RestClosed
  <2>2. u \notin C
    BY <1>5, <1>8
  <2>3. ASSUME NEW c \in C PROVE u \notin Pool!Descendants(r, c)
    <3>1. c \in r.mapTx
      BY <1>5
    <3>2. \A x \in r.mapTx : (\E o \in Pool!Ins(x) : o[1] = c) => x \in K
      BY <1>8, <3>1
    <3> HIDE DEF K, C
    <3>3. Pool!Descendants(r, c) \subseteq K
      BY <1>2, <2>1, <3>2, DescendantsFacts
    <3> QED BY <3>3 DEF K
  <2> QED BY <2>2, <2>3
<1>9. ASSUME NEW u \in q.mapTx PROVE Pool!Ins(u) \cap Pool!Ins(tx) = {}
  BY <1>2, <1>4, <1>5
<1> HIDE DEF q, gone
<1>10. ASSUME NEW u \in q.mapTx, NEW o \in Pool!Ins(u), o[1] \in p.mapTx
       PROVE  o[1] \in q.mapTx \/ o[1] = tx
  BY <1>2, <1>4, <1>7, <1>10
<1>11. ASSUME NEW u \in p.mapTx, u # tx, Pool!Ins(u) \cap Pool!Ins(tx) = {},
              \A o \in Pool!Ins(u) : o[1] \notin p.mapTx
       PROVE  u \in q.mapTx
  BY <1>2, <1>4, <1>8, <1>11
<1>12. q.mapTx \subseteq p.mapTx /\ tx \notin q.mapTx
  BY <1>2, <1>4
<1> QED BY <1>4, <1>9, <1>10, <1>11, <1>12 DEF MinedFrom, q

(* What MayAccept has made sure of.                                        *)
LEMMA AcceptFacts ==
    ASSUME NEW view \in View, NEW held, NEW pool, GoodPool(pool), NEW tx \in Tx, NEW h,
           MayAccept(view, held, pool, tx, h)
    PROVE  /\ tx \notin CoinBase /\ tx \notin pool.mapTx /\ view[tx].vout = {}
           /\ \A o \in Pool!Ins(tx) : /\ o[1] \in Tx /\ o[2] \in DOMAIN vout[o[1]]
                                      /\ o[2] \in view[o[1]].vout \/ o[1] \in pool.mapTx
           /\ GoodPool(Pool!addUnchecked(pool, tx))
           /\ Pool!addUnchecked(pool, tx).mapTx = pool.mapTx \cup {tx}
<1> DEFINE vc == ViewCoins(view, held, pool)
<1>1. /\ Pool!MayEnter(pool, tx) /\ ~ViewHas(view, held, pool, tx)
      /\ HaveInputs(vc, tx)
  BY DEF MayAccept, CheckInputs
<1>2. tx \notin CoinBase /\ tx \notin pool.mapTx
  BY <1>1 DEF Pool!MayEnter
<1>3. view[tx].vout = {}
  BY <1>1 DEF ViewHas
<1>4. ASSUME NEW o \in Pool!Ins(tx)
      PROVE  /\ o[1] \in Tx /\ o[2] \in DOMAIN vout[o[1]]
             /\ o[2] \in view[o[1]].vout \/ o[1] \in pool.mapTx
  <2>1. PICK j \in 1..Len(vin[tx]) : o = vin[tx][j]
    BY InsDef
  <2>2. o[1] \in Tx /\ o[2] \in vc[o[1]].vout
    BY <1>1, <2>1, TxFacts DEF HaveInputs, IsAvailable
  <2>3. view[o[1]].vout \subseteq DOMAIN vout[o[1]]
    BY <2>2 DEF View
  <2>4. CASE view[o[1]].vout = {} /\ o[1] \notin held /\ o[1] \in pool.mapTx
    BY <2>2, <2>4 DEF ViewCoins, CCoins
  <2>5. CASE ~(view[o[1]].vout = {} /\ o[1] \notin held /\ o[1] \in pool.mapTx)
    <3>1. vc[o[1]] = view[o[1]]
      BY <2>2, <2>5 DEF ViewCoins
    <3> QED BY <2>2, <2>3, <3>1
  <2> QED BY <2>4, <2>5
<1>5. /\ GoodPool(Pool!addUnchecked(pool, tx))
      /\ Pool!addUnchecked(pool, tx).mapTx = pool.mapTx \cup {tx}
  BY <1>1, AddGood
<1> QED BY <1>2, <1>3, <1>4, <1>5

-----------------------------------------------------------------------------
(***************************************************************************)
(* The two queues of SetBestChain: vResurrect and vDelete, sequences put   *)
(* together block by block.                                                *)
(***************************************************************************)
Elem(s, x) == \E i \in 1..Len(s) : s[i] = x
DistinctIn(s, F) == \A i, j \in 1..Len(s) : s[i] = s[j] /\ s[i] \in F => i = j

Concat(q, N, part) ==
    /\ DOMAIN q = 0..N /\ q[0] = <<>>
    /\ \A k \in 1..N : q[k] = q[k - 1] \o part[k]

LEMMA ConcatExists ==
    ASSUME NEW N \in Nat, NEW part \in [1..N -> Seq(Tx)]
    PROVE  \E q \in [0..N -> Seq(Tx)] : Concat(q, N, part)
<1> DEFINE V == Seq(Tx)
           G == [x \in (1..N) \X V |-> x[2] \o part[x[1]]]
<1>1. SeqStep(N, V, <<>>, G)
  <2>1. <<>> \in V
    OBVIOUS
  <2>2. ASSUME NEW x \in (1..N) \X V PROVE x[2] \o part[x[1]] \in V
    <3>1. x[2] \in Seq(Tx) /\ part[x[1]] \in Seq(Tx)
      OBVIOUS
    <3> QED BY <3>1, ConcatProperties
  <2> HIDE DEF V
  <2> QED BY <2>1, <2>2 DEF SeqStep
<1> HIDE DEF V
<1>2. PICK f : SeqFunction(f, N, V, <<>>, G)
  <2> HIDE DEF G
  <2> QED BY <1>1, SeqRecursion
<1>3. f \in [0..N -> V] /\ f[0] = <<>> /\ DOMAIN f = 0..N
  BY <1>2 DEF SeqFunction
<1>4. ASSUME NEW k \in 1..N PROVE f[k] = f[k - 1] \o part[k]
  <2>1. k - 1 \in 0..N
    OBVIOUS
  <2>2. f[k - 1] \in V
    BY <1>3, <2>1
  <2>3. f[k] = G[<<k, f[k - 1]>>]
    BY <1>2 DEF SeqFunction
  <2> QED BY <2>2, <2>3
<1> QED BY <1>3, <1>4 DEF Concat, V

LEMMA ConcatSeq ==
    ASSUME NEW s \in Seq(Tx), NEW t \in Seq(Tx) PROVE s \o t \in Seq(Tx)
OBVIOUS

LEMMA ConcatType ==
    ASSUME NEW N \in Nat, NEW part \in [1..N -> Seq(Tx)], NEW q, Concat(q, N, part)
    PROVE  \A k \in 0..N : q[k] \in Seq(Tx)
<1> DEFINE T == {k \in 0..N : q[k] \in Seq(Tx)}
<1>0. q[0] = <<>> /\ \A k \in 1..N : q[k] = q[k - 1] \o part[k]
  BY DEF Concat
<1>1. 0 \in T
  <2>1. q[0] \in Seq(Tx) /\ 0 \in 0..N
    BY <1>0
  <2> QED BY <2>1
<1>2. ASSUME NEW k \in 1..N, k - 1 \in T PROVE k \in T
  <2>1. k \in 0..N /\ q[k - 1] \in Seq(Tx)
    BY <1>2
  <2>2. part[k] \in Seq(Tx)
    OBVIOUS
  <2>3. q[k] = q[k - 1] \o part[k]
    BY <1>0
  <2>4. q[k - 1] \o part[k] \in Seq(Tx)
    BY <2>1, <2>2, ConcatSeq
  <2> QED BY <2>1, <2>3, <2>4
<1>3. \A k \in 0..N : k \in T
  <2> HIDE DEF T
  <2> QED BY <1>1, <1>2, Interval0
<1> QED BY <1>3

LEMMA ConcatElem ==
    ASSUME NEW s \in Seq(Tx), NEW t \in Seq(Tx)
    PROVE  /\ \A x : Elem(s \o t, x) <=> Elem(s, x) \/ Elem(t, x)
           /\ \A F : /\ DistinctIn(s, F) /\ DistinctIn(t, F)
                     /\ \A x \in F : ~(Elem(s, x) /\ Elem(t, x))
                     => DistinctIn(s \o t, F)
<1> DEFINE u == s \o t  m == Len(s)  n == Len(t)
<1>1. /\ u \in Seq(Tx) /\ Len(u) = m + n /\ m \in Nat /\ n \in Nat
      /\ \A i \in 1..(m + n) : u[i] = IF i <= m THEN s[i] ELSE t[i - m]
  BY ConcatProperties
<1> HIDE DEF u, m, n
<1>2. ASSUME NEW i \in 1..m PROVE i \in 1..(m + n) /\ u[i] = s[i]
  <2>1. i \in 1..(m + n) /\ i <= m
    BY <1>1
  <2> QED BY <1>1, <2>1
<1>3. ASSUME NEW i \in 1..n PROVE m + i \in 1..(m + n) /\ u[m + i] = t[i]
  <2>1. m + i \in 1..(m + n) /\ ~(m + i <= m) /\ (m + i) - m = i
    BY <1>1
  <2>2. u[m + i] = t[(m + i) - m]
    BY <1>1, <2>1
  <2> QED BY <2>1, <2>2
<1>4. ASSUME NEW i \in 1..(m + n)
      PROVE  \/ i \in 1..m /\ u[i] = s[i]
             \/ i - m \in 1..n /\ u[i] = t[i - m]
  <2>1. CASE i <= m
    <3>1. i \in 1..m
      BY <1>1, <2>1
    <3> QED BY <1>2, <3>1
  <2>2. CASE ~(i <= m)
    <3>1. i - m \in 1..n
      BY <1>1, <2>2
    <3> QED BY <1>1, <2>2, <3>1
  <2> QED BY <2>1, <2>2
<1>5. ASSUME NEW x PROVE Elem(u, x) <=> Elem(s, x) \/ Elem(t, x)
  <2>1. Elem(u, x) => Elem(s, x) \/ Elem(t, x)
    BY <1>1, <1>4 DEF Elem, m, n
  <2>2. Elem(s, x) => Elem(u, x)
    BY <1>1, <1>2 DEF Elem, m, n
  <2>3. Elem(t, x) => Elem(u, x)
    BY <1>1, <1>3 DEF Elem, m, n
  <2> QED BY <2>1, <2>2, <2>3
<1>6. ASSUME NEW F, DistinctIn(s, F), DistinctIn(t, F), \A x \in F : ~(Elem(s, x) /\ Elem(t, x))
      PROVE  DistinctIn(u, F)
  <2>1. ASSUME NEW i \in 1..(m + n), NEW j \in 1..(m + n), u[i] = u[j], u[i] \in F PROVE i = j
    <3>0. i \in Int /\ j \in Int
      OBVIOUS
    <3>1. CASE i \in 1..m /\ u[i] = s[i] /\ j \in 1..m /\ u[j] = s[j]
      BY <1>6, <2>1, <3>1 DEF DistinctIn, m
    <3>2. CASE i - m \in 1..n /\ u[i] = t[i - m] /\ j - m \in 1..n /\ u[j] = t[j - m]
      <4>1. i - m = j - m
        BY <1>6, <2>1, <3>2 DEF DistinctIn, n
      <4> QED BY <1>1, <3>0, <4>1
    <3>3. CASE i \in 1..m /\ u[i] = s[i] /\ j - m \in 1..n /\ u[j] = t[j - m]
      <4>1. Elem(s, u[i]) /\ Elem(t, u[i])
        BY <2>1, <3>3 DEF Elem, m, n
      <4> QED BY <1>6, <2>1, <4>1
    <3>4. CASE i - m \in 1..n /\ u[i] = t[i - m] /\ j \in 1..m /\ u[j] = s[j]
      <4>1. Elem(s, u[i]) /\ Elem(t, u[i])
        BY <2>1, <3>4 DEF Elem, m, n
      <4> QED BY <1>6, <2>1, <4>1
    <3> QED BY <1>4, <3>1, <3>2, <3>3, <3>4
  <2> QED BY <1>1, <2>1 DEF DistinctIn
<1> QED BY <1>5, <1>6 DEF u

LEMMA ConcatElems ==
    ASSUME NEW N \in Nat, NEW part \in [1..N -> Seq(Tx)], NEW q, Concat(q, N, part)
    PROVE  /\ q[N] \in Seq(Tx)
           /\ \A x : Elem(q[N], x) <=> \E k \in 1..N : Elem(part[k], x)
           /\ \A F : /\ \A k \in 1..N : DistinctIn(part[k], F)
                     /\ \A k, l \in 1..N : \A x \in F : Elem(part[k], x) /\ Elem(part[l], x) => k = l
                     => DistinctIn(q[N], F)
<1> DEFINE Apart(F) == /\ \A k \in 1..N : DistinctIn(part[k], F)
                       /\ \A k, l \in 1..N : \A x \in F : Elem(part[k], x) /\ Elem(part[l], x) => k = l
           T == {k \in 0..N : /\ \A x : Elem(q[k], x) <=> \E l \in 1..k : Elem(part[l], x)
                              /\ \A F : Apart(F) => DistinctIn(q[k], F)}
<1>0. \A k \in 0..N : q[k] \in Seq(Tx)
  BY ConcatType
<1>1. 0 \in T
  BY DEF Concat, Elem, DistinctIn
<1>2. ASSUME NEW k \in 1..N, k - 1 \in T PROVE k \in T
  <2>1. /\ k \in 0..N /\ q[k - 1] \in Seq(Tx) /\ part[k] \in Seq(Tx) /\ q[k] = q[k - 1] \o part[k]
    <3>1. k \in 0..N /\ k - 1 \in 0..N
      OBVIOUS
    <3> QED BY <1>0, <3>1 DEF Concat
  <2>2. /\ \A x : Elem(q[k - 1], x) <=> \E l \in 1..(k - 1) : Elem(part[l], x)
        /\ \A F : Apart(F) => DistinctIn(q[k - 1], F)
    BY <1>2
  <2>3. /\ \A x : Elem(q[k], x) <=> Elem(q[k - 1], x) \/ Elem(part[k], x)
        /\ \A F : /\ DistinctIn(q[k - 1], F) /\ DistinctIn(part[k], F)
                  /\ \A x \in F : ~(Elem(q[k - 1], x) /\ Elem(part[k], x))
                  => DistinctIn(q[k], F)
    BY <2>1, ConcatElem
  <2>4. 1..k = 1..(k - 1) \cup {k} /\ \A l \in 1..(k - 1) : l \in 1..N /\ l # k
    OBVIOUS
  <2>5. \A x : Elem(q[k], x) <=> \E l \in 1..k : Elem(part[l], x)
    BY <2>2, <2>3, <2>4
  <2>6. ASSUME NEW F, Apart(F) PROVE DistinctIn(q[k], F)
    BY <2>2, <2>3, <2>4, <2>6
  <2> QED BY <2>1, <2>5, <2>6
<1>3. N \in T
  <2> HIDE DEF T
  <2> QED BY <1>1, <1>2, Interval0
<1> QED BY <1>0, <1>3

(* Every transaction of F has one place in the chain.                      *)
OnceIn(c, F) == \A p, q \in Places(c) : TxAt(c, p) = TxAt(c, q) /\ TxAt(c, p) \in F => p = q

LEMMA DeleteElems ==
    ASSUME IsChain(chain), NEW new, IsChain(new)
    PROVE  /\ vDelete(new) \in Seq(Tx)
           /\ \A x : Elem(vDelete(new), x)
                       <=> \E p \in Places(new) : p[1] > ForkHeight(new) /\ TxAt(new, p) = x
<1> DEFINE f == ForkHeight(new)  N == Len(new) - f
           part == [k \in 1..N |-> vtx[new[f + k]]]
           Def(q) == [k \in 0..N |-> IF k = 0 THEN <<>> ELSE q[k - 1] \o vtx[new[f + k]]]
           run == CHOOSE q : q = Def(q)
<1>z. chain \in Seq(Block) /\ new \in Seq(Block) /\ Len(new) \in Nat
  BY ChainPath
<1>0. f \in Nat /\ f <= Len(new) /\ N \in Nat
  BY <1>z, ForkFacts
<1>1. vDelete(new) = run[N]
  BY DEF vDelete
<1> HIDE DEF f
<1>a. ASSUME NEW k \in 1..N PROVE new[f + k] \in Block /\ f + k \in 1..Len(new) /\ f + k > f /\ f + k \in Nat
  BY <1>0, <1>z
<1>2. part \in [1..N -> Seq(Tx)]
  BY <1>a, BlockFacts
<1> HIDE DEF N
<1>3. PICK g : Concat(g, N, part) /\ g \in [0..N -> Seq(Tx)]
  <2> HIDE DEF part
  <2> QED BY <1>0, <1>2, ConcatExists
<1>4. g = Def(g)
  <2>1. g[0] = <<>> /\ \A k \in 1..N : g[k] = g[k - 1] \o part[k]
    BY <1>3 DEF Concat
  <2>2. ASSUME NEW k \in 0..N PROVE g[k] = IF k = 0 THEN <<>> ELSE g[k - 1] \o vtx[new[f + k]]
    <3>1. k = 0 \/ k \in 1..N
      BY <1>0
    <3> QED BY <2>1, <3>1
  <2> QED BY <1>3, <2>2
<1>5. run = Def(run)
  BY <1>4
<1> HIDE DEF run
<1>6. Concat(run, N, part)
  BY <1>0, <1>5 DEF Concat
<1> HIDE DEF part
<1>7. run[N] \in Seq(Tx) /\ \A x : Elem(run[N], x) <=> \E k \in 1..N : Elem(part[k], x)
  BY <1>0, <1>2, <1>6, ConcatElems
<1>8. ASSUME NEW k \in 1..N PROVE part[k] = vtx[new[f + k]]
  BY DEF part
<1>9. ASSUME NEW x, NEW k \in 1..N, Elem(part[k], x)
      PROVE  \E p \in Places(new) : p[1] > f /\ TxAt(new, p) = x
  <2>1. PICK i \in 1..Len(vtx[new[f + k]]) : vtx[new[f + k]][i] = x
    BY <1>8, <1>9 DEF Elem
  <2> DEFINE p == <<f + k, i>>
  <2>2. p \in Places(new)
    BY <1>a, <1>z, <2>1, PlacesDef
  <2> QED BY <1>a, <2>1, <2>2 DEF TxAt
<1>10. ASSUME NEW x, NEW p \in Places(new), p[1] > f, TxAt(new, p) = x
       PROVE  \E k \in 1..N : Elem(part[k], x)
  <2>1. p[1] \in 1..Len(new) /\ p[2] \in 1..Len(vtx[new[p[1]]])
    BY <1>z, PlacesDef
  <2>2. p[1] - f \in 1..N /\ f + (p[1] - f) = p[1]
    BY <1>0, <1>10, <1>z, <2>1 DEF N
  <2>3. part[p[1] - f] = vtx[new[p[1]]]
    BY <1>8, <2>2
  <2>4. Elem(part[p[1] - f], x)
    BY <1>10, <2>1, <2>3 DEF Elem, TxAt
  <2> QED BY <2>2, <2>4
<1> QED BY <1>1, <1>7, <1>9, <1>10 DEF f

LEMMA ResurrectElems ==
    ASSUME IsChain(chain), NEW new, IsChain(new)
    PROVE  /\ vResurrect(new) \in Seq(Tx)
           /\ \A x : Elem(vResurrect(new), x)
                       <=> \E p \in Places(chain) : /\ p[1] > ForkHeight(new) /\ p[2] > 1
                                                    /\ TxAt(chain, p) = x
           /\ \A F : OnceIn(chain, F) => DistinctIn(vResurrect(new), F)
<1> DEFINE f == ForkHeight(new)  n == Len(chain)  N == n - f
           part == [k \in 1..N |-> Tail(vtx[chain[n + 1 - k]])]
           Def(q) == [k \in 0..N |-> IF k = 0 THEN <<>> ELSE q[k - 1] \o Tail(vtx[chain[n + 1 - k]])]
           run == CHOOSE q : q = Def(q)
<1>z. chain \in Seq(Block) /\ new \in Seq(Block) /\ n \in Nat
  BY ChainPath
<1>0. f \in Nat /\ f <= n /\ N \in Nat
  BY <1>z, ForkFacts
<1>1. vResurrect(new) = run[N]
  BY DEF vResurrect
<1> HIDE DEF f
<1>a. ASSUME NEW k \in 1..N
      PROVE  chain[n + 1 - k] \in Block /\ n + 1 - k \in 1..n /\ n + 1 - k > f /\ n + 1 - k \in Nat
  BY <1>0, <1>z
<1>b. ASSUME NEW b \in Block
      PROVE  /\ Tail(vtx[b]) \in Seq(Tx) /\ Len(Tail(vtx[b])) = Len(vtx[b]) - 1
             /\ \A i \in 1..(Len(vtx[b]) - 1) : Tail(vtx[b])[i] = vtx[b][i + 1]
  <2>1. vtx[b] \in Seq(Tx) /\ vtx[b] # <<>> /\ Len(vtx[b]) \in Nat /\ Len(vtx[b]) >= 1
    BY BlockFacts
  <2> QED BY <2>1
<1>2. part \in [1..N -> Seq(Tx)]
  BY <1>a, <1>b
<1> HIDE DEF N, n
<1>3. PICK g : Concat(g, N, part) /\ g \in [0..N -> Seq(Tx)]
  <2> HIDE DEF part
  <2> QED BY <1>0, <1>2, ConcatExists
<1>4. g = Def(g)
  <2>1. g[0] = <<>> /\ \A k \in 1..N : g[k] = g[k - 1] \o part[k]
    BY <1>3 DEF Concat
  <2>2. ASSUME NEW k \in 0..N PROVE g[k] = IF k = 0 THEN <<>> ELSE g[k - 1] \o Tail(vtx[chain[n + 1 - k]])
    <3>1. k = 0 \/ k \in 1..N
      BY <1>0
    <3> QED BY <2>1, <3>1
  <2> QED BY <1>3, <2>2
<1>5. run = Def(run)
  BY <1>4, ZenonT(40)
<1> HIDE DEF run
<1>6. Concat(run, N, part)
  BY <1>0, <1>5 DEF Concat
<1>8. ASSUME NEW k \in 1..N PROVE part[k] = Tail(vtx[chain[n + 1 - k]])
  OBVIOUS
<1> HIDE DEF part
<1>7. /\ run[N] \in Seq(Tx) /\ \A x : Elem(run[N], x) <=> \E k \in 1..N : Elem(part[k], x)
      /\ \A F : /\ \A k \in 1..N : DistinctIn(part[k], F)
                /\ \A k, l \in 1..N : \A x \in F : Elem(part[k], x) /\ Elem(part[l], x) => k = l
                => DistinctIn(run[N], F)
  BY <1>0, <1>2, <1>6, ConcatElems
<1>9. ASSUME NEW x, NEW k \in 1..N, NEW j \in 1..Len(part[k]), part[k][j] = x
      PROVE  /\ <<n + 1 - k, j + 1>> \in Places(chain) /\ j + 1 > 1
             /\ TxAt(chain, <<n + 1 - k, j + 1>>) = x
  <2> DEFINE b == chain[n + 1 - k]  p == <<n + 1 - k, j + 1>>
  <2>0. b \in Block /\ Len(vtx[b]) \in Nat
    BY <1>a, BlockFacts
  <2>1. part[k] = Tail(vtx[b]) /\ j \in 1..(Len(vtx[b]) - 1)
    BY <1>8, <1>b, <2>0
  <2>2. x = vtx[b][j + 1] /\ j + 1 \in 1..Len(vtx[b]) /\ j + 1 > 1 /\ j + 1 \in Nat
    BY <1>9, <1>b, <2>0, <2>1
  <2>3. p \in Places(chain)
    BY <1>a, <1>z, <2>2, PlacesDef DEF n
  <2> QED BY <2>2, <2>3 DEF TxAt
<1>10. ASSUME NEW x, NEW p \in Places(chain), p[1] > f, p[2] > 1, TxAt(chain, p) = x
       PROVE  \E k \in 1..N : Elem(part[k], x)
  <2> DEFINE k == n + 1 - p[1]  b == chain[p[1]]
  <2>1. p[1] \in 1..n /\ p[2] \in 1..Len(vtx[b]) /\ b \in Block
    BY <1>z, PlacesDef DEF n
  <2>2. k \in 1..N /\ n + 1 - k = p[1]
    BY <1>0, <1>10, <1>z, <2>1, SMTT(30) DEF N
  <2>3. part[k] = Tail(vtx[b])
    BY <1>8, <2>2
  <2>4. Len(vtx[b]) \in Nat
    BY <2>1, BlockFacts
  <2>5. p[2] - 1 \in 1..(Len(vtx[b]) - 1) /\ (p[2] - 1) + 1 = p[2]
    BY <1>10, <2>1, <2>4
  <2> HIDE DEF b
  <2>6. Tail(vtx[b])[p[2] - 1] = vtx[b][p[2]] /\ p[2] - 1 \in 1..Len(Tail(vtx[b]))
    BY <1>b, <2>1, <2>5
  <2>7. Elem(part[k], x)
    BY <1>10, <2>3, <2>6 DEF Elem, TxAt, b
  <2> QED BY <2>2, <2>7
<1>11. ASSUME NEW x, NEW k \in 1..N, Elem(part[k], x)
       PROVE \E p \in Places(chain) : p[1] > f /\ p[2] > 1 /\ TxAt(chain, p) = x
  <2>1. PICK j \in 1..Len(part[k]) : part[k][j] = x
    BY <1>11 DEF Elem
  <2> DEFINE p == <<n + 1 - k, j + 1>>
  <2>2. p \in Places(chain) /\ TxAt(chain, p) = x /\ p[1] > f /\ p[2] > 1
    BY <1>9, <1>a, <2>1
  <2> QED BY <2>2
<1>12. ASSUME NEW F, OnceIn(chain, F) PROVE DistinctIn(run[N], F)
  <2>1. ASSUME NEW k \in 1..N PROVE DistinctIn(part[k], F)
    <3>1. ASSUME NEW i \in 1..Len(part[k]), NEW j \in 1..Len(part[k]), part[k][i] = part[k][j], part[k][i] \in F
          PROVE  i = j
      <4> DEFINE p == <<n + 1 - k, i + 1>>  q == <<n + 1 - k, j + 1>>
      <4>a. p \in Places(chain) /\ TxAt(chain, p) = part[k][i]
        BY <1>9
      <4>b. q \in Places(chain) /\ TxAt(chain, q) = part[k][j]
        BY <1>9
      <4>c. TxAt(chain, p) = TxAt(chain, q)
        BY <3>1, <4>a, <4>b
      <4>1. p = q
        <5> HIDE DEF p, q
        <5> QED BY <1>12, <3>1, <4>a, <4>b, <4>c DEF OnceIn
      <4>2. i + 1 = j + 1 /\ i \in Int /\ j \in Int
        BY <4>1
      <4> QED BY <4>2
    <3> QED BY <3>1 DEF DistinctIn
  <2>2. ASSUME NEW k \in 1..N, NEW l \in 1..N, NEW x \in F, Elem(part[k], x), Elem(part[l], x) PROVE k = l
    <3>1. PICK i \in 1..Len(part[k]) : part[k][i] = x
      BY <2>2 DEF Elem
    <3>2. PICK j \in 1..Len(part[l]) : part[l][j] = x
      BY <2>2 DEF Elem
    <3> DEFINE p == <<n + 1 - k, i + 1>>  q == <<n + 1 - l, j + 1>>
    <3>a. p \in Places(chain) /\ TxAt(chain, p) = x
      BY <1>9, <3>1
    <3>b. q \in Places(chain) /\ TxAt(chain, q) = x
      BY <1>9, <3>2
    <3>3. p = q
      <4> HIDE DEF p, q
      <4> QED BY <1>12, <3>a, <3>b DEF OnceIn
    <3>4. n + 1 - k = n + 1 - l /\ k \in Int /\ l \in Int
      BY <3>3
    <3> QED BY <1>z, <3>4
  <2> QED BY <1>7, <2>1, <2>2
<1> QED BY <1>1, <1>7, <1>10, <1>11, <1>12 DEF f

(***************************************************************************)
(* The two loops over the pool.                                            *)
(***************************************************************************)
Pools == {p \in [mapTx : SUBSET Tx, mapNextTx : UNION {[D -> Tx] : D \in SUBSET (Tx \X Nat)}] : GoodPool(p)}

LEMMA PoolsDef ==
    ASSUME NEW p PROVE p \in Pools <=> GoodPool(p)
<1>1. ASSUME GoodPool(p) PROVE p \in [mapTx : SUBSET Tx, mapNextTx : UNION {[D -> Tx] : D \in SUBSET (Tx \X Nat)}]
  <2>1. /\ p.mapTx \in SUBSET Tx /\ DOMAIN p.mapNextTx \in SUBSET (Tx \X Nat)
        /\ p.mapNextTx \in [DOMAIN p.mapNextTx -> Tx]
        /\ p = [mapTx |-> p.mapTx, mapNextTx |-> p.mapNextTx]
    BY <1>1 DEF GoodPool, IsPool
  <2>2. p.mapNextTx \in UNION {[D -> Tx] : D \in SUBSET (Tx \X Nat)}
    BY <2>1
  <2> QED BY <2>1, <2>2
<1> QED BY <1>1 DEF Pools

LEMMA ResurrectGood ==
    ASSUME NEW view \in View, NEW held, NEW p, GoodPool(p), NEW tx \in Tx, NEW h
    PROVE  GoodPool(Resurrect(view, held, p, tx, h))
<1>1. CASE MayAccept(view, held, p, tx, h)
  <2>1. GoodPool(Pool!addUnchecked(p, tx))
    BY <1>1, AcceptFacts
  <2> QED BY <1>1, <2>1 DEF Resurrect
<1>2. CASE ~MayAccept(view, held, p, tx, h)
  <2>1. GoodPool(Pool!remove(p, tx, TRUE))
    BY RemoveFacts DEF RemovedFrom
  <2> QED BY <1>2, <2>1 DEF Resurrect
<1> QED BY <1>1, <1>2

LEMMA DeleteGood ==
    ASSUME NEW p, GoodPool(p), NEW tx PROVE GoodPool(DeleteMined(p, tx))
BY DeleteFacts DEF MinedFrom

ResurrectLoop(pool, q, view, held, h) ==
    /\ \A k \in 0..Len(q) : GoodPool(pool[k])
    /\ pool[0] = mempool
    /\ \A k \in 1..Len(q) : pool[k] = Resurrect(view, held, pool[k - 1], q[k], h)

LEMMA ResurrectedDef ==
    ASSUME NEW new, NEW view \in View, NEW held, GoodPool(mempool), vResurrect(new) \in Seq(Tx)
    PROVE  \E pool : /\ ResurrectLoop(pool, vResurrect(new), view, held, Len(new))
                     /\ Resurrected(new, view, held) = pool[Len(vResurrect(new))]
<1> DEFINE q == vResurrect(new)  N == Len(q)  h == Len(new)
           Step(p, k) == Resurrect(view, held, p, q[k], h)
           Def(f) == [k \in 0..N |-> IF k = 0 THEN mempool ELSE Step(f[k - 1], k)]
           run == CHOOSE f : f = Def(f)
<1>0. q \in Seq(Tx) /\ N \in Nat /\ \A k \in 1..N : q[k] \in Tx
  OBVIOUS
<1>b. Resurrected(new, view, held) = run[N]
  BY DEF Resurrected
<1>a. mempool \in Pools
  BY PoolsDef
<1> HIDE DEF q
<1>c. ASSUME NEW k \in 1..N, NEW p \in Pools PROVE Step(p, k) \in Pools
  BY <1>0, ResurrectGood, PoolsDef
<1> HIDE DEF N, Step
<1>1. \E f : f = Def(f)
  <2> DEFINE G == [x \in (1..N) \X Pools |-> Step(x[2], x[1])]
  <2>1. SeqStep(N, Pools, mempool, G)
    <3>1. ASSUME NEW x \in (1..N) \X Pools PROVE Step(x[2], x[1]) \in Pools
      <4>1. x[1] \in 1..N /\ x[2] \in Pools
        OBVIOUS
      <4> QED BY <1>c, <4>1
    <3> QED BY <1>0, <1>a, <3>1 DEF SeqStep
  <2>2. PICK f : SeqFunction(f, N, Pools, mempool, G)
    <3> HIDE DEF G
    <3> QED BY <2>1, SeqRecursion
  <2>3. ASSUME NEW i \in 1..N PROVE f[i] = Step(f[i - 1], i)
    <3>1. f[i] = G[<<i, f[i - 1]>>] /\ f[i - 1] \in Pools
      <4>1. i - 1 \in 0..N
        BY <1>0
      <4> HIDE DEF G
      <4> QED BY <2>2, <4>1 DEF SeqFunction
    <3> QED BY <3>1
  <2>4. f \in [0..N -> Pools] /\ f[0] = mempool
    BY <2>2 DEF SeqFunction
  <2>5. f = Def(f)
    <3>1. ASSUME NEW i \in 0..N PROVE f[i] = Def(f)[i]
      <4>1. CASE i = 0
        BY <2>4, <4>1
      <4>2. CASE i # 0
        <5>1. i \in 1..N
          BY <1>0, <4>2
        <5> QED BY <2>3, <4>2, <5>1
      <4> QED BY <4>1, <4>2
    <3> QED BY <2>4, <3>1
  <2> QED BY <2>5
<1>2. run = Def(run)
  BY <1>1
<1> HIDE DEF run
<1>3. \A i \in 0..N : run[i] = Def(run)[i]
  BY <1>2
<1>4. run[0] = mempool
  BY <1>0, <1>3
<1>5. ASSUME NEW i \in 1..N PROVE run[i] = Step(run[i - 1], i)
  BY <1>0, <1>3
<1> DEFINE T == {i \in 0..N : run[i] \in Pools}
<1>6. 0 \in T
  BY <1>0, <1>a, <1>4
<1>7. ASSUME NEW i \in 1..N, i - 1 \in T PROVE i \in T
  <2>1. i \in 0..N /\ run[i - 1] \in Pools
    BY <1>0, <1>7
  <2> QED BY <1>c, <1>5, <2>1
<1>8. \A i \in 0..N : i \in T
  <2> HIDE DEF T
  <2> QED BY <1>0, <1>6, <1>7, Interval0
<1>9. \A i \in 0..N : GoodPool(run[i])
  BY <1>8, PoolsDef
<1> QED BY <1>b, <1>4, <1>5, <1>9 DEF ResurrectLoop, N, q, Step

PurgeLoop(pool, q, back) ==
    /\ \A k \in 0..Len(q) : GoodPool(pool[k])
    /\ pool[0] = back
    /\ \A k \in 1..Len(q) : pool[k] = DeleteMined(pool[k - 1], q[k])

LEMMA PurgedDef ==
    ASSUME NEW new, NEW back, GoodPool(back), vDelete(new) \in Seq(Tx)
    PROVE  \E pool : PurgeLoop(pool, vDelete(new), back) /\ Purged(new, back) = pool[Len(vDelete(new))]
<1> DEFINE q == vDelete(new)  N == Len(q)
           Step(p, k) == DeleteMined(p, q[k])
           Def(f) == [k \in 0..N |-> IF k = 0 THEN back ELSE Step(f[k - 1], k)]
           run == CHOOSE f : f = Def(f)
<1>0. q \in Seq(Tx) /\ N \in Nat
  OBVIOUS
<1>b. Purged(new, back) = run[N]
  BY DEF Purged
<1>a. back \in Pools
  BY PoolsDef
<1> HIDE DEF q
<1>c. ASSUME NEW k \in 1..N, NEW p \in Pools PROVE Step(p, k) \in Pools
  BY DeleteGood, PoolsDef
<1> HIDE DEF N, Step
<1>1. \E f : f = Def(f)
  <2> DEFINE G == [x \in (1..N) \X Pools |-> Step(x[2], x[1])]
  <2>1. SeqStep(N, Pools, back, G)
    <3>1. ASSUME NEW x \in (1..N) \X Pools PROVE Step(x[2], x[1]) \in Pools
      <4>1. x[1] \in 1..N /\ x[2] \in Pools
        OBVIOUS
      <4> QED BY <1>c, <4>1
    <3> QED BY <1>0, <1>a, <3>1 DEF SeqStep
  <2>2. PICK f : SeqFunction(f, N, Pools, back, G)
    <3> HIDE DEF G
    <3> QED BY <2>1, SeqRecursion
  <2>3. ASSUME NEW i \in 1..N PROVE f[i] = Step(f[i - 1], i)
    <3>1. f[i] = G[<<i, f[i - 1]>>] /\ f[i - 1] \in Pools
      <4>1. i - 1 \in 0..N
        BY <1>0
      <4> HIDE DEF G
      <4> QED BY <2>2, <4>1 DEF SeqFunction
    <3> QED BY <3>1
  <2>4. f \in [0..N -> Pools] /\ f[0] = back
    BY <2>2 DEF SeqFunction
  <2>5. f = Def(f)
    <3>1. ASSUME NEW i \in 0..N PROVE f[i] = Def(f)[i]
      <4>1. CASE i = 0
        BY <2>4, <4>1
      <4>2. CASE i # 0
        <5>1. i \in 1..N
          BY <1>0, <4>2
        <5> QED BY <2>3, <4>2, <5>1
      <4> QED BY <4>1, <4>2
    <3> QED BY <2>4, <3>1
  <2> QED BY <2>5
<1>2. run = Def(run)
  BY <1>1
<1> HIDE DEF run
<1>3. \A i \in 0..N : run[i] = Def(run)[i]
  BY <1>2
<1>4. run[0] = back
  BY <1>0, <1>3
<1>5. ASSUME NEW i \in 1..N PROVE run[i] = Step(run[i - 1], i)
  BY <1>0, <1>3
<1> DEFINE T == {i \in 0..N : run[i] \in Pools}
<1>6. 0 \in T
  BY <1>0, <1>a, <1>4
<1>7. ASSUME NEW i \in 1..N, i - 1 \in T PROVE i \in T
  <2>1. i \in 0..N /\ run[i - 1] \in Pools
    BY <1>0, <1>7
  <2> QED BY <1>c, <1>5, <2>1
<1>8. \A i \in 0..N : i \in T
  <2> HIDE DEF T
  <2> QED BY <1>0, <1>6, <1>7, Interval0
<1>9. \A i \in 0..N : GoodPool(run[i])
  BY <1>8, PoolsDef
<1> QED BY <1>b, <1>4, <1>5, <1>9 DEF PurgeLoop, N, q, Step

LEMMA ReorgPoolGood ==
    ASSUME IsChain(chain), GoodPool(mempool), NEW new, IsChain(new), NEW view \in View, NEW held
    PROVE  /\ GoodPool(Resurrected(new, view, held))
           /\ GoodPool(Purged(new, Resurrected(new, view, held)))
<1>1. vResurrect(new) \in Seq(Tx) /\ vDelete(new) \in Seq(Tx)
  BY ResurrectElems, DeleteElems
<1>2. PICK pool : /\ ResurrectLoop(pool, vResurrect(new), view, held, Len(new))
                  /\ Resurrected(new, view, held) = pool[Len(vResurrect(new))]
  BY <1>1, ResurrectedDef
<1>3. GoodPool(Resurrected(new, view, held))
  <2>1. Len(vResurrect(new)) \in 0..Len(vResurrect(new))
    BY <1>1
  <2> QED BY <1>2, <2>1 DEF ResurrectLoop
<1>4. PICK pp : /\ PurgeLoop(pp, vDelete(new), Resurrected(new, view, held))
                /\ Purged(new, Resurrected(new, view, held)) = pp[Len(vDelete(new))]
  BY <1>1, <1>3, PurgedDef
<1>5. Len(vDelete(new)) \in 0..Len(vDelete(new))
  BY <1>1
<1> QED BY <1>3, <1>4, <1>5 DEF PurgeLoop

LEMMA TouchedPrunedType ==
    ASSUME IsChain(chain), NEW new, IsChain(new), NEW view, cached \subseteq Tx
    PROVE  TouchedPruned(new, view) \subseteq {tx \in Tx : view[tx].vout = {}}
<1> DEFINE moved == ToSet(vDelete(new)) \cup
                    UNION {ToSet(vtx[chain[h]]) : h \in (ForkHeight(new) + 1)..Len(chain)}
           touched == moved \cup {o[1] : o \in UNION {Pool!Ins(tx) : tx \in moved}}
<1>1. ToSet(vDelete(new)) \subseteq Tx
  <2>1. vDelete(new) \in Seq(Tx)
    BY DeleteElems
  <2> QED BY <2>1 DEF ToSet
<1>2. ASSUME NEW h \in (ForkHeight(new) + 1)..Len(chain) PROVE ToSet(vtx[chain[h]]) \subseteq Tx
  <2>1. chain \in Seq(Block) /\ new \in Seq(Block) /\ Len(chain) \in Nat
    BY ChainPath
  <2>2. ForkHeight(new) \in Nat
    BY <2>1, ForkFacts
  <2>3. h \in 1..Len(chain)
    BY <2>1, <2>2
  <2>4. vtx[chain[h]] \in Seq(Tx)
    BY <2>1, <2>3, BlockFacts
  <2> QED BY <2>4 DEF ToSet
<1>3. moved \subseteq Tx
  BY <1>1, <1>2
<1> HIDE DEF moved
<1>4. ASSUME NEW tx \in moved, NEW o \in Pool!Ins(tx) PROVE o[1] \in Tx
  BY <1>3, InsDef
<1>5. touched \subseteq Tx
  BY <1>3, <1>4
<1> HIDE DEF touched
<1>6. TouchedPruned(new, view) = {tx \in cached \cup touched : view[tx].vout = {}}
  BY DEF TouchedPruned, touched, moved
<1> QED BY <1>5, <1>6

TypeInv ==
    /\ ChainInv
    /\ GoodPool(mempool)
    /\ cached \subseteq {tx \in Tx : coins[tx].vout = {}}

LEMMA PrimedGoodPool ==
    ASSUME NEW p, GoodPool(p), mempool' = p
    PROVE  GoodPool(mempool)'
OBVIOUS

LEMMA TypeInvStep ==
    TypeInv /\ [Next]_vars => TypeInv'
<1> SUFFICES ASSUME TypeInv, [Next]_vars
             PROVE  GoodPool(mempool)' /\ cached' \subseteq {tx \in Tx : coins'[tx].vout = {}}
  BY ChainInvStep DEF TypeInv
<1>0. /\ ChainOK(chain, undo, coins) /\ IsChain(chain) /\ coins \in View /\ GoodPool(mempool)
      /\ cached \subseteq {tx \in Tx : coins[tx].vout = {}} /\ cached \subseteq Tx
  BY MatchesView DEF TypeInv, ChainInv, ChainOK
<1>1. ASSUME NEW tx \in Tx, AcceptToMemoryPool(tx)
      PROVE  GoodPool(mempool)' /\ cached' \subseteq {t \in Tx : coins'[t].vout = {}}
  <2>1. /\ MayAccept(coins, cached, mempool, tx, Len(chain))
        /\ mempool' = Pool!addUnchecked(mempool, tx) /\ coins' = coins /\ cached' = cached
    BY <1>1 DEF AcceptToMemoryPool
  <2>2. GoodPool(Pool!addUnchecked(mempool, tx))
    BY <1>0, <2>1, AcceptFacts
  <2>3. GoodPool(mempool)'
    BY <2>1, <2>2, PrimedGoodPool
  <2> QED BY <1>0, <2>1, <2>3
<1>2. ASSUME NEW b \in Block, NEW fFlush \in BOOLEAN, SetBestChain(b, fFlush)
      PROVE  GoodPool(mempool)' /\ cached' \subseteq {tx \in Tx : coins'[tx].vout = {}}
  <2> DEFINE new == Path[b]  con == Connected(new)
             held == IF fFlush THEN {} ELSE TouchedPruned(new, con.view)
  <2>1. /\ Disconnected(new).fClean /\ con.ok
        /\ coins' = con.view /\ cached' = held
        /\ mempool' = Purged(new, Resurrected(new, con.view, held))
    BY <1>2 DEF SetBestChain
  <2>2. IsChain(new) /\ con.view \in View
    BY <1>0, <2>1, PathIsChain, ConnectedFacts DEF ConnOut
  <2> HIDE DEF new, con
  <2>3. held \subseteq {tx \in Tx : con.view[tx].vout = {}}
    BY <1>0, <2>2, TouchedPrunedType
  <2> HIDE DEF held
  <2>4. GoodPool(Purged(new, Resurrected(new, con.view, held)))
    BY <1>0, <2>2, ReorgPoolGood
  <2>5. GoodPool(mempool)'
    BY <2>1, <2>4, PrimedGoodPool
  <2> QED BY <2>1, <2>3, <2>5
<1>3. ASSUME mempool' = mempool, coins' = coins, cached' = cached
      PROVE  GoodPool(mempool)' /\ cached' \subseteq {tx \in Tx : coins'[tx].vout = {}}
  BY <1>0, <1>3, PrimedGoodPool
<1>4. ASSUME Restart
      PROVE  GoodPool(mempool)' /\ cached' \subseteq {tx \in Tx : coins'[tx].vout = {}}
  <2>1. mempool' = Pool!EmptyPool /\ cached' = {}
    BY <1>4 DEF Restart
  <2>2. GoodPool(mempool)'
    BY <2>1, EmptyPoolGood, PrimedGoodPool
  <2> QED BY <2>1, <2>2
<1> QED BY <1>1, <1>2, <1>3, <1>4 DEF Next, SetBestChainFails, vars

LEMMA TypeInvInit ==
    Init => TypeInv
<1> SUFFICES ASSUME Init PROVE GoodPool(mempool) /\ cached = {}
  BY ChainInvInit DEF TypeInv
<1> QED BY EmptyPoolGood DEF Init

(* Chain, coin view, cached pruned entries and pool keep their types.      *)
THEOREM ChainStateTypes ==
    Spec => []TypeOK
<1>1. TypeInv => TypeOK
  <2> SUFFICES ASSUME TypeInv PROVE TypeOK
    OBVIOUS
  <2>1. chain \in Seq(Block) /\ coins \in View
    BY MatchesView DEF TypeInv, ChainInv, ChainOK, IsChain
  <2>2. \A tx \in Tx : coins[tx].vout \subseteq DOMAIN vout[tx] /\ coins[tx].nHeight \in Nat
    BY <2>1 DEF View, RawView
  <2>3. Pool!TypeOK
    BY DEF TypeInv, GoodPool, IsPool, Pool!TypeOK, Pool!OutPoint
  <2> QED BY <2>1, <2>2, <2>3 DEF TypeOK, TypeInv
<1> QED BY <1>1, TypeInvInit, TypeInvStep, PTL DEF Spec

-----------------------------------------------------------------------------
(***************************************************************************)
(* What comes from a coinbase that a chain has held twice is outside these *)
(* results: BIP30, which ConnectBlock checks, only forbids to repeat a     *)
(* transaction with unspent outputs, so such a coinbase, and a payment     *)
(* from it, may have several places in a chain.  F stands for a set of     *)
(* transactions that is closed under parents and holds no such coinbase;   *)
(* FromSingle is one.                                                      *)
(***************************************************************************)
ParentClosed(F) == \A tx \in F : tx \in Tx /\ \A o \in Pool!Ins(tx) : o[1] \in F

LEMMA ParentClosedFacts ==
    ASSUME NEW F, ParentClosed(F)
    PROVE  \A tx \in F : tx \in Tx /\ \A o \in Pool!Ins(tx) : o[1] \in F
BY DEF ParentClosed

(* The recursive definition of Ancestry has a solution: the least closed   *)
(* sets.                                                                   *)
Least(tx) == {a \in Tx : \A S \in SUBSET Tx : ParentClosed(S) /\ tx \in S => a \in S}

LEMMA LeastFacts ==
    ASSUME NEW tx \in Tx
    PROVE  /\ tx \in Least(tx) /\ Least(tx) \subseteq Tx
           /\ \A a \in Least(tx) : \A o \in Pool!Ins(a) : o[1] \in Least(tx)
           /\ \A o \in Pool!Ins(tx) : Least(o[1]) \subseteq Least(tx)
<1>1. tx \in Least(tx) /\ Least(tx) \subseteq Tx
  BY DEF Least
<1>2. ASSUME NEW a \in Least(tx), NEW o \in Pool!Ins(a) PROVE o[1] \in Least(tx)
  <2>1. a \in Tx /\ o[1] \in Tx
    BY <1>1, InsDef
  <2>2. ASSUME NEW S \in SUBSET Tx, ParentClosed(S), tx \in S PROVE o[1] \in S
    <3>1. a \in S
      BY <2>2 DEF Least
    <3> QED BY <2>2, <3>1 DEF ParentClosed
  <2> QED BY <2>1, <2>2 DEF Least
<1>3. ASSUME NEW o \in Pool!Ins(tx), NEW a \in Least(o[1]) PROVE a \in Least(tx)
  <2>1. a \in Tx
    BY DEF Least
  <2>2. ASSUME NEW S \in SUBSET Tx, ParentClosed(S), tx \in S PROVE a \in S
    <3>1. o[1] \in S
      BY <2>2 DEF ParentClosed
    <3> QED BY <2>2, <3>1 DEF Least
  <2> QED BY <2>1, <2>2 DEF Least
<1> QED BY <1>1, <1>2, <1>3

LEMMA AncestryDef ==
    \A tx \in Tx : Ancestry[tx] = {tx} \cup UNION {Ancestry[o[1]] : o \in Pool!Ins(tx)}
<1> DEFINE Def(f) == [tx \in Tx |-> {tx} \cup UNION {f[o[1]] : o \in Pool!Ins(tx)}]
           g == [tx \in Tx |-> Least(tx)]
<1>1. ASSUME NEW tx \in Tx PROVE Least(tx) = {tx} \cup UNION {Least(o[1]) : o \in Pool!Ins(tx)}
  <2> DEFINE R == {tx} \cup UNION {Least(o[1]) : o \in Pool!Ins(tx)}
  <2>0. \A o \in Pool!Ins(tx) : o[1] \in Tx
    BY InsDef
  <2>1. R \subseteq Least(tx)
    BY LeastFacts
  <2>2. R \in SUBSET Tx
    BY <2>0, LeastFacts
  <2>3. ParentClosed(R)
    <3>1. ASSUME NEW y \in R, NEW i \in Pool!Ins(y) PROVE i[1] \in R
      <4>1. CASE y = tx
        BY <2>0, <4>1, LeastFacts
      <4>2. CASE y # tx
        <5>1. PICK o \in Pool!Ins(tx) : y \in Least(o[1])
          BY <4>2
        <5>2. i[1] \in Least(o[1])
          BY <2>0, <5>1, LeastFacts
        <5> QED BY <5>2
      <4> QED BY <4>1, <4>2
    <3> HIDE DEF R
    <3> QED BY <2>2, <3>1 DEF ParentClosed
  <2>4. tx \in R
    OBVIOUS
  <2> HIDE DEF R
  <2>5. Least(tx) \subseteq R
    BY <2>2, <2>3, <2>4 DEF Least
  <2>6. Least(tx) = R
    BY <2>1, <2>5
  <2> QED BY <2>6 DEF R
<1>2. g = Def(g)
  <2>1. ASSUME NEW tx \in Tx PROVE g[tx] = {tx} \cup UNION {g[o[1]] : o \in Pool!Ins(tx)}
    <3>1. \A o \in Pool!Ins(tx) : g[o[1]] = Least(o[1])
      BY InsDef
    <3>2. {g[o[1]] : o \in Pool!Ins(tx)} = {Least(o[1]) : o \in Pool!Ins(tx)}
      BY <3>1
    <3> QED BY <1>1, <3>2
  <2> QED BY <2>1
<1>3. Ancestry = CHOOSE f : f = Def(f)
  BY DEF Ancestry
<1>4. Ancestry = Def(Ancestry)
  <2> HIDE DEF g, Def
  <2> QED BY <1>2, <1>3
<1> QED BY <1>4

LEMMA FromSingleFacts ==
    ASSUME NEW blocks
    PROVE  /\ ParentClosed(FromSingle(blocks))
           /\ \A tx \in FromSingle(blocks) : tx \notin Repeated(blocks)
<1> DEFINE F == FromSingle(blocks)
<1>1. \A tx : tx \in F <=> tx \in Tx /\ Ancestry[tx] \cap Repeated(blocks) = {}
  BY DEF FromSingle
<1> HIDE DEF F
<1>2. ASSUME NEW tx \in Tx PROVE tx \in Ancestry[tx] /\ \A o \in Pool!Ins(tx) : Ancestry[o[1]] \subseteq Ancestry[tx]
  BY AncestryDef
<1>3. ASSUME NEW tx \in F, NEW o \in Pool!Ins(tx) PROVE o[1] \in F
  <2>1. o[1] \in Tx /\ Ancestry[o[1]] \subseteq Ancestry[tx]
    BY <1>1, <1>2, InsDef
  <2> QED BY <1>1, <2>1
<1>4. ParentClosed(F)
  BY <1>1, <1>3 DEF ParentClosed
<1>5. ASSUME NEW tx \in F PROVE tx \notin Repeated(blocks)
  BY <1>1, <1>2
<1> QED BY <1>4, <1>5 DEF F

LEMMA RepeatedGrows ==
    ASSUME NEW A, NEW B, A \subseteq B
    PROVE  Repeated(A) \subseteq Repeated(B) /\ FromSingle(B) \subseteq FromSingle(A)
<1>1. Repeated(A) \subseteq Repeated(B)
  BY DEF Repeated
<1> QED BY <1>1 DEF FromSingle

LEMMA BeforeOrder ==
    ASSUME NEW p \in Nat \X Nat, NEW q \in Nat \X Nat, NEW r \in Nat \X Nat
    PROVE  /\ Before(p, q) /\ Before(q, r) => Before(p, r)
           /\ ~Before(p, p)
           /\ Before(p, q) \/ p = q \/ Before(q, p)
           /\ Before(p, q) => ~Before(q, p)
           /\ Before(p, q) => p[1] <= q[1]
<1>1. p = <<p[1], p[2]>> /\ q = <<q[1], q[2]>>
  OBVIOUS
<1>2. p[1] \in Nat /\ p[2] \in Nat /\ q[1] \in Nat /\ q[2] \in Nat /\ r[1] \in Nat /\ r[2] \in Nat
  OBVIOUS
<1>3. Before(p, q) \/ (p[1] = q[1] /\ p[2] = q[2]) \/ Before(q, p)
  BY <1>2 DEF Before
<1>4. (p[1] = q[1] /\ p[2] = q[2]) => p = q
  BY <1>1
<1> QED BY <1>2, <1>3, <1>4 DEF Before

LEMMA PlaceNat ==
    ASSUME NEW c \in Seq(Block), NEW p \in Places(c) PROVE p \in Nat \X Nat
BY PlacesDef

LEMMA FirstPlace ==
    ASSUME NEW c \in Seq(Block), NEW S \in SUBSET Places(c), S # {}
    PROVE  \E q \in S : \A r \in S : ~Before(r, q)
<1> DEFINE H == {p[1] : p \in S}
<1>0. \A p \in S : p \in Nat \X Nat
  BY PlaceNat
<1>1. H \in SUBSET Nat /\ H # {}
  BY <1>0
<1>2. PICK h \in H : \A k \in H : h <= k
  <2> HIDE DEF H
  <2> QED BY <1>1, LeastElement
<1> DEFINE I == {p[2] : p \in {r \in S : r[1] = h}}
<1>3. I \in SUBSET Nat /\ I # {}
  BY <1>0
<1>4. PICK i \in I : \A k \in I : i <= k
  <2> HIDE DEF I
  <2> QED BY <1>3, LeastElement
<1>5. PICK q \in S : q[1] = h /\ q[2] = i
  OBVIOUS
<1>6. ASSUME NEW r \in S, Before(r, q) PROVE FALSE
  <2>1. r[1] \in H /\ (r[1] = h => r[2] \in I)
    OBVIOUS
  <2> HIDE DEF H, I
  <2>2. h <= r[1] /\ (r[1] = h => i <= r[2])
    BY <1>2, <1>4, <2>1
  <2>3. r[1] \in Nat /\ r[2] \in Nat /\ h \in Nat /\ i \in Nat
    BY <1>0, <1>1, <1>3
  <2> QED BY <1>5, <1>6, <2>2, <2>3 DEF Before
<1> QED BY <1>5, <1>6

LEMMA UptoPlace ==
    ASSUME NEW c, NEW p, NEW e PROVE p \in Upto(c, e) <=> p \in Places(c) /\ Before(p, e)
BY DEF Upto

(* In a valid chain the parent of a transaction comes before it.           *)
LEMMA ParentBefore ==
    ASSUME NEW c \in Seq(Block), NEW q \in Places(c), ValidAt(c, q), NEW o \in Pool!Ins(TxAt(c, q))
    PROVE  \E r \in Places(c) : /\ Before(r, q) /\ TxAt(c, r) = o[1]
                                /\ \A s \in Places(c) : Before(s, q) /\ Before(r, s) => o \notin Pool!Ins(TxAt(c, s))
BY UptoPlace DEF ValidAt, Unspent

(* The coinbase at the second of two places has connected as a repetition. *)
LEMMA CoinBaseTwice ==
    ASSUME NEW c, NEW u, NEW view, ChainOK(c, u, view), NEW p \in Places(c), NEW q \in Places(c),
           Before(p, q), TxAt(c, p) = TxAt(c, q), TxAt(c, q) \in CoinBase
    PROVE  TxAt(c, q) \in Repeated(DOMAIN u)
<1>0. c \in Seq(Block) /\ IsChain(c)
  BY ChainPath DEF ChainOK
<1> DEFINE g == p[1]  h == q[1]
<1>1. /\ p = <<g, p[2]>> /\ g \in 1..Len(c) /\ p[2] \in 1..Len(vtx[c[g]]) /\ g \in Nat
      /\ q = <<h, q[2]>> /\ h \in 1..Len(c) /\ q[2] \in 1..Len(vtx[c[h]]) /\ h \in Nat
  BY <1>0, PlacesDef
<1>2. /\ c[g] \in Block /\ c[h] \in Block /\ Len(Path[c[h]]) = h /\ Agree(Path[c[h]], c, h)
  BY <1>0, <1>1, ChainPath
<1>3. TxAt(c, p) = vtx[c[g]][p[2]] /\ TxAt(c, q) = vtx[c[h]][q[2]]
  BY DEF TxAt
<1> HIDE DEF g, h
<1>4. p[2] = 1 /\ q[2] = 1
  <2>1. vtx[c[g]][p[2]] \in CoinBase /\ vtx[c[h]][q[2]] \in CoinBase
    BY <1>3
  <2>2. /\ \A i \in 1..Len(vtx[c[g]]) : vtx[c[g]][i] \in CoinBase <=> i = 1
        /\ \A i \in 1..Len(vtx[c[h]]) : vtx[c[h]][i] \in CoinBase <=> i = 1
    BY <1>2, BlockFacts
  <2> QED BY <1>1, <2>1, <2>2
<1>5. g < h
  BY <1>1, <1>4 DEF Before, g, h
<1>6. g \in 1..(h - 1) /\ g \in 1..h
  BY <1>1, <1>5
<1>7. Path[c[h]][g] = c[g]
  BY <1>2, <1>6 DEF Agree
<1>8. c[h] \in DOMAIN u
  BY <1>1 DEF ChainOK
<1>9. vtx[Path[c[h]][g]][1] = vtx[c[h]][1] /\ TxAt(c, q) = vtx[c[h]][1]
  BY <1>3, <1>4, <1>7
<1>10. \E k \in 1..(Len(Path[c[h]]) - 1) : vtx[Path[c[h]][k]][1] = vtx[c[h]][1]
  BY <1>2, <1>6, <1>9
<1> QED BY <1>8, <1>9, <1>10 DEF Repeated

LEMMA TxOnce ==
    ASSUME NEW c, NEW u, NEW view, ChainOK(c, u, view),
           NEW F, ParentClosed(F), \A tx \in F : tx \notin Repeated(DOMAIN u)
    PROVE  OnceIn(c, F)
<1>0. c \in Seq(Block)
  BY ChainPath DEF ChainOK
<1>1. \A p \in Places(c) : ValidAt(c, p) /\ TxAt(c, p) \in Tx
  BY ChainValid
<1>n. \A p \in Places(c) : p \in Nat \X Nat
  BY <1>0, PlaceNat
<1> DEFINE S == {q \in Places(c) : /\ TxAt(c, q) \in F
                                   /\ \E p \in Places(c) : Before(p, q) /\ TxAt(c, p) = TxAt(c, q)}
<1>2. S = {}
  <2> SUFFICES ASSUME S # {} PROVE FALSE
    OBVIOUS
  <2>1. PICK q \in S : \A r \in S : ~Before(r, q)
    <3>1. S \in SUBSET Places(c)
      OBVIOUS
    <3> HIDE DEF S
    <3> QED BY <1>0, <3>1, FirstPlace
  <2>2. PICK p \in Places(c) : Before(p, q) /\ TxAt(c, p) = TxAt(c, q)
    OBVIOUS
  <2>3. q \in Places(c) /\ TxAt(c, q) \in F
    OBVIOUS
  <2> DEFINE tx == TxAt(c, q)
  <2>4. tx \notin CoinBase /\ tx \in Tx
    <3>1. TxAt(c, q) \in Tx
      BY <1>1, <2>3
    <3>2. TxAt(c, q) \in CoinBase => TxAt(c, q) \in Repeated(DOMAIN u)
      <4> HIDE DEF S
      <4> QED BY <2>2, <2>3, CoinBaseTwice
    <3> QED BY <2>3, <3>1, <3>2
  <2>5. PICK o : o \in Pool!Ins(tx)
    <3>1. Len(vin[tx]) \in Nat /\ Len(vin[tx]) # 0
      BY <2>4, TxFacts
    <3>2. vin[tx][1] \in Pool!Ins(tx)
      BY <2>4, <3>1, InsDef
    <3> QED BY <3>2
  <2>a. o[1] \in F
    BY <2>3, <2>5, ParentClosedFacts
  <2>6. PICK r \in Places(c) : /\ Before(r, q) /\ TxAt(c, r) = o[1]
                               /\ \A s \in Places(c) : Before(s, q) /\ Before(r, s) => o \notin Pool!Ins(TxAt(c, s))
    BY <1>0, <1>1, <2>3, <2>5, ParentBefore
  <2>7. PICK x \in Places(c) : Before(x, p) /\ TxAt(c, x) = o[1]
    BY <1>0, <1>1, <2>2, <2>5, ParentBefore
  <2>8. ~Before(r, p)
    BY <2>2, <2>5, <2>6
  <2>9. Before(x, r)
    BY <1>n, <2>7, <2>8, BeforeOrder
  <2>10. r \in S
    BY <2>6, <2>7, <2>9, <2>a
  <2> QED BY <2>1, <2>6, <2>10
<1>3. ASSUME NEW p \in Places(c), NEW q \in Places(c), TxAt(c, p) = TxAt(c, q), TxAt(c, p) \in F PROVE p = q
  <2>1. ~Before(p, q) /\ ~Before(q, p)
    BY <1>2, <1>3
  <2> QED BY <1>n, <2>1, BeforeOrder
<1> QED BY <1>3 DEF OnceIn

(* What the chain says of an output.                                       *)
SpentIn(c, o) == \E q \in Places(c) : o \in Pool!Ins(TxAt(c, q))

(* c is a chain that has connected, each transaction of F at most once,    *)
(* and view is its coin view.                                              *)
GoodChain(c, view, F) ==
    /\ IsChain(c) /\ ParentClosed(F) /\ OnceIn(c, F) /\ Matches(view, c, End(c))
    /\ \A p \in Places(c) : ValidAt(c, p) /\ TxAt(c, p) \in Tx

LEMMA GoodChainFacts ==
    ASSUME NEW c, NEW view, NEW F, GoodChain(c, view, F)
    PROVE  /\ \A tx : InChain(c, tx) => \A o \in Pool!Ins(tx) : InChain(c, o[1]) /\ o[2] \in DOMAIN vout[o[1]]
           /\ \A o : Unspent(c, o, End(c)) => InChain(c, o[1])
           /\ \A o : o[1] \in F => (Unspent(c, o, End(c)) <=> InChain(c, o[1]) /\ ~SpentIn(c, o))
           /\ \A tx \in Tx : ~InChain(c, tx) => view[tx].vout = {}
           /\ \A o : o[1] \in Tx /\ o[2] \in DOMAIN vout[o[1]] /\ o = <<o[1], o[2]>>
                       => (o[2] \in view[o[1]].vout <=> Unspent(c, o, End(c)))
           /\ \A tx \in F, d \in Tx : InChain(c, tx) /\ InChain(c, d) /\ Pool!Ins(tx) \cap Pool!Ins(d) # {} => tx = d
<1>0. c \in Seq(Block) /\ Upto(c, End(c)) = Places(c)
  BY ChainPath, UptoEnd DEF GoodChain
<1>n. \A p \in Places(c) : p \in Nat \X Nat
  BY <1>0, PlaceNat
<1>1. \A p \in Places(c) : ValidAt(c, p) /\ TxAt(c, p) \in Tx
  BY DEF GoodChain
<1>2. ASSUME NEW q \in Places(c), NEW o \in Pool!Ins(TxAt(c, q))
      PROVE  InChain(c, o[1]) /\ o[2] \in DOMAIN vout[o[1]]
  <2>1. \E r \in Places(c) : TxAt(c, r) = o[1]
    BY <1>0, <1>1, ParentBefore
  <2>2. o[2] \in DOMAIN vout[o[1]]
    BY <1>1 DEF ValidAt
  <2> QED BY <2>1, <2>2 DEF InChain
<1>3. \A tx : InChain(c, tx) => \A o \in Pool!Ins(tx) : InChain(c, o[1]) /\ o[2] \in DOMAIN vout[o[1]]
  BY <1>2 DEF InChain
<1>a. ASSUME NEW o, Unspent(c, o, End(c)) PROVE InChain(c, o[1])
  BY <1>0, <1>a DEF Unspent, InChain
<1>4. ASSUME NEW o, o[1] \in F PROVE Unspent(c, o, End(c)) <=> InChain(c, o[1]) /\ ~SpentIn(c, o)
  <2>1. Unspent(c, o, End(c)) <=>
          \E p \in Places(c) : /\ TxAt(c, p) = o[1]
                               /\ \A q \in Places(c) : Before(p, q) => o \notin Pool!Ins(TxAt(c, q))
    BY <1>0 DEF Unspent
  <2>2. ASSUME NEW p \in Places(c), TxAt(c, p) = o[1], NEW q \in Places(c), o \in Pool!Ins(TxAt(c, q))
        PROVE  Before(p, q)
    <3>1. PICK r \in Places(c) : Before(r, q) /\ TxAt(c, r) = o[1]
      BY <1>0, <1>1, <2>2, ParentBefore
    <3>2. r = p
      BY <1>4, <2>2, <3>1 DEF OnceIn, GoodChain
    <3> QED BY <3>1, <3>2
  <2> QED BY <2>1, <2>2 DEF InChain, SpentIn
<1>5. ASSUME NEW tx \in Tx, ~InChain(c, tx) PROVE view[tx].vout = {}
  <2>1. \A n \in DOMAIN vout[tx] : ~Unspent(c, <<tx, n>>, End(c))
    BY <1>5, <1>a
  <2>2. Matches(view, c, End(c))
    BY DEF GoodChain
  <2> QED BY <2>1, <2>2 DEF Matches
<1>6. ASSUME NEW o, o[1] \in Tx, o[2] \in DOMAIN vout[o[1]], o = <<o[1], o[2]>>
      PROVE  o[2] \in view[o[1]].vout <=> Unspent(c, o, End(c))
  <2>1. Matches(view, c, End(c))
    BY DEF GoodChain
  <2>2. o[2] \in view[o[1]].vout <=> Unspent(c, <<o[1], o[2]>>, End(c))
    BY <1>6, <2>1 DEF Matches
  <2> QED BY <1>6, <2>2
<1>7. ASSUME NEW p \in Places(c), NEW q \in Places(c), NEW o \in Pool!Ins(TxAt(c, p)), o \in Pool!Ins(TxAt(c, q)),
             Before(p, q), o[1] \in F
      PROVE  FALSE
  <2>1. PICK r \in Places(c) : /\ Before(r, q) /\ TxAt(c, r) = o[1]
                               /\ \A s \in Places(c) : Before(s, q) /\ Before(r, s) => o \notin Pool!Ins(TxAt(c, s))
    BY <1>0, <1>1, <1>7, ParentBefore
  <2>2. PICK x \in Places(c) : Before(x, p) /\ TxAt(c, x) = o[1]
    BY <1>0, <1>1, <1>7, ParentBefore
  <2>3. x = r
    BY <1>7, <2>1, <2>2 DEF OnceIn, GoodChain
  <2> QED BY <1>7, <2>1, <2>2, <2>3
<1>8. ASSUME NEW tx \in F, NEW d \in Tx, InChain(c, tx), InChain(c, d), Pool!Ins(tx) \cap Pool!Ins(d) # {}
      PROVE  tx = d
  <2>1. PICK p \in Places(c) : TxAt(c, p) = tx
    BY <1>8 DEF InChain
  <2>2. PICK q \in Places(c) : TxAt(c, q) = d
    BY <1>8 DEF InChain
  <2>3. PICK o \in Pool!Ins(tx) : o \in Pool!Ins(d)
    BY <1>8
  <2>a. o[1] \in F
    BY <2>3, ParentClosedFacts DEF GoodChain
  <2>4. ~Before(p, q) /\ ~Before(q, p)
    BY <1>7, <2>1, <2>2, <2>3, <2>a
  <2>5. p = q
    BY <1>n, <2>4, BeforeOrder
  <2> QED BY <2>1, <2>2, <2>5
<1> QED BY <1>3, <1>4, <1>5, <1>6, <1>8, <1>a

-----------------------------------------------------------------------------
(***************************************************************************)
(* A reorganisation from chain c to chain d, with its queues: vr holds     *)
(* what c had and d may lack, vd what d has and c may lack.                *)
(***************************************************************************)
Queues(vr, vd, c, d, F) ==
    /\ vr \in Seq(Tx) /\ vd \in Seq(Tx)
    /\ \A x : Elem(vd, x) => InChain(d, x)
    /\ \A x : Elem(vr, x) => InChain(c, x) /\ x \notin CoinBase
    /\ \A x : InChain(d, x) => InChain(c, x) \/ Elem(vd, x)
    /\ \A x : InChain(c, x) => InChain(d, x) \/ x \in CoinBase \/ Elem(vr, x)
    /\ \A o : SpentIn(d, o) => SpentIn(c, o) \/ \E x : Elem(vd, x) /\ o \in Pool!Ins(x)
    /\ \A x : \A o \in Pool!Ins(x) : o[1] \in F /\ Elem(vd, o[1]) /\ InChain(d, x) => Elem(vd, x)

LEMMA AgreePlace ==
    ASSUME NEW c \in Seq(Block), NEW d \in Seq(Block), NEW f, Agree(c, d, f), f \in Nat,
           NEW p \in Places(c), p[1] <= f
    PROVE  p \in Places(d) /\ TxAt(d, p) = TxAt(c, p)
<1>1. p \in Nat \X Nat /\ p = <<p[1], p[2]>> /\ p[1] \in 1..Len(c) /\ p[2] \in 1..Len(vtx[c[p[1]]])
  BY PlacesDef
<1>2. p[1] \in 1..f /\ p[1] \in 1..Len(d) /\ c[p[1]] = d[p[1]]
  BY <1>1 DEF Agree
<1> QED BY <1>1, <1>2, PlacesDef DEF TxAt

LEMMA QueuesOf ==
    ASSUME NEW F, NEW cv, GoodChain(chain, cv, F), NEW new, NEW dv, GoodChain(new, dv, F)
    PROVE  Queues(vResurrect(new), vDelete(new), chain, new, F)
<1> DEFINE f == ForkHeight(new)  vr == vResurrect(new)  vd == vDelete(new)
<1>0. /\ IsChain(chain) /\ IsChain(new) /\ chain \in Seq(Block) /\ new \in Seq(Block)
      /\ OnceIn(new, F)
  BY ChainPath DEF GoodChain
<1>1. f \in Nat /\ Agree(chain, new, f) /\ Agree(new, chain, f)
  BY <1>0, ForkFacts DEF Agree
<1>2. vd \in Seq(Tx) /\ \A x : Elem(vd, x) <=> \E p \in Places(new) : p[1] > f /\ TxAt(new, p) = x
  BY <1>0, DeleteElems
<1>3. vr \in Seq(Tx) /\ \A x : Elem(vr, x) <=> \E p \in Places(chain) : p[1] > f /\ p[2] > 1 /\ TxAt(chain, p) = x
  BY <1>0, ResurrectElems
<1>4. ASSUME NEW p \in Places(chain) PROVE p[1] \in Nat /\ p[2] \in Nat /\ (TxAt(chain, p) \in CoinBase <=> ~(p[2] > 1))
  <2>1. p \in Nat \X Nat /\ p[1] \in 1..Len(chain) /\ p[2] \in 1..Len(vtx[chain[p[1]]]) /\ chain[p[1]] \in Block
    BY <1>0, PlacesDef
  <2>2. vtx[chain[p[1]]][p[2]] \in CoinBase <=> p[2] = 1
    BY <2>1, BlockFacts
  <2>3. p[2] >= 1 /\ p[2] \in Nat /\ p[1] \in Nat
    BY <2>1
  <2> QED BY <2>2, <2>3 DEF TxAt
<1>5. ASSUME NEW p \in Places(new) PROVE p[1] \in Nat /\ p \in Nat \X Nat
  BY <1>0, PlaceNat
<1> HIDE DEF f, vr, vd
<1>6. ASSUME NEW p \in Places(new) PROVE (p \in Places(chain) /\ TxAt(chain, p) = TxAt(new, p)) \/ p[1] > f
  BY <1>0, <1>1, <1>5, AgreePlace
<1>7. ASSUME NEW p \in Places(chain) PROVE (p \in Places(new) /\ TxAt(chain, p) = TxAt(new, p)) \/ p[1] > f
  BY <1>0, <1>1, <1>4, AgreePlace
<1>8. \A x : Elem(vd, x) => InChain(new, x)
  BY <1>2 DEF InChain
<1>9. \A x : Elem(vr, x) => InChain(chain, x) /\ x \notin CoinBase
  BY <1>3, <1>4 DEF InChain
<1>10. \A x : InChain(new, x) => InChain(chain, x) \/ Elem(vd, x)
  BY <1>2, <1>6 DEF InChain
<1>11. \A x : InChain(chain, x) => InChain(new, x) \/ x \in CoinBase \/ Elem(vr, x)
  BY <1>3, <1>4, <1>7 DEF InChain
<1>12. ASSUME NEW o, SpentIn(new, o) PROVE SpentIn(chain, o) \/ \E x : Elem(vd, x) /\ o \in Pool!Ins(x)
  BY <1>2, <1>6, <1>12 DEF SpentIn
<1>13. ASSUME NEW x, NEW o \in Pool!Ins(x), o[1] \in F, Elem(vd, o[1]), InChain(new, x) PROVE Elem(vd, x)
  <2>1. PICK p \in Places(new) : p[1] > f /\ TxAt(new, p) = o[1]
    BY <1>2, <1>13
  <2>2. PICK q \in Places(new) : TxAt(new, q) = x
    BY <1>13 DEF InChain
  <2>3. PICK r \in Places(new) : Before(r, q) /\ TxAt(new, r) = o[1]
    BY <1>0, <1>13, <2>2, ParentBefore DEF GoodChain
  <2>4. r = p
    BY <1>0, <1>13, <2>1, <2>3 DEF OnceIn
  <2>5. p[1] <= q[1] /\ p[1] \in Nat /\ q[1] \in Nat
    BY <1>5, <2>3, <2>4, BeforeOrder
  <2>6. q[1] > f
    BY <1>1, <2>1, <2>5
  <2> QED BY <1>2, <2>2, <2>6
<1> QED BY <1>2, <1>3, <1>8, <1>9, <1>10, <1>11, <1>12, <1>13 DEF Queues, vr, vd

(* The invariant of the pool.                                              *)
FromChain(c, o) == Unspent(c, o, End(c)) \/ (o[1] \in CoinBase /\ ~InChain(c, o[1]))

PoolOK(c, p, F) ==
    \A tx \in p.mapTx :
        /\ tx \notin CoinBase /\ (tx \in F => ~InChain(c, tx))
        /\ \A o \in Pool!Ins(tx) : o[1] \in F => /\ o[2] \in DOMAIN vout[o[1]]
                                                 /\ FromChain(c, o) \/ o[1] \in p.mapTx

(* The invariant of the first loop, once k transactions have been tried.   *)
Resurrecting(p, k, vr, vd, c, d, F) ==
    \A tx \in p.mapTx :
        /\ tx \notin CoinBase /\ (tx \in F /\ InChain(d, tx) => ~InChain(c, tx))
        /\ \A o \in Pool!Ins(tx) : o[1] \in F =>
              /\ o[2] \in DOMAIN vout[o[1]]
              /\ \/ FromChain(d, o) \/ o[1] \in p.mapTx
                 \/ \E j \in (k + 1)..Len(vr) : vr[j] = o[1]
                 \/ \E x : Elem(vd, x) /\ o \in Pool!Ins(x)

(* The invariant of the second.                                            *)
Purging(p, k, vd, d, F) ==
    \A tx \in p.mapTx :
        /\ tx \notin CoinBase
        /\ tx \in F /\ InChain(d, tx) => \E j \in (k + 1)..Len(vd) : vd[j] = tx
        /\ \A j \in 1..k : Pool!Ins(tx) \cap Pool!Ins(vd[j]) = {}
        /\ \A o \in Pool!Ins(tx) : o[1] \in F =>
              /\ o[2] \in DOMAIN vout[o[1]]
              /\ \/ FromChain(d, o) \/ o[1] \in p.mapTx
                 \/ \E j \in (k + 1)..Len(vd) : o \in Pool!Ins(vd[j])

LEMMA ResurrectingStart ==
    ASSUME NEW F, NEW c, NEW cv, GoodChain(c, cv, F), NEW d, NEW dv, GoodChain(d, dv, F), NEW vr, NEW vd,
           Queues(vr, vd, c, d, F), NEW p, PoolOK(c, p, F)
    PROVE  Resurrecting(p, 0, vr, vd, c, d, F)
<1> SUFFICES ASSUME NEW tx \in p.mapTx, NEW o \in Pool!Ins(tx), o[1] \in F, o[1] \notin p.mapTx
             PROVE  \/ FromChain(d, o)
                    \/ \E j \in (0 + 1)..Len(vr) : vr[j] = o[1]
                    \/ \E x : Elem(vd, x) /\ o \in Pool!Ins(x)
  BY DEF PoolOK, Resurrecting
<1>1. FromChain(c, o)
  BY DEF PoolOK
<1>2. /\ Unspent(d, o, End(d)) <=> InChain(d, o[1]) /\ ~SpentIn(d, o)
      /\ Unspent(c, o, End(c)) <=> InChain(c, o[1]) /\ ~SpentIn(c, o)
      /\ SpentIn(c, o) => InChain(c, o[1])
  <2>1. SpentIn(c, o) => InChain(c, o[1])
    <3> SUFFICES ASSUME NEW q \in Places(c), o \in Pool!Ins(TxAt(c, q)) PROVE InChain(c, o[1])
      BY DEF SpentIn
    <3>1. InChain(c, TxAt(c, q))
      BY DEF InChain
    <3> QED BY <3>1, GoodChainFacts
  <2> QED BY <2>1, GoodChainFacts
<1>3. ~SpentIn(c, o)
  BY <1>1, <1>2 DEF FromChain
<1>4. CASE InChain(d, o[1])
  BY <1>2, <1>3, <1>4 DEF Queues, FromChain
<1>5. CASE ~InChain(d, o[1])
  <2>1. o[1] \in CoinBase \/ Elem(vr, o[1])
    BY <1>1, <1>2, <1>5 DEF Queues, FromChain
  <2>2. 0 + 1 = 1
    OBVIOUS
  <2> QED BY <1>5, <2>1, <2>2 DEF Elem, FromChain
<1> QED BY <1>4, <1>5

(* A transaction that MayAccept lets in is not in the chain.               *)
LEMMA AcceptedNotInChain ==
    ASSUME NEW F, NEW d, NEW dv, GoodChain(d, dv, F), NEW held, NEW p, GoodPool(p), NEW tx \in F, NEW h,
           MayAccept(dv, held, p, tx, h), InChain(d, tx)
    PROVE  \E o \in Pool!Ins(tx) : o[1] \in p.mapTx /\ o[1] \in F /\ InChain(d, o[1])
<1>0. dv \in View
  BY MatchesView DEF GoodChain
<1>f. tx \in Tx /\ \A o \in Pool!Ins(tx) : o[1] \in F
  BY ParentClosedFacts DEF GoodChain
<1>1. /\ tx \notin CoinBase
      /\ \A o \in Pool!Ins(tx) : /\ o[1] \in Tx /\ o[2] \in DOMAIN vout[o[1]]
                                 /\ o[2] \in dv[o[1]].vout \/ o[1] \in p.mapTx
  BY <1>0, <1>f, AcceptFacts
<1>2. PICK o : o \in Pool!Ins(tx)
  <2>1. Len(vin[tx]) \in Nat /\ Len(vin[tx]) # 0
    BY <1>1, <1>f, TxFacts
  <2>2. vin[tx][1] \in Pool!Ins(tx)
    BY <1>f, <2>1, InsDef
  <2> QED BY <2>2
<1>3. SpentIn(d, o)
  BY <1>2 DEF InChain, SpentIn
<1>4. ~Unspent(d, o, End(d)) /\ InChain(d, o[1])
  BY <1>2, <1>3, <1>f, GoodChainFacts
<1>5. o = <<o[1], o[2]>>
  BY <1>2, <1>f, InsDef
<1>6. o[2] \notin dv[o[1]].vout
  BY <1>1, <1>2, <1>4, <1>5, GoodChainFacts
<1> QED BY <1>1, <1>2, <1>4, <1>6, <1>f

LEMMA ResurrectingStep ==
    ASSUME NEW F, NEW c, NEW cv, GoodChain(c, cv, F), NEW d, NEW dv, GoodChain(d, dv, F), NEW vr, NEW vd,
           Queues(vr, vd, c, d, F), NEW held, NEW h, NEW k \in 1..Len(vr),
           NEW p, GoodPool(p), Resurrecting(p, k - 1, vr, vd, c, d, F)
    PROVE  Resurrecting(Resurrect(dv, held, p, vr[k], h), k, vr, vd, c, d, F)
<1> DEFINE tx == vr[k]  q == Resurrect(dv, held, p, tx, h)
<1>0. Len(vr) \in Nat /\ tx \in Tx /\ (k - 1) + 1 = k /\ Elem(vr, tx)
  BY DEF Queues, Elem
<1>1. InChain(c, tx) /\ tx \notin CoinBase
  BY <1>0 DEF Queues
<1>2. dv \in View
  BY MatchesView DEF GoodChain
<1> HIDE DEF tx
<1>3. ASSUME NEW x, NEW j \in ((k - 1) + 1)..Len(vr), vr[j] = x
      PROVE  x = tx \/ \E l \in (k + 1)..Len(vr) : vr[l] = x
  <2>1. j = k \/ j \in (k + 1)..Len(vr)
    BY <1>0
  <2> QED BY <1>3, <2>1 DEF tx
<1>4. CASE MayAccept(dv, held, p, tx, h)
  <2>1. q = Pool!addUnchecked(p, tx)
    BY <1>4 DEF Resurrect
  <2>a. \A o \in Pool!Ins(tx) : /\ o[1] \in Tx /\ o[2] \in DOMAIN vout[o[1]]
                                /\ o[2] \in dv[o[1]].vout \/ o[1] \in p.mapTx
    BY <1>0, <1>2, <1>4, AcceptFacts
  <2>b. Pool!addUnchecked(p, tx).mapTx = p.mapTx \cup {tx}
    BY DEF Pool!addUnchecked
  <2>2. /\ q.mapTx = p.mapTx \cup {tx}
        /\ \A o \in Pool!Ins(tx) : /\ o[1] \in Tx /\ o[2] \in DOMAIN vout[o[1]]
                                   /\ o[2] \in dv[o[1]].vout \/ o[1] \in p.mapTx
    <3> HIDE DEF q
    <3> QED BY <2>1, <2>a, <2>b
  <2> HIDE DEF q
  <2>3. tx \in F => ~InChain(d, tx)
    <3> SUFFICES ASSUME tx \in F, InChain(d, tx) PROVE FALSE
      OBVIOUS
    <3>1. PICK o \in Pool!Ins(tx) : o[1] \in p.mapTx /\ o[1] \in F /\ InChain(d, o[1])
      BY <1>0, <1>4, AcceptedNotInChain
    <3>2. InChain(c, o[1])
      BY <1>1, GoodChainFacts
    <3> QED BY <3>1, <3>2 DEF Resurrecting
  <2>4. ASSUME NEW o \in Pool!Ins(tx) PROVE o[2] \in DOMAIN vout[o[1]] /\ (FromChain(d, o) \/ o[1] \in q.mapTx)
    <3>1. o = <<o[1], o[2]>>
      BY <1>0, InsDef
    <3>2. o[2] \in dv[o[1]].vout => Unspent(d, o, End(d))
      BY <2>2, <3>1, GoodChainFacts
    <3> QED BY <2>2, <3>2 DEF FromChain
  <2>5. ASSUME NEW u \in p.mapTx, NEW o \in Pool!Ins(u), o[1] \in F
        PROVE  /\ o[2] \in DOMAIN vout[o[1]]
               /\ \/ FromChain(d, o) \/ o[1] \in q.mapTx
                  \/ \E j \in (k + 1)..Len(vr) : vr[j] = o[1]
                  \/ \E x : Elem(vd, x) /\ o \in Pool!Ins(x)
    <3>1. /\ o[2] \in DOMAIN vout[o[1]]
          /\ \/ FromChain(d, o) \/ o[1] \in p.mapTx
             \/ \E j \in ((k - 1) + 1)..Len(vr) : vr[j] = o[1]
             \/ \E x : Elem(vd, x) /\ o \in Pool!Ins(x)
      BY <2>5 DEF Resurrecting
    <3> QED BY <1>3, <2>2, <3>1
  <2>6. ASSUME NEW u \in p.mapTx PROVE u \notin CoinBase /\ (u \in F /\ InChain(d, u) => ~InChain(c, u))
    BY DEF Resurrecting
  <2>7. Resurrecting(q, k, vr, vd, c, d, F)
    BY <1>1, <2>2, <2>3, <2>4, <2>5, <2>6 DEF Resurrecting
  <2> QED BY <2>7 DEF q, tx
<1>5. CASE ~MayAccept(dv, held, p, tx, h)
  <2>1. q = Pool!remove(p, tx, TRUE)
    BY <1>5 DEF Resurrect
  <2>2. RemovedFrom(p, q, tx)
    BY <2>1, RemoveFacts
  <2> HIDE DEF q
  <2>3. q.mapTx \subseteq p.mapTx
    BY <2>2 DEF RemovedFrom
  <2>4. ASSUME NEW u \in q.mapTx, NEW o \in Pool!Ins(u), o[1] \in F
        PROVE  /\ o[2] \in DOMAIN vout[o[1]]
               /\ \/ FromChain(d, o) \/ o[1] \in q.mapTx
                  \/ \E j \in (k + 1)..Len(vr) : vr[j] = o[1]
                  \/ \E x : Elem(vd, x) /\ o \in Pool!Ins(x)
    <3>1. /\ o[2] \in DOMAIN vout[o[1]]
          /\ \/ FromChain(d, o) \/ o[1] \in p.mapTx
             \/ \E j \in ((k - 1) + 1)..Len(vr) : vr[j] = o[1]
             \/ \E x : Elem(vd, x) /\ o \in Pool!Ins(x)
      BY <2>3, <2>4 DEF Resurrecting
    <3>2. o[1] # tx /\ (o[1] \in p.mapTx => o[1] \in q.mapTx)
      BY <2>2 DEF RemovedFrom
    <3> QED BY <1>3, <3>1, <3>2
  <2>5. ASSUME NEW u \in q.mapTx PROVE u \notin CoinBase /\ (u \in F /\ InChain(d, u) => ~InChain(c, u))
    BY <2>3 DEF Resurrecting
  <2>6. Resurrecting(q, k, vr, vd, c, d, F)
    BY <2>4, <2>5 DEF Resurrecting
  <2> QED BY <2>6 DEF q, tx
<1> QED BY <1>4, <1>5

LEMMA PurgingStart ==
    ASSUME NEW F, NEW c, NEW d, NEW vr, NEW vd, Queues(vr, vd, c, d, F),
           NEW p, Resurrecting(p, Len(vr), vr, vd, c, d, F)
    PROVE  Purging(p, 0, vd, d, F)
<1>0. Len(vr) \in Nat /\ Len(vd) \in Nat /\ 0 + 1 = 1
  BY DEF Queues
<1>1. ASSUME NEW tx \in p.mapTx, tx \in F, InChain(d, tx) PROVE \E j \in (0 + 1)..Len(vd) : vd[j] = tx
  <2>1. Elem(vd, tx)
    BY <1>1 DEF Resurrecting, Queues
  <2> QED BY <1>0, <2>1 DEF Elem
<1>2. ASSUME NEW tx \in p.mapTx, NEW o \in Pool!Ins(tx), o[1] \in F
      PROVE  /\ o[2] \in DOMAIN vout[o[1]]
             /\ \/ FromChain(d, o) \/ o[1] \in p.mapTx
                \/ \E j \in (0 + 1)..Len(vd) : o \in Pool!Ins(vd[j])
  <2>1. ~\E j \in (Len(vr) + 1)..Len(vr) : vr[j] = o[1]
    BY <1>0
  <2>2. ASSUME NEW x, Elem(vd, x), o \in Pool!Ins(x) PROVE \E j \in (0 + 1)..Len(vd) : o \in Pool!Ins(vd[j])
    BY <1>0, <2>2 DEF Elem
  <2> QED BY <1>2, <2>1, <2>2 DEF Resurrecting
<1>3. 1..0 = {}
  OBVIOUS
<1>4. \A tx \in p.mapTx : tx \notin CoinBase
  BY DEF Resurrecting
<1> QED BY <1>1, <1>2, <1>3, <1>4 DEF Purging

LEMMA PurgingStep ==
    ASSUME NEW c, NEW F, NEW d, NEW dv, GoodChain(d, dv, F), NEW vr, NEW vd, Queues(vr, vd, c, d, F),
           NEW k \in 1..Len(vd), NEW p, GoodPool(p), Purging(p, k - 1, vd, d, F)
    PROVE  Purging(DeleteMined(p, vd[k]), k, vd, d, F)
<1> DEFINE tx == vd[k]  q == DeleteMined(p, tx)
<1>0. Len(vd) \in Nat /\ tx \in Tx /\ (k - 1) + 1 = k /\ Elem(vd, tx) /\ InChain(d, tx)
  BY DEF Queues, Elem
<1>1. MinedFrom(p, q, tx)
  BY DeleteFacts
<1>2. /\ q.mapTx \subseteq p.mapTx /\ tx \notin q.mapTx
      /\ \A u \in q.mapTx : /\ Pool!Ins(u) \cap Pool!Ins(tx) = {}
                            /\ \A o \in Pool!Ins(u) : o[1] \in p.mapTx => o[1] \in q.mapTx \/ o[1] = tx
  BY <1>1 DEF MinedFrom
<1> HIDE DEF tx, q
<1>3. ASSUME NEW u \in q.mapTx PROVE u \notin CoinBase
  BY <1>2 DEF Purging
<1>4. ASSUME NEW u \in q.mapTx, u \in F, InChain(d, u) PROVE \E j \in (k + 1)..Len(vd) : vd[j] = u
  <2>1. PICK j \in ((k - 1) + 1)..Len(vd) : vd[j] = u
    BY <1>2, <1>4 DEF Purging
  <2>2. j # k
    BY <1>2, <2>1 DEF tx
  <2>3. j \in (k + 1)..Len(vd)
    BY <1>0, <2>1, <2>2
  <2> QED BY <2>1, <2>3
<1>5. ASSUME NEW u \in q.mapTx, NEW j \in 1..k PROVE Pool!Ins(u) \cap Pool!Ins(vd[j]) = {}
  <2>1. j = k \/ j \in 1..(k - 1)
    BY <1>0
  <2>2. CASE j = k
    BY <1>2, <2>2 DEF tx
  <2>3. CASE j \in 1..(k - 1)
    BY <1>2, <2>3 DEF Purging
  <2> QED BY <2>1, <2>2, <2>3
<1>6. ASSUME NEW u \in q.mapTx, NEW o \in Pool!Ins(u), NEW j \in 1..Len(vd), o \in Pool!Ins(vd[j])
      PROVE  j \in (k + 1)..Len(vd)
  <2>1. j \notin 1..k
    BY <1>5, <1>6
  <2> QED BY <1>0, <2>1
<1>7. ASSUME NEW u \in q.mapTx, NEW o \in Pool!Ins(u), o[1] \in F
      PROVE  /\ o[2] \in DOMAIN vout[o[1]]
             /\ \/ FromChain(d, o) \/ o[1] \in q.mapTx
                \/ \E j \in (k + 1)..Len(vd) : o \in Pool!Ins(vd[j])
  <2>1. /\ o[2] \in DOMAIN vout[o[1]]
        /\ \/ FromChain(d, o) \/ o[1] \in p.mapTx
           \/ \E j \in ((k - 1) + 1)..Len(vd) : o \in Pool!Ins(vd[j])
    BY <1>2, <1>7 DEF Purging
  <2>2. ASSUME NEW j \in ((k - 1) + 1)..Len(vd), o \in Pool!Ins(vd[j])
        PROVE  \E i \in (k + 1)..Len(vd) : o \in Pool!Ins(vd[i])
    <3>1. j \in 1..Len(vd)
      BY <1>0
    <3> QED BY <1>6, <2>2, <3>1
  <2>3. CASE o[1] = tx
    <3>1. CASE SpentIn(d, o)
      <4>1. PICK y \in Places(d) : o \in Pool!Ins(TxAt(d, y))
        BY <3>1 DEF SpentIn
      <4>2. InChain(d, TxAt(d, y)) /\ Elem(vd, o[1])
        BY <1>0, <2>3, <4>1 DEF InChain
      <4>3. Elem(vd, TxAt(d, y))
        BY <1>7, <4>1, <4>2 DEF Queues
      <4>4. PICK j \in 1..Len(vd) : vd[j] = TxAt(d, y)
        BY <4>3 DEF Elem
      <4>5. j \in (k + 1)..Len(vd)
        BY <1>6, <4>1, <4>4
      <4> QED BY <2>1, <4>1, <4>4, <4>5
    <3>2. CASE ~SpentIn(d, o)
      <4>1. Unspent(d, o, End(d))
        BY <1>0, <1>7, <2>3, <3>2, GoodChainFacts
      <4> QED BY <2>1, <4>1 DEF FromChain
    <3> QED BY <3>1, <3>2
  <2>4. CASE o[1] # tx
    BY <1>2, <2>1, <2>2, <2>4
  <2> QED BY <2>3, <2>4
<1>8. Purging(q, k, vd, d, F)
  BY <1>3, <1>4, <1>5, <1>7 DEF Purging
<1> QED BY <1>8 DEF q, tx

LEMMA PurgingEnd ==
    ASSUME NEW F, NEW vd \in Seq(Tx), NEW d, NEW p, Purging(p, Len(vd), vd, d, F)
    PROVE  PoolOK(d, p, F)
<1>1. \A j : j \notin (Len(vd) + 1)..Len(vd)
  OBVIOUS
<1> QED BY <1>1 DEF Purging, PoolOK

(* The reorganisation as a whole.                                          *)
LEMMA ReorgPoolOK ==
    ASSUME NEW F, GoodPool(mempool), PoolOK(chain, mempool, F), NEW cv, GoodChain(chain, cv, F),
           NEW new, NEW dv, GoodChain(new, dv, F), NEW held
    PROVE  PoolOK(new, Purged(new, Resurrected(new, dv, held)), F)
<1> DEFINE vr == vResurrect(new)  vd == vDelete(new)  h == Len(new)  back == Resurrected(new, dv, held)
<1>0. dv \in View
  BY MatchesView DEF GoodChain
<1>1. Queues(vr, vd, chain, new, F)
  BY QueuesOf
<1>2. vr \in Seq(Tx) /\ vd \in Seq(Tx) /\ Len(vr) \in Nat /\ Len(vd) \in Nat
  BY <1>1 DEF Queues
<1>3. PICK pool : ResurrectLoop(pool, vr, dv, held, h) /\ back = pool[Len(vr)]
  BY <1>0, <1>2, ResurrectedDef
<1> HIDE DEF vr, vd, h, back
<1>4. /\ \A k \in 0..Len(vr) : GoodPool(pool[k])
      /\ pool[0] = mempool
      /\ \A k \in 1..Len(vr) : pool[k] = Resurrect(dv, held, pool[k - 1], vr[k], h)
  BY <1>3 DEF ResurrectLoop
<1> DEFINE T == {k \in 0..Len(vr) : Resurrecting(pool[k], k, vr, vd, chain, new, F)}
<1>5. 0 \in T
  <2>1. Resurrecting(mempool, 0, vr, vd, chain, new, F)
    BY <1>1, ResurrectingStart
  <2> QED BY <1>2, <1>4, <2>1
<1>6. ASSUME NEW k \in 1..Len(vr), k - 1 \in T PROVE k \in T
  <2>1. k \in 0..Len(vr) /\ k - 1 \in 0..Len(vr)
    BY <1>2
  <2>2. GoodPool(pool[k - 1]) /\ Resurrecting(pool[k - 1], k - 1, vr, vd, chain, new, F)
    BY <1>4, <1>6, <2>1
  <2>3. Resurrecting(Resurrect(dv, held, pool[k - 1], vr[k], h), k, vr, vd, chain, new, F)
    BY <1>1, <2>2, ResurrectingStep
  <2> QED BY <1>4, <2>1, <2>3
<1>7. Len(vr) \in T
  <2> HIDE DEF T
  <2> QED BY <1>2, <1>5, <1>6, Interval0
<1>8. GoodPool(back) /\ Resurrecting(back, Len(vr), vr, vd, chain, new, F)
  BY <1>2, <1>3, <1>4, <1>7
<1>9. Purging(back, 0, vd, new, F)
  BY <1>1, <1>8, PurgingStart
<1>10. PICK pp : PurgeLoop(pp, vd, back) /\ Purged(new, back) = pp[Len(vd)]
  BY <1>2, <1>8, PurgedDef DEF vd
<1>11. /\ \A k \in 0..Len(vd) : GoodPool(pp[k])
       /\ pp[0] = back
       /\ \A k \in 1..Len(vd) : pp[k] = DeleteMined(pp[k - 1], vd[k])
  BY <1>10 DEF PurgeLoop
<1> DEFINE U == {k \in 0..Len(vd) : Purging(pp[k], k, vd, new, F)}
<1>12. 0 \in U
  BY <1>2, <1>9, <1>11
<1>13. ASSUME NEW k \in 1..Len(vd), k - 1 \in U PROVE k \in U
  <2>1. k \in 0..Len(vd) /\ k - 1 \in 0..Len(vd)
    BY <1>2
  <2>2. GoodPool(pp[k - 1]) /\ Purging(pp[k - 1], k - 1, vd, new, F)
    BY <1>11, <1>13, <2>1
  <2>3. Purging(DeleteMined(pp[k - 1], vd[k]), k, vd, new, F)
    BY <1>1, <2>2, PurgingStep
  <2> QED BY <1>11, <2>1, <2>3
<1>14. Len(vd) \in U
  <2> HIDE DEF U
  <2> QED BY <1>2, <1>12, <1>13, Interval0
<1>15. PoolOK(new, pp[Len(vd)], F)
  BY <1>2, <1>14, PurgingEnd
<1> QED BY <1>10, <1>15 DEF back

LEMMA GoodChainOf ==
    ASSUME NEW c, NEW u, NEW view, ChainOK(c, u, view),
           NEW F, ParentClosed(F), \A tx \in F : tx \notin Repeated(DOMAIN u)
    PROVE  GoodChain(c, view, F)
<1>1. OnceIn(c, F)
  BY TxOnce
<1>2. \A p \in Places(c) : ValidAt(c, p) /\ TxAt(c, p) \in Tx
  BY ChainValid
<1> QED BY <1>1, <1>2 DEF GoodChain, ChainOK

(* The fewer transactions it speaks of, the weaker it is.                  *)
LEMMA PoolOKFewer ==
    ASSUME NEW c, NEW p, NEW F, NEW G, PoolOK(c, p, F), G \subseteq F
    PROVE  PoolOK(c, p, G)
BY DEF PoolOK

PoolInv == TypeInv /\ PoolOK(chain, mempool, FromSingle(DOMAIN undo))

LEMMA PrimedPoolOK ==
    ASSUME NEW c, NEW p, NEW u, PoolOK(c, p, FromSingle(DOMAIN u)), chain' = c, mempool' = p, undo' = u
    PROVE  PoolOK(chain, mempool, FromSingle(DOMAIN undo))'
OBVIOUS

(* Both chains of a reorganisation, over the transactions that come from   *)
(* no coinbase repeated before it or by it.                                *)
LEMMA BothGood ==
    ASSUME PoolInv, NEW new, IsChain(new), Disconnected(new).fClean, Connected(new).ok
    PROVE  LET con == Connected(new)
               F == FromSingle(DOMAIN con.undo)
           IN  GoodChain(chain, coins, F) /\ GoodChain(new, con.view, F) /\ PoolOK(chain, mempool, F)
<1> DEFINE con == Connected(new)  F == FromSingle(DOMAIN con.undo)
<1>0. /\ ChainOK(chain, undo, coins) /\ IsChain(chain)
      /\ PoolOK(chain, mempool, FromSingle(DOMAIN undo))
  BY DEF PoolInv, TypeInv, ChainInv, ChainOK
<1>1. ChainOK(new, con.undo, con.view) /\ DOMAIN undo \subseteq DOMAIN con.undo
  BY <1>0, ConnectedFacts
<1> HIDE DEF con
<1>2. ParentClosed(F) /\ \A tx \in F : tx \notin Repeated(DOMAIN con.undo)
  BY FromSingleFacts
<1>3. Repeated(DOMAIN undo) \subseteq Repeated(DOMAIN con.undo) /\ F \subseteq FromSingle(DOMAIN undo)
  BY <1>1, RepeatedGrows
<1> HIDE DEF F
<1>4. GoodChain(new, con.view, F)
  BY <1>1, <1>2, GoodChainOf
<1>5. GoodChain(chain, coins, F)
  BY <1>0, <1>2, <1>3, GoodChainOf
<1>6. PoolOK(chain, mempool, F)
  BY <1>0, <1>3, PoolOKFewer
<1> QED BY <1>4, <1>5, <1>6 DEF F, con

LEMMA PoolInvStep ==
    PoolInv /\ [Next]_vars => PoolInv'
<1> SUFFICES ASSUME PoolInv, [Next]_vars
             PROVE  PoolOK(chain, mempool, FromSingle(DOMAIN undo))'
  BY TypeInvStep DEF PoolInv
<1> DEFINE F == FromSingle(DOMAIN undo)
<1>0. /\ ChainOK(chain, undo, coins) /\ IsChain(chain) /\ coins \in View /\ GoodPool(mempool)
      /\ PoolOK(chain, mempool, F)
  BY MatchesView DEF PoolInv, TypeInv, ChainInv, ChainOK
<1>f. ParentClosed(F) /\ \A tx \in F : tx \notin Repeated(DOMAIN undo)
  BY FromSingleFacts
<1> HIDE DEF F
<1>g. GoodChain(chain, coins, F)
  BY <1>0, <1>f, GoodChainOf
<1>1. ASSUME NEW tx \in Tx, AcceptToMemoryPool(tx) PROVE PoolOK(chain, mempool, FromSingle(DOMAIN undo))'
  <2> DEFINE q == Pool!addUnchecked(mempool, tx)
  <2>1. MayAccept(coins, cached, mempool, tx, Len(chain)) /\ mempool' = q /\ chain' = chain /\ undo' = undo
    BY <1>1 DEF AcceptToMemoryPool
  <2>2. /\ tx \notin CoinBase
        /\ \A o \in Pool!Ins(tx) : /\ o[1] \in Tx /\ o[2] \in DOMAIN vout[o[1]]
                                   /\ o[2] \in coins[o[1]].vout \/ o[1] \in mempool.mapTx
    BY <1>0, <2>1, AcceptFacts
  <2>a. Pool!addUnchecked(mempool, tx).mapTx = mempool.mapTx \cup {tx}
    BY DEF Pool!addUnchecked
  <2>3. q.mapTx = mempool.mapTx \cup {tx}
    BY <2>a
  <2> HIDE DEF q
  <2>4. tx \in F => ~InChain(chain, tx)
    <3> SUFFICES ASSUME tx \in F, InChain(chain, tx) PROVE FALSE
      OBVIOUS
    <3>1. PICK o \in Pool!Ins(tx) : o[1] \in mempool.mapTx /\ o[1] \in F /\ InChain(chain, o[1])
      BY <1>0, <1>g, <2>1, AcceptedNotInChain
    <3> QED BY <1>0, <3>1 DEF PoolOK
  <2>5. ASSUME NEW o \in Pool!Ins(tx)
        PROVE  o[2] \in DOMAIN vout[o[1]] /\ (FromChain(chain, o) \/ o[1] \in q.mapTx)
    <3>1. o = <<o[1], o[2]>>
      BY InsDef
    <3>2. o[2] \in coins[o[1]].vout => Unspent(chain, o, End(chain))
      BY <1>g, <2>2, <3>1, GoodChainFacts
    <3> QED BY <2>2, <2>3, <3>2 DEF FromChain
  <2>6. PoolOK(chain, q, F)
    BY <1>0, <2>2, <2>3, <2>4, <2>5 DEF PoolOK
  <2> QED BY <2>1, <2>6, PrimedPoolOK DEF F
<1>2. ASSUME NEW b \in Block, NEW fFlush \in BOOLEAN, SetBestChain(b, fFlush)
      PROVE  PoolOK(chain, mempool, FromSingle(DOMAIN undo))'
  <2> DEFINE new == Path[b]  con == Connected(new)  G == FromSingle(DOMAIN con.undo)
             held == IF fFlush THEN {} ELSE TouchedPruned(new, con.view)
  <2>1. /\ Disconnected(new).fClean /\ con.ok /\ chain' = new /\ undo' = con.undo
        /\ mempool' = Purged(new, Resurrected(new, con.view, held))
    BY <1>2 DEF SetBestChain
  <2>2. IsChain(new)
    BY PathIsChain
  <2> HIDE DEF new, held
  <2>3. GoodChain(chain, coins, G) /\ GoodChain(new, con.view, G) /\ PoolOK(chain, mempool, G)
    BY <2>1, <2>2, BothGood
  <2> HIDE DEF con, G
  <2>4. PoolOK(new, Purged(new, Resurrected(new, con.view, held)), G)
    BY <1>0, <2>3, ReorgPoolOK
  <2> QED BY <2>1, <2>4, PrimedPoolOK DEF G
<1>3. ASSUME mempool' = mempool, chain' = chain, DOMAIN undo \subseteq DOMAIN undo'
      PROVE  PoolOK(chain, mempool, FromSingle(DOMAIN undo))'
  <2> DEFINE G == FromSingle(DOMAIN undo')
  <2>1. G \subseteq FromSingle(DOMAIN undo)
    BY <1>3, RepeatedGrows
  <2>2. G \subseteq F
    BY <2>1 DEF F
  <2> HIDE DEF G
  <2>3. PoolOK(chain, mempool, G)
    BY <1>0, <2>2, PoolOKFewer
  <2> QED BY <1>3, <2>3, PrimedPoolOK DEF G
<1>4. ASSUME NEW b \in Block, SetBestChainFails(b) PROVE DOMAIN undo \subseteq DOMAIN undo'
  <2>1. IsChain(Path[b]) /\ Disconnected(Path[b]).fClean /\ undo' = Connected(Path[b]).undo
    BY <1>4, PathIsChain DEF SetBestChainFails
  <2> QED BY <1>0, <2>1, ConnectedFacts
<1>5. ASSUME Restart PROVE PoolOK(chain, mempool, FromSingle(DOMAIN undo))'
  <2>1. mempool' = Pool!EmptyPool /\ chain' = chain /\ undo' = undo
    BY <1>5 DEF Restart
  <2>2. PoolOK(chain, Pool!EmptyPool, F)
    BY EmptyPoolGood DEF PoolOK
  <2> QED BY <2>1, <2>2, PrimedPoolOK DEF F
<1> QED BY <1>1, <1>2, <1>3, <1>4, <1>5 DEF Next, SetBestChainFails, vars

LEMMA PoolInvImplies ==
    PoolInv => PoolFollowsChain
<1> DEFINE F == FromSingle(DOMAIN undo)
<1> SUFFICES ASSUME PoolInv, NEW tx \in mempool.mapTx
             PROVE  /\ coins[tx].vout = {} \/ tx \notin F
                    /\ \A o \in Pool!Ins(tx) : \/ IsAvailable(coins, o)
                                               \/ o[1] \in mempool.mapTx
                                               \/ o[1] \in CoinBase /\ ~InChain(chain, o[1])
                                               \/ o[1] \notin F
  BY DEF PoolFollowsChain
<1>0. ChainOK(chain, undo, coins) /\ GoodPool(mempool) /\ PoolOK(chain, mempool, F)
  BY DEF PoolInv, TypeInv, ChainInv
<1>f. ParentClosed(F) /\ \A x \in F : x \notin Repeated(DOMAIN undo)
  BY FromSingleFacts
<1> HIDE DEF F
<1>1. GoodChain(chain, coins, F)
  BY <1>0, <1>f, GoodChainOf
<1>2. tx \in Tx /\ (tx \in F => ~InChain(chain, tx))
  BY <1>0 DEF GoodPool, IsPool, PoolOK
<1>3. coins[tx].vout = {} \/ tx \notin F
  BY <1>1, <1>2, GoodChainFacts
<1>4. ASSUME NEW o \in Pool!Ins(tx), o[1] \in F
      PROVE  \/ IsAvailable(coins, o) \/ o[1] \in mempool.mapTx
             \/ o[1] \in CoinBase /\ ~InChain(chain, o[1])
  <2>1. o = <<o[1], o[2]>> /\ o[1] \in Tx
    BY <1>2, InsDef
  <2>2. o[2] \in DOMAIN vout[o[1]] /\ (FromChain(chain, o) \/ o[1] \in mempool.mapTx)
    BY <1>0, <1>4 DEF PoolOK
  <2>3. Unspent(chain, o, End(chain)) => o[2] \in coins[o[1]].vout
    BY <1>1, <2>1, <2>2, GoodChainFacts
  <2> QED BY <2>2, <2>3 DEF FromChain, IsAvailable
<1> QED BY <1>3, <1>4

(* The pool follows the best chain through any number of accepted          *)
(* transactions, reorganisations, failed attempts, restarts and repeated   *)
(* coinbases, in all that does not come from a repeated one.               *)
THEOREM PoolStaysConsistent ==
    Spec => []PoolFollowsChain
<1>1. Init => PoolInv
  <2> SUFFICES ASSUME Init PROVE PoolOK(chain, mempool, FromSingle(DOMAIN undo))
    BY TypeInvInit DEF PoolInv
  <2>1. mempool.mapTx = {}
    BY EmptyPoolGood DEF Init
  <2> QED BY <2>1 DEF PoolOK
<1> QED BY <1>1, PoolInvStep, PoolInvImplies, PTL DEF Spec

-----------------------------------------------------------------------------
(***************************************************************************)
(* What a reorganisation from c to d keeps.  tx is a payment of a          *)
(* disconnected block, in the queue vr: d has not made it, has not spent   *)
(* its inputs, and none of them comes from a transaction of the queue or   *)
(* from a repeated coinbase.                                               *)
(***************************************************************************)
Payable(tx, c, d, vr, F) ==
    /\ tx \in F /\ tx \in Tx /\ tx \notin CoinBase /\ InChain(c, tx) /\ ~InChain(d, tx)
    /\ \A o \in Pool!Ins(tx) : /\ o[1] \in F /\ ~Elem(vr, o[1])
                               /\ InChain(c, o[1]) /\ SpentIn(c, o) /\ ~SpentIn(d, o)

(* A pool made of p0 and the first j transactions of the queue.            *)
OnlyFrom(p, p0, vr, j) == p.mapTx \subseteq p0.mapTx \cup {vr[i] : i \in 1..j}

LEMMA PayableOf ==
    ASSUME NEW F, NEW c, NEW cv, GoodChain(c, cv, F), NEW d, NEW dv, GoodChain(d, dv, F), NEW vr, NEW vd,
           Queues(vr, vd, c, d, F), NEW tx \in F, Elem(vr, tx), HaveInputs(dv, tx),
           \A o \in Pool!Ins(tx) : ~Elem(vr, o[1])
    PROVE  Payable(tx, c, d, vr, F)
<1>1. InChain(c, tx) /\ tx \notin CoinBase
  BY DEF Queues
<1>f. tx \in Tx /\ \A o \in Pool!Ins(tx) : o[1] \in F
  BY ParentClosedFacts DEF GoodChain
<1>2. ASSUME NEW o \in Pool!Ins(tx) PROVE InChain(c, o[1]) /\ SpentIn(c, o) /\ ~SpentIn(d, o)
  <2>1. InChain(c, o[1]) /\ o[2] \in DOMAIN vout[o[1]]
    BY <1>1, GoodChainFacts
  <2>2. SpentIn(c, o)
    BY <1>1 DEF InChain, SpentIn
  <2>3. o[1] \in Tx /\ o = <<o[1], o[2]>>
    BY <1>f, InsDef
  <2>4. PICK j \in 1..Len(vin[tx]) : o = vin[tx][j]
    BY <1>f, InsDef
  <2>5. o[2] \in dv[o[1]].vout
    BY <1>f, <2>4, TxFacts DEF HaveInputs, IsAvailable
  <2>6. Unspent(d, o, End(d))
    BY <2>1, <2>3, <2>5, GoodChainFacts
  <2>7. ~SpentIn(d, o)
    BY <1>f, <2>6, GoodChainFacts
  <2> QED BY <2>1, <2>2, <2>7
<1>3. ~InChain(d, tx)
  <2>1. Len(vin[tx]) \in Nat /\ Len(vin[tx]) # 0
    BY <1>1, <1>f, TxFacts
  <2>2. vin[tx][1] \in Pool!Ins(tx)
    BY <1>f, <2>1, InsDef
  <2> QED BY <1>2, <2>2 DEF InChain, SpentIn
<1> QED BY <1>1, <1>2, <1>3, <1>f DEF Payable

(* Neither the pool nor what the queue has put into it competes with tx,   *)
(* or is a parent of it.                                                   *)
LEMMA NothingInTheWay ==
    ASSUME NEW F, NEW c, NEW cv, GoodChain(c, cv, F), NEW d, NEW p0, PoolOK(c, p0, F), NEW vr, NEW vd,
           Queues(vr, vd, c, d, F), NEW tx, Payable(tx, c, d, vr, F),
           NEW p, NEW j \in 0..Len(vr), OnlyFrom(p, p0, vr, j)
    PROVE  /\ \A o \in Pool!Ins(tx) : o[1] \notin p.mapTx
           /\ (\A i \in 1..j : vr[i] # tx)
                => tx \notin p.mapTx /\ \A u \in p.mapTx : Pool!Ins(u) \cap Pool!Ins(tx) = {}
<1>0. Len(vr) \in Nat /\ \A i \in 1..j : i \in 1..Len(vr) /\ Elem(vr, vr[i]) /\ vr[i] \in Tx
  BY DEF Queues, Elem
<1>1. ASSUME NEW u \in p.mapTx PROVE u \in p0.mapTx \/ \E i \in 1..j : u = vr[i]
  BY DEF OnlyFrom
<1>2. ASSUME NEW o \in Pool!Ins(tx) PROVE o[1] \notin p.mapTx /\ o[1] \notin p0.mapTx
  <2>1. o[1] \in F /\ InChain(c, o[1]) /\ ~Elem(vr, o[1])
    BY DEF Payable
  <2> QED BY <1>0, <1>1, <2>1 DEF PoolOK
<1>3. ASSUME \A i \in 1..j : vr[i] # tx PROVE tx \notin p.mapTx
  <2>1. tx \in F /\ InChain(c, tx)
    BY DEF Payable
  <2> QED BY <1>1, <1>3, <2>1 DEF PoolOK
<1>4. ASSUME \A i \in 1..j : vr[i] # tx, NEW u \in p.mapTx, NEW o \in Pool!Ins(u), o \in Pool!Ins(tx)
      PROVE  FALSE
  <2>1. o[1] \in F /\ InChain(c, o[1]) /\ SpentIn(c, o) /\ tx \in F /\ InChain(c, tx)
    BY <1>4 DEF Payable
  <2>2. CASE u \in p0.mapTx
    <3>1. FromChain(c, o) \/ o[1] \in p0.mapTx
      BY <2>1, <2>2 DEF PoolOK
    <3>2. Unspent(c, o, End(c))
      BY <1>2, <1>4, <2>1, <3>1 DEF FromChain
    <3> QED BY <2>1, <3>2, GoodChainFacts
  <2>3. ASSUME NEW i \in 1..j, u = vr[i] PROVE FALSE
    <3>1. u \in Tx /\ InChain(c, u)
      BY <1>0, <2>3 DEF Queues
    <3>2. u = tx
      BY <1>4, <2>1, <3>1, GoodChainFacts
    <3> QED BY <1>4, <2>3, <3>2
  <2> QED BY <1>1, <2>2, <2>3
<1> QED BY <1>2, <1>3, <1>4

LEMMA AcceptedBack ==
    ASSUME NEW F, NEW d, NEW dv, GoodChain(d, dv, F), NEW tx \in Tx, tx \notin CoinBase, ~InChain(d, tx), NEW h,
           CheckInputs(dv, tx, h + 1), NEW p, GoodPool(p), tx \notin p.mapTx,
           \A u \in p.mapTx : Pool!Ins(u) \cap Pool!Ins(tx) = {}
    PROVE  MayAccept(dv, {}, p, tx, h)
<1>1. Pool!MayEnter(p, tx)
  <2>1. DOMAIN p.mapNextTx = UNION {Pool!Ins(u) : u \in p.mapTx}
    BY ExactDef DEF GoodPool
  <2>2. Pool!Ins(tx) \cap DOMAIN p.mapNextTx = {}
    BY <2>1
  <2> QED BY <2>2 DEF Pool!MayEnter
<1>2. ~ViewHas(dv, {}, p, tx)
  BY GoodChainFacts DEF ViewHas
<1>3. HaveInputs(dv, tx)
  BY DEF CheckInputs
<1>4. ASSUME NEW i \in DOMAIN vin[tx]
      PROVE  /\ vin[tx][i][1] \in Tx /\ vin[tx][i][2] \in dv[vin[tx][i][1]].vout
             /\ ViewCoins(dv, {}, p)[vin[tx][i][1]] = dv[vin[tx][i][1]]
  <2>1. vin[tx][i][1] \in Tx /\ vin[tx][i][2] \in dv[vin[tx][i][1]].vout
    BY <1>3, TxFacts DEF HaveInputs, IsAvailable
  <2>2. dv[vin[tx][i][1]].vout # {}
    BY <2>1
  <2> QED BY <2>1, <2>2 DEF ViewCoins
<1>5. \A o \in Pool!Ins(tx) : ViewHas(dv, {}, p, o[1])
  <2> SUFFICES ASSUME NEW i \in DOMAIN vin[tx] PROVE ViewHas(dv, {}, p, vin[tx][i][1])
    BY DEF Pool!Ins
  <2>1. dv[vin[tx][i][1]].vout # {}
    BY <1>4
  <2> QED BY <2>1 DEF ViewHas
<1> DEFINE vc == ViewCoins(dv, {}, p)
<1>6. \A i \in DOMAIN vin[tx] : vc[vin[tx][i][1]] = dv[vin[tx][i][1]]
  BY <1>4
<1> HIDE DEF vc
<1>7. HaveInputs(vc, tx)
  BY <1>4, <1>6 DEF HaveInputs, IsAvailable
<1>8. CheckInputs(vc, tx, h + 1)
  BY <1>6, <1>7 DEF CheckInputs
<1> QED BY <1>1, <1>2, <1>5, <1>8 DEF MayAccept, vc

(* One step of the first loop adds at most its own transaction; once tx is *)
(* in the pool it stays there.                                             *)
LEMMA KeepingStep ==
    ASSUME NEW F, NEW c, NEW cv, GoodChain(c, cv, F), NEW d, NEW dv, GoodChain(d, dv, F), NEW p0, PoolOK(c, p0, F),
           NEW vr, NEW vd, Queues(vr, vd, c, d, F), DistinctIn(vr, F), NEW tx, Payable(tx, c, d, vr, F), NEW h,
           CheckInputs(dv, tx, h + 1), NEW k \in 1..Len(vr), vr[k] = tx, NEW j \in 1..Len(vr),
           NEW p, GoodPool(p), OnlyFrom(p, p0, vr, j - 1), j - 1 >= k => tx \in p.mapTx
    PROVE  LET q == Resurrect(dv, {}, p, vr[j], h)
           IN  OnlyFrom(q, p0, vr, j) /\ (j >= k => tx \in q.mapTx)
<1> DEFINE x == vr[j]  q == Resurrect(dv, {}, p, x, h)
<1>0. Len(vr) \in Nat /\ x \in Tx /\ j - 1 \in 0..Len(vr) /\ j \in 1..j /\ dv \in View
  BY MatchesView DEF Queues, GoodChain
<1>1. \A i \in 1..(j - 1) : i \in 1..j
  BY <1>0
<1>2. tx \in F /\ tx \in Tx /\ tx \notin CoinBase /\ ~InChain(d, tx)
  BY DEF Payable
<1>3. \A o \in Pool!Ins(tx) : o[1] \notin p.mapTx
  BY <1>0, NothingInTheWay
<1>4. CASE MayAccept(dv, {}, p, x, h)
  <2>1. Pool!addUnchecked(p, x).mapTx = p.mapTx \cup {x}
    BY DEF Pool!addUnchecked
  <2>2. q.mapTx = p.mapTx \cup {x}
    BY <1>4, <2>1 DEF Resurrect
  <2> HIDE DEF q
  <2>3. OnlyFrom(q, p0, vr, j)
    BY <1>0, <1>1, <2>2 DEF OnlyFrom
  <2>4. j >= k => tx \in q.mapTx
    <3>1. j >= k => j = k \/ j - 1 >= k
      BY <1>0
    <3> QED BY <2>2, <3>1
  <2> QED BY <2>3, <2>4 DEF q
<1>5. CASE ~MayAccept(dv, {}, p, x, h)
  <2>1. q = Pool!remove(p, x, TRUE)
    BY <1>5 DEF Resurrect
  <2>2. RemovedFrom(p, q, x)
    BY <2>1, RemoveFacts
  <2>3. j # k
    <3> SUFFICES ASSUME j = k PROVE FALSE
      OBVIOUS
    <3>1. \A i \in 1..(j - 1) : vr[i] # tx
      <4> SUFFICES ASSUME NEW i \in 1..(j - 1), vr[i] = tx PROVE FALSE
        OBVIOUS
      <4>1. i \in 1..Len(vr) /\ i # k
        BY <1>0
      <4> QED BY <1>2, <4>1 DEF DistinctIn
    <3>a. /\ \A o \in Pool!Ins(tx) : o[1] \notin p.mapTx
          /\ (\A i \in 1..(j - 1) : vr[i] # tx)
               => tx \notin p.mapTx /\ \A u \in p.mapTx : Pool!Ins(u) \cap Pool!Ins(tx) = {}
      BY <1>0, NothingInTheWay
    <3>2. tx \notin p.mapTx /\ \A u \in p.mapTx : Pool!Ins(u) \cap Pool!Ins(tx) = {}
      BY <3>1, <3>a
    <3>3. MayAccept(dv, {}, p, tx, h)
      BY <1>2, <3>2, AcceptedBack
    <3> QED BY <1>5, <3>3
  <2> HIDE DEF q
  <2>4. OnlyFrom(q, p0, vr, j)
    BY <1>1, <2>2 DEF OnlyFrom, RemovedFrom
  <2>5. ASSUME j >= k PROVE tx \in q.mapTx
    <3>1. j - 1 >= k
      BY <1>0, <2>3, <2>5
    <3>2. tx \in p.mapTx /\ tx # x
      BY <1>2, <2>3, <3>1 DEF DistinctIn
    <3>3. \A o \in Pool!Ins(tx) : o[1] # x /\ o[1] \notin p.mapTx
      BY <1>0, <1>3 DEF Payable, Elem
    <3> HIDE DEF x
    <3> QED BY <2>2, <3>2, <3>3 DEF RemovedFrom
  <2> QED BY <2>4, <2>5 DEF q
<1> QED BY <1>4, <1>5

LEMMA ReorgKeeps ==
    ASSUME NEW F, GoodPool(mempool), PoolOK(chain, mempool, F), NEW cv, GoodChain(chain, cv, F),
           NEW new, NEW dv, GoodChain(new, dv, F), NEW tx \in F, Elem(vResurrect(new), tx),
           CheckInputs(dv, tx, Len(new) + 1), \A o \in Pool!Ins(tx) : ~Elem(vResurrect(new), o[1])
    PROVE  tx \in Purged(new, Resurrected(new, dv, {})).mapTx
<1> DEFINE vr == vResurrect(new)  vd == vDelete(new)  h == Len(new)  back == Resurrected(new, dv, {})
<1>0. dv \in View
  BY MatchesView DEF GoodChain
<1>1. Queues(vr, vd, chain, new, F)
  BY QueuesOf
<1>2. vr \in Seq(Tx) /\ vd \in Seq(Tx) /\ Len(vr) \in Nat /\ Len(vd) \in Nat
  BY <1>1 DEF Queues
<1>d. DistinctIn(vr, F)
  BY ResurrectElems DEF GoodChain
<1>3. PICK pool : ResurrectLoop(pool, vr, dv, {}, h) /\ back = pool[Len(vr)]
  BY <1>0, <1>2, ResurrectedDef
<1>p. Payable(tx, chain, new, vr, F)
  BY <1>1, PayableOf DEF CheckInputs
<1>k. PICK k \in 1..Len(vr) : vr[k] = tx
  BY DEF Elem
<1> HIDE DEF vr, vd, back
<1>4. /\ \A j \in 0..Len(vr) : GoodPool(pool[j])
      /\ pool[0] = mempool
      /\ \A j \in 1..Len(vr) : pool[j] = Resurrect(dv, {}, pool[j - 1], vr[j], h)
  BY <1>3 DEF ResurrectLoop
<1> DEFINE T == {j \in 0..Len(vr) : /\ OnlyFrom(pool[j], mempool, vr, j)
                                    /\ j >= k => tx \in pool[j].mapTx}
<1>5. 0 \in T
  BY <1>2, <1>4 DEF OnlyFrom
<1>6. ASSUME NEW j \in 1..Len(vr), j - 1 \in T PROVE j \in T
  <2>1. j \in 0..Len(vr) /\ j - 1 \in 0..Len(vr)
    BY <1>2
  <2>2. /\ GoodPool(pool[j - 1]) /\ OnlyFrom(pool[j - 1], mempool, vr, j - 1)
        /\ j - 1 >= k => tx \in pool[j - 1].mapTx
    BY <1>4, <1>6, <2>1
  <2>3. LET q == Resurrect(dv, {}, pool[j - 1], vr[j], h)
        IN  OnlyFrom(q, mempool, vr, j) /\ (j >= k => tx \in q.mapTx)
    BY <1>1, <1>d, <1>p, <1>k, <2>2, KeepingStep
  <2> QED BY <1>4, <2>1, <2>3
<1>7. Len(vr) \in T
  <2> HIDE DEF T
  <2> QED BY <1>2, <1>5, <1>6, Interval0
<1>8. GoodPool(back) /\ OnlyFrom(back, mempool, vr, Len(vr)) /\ tx \in back.mapTx
  BY <1>2, <1>3, <1>4, <1>7
<1>9. \A o \in Pool!Ins(tx) : o[1] \notin back.mapTx
  <2>1. Len(vr) \in 0..Len(vr)
    BY <1>2
  <2> QED BY <1>1, <1>p, <1>8, <2>1, NothingInTheWay
<1>10. PICK pp : PurgeLoop(pp, vd, back) /\ Purged(new, back) = pp[Len(vd)]
  BY <1>2, <1>8, PurgedDef DEF vd
<1>11. /\ \A j \in 0..Len(vd) : GoodPool(pp[j])
       /\ pp[0] = back
       /\ \A j \in 1..Len(vd) : pp[j] = DeleteMined(pp[j - 1], vd[j])
  BY <1>10 DEF PurgeLoop
<1> DEFINE U == {j \in 0..Len(vd) : pp[j].mapTx \subseteq back.mapTx /\ tx \in pp[j].mapTx}
<1>12. 0 \in U
  BY <1>2, <1>8, <1>11
<1>13. ASSUME NEW j \in 1..Len(vd), j - 1 \in U PROVE j \in U
  <2>1. j \in 0..Len(vd) /\ j - 1 \in 0..Len(vd)
    BY <1>2
  <2>2. GoodPool(pp[j - 1]) /\ pp[j - 1].mapTx \subseteq back.mapTx /\ tx \in pp[j - 1].mapTx
    BY <1>11, <1>13, <2>1
  <2>3. MinedFrom(pp[j - 1], pp[j], vd[j])
    BY <1>11, <2>2, DeleteFacts
  <2>4. InChain(new, vd[j]) /\ ~InChain(new, tx)
    BY <1>1, <1>p DEF Queues, Elem, Payable
  <2>5. Pool!Ins(tx) \cap Pool!Ins(vd[j]) = {}
    BY <1>p, <2>4 DEF Payable, InChain, SpentIn
  <2>6. \A o \in Pool!Ins(tx) : o[1] \notin pp[j - 1].mapTx
    BY <1>9, <2>2
  <2>7. tx \in pp[j].mapTx /\ pp[j].mapTx \subseteq pp[j - 1].mapTx
    BY <2>2, <2>3, <2>4, <2>5, <2>6 DEF MinedFrom
  <2> QED BY <2>1, <2>2, <2>7
<1>14. Len(vd) \in U
  <2> HIDE DEF U
  <2> QED BY <1>2, <1>12, <1>13, Interval0
<1> QED BY <1>10, <1>14 DEF back

(* The transactions of disconnected blocks are those of the queue.         *)
LEMMA GoneIsQueued ==
    ASSUME IsChain(chain), NEW new, IsChain(new),
           NEW gone, gone = (UNION {ToSet(vtx[b]) : b \in ToSet(chain) \ ToSet(new)}) \ CoinBase
    PROVE  \A x : x \in gone <=> Elem(vResurrect(new), x)
<1> DEFINE f == ForkHeight(new)  vr == vResurrect(new)
<1>0. chain \in Seq(Block) /\ new \in Seq(Block) /\ Len(chain) \in Nat /\ Len(new) \in Nat
  BY ChainPath
<1>1. /\ f \in Nat /\ Agree(chain, new, f)
      /\ \A n \in Nat : Agree(chain, new, n) => n <= f
  BY <1>0, ForkFacts
<1>2. \A x : Elem(vr, x) <=> \E p \in Places(chain) : p[1] > f /\ p[2] > 1 /\ TxAt(chain, p) = x
  BY ResurrectElems
<1> HIDE DEF f, vr
<1>g. \A x : x \in gone <=> /\ \E b \in ToSet(chain) \ ToSet(new) : x \in ToSet(vtx[b])
                           /\ x \notin CoinBase
  OBVIOUS
<1>3. /\ ToSet(chain) = {chain[i] : i \in 1..Len(chain)}
      /\ ToSet(new) = {new[i] : i \in 1..Len(new)}
  BY <1>0 DEF ToSet
<1>4. ASSUME NEW b \in Block PROVE ToSet(vtx[b]) = {vtx[b][i] : i \in 1..Len(vtx[b])}
  BY BlockFacts DEF ToSet
<1>5. ASSUME NEW x, x \in gone PROVE Elem(vr, x)
  <2>1. PICK b \in ToSet(chain) \ ToSet(new) : x \in ToSet(vtx[b]) /\ x \notin CoinBase
    BY <1>5, <1>g
  <2>2. PICK n \in 1..Len(chain) : b = chain[n]
    BY <1>3, <2>1
  <2>3. b \in Block
    BY <1>0, <2>2
  <2>4. PICK i \in 1..Len(vtx[b]) : x = vtx[b][i]
    BY <1>4, <2>1, <2>3
  <2>5. i # 1 /\ i \in Nat /\ n \in Nat /\ i > 1
    BY <2>1, <2>3, <2>4, BlockFacts
  <2>6. n > f
    <3> SUFFICES ASSUME n <= f PROVE FALSE
      BY <1>1, <2>5
    <3>1. n \in 1..f /\ n \in 1..Len(new)
      BY <1>1, <1>0 DEF Agree
    <3>2. chain[n] = new[n]
      BY <1>1, <3>1 DEF Agree
    <3> QED BY <1>3, <2>1, <2>2, <3>1, <3>2
  <2> DEFINE p == <<n, i>>
  <2>7. p \in Places(chain)
    BY <1>0, <2>2, <2>4, <2>5, PlacesDef
  <2>8. p[1] > f /\ p[2] > 1 /\ TxAt(chain, p) = x
    BY <2>2, <2>4, <2>5, <2>6 DEF TxAt
  <2> QED BY <1>2, <2>7, <2>8
<1>6. ASSUME NEW x, Elem(vr, x) PROVE x \in gone
  <2>1. PICK p \in Places(chain) : p[1] > f /\ p[2] > 1 /\ TxAt(chain, p) = x
    BY <1>2, <1>6
  <2> DEFINE n == p[1]  i == p[2]  b == chain[n]
  <2>2. n \in 1..Len(chain) /\ i \in 1..Len(vtx[b]) /\ n \in Nat
    BY <1>0, PlacesDef
  <2>3. b \in Block /\ b \in ToSet(chain)
    BY <1>0, <1>3, <2>2
  <2>4. x = vtx[b][i] /\ i # 1
    BY <2>1 DEF TxAt
  <2>5. x \in ToSet(vtx[b]) /\ x \notin CoinBase
    <3> HIDE DEF b
    <3>1. x \in ToSet(vtx[b])
      BY <1>4, <2>2, <2>3, <2>4
    <3>2. x \notin CoinBase
      BY <2>2, <2>3, <2>4, BlockFacts
    <3> QED BY <3>1, <3>2
  <2>6. b \notin ToSet(new)
    <3> SUFFICES ASSUME NEW m \in 1..Len(new), chain[n] = new[m] PROVE FALSE
      BY <1>3
    <3>1. Agree(chain, new, n)
      BY <2>2, ChainsAgree
    <3>2. n <= f
      BY <1>1, <2>2, <3>1
    <3> QED BY <1>1, <2>1, <2>2, <3>2
  <2> QED BY <1>g, <2>3, <2>5, <2>6
<1> QED BY <1>5, <1>6 DEF vr

Kept(old, new, view, pool, F) ==
    LET gone == (UNION {ToSet(vtx[b]) : b \in ToSet(old) \ ToSet(new)}) \ CoinBase
    IN  \A tx \in gone : /\ CheckInputs(view, tx, Len(new) + 1)
                         /\ \A o \in Pool!Ins(tx) : o[1] \notin gone
                         => tx \in pool.mapTx \/ tx \notin F

LEMMA KeptSame ==
    ASSUME NEW c, NEW view, NEW pool, NEW F PROVE Kept(c, c, view, pool, F)
BY DEF Kept

LEMMA KeptReorg ==
    ASSUME NEW F, GoodPool(mempool), PoolOK(chain, mempool, F), NEW cv, GoodChain(chain, cv, F),
           NEW new, NEW dv, GoodChain(new, dv, F)
    PROVE  Kept(chain, new, dv, Purged(new, Resurrected(new, dv, {})), F)
<1> DEFINE gone == (UNION {ToSet(vtx[b]) : b \in ToSet(chain) \ ToSet(new)}) \ CoinBase
           q == Purged(new, Resurrected(new, dv, {}))
<1>0. IsChain(chain) /\ IsChain(new)
  BY DEF GoodChain
<1>1. \A x : x \in gone <=> Elem(vResurrect(new), x)
  BY <1>0, GoneIsQueued
<1> HIDE DEF gone
<1>2. ASSUME NEW tx \in gone, CheckInputs(dv, tx, Len(new) + 1), \A o \in Pool!Ins(tx) : o[1] \notin gone, tx \in F
      PROVE  tx \in q.mapTx
  BY <1>1, <1>2, ReorgKeeps
<1> HIDE DEF q
<1>3. Kept(chain, new, dv, q, F)
  BY <1>2 DEF Kept, gone
<1> QED BY <1>3 DEF q

LEMMA KeptStep ==
    ASSUME PoolInv, [Next]_vars, cached' = {}
    PROVE  Kept(chain, chain', coins', mempool', FromSingle(DOMAIN undo'))
<1>0. GoodPool(mempool)
  BY DEF PoolInv, TypeInv
<1>1. ASSUME chain' = chain PROVE Kept(chain, chain', coins', mempool', FromSingle(DOMAIN undo'))
  BY <1>1, KeptSame
<1>2. ASSUME NEW b \in Block, NEW fFlush \in BOOLEAN, SetBestChain(b, fFlush)
      PROVE  Kept(chain, chain', coins', mempool', FromSingle(DOMAIN undo'))
  <2> DEFINE new == Path[b]  con == Connected(new)  F == FromSingle(DOMAIN con.undo)
             held == IF fFlush THEN {} ELSE TouchedPruned(new, con.view)
  <2>1. /\ Disconnected(new).fClean /\ con.ok /\ chain' = new /\ coins' = con.view /\ cached' = held
        /\ undo' = con.undo /\ mempool' = Purged(new, Resurrected(new, con.view, held))
    BY <1>2 DEF SetBestChain
  <2>2. IsChain(new)
    BY PathIsChain
  <2> HIDE DEF new, held
  <2>3. GoodChain(chain, coins, F) /\ GoodChain(new, con.view, F) /\ PoolOK(chain, mempool, F)
    BY <2>1, <2>2, BothGood
  <2> HIDE DEF con, F
  <2>4. mempool' = Purged(new, Resurrected(new, con.view, {}))
    BY <2>1
  <2>5. Kept(chain, new, con.view, Purged(new, Resurrected(new, con.view, {})), F)
    BY <1>0, <2>3, KeptReorg
  <2> QED BY <2>1, <2>4, <2>5 DEF F
<1> QED BY <1>1, <1>2 DEF Next, AcceptToMemoryPool, SetBestChainFails, Restart, vars

(* No reorganisation outside the initial download loses a payment that the *)
(* new chain could take, the children of a transaction of both branches    *)
(* and what comes from a repeated coinbase apart.                          *)
THEOREM PaymentsSurviveReorgs ==
    Spec => ReorgKeepsPayments
<1>1. Init => PoolInv
  <2> SUFFICES ASSUME Init PROVE PoolOK(chain, mempool, FromSingle(DOMAIN undo))
    BY TypeInvInit DEF PoolInv
  <2>1. mempool.mapTx = {}
    BY EmptyPoolGood DEF Init
  <2> QED BY <2>1 DEF PoolOK
<1>2. PoolInv /\ [Next]_vars =>
        [cached' = {} =>
           LET gone == (UNION {ToSet(vtx[b]) : b \in ToSet(chain) \ ToSet(chain')}) \ CoinBase
           IN  \A tx \in gone :
                  /\ CheckInputs(coins', tx, Len(chain') + 1)
                  /\ \A o \in Pool!Ins(tx) : o[1] \notin gone
                  => tx \in mempool'.mapTx \/ tx \notin FromSingle(DOMAIN undo')]_vars
  <2> SUFFICES ASSUME PoolInv, [Next]_vars, cached' = {}
               PROVE  LET gone == (UNION {ToSet(vtx[b]) : b \in ToSet(chain) \ ToSet(chain')}) \ CoinBase
                      IN  \A tx \in gone :
                             /\ CheckInputs(coins', tx, Len(chain') + 1)
                             /\ \A o \in Pool!Ins(tx) : o[1] \notin gone
                             => tx \in mempool'.mapTx \/ tx \notin FromSingle(DOMAIN undo')
    OBVIOUS
  <2>1. Kept(chain, chain', coins', mempool', FromSingle(DOMAIN undo'))
    BY KeptStep
  <2> QED BY <2>1 DEF Kept
<1> QED BY <1>1, <1>2, PoolInvStep, PTL DEF Spec, ReorgKeepsPayments
=============================================================================
