-------------------------- MODULE Retarget_proofs --------------------------
(***************************************************************************)
(* What holds of the difficulty rule for every length of the window, every *)
(* limit and every sequence of block times: the spans that retargets       *)
(* measure tile the past, a window has one target, what the compact        *)
(* encoding drops it drops once, and a window on schedule keeps its        *)
(* target.                                                                 *)
(***************************************************************************)
EXTENDS Retarget, SequenceTheorems, WellFoundedInduction, TLAPS

(***************************************************************************)
(* Arithmetic of the window.                                               *)
(***************************************************************************)

(* The window of the instance has at least one block.                      *)
LEMMA IntervalType == nInterval \in Nat \ {0}
BY RetargetAssumption, SMTT(30) DEF nInterval

LEMMA ModRange ==
    ASSUME NEW n \in Nat, NEW k \in Nat \ {0}
    PROVE  /\ n % k \in 0..(k - 1)
           /\ n \div k \in Nat
           /\ n = k * (n \div k) + (n % k)
OBVIOUS

LEMMA ModUnique ==
    ASSUME NEW k \in Nat \ {0}, NEW q \in Nat, NEW r \in 0..(k - 1)
    PROVE  (k * q + r) % k = r
BY SMTT(30)

(* Stepping by one either stays in the window or completes it.             *)
LEMMA ModStep ==
    ASSUME NEW n \in Nat \ {0}, NEW k \in Nat \ {0}
    PROVE  /\ n % k # 0 => n % k = ((n - 1) % k) + 1
           /\ n % k = 0 => (n - 1) % k = k - 1 /\ n >= k
<1>1. PICK q \in Nat, r \in 0..(k - 1) : n - 1 = k * q + r /\ (n - 1) % k = r
  <2>1. n - 1 \in Nat
    OBVIOUS
  <2>2. /\ (n - 1) % k \in 0..(k - 1) /\ (n - 1) \div k \in Nat
        /\ n - 1 = k * ((n - 1) \div k) + ((n - 1) % k)
    BY <2>1, ModRange
  <2> QED BY <2>2
<1>2. CASE r = k - 1
  <2>1. n = k * (q + 1) + 0
    BY <1>1, <1>2
  <2>2. n % k = 0
    BY <2>1, ModUnique
  <2>3. k * (q + 1) >= k
    BY SMT
  <2> QED BY <1>1, <1>2, <2>1, <2>2, <2>3
<1>3. CASE r # k - 1
  <2>1. n = k * q + (r + 1) /\ r + 1 \in 0..(k - 1)
    BY <1>1, <1>3
  <2>2. n % k = r + 1
    BY <2>1, ModUnique
  <2> QED BY <1>1, <2>2
<1> QED BY <1>2, <1>3

(* The first block of a window, and who shares it.                         *)
LEMMA WindowFacts ==
    ASSUME NEW i \in Nat \ {0}
    PROVE  /\ Window(i) \in 1..i /\ RetargetAt(Window(i) - 1)
           /\ i - Window(i) < nInterval
           /\ RetargetAt(i) => Window(i + 1) = i + 1 /\ i >= nInterval
                               /\ Window(i) = i - nInterval + 1
           /\ ~RetargetAt(i) => Window(i + 1) = Window(i)
           /\ \A j \in Window(i)..i : Window(j) = Window(i)
<1> DEFINE K == nInterval  q == (i - 1) \div K  r == (i - 1) % K
<1>0. K \in Nat \ {0} /\ i - 1 \in Nat
  BY IntervalType
<1> HIDE DEF K
<1>1. r \in 0..(K - 1) /\ q \in Nat /\ i - 1 = K * q + r
  BY <1>0, ModRange
<1> HIDE DEF q, r
<1>2. Window(i) = i - r
  BY DEF Window, r, K
<1>3. /\ i % K # 0 => i % K = r + 1
      /\ i % K = 0 => r = K - 1 /\ i >= K
  BY <1>0, ModStep DEF r
<1>3a. Window(i + 1) = i + 1 - (i % K)
  <2>1. (i + 1) - 1 = i
    OBVIOUS
  <2> QED BY <1>0, <2>1 DEF Window, K
<1>4. Window(i) \in 1..i /\ i - Window(i) < K
  <2>1. K * q >= 0
    BY <1>0, <1>1
  <2> QED BY <1>0, <1>1, <1>2, <2>1
<1>5. RetargetAt(Window(i) - 1)
  <2>1. Window(i) - 1 = K * q + 0
    <3>1. K * q \in Int
      BY <1>0, <1>1
    <3> QED BY <1>0, <1>1, <1>2, <3>1
  <2>2. (Window(i) - 1) % K = 0
    BY <1>0, <1>1, <2>1, ModUnique
  <2> QED BY <2>2 DEF RetargetAt, K
<1>6. RetargetAt(i) => Window(i + 1) = i + 1 /\ i >= K /\ Window(i) = i - K + 1
  BY <1>0, <1>1, <1>2, <1>3, <1>3a DEF RetargetAt, K
<1>7. ~RetargetAt(i) => Window(i + 1) = Window(i)
  BY <1>0, <1>1, <1>2, <1>3, <1>3a DEF RetargetAt, K
<1>8. ASSUME NEW j \in Window(i)..i PROVE Window(j) = Window(i)
  <2> DEFINE s == j - Window(i)
  <2>1. K * q \in Nat
    BY <1>0, <1>1
  <2>2. s \in 0..(K - 1) /\ j - 1 = K * q + s
    BY <1>0, <1>1, <1>2, <1>4, <2>1
  <2>3. (j - 1) % K = s
    BY <1>0, <1>1, <2>2, ModUnique
  <2> QED BY <1>4, <2>3 DEF Window, K
<1> QED BY <1>4, <1>5, <1>6, <1>7, <1>8 DEF K

-----------------------------------------------------------------------------
(***************************************************************************)
(* The first invariant.  Nothing is said about what a target looks like:   *)
(* these two properties do not depend on the compact encoding.             *)
(***************************************************************************)
Bits == {chain[i].nBits : i \in 1..Len(chain)}
Header == [nTime : Int, nBits : Bits]

(* The chain is a non-empty sequence of headers with integer times.        *)
HeadersInv ==
    /\ fTestNet \in BOOLEAN /\ elapsed \in Int
    /\ chain \in Seq(Header) /\ Len(chain) >= 1

RetargetInv == HeadersInv /\ SpansTile /\ OneTargetPerWindow

(* Appending a header, which is all that AcceptBlock does to the chain.    *)
LEMMA AcceptBlockStep ==
    ASSUME HeadersInv, Next
    PROVE  \E nTime \in Int :
              /\ chain' = Append(chain, [nTime |-> nTime, nBits |-> GetNextWorkRequired(nTime)])
              /\ elapsed' = IF RetargetAt(Len(chain)) THEN elapsed + ActualTimespan ELSE elapsed
              /\ fTestNet' = fTestNet
              /\ Len(chain) \in Nat \ {0} /\ Len(chain') = Len(chain) + 1
              /\ \A i \in 1..Len(chain) : chain'[i] = chain[i] /\ chain[i].nTime \in Int
              /\ chain'[Len(chain) + 1] = [nTime |-> nTime, nBits |-> GetNextWorkRequired(nTime)]
<1> DEFINE L == Len(chain)
<1>1. PICK d \in Delay : AcceptBlock(Last.nTime + d)
  BY DEF Next
<1>2. L \in Nat \ {0} /\ \A i \in 1..L : chain[i] \in Header
  BY ElementOfSeq DEF HeadersInv
<1>2a. \A i \in 1..L : chain[i].nTime \in Int
  BY <1>2 DEF Header
<1>3. Last.nTime \in Int
  BY <1>2, <1>2a DEF Last
<1>4. Last.nTime + d \in Int
  BY <1>3, RetargetAssumption
<1> DEFINE t == Last.nTime + d  h == [nTime |-> t, nBits |-> GetNextWorkRequired(t)]
<1>5. /\ chain' = Append(chain, h)
      /\ elapsed' = IF RetargetAt(L) THEN elapsed + ActualTimespan ELSE elapsed
      /\ fTestNet' = fTestNet
  BY <1>1 DEF AcceptBlock
<1> HIDE DEF h
<1>6. /\ Len(chain') = L + 1 /\ chain'[L + 1] = h
      /\ \A i \in 1..L : chain'[i] = chain[i]
  <2>1. chain \in Seq(Header \cup {h})
    BY SeqMonotonic, Header \subseteq Header \cup {h} DEF HeadersInv
  <2> QED BY <1>5, <2>1
<1> QED BY <1>2, <1>2a, <1>4, <1>5, <1>6 DEF h

(* The span that a retarget measures starts with the last block before the *)
(* window, or with the genesis block.                                      *)
LEMMA SpanStart ==
    ASSUME NEW n \in Nat \ {0}, RetargetAt(n)
    PROVE  /\ n - BlocksToGoBack(n) \in 1..n
           /\ n - BlocksToGoBack(n) = IF Window(n) = 1 THEN 1 ELSE Window(n) - 1
BY WindowFacts, IntervalType DEF BlocksToGoBack

LEMMA ElapsedType ==
    ASSUME HeadersInv, RetargetAt(Len(chain))
    PROVE  /\ Len(chain) \in Nat \ {0}
           /\ ActualTimespan \in Int
           /\ ActualTimespan = chain[Len(chain)].nTime
                 - chain[IF Window(Len(chain)) = 1 THEN 1 ELSE Window(Len(chain)) - 1].nTime
<1>1. Len(chain) \in Nat \ {0} /\ \A i \in 1..Len(chain) : chain[i] \in Header
  BY ElementOfSeq DEF HeadersInv
<1>2. \A i \in 1..Len(chain) : chain[i].nTime \in Int
  BY <1>1 DEF Header
<1>3. LET back == Len(chain) - BlocksToGoBack(Len(chain))
      IN  /\ back \in 1..Len(chain)
          /\ back = IF Window(Len(chain)) = 1 THEN 1 ELSE Window(Len(chain)) - 1
  BY <1>1, SpanStart
<1> QED BY <1>1, <1>2, <1>3 DEF ActualTimespan, Last

LEMMA HeadersInductive ==
    ASSUME HeadersInv, Next
    PROVE  HeadersInv'
<1>1. PICK nTime \in Int :
        /\ chain' = Append(chain, [nTime |-> nTime, nBits |-> GetNextWorkRequired(nTime)])
        /\ elapsed' = IF RetargetAt(Len(chain)) THEN elapsed + ActualTimespan ELSE elapsed
        /\ fTestNet' = fTestNet
        /\ Len(chain) \in Nat \ {0} /\ Len(chain') = Len(chain) + 1
        /\ \A i \in 1..Len(chain) : chain'[i] = chain[i] /\ chain[i].nTime \in Int
        /\ chain'[Len(chain) + 1] = [nTime |-> nTime, nBits |-> GetNextWorkRequired(nTime)]
  BY AcceptBlockStep
<1> DEFINE h == [nTime |-> nTime, nBits |-> GetNextWorkRequired(nTime)]
<1>2. elapsed' \in Int /\ fTestNet' \in BOOLEAN
  BY <1>1, ElapsedType DEF HeadersInv
<1>3. Header \subseteq Header'
  <2>1. Bits \subseteq Bits'
    BY <1>1 DEF Bits
  <2> QED BY <2>1 DEF Header
<1>4. h \in Header'
  <2>1. h.nBits \in Bits'
    BY <1>1 DEF Bits
  <2> QED BY <2>1 DEF Header
<1>5. chain' \in Seq(Header')
  <2>1. chain \in Seq(Header')
    BY <1>3, SeqMonotonic DEF HeadersInv
  <2> HIDE DEF h
  <2> QED BY <1>1, <1>4, <2>1 DEF h
<1> QED BY <1>1, <1>2, <1>5 DEF HeadersInv

LEMMA SpansInductive ==
    ASSUME HeadersInv, SpansTile, Next
    PROVE  SpansTile'
<1> DEFINE L == Len(chain)
<1>1. PICK nTime \in Int :
        /\ elapsed' = IF RetargetAt(L) THEN elapsed + ActualTimespan ELSE elapsed
        /\ L \in Nat \ {0} /\ Len(chain') = L + 1
        /\ \A i \in 1..L : chain'[i] = chain[i] /\ chain[i].nTime \in Int
  BY AcceptBlockStep
<1> HIDE DEF L
<1>2. Window(L) \in 1..L
  BY <1>1, WindowFacts
<1>3. elapsed = IF Window(L) = 1 THEN 0 ELSE chain[Window(L) - 1].nTime - chain[1].nTime
  BY DEF SpansTile, L
<1>4. CASE ~RetargetAt(L)
  <2>1. Window(L + 1) = Window(L)
    BY <1>1, <1>4, WindowFacts
  <2>2. elapsed' = IF Window(L + 1) = 1 THEN 0 ELSE chain'[Window(L + 1) - 1].nTime - chain'[1].nTime
    BY <1>1, <1>2, <1>3, <1>4, <2>1
  <2> QED BY <1>1, <2>2 DEF SpansTile, Window
<1>5. CASE RetargetAt(L)
  <2>1. Window(L + 1) = L + 1
    BY <1>1, <1>5, WindowFacts
  <2>2. /\ ActualTimespan = chain[L].nTime - chain[IF Window(L) = 1 THEN 1 ELSE Window(L) - 1].nTime
    BY <1>5, ElapsedType DEF L
  <2>3. elapsed' = chain[L].nTime - chain[1].nTime
    <3> DEFINE w == IF Window(L) = 1 THEN 1 ELSE Window(L) - 1
    <3>1. w \in 1..L /\ L \in 1..L /\ 1 \in 1..L
      BY <1>1, <1>2
    <3>2. chain[w].nTime \in Int /\ chain[L].nTime \in Int /\ chain[1].nTime \in Int
      BY <1>1, <3>1
    <3>3. elapsed = chain[w].nTime - chain[1].nTime
      BY <1>2, <1>3, <3>2
    <3>4. elapsed' = elapsed + (chain[L].nTime - chain[w].nTime)
      BY <1>1, <1>5, <2>2
    <3> QED BY <3>2, <3>3, <3>4
  <2>4. elapsed' = IF Window(L + 1) = 1 THEN 0 ELSE chain'[Window(L + 1) - 1].nTime - chain'[1].nTime
    BY <1>1, <2>1, <2>3
  <2> QED BY <1>1, <2>4 DEF SpansTile, Window
<1> QED BY <1>4, <1>5

(* The greatest element of a non-empty set of naturals with a bound.       *)
LEMMA GreatestElement ==
    ASSUME NEW N \in Nat, NEW S \in SUBSET (1..N), S # {}
    PROVE  \E m \in S : \A k \in S : k <= m
<1> DEFINE R == {p \in Nat \X Nat : p[1] < p[2]}
           T == {k \in 0..N : N - k \in S}
<1>1. IsWellFoundedOn(R, Nat)
  BY NatLessThanWellFounded DEF OpToRel
<1>2. T \in SUBSET Nat /\ \A k \in S : N - k \in T
  OBVIOUS
<1>3. PICK y \in T : \A x \in T : ~(<<x, y>> \in R)
  <2>1. T # {}
    BY <1>2
  <2> HIDE DEF R, T
  <2> QED BY <1>1, <1>2, <2>1, WFMin
<1>4. \A x \in T : y <= x
  <2>1. y \in Nat /\ \A x \in T : x \in Nat /\ ~(x < y)
    <3> HIDE DEF T
    <3> QED BY <1>2, <1>3
  <2> QED BY <2>1
<1>5. N - y \in S /\ \A k \in S : y <= N - k
  <2>1. N - y \in S
    BY <1>3
  <2>2. \A k \in S : y <= N - k
    BY <1>2, <1>4
  <2> QED BY <2>1, <2>2
<1> QED BY <1>5

(* The walk of the test network's rule ends in the window of the last      *)
(* block.                                                                  *)
LEMMA WalkStaysInWindow ==
    ASSUME Len(chain) \in Nat \ {0}
    PROVE  \E g \in Window(Len(chain))..Len(chain) : LastRealBits = chain[g].nBits
<1> DEFINE L == Len(chain)
           back == {i \in 1..L : i = 1 \/ RetargetAt(i - 1) \/ chain[i].nBits # nProofOfWorkLimit}
<1>1. Window(L) \in back
  BY WindowFacts
<1>2. \E m \in back : \A k \in back : k <= m
  BY <1>1, GreatestElement
<1> DEFINE g == CHOOSE i \in back : \A j \in back : j <= i
<1>3. g \in back /\ \A j \in back : j <= g
  BY <1>2
<1>4. g \in Window(L)..L
  <2>1. Window(L) \in 1..L /\ Window(L) <= g /\ g \in 1..L
    BY <1>1, <1>3
  <2> QED BY <2>1
<1>5. LastRealBits = chain[g].nBits
  BY DEF LastRealBits
<1> QED BY <1>4, <1>5

LEMMA TargetInductive ==
    ASSUME HeadersInv, OneTargetPerWindow, Next
    PROVE  OneTargetPerWindow'
<1> DEFINE L == Len(chain)
<1>1. PICK nTime \in Int :
        /\ fTestNet' = fTestNet
        /\ L \in Nat \ {0} /\ Len(chain') = L + 1
        /\ \A i \in 1..L : chain'[i] = chain[i]
        /\ chain'[L + 1] = [nTime |-> nTime, nBits |-> GetNextWorkRequired(nTime)]
  BY AcceptBlockStep
<1>2. \A i \in 1..L : Window(i) \in 1..i
  BY <1>1, WindowFacts
<1>3. ASSUME NEW i \in 1..L
      PROVE  \/ chain'[i].nBits = chain'[Window(i)].nBits
             \/ fTestNet' /\ chain'[i].nBits = nProofOfWorkLimit
  BY <1>1, <1>2 DEF OneTargetPerWindow
<1>4. \/ chain'[L + 1].nBits = chain'[Window(L + 1)].nBits
      \/ fTestNet' /\ chain'[L + 1].nBits = nProofOfWorkLimit
  <2>1. CASE RetargetAt(L)
    BY <1>1, <2>1, WindowFacts
  <2>2. CASE ~RetargetAt(L)
    <3>1. Window(L + 1) = Window(L) /\ Window(L) \in 1..L
      BY <1>1, <2>2, WindowFacts
    <3>2. chain'[Window(L + 1)].nBits = chain[Window(L)].nBits
      BY <1>1, <3>1
    <3>3. chain'[L + 1].nBits = GetNextWorkRequired(nTime)
      BY <1>1
    <3>4. CASE ~fTestNet
      <4>1. chain'[L + 1].nBits = chain[L].nBits
        BY <2>2, <3>3, <3>4 DEF GetNextWorkRequired, Last
      <4>2. chain[L].nBits = chain[Window(L)].nBits
        BY <1>1, <3>4 DEF OneTargetPerWindow
      <4> QED BY <3>2, <4>1, <4>2
    <3>5. CASE fTestNet /\ GetNextWorkRequired(nTime) # nProofOfWorkLimit
      <4>1. chain'[L + 1].nBits = LastRealBits
        BY <2>2, <3>3, <3>5 DEF GetNextWorkRequired
      <4>2. PICK g \in Window(L)..L : LastRealBits = chain[g].nBits
        BY <1>1, WalkStaysInWindow
      <4>3. Window(g) = Window(L) /\ g \in 1..L
        BY <1>1, <3>1, WindowFacts
      <4>4. chain[g].nBits = chain[Window(g)].nBits
        BY <3>3, <3>5, <4>1, <4>2, <4>3 DEF OneTargetPerWindow
      <4> QED BY <3>2, <4>1, <4>2, <4>3, <4>4
    <3> QED BY <1>1, <3>3, <3>4, <3>5
  <2> QED BY <2>1, <2>2
<1>5. \A i \in 1..Len(chain') : i \in 1..L \/ i = L + 1
  BY <1>1
<1> QED BY <1>3, <1>4, <1>5 DEF OneTargetPerWindow, Window, nProofOfWorkLimit, GetCompact, Size

-----------------------------------------------------------------------------
LEMMA RetargetInvariant == Spec => []RetargetInv
<1>1. Init => RetargetInv
  <2> SUFFICES ASSUME Init PROVE RetargetInv
    OBVIOUS
  <2> DEFINE h == [nTime |-> 0, nBits |-> GetCompact(GenesisTarget)]
  <2>1. chain = <<h>> /\ elapsed = 0 /\ fTestNet \in BOOLEAN /\ h.nTime = 0
    BY DEF Init
  <2>2. Len(chain) = 1 /\ chain[1] = h
    BY <2>1
  <2>3. h \in Header
    BY <2>2 DEF Header, Bits
  <2>4. chain \in Seq(Header)
    <3> HIDE DEF h
    <3> QED BY <2>1, <2>3
  <2>5. Window(1) = 1
    BY WindowFacts
  <2>6. \A i \in 1..1 : i = 1
    OBVIOUS
  <2>7. SpansTile
    BY <2>1, <2>2, <2>5 DEF SpansTile
  <2>8. OneTargetPerWindow
    BY <2>2, <2>5, <2>6 DEF OneTargetPerWindow
  <2> QED BY <2>1, <2>2, <2>4, <2>7, <2>8 DEF RetargetInv, HeadersInv
<1>2. RetargetInv /\ [Next]_vars => RetargetInv'
  <2>1. ASSUME RetargetInv, Next PROVE RetargetInv'
    BY <2>1, HeadersInductive, SpansInductive, TargetInductive DEF RetargetInv
  <2>2. ASSUME RetargetInv, UNCHANGED vars PROVE RetargetInv'
    <3>1. chain' = chain /\ elapsed' = elapsed /\ fTestNet' = fTestNet
      BY <2>2 DEF vars
    <3> QED BY <2>2, <3>1 DEF RetargetInv, HeadersInv, Header, Bits, SpansTile,
                              OneTargetPerWindow, Window
  <2> QED BY <2>1, <2>2
<1> QED BY <1>1, <1>2, PTL DEF Spec

(* The retargets of GetNextWorkRequired leave out no time and count none   *)
(* twice, for any window and any times the blocks claim: the rule that the *)
(* first window is one block short and every other goes back one block     *)
(* further, to the last block of the window before.                        *)
THEOREM SpansAlwaysTile == Spec => []SpansTile
BY RetargetInvariant, PTL DEF RetargetInv

(* The blocks of a window all have its target or, on the test network, the *)
(* limit, however the late blocks are placed and whatever the encoding of  *)
(* a target: GetNextWorkRequired's walk back never leaves the window.      *)
THEOREM WindowKeepsTarget == Spec => []OneTargetPerWindow
BY RetargetInvariant, PTL DEF RetargetInv

-----------------------------------------------------------------------------
(***************************************************************************)
(* The compact encoding.  Pow is the power of the base; it exists because  *)
(* each of its beginnings does, and these agree.                           *)
(***************************************************************************)
LEMMA LeastNat ==
    ASSUME NEW S \in SUBSET Nat, S # {}
    PROVE  \E m \in S : \A k \in S : m <= k
<1> DEFINE R == {p \in Nat \X Nat : p[1] < p[2]}
<1>1. IsWellFoundedOn(R, Nat)
  BY NatLessThanWellFounded DEF OpToRel
<1> HIDE DEF R
<1>2. PICK x \in S : \A y \in S : ~(<<y, x>> \in R)
  BY <1>1, WFMin
<1>3. \A y \in S : ~(y < x)
  BY <1>2 DEF R
<1> QED BY <1>3

LEMMA NatSteps ==
    ASSUME NEW T, 0 \in T, \A n \in Nat \ {0} : n - 1 \in T => n \in T
    PROVE  \A n \in Nat : n \in T
<1> DEFINE S == {n \in Nat : n \notin T}
<1> SUFFICES ASSUME S # {} PROVE FALSE
  OBVIOUS
<1>1. PICK m \in S : \A k \in S : m <= k
  <2>1. S \in SUBSET Nat
    OBVIOUS
  <2> HIDE DEF S
  <2> QED BY <2>1, LeastNat
<1>2. m \in Nat \ {0} /\ m \notin T /\ m - 1 \in Nat /\ m - 1 < m
  OBVIOUS
<1>3. m - 1 \in T
  <2>1. m - 1 \notin S
    <3> HIDE DEF S
    <3> QED BY <1>1, <1>2
  <2> QED BY <1>2, <2>1
<1> QED BY <1>2, <1>3

Powers(f, n) == f \in [0..n -> Nat] /\ f[0] = 1 /\ \A i \in 1..n : f[i] = Byte * f[i - 1]

LEMMA PowersExist ==
    ASSUME NEW n \in Nat PROVE \E f : Powers(f, n)
<1> DEFINE T == {k \in Nat : \E f : Powers(f, k)}
<1>1. 0 \in T
  <2>1. Powers([i \in 0..0 |-> 1], 0)
    BY DEF Powers
  <2> QED BY <2>1
<1>2. ASSUME NEW k \in Nat \ {0}, k - 1 \in T PROVE k \in T
  <2>1. PICK g : Powers(g, k - 1)
    BY <1>2
  <2> DEFINE f == [i \in 0..k |-> IF i = k THEN Byte * g[k - 1] ELSE g[i]]
  <2>2. Byte \in Nat /\ \A i \in 0..(k - 1) : g[i] \in Nat
    BY <2>1, RetargetAssumption DEF Powers
  <2>3. Byte * g[k - 1] \in Nat
    BY <2>2
  <2>4. f \in [0..k -> Nat]
    <3>1. ASSUME NEW i \in 0..k PROVE f[i] \in Nat
      BY <2>2, <2>3
    <3> QED BY <3>1
  <2>5. f[0] = 1
    BY <2>1 DEF Powers
  <2>6. ASSUME NEW i \in 1..k PROVE f[i] = Byte * f[i - 1]
    <3>1. f[i - 1] = g[i - 1]
      OBVIOUS
    <3>2. CASE i = k
      BY <3>1, <3>2
    <3>3. CASE i # k
      <4>1. i \in 1..(k - 1)
        BY <3>3
      <4>2. g[i] = Byte * g[i - 1]
        BY <2>1, <4>1 DEF Powers
      <4> QED BY <3>1, <3>3, <4>2
    <3> QED BY <3>2, <3>3
  <2>7. Powers(f, k)
    <3> HIDE DEF f
    <3> QED BY <2>4, <2>5, <2>6 DEF Powers
  <2> QED BY <2>7
<1>3. n \in T
  <2> HIDE DEF T
  <2> QED BY <1>1, <1>2, NatSteps
<1> QED BY <1>3

LEMMA PowersAgree ==
    ASSUME NEW n \in Nat, NEW m \in Nat, n <= m, NEW f, Powers(f, n), NEW g, Powers(g, m)
    PROVE  f[n] = g[n]
<1> DEFINE T == {i \in Nat : i <= n => f[i] = g[i]}
<1>1. 0 \in T
  BY DEF Powers
<1>2. ASSUME NEW i \in Nat \ {0}, i - 1 \in T PROVE i \in T
  <2>1. ASSUME i <= n PROVE f[i] = g[i]
    <3>1. i \in 1..n /\ i \in 1..m /\ f[i - 1] = g[i - 1]
      BY <1>2, <2>1
    <3> QED BY <3>1 DEF Powers
  <2> QED BY <2>1
<1>3. n \in T
  <2> HIDE DEF T
  <2> QED BY <1>1, <1>2, NatSteps
<1> QED BY <1>3

LEMMA PowDef ==
    /\ Pow[0] = 1
    /\ \A n \in Nat : Pow[n] \in Nat /\ Pow[n] >= 1
    /\ \A n \in Nat : Pow[n + 1] = Byte * Pow[n]
<1> DEFINE Run(n) == CHOOSE f : Powers(f, n)
           F == [n \in Nat |-> Run(n)[n]]
           Def(f) == [n \in Nat |-> IF n = 0 THEN 1 ELSE Byte * f[n - 1]]
<1>0. Byte \in Nat /\ Byte >= 2
  BY RetargetAssumption
<1>1. ASSUME NEW n \in Nat PROVE Powers(Run(n), n)
  BY PowersExist
<1> HIDE DEF Run
<1>2. F[0] = 1
  BY <1>1 DEF Powers
<1>3. ASSUME NEW n \in Nat \ {0} PROVE F[n] = Byte * F[n - 1]
  <2>1. n - 1 \in Nat /\ n - 1 <= n /\ n \in 1..n
    OBVIOUS
  <2>2. Run(n)[n] = Byte * Run(n)[n - 1]
    BY <1>1, <2>1 DEF Powers
  <2>3. Run(n - 1)[n - 1] = Run(n)[n - 1]
    BY <1>1, <2>1, PowersAgree
  <2> QED BY <2>1, <2>2, <2>3
<1>4. F = Def(F)
  <2>1. ASSUME NEW n \in Nat PROVE F[n] = Def(F)[n]
    <3> HIDE DEF F
    <3>1. CASE n = 0
      BY <1>2, <3>1
    <3>2. CASE n # 0
      BY <1>3, <3>2
    <3> QED BY <3>1, <3>2
  <2>2. F = [n \in Nat |-> F[n]] /\ Def(F) = [n \in Nat |-> Def(F)[n]]
    OBVIOUS
  <2> QED BY <2>1, <2>2
<1> HIDE DEF F
<1>5. Pow = CHOOSE f : f = Def(f)
  BY DEF Pow
<1>6. Pow = Def(Pow)
  BY <1>4, <1>5
<1>7. \A n \in Nat : Pow[n] = IF n = 0 THEN 1 ELSE Byte * Pow[n - 1]
  BY <1>6
<1>8. Pow[0] = 1
  BY <1>7
<1>9. ASSUME NEW n \in Nat PROVE Pow[n + 1] = Byte * Pow[n]
  BY <1>7
<1> DEFINE T == {n \in Nat : Pow[n] \in Nat /\ Pow[n] >= 1}
<1>10. 0 \in T
  BY <1>8
<1>11. ASSUME NEW n \in Nat \ {0}, n - 1 \in T PROVE n \in T
  <2> DEFINE p == Pow[n - 1]
  <2>1. p \in Nat /\ p >= 1 /\ Pow[n] = Byte * p
    BY <1>7, <1>11
  <2> HIDE DEF p
  <2>2. Byte * p \in Nat /\ Byte * p >= 1
    BY <1>0, <2>1
  <2> QED BY <2>1, <2>2
<1>12. \A n \in Nat : n \in T
  <2> HIDE DEF T
  <2> QED BY <1>10, <1>11, NatSteps
<1> QED BY <1>8, <1>9, <1>12

LEMMA PowGrows ==
    /\ \A n \in Nat : Pow[n] > n
    /\ \A n \in Nat : \A k \in 0..n : Pow[k] <= Pow[n]
<1>0. Byte \in Nat /\ Byte >= 2 /\ Pow[0] = 1
  BY RetargetAssumption, PowDef
<1>1. ASSUME NEW n \in Nat \ {0}
      PROVE  /\ n - 1 \in Nat /\ Pow[n] \in Nat /\ Pow[n - 1] \in Nat
             /\ Pow[n] >= Pow[n - 1] + 1
  <2> DEFINE p == Pow[n - 1]
  <2>1. n - 1 \in Nat /\ (n - 1) + 1 = n
    OBVIOUS
  <2>2. p \in Nat /\ p >= 1 /\ Pow[n] = Byte * p
    BY <2>1, PowDef
  <2> HIDE DEF p
  <2>3. Byte * p \in Nat /\ Byte * p >= p + 1
    BY <1>0, <2>2
  <2> QED BY <2>1, <2>2, <2>3 DEF p
<1> DEFINE T == {n \in Nat : Pow[n] > n}
           U == {n \in Nat : \A k \in 0..n : Pow[k] <= Pow[n]}
<1>2. \A n \in Nat : n \in T
  <2>1. 0 \in T
    BY <1>0
  <2>2. ASSUME NEW n \in Nat \ {0}, n - 1 \in T PROVE n \in T
    BY <1>1, <2>2
  <2> HIDE DEF T
  <2> QED BY <2>1, <2>2, NatSteps
<1>3. \A n \in Nat : n \in U
  <2>1. 0 \in U
    BY <1>0
  <2>2. ASSUME NEW n \in Nat \ {0}, n - 1 \in U PROVE n \in U
    <3>1. ASSUME NEW k \in 0..n PROVE Pow[k] <= Pow[n]
      <4>1. k = n \/ k \in 0..(n - 1)
        OBVIOUS
      <4>2. Pow[k] \in Nat
        BY PowDef
      <4> QED BY <1>1, <2>2, <4>1, <4>2
    <3> QED BY <3>1
  <2> HIDE DEF U
  <2> QED BY <2>1, <2>2, NatSteps
<1> QED BY <1>2, <1>3

(* The number of digits.                                                   *)
HasSize(bn, n) == n \in Nat /\ bn < Pow[n] /\ (n = 0 \/ bn >= Pow[n - 1])

LEMMA SizeFacts ==
    ASSUME NEW bn \in Nat
    PROVE  HasSize(bn, Size(bn)) /\ \A n : HasSize(bn, n) => Size(bn) = n
<1> DEFINE S == {n \in Nat : bn < Pow[n]}
           Is(n) == bn < Pow[n] /\ \A k \in 0..(n - 1) : bn >= Pow[k]
<1>1. bn \in S
  BY PowGrows
<1>2. PICK m \in S : \A k \in S : m <= k
  <2>1. S \in SUBSET Nat
    OBVIOUS
  <2> HIDE DEF S
  <2> QED BY <1>1, <2>1, LeastNat
<1>3. m \in 0..bn
  BY <1>1, <1>2
<1>4. Is(m)
  <2>1. ASSUME NEW k \in 0..(m - 1) PROVE bn >= Pow[k]
    <3>1. k \in Nat /\ ~(m <= k) /\ Pow[k] \in Nat
      BY PowDef
    <3>2. k \notin S
      <4> HIDE DEF S
      <4> QED BY <1>2, <3>1
    <3> QED BY <3>1, <3>2
  <2> QED BY <2>1
<1>5. Size(bn) \in 0..bn /\ Is(Size(bn))
  BY <1>3, <1>4 DEF Size
<1> DEFINE s == Size(bn)
<1> HIDE DEF s, S
<1>6. s \in Nat /\ bn < Pow[s] /\ \A k \in 0..(s - 1) : bn >= Pow[k]
  BY <1>5 DEF s
<1>7. HasSize(bn, s)
  <2>1. s # 0 => s - 1 \in 0..(s - 1)
    BY <1>6
  <2> QED BY <1>6, <2>1 DEF HasSize
<1>8. ASSUME NEW n, HasSize(bn, n) PROVE s = n
  <2>1. n \in Nat /\ bn < Pow[n] /\ (n = 0 \/ bn >= Pow[n - 1])
    BY <1>8 DEF HasSize
  <2>2. Pow[n] \in Nat /\ Pow[s] \in Nat
    BY <1>6, <2>1, PowDef
  <2>3. ~(n < s)
    <3> SUFFICES ASSUME n < s PROVE FALSE
      OBVIOUS
    <3>1. n \in 0..(s - 1)
      BY <1>6, <2>1
    <3> QED BY <1>6, <2>1, <2>2, <3>1
  <2>4. ~(s < n)
    <3> SUFFICES ASSUME s < n PROVE FALSE
      OBVIOUS
    <3>1. s \in 0..(n - 1) /\ n - 1 \in Nat /\ n # 0
      BY <1>6, <2>1
    <3>2. Pow[s] <= Pow[n - 1] /\ Pow[n - 1] \in Nat
      BY <3>1, PowGrows, PowDef
    <3> QED BY <1>6, <2>1, <2>2, <3>1, <3>2
  <2> QED BY <1>6, <2>1, <2>3, <2>4
<1> QED BY <1>7, <1>8 DEF s

(* Division.                                                               *)
LEMMA DivMul ==
    ASSUME NEW q \in Nat, NEW d \in Nat \ {0}
    PROVE  (q * d) \div d = q /\ (d * q) \div d = q /\ q * d \in Nat
<1>1. (q * d) \div d = q
  BY SMTT(30)
<1>2. q * d = d * q /\ q * d \in Nat
  OBVIOUS
<1> QED BY <1>1, <1>2

LEMMA DivGE ==
    ASSUME NEW a \in Nat, NEW d \in Nat \ {0}, NEW m \in Nat, a >= m * d
    PROVE  a \div d \in Nat /\ a \div d >= m /\ (a \div d) * d <= a /\ (a \div d) * d \in Nat
<1> DEFINE q == a \div d  r == a % d
<1>1. q \in Nat /\ r \in 0..(d - 1) /\ a = d * q + r
  BY ModRange
<1> HIDE DEF q, r
<1>2. q * d \in Nat /\ q * d <= a
  BY <1>1
<1>3. q >= m
  <2> SUFFICES ASSUME q + 1 <= m PROVE FALSE
    BY <1>1
  <2>1. (q + 1) * d <= m * d
    BY <1>1
  <2>2. (q + 1) * d = d * q + d
    BY <1>1
  <2> QED BY <1>1, <2>1, <2>2
<1> QED BY <1>1, <1>2, <1>3 DEF q

(* A number of fewer than three digits is kept as it is.                   *)
LEMMA SmallExact ==
    ASSUME NEW bn \in Nat, Size(bn) < 3
    PROVE  SetCompact(GetCompact(bn)) = bn
<1> DEFINE s == Size(bn)  d == Pow[2 - s]  w == bn * Pow[3 - s]
<1>0. Byte \in Nat \ {0}
  BY RetargetAssumption
<1>1. s \in Nat /\ s < 3
  BY SizeFacts DEF HasSize
<1>2. GetCompact(bn) = IF 2 * w >= Pow[3] THEN Compact(s + 1, w \div Byte) ELSE Compact(s, w)
  BY <1>1 DEF GetCompact
<1> HIDE DEF s
<1>3. 2 - s \in Nat /\ (2 - s) + 1 = 3 - s /\ 3 - (s + 1) = 2 - s /\ 3 - s \in Nat
  BY <1>1
<1>4. d \in Nat \ {0} /\ Pow[3 - s] = Byte * d /\ Pow[3 - s] \in Nat \ {0}
  <2>1. Pow[2 - s] \in Nat /\ Pow[2 - s] >= 1 /\ Pow[(2 - s) + 1] = Byte * Pow[2 - s]
    BY <1>3, PowDef
  <2>2. Pow[3 - s] \in Nat /\ Pow[3 - s] >= 1
    BY <1>3, PowDef
  <2> QED BY <1>3, <2>1, <2>2
<1>5. CASE 2 * w >= Pow[3]
  <2>1. SetCompact(GetCompact(bn)) = (w \div Byte) \div d
    <3>1. GetCompact(bn) = Compact(s + 1, w \div Byte)
      BY <1>2, <1>5
    <3>2. s + 1 <= 3
      BY <1>1
    <3> QED BY <1>3, <3>1, <3>2 DEF SetCompact, Compact
  <2> HIDE DEF d
  <2>2. w = (bn * d) * Byte /\ bn * d \in Nat
    BY <1>0, <1>4
  <2> HIDE DEF w
  <2>3. w \div Byte = bn * d
    BY <1>0, <2>2, DivMul
  <2>4. (bn * d) \div d = bn
    BY <1>4, DivMul
  <2> QED BY <2>1, <2>3, <2>4
<1>6. CASE ~(2 * w >= Pow[3])
  <2>1. SetCompact(GetCompact(bn)) = w \div Pow[3 - s]
    <3>1. GetCompact(bn) = Compact(s, w)
      BY <1>2, <1>6
    <3>2. s <= 3
      BY <1>1
    <3> QED BY <3>1, <3>2 DEF SetCompact, Compact
  <2>2. w \div Pow[3 - s] = bn
    BY <1>4, DivMul
  <2> QED BY <2>1, <2>2
<1> QED BY <1>5, <1>6

(* A longer one keeps its first three digits, or two when the third would  *)
(* set the sign bit: d is the weight of the third digit.                   *)
Weight(bn) == Pow[Size(bn) - 3]

LEMMA LargeCompact ==
    ASSUME NEW bn \in Nat, Size(bn) >= 3
    PROVE  /\ Weight(bn) \in Nat \ {0} /\ Size(bn) \in Nat
           /\ bn >= (Byte * Byte) * Weight(bn) /\ Pow[3] = Byte * (Byte * Byte)
           /\ GetCompact(bn) = IF 2 * (bn \div Weight(bn)) >= Pow[3]
                               THEN Compact(Size(bn) + 1, (bn \div Weight(bn)) \div Byte)
                               ELSE Compact(Size(bn), bn \div Weight(bn))
           /\ Pow[Size(bn) - 1] = (Byte * Byte) * Weight(bn)
           /\ \A x \in Nat : /\ SetCompact(Compact(Size(bn), x)) = x * Weight(bn)
                             /\ SetCompact(Compact(Size(bn) + 1, x)) = x * (Byte * Weight(bn))
<1> DEFINE s == Size(bn)  d == Pow[s - 3]
<1>0. Byte \in Nat \ {0}
  BY RetargetAssumption
<1>1. s \in Nat /\ s >= 3 /\ (s = 0 \/ bn >= Pow[s - 1])
  BY SizeFacts DEF HasSize
<1>g. GetCompact(bn) = LET w == IF s <= 3 THEN bn * Pow[3 - s] ELSE bn \div Pow[s - 3]
                       IN  IF 2 * w >= Pow[3] THEN Compact(s + 1, w \div Byte) ELSE Compact(s, w)
  BY DEF GetCompact
<1>w. Weight(bn) = d
  BY DEF Weight
<1> HIDE DEF s
<1>2. /\ s - 3 \in Nat /\ (s - 3) + 1 = s - 2 /\ s - 2 \in Nat /\ (s - 2) + 1 = s - 1 /\ s - 1 \in Nat
      /\ (s + 1) - 3 = s - 2
  BY <1>1
<1>3. d \in Nat \ {0} /\ Pow[s - 2] = Byte * d
  <2>1. Pow[s - 3] \in Nat /\ Pow[s - 3] >= 1 /\ Pow[(s - 3) + 1] = Byte * Pow[s - 3]
    BY <1>2, PowDef
  <2> QED BY <1>2, <2>1
<1>4. Pow[s - 1] = Byte * (Byte * d)
  <2>1. Pow[(s - 2) + 1] = Byte * Pow[s - 2]
    BY <1>2, PowDef
  <2> QED BY <1>2, <1>3, <2>1
<1>5. Pow[0] = 1 /\ Pow[3] = Byte * (Byte * Byte)
  <2>1. Pow[0] = 1 /\ Pow[0 + 1] = Byte * Pow[0] /\ Pow[1 + 1] = Byte * Pow[1] /\ Pow[2 + 1] = Byte * Pow[2]
    BY PowDef
  <2>2. Pow[1] = Byte * 1 /\ Pow[2] = Byte * Pow[1] /\ Pow[3] = Byte * Pow[2]
    BY <2>1
  <2>3. Byte * 1 = Byte
    BY <1>0
  <2> QED BY <2>1, <2>2, <2>3
<1>6. s = 3 => d = 1 /\ bn * Pow[3 - s] = bn /\ bn \div d = bn /\ \A x \in Nat : x \div Pow[3 - s] = x /\ x * d = x
  <2> SUFFICES ASSUME s = 3 PROVE d = 1 /\ bn * Pow[3 - s] = bn /\ bn \div d = bn /\ \A x \in Nat : x \div Pow[3 - s] = x /\ x * d = x
    OBVIOUS
  <2>1. 3 - s = 0 /\ s - 3 = 0
    OBVIOUS
  <2>2. Pow[3 - s] = 1 /\ d = 1
    BY <1>5, <2>1
  <2>3. ASSUME NEW x \in Nat PROVE x \div 1 = x /\ x * 1 = x
    OBVIOUS
  <2> HIDE DEF d
  <2> QED BY <2>2, <2>3
<1>7. (IF s <= 3 THEN bn * Pow[3 - s] ELSE bn \div Pow[s - 3]) = bn \div d
  <2>1. s <= 3 => s = 3
    BY <1>1
  <2> QED BY <1>6, <2>1
<1>8. GetCompact(bn) = IF 2 * (bn \div d) >= Pow[3] THEN Compact(s + 1, (bn \div d) \div Byte) ELSE Compact(s, bn \div d)
  BY <1>g, <1>7
<1>9. ASSUME NEW x \in Nat
      PROVE  SetCompact(Compact(s, x)) = x * d /\ SetCompact(Compact(s + 1, x)) = x * (Byte * d)
  <2>1. SetCompact(Compact(s, x)) = IF s <= 3 THEN x \div Pow[3 - s] ELSE x * Pow[s - 3]
    BY DEF SetCompact, Compact
  <2>2. SetCompact(Compact(s + 1, x)) = IF s + 1 <= 3 THEN x \div Pow[3 - (s + 1)] ELSE x * Pow[(s + 1) - 3]
    BY DEF SetCompact, Compact
  <2>3. ~(s + 1 <= 3) /\ (s <= 3 => s = 3)
    BY <1>1
  <2> QED BY <1>2, <1>3, <1>6, <2>1, <2>2, <2>3
<1>10. Byte * (Byte * d) = (Byte * Byte) * d
  <2> HIDE DEF d
  <2> QED BY <1>0, <1>3
<1>11. bn >= (Byte * Byte) * d
  BY <1>1, <1>4, <1>10
<1> HIDE DEF d
<1> QED BY <1>1, <1>3, <1>4, <1>5, <1>8, <1>9, <1>10, <1>11, <1>w DEF s

LEMMA MulMono ==
    ASSUME NEW x \in Nat, NEW y \in Nat, x <= y, NEW d \in Nat PROVE x * d <= y * d /\ x * d \in Nat
OBVIOUS

(* Same digits in front, same compact form.                                *)
LEMMA SameCompact ==
    ASSUME NEW bn \in Nat, Size(bn) >= 3, NEW v \in Nat, v >= Byte * Byte, v * Weight(bn) <= bn
    PROVE  /\ v * Weight(bn) \in Nat
           /\ GetCompact(v * Weight(bn)) = IF 2 * v >= Pow[3] THEN Compact(Size(bn) + 1, v \div Byte)
                                           ELSE Compact(Size(bn), v)
<1> DEFINE s == Size(bn)  d == Weight(bn)  t == v * d
<1>0. Byte \in Nat \ {0} /\ Byte * Byte \in Nat
  BY RetargetAssumption
<1>1. d \in Nat \ {0} /\ s \in Nat /\ s >= 3 /\ Pow[s - 1] = (Byte * Byte) * d
  BY LargeCompact
<1>2. bn < Pow[s] /\ Pow[s] \in Nat
  <2>1. s \in Nat /\ bn < Pow[s]
    BY SizeFacts DEF HasSize
  <2> QED BY <2>1, PowDef
<1> HIDE DEF s, d
<1>3. t \in Nat /\ t >= Pow[s - 1]
  BY <1>0, <1>1, MulMono
<1>4. t <= bn
  BY DEF d
<1> HIDE DEF t
<1>5. HasSize(t, s)
  <2>1. t < Pow[s]
    BY <1>2, <1>3, <1>4
  <2> QED BY <1>1, <1>3, <2>1 DEF HasSize
<1>6. Size(t) = s
  BY <1>3, <1>5, SizeFacts
<1>7. Weight(t) = d
  BY <1>6 DEF Weight, d, s
<1>8. t \div d = v
  BY <1>1, DivMul DEF t
<1>9. GetCompact(t) = IF 2 * (t \div Weight(t)) >= Pow[3]
                      THEN Compact(Size(t) + 1, (t \div Weight(t)) \div Byte)
                      ELSE Compact(Size(t), t \div Weight(t))
  BY <1>1, <1>3, <1>6, LargeCompact
<1>10. GetCompact(t) = IF 2 * v >= Pow[3] THEN Compact(s + 1, v \div Byte) ELSE Compact(s, v)
  BY <1>6, <1>7, <1>8, <1>9
<1> QED BY <1>3, <1>10 DEF t, d, s

(* What the encoding drops, it drops once: a target that has been through  *)
(* GetCompact and SetCompact is no greater than it was, and has the same   *)
(* compact form.                                                           *)
LEMMA RoundTrip ==
    ASSUME NEW bn \in Nat
    PROVE  /\ SetCompact(GetCompact(bn)) \in Nat /\ SetCompact(GetCompact(bn)) <= bn
           /\ GetCompact(SetCompact(GetCompact(bn))) = GetCompact(bn)
<1> DEFINE s == Size(bn)  d == Weight(bn)  w == bn \div d
<1>0. Byte \in Nat \ {0} /\ Byte * Byte \in Nat
  BY RetargetAssumption
<1>z. s \in Nat
  BY SizeFacts DEF HasSize
<1>1. CASE s < 3
  <2>1. SetCompact(GetCompact(bn)) = bn
    BY <1>1, SmallExact
  <2> QED BY <2>1
<1>2. CASE ~(s < 3)
  <2>1. s >= 3
    BY <1>2, <1>z
  <2>2. /\ d \in Nat \ {0} /\ bn >= (Byte * Byte) * d /\ Pow[3] = Byte * (Byte * Byte)
        /\ GetCompact(bn) = IF 2 * w >= Pow[3] THEN Compact(s + 1, w \div Byte) ELSE Compact(s, w)
        /\ \A x \in Nat : SetCompact(Compact(s, x)) = x * d /\ SetCompact(Compact(s + 1, x)) = x * (Byte * d)
    BY <2>1, LargeCompact
  <2>s. ASSUME NEW v \in Nat, v >= Byte * Byte, v * d <= bn
        PROVE  /\ v * d \in Nat
               /\ GetCompact(v * d) = IF 2 * v >= Pow[3] THEN Compact(s + 1, v \div Byte) ELSE Compact(s, v)
    BY <2>1, <2>s, SameCompact
  <2> HIDE DEF s, d
  <2>3. w \in Nat /\ w >= Byte * Byte /\ w * d <= bn
    BY <1>0, <2>2, DivGE
  <2> HIDE DEF w
  <2>4. CASE ~(2 * w >= Pow[3])
    <3>1. GetCompact(bn) = Compact(s, w) /\ SetCompact(GetCompact(bn)) = w * d
      BY <2>2, <2>3, <2>4
    <3>2. w * d \in Nat /\ GetCompact(w * d) = Compact(s, w)
      BY <2>3, <2>4, <2>s
    <3> QED BY <2>3, <3>1, <3>2
  <2>5. CASE 2 * w >= Pow[3]
    <3> DEFINE v == w \div Byte
    <3>1. v \in Nat /\ v >= Byte /\ v * Byte <= w /\ v * Byte \in Nat
      BY <1>0, <2>3, DivGE
    <3>2. GetCompact(bn) = Compact(s + 1, v) /\ SetCompact(GetCompact(bn)) = v * (Byte * d)
      BY <2>2, <2>5, <3>1
    <3>3. 2 * (v * Byte) >= Pow[3]
      <4> DEFINE e == Byte \div 2  h == e * Byte
      <4>1. e \in Nat /\ Byte = 2 * e
        BY RetargetAssumption
      <4> HIDE DEF e
      <4>2. h \in Nat /\ Byte * Byte = 2 * h
        <5>1. Byte * Byte = (2 * e) * Byte
          BY <4>1
        <5>2. (2 * e) * Byte = 2 * (e * Byte) /\ e * Byte \in Nat
          BY <1>0, <4>1
        <5> QED BY <5>1, <5>2
      <4> HIDE DEF h
      <4>3. Pow[3] = 2 * (h * Byte) /\ h * Byte \in Nat
        <5>1. Pow[3] = Byte * (2 * h)
          BY <2>2, <4>2
        <5>2. Byte * (2 * h) = 2 * (h * Byte) /\ h * Byte \in Nat
          BY <1>0, <4>2
        <5> QED BY <5>1, <5>2
      <4>4. w >= h * Byte
        BY <2>3, <2>5, <4>3
      <4>5. v >= h
        BY <1>0, <2>3, <4>2, <4>4, DivGE
      <4> HIDE DEF v
      <4>6. v * Byte >= h * Byte
        BY <1>0, <3>1, <4>2, <4>5, MulMono
      <4> QED BY <3>1, <4>3, <4>6
    <3> HIDE DEF v
    <3> DEFINE x == v * Byte
    <3>4. v * (Byte * d) = x * d
      BY <1>0, <2>2, <3>1
    <3>5. x \in Nat /\ x >= Byte * Byte /\ x <= w /\ x \div Byte = v
      <4>1. x >= Byte * Byte
        BY <1>0, <3>1, MulMono
      <4>2. x \div Byte = v
        BY <1>0, <3>1, DivMul
      <4> QED BY <3>1, <4>1, <4>2
    <3>6. 2 * x >= Pow[3]
      BY <3>3
    <3> HIDE DEF x
    <3>7. x * d <= w * d /\ x * d \in Nat /\ w * d \in Nat
      BY <2>2, <2>3, <3>5, MulMono
    <3>8. x * d <= bn
      BY <2>3, <3>7
    <3>9. GetCompact(x * d) = Compact(s + 1, v)
      BY <2>s, <3>5, <3>6, <3>8
    <3> QED BY <3>2, <3>4, <3>7, <3>8, <3>9
  <2> QED BY <2>4, <2>5
<1> QED BY <1>1, <1>2

-----------------------------------------------------------------------------
(***************************************************************************)
(* Every nBits in the chain is the compact form of a number up to the      *)
(* limit; so a retarget by the factor 1 finds the form it started from.    *)
(***************************************************************************)
IsCode(c) == \E bn \in 0..ProofOfWorkLimit : c = GetCompact(bn)
AllCodes(ch) == \A i \in 1..Len(ch) : IsCode(ch[i].nBits)

OnSchedule(ch) ==
    \A i \in 2..Len(ch) :
        RetargetAt(i - 1) =>
            LET first == IF i - 1 = nInterval THEN 1 ELSE i - 1 - nInterval
            IN  ch[i - 1].nTime - ch[first].nTime = nTargetTimespan => ch[i].nBits = ch[i - 1].nBits

LEMMA CodeTarget ==
    ASSUME NEW c, IsCode(c)
    PROVE  SetCompact(c) \in 0..ProofOfWorkLimit /\ GetCompact(SetCompact(c)) = c
<1>1. PICK bn \in 0..ProofOfWorkLimit : c = GetCompact(bn)
  BY DEF IsCode
<1>2. ProofOfWorkLimit \in Nat /\ bn \in Nat /\ bn <= ProofOfWorkLimit
  BY RetargetAssumption
<1>3. /\ SetCompact(GetCompact(bn)) \in Nat /\ SetCompact(GetCompact(bn)) <= bn
      /\ GetCompact(SetCompact(GetCompact(bn))) = GetCompact(bn)
  BY <1>2, RoundTrip
<1> QED BY <1>1, <1>2, <1>3

LEMMA ClampedFacts ==
    /\ \A n \in Int : Clamped(n) \in Nat
    /\ Clamped(nTargetTimespan) = nTargetTimespan
<1> DEFINE T == nTargetTimespan
<1>1. T \in Nat \ {0} /\ T \div 4 \in Nat /\ T \div 4 <= T /\ T * 4 \in Nat /\ T <= T * 4
  BY RetargetAssumption
<1>2. ASSUME NEW n \in Int PROVE Clamped(n) \in Nat
  BY <1>1 DEF Clamped
<1> QED BY <1>1, <1>2 DEF Clamped

LEMMA RetargetedFacts ==
    ASSUME HeadersInv, AllCodes(chain), RetargetAt(Len(chain))
    PROVE  /\ IsCode(Retargeted)
           /\ ActualTimespan = nTargetTimespan => Retargeted = chain[Len(chain)].nBits
<1> DEFINE t == SetCompact(Last.nBits)  n == Clamped(ActualTimespan)  T == nTargetTimespan
           bnNew == (t * n) \div T
           capped == IF bnNew > ProofOfWorkLimit THEN ProofOfWorkLimit ELSE bnNew
<1>0. T \in Nat \ {0} /\ ProofOfWorkLimit \in Nat
  BY RetargetAssumption
<1>1. Len(chain) \in Nat \ {0} /\ ActualTimespan \in Int
  BY ElapsedType
<1>2. Last = chain[Len(chain)] /\ IsCode(Last.nBits)
  BY <1>1 DEF Last, AllCodes
<1>3. t \in 0..ProofOfWorkLimit /\ GetCompact(t) = Last.nBits
  BY <1>2, CodeTarget
<1>4. n \in Nat
  BY <1>1, ClampedFacts
<1>5. Retargeted = GetCompact(capped)
  BY DEF Retargeted
<1>6. ASSUME ActualTimespan = T PROVE n = T
  BY <1>6, ClampedFacts
<1> HIDE DEF t, n, T
<1>7. t * n \in Nat
  BY <1>0, <1>3, <1>4
<1>8. bnNew \in Nat
  BY <1>0, <1>7, ModRange
<1>9. ASSUME ActualTimespan = T PROVE bnNew = t
  BY <1>0, <1>3, <1>6, <1>9, DivMul
<1> HIDE DEF bnNew
<1>10. capped \in 0..ProofOfWorkLimit
  BY <1>0, <1>8
<1>11. ASSUME ActualTimespan = T PROVE capped = t
  BY <1>0, <1>3, <1>9, <1>11
<1> HIDE DEF capped
<1>12. IsCode(Retargeted)
  BY <1>5, <1>10 DEF IsCode
<1> QED BY <1>2, <1>3, <1>5, <1>11, <1>12 DEF T

(* The bits of the next block.                                             *)
LEMMA NextBits ==
    ASSUME HeadersInv, AllCodes(chain), NEW nTime
    PROVE  /\ IsCode(GetNextWorkRequired(nTime))
           /\ RetargetAt(Len(chain)) => GetNextWorkRequired(nTime) = Retargeted
<1>0. Len(chain) \in Nat \ {0}
  BY DEF HeadersInv
<1>1. CASE RetargetAt(Len(chain))
  BY <1>1, RetargetedFacts DEF GetNextWorkRequired
<1>2. CASE ~RetargetAt(Len(chain))
  <2>1. IsCode(Last.nBits)
    BY <1>0 DEF Last, AllCodes
  <2>2. IsCode(nProofOfWorkLimit)
    <3>1. ProofOfWorkLimit \in 0..ProofOfWorkLimit
      BY RetargetAssumption
    <3> QED BY <3>1 DEF IsCode, nProofOfWorkLimit
  <2>3. IsCode(LastRealBits)
    <3>1. PICK g \in Window(Len(chain))..Len(chain) : LastRealBits = chain[g].nBits
      BY <1>0, WalkStaysInWindow
    <3>2. Window(Len(chain)) \in 1..Len(chain)
      BY <1>0, WindowFacts
    <3>3. g \in 1..Len(chain)
      BY <1>0, <3>1, <3>2
    <3> QED BY <3>1, <3>3 DEF AllCodes
  <2> QED BY <1>2, <2>1, <2>2, <2>3 DEF GetNextWorkRequired
<1> QED BY <1>1, <1>2

LEMMA SpanIsFirst ==
    ASSUME HeadersInv, RetargetAt(Len(chain))
    PROVE  ActualTimespan = chain[Len(chain)].nTime
             - chain[IF Len(chain) = nInterval THEN 1 ELSE Len(chain) - nInterval].nTime
<1> DEFINE L == Len(chain)
<1>1. L \in Nat \ {0} /\ nInterval \in Nat
  BY IntervalType DEF HeadersInv
<1>2. L - BlocksToGoBack(L) = IF L = nInterval THEN 1 ELSE L - nInterval
  BY <1>1 DEF BlocksToGoBack
<1> HIDE DEF L
<1> QED BY <1>2 DEF ActualTimespan, Last, L

LEMMA ScheduleStep ==
    ASSUME HeadersInv, AllCodes(chain), OnSchedule(chain), Next
    PROVE  AllCodes(chain)' /\ OnSchedule(chain)'
<1> DEFINE L == Len(chain)
<1>1. PICK nTime \in Int :
        /\ L \in Nat \ {0} /\ Len(chain') = L + 1
        /\ \A i \in 1..L : chain'[i] = chain[i] /\ chain[i].nTime \in Int
        /\ chain'[L + 1] = [nTime |-> nTime, nBits |-> GetNextWorkRequired(nTime)]
  BY AcceptBlockStep
<1>2. chain'[L + 1].nBits = GetNextWorkRequired(nTime)
  BY <1>1
<1>3. /\ IsCode(GetNextWorkRequired(nTime))
      /\ RetargetAt(L) => GetNextWorkRequired(nTime) = Retargeted
  BY NextBits
<1>s. ASSUME RetargetAt(L)
      PROVE  /\ ActualTimespan = chain[L].nTime - chain[IF L = nInterval THEN 1 ELSE L - nInterval].nTime
             /\ ActualTimespan = nTargetTimespan => Retargeted = chain[L].nBits
             /\ L >= nInterval /\ nInterval \in Nat \ {0}
  BY <1>1, <1>s, SpanIsFirst, RetargetedFacts, WindowFacts, IntervalType
<1> DEFINE d == chain'
<1>a. /\ Len(d) = L + 1 /\ d[L + 1].nBits = GetNextWorkRequired(nTime)
      /\ \A i \in 1..L : d[i] = chain[i]
  BY <1>1, <1>2
<1>b. AllCodes(chain) /\ OnSchedule(chain)
  OBVIOUS
<1> HIDE DEF d
<1>c. \A i \in 1..L : IsCode(chain[i].nBits)
  BY DEF AllCodes
<1>d. \A i \in 2..L :
        RetargetAt(i - 1) =>
            LET first == IF i - 1 = nInterval THEN 1 ELSE i - 1 - nInterval
            IN  chain[i - 1].nTime - chain[first].nTime = nTargetTimespan => chain[i].nBits = chain[i - 1].nBits
  BY DEF OnSchedule
<1> HIDE DEF L
<1>4. AllCodes(d)
  <2>1. ASSUME NEW i \in 1..Len(d) PROVE IsCode(d[i].nBits)
    <3>1. i \in 1..L \/ i = L + 1
      BY <1>1, <1>a
    <3> QED BY <1>3, <1>a, <1>c, <3>1
  <2> QED BY <2>1 DEF AllCodes
<1>5. ASSUME NEW i \in 2..Len(d), RetargetAt(i - 1)
      PROVE  LET first == IF i - 1 = nInterval THEN 1 ELSE i - 1 - nInterval
             IN  d[i - 1].nTime - d[first].nTime = nTargetTimespan => d[i].nBits = d[i - 1].nBits
  <2> DEFINE n == i - 1  first == IF n = nInterval THEN 1 ELSE n - nInterval
  <2>1. n \in 1..L /\ n \in Nat \ {0} /\ (i \in 2..L \/ i = L + 1)
    BY <1>1, <1>a
  <2>2. first \in 1..L
    <3>1. RetargetAt(n) => n >= nInterval
      BY <2>1, WindowFacts
    <3>2. n >= nInterval /\ nInterval \in Nat \ {0}
      BY <1>5, <3>1, IntervalType
    <3> QED BY <1>1, <2>1, <3>2
  <2>3. d[n] = chain[n] /\ d[first] = chain[first]
    BY <1>a, <2>1, <2>2
  <2>4. CASE i \in 2..L
    <3>1. d[i] = chain[i]
      BY <1>1, <1>a, <2>4
    <3>2. chain[n].nTime - chain[first].nTime = nTargetTimespan => chain[i].nBits = chain[n].nBits
      BY <1>5, <1>d, <2>4
    <3> QED BY <2>3, <3>1, <3>2
  <2>5. CASE i = L + 1
    <3>1. n = L
      BY <1>1, <2>5
    <3>2. /\ d[i].nBits = Retargeted
          /\ ActualTimespan = chain[n].nTime - chain[first].nTime
          /\ ActualTimespan = nTargetTimespan => Retargeted = chain[n].nBits
      BY <1>3, <1>5, <1>a, <1>s, <2>5, <3>1
    <3> QED BY <2>3, <3>2
  <2> QED BY <2>1, <2>4, <2>5
<1>6. OnSchedule(d)
  BY <1>5 DEF OnSchedule
<1>7. AllCodes(chain') /\ OnSchedule(chain')
  BY <1>4, <1>6 DEF d
<1> QED BY <1>7

CodesInv == RetargetInv /\ AllCodes(chain) /\ OnSchedule(chain)

LEMMA CodesInvariant == Spec => []CodesInv
<1>1. ASSUME Init PROVE AllCodes(chain) /\ OnSchedule(chain)
  <2> DEFINE h == [nTime |-> 0, nBits |-> GetCompact(GenesisTarget)]
  <2>1. chain = <<h>> /\ h.nBits = GetCompact(GenesisTarget)
    BY <1>1 DEF Init
  <2>2. Len(chain) = 1 /\ chain[1].nBits = GetCompact(GenesisTarget)
    BY <2>1
  <2>3. IsCode(GetCompact(GenesisTarget))
    <3>1. GenesisTarget \in 0..ProofOfWorkLimit
      BY RetargetAssumption
    <3> QED BY <3>1 DEF IsCode
  <2>4. 1..1 = {1} /\ 2..1 = {}
    OBVIOUS
  <2> QED BY <2>2, <2>3, <2>4 DEF AllCodes, OnSchedule
<1>2. ASSUME HeadersInv, AllCodes(chain), OnSchedule(chain), [Next]_vars
      PROVE  AllCodes(chain)' /\ OnSchedule(chain)'
  <2>1. CASE Next
    BY <1>2, <2>1, ScheduleStep
  <2>2. CASE UNCHANGED vars
    <3>1. chain' = chain
      BY <2>2 DEF vars
    <3>2. AllCodes(chain') /\ OnSchedule(chain')
      BY <1>2, <3>1
    <3> QED BY <3>2
  <2> QED BY <1>2, <2>1, <2>2
<1>3. RetargetInv => HeadersInv
  BY DEF RetargetInv
<1> QED BY <1>1, <1>2, <1>3, RetargetInvariant, PTL DEF Spec, CodesInv

(* A window that took exactly the target timespan keeps its target, for    *)
(* any base of the encoding that is even, any limit and any times: what    *)
(* the compact form loses is lost the first time, and never again.         *)
THEOREM ScheduleKeepsTarget == Spec => []OnScheduleKeepsTarget
<1>1. OnSchedule(chain) => OnScheduleKeepsTarget
  BY DEF OnSchedule, OnScheduleKeepsTarget, Retargets
<1> QED BY <1>1, CodesInvariant, PTL DEF CodesInv

(* No block needs a target above the limit of the proof of work: the cap   *)
(* of GetNextWorkRequired holds behind the encoding too.                   *)
THEOREM TargetsWithinLimit == Spec => [](\A i \in 1..Len(chain) : Target(i) \in 0..ProofOfWorkLimit)
<1>1. AllCodes(chain) => \A i \in 1..Len(chain) : Target(i) \in 0..ProofOfWorkLimit
  BY CodeTarget DEF AllCodes, Target
<1> QED BY <1>1, CodesInvariant, PTL DEF CodesInv
=============================================================================
