------------------------------ MODULE Retarget ------------------------------
(***************************************************************************)
(* The difficulty rule (GetNextWorkRequired in main.cpp) over a growing    *)
(* chain: which target each block must meet, from the times its ancestors  *)
(* claim, through the compact encoding of CBigNum (bignum.h).              *)
(*                                                                         *)
(* The program's numbers (256-bit targets, bytes, 53 blocks, 28800 s) are  *)
(* constants, so that instances can be small; the arithmetic is the code's.*)
(* Targets are never negative here, so the sign bit is only made room for. *)
(***************************************************************************)
EXTENDS Integers, Sequences, FiniteSets

CONSTANTS
    nTargetTimespan, nTargetSpacing,
    nMedianTimeSpan,
    Byte,          \* 256: the base of the compact encoding
    ProofOfWorkLimit,
    GenesisTarget, \* of the genesis block (0x1e0ffff0, a little below the limit)
    Delay,         \* how much later than its parent a block may claim to be
    MaxHeight      \* bound on the chain

nInterval == nTargetTimespan \div nTargetSpacing

ASSUME RetargetAssumption ==
    /\ nTargetTimespan \in Nat \ {0} /\ nTargetSpacing \in 1..nTargetTimespan
    /\ nMedianTimeSpan \in Nat \ {0} /\ Byte \in Nat \ {0, 1} /\ Byte % 2 = 0
    /\ ProofOfWorkLimit \in Nat \ {0} /\ GenesisTarget \in 1..ProofOfWorkLimit
    /\ Delay \subseteq Int /\ MaxHeight \in Nat

VARIABLES
    fTestNet,      \* set by an option at start-up
    chain,         \* block headers from the genesis block: nTime and nBits
    elapsed        \* history: the sum of the spans that retargets have used

vars == <<fTestNet, chain, elapsed>>

-----------------------------------------------------------------------------
(* A shift by n digits multiplies or divides by Pow[n].                    *)
Pow[n \in Nat] == IF n = 0 THEN 1 ELSE Byte * Pow[n - 1]

(* CBigNum::GetCompact: three digits and the number of digits; a leading   *)
(* digit that would set the sign bit costs one more.                       *)
Size(bn) == CHOOSE n \in 0..bn : bn < Pow[n] /\ \A k \in 0..(n - 1) : bn >= Pow[k]

Compact(nSize, nWord) == [nSize |-> nSize, nWord |-> nWord]

GetCompact(bn) ==
    LET s == Size(bn)
        w == IF s <= 3 THEN bn * Pow[3 - s] ELSE bn \div Pow[s - 3]
    IN  IF 2 * w >= Pow[3] THEN Compact(s + 1, w \div Byte) ELSE Compact(s, w)

(* CBigNum::SetCompact.                                                    *)
SetCompact(c) ==
    IF c.nSize <= 3 THEN c.nWord \div Pow[3 - c.nSize] ELSE c.nWord * Pow[c.nSize - 3]

nProofOfWorkLimit == GetCompact(ProofOfWorkLimit)

-----------------------------------------------------------------------------
(* CBlockIndex::GetMedianTimePast of the last block.                       *)
GetMedianTimePast ==
    LET n    == IF Len(chain) < nMedianTimeSpan THEN Len(chain) ELSE nMedianTimeSpan
        last == (Len(chain) - n + 1)..Len(chain)
    IN  CHOOSE m \in {chain[i].nTime : i \in last} :
            /\ Cardinality({i \in last : chain[i].nTime < m}) <= n \div 2
            /\ Cardinality({i \in last : chain[i].nTime <= m}) > n \div 2

(* Heights start at 0; chain[i] has height i - 1, so Len(chain) is the     *)
(* height of the next block.                                               *)
Last == chain[Len(chain)]

RetargetAt(nHeight) == nHeight % nInterval = 0

(* Faulty form: one block short in every window.                           *)
BlocksToGoBackAlwaysShort(nHeight) == nInterval - 1

BlocksToGoBack(nHeight) == IF nHeight = nInterval THEN nInterval - 1 ELSE nInterval

ActualTimespan ==
    Last.nTime - chain[Len(chain) - BlocksToGoBack(Len(chain))].nTime

Clamped(nSpan) ==
    IF nSpan < nTargetTimespan \div 4 THEN nTargetTimespan \div 4
    ELSE IF nSpan > nTargetTimespan * 4 THEN nTargetTimespan * 4
    ELSE nSpan

(* Faulty forms: the target may exceed the limit; division comes first.    *)
RetargetedFreely ==
    GetCompact((SetCompact(Last.nBits) * Clamped(ActualTimespan)) \div nTargetTimespan)

RetargetedDivideFirst ==
    LET bnNew == (SetCompact(Last.nBits) \div nTargetTimespan) * Clamped(ActualTimespan)
    IN  GetCompact(IF bnNew > ProofOfWorkLimit THEN ProofOfWorkLimit ELSE bnNew)

Retargeted ==
    LET bnNew == (SetCompact(Last.nBits) * Clamped(ActualTimespan)) \div nTargetTimespan
    IN  GetCompact(IF bnNew > ProofOfWorkLimit THEN ProofOfWorkLimit ELSE bnNew)

(* Faulty form: the walk crosses the start of the window.                  *)
LastRealBitsAnywhere ==
    LET back == {i \in 1..Len(chain) : i = 1 \/ chain[i].nBits # nProofOfWorkLimit}
    IN  chain[CHOOSE i \in back : \A j \in back : j <= i].nBits

(* Test network: the bits of the last block that did not use the rule for  *)
(* late blocks, no further back than the start of the window.              *)
LastRealBits ==
    LET back == {i \in 1..Len(chain) : i = 1 \/ RetargetAt(i - 1)
                                       \/ chain[i].nBits # nProofOfWorkLimit}
    IN  chain[CHOOSE i \in back : \A j \in back : j <= i].nBits

GetNextWorkRequired(nTime) ==
    IF RetargetAt(Len(chain)) THEN Retargeted
    ELSE IF ~fTestNet THEN Last.nBits
    ELSE IF nTime > Last.nTime + 2 * nTargetSpacing THEN nProofOfWorkLimit
    ELSE LastRealBits

(* AcceptBlock: a block with the required bits and a time later than the   *)
(* median of its ancestors' is added.                                      *)
AcceptBlock(nTime) ==
    /\ Len(chain) <= MaxHeight
    /\ nTime > GetMedianTimePast
    /\ chain' = Append(chain, [nTime |-> nTime, nBits |-> GetNextWorkRequired(nTime)])
    /\ elapsed' = IF RetargetAt(Len(chain)) THEN elapsed + ActualTimespan ELSE elapsed
    /\ UNCHANGED fTestNet

Init ==
    /\ fTestNet \in BOOLEAN
    /\ chain = <<[nTime |-> 0, nBits |-> GetCompact(GenesisTarget)]>>
    /\ elapsed = 0

Next == \E d \in Delay : AcceptBlock(Last.nTime + d)

Spec == Init /\ [][Next]_vars

-----------------------------------------------------------------------------
Target(i) == SetCompact(chain[i].nBits)
Window(i) == i - ((i - 1) % nInterval)      \* first block of the window of block i
Retargets == {i \in 2..Len(chain) : RetargetAt(i - 1)}

(* Type invariant: every target is one that CheckProofOfWork accepts, not  *)
(* 0 and not above the limit.                                              *)
TypeOK ==
    /\ fTestNet \in BOOLEAN /\ elapsed \in Int
    /\ \A i \in 1..Len(chain) : chain[i].nTime \in Int /\ Target(i) \in 1..ProofOfWorkLimit

(* The spans that the retargets measure are laid end to end: none of the   *)
(* time since the genesis block is left out or counted twice, so nobody    *)
(* gains by moving the time of a window's last block.                      *)
SpansTile ==
    LET last == Window(Len(chain))
    IN  elapsed = IF last = 1 THEN 0 ELSE chain[last - 1].nTime - chain[1].nTime

(* All blocks of a window have the target of its first block or, on the    *)
(* test network, the limit: a late block does not lower the difficulty of  *)
(* the punctual blocks behind it.                                          *)
OneTargetPerWindow ==
    \A i \in 1..Len(chain) :
        \/ chain[i].nBits = chain[Window(i)].nBits
        \/ fTestNet /\ chain[i].nBits = nProofOfWorkLimit

(* A window that took exactly the target timespan keeps its target: what   *)
(* SetCompact and GetCompact drop does not add up.                         *)
OnScheduleKeepsTarget ==
    \A i \in Retargets :
        LET first == IF i - 1 = nInterval THEN 1 ELSE i - 1 - nInterval
        IN  chain[i - 1].nTime - chain[first].nTime = nTargetTimespan
               => chain[i].nBits = chain[i - 1].nBits
=============================================================================
