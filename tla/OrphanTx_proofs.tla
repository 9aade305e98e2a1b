--------------------------- MODULE OrphanTx_proofs ---------------------------
(* For any set of transactions and any limit: the orphan index is exact    *)
(* and the pool stays within its limit.  The exact index is what makes     *)
(* erasing safe, and is inductive together with the types.                 *)
EXTENDS OrphanTx, FiniteSetTheorems, TLAPS

(* What the index operators do to the entry under one hash.                *)
LEMMA IndexedAt ==
    ASSUME NEW by, NEW tx \in Tx, NEW h
    PROVE  At(Indexed(by, tx), h)
              = At(by, h) \cup (IF h \in Prev[tx] THEN {tx} ELSE {})
    BY DEF At, Indexed

(* EraseOrphanTx takes exactly the erased orphans out of each entry; a key *)
(* that is dropped had nothing left.                                       *)
LEMMA UnindexedAt ==
    ASSUME NEW by, NEW gone, NEW h
    PROVE  At(Unindexed(by, gone), h) = At(by, h) \ {tx \in gone : h \in Prev[tx]}
    <1> DEFINE Rest(k) == by[k] \ {tx \in gone : k \in Prev[tx]}
               keys == {k \in DOMAIN by : (\E tx \in gone : k \in Prev[tx]) => Rest(k) # {}}
    <1>1. Unindexed(by, gone) = [k \in keys |-> Rest(k)]
        BY DEF Unindexed
    <1>2. CASE h \in keys
        BY <1>1, <1>2 DEF At
    <1>3. CASE h \notin keys /\ h \in DOMAIN by
        <2>1. Rest(h) = {}
            BY <1>3
        <2>2. At(Unindexed(by, gone), h) = {}
            BY <1>1, <1>3 DEF At
        <2> QED BY <2>1, <2>2, <1>3 DEF At
    <1>4. CASE h \notin DOMAIN by
        BY <1>1, <1>4 DEF At
    <1> QED BY <1>2, <1>3, <1>4

(* Reading with operator[] changes no entry, it only adds a key.           *)
LEMMA TouchedAt ==
    ASSUME NEW by, NEW t, NEW h
    PROVE  At(Touched(by, t), h) = At(by, h)
    BY DEF At, Touched

LEMMA UnindexedType ==
    ASSUME NEW by, NEW gone, by \in [DOMAIN by -> SUBSET Tx], DOMAIN by \subseteq Hash
    PROVE  /\ DOMAIN Unindexed(by, gone) \subseteq Hash
           /\ Unindexed(by, gone) \in [DOMAIN Unindexed(by, gone) -> SUBSET Tx]
    BY DEF Unindexed

LEMMA IndexedType ==
    ASSUME NEW by, NEW tx \in Tx, by \in [DOMAIN by -> SUBSET Tx], DOMAIN by \subseteq Hash
    PROVE  /\ DOMAIN Indexed(by, tx) \subseteq Hash
           /\ Indexed(by, tx) \in [DOMAIN Indexed(by, tx) -> SUBSET Tx]
    <1>1. Prev[tx] \subseteq Hash
        BY PrevAssumption
    <1> QED BY <1>1 DEF Indexed, At

LEMMA TouchedType ==
    ASSUME NEW by, NEW t \in Hash, by \in [DOMAIN by -> SUBSET Tx], DOMAIN by \subseteq Hash
    PROVE  /\ DOMAIN Touched(by, t) \subseteq Hash
           /\ Touched(by, t) \in [DOMAIN Touched(by, t) -> SUBSET Tx]
    BY DEF Touched, At

-----------------------------------------------------------------------------
(* Every reachable state of the orphan pool is well typed.                 *)
THEOREM TypeCorrect == Spec => []TypeOK
<1>1. Init => TypeOK
    BY FS_EmptySet DEF Init, TypeOK
<1>2. TypeOK /\ [Next]_vars => TypeOK'
    <2> SUFFICES ASSUME TypeOK, [Next]_vars PROVE TypeOK'
        OBVIOUS
    <2>1. CASE UNCHANGED vars
        BY <2>1 DEF TypeOK, vars
    <2>2. ASSUME NEW tx \in Tx, TxAccepted(tx) PROVE TypeOK'
        <3>1. tx \in Hash
            BY PrevAssumption
        <3>2. /\ DOMAIN Touched(mapOrphanTransactionsByPrev, tx) \subseteq Hash
              /\ Touched(mapOrphanTransactionsByPrev, tx) \in
                   [DOMAIN Touched(mapOrphanTransactionsByPrev, tx) -> SUBSET Tx]
            BY <3>1, TouchedType DEF TypeOK
        <3>3. /\ mapOrphanTransactions' \in SUBSET mapOrphanTransactions
              /\ \E gone : mapOrphanTransactionsByPrev' =
                    Unindexed(Touched(mapOrphanTransactionsByPrev, tx), gone)
            BY <2>2 DEF TxAccepted
        <3>4. IsFiniteSet(mapOrphanTransactions')
            BY <3>3, FS_Subset DEF TypeOK
        <3>5. /\ DOMAIN mapOrphanTransactionsByPrev' \subseteq Hash
              /\ mapOrphanTransactionsByPrev' \in [DOMAIN mapOrphanTransactionsByPrev' -> SUBSET Tx]
            BY <3>2, <3>3, UnindexedType
        <3> QED BY <3>3, <3>4, <3>5 DEF TypeOK
    <2>3. ASSUME NEW tx \in Tx, TxMissingInputs(tx) PROVE TypeOK'
        <3> DEFINE orphans == mapOrphanTransactions \cup (IF MayAdd(tx) THEN {tx} ELSE {})
                   by == IF MayAdd(tx) THEN Indexed(mapOrphanTransactionsByPrev, tx)
                         ELSE mapOrphanTransactionsByPrev
        <3>1. IsFiniteSet(orphans) /\ orphans \in SUBSET Tx
            BY FS_AddElement DEF TypeOK
        <3>2. /\ DOMAIN by \subseteq Hash
              /\ by \in [DOMAIN by -> SUBSET Tx]
            BY IndexedType DEF TypeOK
        <3>3. PICK gone \in Evictions(orphans) :
                 /\ mapOrphanTransactions' = orphans \ gone
                 /\ mapOrphanTransactionsByPrev' = Unindexed(by, gone)
            BY <2>3 DEF TxMissingInputs
        <3>4. IsFiniteSet(mapOrphanTransactions') /\ mapOrphanTransactions' \in SUBSET Tx
            BY <3>1, <3>3, FS_Subset
        <3>5. /\ DOMAIN mapOrphanTransactionsByPrev' \subseteq Hash
              /\ mapOrphanTransactionsByPrev' \in [DOMAIN mapOrphanTransactionsByPrev' -> SUBSET Tx]
            BY <3>2, <3>3, UnindexedType
        <3> QED BY <3>4, <3>5 DEF TypeOK
    <2> QED BY <2>1, <2>2, <2>3 DEF Next
<1> QED BY <1>1, <1>2, PTL DEF Spec

(* The index lists exactly the orphans with an input from each hash.       *)
THEOREM IndexExact == Spec => []OrphanIndexExact
<1>1. Init => OrphanIndexExact
    BY DEF Init, OrphanIndexExact, At
<1>2. TypeOK /\ OrphanIndexExact /\ [Next]_vars => OrphanIndexExact'
    <2> SUFFICES ASSUME TypeOK, OrphanIndexExact, [Next]_vars, NEW h \in Hash
                 PROVE  At(mapOrphanTransactionsByPrev', h)
                            = {t \in mapOrphanTransactions' : h \in Prev[t]}
        BY DEF OrphanIndexExact
    <2>0. At(mapOrphanTransactionsByPrev, h) = {t \in mapOrphanTransactions : h \in Prev[t]}
        BY DEF OrphanIndexExact
    <2>1. CASE UNCHANGED vars
        BY <2>0, <2>1 DEF vars
    <2>2. ASSUME NEW tx \in Tx, TxAccepted(tx)
          PROVE  At(mapOrphanTransactionsByPrev', h) = {t \in mapOrphanTransactions' : h \in Prev[t]}
        <3>1. PICK gone : /\ mapOrphanTransactions' = mapOrphanTransactions \ gone
                          /\ mapOrphanTransactionsByPrev' =
                                Unindexed(Touched(mapOrphanTransactionsByPrev, tx), gone)
            BY <2>2 DEF TxAccepted
        <3>2. At(mapOrphanTransactionsByPrev', h)
                = At(mapOrphanTransactionsByPrev, h) \ {t \in gone : h \in Prev[t]}
            BY <3>1, UnindexedAt, TouchedAt
        <3> QED BY <2>0, <3>1, <3>2
    <2>3. ASSUME NEW tx \in Tx, TxMissingInputs(tx)
          PROVE  At(mapOrphanTransactionsByPrev', h) = {t \in mapOrphanTransactions' : h \in Prev[t]}
        <3> DEFINE orphans == mapOrphanTransactions \cup (IF MayAdd(tx) THEN {tx} ELSE {})
                   by == IF MayAdd(tx) THEN Indexed(mapOrphanTransactionsByPrev, tx)
                         ELSE mapOrphanTransactionsByPrev
        <3>1. PICK gone \in Evictions(orphans) :
                 /\ mapOrphanTransactions' = orphans \ gone
                 /\ mapOrphanTransactionsByPrev' = Unindexed(by, gone)
            BY <2>3 DEF TxMissingInputs
        <3>2. At(by, h) = {t \in orphans : h \in Prev[t]}
            BY <2>0, IndexedAt
        <3>3. At(mapOrphanTransactionsByPrev', h) = At(by, h) \ {t \in gone : h \in Prev[t]}
            BY <3>1, UnindexedAt
        <3> HIDE DEF orphans, by
        <3> QED BY <3>1, <3>2, <3>3
    <2> QED BY <2>1, <2>2, <2>3 DEF Next
<1> QED BY <1>1, <1>2, TypeCorrect, PTL DEF Spec

(* The pool never exceeds MAX_ORPHAN_TRANSACTIONS.                         *)
THEOREM WithinLimit == Spec => []OrphanLimit
<1>1. Init => OrphanLimit
    BY FS_EmptySet, MaxAssumption DEF Init, OrphanLimit
<1>2. TypeOK /\ OrphanLimit /\ [Next]_vars => OrphanLimit'
    <2> SUFFICES ASSUME TypeOK, OrphanLimit, [Next]_vars PROVE OrphanLimit'
        OBVIOUS
    <2>0. Cardinality(mapOrphanTransactions) \in Nat
        BY FS_CardinalityType DEF TypeOK
    <2>1. CASE UNCHANGED vars
        BY <2>1 DEF OrphanLimit, vars
    <2>2. ASSUME NEW tx \in Tx, TxAccepted(tx) PROVE OrphanLimit'
        <3>1. mapOrphanTransactions' \in SUBSET mapOrphanTransactions
            BY <2>2 DEF TxAccepted
        <3>2. IsFiniteSet(mapOrphanTransactions')
              /\ Cardinality(mapOrphanTransactions') <= Cardinality(mapOrphanTransactions)
            BY <3>1, FS_Subset DEF TypeOK
        <3>3. Cardinality(mapOrphanTransactions') \in Nat
            BY <3>2, FS_CardinalityType
        <3> QED BY <2>0, <3>2, <3>3, MaxAssumption DEF OrphanLimit
    <2>3. ASSUME NEW tx \in Tx, TxMissingInputs(tx) PROVE OrphanLimit'
        <3> DEFINE orphans == mapOrphanTransactions \cup (IF MayAdd(tx) THEN {tx} ELSE {})
        <3>1. IsFiniteSet(orphans)
            BY FS_AddElement DEF TypeOK
        <3>2. PICK gone \in Evictions(orphans) : mapOrphanTransactions' = orphans \ gone
            BY <2>3 DEF TxMissingInputs
        <3> HIDE DEF orphans
        <3>3. gone \in SUBSET orphans
            BY <3>2 DEF Evictions
        <3>4. Cardinality(gone) = IF Cardinality(orphans) > MAX_ORPHAN_TRANSACTIONS
                                  THEN Cardinality(orphans) - MAX_ORPHAN_TRANSACTIONS ELSE 0
            BY <3>2 DEF Evictions
        <3>5. Cardinality(orphans \ gone)
                 = Cardinality(orphans) - Cardinality(orphans \cap gone)
            BY <3>1, FS_Difference
        <3>6. orphans \cap gone = gone
            BY <3>3
        <3>7. Cardinality(orphans) \in Nat
            BY <3>1, FS_CardinalityType
        <3>8. Cardinality(orphans \ gone) <= MAX_ORPHAN_TRANSACTIONS
            <4> DEFINE n == Cardinality(orphans)
                       g == Cardinality(gone)
                       r == Cardinality(orphans \ gone)
            <4>1. r = n - g
                BY <3>5, <3>6
            <4>2. g = IF n > MAX_ORPHAN_TRANSACTIONS THEN n - MAX_ORPHAN_TRANSACTIONS ELSE 0
                BY <3>4
            <4>3. n \in Nat
                BY <3>7
            <4> HIDE DEF n, g, r
            <4>4. r <= MAX_ORPHAN_TRANSACTIONS
                BY <4>1, <4>2, <4>3, MaxAssumption
            <4> QED BY <4>4 DEF r
        <3> QED BY <3>2, <3>8 DEF OrphanLimit
    <2> QED BY <2>1, <2>2, <2>3 DEF Next
<1> QED BY <1>1, <1>2, TypeCorrect, PTL DEF Spec

(* An orphan leaves the pool by eviction from a full pool, or because it   *)
(* or a transaction it spends from was accepted: what the tx handler takes *)
(* out of the index under an accepted hash does spend from it.             *)
THEOREM LeavesForAReason == Spec => OrphanLeavesForAReason
<1> DEFINE Reason(tx) == \/ Cardinality(mapOrphanTransactions') = MAX_ORPHAN_TRANSACTIONS
                         \/ \E h \in {tx} \cup Prev[tx] : TxAccepted(h)
           Leaves == \A tx \in mapOrphanTransactions \ mapOrphanTransactions' : Reason(tx)
<1>1. TypeOK /\ OrphanIndexExact /\ [Next]_vars => [Leaves]_vars
    <2> SUFFICES ASSUME TypeOK, OrphanIndexExact, Next,
                        NEW tx \in mapOrphanTransactions \ mapOrphanTransactions'
                 PROVE  Reason(tx)
        OBVIOUS
    <2>1. ASSUME NEW t \in Tx, TxAccepted(t) PROVE Reason(tx)
        <3>1. tx \in {t} \cup At(mapOrphanTransactionsByPrev, t)
            BY <2>1 DEF TxAccepted
        <3>2. t \in Hash
            BY PrevAssumption
        <3>3. tx = t \/ t \in Prev[tx]
            BY <3>1, <3>2 DEF OrphanIndexExact
        <3> QED BY <2>1, <3>3
    <2>2. ASSUME NEW t \in Tx, TxMissingInputs(t) PROVE Reason(tx)
        <3> DEFINE orphans == mapOrphanTransactions \cup (IF MayAdd(t) THEN {t} ELSE {})
                   c == Cardinality(orphans)
        <3>1. PICK gone \in Evictions(orphans) : mapOrphanTransactions' = orphans \ gone
            BY <2>2 DEF TxMissingInputs
        <3>2. IsFiniteSet(orphans) /\ c \in Nat
            BY FS_AddElement, FS_CardinalityType DEF TypeOK
        <3> HIDE DEF c, orphans
        <3>3. /\ gone \subseteq orphans
              /\ Cardinality(gone) = IF c > MAX_ORPHAN_TRANSACTIONS THEN c - MAX_ORPHAN_TRANSACTIONS ELSE 0
            BY DEF Evictions, c
        <3>4. tx \in gone
            BY <3>1 DEF orphans
        <3>5. IsFiniteSet(gone) /\ gone # {}
            BY <3>2, <3>3, <3>4, FS_Subset
        <3>6. Cardinality(gone) # 0
            BY <3>5, FS_EmptySet
        <3>7. orphans \cap gone = gone
            BY <3>3
        <3>8. Cardinality(orphans \ gone) = c - Cardinality(gone)
            BY <3>2, <3>7, FS_Difference DEF c
        <3>9. Cardinality(orphans \ gone) = MAX_ORPHAN_TRANSACTIONS
            BY <3>2, <3>3, <3>6, <3>8, MaxAssumption
        <3> QED BY <3>1, <3>9
    <2> QED BY <2>1, <2>2 DEF Next
<1>2. [][Leaves]_vars => OrphanLeavesForAReason
    BY DEF OrphanLeavesForAReason
<1> QED BY <1>1, <1>2, TypeCorrect, IndexExact, PTL DEF Spec
=============================================================================
