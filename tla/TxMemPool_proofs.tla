-------------------------- MODULE TxMemPool_proofs --------------------------
(* The memory pool for any transactions: its index is exact, no output is  *)
(* spent twice in it, and connecting a block leaves nothing in it that     *)
(* contradicts the block.  The exact index (NextTxExact) is the inductive  *)
(* invariant; the two other results follow from it.                        *)
EXTENDS TxMemPool, TLAPS

LEMMA InsType ==
    ASSUME NEW tx \in Tx PROVE Ins(tx) \subseteq OutPoint
    BY VinAssumption DEF Ins, OutPoint

(* A pool is a record of a set of transactions and an index.               *)
IsPool(pool) ==
    /\ pool.mapTx \in SUBSET Tx
    /\ DOMAIN pool.mapNextTx \subseteq OutPoint
    /\ pool.mapNextTx \in [DOMAIN pool.mapNextTx -> Tx]
    /\ pool = [mapTx |-> pool.mapTx, mapNextTx |-> pool.mapNextTx]

(* remove() keeps a pool a pool, whatever it erases ...                    *)
LEMMA WithoutType ==
    ASSUME NEW pool, NEW gone, IsPool(pool)
    PROVE  IsPool(Without(pool, gone))
    <1> DEFINE spent == UNION {Ins(tx) : tx \in gone \cap pool.mapTx}
    <1>1. /\ Without(pool, gone).mapTx = pool.mapTx \ (gone \cap pool.mapTx)
          /\ Without(pool, gone).mapNextTx
                = [o \in DOMAIN pool.mapNextTx \ spent |-> pool.mapNextTx[o]]
        BY DEF Without
    <1>2. Without(pool, gone) = [mapTx |-> Without(pool, gone).mapTx,
                                 mapNextTx |-> Without(pool, gone).mapNextTx]
        BY DEF Without
    <1> HIDE DEF spent
    <1> QED BY <1>1, <1>2 DEF IsPool

(* ... and keeps its index exact: the outputs of an erased transaction are *)
(* the keys of no other.                                                   *)
LEMMA WithoutExact ==
    ASSUME NEW pool, NEW gone, Exact(pool)
    PROVE  Exact(Without(pool, gone))
    <1> DEFINE erased == gone \cap pool.mapTx
               spent  == UNION {Ins(tx) : tx \in erased}
               rest   == Without(pool, gone)
    <1>1. /\ rest.mapTx = pool.mapTx \ erased
          /\ rest.mapNextTx = [o \in DOMAIN pool.mapNextTx \ spent |-> pool.mapNextTx[o]]
        BY DEF Without
    <1>2. ASSUME NEW tx \in rest.mapTx, NEW o \in Ins(tx)
          PROVE  o \in DOMAIN pool.mapNextTx /\ o \notin spent
        <2>1. tx \in pool.mapTx /\ tx \notin erased
            BY <1>1, <1>2
        <2>2. pool.mapNextTx[o] = tx
            BY <2>1, <1>2 DEF Exact
        <2>3. ASSUME NEW e \in erased, o \in Ins(e) PROVE FALSE
            <3>1. pool.mapNextTx[o] = e
                BY <2>3 DEF Exact
            <3> QED BY <2>1, <2>2, <3>1
        <2> QED BY <2>1, <2>3 DEF Exact
    <1>3. DOMAIN rest.mapNextTx = UNION {Ins(tx) : tx \in rest.mapTx}
        <2>1. ASSUME NEW o \in DOMAIN rest.mapNextTx
              PROVE  \E tx \in rest.mapTx : o \in Ins(tx)
            <3>1. o \in DOMAIN pool.mapNextTx /\ o \notin spent
                BY <1>1
            <3>2. PICK tx \in pool.mapTx : o \in Ins(tx)
                BY <3>1 DEF Exact
            <3>3. tx \notin erased
                BY <3>1, <3>2
            <3> QED BY <1>1, <3>2, <3>3
        <2>2. ASSUME NEW tx \in rest.mapTx, NEW o \in Ins(tx)
              PROVE  o \in DOMAIN rest.mapNextTx
            BY <1>1, <1>2
        <2> QED BY <2>1, <2>2
    <1>4. ASSUME NEW tx \in rest.mapTx, NEW o \in Ins(tx)
          PROVE  rest.mapNextTx[o] = tx
        BY <1>1, <1>2 DEF Exact
    <1> HIDE DEF rest
    <1>5. Exact(rest)
        BY <1>3, <1>4 DEF Exact
    <1> QED BY <1>5 DEF rest

LEMMA AddType ==
    ASSUME NEW pool, NEW tx \in Tx, IsPool(pool)
    PROVE  IsPool(addUnchecked(pool, tx))
    <1>1. /\ addUnchecked(pool, tx).mapTx = pool.mapTx \cup {tx}
          /\ addUnchecked(pool, tx).mapNextTx
                = [o \in DOMAIN pool.mapNextTx \cup Ins(tx) |->
                        IF o \in Ins(tx) THEN tx ELSE pool.mapNextTx[o]]
        BY DEF addUnchecked
    <1>2. addUnchecked(pool, tx) = [mapTx |-> addUnchecked(pool, tx).mapTx,
                                    mapNextTx |-> addUnchecked(pool, tx).mapNextTx]
        BY DEF addUnchecked
    <1> QED BY <1>1, <1>2, InsType DEF IsPool

LEMMA AddExact ==
    ASSUME NEW pool, NEW tx \in Tx, Exact(pool), MayEnter(pool, tx)
    PROVE  Exact(addUnchecked(pool, tx))
    <1> DEFINE more == addUnchecked(pool, tx)
    <1>1. /\ more.mapTx = pool.mapTx \cup {tx}
          /\ more.mapNextTx = [o \in DOMAIN pool.mapNextTx \cup Ins(tx) |->
                                  IF o \in Ins(tx) THEN tx ELSE pool.mapNextTx[o]]
        BY DEF addUnchecked
    <1>2. Ins(tx) \cap DOMAIN pool.mapNextTx = {}
        BY DEF MayEnter
    <1> HIDE DEF more
    <1>3. DOMAIN more.mapNextTx = UNION {Ins(t) : t \in more.mapTx}
        BY <1>1 DEF Exact
    <1>4. ASSUME NEW t \in more.mapTx, NEW o \in Ins(t) PROVE more.mapNextTx[o] = t
        BY <1>1, <1>2 DEF Exact
    <1>5. Exact(more)
        BY <1>3, <1>4 DEF Exact
    <1> QED BY <1>5 DEF more

-----------------------------------------------------------------------------
(* Every operation is an insertion or a removal of some set.               *)
LEMMA StepForms ==
    ASSUME [Next]_mempool
    PROVE  \/ UNCHANGED mempool
           \/ \E tx \in Tx : MayEnter(mempool, tx) /\ mempool' = addUnchecked(mempool, tx)
           \/ \E gone : mempool' = Without(mempool, gone)
           \/ \E first, gone : mempool' = Without(Without(mempool, first), gone)
           \/ mempool' = EmptyPool
    <1>1. ASSUME NEW tx \in Tx, Remove(tx) PROVE \E gone : mempool' = Without(mempool, gone)
        BY <1>1 DEF Remove, remove
    <1>2. ASSUME NEW tx \in Tx, Mined(tx)
          PROVE  \E first, gone : mempool' = Without(Without(mempool, first), gone)
        BY <1>2 DEF Mined, remove, removeConflicts
    <1> QED BY <1>1, <1>2 DEF Next, Accept, Clear

LEMMA EmptyPoolOK == IsPool(EmptyPool) /\ Exact(EmptyPool)
    BY DEF IsPool, Exact, EmptyPool

(* Every reachable pool is well typed.                                     *)
THEOREM TypeCorrect == Spec => []TypeOK
<1>0. TypeOK <=> IsPool(mempool)
    BY DEF TypeOK, IsPool
<1>1. Init => TypeOK
    BY <1>0, EmptyPoolOK DEF Init
<1>2. TypeOK /\ [Next]_mempool => TypeOK'
    <2> SUFFICES ASSUME IsPool(mempool), [Next]_mempool PROVE IsPool(mempool')
        BY <1>0 DEF TypeOK, IsPool
    <2> QED BY StepForms, AddType, WithoutType, EmptyPoolOK
<1> QED BY <1>1, <1>2, PTL DEF Spec

(* The index of spent outputs is exact in every reachable state.           *)
THEOREM IndexExact == Spec => []NextTxExact
<1>1. Init => NextTxExact
    BY EmptyPoolOK DEF Init, NextTxExact
<1>2. NextTxExact /\ [Next]_mempool => NextTxExact'
    <2> SUFFICES ASSUME Exact(mempool), [Next]_mempool PROVE Exact(mempool')
        BY DEF NextTxExact, Exact
    <2> QED BY StepForms, AddExact, WithoutExact, EmptyPoolOK
<1> QED BY <1>1, <1>2, PTL DEF Spec

(* No two transactions of the pool spend the same output.                  *)
THEOREM PoolNeverDoubleSpends == Spec => []NoDoubleSpend
<1>1. NextTxExact => NoDoubleSpend
    <2> SUFFICES ASSUME Exact(mempool), NEW t \in mempool.mapTx, NEW u \in mempool.mapTx,
                        NEW o \in Ins(t) \cap Ins(u)
                 PROVE  t = u
        BY DEF NextTxExact, NoDoubleSpend
    <2> QED BY DEF Exact
<1> QED BY <1>1, IndexExact, PTL

-----------------------------------------------------------------------------
(* What remove(tx, true) reaches is closed: with an exact index, a spender *)
(* of a descendant is a descendant.                                        *)
LEMMA SpendersInPool ==
    ASSUME NEW pool, NEW tx, Exact(pool)
    PROVE  Spenders(pool, tx) \subseteq pool.mapTx
    <1> SUFFICES ASSUME NEW o \in DOMAIN pool.mapNextTx PROVE pool.mapNextTx[o] \in pool.mapTx
        BY DEF Spenders
    <1>1. PICK u \in pool.mapTx : o \in Ins(u)
        BY DEF Exact
    <1> QED BY <1>1 DEF Exact

LEMMA DescendantsClosed ==
    ASSUME NEW pool, NEW tx, Exact(pool)
    PROVE  /\ Spenders(pool, tx) \subseteq Descendants(pool, tx)
           /\ \A d \in Descendants(pool, tx) : Spenders(pool, d) \subseteq Descendants(pool, tx)
    <1>1. ASSUME NEW x \in Spenders(pool, tx) PROVE x \in Descendants(pool, tx)
        BY SpendersInPool DEF Descendants
    <1>2. ASSUME NEW d \in Descendants(pool, tx), NEW x \in Spenders(pool, d)
          PROVE  x \in Descendants(pool, tx)
        <2>1. x \in pool.mapTx
            BY SpendersInPool
        <2> QED BY <2>1 DEF Descendants
    <1> QED BY <1>1, <1>2

(* Connecting a block's transaction leaves no contradiction in the pool.   *)
THEOREM MinedIsConsistent == Spec => MinedLeavesNoConflict
<1>1. NextTxExact /\ [Next]_mempool =>
        [\A tx \in Tx : Mined(tx) =>
          \A u \in mempool'.mapTx :
             /\ Ins(u) \cap Ins(tx) = {}
             /\ \A d \in mempool.mapTx \ (mempool'.mapTx \cup {tx}) :
                   \A o \in Ins(u) : o[1] # d]_mempool
    <2> SUFFICES ASSUME NextTxExact, NEW tx \in Tx, Mined(tx), NEW u \in mempool'.mapTx
                 PROVE  /\ Ins(u) \cap Ins(tx) = {}
                        /\ \A d \in mempool.mapTx \ (mempool'.mapTx \cup {tx}) :
                              \A o \in Ins(u) : o[1] # d
        OBVIOUS
    <2> DEFINE pool == remove(mempool, tx, FALSE)
               gone == Conflicts(pool, tx)
                         \cup UNION {Descendants(pool, c) : c \in Conflicts(pool, tx)}
    <2>1. Exact(pool)
        BY WithoutExact DEF NextTxExact, remove
    <2>2. pool.mapTx = mempool.mapTx \ {tx}
        BY DEF remove, Without
    <2>3. mempool'.mapTx = pool.mapTx \ gone
        BY DEF Mined, removeConflicts, Without
    <2> HIDE DEF pool
    <2>4. u \in pool.mapTx /\ u \notin gone /\ u # tx
        BY <2>2, <2>3
    <2>5. ASSUME NEW o \in Ins(u) \cap Ins(tx) PROVE FALSE
        <3>1. o \in DOMAIN pool.mapNextTx /\ pool.mapNextTx[o] = u
            BY <2>1, <2>4 DEF Exact
        <3>2. u \in Conflicts(pool, tx)
            BY <3>1, <2>4 DEF Conflicts
        <3> QED BY <3>2, <2>4
    <2>6. ASSUME NEW d \in mempool.mapTx \ (mempool'.mapTx \cup {tx}), NEW o \in Ins(u), o[1] = d
          PROVE  FALSE
        <3>1. d \in gone
            BY <2>2, <2>3
        <3>2. u \in Spenders(pool, d)
            BY <2>1, <2>4, <2>6 DEF Exact, Spenders
        <3>3. CASE d \in Conflicts(pool, tx)
            BY <3>2, <3>3, <2>1, <2>4, DescendantsClosed
        <3>4. CASE \E c \in Conflicts(pool, tx) : d \in Descendants(pool, c)
            BY <3>2, <3>4, <2>1, <2>4, DescendantsClosed
        <3> QED BY <3>1, <3>3, <3>4
    <2> QED BY <2>5, <2>6
<1> QED BY <1>1, IndexExact, PTL DEF Spec, MinedLeavesNoConflict
=============================================================================
