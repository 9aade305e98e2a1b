------------------------------ MODULE OrphanTx ------------------------------
(***************************************************************************)
(* The orphan transaction pool of main.cpp: transactions whose inputs are  *)
(* not known yet, and the index from an input's transaction hash to the    *)
(* orphans waiting for it.  Both maps are changed only by the "tx" message *)
(* handler, which runs to completion under cs_main; the handler is one     *)
(* action for each outcome of AcceptToMemoryPool.                          *)
(***************************************************************************)
EXTENDS Naturals, FiniteSets

CONSTANTS
    Tx,                       \* transactions a peer may send
    Hash,                     \* transaction hashes, those of Tx included
    Prev,                     \* Prev[tx]: the hashes of the prevouts of tx.vin
    Large,                    \* transactions that serialize to over 5000 bytes
    MAX_ORPHAN_TRANSACTIONS   \* main.h: 10000

ASSUME PrevAssumption ==
    /\ Tx \subseteq Hash
    /\ Prev \in [Tx -> (SUBSET Hash) \ {{}}]
    /\ \A tx \in Tx : tx \notin Prev[tx]
    /\ Large \subseteq Tx

ASSUME MaxAssumption == MAX_ORPHAN_TRANSACTIONS \in Nat

VARIABLES
    mapOrphanTransactions,        \* the orphans (the keys of the map)
    mapOrphanTransactionsByPrev   \* hash -> set of orphans, a partial function

vars == <<mapOrphanTransactions, mapOrphanTransactionsByPrev>>

-----------------------------------------------------------------------------
(* std::map::operator[]: an absent key reads as the empty set ...          *)
At(by, hash) == IF hash \in DOMAIN by THEN by[hash] ELSE {}

(* ... and is inserted by the read.                                        *)
Touched(by, hash) == [h \in DOMAIN by \cup {hash} |-> At(by, h)]

(* AddOrphanTx: refused when already held or too large.                    *)
MayAdd(tx) == tx \notin mapOrphanTransactions /\ tx \notin Large

(* Faulty form: the prevout's hash is inserted instead of the orphan's.    *)
IndexedSwapped(by, tx) ==
    [h \in DOMAIN by \cup Prev[tx] |->
        At(by, h) \cup (IF h \in Prev[tx] THEN {h} ELSE {})]

Indexed(by, tx) ==
    [h \in DOMAIN by \cup Prev[tx] |->
        At(by, h) \cup (IF h \in Prev[tx] THEN {tx} ELSE {})]

(* Faulty form: only entries that keep another orphan are updated.         *)
UnindexedIfShared(by, gone) ==
    [h \in DOMAIN by |-> IF Cardinality(by[h]) > 1 THEN by[h] \ gone ELSE by[h]]

(* EraseOrphanTx for every orphan of the set gone: each prevout's set      *)
(* loses the orphan, and a set this leaves empty loses its key.            *)
Unindexed(by, gone) ==
    LET Rest(h) == by[h] \ {tx \in gone : h \in Prev[tx]}
    IN  [h \in {k \in DOMAIN by :
                    (\E tx \in gone : k \in Prev[tx]) => Rest(k) # {}}
            |-> Rest(h)]

(* Faulty forms: the loop stops one late, or one early.                    *)
EvictionsLate(orphans) ==
    {gone \in SUBSET orphans :
        Cardinality(gone) = IF Cardinality(orphans) > MAX_ORPHAN_TRANSACTIONS + 1
                            THEN 1 ELSE 0}
EvictionsEarly(orphans) ==
    {gone \in SUBSET orphans :
        Cardinality(gone) = IF Cardinality(orphans) >= MAX_ORPHAN_TRANSACTIONS
                            THEN Cardinality(orphans) + 1 - MAX_ORPHAN_TRANSACTIONS
                            ELSE 0}

(* LimitOrphanTxSize: while the pool is over the limit an orphan drawn by  *)
(* a random hash is erased, so any set of the excess size may be evicted.  *)
Evictions(orphans) ==
    {gone \in SUBSET orphans :
        Cardinality(gone) = IF Cardinality(orphans) > MAX_ORPHAN_TRANSACTIONS
                            THEN Cardinality(orphans) - MAX_ORPHAN_TRANSACTIONS
                            ELSE 0}

-----------------------------------------------------------------------------
(* The handler when AcceptToMemoryPool accepts tx.  The work queue holds   *)
(* tx only: the loop over its dependents calls tx.AcceptToMemoryPool - on  *)
(* the transaction that is already in the pool, not on the orphan - which  *)
(* returns false without missing inputs, so every dependent goes to        *)
(* vEraseQueue and none to vWorkQueue.                                     *)
TxAccepted(tx) ==
    LET dependents == At(mapOrphanTransactionsByPrev, tx)
        gone       == ({tx} \cup dependents) \cap mapOrphanTransactions
    IN  /\ mapOrphanTransactions' = mapOrphanTransactions \ gone
        /\ mapOrphanTransactionsByPrev' =
              Unindexed(Touched(mapOrphanTransactionsByPrev, tx), gone)

(* The handler when AcceptToMemoryPool reports missing inputs: AddOrphanTx *)
(* and then LimitOrphanTxSize, whether or not the orphan was added.        *)
TxMissingInputs(tx) ==
    LET orphans == mapOrphanTransactions \cup (IF MayAdd(tx) THEN {tx} ELSE {})
        by      == IF MayAdd(tx) THEN Indexed(mapOrphanTransactionsByPrev, tx)
                   ELSE mapOrphanTransactionsByPrev
    IN  \E gone \in Evictions(orphans) :
            /\ mapOrphanTransactions' = orphans \ gone
            /\ mapOrphanTransactionsByPrev' = Unindexed(by, gone)

Init ==
    /\ mapOrphanTransactions = {}
    /\ mapOrphanTransactionsByPrev = [h \in {} |-> {}]

Next == \E tx \in Tx : TxAccepted(tx) \/ TxMissingInputs(tx)

Spec == Init /\ [][Next]_vars

-----------------------------------------------------------------------------
(* Type invariant: the pool holds transactions, the index maps hashes to   *)
(* sets of transactions.                                                   *)
TypeOK ==
    /\ mapOrphanTransactions \in SUBSET Tx
    /\ IsFiniteSet(mapOrphanTransactions)
    /\ DOMAIN mapOrphanTransactionsByPrev \subseteq Hash
    /\ mapOrphanTransactionsByPrev \in
          [DOMAIN mapOrphanTransactionsByPrev -> SUBSET Tx]

(* The index is exact: under each hash it lists all the orphans that have  *)
(* an input from that transaction and nothing else.  The handler reads     *)
(* mapOrphanTransactions[orphanHash] for every listed hash: a stale one    *)
(* would insert an empty transaction into the pool.                        *)
OrphanIndexExact ==
    \A h \in Hash : At(mapOrphanTransactionsByPrev, h)
                        = {tx \in mapOrphanTransactions : h \in Prev[tx]}

(* Between two messages the pool never holds more than                     *)
(* MAX_ORPHAN_TRANSACTIONS orphans, whatever order they arrive in.         *)
OrphanLimit == Cardinality(mapOrphanTransactions) <= MAX_ORPHAN_TRANSACTIONS

(* An orphan leaves the pool only by eviction from a full pool, or because *)
(* it or a transaction it spends from has been accepted: the handler never *)
(* drops an unrelated orphan.                                              *)
OrphanLeavesForAReason ==
    [][\A tx \in mapOrphanTransactions \ mapOrphanTransactions' :
          \/ Cardinality(mapOrphanTransactions') = MAX_ORPHAN_TRANSACTIONS
          \/ \E h \in {tx} \cup Prev[tx] : TxAccepted(h)]_vars

(* test/DoS_tests.cpp: once the last orphan is gone the index is empty     *)
(* too.  The "tx" handler's operator[] leaves an empty entry behind for    *)
(* every accepted transaction nobody was waiting for.                      *)
IndexEmptyWithoutOrphans ==
    mapOrphanTransactions = {} => DOMAIN mapOrphanTransactionsByPrev = {}
=============================================================================
