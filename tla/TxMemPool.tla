----------------------------- MODULE TxMemPool -----------------------------
(***************************************************************************)
(* CTxMemPool (main.h, main.cpp): the transactions waiting for a block, and*)
(* mapNextTx, the index from each output they spend to the spender.  An    *)
(* entry of mapNextTx is a pointer into mapTx, so an entry whose           *)
(* transaction has left mapTx is a dangling pointer.                       *)
(*                                                                         *)
(* The operators take the pool as an argument, so that ChainState can      *)
(* apply several of them inside one reorganisation; the specification at   *)
(* the end runs them one at a time, in any order.                          *)
(***************************************************************************)
EXTENDS Naturals, Sequences, FiniteSets

CONSTANTS
    Tx,         \* transactions
    vin,        \* vin[tx]: the outpoints tx spends, a sequence of <<tx, n>>
    CoinBase    \* the coinbase transactions

ASSUME VinAssumption ==
    /\ CoinBase \subseteq Tx
    /\ \A tx \in Tx : vin[tx] \in Seq(Tx \X Nat)

OutPoint == Tx \X Nat

(* The set of prevouts of tx.                                              *)
Ins(tx) == {vin[tx][i] : i \in DOMAIN vin[tx]}

VARIABLE mempool    \* [mapTx |-> set of tx, mapNextTx |-> outpoint -> tx]

EmptyPool == [mapTx |-> {}, mapNextTx |-> [o \in {} |-> {}]]

-----------------------------------------------------------------------------
(* Faulty form of MayEnter: the conflict loop is missing.                  *)
MayEnterUnlessHeld(pool, tx) ==
    /\ tx \notin CoinBase
    /\ tx \notin pool.mapTx

(* The part of accept() that looks at the pool alone: no coinbase, no      *)
(* transaction already held, and no prevout that a pool transaction        *)
(* spends (the replacement code after "return false" is dead).             *)
MayEnter(pool, tx) ==
    /\ tx \notin CoinBase
    /\ tx \notin pool.mapTx
    /\ Ins(tx) \cap DOMAIN pool.mapNextTx = {}

(* Faulty form: the index keeps the outpoint, not its spender.             *)
addUncheckedOutPoint(pool, tx) ==
    [mapTx     |-> pool.mapTx \cup {tx},
     mapNextTx |-> [o \in DOMAIN pool.mapNextTx \cup Ins(tx) |->
                        IF o \in Ins(tx) THEN o ELSE pool.mapNextTx[o]]]

addUnchecked(pool, tx) ==
    [mapTx     |-> pool.mapTx \cup {tx},
     mapNextTx |-> [o \in DOMAIN pool.mapNextTx \cup Ins(tx) |->
                        IF o \in Ins(tx) THEN tx ELSE pool.mapNextTx[o]]]

(* Faulty form: mapNextTx keeps its pointers.                              *)
WithoutKeepingNext(pool, gone) ==
    [mapTx |-> pool.mapTx \ gone, mapNextTx |-> pool.mapNextTx]

(* The body of remove() for every transaction of gone that the pool holds. *)
Without(pool, gone) ==
    LET erased == gone \cap pool.mapTx
        spent  == UNION {Ins(tx) : tx \in erased}
    IN  [mapTx     |-> pool.mapTx \ erased,
         mapNextTx |-> [o \in DOMAIN pool.mapNextTx \ spent |-> pool.mapNextTx[o]]]

(* The pool transactions found in mapNextTx under the outputs of tx ...    *)
Spenders(pool, tx) ==
    {pool.mapNextTx[o] : o \in {p \in DOMAIN pool.mapNextTx : p[1] = tx}}

(* ... and all those remove(tx, true) reaches from there: the least set    *)
(* that holds the spenders of tx and the spenders of its own members.      *)
Descendants(pool, tx) ==
    LET Closed(S) == /\ Spenders(pool, tx) \subseteq S
                     /\ \A d \in S : Spenders(pool, d) \subseteq S
    IN  {d \in pool.mapTx : \A S \in SUBSET pool.mapTx : Closed(S) => d \in S}

remove(pool, tx, fRecursive) ==
    Without(pool, {tx} \cup (IF fRecursive THEN Descendants(pool, tx) ELSE {}))

(* removeConflicts(tx): every other pool transaction that spends one of    *)
(* the prevouts of tx is removed with its descendants.                     *)
Conflicts(pool, tx) ==
    {pool.mapNextTx[o] : o \in Ins(tx) \cap DOMAIN pool.mapNextTx} \ {tx}

(* Faulty form: the conflicts go, their descendants stay.                  *)
removeConflictsShallow(pool, tx) == Without(pool, Conflicts(pool, tx))

removeConflicts(pool, tx) ==
    Without(pool, Conflicts(pool, tx)
                    \cup UNION {Descendants(pool, c) : c \in Conflicts(pool, tx)})

-----------------------------------------------------------------------------
(* accept(), when the coin view (not part of the pool) agrees.             *)
Accept(tx) ==
    /\ MayEnter(mempool, tx)
    /\ mempool' = addUnchecked(mempool, tx)

Remove(tx) == \E fRecursive \in BOOLEAN : mempool' = remove(mempool, tx, fRecursive)

(* A block with tx has been connected: SetBestChain's vDelete loop.        *)
Mined(tx) == mempool' = removeConflicts(remove(mempool, tx, FALSE), tx)

Clear == mempool' = EmptyPool

Init == mempool = EmptyPool

Next == (\E tx \in Tx : Accept(tx) \/ Remove(tx) \/ Mined(tx)) \/ Clear

Spec == Init /\ [][Next]_mempool

-----------------------------------------------------------------------------
(* Type invariant: a pool of transactions and an index on outpoints.       *)
TypeOK ==
    /\ mempool.mapTx \in SUBSET Tx
    /\ DOMAIN mempool.mapNextTx \subseteq OutPoint
    /\ mempool.mapNextTx \in [DOMAIN mempool.mapNextTx -> Tx]
    /\ mempool = [mapTx |-> mempool.mapTx, mapNextTx |-> mempool.mapNextTx]

(* mapNextTx is the exact index of the pool: its keys are the outputs the  *)
(* pool spends, and each points to the live pool transaction that spends   *)
(* it.  remove() and removeConflicts() dereference these pointers.         *)
Exact(pool) ==
    /\ DOMAIN pool.mapNextTx = UNION {Ins(tx) : tx \in pool.mapTx}
    /\ \A tx \in pool.mapTx : \A o \in Ins(tx) : pool.mapNextTx[o] = tx

NextTxExact == Exact(mempool)

(* No output is spent by two pool transactions, whatever the order of      *)
(* arrivals, removals and blocks.                                          *)
NoDoubleSpend ==
    \A t, u \in mempool.mapTx : t # u => Ins(t) \cap Ins(u) = {}

(* When a block's transaction is taken out of the pool, nothing stays that *)
(* contradicts it: neither a transaction spending one of its prevouts, nor *)
(* one that spends from a transaction the step dropped as a conflict.      *)
MinedLeavesNoConflict ==
    [][\A tx \in Tx : Mined(tx) =>
          \A u \in mempool'.mapTx :
             /\ Ins(u) \cap Ins(tx) = {}
             /\ \A d \in mempool.mapTx \ (mempool'.mapTx \cup {tx}) :
                   \A o \in Ins(u) : o[1] # d]_mempool
=============================================================================
