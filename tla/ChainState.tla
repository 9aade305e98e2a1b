----------------------------- MODULE ChainState -----------------------------
(***************************************************************************)
(* The best chain, its coin view and the memory pool together: what        *)
(* SetBestChain (main.cpp) does when the tip moves, and what               *)
(* CTxMemPool::accept decides from the coin view.  Everything runs under   *)
(* cs_main, so each call is one step.                                      *)
(***************************************************************************)
EXTENDS Coins

CONSTANT
    Path    \* Path[b]: the blocks from height 1 to b, which pprev leads to

ASSUME PathAssumption ==
    \A b \in Block :
        /\ Path[b] \in Seq(Block) /\ Path[b] # <<>> /\ Path[b][Len(Path[b])] = b
        /\ \A h \in DOMAIN Path[b] : Path[Path[b][h]] = SubSeq(Path[b], 1, h)

VARIABLES
    chain,     \* the best chain above the genesis block; chain[h] has height h
    coins,     \* the contents of pcoinsTip
    cached,    \* pruned entries that are still in pcoinsTip's cacheCoins
    undo,      \* undo data on disk, for the blocks that have connected once
    mempool    \* CTxMemPool

Pool == INSTANCE TxMemPool

vars == <<chain, coins, cached, undo, mempool>>

-----------------------------------------------------------------------------
(* Work is one unit per block.                                             *)
MoreWork(b) == Len(Path[b]) > Len(chain)

MEMPOOL_HEIGHT == 2147483647

(* CCoinsViewMemPool: the chain's entry first - a pruned one too, while it *)
(* is cached - then the pool's.                                            *)
ViewHas(view, held, pool, tx) == view[tx].vout # {} \/ tx \in held \/ tx \in pool.mapTx

ViewCoins(view, held, pool) ==
    [tx \in Tx |-> IF view[tx].vout = {} /\ tx \notin held /\ tx \in pool.mapTx
                   THEN CCoins(tx, MEMPOOL_HEIGHT) ELSE view[tx]]

(* CTxMemPool::accept with fCheckInputs on a view whose tip has height h.  *)
(* The transactions are standard, final and pay the fees the relay policy  *)
(* asks for.                                                               *)
MayAccept(view, held, pool, tx, h) ==
    /\ Pool!MayEnter(pool, tx)
    /\ ~ViewHas(view, held, pool, tx)
    /\ \A o \in Pool!Ins(tx) : ViewHas(view, held, pool, o[1])
    /\ CheckInputs(ViewCoins(view, held, pool), tx, h + 1)

-----------------------------------------------------------------------------
(* The parts of SetBestChain(pindexNew), for the new best chain new.       *)
ForkHeight(new) ==
    Max({n \in 0..Len(chain) : n <= Len(new) /\ \A h \in 1..n : chain[h] = new[h]})

(* The blocks above the fork are disconnected, the tip first, while it     *)
(* goes cleanly.                                                           *)
DisconnectOne(st, h) ==
    IF st.fClean THEN DisconnectBlock(st.view, chain[h], h, undo[chain[h]]) ELSE st

Disconnected(new) ==
    LET n == Len(chain)
        st[k \in 0..(n - ForkHeight(new))] ==
            IF k = 0 THEN [fClean |-> TRUE, view |-> coins]
            ELSE DisconnectOne(st[k - 1], n + 1 - k)
    IN  st[n - ForkHeight(new)]

(* ConnectBlock of one block; undo data already on disk is kept.           *)
ConnectOne(st, b, h) ==
    LET r == ConnectBlock(st.view, b, h)
    IN  IF ~st.ok \/ ~r.ok
        THEN [st EXCEPT !.ok = FALSE]
        ELSE [ok   |-> TRUE,
              view |-> r.view,
              undo |-> [c \in DOMAIN st.undo \cup {b} |->
                           IF c \in DOMAIN st.undo THEN st.undo[c] ELSE r.undo]]

Connected(new) ==
    LET f == ForkHeight(new)
        st[k \in 0..(Len(new) - f)] ==
            IF k = 0 THEN [ok |-> TRUE, view |-> Disconnected(new).view, undo |-> undo]
            ELSE ConnectOne(st[k - 1], new[f + k], f + k)
    IN  st[Len(new) - f]

(* Transactions of the blocks from the fork on, in the order SetBestChain  *)
(* queues them: disconnected blocks tip first and without their coinbase,  *)
(* connected ones tip last.  The blocks are above the last checkpoint.     *)
vResurrect(new) ==
    LET n == Len(chain)
        q[k \in 0..(n - ForkHeight(new))] ==
            IF k = 0 THEN <<>> ELSE q[k - 1] \o Tail(vtx[chain[n + 1 - k]])
    IN  q[n - ForkHeight(new)]

vDelete(new) ==
    LET f == ForkHeight(new)
        q[k \in 0..(Len(new) - f)] == IF k = 0 THEN <<>> ELSE q[k - 1] \o vtx[new[f + k]]
    IN  q[Len(new) - f]

(* Faulty form: a transaction that cannot come back leaves its descendants.*)
ResurrectShallow(view, held, pool, tx, h) ==
    IF MayAccept(view, held, pool, tx, h)
    THEN Pool!addUnchecked(pool, tx) ELSE Pool!remove(pool, tx, FALSE)

(* Faulty form: nothing is resurrected.                                    *)
ResurrectNone(view, held, pool, tx, h) == Pool!remove(pool, tx, TRUE)

Resurrect(view, held, pool, tx, h) ==
    IF MayAccept(view, held, pool, tx, h)
    THEN Pool!addUnchecked(pool, tx) ELSE Pool!remove(pool, tx, TRUE)

DeleteMined(pool, tx) == Pool!removeConflicts(Pool!remove(pool, tx, FALSE), tx)

(* The two loops of SetBestChain over the pool.                            *)
Resurrected(new, view, held) ==
    LET q == vResurrect(new)
        pool[k \in 0..Len(q)] ==
            IF k = 0 THEN mempool ELSE Resurrect(view, held, pool[k - 1], q[k], Len(new))
    IN  pool[Len(q)]

Purged(new, back) ==
    LET q == vDelete(new)
        pool[k \in 0..Len(q)] == IF k = 0 THEN back ELSE DeleteMined(pool[k - 1], q[k])
    IN  pool[Len(q)]

(* Faulty form: live entries are counted among them.                       *)
TouchedPrunedOrNot(new, view) ==
    cached \cup ToSet(vDelete(new)) \cup
        UNION {ToSet(vtx[chain[h]]) : h \in (ForkHeight(new) + 1)..Len(chain)}

(* The pruned entries pcoinsTip holds once the view is flushed into it:    *)
(* all that the view has touched.                                          *)
TouchedPruned(new, view) ==
    LET moved == ToSet(vDelete(new)) \cup
                 UNION {ToSet(vtx[chain[h]]) : h \in (ForkHeight(new) + 1)..Len(chain)}
        touched == moved \cup {o[1] : o \in UNION {Pool!Ins(tx) : tx \in moved}}
    IN  {tx \in cached \cup touched : view[tx].vout = {}}

-----------------------------------------------------------------------------
(* AcceptToMemoryPool from a peer, the wallet or RPC.                      *)
AcceptToMemoryPool(tx) ==
    /\ MayAccept(coins, cached, mempool, tx, Len(chain))
    /\ mempool' = Pool!addUnchecked(mempool, tx)
    /\ UNCHANGED <<chain, coins, cached, undo>>

(* SetBestChain succeeds.  fFlush: pcoinsTip is written out and its cache  *)
(* cleared, as always outside the initial download.                        *)
SetBestChain(b, fFlush) ==
    LET new  == Path[b]
        con  == Connected(new)
        held == IF fFlush THEN {} ELSE TouchedPruned(new, con.view)
    IN  /\ MoreWork(b)
        /\ Disconnected(new).fClean
        /\ con.ok
        /\ chain' = new
        /\ coins' = con.view
        /\ cached' = held
        /\ undo' = con.undo
        /\ mempool' = Purged(new, Resurrected(new, con.view, held))

(* SetBestChain fails while connecting: the temporary view is dropped, the *)
(* undo data of the blocks that did connect stays on disk.                 *)
SetBestChainFails(b) ==
    /\ MoreWork(b)
    /\ Disconnected(Path[b]).fClean
    /\ ~Connected(Path[b]).ok
    /\ undo' = Connected(Path[b]).undo
    /\ UNCHANGED <<chain, coins, cached, mempool>>

(* Shutdown flushes pcoinsTip; the pool does not survive.                  *)
Restart ==
    /\ mempool' = Pool!EmptyPool
    /\ cached' = {}
    /\ UNCHANGED <<chain, coins, undo>>

Init ==
    /\ chain = <<>>
    /\ coins = NoCoins
    /\ cached = {}
    /\ undo = [b \in {} |-> <<>>]
    /\ mempool = Pool!EmptyPool

Next ==
    \/ \E tx \in Tx : AcceptToMemoryPool(tx)
    \/ \E b \in Block : \/ \E fFlush \in BOOLEAN : SetBestChain(b, fFlush)
                        \/ SetBestChainFails(b)
    \/ Restart

Spec == Init /\ [][Next]_vars

-----------------------------------------------------------------------------
(* The places of a chain, in the order its transactions are connected.     *)
Places(c) == UNION {{h} \X DOMAIN vtx[c[h]] : h \in DOMAIN c}
TxAt(c, p) == vtx[c[p[1]]][p[2]]
Before(p, q) == p[1] < q[1] \/ (p[1] = q[1] /\ p[2] < q[2])
End(c) == <<Len(c) + 1, 1>>

Upto(c, end) == {p \in Places(c) : Before(p, end)}
InChain(c, tx) == \E p \in Places(c) : TxAt(c, p) = tx

(* Before end, chain c has made output o and has not spent it since.       *)
Unspent(c, o, end) ==
    LET past == Upto(c, end)
    IN  \E p \in past : /\ TxAt(c, p) = o[1]
                       /\ \A q \in past : Before(p, q) => o \notin Pool!Ins(TxAt(c, q))

(* h is the height of the last occurrence of tx before end.                *)
LastAt(c, tx, h, end) ==
    LET past == Upto(c, end)
    IN  \E p \in past : /\ TxAt(c, p) = tx /\ p[1] = h
                       /\ \A q \in past : Before(p, q) => TxAt(c, q) # tx

(* Type invariant of the chain state.                                      *)
TypeOK ==
    /\ chain \in Seq(Block)
    /\ \A tx \in Tx : coins[tx].vout \subseteq DOMAIN vout[tx] /\ coins[tx].nHeight \in Nat
    /\ cached \subseteq {tx \in Tx : coins[tx].vout = {}}
    /\ Pool!TypeOK

(* The coin view is the chain's, after any number of connects, reorganised *)
(* blocks and failed attempts: an output is available exactly when the     *)
(* best chain has made it and not spent it since, at the height of the     *)
(* last block that makes it.  And the chain is one that could be: each     *)
(* transaction has spent outputs that were unspent, and has overwritten    *)
(* none of its own.                                                        *)
CoinsMatchChain ==
    /\ \A tx \in Tx :
          /\ \A n \in DOMAIN vout[tx] :
                n \in coins[tx].vout <=> Unspent(chain, <<tx, n>>, End(chain))
          /\ coins[tx].vout # {} => LastAt(chain, tx, coins[tx].nHeight, End(chain))
    /\ \A p \in Places(chain) :
          /\ \A o \in Pool!Ins(TxAt(chain, p)) : Unspent(chain, o, p)
          /\ \A n \in DOMAIN vout[TxAt(chain, p)] : ~Unspent(chain, <<TxAt(chain, p), n>>, p)

(* The value of the outputs that a view has of tx.                         *)
Worth(view, tx) ==
    Total([n \in DOMAIN vout[tx] |-> IF n \in view[tx].vout THEN vout[tx][n] ELSE 0])

(* Connecting and disconnecting create no money: the unspent outputs are   *)
(* worth at most the subsidies of the blocks of the best chain.            *)
NoInflation ==
    MapThenSumSet(LAMBDA tx : Worth(coins, tx), Tx)
        <= Total([h \in DOMAIN chain |-> Subsidy(h)])

(* The coinbases that a chain has held twice, given the blocks that have   *)
(* connected.  Nothing makes a coinbase name its height: the check in      *)
(* AcceptBlock waits for IsSuperMajority, which returns false, and BIP30   *)
(* in ConnectBlock only asks that the outputs of the first are all spent.  *)
Repeated(blocks) ==
    {vtx[b][1] : b \in {c \in blocks :
        \E h \in 1..(Len(Path[c]) - 1) : vtx[Path[c][h]][1] = vtx[c][1]}}

(* A transaction and those it depends on.                                  *)
Ancestry[tx \in Tx] == {tx} \cup UNION {Ancestry[o[1]] : o \in Pool!Ins(tx)}

(* The transactions that come from no repeated coinbase.                   *)
FromSingle(blocks) ==
    LET repeated == Repeated(blocks)
    IN  {tx \in Tx : Ancestry[tx] \cap repeated = {}}

(* The pool after a reorganisation still makes sense against the chain: no *)
(* pool transaction is in the chain, and each input is unspent in the      *)
(* chain or made by the pool.  The code leaves two exceptions.  An output  *)
(* of a coinbase that a reorganisation took out of the chain stays an      *)
(* input of pool transactions.  And once a coinbase is repeated a payment  *)
(* from it can enter the pool although the chain has it, and has spent     *)
(* what it pays, or has spent the first coinbase otherwise: after a        *)
(* reorganisation the pool may hold a transaction that is unspent in the   *)
(* chain, or one whose inputs the chain has spent.                         *)
PoolFollowsChain ==
    LET single == FromSingle(DOMAIN undo)
    IN  \A tx \in mempool.mapTx :
            /\ coins[tx].vout = {} \/ tx \notin single
            /\ \A o \in Pool!Ins(tx) : \/ IsAvailable(coins, o)
                                       \/ o[1] \in mempool.mapTx
                                       \/ o[1] \in CoinBase /\ ~InChain(chain, o[1])
                                       \/ o[1] \notin single

(* A reorganisation outside the initial download does not lose payments: a *)
(* transaction of a disconnected block whose inputs the new chain still    *)
(* has, and may spend, is in the pool: nothing there can stand in its way. *)
(* The code leaves two exceptions.  A payment from a transaction that both *)
(* branches hold: the queue has the later block first, and when its        *)
(* parent's turn comes the parent, which the new chain has, is removed     *)
(* with its children.  And a payment from a repeated coinbase: where the   *)
(* new chain has spent the first one, the payment it did so with takes     *)
(* out of the pool what could be paid from the second.                     *)
ReorgKeepsPayments ==
    [][cached' = {} =>
         LET gone == (UNION {ToSet(vtx[b]) : b \in ToSet(chain) \ ToSet(chain')}) \ CoinBase
         IN  \A tx \in gone :
                /\ CheckInputs(coins', tx, Len(chain') + 1)
                /\ \A o \in Pool!Ins(tx) : o[1] \notin gone
                => tx \in mempool'.mapTx \/ tx \notin FromSingle(DOMAIN undo')]_vars
=============================================================================
