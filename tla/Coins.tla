------------------------------- MODULE Coins -------------------------------
(***************************************************************************)
(* The unspent outputs of a chain (CCoins, main.h) and what connecting and *)
(* disconnecting a block does to them (CTransaction::UpdateCoins,          *)
(* CBlock::ConnectBlock, CBlock::DisconnectBlock, main.cpp).  A coin view  *)
(* is a function from transactions to CCoins records; an entry without     *)
(* outputs is a pruned one.                                                *)
(***************************************************************************)
EXTENDS Integers, Sequences, SequencesExt, FiniteSets, FiniteSetsExt

CONSTANTS
    Tx,                  \* transactions
    vin,                 \* vin[tx]: sequence of outpoints <<tx, n>>, n from 1
    vout,                \* vout[tx]: sequence of output values
    CoinBase,            \* the coinbase transactions
    BadScript,           \* transactions with a scriptSig that does not verify
    Block,               \* blocks, the genesis block excepted
    vtx,                 \* vtx[b]: sequence of transactions, the coinbase first
    COINBASE_MATURITY,
    INITIAL_SUBSIDY,     \* GetBlockValue: 500 COIN ...
    HALVING              \* ... halved every 100000 blocks

(* What CheckTransaction and CheckBlock have made sure of: a transaction   *)
(* has no input twice, and none only if it is a coinbase; a block has no   *)
(* transaction twice, and one coinbase, the first.                         *)
ASSUME BlockAssumption ==
    /\ IsFiniteSet(Tx) /\ CoinBase \subseteq Tx /\ BadScript \subseteq Tx
    /\ \A tx \in Tx : /\ vin[tx] \in Seq(Tx \X (Nat \ {0}))
                      /\ \A i, j \in DOMAIN vin[tx] : vin[tx][i] = vin[tx][j] => i = j
                      /\ vout[tx] \in Seq(Nat)
                      /\ tx \in CoinBase <=> vin[tx] = <<>>
    /\ \A b \in Block : /\ vtx[b] \in Seq(Tx) /\ vtx[b] # <<>>
                        /\ \A i, j \in DOMAIN vtx[b] : vtx[b][i] = vtx[b][j] => i = j
                        /\ \A i \in DOMAIN vtx[b] : vtx[b][i] \in CoinBase <=> i = 1
    /\ COINBASE_MATURITY \in Nat /\ INITIAL_SUBSIDY \in Nat /\ HALVING \in Nat \ {0}

-----------------------------------------------------------------------------
(* CCoins(tx, nHeight), and CCoins().                                      *)
CCoins(tx, nHeight) == [vout |-> DOMAIN vout[tx], nHeight |-> nHeight]
Pruned == [vout |-> {}, nHeight |-> 0]

NoCoins == [tx \in Tx |-> Pruned]

IsAvailable(view, o) == o[2] \in view[o[1]].vout

HaveInputs(view, tx) == \A i \in DOMAIN vin[tx] : IsAvailable(view, vin[tx][i])

Total(values) ==
    LET sum[i \in 0..Len(values)] == IF i = 0 THEN 0 ELSE sum[i - 1] + values[i]
    IN  sum[Len(values)]

GetValueOut(tx) == Total(vout[tx])
GetValueIn(tx)  == Total([i \in DOMAIN vin[tx] |-> vout[vin[tx][i][1]][vin[tx][i][2]]])

(* CheckInputs after HaveInputs: coinbase outputs are spent at depth       *)
(* COINBASE_MATURITY or more, no value is created, the scripts verify.     *)
CheckInputs(view, tx, nSpendHeight) ==
    /\ HaveInputs(view, tx)
    /\ \A i \in DOMAIN vin[tx] :
          vin[tx][i][1] \in CoinBase =>
             nSpendHeight - view[vin[tx][i][1]].nHeight >= COINBASE_MATURITY
    /\ GetValueIn(tx) >= GetValueOut(tx)
    /\ tx \notin BadScript

(* The outputs of t that inputs 1 to i of tx spend.                        *)
SpentOf(t, tx, i) == {vin[tx][j][2] : j \in {k \in 1..i : vin[tx][k][1] = t}}

(* CCoins::Spend of input i: the undo record carries the height of the     *)
(* transaction only when its last output goes, and 0 otherwise.            *)
Spend(view, tx, i) ==
    LET t == vin[tx][i][1]
    IN  IF view[t].vout \subseteq SpentOf(t, tx, i) THEN view[t].nHeight ELSE 0

(* UpdateCoins: all the inputs are spent in order, then the outputs added. *)
UpdateCoins(view, tx, nHeight) ==
    [view |-> [t \in Tx |-> IF t = tx THEN CCoins(tx, nHeight)
                            ELSE [view[t] EXCEPT !.vout = @ \ SpentOf(t, tx, Len(vin[tx]))]],
     undo |-> [i \in 1..Len(vin[tx]) |-> Spend(view, tx, i)]]

(* The subsidy is halved by a shift, once per HALVING blocks.              *)
Subsidy(nHeight) ==
    LET halved[k \in 0..(nHeight \div HALVING)] ==
            IF k = 0 THEN INITIAL_SUBSIDY ELSE halved[k - 1] \div 2
    IN  halved[nHeight \div HALVING]

GetBlockValue(nHeight, nFees) == Subsidy(nHeight) + nFees

(* The loop of ConnectBlock over vtx: stops at the first transaction whose *)
(* inputs fail; undo data is kept for all but the coinbase.                *)
ConnectTx(st, tx, nHeight) ==
    IF ~st.ok \/ (tx \notin CoinBase /\ ~CheckInputs(st.view, tx, nHeight))
    THEN [st EXCEPT !.ok = FALSE]
    ELSE LET upd == UpdateCoins(st.view, tx, nHeight)
         IN  [ok    |-> TRUE,
              view  |-> upd.view,
              nFees |-> st.nFees + IF tx \in CoinBase THEN 0
                                   ELSE GetValueIn(tx) - GetValueOut(tx),
              undo  |-> IF tx \in CoinBase THEN st.undo ELSE Append(st.undo, upd.undo)]

ConnectTxs(fresh, view, b, nHeight) ==
    LET st[i \in 0..Len(vtx[b])] ==
            IF i = 0 THEN [ok |-> fresh, view |-> view, nFees |-> 0, undo |-> <<>>]
            ELSE ConnectTx(st[i - 1], vtx[b][i], nHeight)
    IN  st[Len(vtx[b])]

(* BIP30: no transaction of b has unspent outputs yet.                     *)
Fresh(view, b) == \A i \in DOMAIN vtx[b] : view[vtx[b][i]].vout = {}

(* Faulty form: the coinbase may take any amount.                          *)
ConnectBlockAnyValue(view, b, nHeight) == ConnectTxs(Fresh(view, b), view, b, nHeight)

(* Faulty form: the BIP30 loop is missing.                                 *)
ConnectBlockOverwriting(view, b, nHeight) ==
    LET st == ConnectTxs(TRUE, view, b, nHeight)
    IN  [st EXCEPT !.ok = @ /\ GetValueOut(vtx[b][1]) <= GetBlockValue(nHeight, st.nFees)]

(* ConnectBlock: no transaction may overwrite one with unspent outputs,    *)
(* every transaction connects, the coinbase takes at most the subsidy and  *)
(* the fees.                                                               *)
ConnectBlock(view, b, nHeight) ==
    LET st == ConnectTxs(Fresh(view, b), view, b, nHeight)
    IN  [st EXCEPT !.ok = @ /\ GetValueOut(vtx[b][1]) <= GetBlockValue(nHeight, st.nFees)]

(* The outer loop of DisconnectBlock for transaction i: its outputs must   *)
(* all be there and are cleared, then its inputs are restored, last first. *)
(* The source builds a restored entry from an empty CCoins, not from the   *)
(* view's entry: it holds one output, that of the first input from the     *)
(* same transaction, and every spend must have recorded a height.          *)
DisconnectTx(st, b, i, nHeight, undo) ==
    LET tx      == vtx[b][i]
        From(t) == {j \in DOMAIN vin[tx] : vin[tx][j][1] = t}
    IN  [fClean |-> /\ st.fClean
                    /\ st.view[tx] = CCoins(tx, nHeight)
                    /\ \A j \in DOMAIN vin[tx] : undo[i - 1][j] # 0,
         view   |-> [t \in Tx |->
                        IF From(t) # {}
                        THEN [vout    |-> {vin[tx][Min(From(t))][2]},
                              nHeight |-> undo[i - 1][Min(From(t))]]
                        ELSE IF t = tx THEN Pruned ELSE st.view[t]]]

(* DisconnectBlock, called without pfClean: succeeds when it is clean.     *)
DisconnectBlock(view, b, nHeight, undo) ==
    LET n == Len(vtx[b])
        st[k \in 0..n] == IF k = 0 THEN [fClean |-> TRUE, view |-> view]
                          ELSE DisconnectTx(st[k - 1], b, n + 1 - k, nHeight, undo)
    IN  st[n]
=============================================================================
