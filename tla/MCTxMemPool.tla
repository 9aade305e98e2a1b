---------------------------- MODULE MCTxMemPool ----------------------------
(* A coinbase, two transactions that double-spend it, one of them with a   *)
(* chain of descendants that re-joins it, a transaction that conflicts     *)
(* with a grandchild only, and one that joins two unrelated ones.          *)
EXTENDS TxMemPool, TLC
CONSTANTS cb, p, q, r, s, t, u, v, w
MCTx       == {cb, p, q, r, s, t, u, v, w}
MCCoinBase == {cb}
MCvin      == (cb :> <<>>) @@ (p :> << <<cb, 1>> >>) @@ (q :> << <<cb, 1>>, <<cb, 2>> >>)
              @@ (r :> << <<p, 1>> >>) @@ (s :> << <<r, 1>>, <<p, 2>> >>)
              @@ (t :> << <<p, 2>>, <<cb, 3>> >>)
              @@ (u :> << <<s, 1>> >>) @@ (v :> << <<cb, 4>> >>) @@ (w :> << <<v, 1>>, <<q, 1>> >>)
=============================================================================
