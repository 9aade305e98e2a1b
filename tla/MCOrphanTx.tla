---------------------------- MODULE MCOrphanTx ----------------------------
(* Five transactions, two of them with two parents, one from an unknown    *)
(* parent and one too large to keep, with room for two orphans: chains,    *)
(* shared parents and overflow all occur.                                  *)
EXTENDS OrphanTx, TLC
CONSTANTS a, b, c, d, e, unknown
MCTx    == {a, b, c, d, e}
MCHash  == MCTx \cup {unknown}
MCPrev  == (a :> {unknown}) @@ (b :> {a}) @@ (c :> {a, b}) @@ (d :> {unknown, c})
             @@ (e :> {d})
MCLarge == {e}
=============================================================================
