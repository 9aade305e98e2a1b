---------------------------- MODULE MCBlockSync ----------------------------
(***************************************************************************)
(* An instance of BlockSync: a node that starts from nothing, perhaps with *)
(* files to import, and one that is ahead and mines two more; batches of   *)
(* two blocks, so that a chain of three needs a second batch, and the last *)
(* block of the first may have come before it, as an orphan.               *)
(***************************************************************************)
EXTENDS BlockSync, TLC

CONSTANTS n1, n2

MCNode == {n1, n2}
MCStartHeight == n1 :> 0 @@ n2 :> 1
MCImporters == {n1}
=============================================================================
