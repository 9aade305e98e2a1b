---------------------------- MODULE MCBlockTree ----------------------------
(* Two branches from the genesis block, whose work interleaves: A1 < B1 <  *)
(* A2 < B2 < A3, the last one invalid.  A reorganisation takes back up to  *)
(* two blocks and connects up to two; the attempt to connect A3 from B2    *)
(* fails at the third block.                                               *)
EXTENDS BlockTree, TLC
MCBlock     == {"G", "A1", "A2", "A3", "B1", "B2"}
MCParent    == ("A1" :> "G") @@ ("A2" :> "A1") @@ ("A3" :> "A2") @@ ("B1" :> "G") @@ ("B2" :> "B1")
MCHeight    == [b \in MCBlock |-> CASE b = "G" -> 0 [] b \in {"A1", "B1"} -> 1
                                     [] b \in {"A2", "B2"} -> 2 [] b = "A3" -> 3]
MCBlockWork == [b \in MCBlock |-> IF b \in {"G", "A1"} THEN 1 ELSE 2]
MCHashOf    == ("G" :> 0) @@ ("A1" :> 5) @@ ("A2" :> 3) @@ ("A3" :> 1) @@ ("B1" :> 2) @@ ("B2" :> 4)
MCBadHeader   == {}
MCBadBlock    == {"A3"}
MCNotUndoable == {}

(* The smaller tree of the liveness run: A1 is invalid, B1 cannot be taken *)
(* back, B2 has a bad header.                                              *)
LiveBlock     == {"G", "A1", "A2", "B1", "B2"}
LiveParent    == ("A1" :> "G") @@ ("A2" :> "A1") @@ ("B1" :> "G") @@ ("B2" :> "B1")
LiveHeight    == [b \in LiveBlock |-> MCHeight[b]]
LiveBlockWork == [b \in LiveBlock |-> 1]
LiveHashOf    == ("G" :> 0) @@ ("A1" :> 4) @@ ("A2" :> 3) @@ ("B1" :> 2) @@ ("B2" :> 1)
=============================================================================
