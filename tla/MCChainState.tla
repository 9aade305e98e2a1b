---------------------------- MODULE MCChainState ----------------------------
(* Two common blocks, then two branches.  Branch A spends cX with t1 and   *)
(* then, in one of three blocks, one output of t1 (t2), both (t3), or cY   *)
(* (t5, whose child t9 is a block later); branch B spends cX with the      *)
(* conflicting t4, and later cY with t8 or, like branch A, with t5.  D4    *)
(* and D5 repeat the coinbase cY, before and after it is spent, and Bbad   *)
(* overpays.  E6 on D5 spends t5, so that t5, or t8, can be paid from the  *)
(* repeated cY, until a chain without the repetition (F7), or with t5      *)
(* unspent (G7), is longer.                                                *)
EXTENDS ChainState, TLC
MCTx == {"cX", "cY", "cA3", "cA4", "cA5", "cA6", "cB3", "cB4", "cB5", "cB6", "cBad",
         "t1", "t2", "t3", "t4", "t5", "t6", "t7", "t8", "t9"}
MCCoinBase == {"cX", "cY", "cA3", "cA4", "cA5", "cA6", "cB3", "cB4", "cB5", "cB6", "cBad"}
MCvin ==
    [tx \in MCCoinBase |-> <<>>]
    @@ ("t1" :> << <<"cX", 1>> >>) @@ ("t2" :> << <<"t1", 1>> >>)
    @@ ("t3" :> << <<"t1", 1>>, <<"t1", 2>> >>) @@ ("t4" :> << <<"cX", 1>> >>)
    @@ ("t5" :> << <<"cY", 1>> >>) @@ ("t6" :> << <<"t4", 1>> >>)
    @@ ("t7" :> << <<"cA3", 1>> >>) @@ ("t8" :> << <<"cY", 1>> >>) @@ ("t9" :> << <<"t5", 1>> >>)
MCvout ==
    [tx \in {"cY", "cA4", "cA5", "cB3", "cB4", "cB5", "t2", "t5", "t8", "t9"} |-> <<2>>]
    @@ [tx \in {"cA6", "cB6"} |-> <<1>>] @@ [tx \in {"cA3", "t3", "t7"} |-> <<3>>]
    @@ [tx \in {"cX", "t4", "t6"} |-> <<4>>] @@ ("t1" :> <<2, 1>>) @@ ("cBad" :> <<6>>)
MCBlock == {"X1", "X2", "A3", "A4", "A4b", "A4c", "A5c", "A6c", "D4", "D5",
            "E6", "F7", "G6", "G7",
            "B3", "B4", "B5", "B6", "B6b", "Bbad"}
MCParent ==
    ("X1" :> "G") @@ ("X2" :> "X1") @@ ("A3" :> "X2") @@ ("A4" :> "A3") @@ ("A4b" :> "A3")
    @@ ("A4c" :> "A3") @@ ("A5c" :> "A4c") @@ ("A6c" :> "A5c") @@ ("D4" :> "A3") @@ ("D5" :> "A4c")
    @@ ("B3" :> "X2") @@ ("B4" :> "B3") @@ ("B5" :> "B4") @@ ("B6" :> "B5") @@ ("B6b" :> "B5") @@ ("Bbad" :> "B3")
    @@ ("E6" :> "D5") @@ ("F7" :> "A6c") @@ ("G6" :> "D5") @@ ("G7" :> "G6")
MCPath[b \in MCBlock] == IF MCParent[b] = "G" THEN <<b>> ELSE Append(MCPath[MCParent[b]], b)
MCvtx ==
    ("X1" :> <<"cX">>) @@ ("X2" :> <<"cY">>) @@ ("A3" :> <<"cA3", "t1">>)
    @@ ("A4" :> <<"cA4", "t2">>) @@ ("A4b" :> <<"cA4", "t3">>) @@ ("A4c" :> <<"cA4", "t5">>)
    @@ ("A5c" :> <<"cA5", "t9">>) @@ ("A6c" :> <<"cA6">>) @@ ("D4" :> <<"cY">>) @@ ("D5" :> <<"cY">>)
    @@ ("B3" :> <<"cB3", "t4">>) @@ ("B4" :> <<"cB4">>) @@ ("B5" :> <<"cB5">>)
    @@ ("B6" :> <<"cB6", "t8">>) @@ ("B6b" :> <<"cB6", "t5">>)
    @@ ("Bbad" :> <<"cBad">>)
    @@ ("E6" :> <<"cA6", "t9">>) @@ ("F7" :> <<"cB6">>) @@ ("G6" :> <<"cA6">>) @@ ("G7" :> <<"cB6">>)
=============================================================================
