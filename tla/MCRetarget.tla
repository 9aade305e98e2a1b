---------------------------- MODULE MCRetarget ----------------------------
(***************************************************************************)
(* Instances of Retarget: windows of three blocks, a timespan of 16.       *)
(***************************************************************************)
EXTENDS Retarget

(* Early, on time, late, and very late: the spans of a window reach below  *)
(* a quarter of the timespan and above four times it, and add up to it.    *)
MCDelay == {-1, 2, 7, 40}
=============================================================================
