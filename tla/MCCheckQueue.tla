---------------------------- MODULE MCCheckQueue ----------------------------
(***************************************************************************)
(* Instances of CheckQueue: a master and one or two workers, checks of     *)
(* which one fails, batches of at most two.                                *)
(***************************************************************************)
EXTENDS CheckQueue

CONSTANTS w1, w2, m, g1, g2, g3, b1

MCWorkers == {w1, w2}
MCOneWorker == {w1}
MCMaster == m
MCChecks == {g1, g2, g3, b1}
MCTwoChecks == {g1, b1}
MCBad == {b1}
=============================================================================
