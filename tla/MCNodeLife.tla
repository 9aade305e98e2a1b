----------------------------- MODULE MCNodeLife -----------------------------
(***************************************************************************)
(* An instance of NodeLife: two openers, two outbound slots, and one CNode *)
(* that is opened or accepted again and again.                             *)
(***************************************************************************)
EXTENDS NodeLife

CONSTANTS n1, o1, o2, a1, a2

MCNodes == {n1}
MCOpeners == {o1, o2}
MCAddrs == {a1, a2}
=============================================================================
