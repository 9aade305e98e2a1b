----------------------------- MODULE MCKeyPool -----------------------------
(***************************************************************************)
(* An instance of KeyPool: a miner and getwork's static object, a pool of  *)
(* one key (two when topped up) and seven keys in all.                     *)
(***************************************************************************)
EXTENDS KeyPool

CONSTANTS miner, getwork

MCHolders == {miner, getwork}
MCStatic == {getwork}
=============================================================================
