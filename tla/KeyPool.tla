------------------------------ MODULE KeyPool ------------------------------
(***************************************************************************)
(* The wallet's key pool (wallet.cpp): keys made in advance, numbered,     *)
(* with a record each in the wallet file and an index each in setKeyPool.  *)
(* A CReserveKey takes the lowest index out of the set and later keeps the *)
(* key (the record is erased) or returns it (the index goes back).  The    *)
(* pool is topped up whenever a key is taken and the wallet is not locked. *)
(*                                                                         *)
(* The wallet calls hold cs_wallet, so each is one step; a miner's or      *)
(* getwork's reservation is open across many of them.  A write is durable  *)
(* when its call returns (CDB::Close checkpoints), so a crash loses only   *)
(* what is in memory.                                                      *)
(***************************************************************************)
EXTENDS Integers, FiniteSets, FiniteSetsExt

CONSTANTS
    Holder,        \* CReserveKey objects that outlive a call: miners', getwork's
    Static,        \* those that live as long as the process: getwork's
    nTargetSize,   \* -keypool
    MaxKey         \* bound: keys that are ever generated

None == 0
Index == 1..MaxKey

ASSUME KeyPoolAssumption ==
    /\ IsFiniteSet(Holder) /\ Static \subseteq Holder
    /\ nTargetSize \in Nat /\ MaxKey \in Nat

VARIABLES
    setKeyPool,    \* indices that can be taken
    pool,          \* the wallet file: the key recorded under each index
    nGenerated,    \* keys generated so far; the keys are 1..nGenerated
    nIndex,        \* of each CReserveKey
    vchPubKey,     \* of each CReserveKey
    crypted, locked,
    used,          \* history: keys given away for good
    dry            \* history: since start-up the pool was empty, or made anew,
                   \* while a key was reserved

holders == <<nIndex, vchPubKey>>
vars == <<setKeyPool, pool, nGenerated, holders, crypted, locked, used, dry>>

-----------------------------------------------------------------------------
(* What the pool is made of, as a value: wallet calls are functions of it. *)
Here == [set |-> setKeyPool, db |-> pool, gen |-> nGenerated]

(* Keys are generated and recorded under the indices of new, in order.     *)
Write(w, new) ==
    [set |-> w.set \cup new,
     db  |-> [i \in Index |-> IF i \in new THEN w.gen + i - Min(new) + 1 ELSE w.db[i]],
     gen |-> w.gen + Cardinality(new)]

(* TopUpKeyPool, when the wallet is not locked.                            *)
ToppedUp(w) ==
    LET nEnd  == IF w.set = {} THEN 1 ELSE Max(w.set) + 1
        nKeys == nTargetSize + 1 - Cardinality(w.set)
    IN  IF locked \/ nKeys <= 0 THEN w ELSE Write(w, nEnd..(nEnd + nKeys - 1))

(* Faulty form: the key made last is taken first.                          *)
TakenLast(w) == Max(ToppedUp(w).set)

(* ReserveKeyFromKeyPool: the lowest index leaves the set before its       *)
(* record is read, and stays out when there is no record (it throws).      *)
Taken(w) == Min(ToppedUp(w).set)

Reserved(w) == [ToppedUp(w) EXCEPT !.set = @ \ {Taken(w)}]

SomeReserved == \E r \in Holder : nIndex'[r] # None

Become(w) ==
    /\ w.gen <= MaxKey /\ w.set \subseteq Index
    /\ setKeyPool' = w.set /\ pool' = w.db /\ nGenerated' = w.gen
    /\ dry' = (dry \/ (w.set = {} /\ SomeReserved))

-----------------------------------------------------------------------------
(* keypoolrefill, and the thread that walletpassphrase starts.             *)
TopUpKeyPool ==
    /\ ~locked /\ Become(ToppedUp(Here))
    /\ UNCHANGED <<holders, crypted, locked, used>>

(* CReserveKey::GetReservedKey, which takes a key.  (When there is none it *)
(* lends the default key, which has left the pool for good.)               *)
GetReservedKey(r) ==
    /\ nIndex[r] = None /\ ToppedUp(Here).set # {}
    /\ ToppedUp(Here).db[Taken(Here)] # None
    /\ nIndex' = [nIndex EXCEPT ![r] = Taken(Here)]
    /\ vchPubKey' = [vchPubKey EXCEPT ![r] = ToppedUp(Here).db[Taken(Here)]]
    /\ Become(Reserved(Here))
    /\ UNCHANGED <<crypted, locked, used>>

(* The record is missing and it throws.  A miner thread ends the process;  *)
(* getwork fails, and its static object has an index and no key.           *)
GetReservedKeyThrows(r) ==
    /\ r \in Static /\ nIndex[r] = None /\ ToppedUp(Here).set # {}
    /\ ToppedUp(Here).db[Taken(Here)] = None
    /\ nIndex' = [nIndex EXCEPT ![r] = Taken(Here)]
    /\ Become(Reserved(Here))
    /\ UNCHANGED <<vchPubKey, crypted, locked, used>>

(* Faulty form: the record stays in the file.                              *)
KeepKeyInMemory(r) ==
    /\ vchPubKey[r] # None
    /\ used' = used \cup {vchPubKey[r]}
    /\ nIndex' = [nIndex EXCEPT ![r] = None] /\ vchPubKey' = [vchPubKey EXCEPT ![r] = None]
    /\ UNCHANGED <<setKeyPool, pool, nGenerated, crypted, locked, dry>>

(* CReserveKey::KeepKey, by CheckWork, before the block goes out.          *)
KeepKey(r) ==
    /\ vchPubKey[r] # None
    /\ pool' = [pool EXCEPT ![nIndex[r]] = None]
    /\ used' = used \cup {vchPubKey[r]}
    /\ nIndex' = [nIndex EXCEPT ![r] = None] /\ vchPubKey' = [vchPubKey EXCEPT ![r] = None]
    /\ UNCHANGED <<setKeyPool, nGenerated, crypted, locked, dry>>

(* CReserveKey::ReturnKey: mining is stopped, the object is destroyed.     *)
ReturnKey(r) ==
    /\ nIndex[r] # None /\ r \notin Static
    /\ setKeyPool' = setKeyPool \cup {nIndex[r]}
    /\ nIndex' = [nIndex EXCEPT ![r] = None] /\ vchPubKey' = [vchPubKey EXCEPT ![r] = None]
    /\ UNCHANGED <<pool, nGenerated, crypted, locked, used, dry>>

(* GetKeyFromPool (getnewaddress), and a payment with change: reserve and  *)
(* keep under one lock.                                                    *)
GetKeyFromPool ==
    /\ ToppedUp(Here).set # {}
    /\ UNCHANGED holders
    /\ LET w == Reserved(Here)
           key == w.db[Taken(Here)]
       IN  IF key = None
           THEN UNCHANGED used /\ Become(w)
           ELSE /\ used' = used \cup {key}
                /\ Become([w EXCEPT !.db = [@ EXCEPT ![Taken(Here)] = None]])
    /\ UNCHANGED <<crypted, locked>>

(* GetOldestKeyPoolTime (getinfo), and a payment that fails or needs no    *)
(* change: reserve and return.                                             *)
GetOldestKeyPoolTime ==
    /\ ToppedUp(Here).set # {}
    /\ UNCHANGED holders
    /\ Become(IF Reserved(Here).db[Taken(Here)] = None THEN Reserved(Here) ELSE ToppedUp(Here))
    /\ UNCHANGED <<crypted, locked, used>>

(* EncryptWallet: NewKeyPool erases the records of the set and numbers new *)
(* keys from 1; the wallet is locked then.                                 *)
EncryptWallet ==
    /\ ~crypted /\ UNCHANGED holders
    /\ nGenerated + nTargetSize <= MaxKey
    /\ LET erased == [set |-> {}, gen |-> nGenerated,
                      db  |-> [i \in Index |-> IF i \in setKeyPool THEN None ELSE pool[i]]]
           w == IF nTargetSize = 0 THEN erased ELSE Write(erased, 1..nTargetSize)
       IN  setKeyPool' = w.set /\ pool' = w.db /\ nGenerated' = w.gen
    /\ dry' = (dry \/ SomeReserved)
    /\ crypted' = TRUE /\ locked' = TRUE
    /\ UNCHANGED used

Lock ==
    /\ crypted /\ ~locked /\ locked' = TRUE
    /\ UNCHANGED <<setKeyPool, pool, nGenerated, holders, crypted, used, dry>>

Unlock ==
    /\ locked /\ locked' = FALSE
    /\ UNCHANGED <<setKeyPool, pool, nGenerated, holders, crypted, used, dry>>

(* The process ends, in any way, and LoadWallet reads the file again.      *)
Restart ==
    /\ setKeyPool' = {i \in Index : pool[i] # None}
    /\ nIndex' = [r \in Holder |-> None] /\ vchPubKey' = [r \in Holder |-> None]
    /\ locked' = crypted /\ dry' = FALSE
    /\ UNCHANGED <<pool, nGenerated, crypted, used>>

-----------------------------------------------------------------------------
Init ==
    /\ setKeyPool = {} /\ pool = [i \in Index |-> None] /\ nGenerated = 0
    /\ nIndex = [r \in Holder |-> None] /\ vchPubKey = [r \in Holder |-> None]
    /\ crypted = FALSE /\ locked = FALSE /\ used = {} /\ dry = FALSE

Next ==
    \/ TopUpKeyPool \/ GetKeyFromPool \/ GetOldestKeyPoolTime
    \/ \E r \in Holder : \/ GetReservedKey(r) \/ GetReservedKeyThrows(r)
                         \/ KeepKey(r) \/ ReturnKey(r)
    \/ EncryptWallet \/ Lock \/ Unlock \/ Restart

Spec == Init /\ [][Next]_vars

-----------------------------------------------------------------------------
(* Every index that can be taken has a record in the wallet file, so that  *)
(* ReserveKeyFromKeyPool does not throw, no two reservations have the same *)
(* index, and each has a key, as GetReservedKey asserts: for as long as    *)
(* the pool does not run dry under a reservation, whatever is kept,        *)
(* returned and topped up in whatever order, no index is given out twice.  *)
IndexBacked ==
    dry \/ /\ \A i \in setKeyPool : pool[i] # None
           /\ \A r, s \in Holder : r # s /\ nIndex[r] = nIndex[s] => nIndex[r] = None
           /\ \A r \in Holder : nIndex[r] \notin setKeyPool
           /\ \A r \in Holder : nIndex[r] # None => vchPubKey[r] # None

(* A key that was given away for good - as an address, as change, as the   *)
(* payee of a block - never comes back, restarts included: it is not in    *)
(* the file's pool and nobody has it reserved.                             *)
KeyGivenOnce ==
    \A k \in used :
        /\ \A i \in Index : pool[i] # k
        /\ dry \/ \A r \in Holder : vchPubKey[r] # k
=============================================================================
