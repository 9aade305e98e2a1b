--------------------------- MODULE KeyPool_proofs ---------------------------
(* The key pool, for any number of reservations and any pool size: every   *)
(* index that can be taken has its record and no index is given out twice  *)
(* (IndexBacked), and a key given away for good never comes back           *)
(* (KeyGivenOnce).                                                         *)
EXTENDS KeyPool, FiniteSetTheorems, WellFoundedInduction, TLAPS

(* Types.  A key is at most nGenerated, so that a new one is new.          *)
TypeInv ==
    /\ nGenerated \in Nat
    /\ setKeyPool \in SUBSET Index
    /\ pool \in [Index -> 0..nGenerated]
    /\ nIndex \in [Holder -> Index \cup {None}]
    /\ vchPubKey \in [Holder -> 0..nGenerated]
    /\ used \in SUBSET (1..nGenerated)
    /\ crypted \in BOOLEAN /\ locked \in BOOLEAN /\ dry \in BOOLEAN

(* No key is recorded twice in the wallet file.                            *)
KeysDistinct == \A i, j \in Index : i # j /\ pool[i] = pool[j] => pool[i] = None

(* A reserved key is recorded under its reservation's index or, once the   *)
(* pool was made anew under the reservation, nowhere.                      *)
KeyAtIndex ==
    \A r \in Holder :
        /\ nIndex[r] = None => vchPubKey[r] = None
        /\ \A i \in Index : vchPubKey[r] # None /\ pool[i] = vchPubKey[r] => i = nIndex[r]

(* As long as the pool has not run dry under a reservation, the record of  *)
(* a reserved index stays, and the set holds a higher index: this is what  *)
(* keeps TopUpKeyPool, which numbers from the highest index of the set,    *)
(* from numbering a new key like a reserved one.                           *)
ReservedBelow ==
    ~dry => \A r \in Holder : nIndex[r] # None =>
                /\ pool[nIndex[r]] = vchPubKey[r]
                /\ \E j \in setKeyPool : j > nIndex[r]

PoolInv ==
    TypeInv /\ KeysDistinct /\ KeyAtIndex /\ ReservedBelow /\ IndexBacked /\ KeyGivenOnce

-----------------------------------------------------------------------------
(* A set of numbers has a least element, a bounded one a greatest.         *)
LEMMA LeastElement ==
    ASSUME NEW S \in SUBSET Nat, S # {}
    PROVE  \E x \in S : \A y \in S : x <= y
    <1> DEFINE R == {p \in Nat \X Nat : p[1] < p[2]}
    <1>1. IsWellFoundedOn(R, Nat)
        BY NatLessThanWellFounded DEF OpToRel
    <1> HIDE DEF R
    <1>2. PICK x \in S : \A y \in S : ~(<<y, x>> \in R)
        BY <1>1, WFMin
    <1>3. \A y \in S : ~(y < x)
        BY <1>2 DEF R
    <1> QED BY <1>3

LEMMA GreatestElement ==
    ASSUME NEW n \in Nat, NEW S \in SUBSET (0..n), S # {}
    PROVE  \E x \in S : \A y \in S : x >= y
    <1> DEFINE T == {m \in 0..n : n - m \in S}
    <1>1. T \in SUBSET Nat /\ \A x \in S : n - x \in T
        OBVIOUS
    <1>2. PICK t \in T : \A u \in T : t <= u
        BY <1>1, LeastElement
    <1>3. n - t \in S /\ t \in 0..n
        OBVIOUS
    <1>4. \A y \in S : t <= n - y
        BY <1>1, <1>2
    <1> QED BY <1>3, <1>4

LEMMA MinMember ==
    ASSUME NEW S \in SUBSET Nat, S # {}
    PROVE  Min(S) \in S /\ \A y \in S : Min(S) <= y
    BY LeastElement DEF Min

LEMMA MaxMember ==
    ASSUME NEW S \in SUBSET Index, S # {}
    PROVE  Max(S) \in S /\ \A y \in S : Max(S) >= y
    <1>1. MaxKey \in Nat /\ S \in SUBSET (0..MaxKey)
        BY KeyPoolAssumption DEF Index
    <1>2. \E x \in S : \A y \in S : x >= y
        BY <1>1, GreatestElement
    <1> QED BY <1>2 DEF Max

(* Write numbers the new keys in order, from the first key not generated.  *)
LEMMA WriteKeys ==
    ASSUME NEW w, NEW a \in Nat, NEW k \in Nat \ {0}, w.gen \in Nat
    PROVE  Write(w, a..(a + k - 1)) =
              [set |-> w.set \cup a..(a + k - 1),
               db  |-> [i \in Index |-> IF i \in a..(a + k - 1) THEN w.gen + i - a + 1 ELSE w.db[i]],
               gen |-> w.gen + k]
    <1> DEFINE new == a..(a + k - 1)
    <1>1. new \in SUBSET Nat /\ a \in new
        OBVIOUS
    <1>2. Cardinality(new) = k
        BY FS_Interval
    <1>3. Min(new) = a
        <2>1. Min(new) \in new /\ Min(new) <= a
            BY <1>1, MinMember
        <2> QED BY <2>1
    <1> QED BY <1>2, <1>3 DEF Write

(* TopUpKeyPool appends indices above the set's, with new keys, or none.   *)
LEMMA TopUpAppends ==
    ASSUME TypeInv
    PROVE  \E a \in Nat \ {0}, k \in Nat :
              /\ (\A j \in setKeyPool : j < a) /\ (setKeyPool = {} => a = 1)
              /\ ToppedUp(Here) =
                    [set |-> setKeyPool \cup a..(a + k - 1),
                     db  |-> [i \in Index |-> IF i \in a..(a + k - 1) THEN nGenerated + i - a + 1 ELSE pool[i]],
                     gen |-> nGenerated + k]
    <1> DEFINE nEnd  == IF setKeyPool = {} THEN 1 ELSE Max(setKeyPool) + 1
               nKeys == nTargetSize + 1 - Cardinality(setKeyPool)
    <1>1. Here.set = setKeyPool /\ Here.db = pool /\ Here.gen = nGenerated
        BY DEF Here
    <1>2. nEnd \in Nat \ {0} /\ (\A j \in setKeyPool : j < nEnd) /\ (setKeyPool = {} => nEnd = 1)
        <2>1. CASE setKeyPool = {}
            BY <2>1
        <2>2. CASE setKeyPool # {}
            <3>1. Max(setKeyPool) \in setKeyPool /\ \A j \in setKeyPool : Max(setKeyPool) >= j
                BY <2>2, MaxMember DEF TypeInv
            <3>2. setKeyPool \subseteq Nat
                BY DEF TypeInv, Index
            <3> DEFINE top == Max(setKeyPool)
            <3>3. top \in Nat /\ \A j \in setKeyPool : j <= top
                BY <3>1, <3>2
            <3>4. nEnd = top + 1
                BY <2>2
            <3> HIDE DEF top, nEnd
            <3>5. nEnd \in Nat \ {0} /\ \A j \in setKeyPool : j < nEnd
                BY <3>2, <3>3, <3>4
            <3> QED BY <2>2, <3>5
        <2> QED BY <2>1, <2>2
    <1>3. nKeys \in Int
        <2>1. IsFiniteSet(Index)
            BY KeyPoolAssumption, FS_Interval DEF Index
        <2>2. Cardinality(setKeyPool) \in Nat
            BY <2>1, FS_Subset, FS_CardinalityType DEF TypeInv
        <2> QED BY <2>2, KeyPoolAssumption
    <1> HIDE DEF nEnd, nKeys
    <1>4. CASE locked \/ nKeys <= 0
        <2>1. ToppedUp(Here) = Here
            BY <1>1, <1>4 DEF ToppedUp, nKeys
        <2>2. nEnd..(nEnd + 0 - 1) = {}
            BY <1>2
        <2>3. pool = [i \in Index |-> IF i \in nEnd..(nEnd + 0 - 1) THEN nGenerated + i - nEnd + 1 ELSE pool[i]]
            BY <2>2 DEF TypeInv
        <2>4. /\ setKeyPool = setKeyPool \cup nEnd..(nEnd + 0 - 1)
              /\ nGenerated = nGenerated + 0
            BY <2>2 DEF TypeInv
        <2> QED BY <1>2, <2>1, <2>3, <2>4 DEF Here
    <1>5. CASE ~(locked \/ nKeys <= 0)
        <2>1. ToppedUp(Here) = Write(Here, nEnd..(nEnd + nKeys - 1))
            BY <1>1, <1>5 DEF ToppedUp, nEnd, nKeys
        <2>2. nKeys \in Nat \ {0} /\ Here.gen \in Nat
            BY <1>1, <1>3, <1>5 DEF TypeInv
        <2>3. Write(Here, nEnd..(nEnd + nKeys - 1)) =
                 [set |-> Here.set \cup nEnd..(nEnd + nKeys - 1),
                  db  |-> [i \in Index |-> IF i \in nEnd..(nEnd + nKeys - 1)
                                          THEN Here.gen + i - nEnd + 1 ELSE Here.db[i]],
                  gen |-> Here.gen + nKeys]
            BY <1>2, <2>2, WriteKeys
        <2> USE <1>2, <2>2
        <2> WITNESS nEnd \in Nat \ {0}, nKeys \in Nat
        <2> QED BY <1>1, <2>1, <2>3
    <1> QED BY <1>4, <1>5

-----------------------------------------------------------------------------
(* What a pool must be for the reservations and the keys given away now.   *)
Sound(w) ==
    /\ w = [set |-> w.set, db |-> w.db, gen |-> w.gen]
    /\ w.gen \in Nat /\ nGenerated <= w.gen
    /\ w.set \in SUBSET (Nat \ {0})
    /\ w.gen <= MaxKey /\ w.set # {} => w.set \cap Index # {}
    /\ w.db \in [Index -> 0..w.gen]
    /\ \A i, j \in Index : i # j /\ w.db[i] = w.db[j] => w.db[i] = None
    /\ \A i \in Index : w.db[i] \notin used
    /\ \A r \in Holder, i \in Index : vchPubKey[r] # None /\ w.db[i] = vchPubKey[r] => i = nIndex[r]
    /\ ~dry => \A i \in w.set \cap Index : w.db[i] # None
    /\ ~dry => \A r \in Holder : nIndex[r] # None =>
                  /\ nIndex[r] \notin w.set /\ w.db[nIndex[r]] = vchPubKey[r]
                  /\ \E j \in w.set : j > nIndex[r]

(* Topping up neither renumbers, nor takes the index or the record of a    *)
(* reservation, nor brings a key back.                                     *)
LEMMA ToppedUpSound ==
    ASSUME PoolInv PROVE Sound(ToppedUp(Here))
    <1> USE DEF PoolInv, None
    <1>1. PICK a \in Nat \ {0}, k \in Nat :
              /\ (\A j \in setKeyPool : j < a) /\ (setKeyPool = {} => a = 1)
              /\ ToppedUp(Here) =
                    [set |-> setKeyPool \cup a..(a + k - 1),
                     db  |-> [i \in Index |-> IF i \in a..(a + k - 1) THEN nGenerated + i - a + 1 ELSE pool[i]],
                     gen |-> nGenerated + k]
        BY TopUpAppends
    <1> DEFINE u == ToppedUp(Here)
    <1> HIDE DEF u
    <1>2. /\ u = [set |-> u.set, db |-> u.db, gen |-> u.gen]
          /\ u.set = setKeyPool \cup a..(a + k - 1) /\ u.gen = nGenerated + k
          /\ u.db = [i \in Index |-> IF i \in a..(a + k - 1) THEN nGenerated + i - a + 1 ELSE pool[i]]
        BY <1>1 DEF u
    <1>3. \A i \in Index : i \in a..(a + k - 1) =>
             u.db[i] = nGenerated + i - a + 1 /\ u.db[i] > nGenerated /\ u.db[i] <= u.gen /\ u.db[i] \in Nat
        BY <1>2 DEF TypeInv, Index
    <1>4. \A i \in Index : i \notin a..(a + k - 1) => u.db[i] = pool[i] /\ u.db[i] \in 0..nGenerated
        BY <1>2 DEF TypeInv
    <1>5. u.gen \in Nat /\ nGenerated <= u.gen /\ nGenerated \in Nat
        BY <1>2 DEF TypeInv
    <1>6. u.set \in SUBSET (Nat \ {0})
        BY <1>2 DEF TypeInv, Index
    <1>7. ASSUME u.gen <= MaxKey, u.set # {} PROVE u.set \cap Index # {}
        <2>1. CASE setKeyPool # {}
            BY <1>2, <2>1 DEF TypeInv
        <2>2. CASE setKeyPool = {}
            <3>1. a = 1 /\ k >= 1
                BY <1>1, <1>2, <1>7, <2>2
            <3> QED BY <1>2, <1>5, <1>7, <3>1, KeyPoolAssumption DEF Index
        <2> QED BY <2>1, <2>2
    <1>8. u.db \in [Index -> 0..u.gen]
        <2>1. \A i \in Index : u.db[i] \in 0..u.gen
            BY <1>3, <1>4, <1>5
        <2> QED BY <1>2, <2>1
    <1>9. ASSUME NEW i \in Index, NEW j \in Index, i # j, u.db[i] = u.db[j] PROVE u.db[i] = None
        <2>1. i \in Int /\ j \in Int
            BY DEF Index
        <2>2. CASE i \in a..(a + k - 1) /\ j \in a..(a + k - 1)
            BY <1>3, <1>5, <1>9, <2>1, <2>2
        <2>3. CASE i \notin a..(a + k - 1) /\ j \notin a..(a + k - 1)
            BY <1>4, <1>9, <2>3 DEF KeysDistinct
        <2>4. CASE ~(i \in a..(a + k - 1) <=> j \in a..(a + k - 1))
            BY <1>3, <1>4, <1>5, <1>9, <2>4
        <2> QED BY <2>2, <2>3, <2>4
    <1>10. \A i \in Index : u.db[i] \notin used
        BY <1>3, <1>4, <1>5 DEF TypeInv, KeyGivenOnce
    <1>11. \A r \in Holder, i \in Index : vchPubKey[r] # None /\ u.db[i] = vchPubKey[r] => i = nIndex[r]
        <2>1. \A r \in Holder : vchPubKey[r] \in 0..nGenerated
            BY DEF TypeInv
        <2> QED BY <1>3, <1>4, <1>5, <2>1 DEF KeyAtIndex
    <1>12. ~dry => \A i \in u.set \cap Index : u.db[i] # None
        BY <1>2, <1>3, <1>4, <1>5 DEF IndexBacked
    <1>13. ASSUME ~dry, NEW r \in Holder, nIndex[r] # None
           PROVE  /\ nIndex[r] \notin u.set /\ u.db[nIndex[r]] = vchPubKey[r]
                  /\ \E j \in u.set : j > nIndex[r]
        <2>1. PICK j \in setKeyPool : j > nIndex[r]
            BY <1>13 DEF ReservedBelow
        <2>2. nIndex[r] \in Index /\ nIndex[r] \in Nat /\ j \in Nat
            BY <1>13 DEF TypeInv, Index
        <2>3. nIndex[r] \notin a..(a + k - 1)
            BY <1>1, <2>1, <2>2
        <2> QED BY <1>2, <1>4, <1>13, <2>1, <2>2, <2>3 DEF IndexBacked, ReservedBelow
    <1> QED BY <1>2, <1>5, <1>6, <1>7, <1>8, <1>9, <1>10, <1>11, <1>12, <1>13 DEF Sound, u

(* The index that is taken, when there is one, is the lowest.              *)
LEMMA TakenLowest ==
    ASSUME Sound(ToppedUp(Here)), ToppedUp(Here).set # {}
    PROVE  Taken(Here) \in ToppedUp(Here).set /\ \A j \in ToppedUp(Here).set : Taken(Here) <= j
    BY MinMember DEF Sound, Taken

-----------------------------------------------------------------------------
(* A record keeps its type when one entry is written.                      *)
LEMMA UpdateType ==
    ASSUME NEW S, NEW T, NEW f \in [S -> T], NEW x, NEW v \in T
    PROVE  [f EXCEPT ![x] = v] \in [S -> T]
    OBVIOUS

(* Every wallet call keeps the pool sound.                                 *)
LEMMA PoolStep == PoolInv /\ [Next]_vars => PoolInv'
    <1> SUFFICES ASSUME PoolInv, [Next]_vars PROVE PoolInv'
        OBVIOUS
    <1> DEFINE u == ToppedUp(Here)
               t == Taken(Here)
    <1>1. Sound(u) /\ (u.set # {} => t \in u.set /\ \A j \in u.set : t <= j)
        BY ToppedUpSound, TakenLowest
    <1>2. Reserved(Here) = [set |-> u.set \ {t}, db |-> u.db, gen |-> u.gen]
        <2>1. u = [set |-> u.set, db |-> u.db, gen |-> u.gen]
            BY <1>1 DEF Sound
        <2>2. Reserved(Here) = [u EXCEPT !.set = u.set \ {t}]
            BY DEF Reserved
        <2> HIDE DEF u, t
        <2> QED BY <2>1, <2>2
    <1>3. \A r \in Holder : nIndex[r] \in Index \cup {None} /\ vchPubKey[r] \in 0..nGenerated
        BY DEF PoolInv, TypeInv
    <1> HIDE DEF u, t
    <1> USE DEF PoolInv, None
    <1>4. ASSUME u.gen <= MaxKey, u.set # {} PROVE t \in Index
        BY <1>1, <1>4, KeyPoolAssumption DEF Sound, Index
    <1>5. CASE TopUpKeyPool
        <2>1. /\ setKeyPool' = u.set /\ pool' = u.db /\ nGenerated' = u.gen /\ u.set \subseteq Index
              /\ UNCHANGED <<nIndex, vchPubKey, crypted, locked, used>>
              /\ dry' = (dry \/ (u.set = {} /\ SomeReserved))
            BY <1>5 DEF TopUpKeyPool, Become, holders, u
        <2> QED
            BY <1>1, <2>1 DEF Sound, TypeInv, KeysDistinct, KeyAtIndex, ReservedBelow, IndexBacked, KeyGivenOnce
    <1>6. ASSUME NEW r \in Holder, GetReservedKey(r) PROVE PoolInv'
        <2>1. /\ setKeyPool' = u.set \ {t} /\ pool' = u.db /\ nGenerated' = u.gen /\ u.set \ {t} \subseteq Index
              /\ UNCHANGED <<crypted, locked, used>>
              /\ nIndex[r] = None /\ u.set # {} /\ u.gen <= MaxKey /\ u.db[t] # None
              /\ nIndex' = [nIndex EXCEPT ![r] = t] /\ vchPubKey' = [vchPubKey EXCEPT ![r] = u.db[t]]
              /\ dry' = (dry \/ (u.set \ {t} = {} /\ SomeReserved))
            BY <1>2, <1>6 DEF GetReservedKey, Become, u, t
        <2>2. /\ t \in Index /\ t \in u.set /\ \A j \in u.set : t <= j
              /\ u.db[t] \in 0..u.gen /\ nIndex'[r] = t /\ vchPubKey'[r] = u.db[t]
              /\ \A s \in Holder \ {r} : nIndex'[s] = nIndex[s] /\ vchPubKey'[s] = vchPubKey[s]
            BY <1>1, <1>4, <2>1 DEF Sound, TypeInv
        <2>3. TypeInv' /\ KeysDistinct'
            BY <1>1, <2>1, <2>2 DEF Sound, TypeInv, KeysDistinct
        <2>4. KeyAtIndex'
            BY <1>1, <2>1, <2>2 DEF Sound, KeyAtIndex, Index
        <2>5. ~dry' => ~dry /\ u.set \ {t} # {}
            <3>1. SomeReserved
                BY <2>2 DEF SomeReserved, Index
            <3> QED BY <2>1, <3>1
        <2>6. ReservedBelow'
            <3> SUFFICES ASSUME ~dry, u.set \ {t} # {}, NEW s \in Holder, nIndex'[s] # None
                         PROVE  u.db[nIndex'[s]] = vchPubKey'[s] /\ \E j \in u.set \ {t} : j > nIndex'[s]
                BY <2>1, <2>5 DEF ReservedBelow
            <3>1. PICK j \in u.set \ {t} : j > t
                BY <1>1, <2>2 DEF Sound, Index
            <3>2. CASE s = r
                BY <2>2, <3>1, <3>2
            <3>3. CASE s # r
                <4>1. u.db[nIndex[s]] = vchPubKey[s] /\ \E i \in u.set : i > nIndex[s]
                    BY <1>1, <2>2, <3>3 DEF Sound
                <4> QED BY <1>1, <1>3, <2>2, <3>1, <3>3, <4>1 DEF Sound, Index
            <3> QED BY <3>2, <3>3
        <2>7. IndexBacked'
            <3> SUFFICES ASSUME ~dry
                         PROVE  /\ \A i \in setKeyPool' : pool'[i] # None
                                /\ \A p, s \in Holder : p # s /\ nIndex'[p] = nIndex'[s] => nIndex'[p] = None
                                /\ \A p \in Holder : nIndex'[p] \notin setKeyPool'
                                /\ \A p \in Holder : nIndex'[p] # None => vchPubKey'[p] # None
                BY <2>5 DEF IndexBacked
            <3>1. \A p \in Holder : nIndex[p] # t
                BY <1>1, <2>2 DEF Sound, Index
            <3>2. \A p \in Holder : nIndex[p] \notin u.set
                BY <1>1 DEF Sound, Index
            <3> QED BY <1>1, <2>1, <2>2, <3>1, <3>2 DEF Sound, IndexBacked
        <2>8. KeyGivenOnce'
            <3> SUFFICES ASSUME NEW k \in used
                         PROVE  /\ \A i \in Index : u.db[i] # k
                                /\ ~dry => \A s \in Holder : vchPubKey'[s] # k
                BY <2>1, <2>5 DEF KeyGivenOnce
            <3>1. \A i \in Index : u.db[i] # k
                BY <1>1 DEF Sound
            <3> QED BY <2>2, <3>1 DEF KeyGivenOnce
        <2> QED BY <2>3, <2>4, <2>6, <2>7, <2>8
    <1>7. ASSUME NEW r \in Holder, GetReservedKeyThrows(r) PROVE PoolInv'
        <2>1. /\ setKeyPool' = u.set \ {t} /\ pool' = u.db /\ nGenerated' = u.gen /\ u.set \ {t} \subseteq Index
              /\ UNCHANGED <<vchPubKey, crypted, locked, used>>
              /\ nIndex[r] = None /\ u.set # {} /\ u.gen <= MaxKey /\ u.db[t] = None
              /\ nIndex' = [nIndex EXCEPT ![r] = t]
              /\ dry' = (dry \/ (u.set \ {t} = {} /\ SomeReserved))
            BY <1>2, <1>7 DEF GetReservedKeyThrows, Become, u, t
        <2>2. /\ t \in Index /\ t \in u.set /\ nIndex'[r] = t
              /\ \A s \in Holder \ {r} : nIndex'[s] = nIndex[s]
            BY <1>1, <1>4, <2>1 DEF TypeInv
        <2>3. dry /\ dry'
            BY <1>1, <2>1, <2>2 DEF Sound
        <2>4. TypeInv' /\ KeysDistinct'
            BY <1>1, <2>1, <2>2, <2>3 DEF Sound, TypeInv, KeysDistinct
        <2>5. KeyAtIndex'
            <3>1. vchPubKey[r] = None
                BY <2>1 DEF KeyAtIndex
            <3> QED BY <1>1, <2>1, <2>2, <3>1 DEF Sound, KeyAtIndex
        <2>6. KeyGivenOnce'
            BY <1>1, <2>1, <2>3 DEF Sound, KeyGivenOnce
        <2> QED BY <2>3, <2>4, <2>5, <2>6 DEF ReservedBelow, IndexBacked
    <1>8. ASSUME NEW r \in Holder, KeepKey(r) PROVE PoolInv'
        <2>1. /\ UNCHANGED <<setKeyPool, nGenerated, crypted, locked, dry>>
              /\ vchPubKey[r] # None /\ used' = used \cup {vchPubKey[r]}
              /\ pool' = [pool EXCEPT ![nIndex[r]] = None]
              /\ nIndex' = [nIndex EXCEPT ![r] = None] /\ vchPubKey' = [vchPubKey EXCEPT ![r] = None]
            BY <1>8 DEF KeepKey
        <2>2. /\ \A i \in Index : pool'[i] = IF i = nIndex[r] THEN None ELSE pool[i]
              /\ nIndex'[r] = None /\ vchPubKey'[r] = None
              /\ \A s \in Holder \ {r} : nIndex'[s] = nIndex[s] /\ vchPubKey'[s] = vchPubKey[s]
            BY <2>1 DEF TypeInv
        <2>3. TypeInv' /\ KeysDistinct'
            <3>1. vchPubKey[r] \in 1..nGenerated
                BY <1>3, <2>1 DEF TypeInv
            <3>2. pool' \in [Index -> 0..nGenerated]
                <4>1. 0 \in 0..nGenerated /\ pool \in [Index -> 0..nGenerated]
                    BY DEF TypeInv
                <4> QED BY <2>1, <4>1, UpdateType
            <3>3. nIndex' \in [Holder -> Index \cup {None}] /\ vchPubKey' \in [Holder -> 0..nGenerated]
                BY <2>1 DEF TypeInv
            <3>4. KeysDistinct'
                BY <2>2 DEF KeysDistinct
            <3> QED BY <2>1, <3>1, <3>2, <3>3, <3>4 DEF TypeInv
        <2>4. KeyAtIndex'
            BY <2>1, <2>2 DEF KeyAtIndex
        <2>5. ReservedBelow' /\ IndexBacked'
            <3> SUFFICES ASSUME ~dry PROVE ReservedBelow' /\ IndexBacked'
                BY <2>1 DEF ReservedBelow, IndexBacked
            <3>1. \A s \in Holder \ {r} : nIndex[s] = nIndex[r] => nIndex[s] = None
                BY DEF IndexBacked
            <3>2. nIndex[r] # None
                BY <2>1 DEF KeyAtIndex
            <3>3. ReservedBelow'
                BY <1>3, <2>1, <2>2, <3>1, <3>2 DEF ReservedBelow
            <3>4. IndexBacked'
                <4>1. 0 \notin setKeyPool
                    BY DEF TypeInv, Index
                <4> QED BY <2>1, <2>2, <3>1, <3>2, <4>1 DEF IndexBacked, TypeInv
            <3> QED BY <3>3, <3>4
        <2>6. KeyGivenOnce'
            <3> SUFFICES ASSUME NEW k \in used'
                         PROVE  /\ \A i \in Index : pool'[i] # k
                                /\ ~dry => \A s \in Holder : vchPubKey'[s] # k
                BY <2>1 DEF KeyGivenOnce
            <3>1. k # None
                BY <2>1 DEF TypeInv
            <3>2. CASE k \in used
                BY <2>1, <2>2, <3>1, <3>2 DEF KeyGivenOnce
            <3>3. CASE k = vchPubKey[r]
                <4>1. \A i \in Index : pool'[i] # k
                    BY <2>1, <2>2, <3>1, <3>3 DEF KeyAtIndex
                <4>2. ASSUME ~dry, NEW s \in Holder, vchPubKey'[s] = k PROVE FALSE
                    <5>1. s # r /\ vchPubKey[s] = vchPubKey[r]
                        BY <2>2, <3>1, <3>3, <4>2
                    <5>2. nIndex[s] # None /\ nIndex[r] # None
                        BY <2>1, <5>1 DEF KeyAtIndex
                    <5>3. pool[nIndex[s]] = vchPubKey[s] /\ nIndex[s] \in Index
                        BY <1>3, <4>2, <5>2 DEF ReservedBelow
                    <5>4. nIndex[s] = nIndex[r]
                        BY <2>1, <5>1, <5>3 DEF KeyAtIndex
                    <5> QED BY <4>2, <5>1, <5>2, <5>4 DEF IndexBacked
                <4> QED BY <4>1, <4>2
            <3> QED BY <2>1, <3>2, <3>3
        <2> QED BY <2>3, <2>4, <2>5, <2>6
    <1>9. ASSUME NEW r \in Holder, ReturnKey(r) PROVE PoolInv'
        <2>1. /\ UNCHANGED <<pool, nGenerated, crypted, locked, used, dry>>
              /\ nIndex[r] # None /\ setKeyPool' = setKeyPool \cup {nIndex[r]}
              /\ nIndex' = [nIndex EXCEPT ![r] = None] /\ vchPubKey' = [vchPubKey EXCEPT ![r] = None]
            BY <1>9 DEF ReturnKey
        <2>2. /\ nIndex[r] \in Index
              /\ nIndex'[r] = None /\ vchPubKey'[r] = None
              /\ \A s \in Holder \ {r} : nIndex'[s] = nIndex[s] /\ vchPubKey'[s] = vchPubKey[s]
            BY <1>3, <2>1 DEF TypeInv
        <2>3. TypeInv' /\ KeysDistinct'
            BY <2>1, <2>2 DEF TypeInv, KeysDistinct
        <2>4. KeyAtIndex'
            BY <2>1, <2>2 DEF KeyAtIndex
        <2>5. ReservedBelow'
            BY <2>1, <2>2 DEF ReservedBelow
        <2>6. IndexBacked'
            <3>1. 0 \notin setKeyPool /\ nIndex[r] # 0
                BY <2>1 DEF TypeInv, Index
            <3> QED BY <2>1, <2>2, <3>1 DEF IndexBacked, ReservedBelow
        <2>7. KeyGivenOnce'
            <3>1. \A k \in used : k # 0
                BY DEF TypeInv
            <3> QED BY <2>1, <2>2, <3>1 DEF KeyGivenOnce
        <2> QED BY <2>3, <2>4, <2>5, <2>6, <2>7
    <1>10. CASE GetKeyFromPool
        <2> DEFINE key == u.db[t]
        <2>1. u.set # {} /\ UNCHANGED <<nIndex, vchPubKey, crypted, locked>>
            BY <1>10 DEF GetKeyFromPool, holders, u
        <2>2. /\ setKeyPool' = u.set \ {t} /\ nGenerated' = u.gen /\ u.set \ {t} \subseteq Index /\ u.gen <= MaxKey
              /\ dry' = (dry \/ (u.set \ {t} = {} /\ SomeReserved))
              /\ \/ key = None /\ used' = used /\ pool' = u.db
                 \/ key # None /\ used' = used \cup {key} /\ pool' = [u.db EXCEPT ![t] = None]
            <3>1. CASE key = None
                BY <1>2, <1>10, <3>1 DEF GetKeyFromPool, Become, t
            <3>2. CASE key # None
                BY <1>2, <1>10, <3>2 DEF GetKeyFromPool, Become, t
            <3> QED BY <3>1, <3>2
        <2>3. t \in Index /\ t \in u.set /\ key \in 0..u.gen
            BY <1>1, <1>4, <2>1, <2>2 DEF Sound
        <2> HIDE DEF key
        <2>4. /\ pool' \in [Index -> 0..u.gen]
              /\ \A i \in Index : pool'[i] = IF i = t THEN None ELSE u.db[i]
            BY <1>1, <2>2, <2>3 DEF Sound, key
        <2>5. TypeInv'
            BY <1>1, <2>1, <2>2, <2>3, <2>4 DEF Sound, TypeInv
        <2>6. KeysDistinct' /\ KeyAtIndex'
            BY <1>1, <2>1, <2>4 DEF Sound, KeysDistinct, KeyAtIndex
        <2>7. ~dry' => ~dry /\ ((\E s \in Holder : nIndex[s] # None) => u.set \ {t} # {})
            BY <2>1, <2>2 DEF SomeReserved
        <2>8. ASSUME ~dry, NEW s \in Holder, nIndex[s] # None
              PROVE  nIndex[s] \notin u.set /\ u.db[nIndex[s]] = vchPubKey[s] /\ nIndex[s] # t /\ nIndex[s] \in Index
            BY <1>1, <1>3, <2>3, <2>8 DEF Sound
        <2>9. ReservedBelow'
            <3> SUFFICES ASSUME ~dry, u.set \ {t} # {}, NEW s \in Holder, nIndex[s] # None
                         PROVE  pool'[nIndex[s]] = vchPubKey[s] /\ \E j \in u.set \ {t} : j > nIndex[s]
                BY <2>1, <2>2, <2>7 DEF ReservedBelow
            <3>1. PICK j \in u.set \ {t} : j > t
                BY <1>1, <2>3 DEF Sound, Index
            <3>2. \E i \in u.set : i > nIndex[s]
                BY <1>1 DEF Sound
            <3> QED BY <1>1, <2>4, <2>8, <3>1, <3>2 DEF Sound, Index
        <2>10. IndexBacked'
            <3> SUFFICES ASSUME ~dry PROVE IndexBacked'
                BY <2>7 DEF IndexBacked
            <3>1. \A i \in u.set \ {t} : pool'[i] # None
                BY <1>1, <2>2, <2>4 DEF Sound
            <3>2. \A s \in Holder : nIndex[s] \notin u.set
                BY <1>1, <2>8 DEF Sound
            <3> QED BY <2>1, <2>2, <3>1, <3>2 DEF IndexBacked
        <2>11. KeyGivenOnce'
            <3> SUFFICES ASSUME NEW k \in used'
                         PROVE  /\ \A i \in Index : pool'[i] # k
                                /\ ~dry => \A s \in Holder : vchPubKey[s] # k
                BY <2>1, <2>7 DEF KeyGivenOnce
            <3>1. CASE k \in used
                BY <1>1, <2>4, <3>1 DEF Sound, KeyGivenOnce, TypeInv
            <3>2. CASE k = key /\ key # None
                <4>1. \A i \in Index : pool'[i] # k
                    BY <1>1, <2>3, <2>4, <3>2 DEF Sound, key
                <4>2. ASSUME ~dry, NEW s \in Holder, vchPubKey[s] = k PROVE FALSE
                    <5>1. t = nIndex[s]
                        BY <1>1, <2>3, <3>2, <4>2 DEF Sound, key
                    <5> QED BY <2>3, <2>8, <4>2, <5>1 DEF Index
                <4> QED BY <4>1, <4>2
            <3> QED BY <2>2, <3>1, <3>2
        <2> QED BY <2>5, <2>6, <2>9, <2>10, <2>11
    <1>11. CASE GetOldestKeyPoolTime
        <2>1. u.set # {} /\ UNCHANGED <<nIndex, vchPubKey, crypted, locked, used>>
            BY <1>11 DEF GetOldestKeyPoolTime, holders, u
        <2>2. \E S \in SUBSET u.set :
                 /\ S = u.set \/ (S = u.set \ {t} /\ u.db[t] = None)
                 /\ setKeyPool' = S /\ S \subseteq Index /\ pool' = u.db /\ nGenerated' = u.gen /\ u.gen <= MaxKey
                 /\ dry' = (dry \/ (S = {} /\ SomeReserved))
            <3>1. CASE u.db[t] = None
                BY <1>2, <1>11, <3>1 DEF GetOldestKeyPoolTime, Become, t
            <3>2. CASE u.db[t] # None
                BY <1>2, <1>11, <3>2 DEF GetOldestKeyPoolTime, Become, u, t
            <3> QED BY <3>1, <3>2
        <2>3. PICK S \in SUBSET u.set :
                 /\ S = u.set \/ (S = u.set \ {t} /\ u.db[t] = None)
                 /\ setKeyPool' = S /\ S \subseteq Index /\ pool' = u.db /\ nGenerated' = u.gen /\ u.gen <= MaxKey
                 /\ dry' = (dry \/ (S = {} /\ SomeReserved))
            BY <2>2
        <2>4. t \in Index /\ t \in u.set
            BY <1>1, <1>4, <2>1, <2>3
        <2>5. ~dry => S = u.set
            BY <1>1, <2>3, <2>4 DEF Sound
        <2>6. ~dry' => ~dry
            BY <2>3
        <2>7. TypeInv' /\ KeysDistinct' /\ KeyAtIndex'
            BY <1>1, <2>1, <2>3 DEF Sound, TypeInv, KeysDistinct, KeyAtIndex
        <2>8. ReservedBelow' /\ IndexBacked'
            BY <1>1, <2>1, <2>3, <2>5, <2>6 DEF Sound, ReservedBelow, IndexBacked
        <2>9. KeyGivenOnce'
            BY <1>1, <2>1, <2>3, <2>6 DEF Sound, KeyGivenOnce
        <2> QED BY <2>7, <2>8, <2>9
    <1>12. CASE EncryptWallet
        <2> DEFINE kept == [i \in Index |-> IF i \in setKeyPool THEN None ELSE pool[i]]
                   new  == 1..nTargetSize
        <2>1. /\ UNCHANGED <<nIndex, vchPubKey, used>> /\ crypted' = TRUE /\ locked' = TRUE
              /\ nGenerated + nTargetSize <= MaxKey /\ dry' = (dry \/ SomeReserved)
            BY <1>12 DEF EncryptWallet, holders
        <2>2. /\ setKeyPool' = new /\ nGenerated' = nGenerated + nTargetSize
              /\ pool' = [i \in Index |-> IF i \in new THEN nGenerated + i ELSE kept[i]]
            <3> DEFINE erased == [set |-> {}, gen |-> nGenerated, db |-> kept]
                       w == IF nTargetSize = 0 THEN erased ELSE Write(erased, new)
            <3>1. setKeyPool' = w.set /\ pool' = w.db /\ nGenerated' = w.gen
                BY <1>12 DEF EncryptWallet
            <3>2. CASE nTargetSize = 0
                <4>1. new = {} /\ nGenerated + nTargetSize = nGenerated
                    BY <3>2 DEF TypeInv
                <4>2. kept = [i \in Index |-> IF i \in new THEN nGenerated + i ELSE kept[i]]
                    BY <4>1
                <4>3. w.set = {} /\ w.db = kept /\ w.gen = nGenerated
                    BY <3>2
                <4> QED BY <3>1, <4>1, <4>2, <4>3
            <3>3. CASE nTargetSize # 0
                <4>1. nTargetSize \in Nat \ {0} /\ 1 + nTargetSize - 1 = nTargetSize
                    BY <3>3, KeyPoolAssumption
                <4>2. erased.gen \in Nat /\ erased.gen = nGenerated /\ erased.set = {} /\ erased.db = kept
                    BY DEF TypeInv
                <4> HIDE DEF erased, kept
                <4>3. Write(erased, 1..(1 + nTargetSize - 1)) =
                         [set |-> erased.set \cup 1..(1 + nTargetSize - 1),
                          db  |-> [i \in Index |-> IF i \in 1..(1 + nTargetSize - 1)
                                                  THEN erased.gen + i - 1 + 1 ELSE erased.db[i]],
                          gen |-> erased.gen + nTargetSize]
                    BY <4>1, <4>2, WriteKeys
                <4>4. /\ w.set = new /\ w.gen = nGenerated + nTargetSize
                      /\ w.db = [i \in Index |-> IF i \in new THEN nGenerated + i - 1 + 1 ELSE kept[i]]
                    BY <3>3, <4>1, <4>2, <4>3
                <4>5. \A i \in Index : nGenerated + i - 1 + 1 = nGenerated + i
                    BY DEF TypeInv, Index
                <4> QED BY <3>1, <4>4, <4>5
            <3> QED BY <3>2, <3>3
        <2>3. /\ \A i \in Index : i \in new => pool'[i] = nGenerated + i /\ pool'[i] > nGenerated /\ pool'[i] \in 0..nGenerated'
              /\ \A i \in Index : i \notin new => pool'[i] \in {None, pool[i]} /\ pool'[i] \in 0..nGenerated
              /\ new \subseteq Index /\ nGenerated \in Nat /\ nGenerated' \in Nat /\ nGenerated <= nGenerated'
            BY <2>1, <2>2, KeyPoolAssumption DEF TypeInv, Index
        <2>4. TypeInv'
            <3>1. pool' \in [Index -> 0..nGenerated']
                <4>1. \A i \in Index : pool'[i] \in 0..nGenerated'
                    BY <2>3
                <4> QED BY <2>2, <4>1
            <3>2. nIndex' \in [Holder -> Index \cup {None}] /\ vchPubKey' \in [Holder -> 0..nGenerated']
                BY <1>3, <2>1, <2>3 DEF TypeInv
            <3> QED BY <2>1, <2>2, <2>3, <3>1, <3>2 DEF TypeInv
        <2> HIDE DEF new, kept
        <2>5. KeysDistinct'
            <3> SUFFICES ASSUME NEW i \in Index, NEW j \in Index, i # j, pool'[i] = pool'[j] PROVE pool'[i] = None
                BY DEF KeysDistinct
            <3>1. i \in Int /\ j \in Int
                BY DEF Index
            <3>2. CASE i \in new /\ j \in new
                BY <2>3, <3>1, <3>2
            <3>3. CASE i \notin new /\ j \notin new
                BY <2>3, <3>3 DEF KeysDistinct
            <3>4. CASE ~(i \in new <=> j \in new)
                BY <2>3, <3>4
            <3> QED BY <3>2, <3>3, <3>4
        <2>6. KeyAtIndex'
            BY <1>3, <2>1, <2>3 DEF KeyAtIndex
        <2>7. ~dry' => ~dry /\ \A r \in Holder : nIndex[r] = None
            BY <2>1 DEF SomeReserved
        <2>8. ReservedBelow'
            BY <2>1, <2>7 DEF ReservedBelow
        <2>9. IndexBacked'
            <3>1. \A i \in setKeyPool' : pool'[i] # None
                BY <2>2, <2>3
            <3>2. 0 \notin setKeyPool'
                BY <2>2, <2>3 DEF Index
            <3> QED BY <2>1, <2>7, <3>1, <3>2 DEF IndexBacked
        <2>10. KeyGivenOnce'
            <3>1. \A k \in used : k # None /\ k <= nGenerated
                BY DEF TypeInv
            <3> QED BY <2>1, <2>3, <2>7, <3>1 DEF KeyGivenOnce
        <2> QED BY <2>4, <2>5, <2>6, <2>8, <2>9, <2>10
    <1>13. CASE Lock \/ Unlock \/ UNCHANGED vars
        <2>1. UNCHANGED <<setKeyPool, pool, nGenerated, nIndex, vchPubKey, used, dry>>
            BY <1>13 DEF Lock, Unlock, vars, holders
        <2>2. crypted' \in BOOLEAN /\ locked' \in BOOLEAN
            BY <1>13 DEF Lock, Unlock, vars, TypeInv
        <2> QED
            BY <2>1, <2>2 DEF TypeInv, KeysDistinct, KeyAtIndex, ReservedBelow, IndexBacked, KeyGivenOnce
    <1>14. CASE Restart
        <2>1. /\ setKeyPool' = {i \in Index : pool[i] # None} /\ UNCHANGED <<pool, nGenerated, crypted, used>>
              /\ nIndex' = [r \in Holder |-> None] /\ vchPubKey' = [r \in Holder |-> None]
              /\ locked' = crypted /\ dry' = FALSE
            BY <1>14 DEF Restart
        <2>2. TypeInv'
            <3>1. None \in Index \cup {None} /\ None \in 0..nGenerated
                BY DEF TypeInv
            <3>2. nIndex' \in [Holder -> Index \cup {None}] /\ vchPubKey' \in [Holder -> 0..nGenerated]
                BY <2>1, <3>1
            <3>3. setKeyPool' \in SUBSET Index
                BY <2>1
            <3> QED BY <2>1, <3>2, <3>3 DEF TypeInv
        <2>3. KeysDistinct' /\ KeyAtIndex' /\ ReservedBelow'
            BY <2>1 DEF KeysDistinct, KeyAtIndex, ReservedBelow
        <2>4. IndexBacked'
            BY <2>1 DEF IndexBacked, Index
        <2>5. KeyGivenOnce'
            BY <2>1 DEF KeyGivenOnce, TypeInv
        <2> QED BY <2>2, <2>3, <2>4, <2>5
    <1> QED
        BY <1>5, <1>6, <1>7, <1>8, <1>9, <1>10, <1>11, <1>12, <1>13, <1>14 DEF Next

(* A new wallet has no key.                                                *)
LEMMA InitPool == Init => PoolInv
    <1> SUFFICES ASSUME Init PROVE PoolInv
        OBVIOUS
    <1> USE DEF Init, None
    <1>1. TypeInv
        <2>1. None \in Index \cup {None} /\ None \in 0..nGenerated
            OBVIOUS
        <2>2. pool \in [Index -> 0..nGenerated]
            BY <2>1
        <2>3. nIndex \in [Holder -> Index \cup {None}] /\ vchPubKey \in [Holder -> 0..nGenerated]
            BY <2>1
        <2> QED BY <2>2, <2>3 DEF TypeInv
    <1>2. KeysDistinct /\ KeyAtIndex /\ ReservedBelow /\ IndexBacked /\ KeyGivenOnce
        BY DEF KeysDistinct, KeyAtIndex, ReservedBelow, IndexBacked, KeyGivenOnce
    <1> QED BY <1>1, <1>2 DEF PoolInv

(* The inductive invariant holds for ever.                                 *)
LEMMA PoolHolds == Spec => []PoolInv
    BY InitPool, PoolStep, PTL DEF Spec

(* Until the pool runs dry under a reservation, every index that can be    *)
(* taken has its record, and no index is given out twice.                  *)
THEOREM IndicesBacked == Spec => []IndexBacked
    <1>1. PoolInv => IndexBacked
        BY DEF PoolInv
    <1> QED BY <1>1, PoolHolds, PTL

(* A key that was given away for good is not in the file's pool again,     *)
(* whatever was topped up, returned, encrypted or restarted since.         *)
THEOREM KeysGivenOnce == Spec => []KeyGivenOnce
    <1>1. PoolInv => KeyGivenOnce
        BY DEF PoolInv
    <1> QED BY <1>1, PoolHolds, PTL
=============================================================================
