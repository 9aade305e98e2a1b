--------------------------- MODULE NodeLife_proofs --------------------------
(* The life of a connection, for any number of CNode objects, opening      *)
(* threads and slots: reference counts are exact, no thread works on a     *)
(* deleted node and no outbound slot is lost or made, but for the two      *)
(* kinds of node that the properties of NodeLife except.                   *)
EXTENDS NodeLife, FiniteSetTheorems, TLAPS

(* A thread has a copy of vNodes only while it works on it.                *)
CopiesInUse == (pcS # "serve" => copyS = {}) /\ (pcM = "copy" => copyM = {})

(* Nobody has heard of a CNode that does not exist yet.                    *)
UnusedUnknown ==
    \A n \in Node : where[n] = "unused" => n \notin copyS \cup copyM \cup found

(* A node that left vNodes before its opener was done is not in vNodes; if *)
(* it was not shared it keeps its owner's reference, and so its life.      *)
EarlyKeepsReference ==
    \A n \in early :
        /\ where[n] \in {"disconnected", "deleted"}
        /\ n \notin found =>
              /\ where[n] = "disconnected"
              /\ nRefCount[n] = 1 + Count(n \in copyS) + Count(n \in copyM)

(* An opener has a node between ConnectNode and the end of its turn; the   *)
(* node is in vNodes unless it was taken out under the opener's feet.      *)
OpenerHasNode ==
    \A o \in Opener :
        /\ pnode[o] # None <=> pcO[o] \in {"ref", "refwrite", "grant", "flag"}
        /\ pnode[o] # None => where[pnode[o]] = "vNodes" \/ pnode[o] \in early
        /\ pcO[o] \in {"ref", "refwrite"} => pnode[o] \in found

(* A node that was not shared has one opener at most, and no owner before  *)
(* that opener is done.                                                    *)
OneOpener ==
    \A o \in Opener :
        pnode[o] # None /\ pnode[o] \notin found =>
            ~Owned(pnode[o]) /\ \A p \in Opener \ {o} : pnode[p] # pnode[o]

LifeInv ==
    /\ TypeOK /\ RefCountExact /\ NoUseAfterDelete /\ SlotsConserved
    /\ CopiesInUse /\ UnusedUnknown /\ EarlyKeepsReference /\ OpenerHasNode /\ OneOpener

-----------------------------------------------------------------------------
(* Openers that hold a grant of their own, and nodes that hold one.        *)
Pending == {o \in Opener : pcO[o] \in {"connect", "socket", "ref", "refwrite", "grant"}}
Granted == {n \in Node : grantOutbound[n]}

(* Nodes and openers are finitely many.                                    *)
LEMMA Finite ==
    /\ \A S \in SUBSET Node : IsFiniteSet(S) /\ Cardinality(S) \in Nat
    /\ \A S \in SUBSET Opener : IsFiniteSet(S) /\ Cardinality(S) \in Nat
    BY LifeAssumption, FS_Subset, FS_CardinalityType

(* The flags of the nodes, one by one.                                     *)
LEMMA Flags ==
    TypeOK <=>
        /\ TypeOK
        /\ fDisconnect \in [Node -> BOOLEAN] /\ fInbound \in [Node -> BOOLEAN]
        /\ fNetworkNode \in [Node -> BOOLEAN] /\ grantOutbound \in [Node -> BOOLEAN]
    BY DEF TypeOK

(* A step that neither moves a slot nor publishes a node conserves slots.  *)
LEMMA SlotsUntouched ==
    ASSUME SlotsConserved, UNCHANGED <<semOutbound, grantOutbound, where, early>>, Pending' = Pending
    PROVE  SlotsConserved'
    BY DEF SlotsConserved, Pending

(* A new node has no slot, whatever CNode it stands for.                   *)
LEMMA NewNodeSlots ==
    ASSUME LifeInv, NEW n \in Node, NEW a, NEW inbound, NewNode(n, a, inbound),
           semOutbound' = semOutbound, Pending' = Pending
    PROVE  SlotsConserved'
    <1>1. grantOutbound' = grantOutbound /\ ~grantOutbound[n]
        BY DEF NewNode, LifeInv, SlotsConserved, EarlyKeepsReference
    <1>2. \A m \in Node \ {n} : where'[m] = where[m] /\ (m \in early' <=> m \in early)
        BY DEF NewNode, LifeInv, TypeOK
    <1>3. \A m \in Node \ early' : grantOutbound'[m] => where'[m] = "vNodes"
        BY <1>1, <1>2 DEF LifeInv, SlotsConserved
    <1> QED BY <1>1, <1>3 DEF LifeInv, SlotsConserved, Pending

(* Every step conserves the outbound slots.                                *)
LEMMA SlotStep ==
    LifeInv /\ [Next]_vars => SlotsConserved' /\ semOutbound' \in Nat
    <1> SUFFICES ASSUME LifeInv, [Next]_vars PROVE SlotsConserved' /\ semOutbound' \in Nat
        OBVIOUS
    <1> USE DEF LifeInv
    <1>1. /\ semOutbound \in Nat /\ Pending \in SUBSET Opener /\ Granted \in SUBSET Node
          /\ Cardinality(Pending) \in Nat /\ Cardinality(Granted) \in Nat
          /\ semOutbound + Cardinality(Pending) + Cardinality(Granted) = MaxOutbound
        BY Finite DEF TypeOK, Pending, Granted, SlotsConserved
    <1>2. ASSUME NEW busy, SocketDisconnectWith(Leaving(busy)) PROVE SlotsConserved' /\ semOutbound' \in Nat
        <2> DEFINE L == Leaving(busy)
        <2>1. L \subseteq vNodes /\ L \in SUBSET Node
            BY DEF Leaving, vNodes
        <2> HIDE DEF L
        <2>2. Pending' = Pending /\ Granted' = Granted \ L /\ semOutbound' = semOutbound + SlotsBack(L)
            BY <1>2, Flags DEF SocketDisconnectWith, openers, Pending, Granted, L
        <2>3. SlotsBack(L) = Cardinality(Granted \cap L) /\ Cardinality(Granted \cap L) \in Nat
            <3>1. {n \in L : grantOutbound[n]} = Granted \cap L
                BY <2>1 DEF Granted
            <3> QED BY <1>1, <3>1, Finite DEF SlotsBack
        <2>4. Cardinality(Granted') = Cardinality(Granted) - Cardinality(Granted \cap L)
            BY <1>1, <2>1, <2>2, Finite, FS_Difference
        <2>5. \A n \in Node \ early' : grantOutbound'[n] => where'[n] = "vNodes"
            <3> SUFFICES ASSUME NEW n \in Node, n \notin early', grantOutbound'[n] PROVE where'[n] = "vNodes"
                OBVIOUS
            <3>1. n \notin L /\ grantOutbound[n] /\ n \notin early
                BY <1>2 DEF SocketDisconnectWith, L
            <3>2. where[n] = "vNodes"
                BY <3>1 DEF SlotsConserved
            <3> QED
                BY <1>2, <3>1, <3>2 DEF SocketDisconnectWith, Deletable, vNodesDisconnected, L
        <2> QED
            <3>1. semOutbound' \in Nat
                  /\ semOutbound' + Cardinality(Pending') + Cardinality(Granted') = MaxOutbound
                BY <1>1, <2>2, <2>3, <2>4
            <3> QED BY <2>5, <3>1 DEF SlotsConserved, Pending, Granted
    <1>3. ASSUME NEW n \in Node, NEW a \in Addr, SocketAccept(n, a) PROVE SlotsConserved' /\ semOutbound' \in Nat
        BY <1>1, <1>3, NewNodeSlots DEF SocketAccept, openers, Pending
    <1>4. CASE SocketNoAccept \/ SocketCopy \/ SocketRelease \/ MessageCopy \/ MessageRelease \/ UNCHANGED vars
        BY <1>1, <1>4, SlotsUntouched DEF SocketNoAccept, SocketCopy, SocketRelease, MessageCopy,
            MessageRelease, vars, nodes, openers, hist, Pending
    <1>5. ASSUME NEW n \in Node, SocketServe(n) \/ MessageClose(n) PROVE SlotsConserved' /\ semOutbound' \in Nat
        BY <1>1, <1>5, SlotsUntouched DEF SocketServe, MessageClose, openers, hist, Pending
    <1>6. ASSUME NEW o \in Opener, NEW a \in Addr, OpenStart(o, a) PROVE SlotsConserved' /\ semOutbound' \in Nat
        <2>1. o \notin Pending /\ Pending' = Pending \cup {o} /\ semOutbound' = semOutbound - 1 /\ semOutbound > 0
            BY <1>6 DEF OpenStart, At, TypeOK, Pending
        <2>2. Cardinality(Pending') = Cardinality(Pending) + 1
            BY <1>1, <2>1, Finite, FS_AddElement
        <2> QED BY <1>1, <1>6, <2>1, <2>2 DEF OpenStart, nodes, hist, SlotsConserved, Pending, Granted
    <1>7. ASSUME NEW o \in Opener, OpenFail(o) PROVE SlotsConserved' /\ semOutbound' \in Nat
        <2>1. o \in Pending /\ Pending' = Pending \ {o} /\ semOutbound' = semOutbound + 1
            BY <1>7 DEF OpenFail, At, TypeOK, Pending
        <2>2. Cardinality(Pending') = Cardinality(Pending) - 1
            BY <1>1, <2>1, Finite, FS_RemoveElement
        <2> QED BY <1>1, <1>7, <2>1, <2>2 DEF OpenFail, nodes, hist, SlotsConserved, Pending, Granted
    <1>8. ASSUME NEW o \in Opener,
                 (\E n \in Node : OpenFound(o, n)) \/ OpenRefRead(o) \/ OpenRefWrite(o) \/ OpenSocket(o) \/ OpenDone(o)
          PROVE  SlotsConserved' /\ semOutbound' \in Nat
        <2>1. Pending' = Pending
            BY <1>8 DEF OpenFound, OpenRefRead, OpenRefWrite, OpenSocket, OpenDone, At, TypeOK, Pending
        <2>2. UNCHANGED <<semOutbound, grantOutbound, where, early>>
            BY <1>8 DEF OpenFound, OpenRefRead, OpenRefWrite, OpenSocket, OpenDone, nodes, hist
        <2> QED BY <1>1, <2>1, <2>2, SlotsUntouched
    <1>9. ASSUME NEW o \in Opener, NEW n \in Node, OpenConnect(o, n) PROVE SlotsConserved' /\ semOutbound' \in Nat
        <2>1. Pending' = Pending
            BY <1>9 DEF OpenConnect, At, TypeOK, Pending
        <2> QED BY <1>1, <1>9, <2>1, NewNodeSlots DEF OpenConnect
    <1>10. ASSUME NEW o \in Opener, OpenGrant(o) PROVE SlotsConserved' /\ semOutbound' \in Nat
        <2>1. o \in Pending /\ Pending' = Pending \ {o}
            BY <1>10 DEF OpenGrant, At, TypeOK, Pending
        <2>2. Cardinality(Pending') = Cardinality(Pending) - 1
            BY <1>1, <2>1, Finite, FS_RemoveElement
        <2>3. /\ pnode[o] \in Node /\ pnode[o] # None
              /\ where[pnode[o]] = "vNodes" \/ pnode[o] \in early
            BY <1>10 DEF OpenGrant, At, TypeOK, OpenerHasNode
        <2>4. Granted' = Granted \cup {pnode[o]}
            BY <1>10, <2>3, Flags DEF OpenGrant, Granted
        <2>5. semOutbound' + Cardinality(Granted') = semOutbound + Cardinality(Granted) + 1 /\ semOutbound' \in Nat
            <3>1. CASE grantOutbound[pnode[o]]
                <4>1. Granted' = Granted
                    BY <2>3, <2>4, <3>1 DEF Granted
                <4> QED BY <1>1, <1>10, <3>1, <4>1 DEF OpenGrant
            <3>2. CASE ~grantOutbound[pnode[o]]
                <4>1. pnode[o] \notin Granted
                    BY <3>2 DEF Granted
                <4>2. Cardinality(Granted') = Cardinality(Granted) + 1
                    BY <1>1, <2>4, <4>1, Finite, FS_AddElement
                <4> QED BY <1>1, <1>10, <3>2, <4>2 DEF OpenGrant
            <3> QED BY <3>1, <3>2
        <2>6. \A n \in Node \ early' : grantOutbound'[n] => where'[n] = "vNodes"
            BY <1>10, <2>3, Flags DEF OpenGrant, hist, SlotsConserved
        <2> QED
            <3>1. Cardinality(Granted') \in Nat
                BY <1>1, <2>3, <2>4, Finite
            <3>2. semOutbound' + Cardinality(Pending') + Cardinality(Granted') = MaxOutbound
                BY <1>1, <2>2, <2>5, <3>1
            <3> QED BY <2>5, <2>6, <3>2 DEF SlotsConserved, Pending, Granted
    <1> QED
        BY <1>2, <1>3, <1>4, <1>5, <1>6, <1>7, <1>8, <1>9, <1>10
            DEF Next, SocketThread, SocketDisconnect, MessageThread, Open

(* A counter keeps its type when one entry is written.                     *)
LEMMA UpdateType ==
    ASSUME NEW S, NEW f \in [S -> Int], NEW x, NEW v \in Int
    PROVE  [f EXCEPT ![x] = v] \in [S -> Int]
    OBVIOUS

(* Every step keeps the types.                                             *)
LEMMA TypeStep == LifeInv /\ [Next]_vars => TypeOK'
    <1> SUFFICES ASSUME LifeInv, [Next]_vars PROVE TypeOK'
        OBVIOUS
    <1>1. TypeOK /\ OpenerHasNode /\ Flags!2
        BY Flags DEF LifeInv
    <1>2. semOutbound' \in 0..MaxOutbound
        <2>1. SlotsConserved' /\ semOutbound' \in Nat
            BY SlotStep
        <2>2. Cardinality(Pending') \in Nat /\ Cardinality(Granted') \in Nat
            BY Finite DEF Pending, Granted
        <2>3. semOutbound' + Cardinality(Pending') + Cardinality(Granted') = MaxOutbound
            BY <2>1 DEF SlotsConserved, Pending, Granted
        <2> QED BY <2>1, <2>2, <2>3, LifeAssumption
    <1> USE DEF TypeOK
    <1>3. ASSUME NEW n \in Node, NEW a \in Addr \cup {None}, NEW inbound \in BOOLEAN, NewNode(n, a, inbound)
          PROVE  /\ where' \in [Node -> {"unused", "vNodes", "disconnected", "deleted"}]
                 /\ nRefCount' \in [Node -> Int]
                 /\ addr' \in [Node -> Addr \cup {None}]
                 /\ {fDisconnect', fInbound', fNetworkNode', grantOutbound'} \subseteq [Node -> BOOLEAN]
                 /\ found' \subseteq Node /\ early' \subseteq Node
        BY <1>1, <1>3 DEF NewNode
    <1>4. ASSUME NEW busy, SocketDisconnectWith(Leaving(busy)) PROVE TypeOK'
        <2>1. \A n \in Node : Released(n, Leaving(busy)) \in Int
            BY <1>1 DEF Released
        <2>2. Leaving(busy) \subseteq Node
            BY DEF Leaving, vNodes
        <2> QED BY <1>1, <1>2, <1>4, <2>1, <2>2 DEF SocketDisconnectWith, openers
    <1>5. ASSUME NEW n \in Node, NEW a \in Addr, SocketAccept(n, a) PROVE TypeOK'
        BY <1>1, <1>2, <1>3, <1>5 DEF SocketAccept, openers
    <1>6. CASE SocketNoAccept \/ SocketCopy \/ SocketRelease \/ MessageCopy \/ MessageRelease \/ UNCHANGED vars
        <2>1. vNodes \subseteq Node /\ \A S : AddRefAll(S) \in [Node -> Int] /\ ReleaseAll(S) \in [Node -> Int]
            BY <1>1 DEF vNodes, AddRefAll, ReleaseAll
        <2>2. CASE SocketNoAccept \/ UNCHANGED vars
            BY <1>1, <1>2, <2>1, <2>2 DEF SocketNoAccept, vars, nodes, threads, openers, hist
        <2>3. CASE SocketCopy \/ SocketRelease
            BY <1>1, <1>2, <2>1, <2>3 DEF SocketCopy, SocketRelease, nodes, threads, openers, hist
        <2>4. CASE MessageCopy \/ MessageRelease
            BY <1>1, <1>2, <2>1, <2>4 DEF MessageCopy, MessageRelease, nodes, threads, openers, hist
        <2> QED BY <1>6, <2>2, <2>3, <2>4
    <1>7. ASSUME NEW n \in Node, SocketServe(n) \/ MessageClose(n) PROVE TypeOK'
        <2>1. CASE SocketServe(n)
            BY <1>1, <1>2, <2>1 DEF SocketServe, threads, openers, hist
        <2>2. CASE MessageClose(n)
            BY <1>1, <1>2, <2>2 DEF MessageClose, threads, openers, hist
        <2> QED BY <1>7, <2>1, <2>2
    <1>8. ASSUME NEW o \in Opener, NEW a \in Addr, OpenStart(o, a) PROVE TypeOK'
        BY <1>1, <1>2, <1>8 DEF OpenStart, At, nodes, threads, hist
    <1>9. ASSUME NEW o \in Opener, NEW n \in Node, OpenFound(o, n) PROVE TypeOK'
        BY <1>1, <1>2, <1>9 DEF OpenFound, At, nodes, threads
    <1>10. ASSUME NEW o \in Opener, NEW n \in Node, OpenConnect(o, n) PROVE TypeOK'
        BY <1>1, <1>2, <1>3, <1>10 DEF OpenConnect, At, threads
    <1>11. ASSUME NEW o \in Opener, OpenSocket(o) \/ OpenFail(o) PROVE TypeOK'
        BY <1>1, <1>2, <1>11 DEF OpenSocket, OpenFail, At, nodes, threads, hist
    <1>12. ASSUME NEW o \in Opener, OpenRefRead(o) PROVE TypeOK'
        <2>1. pnode[o] \in Node
            BY <1>1, <1>12 DEF OpenRefRead, At, OpenerHasNode
        <2> QED BY <1>1, <1>2, <1>12, <2>1 DEF OpenRefRead, At, nodes, threads, hist
    <1>13. ASSUME NEW o \in Opener, OpenRefWrite(o) PROVE TypeOK'
        <2>1. nRefCount' \in [Node -> Int] /\ nRead' \in [Opener -> Int]
            <3>1. nRead[o] + 1 \in Int
                BY <1>1
            <3>2. nRefCount' = [nRefCount EXCEPT ![pnode[o]] = nRead[o] + 1]
                BY <1>13 DEF OpenRefWrite
            <3>3. nRead' = [nRead EXCEPT ![o] = 0]
                BY <1>13 DEF OpenRefWrite
            <3> QED BY <1>1, <3>1, <3>2, <3>3, UpdateType
        <2>2. pcO' \in [Opener -> {"idle", "connect", "socket", "ref", "refwrite", "grant", "flag"}]
            BY <1>1, <1>13 DEF OpenRefWrite, At
        <2> QED BY <1>1, <1>2, <1>13, <2>1, <2>2 DEF OpenRefWrite, threads, hist
    <1>14. ASSUME NEW o \in Opener, OpenGrant(o) \/ OpenDone(o) PROVE TypeOK'
        <2>1. grantOutbound' \in [Node -> BOOLEAN] /\ fNetworkNode' \in [Node -> BOOLEAN]
            BY <1>1, <1>14 DEF OpenGrant, OpenDone
        <2>2. /\ pcO' \in [Opener -> {"idle", "connect", "socket", "ref", "refwrite", "grant", "flag"}]
              /\ pnode' \in [Opener -> Node \cup {None}]
            BY <1>1, <1>14 DEF OpenGrant, OpenDone, At
        <2> QED BY <1>1, <1>2, <1>14, <2>1, <2>2 DEF OpenGrant, OpenDone, threads, hist
    <1> QED
        BY <1>4, <1>5, <1>6, <1>7, <1>8, <1>9, <1>10, <1>11, <1>12, <1>13, <1>14
            DEF Next, SocketThread, SocketDisconnect, MessageThread, Open

-----------------------------------------------------------------------------
(* The parts of the invariant that are about references.                   *)
RefInv ==
    /\ RefCountExact /\ NoUseAfterDelete
    /\ CopiesInUse /\ UnusedUnknown /\ EarlyKeepsReference /\ OpenerHasNode /\ OneOpener

(* They speak of these variables only.                                     *)
LEMMA RefUntouched ==
    ASSUME RefInv, UNCHANGED <<where, nRefCount, fInbound, fNetworkNode, copyS, copyM, pcM, pnode, pcO, found, early>>,
           pcS' = pcS \/ {pcS, pcS'} \cap {"serve"} = {}
    PROVE  RefInv'
    <1> USE DEF RefInv
    <1>1. RefCountExact' /\ NoUseAfterDelete'
        BY DEF RefCountExact, NoUseAfterDelete
    <1>2. CopiesInUse' /\ UnusedUnknown' /\ EarlyKeepsReference'
        BY DEF CopiesInUse, UnusedUnknown, EarlyKeepsReference
    <1>3. OpenerHasNode' /\ OneOpener'
        BY DEF OpenerHasNode, OneOpener, Owned
    <1> QED BY <1>1, <1>2, <1>3

(* A new node is known to its maker only.                                  *)
LEMMA NewNodeRefs ==
    ASSUME LifeInv, NEW n \in Node, NEW a, NEW inbound \in BOOLEAN, NewNode(n, a, inbound),
           UNCHANGED <<copyS, copyM, pcM>>, pcS' = pcS \/ {pcS, pcS'} \cap {"serve"} = {}
    PROVE  /\ RefCountExact' /\ CopiesInUse' /\ UnusedUnknown' /\ EarlyKeepsReference'
           /\ n \notin copyS \cup copyM /\ \A o \in Opener : pnode[o] # n
    <1> USE DEF LifeInv
    <1>1. n \notin copyS \cup copyM /\ \A o \in Opener : pnode[o] # n
        <2>1. CASE where[n] = "unused"
            BY <2>1, LifeAssumption DEF UnusedUnknown, OpenerHasNode, EarlyKeepsReference, TypeOK
        <2> QED BY <2>1 DEF NewNode
    <1>2. /\ where'[n] = "vNodes" /\ nRefCount'[n] = 1 /\ n \notin found' /\ n \notin early'
          /\ \A m \in Node \ {n} : /\ where'[m] = where[m] /\ nRefCount'[m] = nRefCount[m]
                                   /\ (m \in early' <=> m \in early) /\ (m \in found' <=> m \in found)
        BY DEF NewNode, TypeOK
    <1>3. RefCountExact'
        BY <1>1, <1>2 DEF RefCountExact, Count
    <1>4. CopiesInUse' /\ UnusedUnknown'
        BY <1>1, <1>2 DEF CopiesInUse, UnusedUnknown
    <1>5. EarlyKeepsReference'
        BY <1>2 DEF EarlyKeepsReference, TypeOK, NewNode
    <1> QED BY <1>1, <1>3, <1>4, <1>5

(* Taking a copy of vNodes adds a reference to each node, dropping it      *)
(* releases one each.                                                      *)
LEMMA CopyRefs ==
    ASSUME LifeInv, UNCHANGED <<where, fInbound, fNetworkNode, pnode, pcO, found, early>>,
           \/ copyS = {} /\ copyS' = vNodes /\ nRefCount' = AddRefAll(vNodes) /\ copyM' = copyM
           \/ copyM = {} /\ copyM' = vNodes /\ nRefCount' = AddRefAll(vNodes) /\ copyS' = copyS
           \/ copyS' = {} /\ nRefCount' = ReleaseAll(copyS) /\ copyM' = copyM
           \/ copyM' = {} /\ nRefCount' = ReleaseAll(copyM) /\ copyS' = copyS
    PROVE  /\ RefCountExact' /\ NoUseAfterDelete' /\ UnusedUnknown' /\ EarlyKeepsReference'
           /\ OpenerHasNode' /\ OneOpener'
    <1> USE DEF LifeInv
    <1>1. \A n \in Node : nRefCount'[n] - Count(n \in copyS') - Count(n \in copyM')
                            = nRefCount[n] - Count(n \in copyS) - Count(n \in copyM)
        BY DEF AddRefAll, ReleaseAll, Count, TypeOK
    <1>2. \A n \in Node : /\ nRefCount[n] \in Int /\ nRefCount'[n] \in Int
                          /\ Count(n \in copyS) \in Int /\ Count(n \in copyM) \in Int
                          /\ Count(n \in copyS') \in Int /\ Count(n \in copyM') \in Int
                          /\ Count(where[n] = "vNodes") \in Int
        BY DEF AddRefAll, ReleaseAll, Count, TypeOK
    <1>3. RefCountExact'
        BY <1>1, <1>2 DEF RefCountExact
    <1>4. EarlyKeepsReference'
        BY <1>1, <1>2 DEF EarlyKeepsReference, TypeOK
    <1>5. NoUseAfterDelete' /\ UnusedUnknown'
        BY DEF NoUseAfterDelete, UnusedUnknown, vNodes
    <1>6. OpenerHasNode' /\ OneOpener'
        BY DEF OpenerHasNode, OneOpener, Owned
    <1> QED BY <1>3, <1>4, <1>5, <1>6

(* What the socket thread takes out of vNodes, and what it deletes.        *)
LEMMA DisconnectRefs ==
    ASSUME LifeInv, NEW busy, SocketDisconnectWith(Leaving(busy))
    PROVE  RefInv'
    <1> DEFINE L == Leaving(busy)
    <1> USE DEF LifeInv
    <1>1. L \subseteq Node /\ \A n \in L : where[n] = "vNodes" /\ n \notin early
        BY DEF Leaving, vNodes, EarlyKeepsReference
    <1> HIDE DEF L
    <1>2. /\ UNCHANGED <<fInbound, fNetworkNode, copyS, copyM, pcM, pnode, pcO, found>>
          /\ pcS = "top" /\ pcS' = "accept"
          /\ early' = early \cup {n \in L : ~Owned(n) \/ \E o \in Opener : pnode[o] = n}
          /\ \A n \in Node : nRefCount'[n] = Released(n, L)
          /\ \A n \in Node : where'[n] = IF Deletable(n, L) THEN "deleted"
                                         ELSE IF n \in L THEN "disconnected" ELSE where[n]
        BY DEF SocketDisconnectWith, openers, L
    <1>3. \A n \in Node : Count(n \in copyS) \in {0, 1} /\ Count(n \in copyM) \in {0, 1} /\ nRefCount[n] \in Int
        BY DEF Count, TypeOK
    (* A node nobody shares, taken out while its opener is not done, keeps  *)
    (* its owner's reference.                                               *)
    <1>4. ASSUME NEW n \in L, n \notin found, n \in early'
          PROVE  /\ Released(n, L) = nRefCount[n] /\ ~Deletable(n, L)
                 /\ nRefCount[n] = 1 + Count(n \in copyS) + Count(n \in copyM)
        <2>1. ~Owned(n)
            BY <1>1, <1>2, <1>4, LifeAssumption DEF OneOpener
        <2>2. nRefCount[n] = 1 + Count(n \in copyS) + Count(n \in copyM)
            BY <1>1, <1>4 DEF RefCountExact, Count
        <2>3. Released(n, L) = nRefCount[n]
            BY <1>1, <1>3, <2>1 DEF Released
        <2> QED BY <1>1, <1>3, <2>2, <2>3 DEF Deletable
    (* Any other that nobody shares loses it.                               *)
    <1>5. ASSUME NEW n \in L, n \notin found, n \notin early'
          PROVE  /\ Released(n, L) = Count(n \in copyS) + Count(n \in copyM)
                 /\ \A o \in Opener : pnode[o] # n
        <2>1. Owned(n) /\ \A o \in Opener : pnode[o] # n
            BY <1>2, <1>5
        <2>2. nRefCount[n] = 1 + Count(n \in copyS) + Count(n \in copyM)
            BY <1>1, <1>5 DEF RefCountExact, Count
        <2> QED BY <1>1, <1>3, <2>1, <2>2 DEF Released
    <1>6. \A n \in Node \ L : Released(n, L) = nRefCount[n]
        BY <1>3 DEF Released
    <1>7. RefCountExact'
        <2> SUFFICES ASSUME NEW n \in Node, n \notin found, n \notin early'
                     PROVE  nRefCount'[n] = Count(where'[n] = "vNodes") + Count(n \in copyS) + Count(n \in copyM)
            BY <1>2 DEF RefCountExact
        <2>1. CASE n \in L
            BY <1>2, <1>3, <1>5, <2>1 DEF Count
        <2>2. CASE n \notin L
            <3>1. nRefCount[n] = Count(where[n] = "vNodes") + Count(n \in copyS) + Count(n \in copyM)
                BY <1>2 DEF RefCountExact
            <3>2. where'[n] = "vNodes" <=> where[n] = "vNodes"
                BY <1>2, <2>2 DEF Deletable, vNodesDisconnected
            <3> QED BY <1>2, <1>6, <2>2, <3>1, <3>2 DEF Count
        <2> QED BY <2>1, <2>2
    <1>8. EarlyKeepsReference'
        <2> SUFFICES ASSUME NEW n \in early'
                     PROVE  /\ where'[n] \in {"disconnected", "deleted"}
                            /\ n \notin found =>
                                  /\ where'[n] = "disconnected"
                                  /\ nRefCount'[n] = 1 + Count(n \in copyS) + Count(n \in copyM)
            BY <1>2 DEF EarlyKeepsReference
        <2>1. CASE n \in L
            BY <1>1, <1>2, <1>4, <2>1
        <2>2. CASE n \notin L
            <3>1. n \in early /\ n \in Node
                BY <1>2, <2>2 DEF TypeOK
            <3>2. n \notin found => nRefCount[n] = 1 + Count(n \in copyS) + Count(n \in copyM) /\ nRefCount[n] > 0
                BY <1>3, <3>1 DEF EarlyKeepsReference
            <3> QED BY <1>2, <1>3, <1>6, <2>2, <3>1, <3>2 DEF EarlyKeepsReference, Deletable
        <2> QED BY <2>1, <2>2
    <1>9. NoUseAfterDelete'
        <2> SUFFICES ASSUME NEW n \in Node, n \notin found, where'[n] = "deleted"
                     PROVE  n \notin copyS \cup copyM /\ \A o \in Opener : pnode[o] # n
            BY <1>2 DEF NoUseAfterDelete
        <2>1. CASE where[n] = "deleted"
            BY <2>1 DEF NoUseAfterDelete
        <2>2. CASE n \in L
            <3>1. n \notin early'
                BY <1>2, <1>4, <2>2
            <3>2. Deletable(n, L)
                BY <1>1, <1>2, <2>2
            <3> QED BY <1>3, <1>5, <2>2, <3>1, <3>2 DEF Deletable, Count
        <2>3. CASE n \notin L /\ where[n] # "deleted"
            <3>1. Deletable(n, L) /\ where[n] = "disconnected" /\ nRefCount[n] <= 0
                BY <1>2, <1>6, <2>3 DEF Deletable, vNodesDisconnected
            <3>2. n \notin early
                BY <1>3, <3>1 DEF EarlyKeepsReference
            <3>3. n \notin copyS \cup copyM
                BY <1>3, <3>1, <3>2 DEF RefCountExact, Count
            <3>4. \A o \in Opener : pnode[o] # n
                BY <3>1, <3>2, LifeAssumption DEF OpenerHasNode
            <3> QED BY <3>3, <3>4
        <2> QED BY <2>1, <2>2, <2>3
    <1>10. OpenerHasNode'
        <2>1. \A o \in Opener : pnode[o] # None => pnode[o] \in Node
            BY DEF TypeOK
        <2>2. \A o \in Opener : pnode[o] # None =>
                 where'[pnode[o]] = "vNodes" \/ pnode[o] \in early'
            BY <1>2, <2>1 DEF OpenerHasNode, Deletable, vNodesDisconnected
        <2> QED BY <1>2, <2>2 DEF OpenerHasNode
    <1>11. CopiesInUse' /\ UnusedUnknown' /\ OneOpener'
        BY <1>2 DEF CopiesInUse, UnusedUnknown, OneOpener, Owned
    <1> QED BY <1>7, <1>8, <1>9, <1>10, <1>11 DEF RefInv

(* Every step keeps the references right.                                  *)
LEMMA RefStep == LifeInv /\ [Next]_vars => RefInv'
    <1> SUFFICES ASSUME LifeInv, [Next]_vars PROVE RefInv'
        OBVIOUS
    <1>1. RefInv
        BY DEF LifeInv, RefInv
    <1> USE DEF LifeInv
    <1>2. ASSUME NEW n \in Node, NEW a \in Addr, SocketAccept(n, a) PROVE RefInv'
        <2>1. /\ NewNode(n, a, TRUE) /\ UNCHANGED <<copyS, copyM, pcM, pnode, pcO>>
              /\ pcS = "accept" /\ pcS' = "copy"
            BY <1>2 DEF SocketAccept, openers
        <2>2. /\ RefCountExact' /\ CopiesInUse' /\ UnusedUnknown' /\ EarlyKeepsReference'
              /\ n \notin copyS \cup copyM /\ \A o \in Opener : pnode[o] # n
            BY <2>1, NewNodeRefs
        <2>3. /\ where'[n] = "vNodes"
              /\ \A m \in Node \ {n} : /\ where'[m] = where[m] /\ (m \in early' <=> m \in early)
                                       /\ (m \in found' <=> m \in found)
                                       /\ fInbound'[m] = fInbound[m] /\ fNetworkNode'[m] = fNetworkNode[m]
            BY <2>1, Flags DEF NewNode, TypeOK
        <2>4. \A o \in Opener : pnode[o] # None => pnode[o] \in Node \ {n}
            BY <2>2 DEF TypeOK
        <2>5. NoUseAfterDelete'
            BY <2>1, <2>3 DEF NoUseAfterDelete
        <2>6. OpenerHasNode' /\ OneOpener'
            BY <2>1, <2>3, <2>4 DEF OpenerHasNode, OneOpener, Owned
        <2> QED BY <2>2, <2>5, <2>6 DEF RefInv
    <1>3. ASSUME NEW o \in Opener, NEW n \in Node, OpenConnect(o, n) PROVE RefInv'
        <2>1. /\ NewNode(n, target[o], FALSE) /\ UNCHANGED <<copyS, copyM, pcM, pcS>>
              /\ pnode' = [pnode EXCEPT ![o] = n]
              /\ pcO[o] = "socket" /\ pcO' = [pcO EXCEPT ![o] = "grant"]
            BY <1>3 DEF OpenConnect, At, threads
        <2>2. /\ RefCountExact' /\ CopiesInUse' /\ UnusedUnknown' /\ EarlyKeepsReference'
              /\ n \notin copyS \cup copyM /\ \A p \in Opener : pnode[p] # n
            BY <2>1, NewNodeRefs
        <2>3. /\ where'[n] = "vNodes" /\ ~fInbound'[n] /\ ~fNetworkNode'[n] /\ n # None
              /\ \A m \in Node \ {n} : /\ where'[m] = where[m] /\ (m \in early' <=> m \in early)
                                       /\ (m \in found' <=> m \in found)
                                       /\ fInbound'[m] = fInbound[m] /\ fNetworkNode'[m] = fNetworkNode[m]
            BY <2>1, Flags, LifeAssumption DEF NewNode, TypeOK
        <2>4. \A p \in Opener : pnode[p] # None => pnode[p] \in Node \ {n}
            BY <2>2 DEF TypeOK
        <2>5. \A p \in Opener : /\ pnode'[p] = (IF p = o THEN n ELSE pnode[p])
                                /\ pcO'[p] = (IF p = o THEN "grant" ELSE pcO[p])
            BY <2>1 DEF TypeOK
        <2>6. NoUseAfterDelete'
            BY <2>1, <2>3, <2>5 DEF NoUseAfterDelete
        <2>7. OpenerHasNode'
            BY <2>3, <2>4, <2>5 DEF OpenerHasNode
        <2>8. OneOpener'
            BY <2>3, <2>4, <2>5 DEF OneOpener, Owned
        <2> QED BY <2>2, <2>6, <2>7, <2>8 DEF RefInv
    <1>4. CASE SocketCopy \/ SocketRelease \/ MessageCopy \/ MessageRelease
        <2>1. CopiesInUse'
            BY <1>4 DEF SocketCopy, SocketRelease, MessageCopy, MessageRelease, CopiesInUse, TypeOK
        <2> QED
            BY <1>4, <2>1, CopyRefs DEF SocketCopy, SocketRelease, MessageCopy, MessageRelease,
                openers, hist, CopiesInUse, TypeOK, RefInv
    <1>5. CASE SocketNoAccept \/ UNCHANGED vars
        <2>1. /\ UNCHANGED <<where, nRefCount, fInbound, fNetworkNode, copyS, copyM, pcM, pnode, pcO, found, early>>
              /\ pcS' = pcS \/ {pcS, pcS'} \cap {"serve"} = {}
            BY <1>5 DEF SocketNoAccept, vars, nodes, threads, openers, hist
        <2> QED BY <1>1, <2>1, RefUntouched
    <1>6. ASSUME NEW n \in Node, SocketServe(n) \/ MessageClose(n) PROVE RefInv'
        <2>1. UNCHANGED <<where, nRefCount, fInbound, fNetworkNode, copyS, copyM, pcM, pnode, pcO, found, early, pcS>>
            BY <1>6 DEF SocketServe, MessageClose, threads, openers, hist
        <2> QED BY <1>1, <2>1, RefUntouched
    <1>7. ASSUME NEW o \in Opener,
                 (\E a \in Addr : OpenStart(o, a)) \/ OpenSocket(o) \/ OpenFail(o) \/ OpenRefRead(o) \/ OpenGrant(o)
          PROVE  RefInv'
        <2>1. UNCHANGED <<where, nRefCount, fInbound, fNetworkNode, copyS, copyM, pcM, pcS, pnode, found, early>>
            BY <1>7 DEF OpenStart, OpenSocket, OpenFail, OpenRefRead, OpenGrant, nodes, threads, hist
        <2>2. /\ \A p \in Opener \ {o} : pcO'[p] = pcO[p]
              /\ \/ {pcO[o], pcO'[o]} \subseteq {"idle", "connect", "socket"}
                 \/ {pcO[o], pcO'[o]} \subseteq {"ref", "refwrite"}
                 \/ {pcO[o], pcO'[o]} \subseteq {"grant", "flag"}
            BY <1>7 DEF OpenStart, OpenSocket, OpenFail, OpenRefRead, OpenGrant, At, TypeOK
        <2>3. OpenerHasNode'
            BY <2>1, <2>2 DEF OpenerHasNode
        <2>4. RefCountExact' /\ NoUseAfterDelete' /\ CopiesInUse' /\ UnusedUnknown'
            BY <2>1 DEF RefCountExact, NoUseAfterDelete, CopiesInUse, UnusedUnknown
        <2>5. EarlyKeepsReference' /\ OneOpener'
            BY <2>1 DEF EarlyKeepsReference, OneOpener, Owned
        <2> QED BY <2>3, <2>4, <2>5 DEF RefInv
    <1>8. ASSUME NEW o \in Opener, NEW n \in Node, OpenFound(o, n) PROVE RefInv'
        <2>1. /\ UNCHANGED <<where, nRefCount, fInbound, fNetworkNode, copyS, copyM, pcM, pcS, early>>
              /\ found' = found \cup {n} /\ where[n] = "vNodes"
            BY <1>8 DEF OpenFound, nodes, threads, vNodes
        <2>2. \A p \in Opener : /\ pnode'[p] = (IF p = o THEN n ELSE pnode[p])
                                /\ pcO'[p] = (IF p = o THEN "ref" ELSE pcO[p])
            BY <1>8 DEF OpenFound, At, TypeOK
        <2>3. RefCountExact' /\ NoUseAfterDelete' /\ CopiesInUse' /\ UnusedUnknown'
            BY <2>1, <2>2 DEF RefCountExact, NoUseAfterDelete, CopiesInUse, UnusedUnknown
        <2>4. EarlyKeepsReference'
            BY <2>1 DEF EarlyKeepsReference
        <2>5. OpenerHasNode' /\ OneOpener'
            BY <2>1, <2>2, LifeAssumption DEF OpenerHasNode, OneOpener, Owned
        <2> QED BY <2>3, <2>4, <2>5 DEF RefInv
    <1>9. ASSUME NEW o \in Opener, OpenRefWrite(o) PROVE RefInv'
        <2>1. /\ UNCHANGED <<where, fInbound, fNetworkNode, copyS, copyM, pcM, pcS, pnode, found, early>>
              /\ nRefCount' = [nRefCount EXCEPT ![pnode[o]] = nRead[o] + 1]
            BY <1>9 DEF OpenRefWrite, threads, hist
        <2>2. pnode[o] \in found
            BY <1>9 DEF OpenRefWrite, At, OpenerHasNode
        <2>3. \A n \in Node \ found : nRefCount'[n] = nRefCount[n]
            BY <2>1, <2>2 DEF TypeOK
        <2>4. RefCountExact' /\ NoUseAfterDelete' /\ CopiesInUse' /\ UnusedUnknown'
            BY <2>1, <2>3 DEF RefCountExact, NoUseAfterDelete, CopiesInUse, UnusedUnknown
        <2>5. EarlyKeepsReference'
            BY <2>1, <2>3 DEF EarlyKeepsReference, TypeOK
        <2>6. OpenerHasNode' /\ OneOpener'
            BY <1>9, <2>1 DEF OpenRefWrite, At, TypeOK, OpenerHasNode, OneOpener, Owned
        <2> QED BY <2>4, <2>5, <2>6 DEF RefInv
    <1>10. ASSUME NEW o \in Opener, OpenDone(o) PROVE RefInv'
        <2>1. /\ UNCHANGED <<where, nRefCount, fInbound, copyS, copyM, pcM, pcS, found, early>>
              /\ pcO[o] = "flag" /\ pnode[o] # None /\ pnode[o] \in Node
            BY <1>10 DEF OpenDone, At, threads, hist, OpenerHasNode, TypeOK
        <2>2. \A p \in Opener : /\ pnode'[p] = (IF p = o THEN None ELSE pnode[p])
                                /\ pcO'[p] = (IF p = o THEN "idle" ELSE pcO[p])
            BY <1>10 DEF OpenDone, At, TypeOK
        <2>3. \A n \in Node : n # pnode[o] => fNetworkNode'[n] = fNetworkNode[n]
            BY <1>10, Flags DEF OpenDone
        <2>4. RefCountExact' /\ NoUseAfterDelete' /\ CopiesInUse' /\ UnusedUnknown'
            BY <2>1, <2>2, LifeAssumption DEF RefCountExact, NoUseAfterDelete, CopiesInUse, UnusedUnknown
        <2>5. EarlyKeepsReference' /\ OpenerHasNode'
            BY <2>1, <2>2 DEF EarlyKeepsReference, OpenerHasNode
        <2>6. OneOpener'
            <3> SUFFICES ASSUME NEW p \in Opener, pnode'[p] # None, pnode'[p] \notin found
                         PROVE  /\ ~fNetworkNode'[pnode'[p]] /\ ~fInbound'[pnode'[p]]
                                /\ \A q \in Opener \ {p} : pnode'[q] # pnode'[p]
                BY <2>1 DEF OneOpener, Owned
            <3>1. p # o /\ pnode'[p] = pnode[p] /\ pnode[p] \in Node
                BY <2>2 DEF TypeOK
            <3>2. ~Owned(pnode[p]) /\ \A q \in Opener \ {p} : pnode[q] # pnode[p]
                BY <3>1 DEF OneOpener
            <3>3. pnode[p] # pnode[o]
                BY <3>1, <3>2
            <3> QED BY <2>1, <2>2, <2>3, <3>1, <3>2, <3>3 DEF Owned
        <2> QED BY <2>4, <2>5, <2>6 DEF RefInv
    <1> QED
        BY <1>2, <1>3, <1>4, <1>5, <1>6, <1>7, <1>8, <1>9, <1>10, DisconnectRefs
            DEF Next, SocketThread, SocketDisconnect, MessageThread, Open

-----------------------------------------------------------------------------
(* At first there is no node and every slot is free.                       *)
LEMMA InitLife == Init => LifeInv
    <1> SUFFICES ASSUME Init PROVE LifeInv
        OBVIOUS
    <1> USE DEF Init
    <1>1. TypeOK
        BY LifeAssumption DEF TypeOK
    <1>2. RefCountExact /\ NoUseAfterDelete
        BY DEF RefCountExact, NoUseAfterDelete, Count
    <1>3. SlotsConserved
        <2>1. Pending = {} /\ Granted = {}
            BY DEF Pending, Granted
        <2>2. semOutbound + Cardinality(Pending) + Cardinality(Granted) = MaxOutbound
            BY <2>1, FS_EmptySet, LifeAssumption
        <2> QED BY <2>2 DEF SlotsConserved, Pending, Granted
    <1>4. CopiesInUse /\ UnusedUnknown /\ EarlyKeepsReference /\ OpenerHasNode /\ OneOpener
        BY DEF CopiesInUse, UnusedUnknown, EarlyKeepsReference, OpenerHasNode, OneOpener
    <1> QED BY <1>1, <1>2, <1>3, <1>4 DEF LifeInv

(* The inductive invariant holds for ever.                                 *)
LEMMA LifeHolds == Spec => []LifeInv
    <1>1. LifeInv /\ [Next]_vars => LifeInv'
        BY SlotStep, TypeStep, RefStep DEF LifeInv, RefInv
    <1> QED BY <1>1, InitLife, PTL DEF Spec

(* The node fields and the threads' variables keep their types, and the    *)
(* semaphore of net.cpp stays between zero and its initial value.          *)
THEOREM TypeCorrect == Spec => []TypeOK
    <1>1. LifeInv => TypeOK
        BY DEF LifeInv
    <1> QED BY <1>1, LifeHolds, PTL

(* nRefCount is the owner's reference and one for each thread at work on   *)
(* the node, whatever the order in which nodes are published, copied,      *)
(* closed and disconnected.                                                *)
THEOREM ReferencesExact == Spec => []RefCountExact
    <1>1. LifeInv => RefCountExact
        BY DEF LifeInv
    <1> QED BY <1>1, LifeHolds, PTL

(* The socket thread deletes no node that it, the message thread or an     *)
(* opener still works on.                                                  *)
THEOREM DeletedIsUnused == Spec => []NoUseAfterDelete
    <1>1. LifeInv => NoUseAfterDelete
        BY DEF LifeInv
    <1> QED BY <1>1, LifeHolds, PTL

(* Every outbound slot is free, with an opener or with a node.             *)
THEOREM SlotsAreConserved == Spec => []SlotsConserved
    <1>1. LifeInv => SlotsConserved
        BY DEF LifeInv
    <1> QED BY <1>1, LifeHolds, PTL
=============================================================================
