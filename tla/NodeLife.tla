------------------------------ MODULE NodeLife ------------------------------
(***************************************************************************)
(* The life of a connection (net.cpp): how a CNode is created, shared by   *)
(* the threads, disconnected and deleted, with its reference count and the *)
(* outbound slot (CSemaphoreGrant) it carries.                             *)
(*                                                                         *)
(* The socket thread and the message thread each work on a copy of vNodes  *)
(* taken, with a reference per node, under cs_vNodes.  The threads that    *)
(* open connections (ThreadOpenConnections, ThreadOpenAddedConnections)    *)
(* publish a node in vNodes and finish setting it up without the lock.     *)
(* A step is what a thread does under cs_vNodes, or between two places     *)
(* where another thread can see the difference.                            *)
(***************************************************************************)
EXTENDS Integers, FiniteSets, FiniteSetsExt

CONSTANTS
    Node,         \* CNode objects
    Opener,       \* threads that open connections
    Addr,         \* peer addresses
    MaxOutbound,  \* initial value of semOutbound
    MaxInbound    \* nMaxConnections - MAX_OUTBOUND_CONNECTIONS

None == "none"

ASSUME LifeAssumption ==
    /\ IsFiniteSet(Node) /\ IsFiniteSet(Opener) /\ None \notin Node \cup Addr
    /\ MaxOutbound \in Nat /\ MaxInbound \in Nat

VARIABLES
    where,        \* "unused", "vNodes", "disconnected" (vNodesDisconnected), "deleted"
    nRefCount,
    fDisconnect,
    fInbound,
    fNetworkNode,
    grantOutbound, \* the node holds an outbound slot
    addr,
    semOutbound,  \* free outbound slots
    copyS, pcS,   \* the socket thread's vNodesCopy, and where it is
    copyM, pcM,   \* the message thread's
    pcO, pnode,   \* each opener's place, and the node it works on
    target,       \* the address it wants
    nRead,        \* nRefCount as it has read it
    found,        \* history: nodes ConnectNode has found instead of creating
    early         \* history: nodes removed from vNodes before their opener was done

nodes   == <<where, nRefCount, fDisconnect, fInbound, fNetworkNode, grantOutbound, addr>>
threads == <<copyS, pcS, copyM, pcM>>
openers == <<pcO, pnode, target, nRead>>
hist    == <<found, early>>
vars    == <<nodes, semOutbound, threads, openers, hist>>

vNodes == {n \in Node : where[n] = "vNodes"}
vNodesDisconnected == {n \in Node : where[n] = "disconnected"}

(* CNode(hSocket, addr), AddRef, vNodes.push_back.  A deleted node that    *)
(* nobody refers to, and that took no slot with it, stands for a new one.  *)
NewNode(n, a, inbound) ==
    /\ \/ where[n] = "unused"
       \/ /\ where[n] = "deleted" /\ ~grantOutbound[n]
          /\ n \notin copyS \cup copyM /\ \A o \in Opener : pnode[o] # n
    /\ where' = [where EXCEPT ![n] = "vNodes"]
    /\ nRefCount' = [nRefCount EXCEPT ![n] = 1]
    /\ addr' = [addr EXCEPT ![n] = a]
    /\ fInbound' = [fInbound EXCEPT ![n] = inbound]
    /\ fDisconnect' = [fDisconnect EXCEPT ![n] = FALSE]
    /\ fNetworkNode' = [fNetworkNode EXCEPT ![n] = FALSE]
    /\ found' = found \ {n} /\ early' = early \ {n}
    /\ UNCHANGED grantOutbound

-----------------------------------------------------------------------------
(* The first part of ThreadSocketHandler's loop, under cs_vNodes: what is  *)
(* to be disconnected leaves vNodes, gives its slot back and loses its     *)
(* owner's reference; what nobody refers to is deleted.                    *)
(* A node without references goes only when nothing waits in its buffers:  *)
(* busy are those where something does.                                    *)
Leaving(busy) == {n \in vNodes : fDisconnect[n] \/ (nRefCount[n] <= 0 /\ n \notin busy)}

Owned(n) == fNetworkNode[n] \/ fInbound[n]

(* Faulty form: the owner's reference is kept.                             *)
ReleasedNever(n, L) == nRefCount[n]

(* Release(), of a node whose owner's reference is known to be there.      *)
Released(n, L) == nRefCount[n] - (IF n \in L /\ Owned(n) THEN 1 ELSE 0)

(* Faulty form: a node is deleted when it is disconnected.                 *)
DeletableAtOnce(n, L) == n \in L \cup vNodesDisconnected

(* The locks that delete tries before are left out: a node that nobody     *)
(* holds a reference to has nobody in one of them.                         *)
Deletable(n, L) == n \in L \cup vNodesDisconnected /\ Released(n, L) <= 0

(* Faulty form: every node gives a slot back.                              *)
SlotsBackEach(L) == Cardinality(L)

SlotsBack(L) == Cardinality({n \in L : grantOutbound[n]})

SocketDisconnectWith(L) ==
    /\ pcS = "top"
    /\ where' = [n \in Node |-> IF Deletable(n, L) THEN "deleted"
                                ELSE IF n \in L THEN "disconnected" ELSE where[n]]
    /\ nRefCount' = [n \in Node |-> Released(n, L)]
    /\ fDisconnect' = [n \in Node |-> fDisconnect[n] \/ n \in L]
    /\ grantOutbound' = [n \in Node |-> grantOutbound[n] /\ n \notin L]
    /\ semOutbound' = semOutbound + SlotsBack(L)
    /\ early' = early \cup {n \in L : ~Owned(n) \/ \E o \in Opener : pnode[o] = n}
    /\ pcS' = "accept"
    /\ UNCHANGED <<fInbound, fNetworkNode, addr, copyS, copyM, pcM, openers, found>>

SocketDisconnect == \E busy \in SUBSET vNodes : SocketDisconnectWith(Leaving(busy))

InboundFull == Cardinality({n \in vNodes : fInbound[n]}) >= MaxInbound

(* A connection is accepted, unless there are too many.                    *)
SocketAccept(n, a) ==
    /\ pcS = "accept"
    /\ ~InboundFull
    /\ NewNode(n, a, TRUE)
    /\ pcS' = "copy"
    /\ UNCHANGED <<semOutbound, copyS, copyM, pcM, openers>>

SocketNoAccept ==
    /\ pcS = "accept"
    /\ pcS' = "copy"
    /\ UNCHANGED <<nodes, semOutbound, copyS, copyM, pcM, openers, hist>>

AddRefAll(S) == [n \in Node |-> IF n \in S THEN nRefCount[n] + 1 ELSE nRefCount[n]]
ReleaseAll(S) == [n \in Node |-> IF n \in S THEN nRefCount[n] - 1 ELSE nRefCount[n]]

SocketCopy ==
    /\ pcS = "copy"
    /\ copyS' = vNodes /\ nRefCount' = AddRefAll(vNodes)
    /\ pcS' = "serve"
    /\ UNCHANGED <<where, fDisconnect, fInbound, fNetworkNode, grantOutbound, addr, semOutbound,
                   copyM, pcM, openers, hist>>

(* Receiving and sending: a closed or failed socket (CloseSocketDisconnect)*)
(* or a timeout marks the node.                                            *)
SocketServe(n) ==
    /\ pcS = "serve" /\ n \in copyS /\ ~fDisconnect[n]
    /\ fDisconnect' = [fDisconnect EXCEPT ![n] = TRUE]
    /\ UNCHANGED <<where, nRefCount, fInbound, fNetworkNode, grantOutbound, addr, semOutbound,
                   threads, openers, hist>>

SocketRelease ==
    /\ pcS = "serve"
    /\ copyS' = {} /\ nRefCount' = ReleaseAll(copyS)
    /\ pcS' = "top"
    /\ UNCHANGED <<where, fDisconnect, fInbound, fNetworkNode, grantOutbound, addr, semOutbound,
                   copyM, pcM, openers, hist>>

-----------------------------------------------------------------------------
(* ThreadMessageHandler.                                                   *)
MessageCopy ==
    /\ pcM = "copy"
    /\ copyM' = vNodes /\ nRefCount' = AddRefAll(vNodes)
    /\ pcM' = "handle"
    /\ UNCHANGED <<where, fDisconnect, fInbound, fNetworkNode, grantOutbound, addr, semOutbound,
                   copyS, pcS, openers, hist>>

(* ProcessMessages fails, or the peer misbehaves once too often.           *)
MessageClose(n) ==
    /\ pcM = "handle" /\ n \in copyM /\ ~fDisconnect[n]
    /\ fDisconnect' = [fDisconnect EXCEPT ![n] = TRUE]
    /\ UNCHANGED <<where, nRefCount, fInbound, fNetworkNode, grantOutbound, addr, semOutbound,
                   threads, openers, hist>>

MessageRelease ==
    /\ pcM = "handle"
    /\ copyM' = {} /\ nRefCount' = ReleaseAll(copyM)
    /\ pcM' = "copy"
    /\ UNCHANGED <<where, fDisconnect, fInbound, fNetworkNode, grantOutbound, addr, semOutbound,
                   copyS, pcS, openers, hist>>

-----------------------------------------------------------------------------
At(o, from, to) == pcO[o] = from /\ pcO' = [pcO EXCEPT ![o] = to]

(* An opener takes a slot, picks an address; OpenNetworkConnection finds   *)
(* no node for it.                                                         *)
OpenStart(o, a) ==
    /\ At(o, "idle", "connect")
    /\ semOutbound > 0
    /\ \A n \in vNodes : addr[n] # a
    /\ semOutbound' = semOutbound - 1
    /\ target' = [target EXCEPT ![o] = a]
    /\ UNCHANGED <<nodes, threads, pnode, nRead, hist>>

(* ConnectNode looks again, and finds the node another thread has made.    *)
OpenFound(o, n) ==
    /\ At(o, "connect", "ref")
    /\ n \in vNodes /\ addr[n] = target[o]
    /\ pnode' = [pnode EXCEPT ![o] = n]
    /\ target' = [target EXCEPT ![o] = None]
    /\ found' = found \cup {n}
    /\ UNCHANGED <<nodes, semOutbound, threads, nRead, early>>

(* AddRef, without the lock: nRefCount is read, then written.              *)
OpenRefRead(o) ==
    /\ At(o, "ref", "refwrite")
    /\ nRead' = [nRead EXCEPT ![o] = nRefCount[pnode[o]]]
    /\ UNCHANGED <<nodes, semOutbound, threads, pnode, target, hist>>

OpenRefWrite(o) ==
    /\ At(o, "refwrite", "grant")
    /\ nRefCount' = [nRefCount EXCEPT ![pnode[o]] = nRead[o] + 1]
    /\ nRead' = [nRead EXCEPT ![o] = 0]
    /\ UNCHANGED <<where, fDisconnect, fInbound, fNetworkNode, grantOutbound, addr, semOutbound,
                   threads, pnode, target, hist>>

(* It finds none, and calls ConnectSocket, which may take seconds.         *)
OpenSocket(o) ==
    /\ At(o, "connect", "socket")
    /\ \A m \in vNodes : addr[m] # target[o]
    /\ UNCHANGED <<nodes, semOutbound, threads, pnode, target, nRead, hist>>

(* The socket connects: the node is published.                             *)
OpenConnect(o, n) ==
    /\ At(o, "socket", "grant")
    /\ NewNode(n, target[o], FALSE)
    /\ pnode' = [pnode EXCEPT ![o] = n]
    /\ target' = [target EXCEPT ![o] = None]
    /\ UNCHANGED <<semOutbound, threads, nRead>>

(* It does not: the grant goes out of scope.                               *)
OpenFail(o) ==
    /\ At(o, "socket", "idle")
    /\ semOutbound' = semOutbound + 1
    /\ target' = [target EXCEPT ![o] = None]
    /\ UNCHANGED <<nodes, threads, pnode, nRead, hist>>

(* Faulty form: the slot the node already has is forgotten.                *)
OpenGrantOver(o) ==
    /\ At(o, "grant", "flag")
    /\ grantOutbound' = [grantOutbound EXCEPT ![pnode[o]] = TRUE]
    /\ UNCHANGED <<where, nRefCount, fDisconnect, fInbound, fNetworkNode, addr, semOutbound, threads,
                   pnode, target, nRead, hist>>

(* grantOutbound->MoveTo(pnode->grantOutbound): a slot the node already    *)
(* has is given back first.                                                *)
OpenGrant(o) ==
    /\ At(o, "grant", "flag")
    /\ grantOutbound' = [grantOutbound EXCEPT ![pnode[o]] = TRUE]
    /\ semOutbound' = semOutbound + (IF grantOutbound[pnode[o]] THEN 1 ELSE 0)
    /\ UNCHANGED <<where, nRefCount, fDisconnect, fInbound, fNetworkNode, addr, threads,
                   pnode, target, nRead, hist>>

(* pnode->fNetworkNode = true.                                             *)
OpenDone(o) ==
    /\ At(o, "flag", "idle")
    /\ fNetworkNode' = [fNetworkNode EXCEPT ![pnode[o]] = TRUE]
    /\ pnode' = [pnode EXCEPT ![o] = None]
    /\ UNCHANGED <<where, nRefCount, fDisconnect, fInbound, grantOutbound, addr, semOutbound, threads,
                   target, nRead, hist>>

-----------------------------------------------------------------------------
Init ==
    /\ where = [n \in Node |-> "unused"]
    /\ nRefCount = [n \in Node |-> 0]
    /\ fDisconnect = [n \in Node |-> FALSE] /\ fInbound = [n \in Node |-> FALSE]
    /\ fNetworkNode = [n \in Node |-> FALSE] /\ grantOutbound = [n \in Node |-> FALSE]
    /\ addr = [n \in Node |-> None]
    /\ semOutbound = MaxOutbound
    /\ copyS = {} /\ pcS = "top" /\ copyM = {} /\ pcM = "copy"
    /\ pcO = [o \in Opener |-> "idle"] /\ pnode = [o \in Opener |-> None]
    /\ target = [o \in Opener |-> None] /\ nRead = [o \in Opener |-> 0]
    /\ found = {} /\ early = {}

SocketThread ==
    \/ SocketDisconnect \/ SocketNoAccept \/ SocketCopy \/ SocketRelease
    \/ \E n \in Node, a \in Addr : SocketAccept(n, a)

MessageThread == MessageCopy \/ MessageRelease

Open(o) ==
    \/ \E a \in Addr : OpenStart(o, a)
    \/ \E n \in Node : OpenFound(o, n) \/ OpenConnect(o, n)
    \/ OpenSocket(o) \/ OpenRefRead(o) \/ OpenRefWrite(o) \/ OpenFail(o)
    \/ OpenGrant(o) \/ OpenDone(o)

Next ==
    \/ SocketThread \/ \E n \in Node : SocketServe(n)
    \/ MessageThread \/ \E n \in Node : MessageClose(n)
    \/ \E o \in Opener : Open(o)

(* The two loops go round; nothing is assumed of peers and of the openers. *)
Spec == Init /\ [][Next]_vars /\ WF_vars(SocketThread) /\ WF_vars(MessageThread)

-----------------------------------------------------------------------------
Count(b) == IF b THEN 1 ELSE 0

(* Type invariant.                                                         *)
TypeOK ==
    /\ where \in [Node -> {"unused", "vNodes", "disconnected", "deleted"}]
    /\ nRefCount \in [Node -> Int]
    /\ addr \in [Node -> Addr \cup {None}]
    /\ {fDisconnect, fInbound, fNetworkNode, grantOutbound} \subseteq [Node -> BOOLEAN]
    /\ semOutbound \in 0..MaxOutbound
    /\ copyS \subseteq Node /\ copyM \subseteq Node
    /\ pcS \in {"top", "accept", "copy", "serve"} /\ pcM \in {"copy", "handle"}
    /\ pcO \in [Opener -> {"idle", "connect", "socket", "ref", "refwrite", "grant", "flag"}]
    /\ pnode \in [Opener -> Node \cup {None}] /\ target \in [Opener -> Addr \cup {None}]
    /\ nRead \in [Opener -> Int]
    /\ found \subseteq Node /\ early \subseteq Node

(* The reference count of a node is its owner's reference and one for each *)
(* thread that works on it.  Two kinds of node are excepted: one that two  *)
(* openers share (the second reference is taken without the lock and never *)
(* released), and one that was disconnected before its opener had set      *)
(* fNetworkNode (the owner's reference is never released).                 *)
RefCountExact ==
    \A n \in Node \ (found \cup early) :
        nRefCount[n] = Count(where[n] = "vNodes") + Count(n \in copyS) + Count(n \in copyM)

(* No thread works on a deleted node - but for a node that two openers     *)
(* share, whose count may be wrong.                                        *)
NoUseAfterDelete ==
    \A n \in Node \ found :
        where[n] = "deleted" => n \notin copyS \cup copyM /\ \A o \in Opener : pnode[o] # n

(* Outbound slots are neither lost nor made: each is free, with an opener  *)
(* on its way, or with a node in vNodes.  A node disconnected before its   *)
(* opener moved the grant into it is excepted: it keeps the slot for good. *)
SlotsConserved ==
    semOutbound + Cardinality({o \in Opener : pcO[o] \in {"connect", "socket", "ref", "refwrite", "grant"}})
                + Cardinality({n \in Node : grantOutbound[n]}) = MaxOutbound
    /\ \A n \in Node \ early : grantOutbound[n] => where[n] = "vNodes"

(* A node that is to be disconnected is deleted in the end, unless it is   *)
(* one of the two kinds whose reference is never released.                 *)
DisconnectedIsDeleted ==
    \A n \in Node : fDisconnect[n] ~> where[n] = "deleted" \/ n \in found \cup early
=============================================================================
