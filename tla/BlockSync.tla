----------------------------- MODULE BlockSync -----------------------------
(***************************************************************************)
(* How nodes that run this code get each other's blocks (main.cpp: the     *)
(* inv, getdata, getblocks and block messages, SendMessages; net.cpp:      *)
(* PushGetBlocks, StartSync; net.h: AskFor, PushInventory).  Every node    *)
(* has a CNode for each of its connections: what it told or heard there,   *)
(* what it wants from there, and what it has sent and the peer has not yet *)
(* processed.  Nothing in this protocol is acknowledged or, apart from     *)
(* AskFor's two-minute delay, repeated: an inventory item is announced at  *)
(* most once on a connection and getblocks is not sent twice in a row, so  *)
(* whether a node ever gets a block rests on what both ends remember.      *)
(*                                                                         *)
(* The block chain is one line, so a block is named by its height; forks   *)
(* are the subject of BlockTree.  Messages on a connection stay in order   *)
(* (TCP); a connection may break, and everything on it is lost.            *)
(***************************************************************************)
EXTENDS Integers, FiniteSets, SequencesExt

CONSTANTS
    Node,
    NoNode,       \* a NULL CNode*
    nLimit,       \* blocks announced for one getblocks (500)
    MaxHeight,    \* bound: the height of the chain.  A locator names ten blocks
                  \* one by one, and setInventoryKnown has room for 1000
    StartHeight,  \* of each node
    Importers,    \* nodes that may be importing when they start
    MaxBreaks     \* bound: connections that break

ASSUME SyncAssumption ==
    /\ IsFiniteSet(Node) /\ NoNode \notin Node
    /\ nLimit \in Nat \ {0} /\ MaxBreaks \in Nat
    /\ MaxHeight \in 0..10 /\ StartHeight \in [Node -> 0..MaxHeight]
    /\ Importers \subseteq Node

NoBlock == 0      \* uint256(0); block 0 is the genesis block, never sent
Never == -1       \* not asked for, or two minutes ago and more
Block == 1..MaxHeight

VARIABLES
    nBestHeight,         \* of each node: it has the blocks up to it
    mapOrphanBlocks,     \* of each node
    mapAlreadyAskedFor,  \* of each node: when it will last have asked for a
                         \* block, in two-minute steps from now
    fImporting,          \* of each node: -reindex, -loadblock
    pnodeSync,           \* of each node
    links,               \* the connections, as pairs of nodes
    cnode,               \* cnode[n][m]: what n keeps for its connection to m
    breaks

vars == <<nBestHeight, mapOrphanBlocks, mapAlreadyAskedFor, fImporting, pnodeSync,
          links, cnode, breaks>>

Linked(n, m) == {n, m} \in links /\ n # m

(* CNode::CNode.  vSendMsg holds what is on its way, until the peer        *)
(* processes it.  ignored and skipped are history variables: what the peer *)
(* announced that was dropped during an import, and what it announced that *)
(* was an orphan here and so not asked for.                                *)
NewNode ==
    [setInventoryKnown |-> {}, vInventoryToSend |-> <<>>, mapAskFor |-> <<>>,
     fStartSync |-> FALSE, pindexLastGetBlocksBegin |-> Never,
     hashLastGetBlocksEnd |-> NoBlock, hashContinue |-> NoBlock,
     vRecvGetData |-> <<>>, vSendMsg |-> <<>>, ignored |-> {}, skipped |-> {}]

-----------------------------------------------------------------------------
(* Operations on a CNode.                                                  *)
PushMessage(p, msg) == [p EXCEPT !.vSendMsg = Append(@, msg)]

AddInventoryKnown(p, b) == [p EXCEPT !.setInventoryKnown = @ \cup {b}]

(* PushInventory, of each item of a sequence.                              *)
PushInventory(p, blocks) ==
    LET Unknown(b) == b \notin p.setInventoryKnown
    IN  [p EXCEPT !.vInventoryToSend = @ \o SelectSeq(blocks, Unknown)]

PushGetBlocks(p, begin, end) ==
    IF p.pindexLastGetBlocksBegin = begin /\ p.hashLastGetBlocksEnd = end THEN p
    ELSE PushMessage([p EXCEPT !.pindexLastGetBlocksBegin = begin,
                               !.hashLastGetBlocksEnd = end],
                     [command |-> "getblocks", begin |-> begin, stop |-> end])

Later(t) == IF t = Never THEN Never ELSE t - 1

(* Faulty form: what has been asked for lately is not noted again.         *)
AskForOnce(s, b) ==
    IF s.asked[b] # Never THEN s
    ELSE [asked |-> [s.asked EXCEPT ![b] = 0],
          node  |-> [s.node EXCEPT !.mapAskFor = Append(@, [inv |-> b, time |-> 0])]]

(* s is what AskFor works on: the CNode and the node's mapAlreadyAskedFor. *)
(* mapAskFor is ordered by time.                                           *)
AskFor(s, b) ==
    LET t == s.asked[b] + 1
        Due(e) == e.time <= t
        NotDue(e) == e.time > t
    IN  [asked |-> [s.asked EXCEPT ![b] = t],
         node  |-> [s.node EXCEPT !.mapAskFor =
                      SelectSeq(@, Due) \o <<[inv |-> b, time |-> t]>>
                                        \o SelectSeq(@, NotDue)]]

-----------------------------------------------------------------------------
AlreadyHave(n, b) == b <= nBestHeight[n] \/ b \in mapOrphanBlocks[n]

GetOrphanRoot(orphans, b) ==
    CHOOSE r \in 1..b : r..b \subseteq orphans /\ r - 1 \notin orphans

(* One item of an inv message.                                             *)
InvItem(n, s, b, isLast) ==
    LET t == [s EXCEPT !.node = AddInventoryKnown(@, b)]
    IN  CASE ~AlreadyHave(n, b) /\ ~fImporting[n] -> AskFor(t, b)
          [] ~AlreadyHave(n, b) /\ fImporting[n] -> [t EXCEPT !.node.ignored = @ \cup {b}]
          [] b \in mapOrphanBlocks[n] ->
               [t EXCEPT !.node = PushGetBlocks([@ EXCEPT !.skipped = @ \cup {b}], nBestHeight[n],
                                                GetOrphanRoot(mapOrphanBlocks[n], b))]
          [] OTHER -> IF isLast THEN [t EXCEPT !.node = PushGetBlocks(@, b, NoBlock)] ELSE t

Inv(n, s, vInv) ==
    LET Item(acc, i) == InvItem(n, acc, vInv[i], i = Len(vInv))
    IN  FoldLeftDomain(Item, s, vInv)

(* From the last block of the locator that n has in its chain on.          *)
GetBlocks(n, p, begin, hashStop) ==
    LET fork == Min({begin, nBestHeight[n]})
        last == Min({fork + nLimit, nBestHeight[n]}
                      \cup (IF hashStop > fork THEN {hashStop - 1} ELSE {}))
    IN  [PushInventory(p, [i \in 1..(last - fork) |-> fork + i])
           EXCEPT !.hashContinue = IF last = fork + nLimit THEN last ELSE @]


(* ProcessGetData sends one block.  (When it throttles, it is called again *)
(* in the next round of the message thread.)  The block that ended a batch *)
(* is followed by the tip, so that the peer asks for the next batch.       *)
ProcessGetData(n, p) ==
    LET b == Head(p.vRecvGetData)
        q == [p EXCEPT !.vRecvGetData = Tail(@)]
        sent == PushMessage(q, [command |-> "block", block |-> b])
    IN  CASE p.vRecvGetData = <<>>  -> p
          [] b > nBestHeight[n]     -> q
          [] b = p.hashContinue     ->
               [PushMessage(sent, [command |-> "inv", vInv |-> <<nBestHeight[n]>>])
                  EXCEPT !.hashContinue = NoBlock]
          [] OTHER                  -> sent

-----------------------------------------------------------------------------
(* AcceptBlock of the next block and then of the orphans that wait for it: *)
(* the new tip.                                                            *)
TipWith(n, b) == CHOOSE t \in b..MaxHeight : /\ (b + 1)..t \subseteq mapOrphanBlocks[n]
                                             /\ t + 1 \notin mapOrphanBlocks[n]

(* Every accepted block becomes the best one and is announced to all.      *)
Relayed(peers, n, b) ==
    [m \in Node |->
        IF Linked(n, m)
        THEN PushInventory(peers[m], [i \in 1..(TipWith(n, b) - b + 1) |-> b + i - 1])
        ELSE peers[m]]

(* n processes block b; peers is cnode[n] and m the node that sent it.     *)
ProcessBlock(n, m, peers, b) ==
    \/ /\ AlreadyHave(n, b)
       /\ cnode' = [cnode EXCEPT ![n] = peers, ![m][n].vSendMsg = Tail(@)]
       /\ UNCHANGED <<nBestHeight, mapOrphanBlocks, mapAlreadyAskedFor>>
    \/ /\ ~AlreadyHave(n, b) /\ b > nBestHeight[n] + 1
       /\ LET orphans == mapOrphanBlocks[n] \cup {b}
          IN  /\ mapOrphanBlocks' = [mapOrphanBlocks EXCEPT ![n] = orphans]
              /\ cnode' = [cnode EXCEPT
                    ![n] = [peers EXCEPT ![m] = PushGetBlocks(@, nBestHeight[n],
                                                              GetOrphanRoot(orphans, b))],
                    ![m][n].vSendMsg = Tail(@)]
       /\ mapAlreadyAskedFor' = [mapAlreadyAskedFor EXCEPT ![n][b] = Never]
       /\ UNCHANGED nBestHeight
    \/ /\ b = nBestHeight[n] + 1
       /\ nBestHeight' = [nBestHeight EXCEPT ![n] = TipWith(n, b)]
       /\ mapOrphanBlocks' = [mapOrphanBlocks EXCEPT ![n] = @ \ (b..TipWith(n, b))]
       /\ mapAlreadyAskedFor' = [mapAlreadyAskedFor EXCEPT ![n][b] = Never]
       /\ cnode' = [cnode EXCEPT ![n] = Relayed(peers, n, b), ![m][n].vSendMsg = Tail(@)]

-----------------------------------------------------------------------------
(* ProcessMessage, for the next message that n has from m.  Blocks that m  *)
(* was promised go first.                                                  *)
Receive(n, m) ==
    /\ Linked(n, m) /\ cnode[m][n].vSendMsg # <<>> /\ cnode[n][m].vRecvGetData = <<>>
    /\ LET p   == cnode[n][m]
           msg == Head(cnode[m][n].vSendMsg)
           Handled(q) == cnode' = [cnode EXCEPT ![n][m] = q, ![m][n].vSendMsg = Tail(@)]
       IN  \/ /\ msg.command = "inv"
              /\ LET s == Inv(n, [node |-> p, asked |-> mapAlreadyAskedFor[n]], msg.vInv)
                 IN  /\ Handled(s.node)
                     /\ mapAlreadyAskedFor' = [mapAlreadyAskedFor EXCEPT ![n] = s.asked]
              /\ UNCHANGED <<nBestHeight, mapOrphanBlocks>>
           \/ /\ msg.command = "getblocks"
              /\ Handled(GetBlocks(n, p, msg.begin, msg.stop))
              /\ UNCHANGED <<nBestHeight, mapOrphanBlocks, mapAlreadyAskedFor>>
           \/ /\ msg.command = "getdata"
              /\ Handled(ProcessGetData(n, [p EXCEPT !.vRecvGetData = msg.vInv]))
              /\ UNCHANGED <<nBestHeight, mapOrphanBlocks, mapAlreadyAskedFor>>
           \/ /\ msg.command = "block"
              /\ ProcessBlock(n, m, [cnode[n] EXCEPT ![m] = AddInventoryKnown(@, msg.block)],
                              msg.block)
    /\ UNCHANGED <<fImporting, pnodeSync, links, breaks>>

(* ProcessMessages goes on with the getdata it has not answered in full.   *)
ProcessGetDataMore(n, m) ==
    /\ Linked(n, m) /\ cnode[n][m].vRecvGetData # <<>>
    /\ cnode' = [cnode EXCEPT ![n][m] = ProcessGetData(n, @)]
    /\ UNCHANGED <<nBestHeight, mapOrphanBlocks, mapAlreadyAskedFor, fImporting, pnodeSync,
                   links, breaks>>

(* Three parts of SendMessages, in this order: getblocks to the node that  *)
(* StartSync chose, the items to announce that the peer does not know, the *)
(* blocks to ask for that are due.                                         *)
SendStart(n, p) ==
    IF p.fStartSync /\ ~fImporting[n]
    THEN PushGetBlocks([p EXCEPT !.fStartSync = FALSE], nBestHeight[n], NoBlock) ELSE p

SendInv(p) ==
    LET First(i) == /\ p.vInventoryToSend[i] \notin p.setInventoryKnown
                    /\ \A j \in 1..(i - 1) : p.vInventoryToSend[j] # p.vInventoryToSend[i]
        first == SetToSortSeq({i \in DOMAIN p.vInventoryToSend : First(i)}, <)
        vInv  == [i \in DOMAIN first |-> p.vInventoryToSend[first[i]]]
        q     == [p EXCEPT !.vInventoryToSend = <<>>,
                           !.setInventoryKnown = @ \cup ToSet(vInv)]
    IN  IF vInv = <<>> THEN q ELSE PushMessage(q, [command |-> "inv", vInv |-> vInv])

SendGetData(n, p) ==
    LET Wanted(e) == e.time <= 0 /\ ~AlreadyHave(n, e.inv)
        NotDue(e) == e.time > 0
        due == SelectSeq(p.mapAskFor, Wanted)
        q   == [p EXCEPT !.mapAskFor = SelectSeq(@, NotDue)]
    IN  IF due = <<>> THEN q
        ELSE PushMessage(q, [command |-> "getdata", vInv |-> [i \in DOMAIN due |-> due[i].inv]])

SendMessages(n, m) ==
    LET p == SendGetData(n, SendInv(SendStart(n, cnode[n][m])))
    IN  /\ Linked(n, m) /\ p # cnode[n][m]
        /\ cnode' = [cnode EXCEPT ![n][m] = p]
        /\ UNCHANGED <<nBestHeight, mapOrphanBlocks, mapAlreadyAskedFor, fImporting, pnodeSync,
                       links, breaks>>

(* The message thread has no node to sync from and takes one.              *)
StartSync(n, m) ==
    /\ Linked(n, m) /\ pnodeSync[n] = NoNode /\ ~fImporting[n]
    /\ pnodeSync' = [pnodeSync EXCEPT ![n] = m]
    /\ cnode' = [cnode EXCEPT ![n][m].fStartSync = TRUE]
    /\ UNCHANGED <<nBestHeight, mapOrphanBlocks, mapAlreadyAskedFor, fImporting, links, breaks>>

-----------------------------------------------------------------------------
(* A block that n gets elsewhere: from its miner when nobody has more, or  *)
(* from the files it imports.                                              *)
LocalBlock(n) ==
    LET b == nBestHeight[n] + 1
    IN  /\ b <= MaxHeight
        /\ fImporting[n] \/ \A m \in Node : nBestHeight[m] < b
        /\ nBestHeight' = [nBestHeight EXCEPT ![n] = TipWith(n, b)]
        /\ mapOrphanBlocks' = [mapOrphanBlocks EXCEPT ![n] = @ \ (b..TipWith(n, b))]
        /\ cnode' = [cnode EXCEPT ![n] = Relayed(@, n, b)]
        /\ UNCHANGED <<mapAlreadyAskedFor, fImporting, pnodeSync, links, breaks>>

ImportDone(n) ==
    /\ fImporting[n] /\ fImporting' = [fImporting EXCEPT ![n] = FALSE]
    /\ UNCHANGED <<nBestHeight, mapOrphanBlocks, mapAlreadyAskedFor, pnodeSync, links, cnode,
                   breaks>>

(* Two minutes pass.                                                       *)
Tick ==
    /\ mapAlreadyAskedFor' =
          [n \in Node |-> [b \in Block |-> Later(mapAlreadyAskedFor[n][b])]]
    /\ cnode' = [n \in Node |-> [m \in Node |->
          [cnode[n][m] EXCEPT !.mapAskFor =
              [i \in DOMAIN @ |-> [@[i] EXCEPT !.time = Later(@)]]]]]
    /\ <<mapAlreadyAskedFor, cnode>>' # <<mapAlreadyAskedFor, cnode>>
    /\ UNCHANGED <<nBestHeight, mapOrphanBlocks, fImporting, pnodeSync, links, breaks>>

(* CloseSocketDisconnect, at both ends.                                    *)
Break(n, m) ==
    /\ Linked(n, m) /\ breaks < MaxBreaks /\ breaks' = breaks + 1
    /\ links' = links \ {{n, m}}
    /\ cnode' = [cnode EXCEPT ![n][m] = NewNode, ![m][n] = NewNode]
    /\ pnodeSync' = [k \in Node |-> IF {k, pnodeSync[k]} = {n, m} THEN NoNode ELSE pnodeSync[k]]
    /\ UNCHANGED <<nBestHeight, mapOrphanBlocks, mapAlreadyAskedFor, fImporting>>

Connect(n, m) ==
    /\ n # m /\ ~Linked(n, m) /\ links' = links \cup {{n, m}}
    /\ UNCHANGED <<nBestHeight, mapOrphanBlocks, mapAlreadyAskedFor, fImporting, pnodeSync,
                   cnode, breaks>>

-----------------------------------------------------------------------------
Init ==
    /\ nBestHeight = StartHeight
    /\ mapOrphanBlocks = [n \in Node |-> {}]
    /\ mapAlreadyAskedFor = [n \in Node |-> [b \in Block |-> Never]]
    /\ \E S \in SUBSET Importers : fImporting = [n \in Node |-> n \in S]
    /\ pnodeSync = [n \in Node |-> NoNode]
    /\ links = {} /\ breaks = 0
    /\ cnode = [n \in Node |-> [m \in Node |-> NewNode]]

Work(n, m) ==
    \/ Receive(n, m) \/ ProcessGetDataMore(n, m) \/ SendMessages(n, m) \/ StartSync(n, m)

Next ==
    \/ \E n, m \in Node : Work(n, m) \/ Break(n, m) \/ Connect(n, m)
    \/ \E n \in Node : LocalBlock(n) \/ ImportDone(n)
    \/ Tick

Spec == Init /\ [][Next]_vars

(* As long as a message thread has something to do, an import runs or a    *)
(* delay has not passed, one of them goes on; no block need be mined and   *)
(* no connection made or broken.                                           *)
FairSpec ==
    Spec /\ WF_vars(\/ \E n, m \in Node : Work(n, m)
                    \/ \E n \in Node : ImportDone(n)
                    \/ Tick)

-----------------------------------------------------------------------------
(* b is on its way from m to n: announced, noted to be asked for, asked    *)
(* for, about to be sent, or sent.                                         *)
Pending(n, m, b) ==
    \/ \E i \in DOMAIN cnode[m][n].vSendMsg :
          LET msg == cnode[m][n].vSendMsg[i]
          IN  \/ msg.command = "inv" /\ Contains(msg.vInv, b)
              \/ msg.command = "block" /\ msg.block = b
    \/ \E i \in DOMAIN cnode[n][m].mapAskFor : cnode[n][m].mapAskFor[i].inv = b
    \/ \E i \in DOMAIN cnode[n][m].vSendMsg :
          LET msg == cnode[n][m].vSendMsg[i]
          IN  msg.command = "getdata" /\ Contains(msg.vInv, b)
    \/ Contains(cnode[m][n].vRecvGetData, b)

(* A block that m counts as known to n, and so will not announce to n      *)
(* again, is one that n has or that is on its way on this connection: the  *)
(* filter of PushInventory and SendMessages never hides a block from the   *)
(* peer that lacks it, except one that the peer let pass while it imported.*)
KnownIsHeldOrPending ==
    \A n, m \in Node : Linked(n, m) =>
        \A b \in cnode[m][n].setInventoryKnown :
            AlreadyHave(n, b) \/ b \in cnode[n][m].ignored \/ Pending(n, m, b)

=============================================================================
