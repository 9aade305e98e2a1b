----------------------------- MODULE BlockTree -----------------------------
(***************************************************************************)
(* The block index and the choice of the best chain (main.cpp):            *)
(* ProcessBlock with its orphan blocks, AcceptBlock, AddToBlockIndex,      *)
(* ConnectBestBlock, SetBestChain and InvalidBlockFound, what they write   *)
(* to the two LevelDB databases, and what a crash and a restart            *)
(* (LoadBlockIndexDB, VerifyDB, init.cpp) make of that.                    *)
(*                                                                         *)
(* All of it runs under cs_main, so calls do not interleave with each      *)
(* other; a crash may fall between any two steps, so a call is split into  *)
(* steps wherever it writes to disk, with pc saying where it is.           *)
(*                                                                         *)
(* What a block contains is abstracted to three sets: whether AcceptBlock  *)
(* refuses it, whether ConnectBlock does, and whether DisconnectBlock can  *)
(* take it back (module Coins says when it cannot).                        *)
(***************************************************************************)
EXTENDS Naturals, Sequences, SequencesExt, FiniteSets

CONSTANTS
    Block,         \* blocks, the genesis block included
    Genesis,
    Parent,        \* Parent[b], for every other block
    nHeight,       \* CBlockIndex::nHeight: every block descends from the genesis block
    BlockWork,     \* GetBlockWork
    HashOf,        \* block hashes, as numbers
    BadHeader,     \* refused by AcceptBlock (nBits, time, finality, checkpoint)
    BadBlock,      \* refused by ConnectBlock
    NotUndoable    \* DisconnectBlock is not clean

None == "none"

ASSUME TreeAssumption ==
    /\ IsFiniteSet(Block) /\ Genesis \in Block /\ None \notin Block
    /\ Parent \in [Block \ {Genesis} -> Block]
    /\ nHeight \in [Block -> Nat] /\ nHeight[Genesis] = 0
    /\ \A b \in Block \ {Genesis} : nHeight[b] = nHeight[Parent[b]] + 1
    /\ BlockWork \in [Block -> Nat \ {0}]
    /\ HashOf \in [Block -> Nat]
    /\ \A b, c \in Block : HashOf[b] = HashOf[c] => b = c
    /\ BadHeader \subseteq Block \ {Genesis}
    /\ BadBlock \subseteq Block \ {Genesis}
    /\ NotUndoable \subseteq Block \ {Genesis}

VARIABLES
    nStatus,             \* mapBlockIndex: block -> set of status flags
    setBlockIndexValid,  \* candidates for the best chain
    pindexBest,          \* tip of the best chain
    coinsTip,            \* pcoinsTip->GetBestBlock()
    pnext,               \* successor in the best chain, None if there is none
    mapOrphanBlocks,     \* received blocks whose parent is not indexed
    fRequestShutdown,    \* AbortNode was called
    pc,                  \* where the running call is; "idle" between calls
    accepting,           \* the block AcceptBlock works on; None during start-up
    vAttach,             \* ConnectBestBlock: blocks still to switch to
    vWorkQueue,          \* ProcessBlock: hashes whose orphans are to be tried
    index,               \* block tree database, the durable part
    log,                 \* its writes since the last Sync: <<block, flags>>
    coinsDB,             \* tips written to the coin database, oldest durable
    fConnected,          \* history: the last ConnectBestBlock returned true
    refused,             \* history: indexed blocks whose AcceptBlock failed
    exposed              \* history: Shutdown has left index writes unsynced

mem   == <<nStatus, setBlockIndexValid, pindexBest, coinsTip, pnext, mapOrphanBlocks,
           fRequestShutdown>>
ctl   == <<pc, accepting, vAttach, vWorkQueue>>
disk  == <<index, log, coinsDB>>
hist  == <<fConnected, refused, exposed>>
vars  == <<mem, ctl, disk, hist>>

-----------------------------------------------------------------------------
Chain[b \in Block] == IF b = Genesis THEN <<b>> ELSE Append(Chain[Parent[b]], b)
Ancestors(b) == ToSet(Chain[b])     \* b included

nChainWork[b \in Block] ==
    BlockWork[b] + IF b = Genesis THEN 0 ELSE nChainWork[Parent[b]]

(* The members of S in the sequence s, in their order.                     *)
Only(s, S) ==
    LET Kept[i \in 0..Len(s)] == IF i = 0 THEN <<>>
                                 ELSE IF s[i] \in S THEN Append(Kept[i - 1], s[i]) ELSE Kept[i - 1]
    IN  Kept[Len(s)]

Failed(b) == nStatus[b] \cap {"FAILED_VALID", "FAILED_CHILD"} # {}

BestChain == Ancestors(pindexBest)

(* Faulty form: the order of the hashes alone.                             *)
BestCandidateByHash ==
    CHOOSE c \in setBlockIndexValid : \A d \in setBlockIndexValid : HashOf[c] <= HashOf[d]

(* CBlockIndexWorkComparator: more work first, then the smaller hash.      *)
BestCandidate ==
    CHOOSE c \in setBlockIndexValid : \A d \in setBlockIndexValid :
        \/ nChainWork[c] > nChainWork[d]
        \/ nChainWork[c] = nChainWork[d] /\ HashOf[c] <= HashOf[d]

(* The contents of the index database once some writes are applied: the    *)
(* last write to a block counts.                                           *)
Apply(db, writes) ==
    LET To(b)    == {i \in DOMAIN writes : writes[i][1] = b}
        Final(b) == CHOOSE i \in To(b) : \A j \in To(b) : j <= i
    IN  [b \in DOMAIN db \cup {writes[i][1] : i \in DOMAIN writes} |->
            IF To(b) = {} THEN db[b] ELSE writes[Final(b)][2]]

Writes(blocks, status) == [i \in DOMAIN blocks |-> <<blocks[i], status[blocks[i]]>>]

-----------------------------------------------------------------------------
(* Faulty form: the parked block becomes a candidate at once.              *)
ProcessOrphanBlockEager(b) ==
    /\ pc = "idle"
    /\ b \notin DOMAIN nStatus \cup mapOrphanBlocks
    /\ Parent[b] \notin DOMAIN nStatus
    /\ mapOrphanBlocks' = mapOrphanBlocks \cup {b}
    /\ setBlockIndexValid' = setBlockIndexValid \cup {b}
    /\ UNCHANGED <<nStatus, pindexBest, coinsTip, pnext, fRequestShutdown, ctl, disk, hist>>

(* ProcessBlock: a block whose parent is unknown is parked.                *)
ProcessOrphanBlock(b) ==
    /\ pc = "idle"
    /\ b \notin DOMAIN nStatus \cup mapOrphanBlocks
    /\ Parent[b] \notin DOMAIN nStatus
    /\ mapOrphanBlocks' = mapOrphanBlocks \cup {b}
    /\ UNCHANGED <<nStatus, setBlockIndexValid, pindexBest, coinsTip, pnext, fRequestShutdown,
                   ctl, disk, hist>>

(* AddToBlockIndex up to the call of ConnectBestBlock: the block becomes a *)
(* candidate whatever the status of its parent.                            *)
AddToBlockIndex(b) ==
    /\ nStatus' = [c \in DOMAIN nStatus \cup {b} |-> IF c = b THEN {} ELSE nStatus[c]]
    /\ setBlockIndexValid' = setBlockIndexValid \cup {b}
    /\ log' = Append(log, <<b, {}>>)
    /\ accepting' = b
    /\ pc' = "connect"

AcceptBlock(b) == b \notin BadHeader /\ AddToBlockIndex(b)

(* ProcessBlock: the parent is known, the block is accepted at once.       *)
ProcessBlock(b) ==
    /\ pc = "idle"
    /\ b \notin DOMAIN nStatus \cup mapOrphanBlocks
    /\ Parent[b] \in DOMAIN nStatus
    /\ AcceptBlock(b)
    /\ vWorkQueue' = <<>>
    /\ UNCHANGED <<pindexBest, coinsTip, pnext, mapOrphanBlocks, fRequestShutdown, vAttach,
                   index, coinsDB, hist>>

(* ConnectBestBlock finds the failed block f below the candidate c: the    *)
(* blocks above f fail with it.                                            *)
Above(c, f) == SubSeq(Chain[c], Len(Chain[f]) + 1, Len(Chain[c]))

(* Faulty form: they stay candidates.                                      *)
MarkFailedChildKeeping(c, f) ==
    /\ nStatus' = [b \in DOMAIN nStatus |-> IF b \in ToSet(Above(c, f))
                                            THEN nStatus[b] \cup {"FAILED_CHILD"} ELSE nStatus[b]]
    /\ setBlockIndexValid' = setBlockIndexValid
    /\ log' = log \o Writes(Reverse(Above(c, f)), nStatus')

MarkFailedChild(c, f) ==
    /\ nStatus' = [b \in DOMAIN nStatus |-> IF b \in ToSet(Above(c, f))
                                            THEN nStatus[b] \cup {"FAILED_CHILD"} ELSE nStatus[b]]
    /\ setBlockIndexValid' = setBlockIndexValid \ ToSet(Above(c, f))
    /\ log' = log \o Writes(Reverse(Above(c, f)), nStatus')

(* The blocks the walk from candidate c looks at: down to the first block  *)
(* with a successor in the best chain, or to the genesis block.            *)
Walk(c) ==
    LET stops == {i \in DOMAIN Chain[c] : i = 1 \/ pnext[Chain[c][i]] # None}
        low   == CHOOSE i \in stops : \A j \in stops : j <= i
    IN  SubSeq(Chain[c], low, Len(Chain[c]))

(* Faulty form: the whole walk.                                            *)
AttachAll(walk) == walk

(* The blocks to switch to one after the other: all with more work than    *)
(* the best chain.                                                         *)
Attach(walk) == Only(walk, {b \in Block : nChainWork[b] > nChainWork[pindexBest]})

(* One turn of ConnectBestBlock's outer loop.                              *)
ConnectBestBlock ==
    /\ pc = "connect"
    /\ IF setBlockIndexValid = {}
       THEN pc' = "switch" /\ vAttach' = <<>> /\ UNCHANGED <<mem, log>>
       ELSE LET c    == BestCandidate
                walk == Walk(c)
                bad  == {i \in DOMAIN walk : Failed(walk[i])}
            IN  IF bad # {}
                THEN /\ MarkFailedChild(c, walk[CHOOSE i \in bad : \A j \in bad : j <= i])
                     /\ UNCHANGED <<pc, vAttach, pindexBest, coinsTip, pnext, mapOrphanBlocks,
                                    fRequestShutdown>>
                ELSE /\ vAttach' = Attach(walk)
                     /\ pc' = "switch"
                     /\ UNCHANGED <<mem, log>>
    /\ UNCHANGED <<accepting, vWorkQueue, index, coinsDB, hist>>

-----------------------------------------------------------------------------
(* The blocks SetBestChain(b) takes out of and puts into the chain.        *)
vDisconnect(b) == Reverse(Only(Chain[coinsTip], Block \ Ancestors(b)))
vConnect(b) == Only(Chain[b], Block \ Ancestors(coinsTip))

CanDisconnect(b) == \A d \in ToSet(vDisconnect(b)) : "UNDO" \in nStatus[d] /\ d \notin NotUndoable

(* ConnectBlock of the blocks of s: undo data is written for those that    *)
(* have none, with BLOCK_HAVE_UNDO and BLOCK_VALID_SCRIPTS in the index    *)
(* ("UNDO" stands for both).  The genesis block returns early.             *)
NeedUndo(s) == Only(s, {b \in DOMAIN nStatus \ {Genesis} : "UNDO" \notin nStatus[b]})

(* Faulty form: the flag is set for the last block only.                   *)
ConnectedLast(s) ==
    [b \in DOMAIN nStatus |-> IF s # <<>> /\ b = Last(s) THEN nStatus[b] \cup {"UNDO"} ELSE nStatus[b]]

Connected(s) ==
    [b \in DOMAIN nStatus |-> IF b \in ToSet(NeedUndo(s)) THEN nStatus[b] \cup {"UNDO"} ELSE nStatus[b]]

(* SetBestChain fails: DisconnectBlock is not clean, nothing is written.   *)
SetBestChainStuck ==
    /\ pc = "switch" /\ vAttach # <<>>
    /\ ~CanDisconnect(Head(vAttach))
    /\ pc' = "failed"
    /\ UNCHANGED <<mem, accepting, vAttach, vWorkQueue, disk, hist>>

(* Faulty form: the first block of the branch takes the blame.             *)
InvalidBlockFoundFirst(bad, status) ==
    LET first == vConnect(Head(vAttach))[1]
    IN  /\ nStatus' = [status EXCEPT ![first] = @ \cup {"FAILED_VALID"}]
        /\ setBlockIndexValid' = setBlockIndexValid \ {first}

InvalidBlockFound(bad, status) ==
    /\ nStatus' = [status EXCEPT ![bad] = @ \cup {"FAILED_VALID"}]
    /\ setBlockIndexValid' = setBlockIndexValid \ {bad}

(* Faulty form: the blocks below the bad one stay in pcoinsTip.            *)
SetBestChainInvalidKeeping ==
    /\ pc = "switch" /\ vAttach # <<>>
    /\ CanDisconnect(Head(vAttach))
    /\ \E k \in DOMAIN vConnect(Head(vAttach)) :
          LET con   == vConnect(Head(vAttach))
              below == SubSeq(con, 1, k - 1)
          IN  /\ con[k] \in BadBlock /\ ToSet(below) \cap BadBlock = {}
              /\ InvalidBlockFound(con[k], Connected(below))
              /\ log' = log \o Writes(NeedUndo(below) \o <<con[k]>>, nStatus')
              /\ coinsTip' = Parent[con[k]]
    /\ pc' = "failed"
    /\ UNCHANGED <<pindexBest, pnext, mapOrphanBlocks, fRequestShutdown, accepting, vAttach,
                   vWorkQueue, index, coinsDB, hist>>

(* SetBestChain fails: ConnectBlock refuses a block; those below it have   *)
(* written their undo data, and it is marked by InvalidBlockFound.  The    *)
(* view is dropped, pcoinsTip stays where it was.                          *)
SetBestChainInvalid ==
    /\ pc = "switch" /\ vAttach # <<>>
    /\ CanDisconnect(Head(vAttach))
    /\ \E k \in DOMAIN vConnect(Head(vAttach)) :
          LET con   == vConnect(Head(vAttach))
              below == SubSeq(con, 1, k - 1)
          IN  /\ con[k] \in BadBlock /\ ToSet(below) \cap BadBlock = {}
              /\ InvalidBlockFound(con[k], Connected(below))
              /\ log' = log \o Writes(NeedUndo(below) \o <<con[k]>>, nStatus')
    /\ pc' = "failed"
    /\ UNCHANGED <<pindexBest, coinsTip, pnext, mapOrphanBlocks, fRequestShutdown, accepting,
                   vAttach, vWorkQueue, index, coinsDB, hist>>

(* SetBestChain fails: a block or undo record cannot be read or written    *)
(* (state.Abort), after some blocks were connected in the view.            *)
SetBestChainAbort ==
    /\ pc = "switch" /\ vAttach # <<>>
    /\ \E k \in 0..(Len(vConnect(Head(vAttach))) - 1) :
          LET below == SubSeq(vConnect(Head(vAttach)), 1, k)
          IN  /\ k > 0 => CanDisconnect(Head(vAttach)) /\ ToSet(below) \cap BadBlock = {}
              /\ nStatus' = Connected(below)
              /\ log' = log \o Writes(NeedUndo(below), nStatus')
    /\ fRequestShutdown' = TRUE
    /\ pc' = "failed"
    /\ UNCHANGED <<setBlockIndexValid, pindexBest, coinsTip, pnext, mapOrphanBlocks, accepting,
                   vAttach, vWorkQueue, index, coinsDB, hist>>

(* SetBestChain connects all the blocks; fFlush as outside the initial     *)
(* download, or with a full cache.  The view is flushed to pcoinsTip here, *)
(* which shows in coinsTip when the call ends (no one else can look).      *)
SetBestChainConnect(fFlush) ==
    /\ pc = "switch" /\ vAttach # <<>>
    /\ CanDisconnect(Head(vAttach))
    /\ ToSet(vConnect(Head(vAttach))) \cap BadBlock = {}
    /\ nStatus' = Connected(vConnect(Head(vAttach)))
    /\ log' = log \o Writes(NeedUndo(vConnect(Head(vAttach))), nStatus')
    /\ pc' = IF fFlush THEN "sync" ELSE "commit"
    /\ UNCHANGED <<setBlockIndexValid, pindexBest, coinsTip, pnext, mapOrphanBlocks, fRequestShutdown,
                   accepting, vAttach, vWorkQueue, index, coinsDB, hist>>

(* CheckDiskSpace refuses, or a database cannot be written: SetBestChain   *)
(* returns with pcoinsTip moved, pindexBest and pnext not.                 *)
FlushAbort ==
    /\ pc \in {"sync", "flush"}
    /\ coinsTip' = Head(vAttach)
    /\ fRequestShutdown' = TRUE
    /\ pc' = "failed"
    /\ UNCHANGED <<nStatus, setBlockIndexValid, pindexBest, pnext, mapOrphanBlocks, accepting,
                   vAttach, vWorkQueue, disk, hist>>

(* Faulty form: CLevelDB::Flush(), which does nothing, instead of Sync().  *)
SyncIndexByFlush ==
    /\ pc = "sync"
    /\ pc' = "flush"
    /\ UNCHANGED <<mem, accepting, vAttach, vWorkQueue, disk, hist>>

(* pblocktree->Sync() makes the index writes so far durable.               *)
SyncIndex ==
    /\ pc = "sync"
    /\ index' = Apply(index, log)
    /\ log' = <<>>
    /\ pc' = "flush"
    /\ UNCHANGED <<mem, accepting, vAttach, vWorkQueue, coinsDB, hist>>

(* pcoinsTip->Flush(): one batch, not synced; a crash may still lose it.   *)
FlushCoins ==
    /\ pc = "flush"
    /\ coinsDB' = Append(coinsDB, Head(vAttach))
    /\ pc' = "commit"
    /\ UNCHANGED <<mem, accepting, vAttach, vWorkQueue, index, log, hist>>

(* Faulty form: only the new successors are set.                           *)
NextPointersConnectOnly(b) ==
    [d \in Block |->
        IF \E c \in ToSet(vConnect(b)) : c # Genesis /\ Parent[c] = d
        THEN CHOOSE c \in ToSet(vConnect(b)) : c # Genesis /\ Parent[c] = d
        ELSE pnext[d]]

NextPointers(b) ==
    [d \in Block |->
        IF \E c \in ToSet(vConnect(b)) : c # Genesis /\ Parent[c] = d
        THEN CHOOSE c \in ToSet(vConnect(b)) : c # Genesis /\ Parent[c] = d
        ELSE IF \E c \in ToSet(vDisconnect(b)) : Parent[c] = d THEN None
        ELSE pnext[d]]

(* The end of SetBestChain: successor pointers and the new tip.            *)
SetBestChainCommit ==
    /\ pc = "commit"
    /\ pnext' = NextPointers(Head(vAttach))
    /\ pindexBest' = Head(vAttach) /\ coinsTip' = Head(vAttach)
    /\ vAttach' = Tail(vAttach)
    /\ pc' = "switch"
    /\ UNCHANGED <<nStatus, setBlockIndexValid, mapOrphanBlocks, fRequestShutdown,
                   accepting, vWorkQueue, disk, hist>>

-----------------------------------------------------------------------------
(* The process is gone, with everything it held in memory.                 *)
Down ==
    /\ mapOrphanBlocks' = {} /\ accepting' = None
    /\ vAttach' = <<>> /\ vWorkQueue' = <<>>
    /\ pc' = "down"
    /\ fConnected' = TRUE /\ refused' = {}
    /\ nStatus' = [b \in {Genesis} |-> {}] /\ setBlockIndexValid' = {Genesis}
    /\ pindexBest' = Genesis /\ coinsTip' = Genesis /\ pnext' = [b \in Block |-> None]
    /\ fRequestShutdown' = FALSE

(* ConnectBestBlock returns true: the accepted block's orphans are next.   *)
ConnectBestBlockDone ==
    /\ pc = "switch" /\ vAttach = <<>>
    /\ fConnected' = TRUE
    /\ vWorkQueue' = IF accepting = None THEN <<>> ELSE Append(vWorkQueue, accepting)
    /\ pc' = "drain"
    /\ UNCHANGED <<mem, accepting, vAttach, disk, refused, exposed>>

(* ConnectBestBlock returns false, and AcceptBlock with it.  For a block   *)
(* from a peer ProcessBlock returns before the orphan loop (vWorkQueue is  *)
(* empty); an orphan is only left out of vWorkQueue.                       *)
ConnectBestBlockFailed ==
    /\ pc = "failed" /\ accepting # None
    /\ fConnected' = FALSE
    /\ vAttach' = <<>>
    /\ refused' = refused \cup {accepting}
    /\ pc' = "drain"
    /\ UNCHANGED <<mem, accepting, vWorkQueue, disk, exposed>>

(* During start-up AppInit2 collects the error and returns InitError.      *)
StartupFailed ==
    /\ pc = "failed" /\ accepting = None
    /\ Down
    /\ UNCHANGED <<disk, exposed>>

(* mapOrphanBlocksByPrev at the head of vWorkQueue.                        *)
WaitingForHead ==
    IF vWorkQueue = <<>> THEN {} ELSE {b \in mapOrphanBlocks : Parent[b] = Head(vWorkQueue)}

(* ProcessBlock's loop over vWorkQueue: an orphan child of its head is     *)
(* tried and forgotten, accepted or not.                                   *)
AcceptOrphanBlock(b) ==
    /\ pc = "drain"
    /\ b \in WaitingForHead
    /\ mapOrphanBlocks' = mapOrphanBlocks \ {b}
    /\ \/ AcceptBlock(b)
       \/ b \in BadHeader /\ UNCHANGED <<nStatus, setBlockIndexValid, log, accepting, pc>>
    /\ UNCHANGED <<pindexBest, coinsTip, pnext, fRequestShutdown, vAttach, vWorkQueue,
                   index, coinsDB, hist>>

(* Faulty form: the loop ends after the first hash.                        *)
NextInQueueStops ==
    /\ pc = "drain"
    /\ WaitingForHead = {}
    /\ vWorkQueue' = <<>>
    /\ pc' = "idle"
    /\ accepting' = None
    /\ UNCHANGED <<mem, vAttach, disk, hist>>

NextInQueue ==
    /\ pc = "drain"
    /\ WaitingForHead = {}
    /\ vWorkQueue' = IF vWorkQueue = <<>> THEN <<>> ELSE Tail(vWorkQueue)
    /\ pc' = IF Len(vWorkQueue) <= 1 THEN "idle" ELSE "drain"
    /\ accepting' = IF Len(vWorkQueue) <= 1 THEN None ELSE accepting
    /\ UNCHANGED <<mem, vAttach, disk, hist>>

-----------------------------------------------------------------------------
(* init.cpp Shutdown: pblocktree->Flush() does nothing, pcoinsTip->Flush() *)
(* writes the coins of the tip.  It comes between calls, or interrupts one *)
(* where ConnectBestBlock is about to switch.                              *)
Shutdown ==
    /\ pc = "idle" \/ (pc = "switch" /\ vAttach # <<>>)
    /\ Down
    /\ coinsDB' = IF Last(coinsDB) = coinsTip THEN coinsDB ELSE Append(coinsDB, coinsTip)
    /\ exposed' = (log # <<>>)
    /\ UNCHANGED <<index, log>>

(* The process dies; what it wrote is in the system's cache.               *)
Crash == pc \notin {"down", "lost"} /\ Down /\ UNCHANGED <<disk, exposed>>

(* Power fails: a prefix of the unsynced writes of each database survives. *)
PowerLoss ==
    /\ pc # "lost"
    /\ pc # "down" \/ log # <<>> \/ Len(coinsDB) > 1
    /\ Down
    /\ \E n \in 0..Len(log) : index' = Apply(index, SubSeq(log, 1, n))
    /\ \E m \in 1..Len(coinsDB) : coinsDB' = <<coinsDB[m]>>
    /\ log' = <<>>
    /\ UNCHANGED exposed

(* Opening the databases: LevelDB replays and syncs what it finds.         *)
FoundIndex == Apply(index, log)
FoundTip   == Last(coinsDB)

(* VerifyDB disconnects the last blocks in a scratch view: each needs its  *)
(* undo data, and must come off cleanly.                                   *)
VerifyDB(db, v) == \A b \in Ancestors(v) \ {Genesis} : "UNDO" \in db[b] /\ b \notin NotUndoable

(* Start-up: LoadBlockIndexDB rebuilds the maps from the index and takes   *)
(* the tip from the coins, VerifyDB agrees, and AppInit2 goes on to        *)
(* ConnectBestBlock.                                                       *)
LoadBlockIndexDB ==
    /\ pc = "down"
    /\ FoundTip \in DOMAIN FoundIndex
    /\ VerifyDB(FoundIndex, FoundTip)
    /\ nStatus' = FoundIndex
    /\ setBlockIndexValid' =
          {b \in DOMAIN FoundIndex : FoundIndex[b] \cap {"FAILED_VALID", "FAILED_CHILD"} = {}}
    /\ pindexBest' = FoundTip /\ coinsTip' = FoundTip
    /\ pnext' = [d \in Block |->
                    IF \E c \in Ancestors(FoundTip) \ {Genesis} : Parent[c] = d
                    THEN CHOOSE c \in Ancestors(FoundTip) \ {Genesis} : Parent[c] = d
                    ELSE None]
    /\ index' = FoundIndex /\ log' = <<>> /\ coinsDB' = <<FoundTip>>
    /\ pc' = "connect"
    /\ exposed' = FALSE
    /\ UNCHANGED <<mapOrphanBlocks, fRequestShutdown, accepting, vAttach, vWorkQueue,
                   fConnected, refused>>

(* Start-up does not find the tip of the coins in the index: pindexBest is *)
(* NULL, which nothing takes for an error, and the node goes on to connect *)
(* the blocks it knows on top of coins that already contain them.  The     *)
(* model stops there: "lost".                                              *)
LoadWithoutTip ==
    /\ pc = "down"
    /\ FoundTip \notin DOMAIN FoundIndex
    /\ pc' = "lost"
    /\ UNCHANGED <<mem, accepting, vAttach, vWorkQueue, disk, hist>>

(* Start-up gives up and the user lets it rebuild both databases, or the   *)
(* user runs it with -reindex: the blocks come in again one by one.        *)
Reindex ==
    /\ \/ pc = "lost"
       \/ pc = "down" /\ FoundTip \in DOMAIN FoundIndex /\ ~VerifyDB(FoundIndex, FoundTip)
    /\ index' = [b \in {Genesis} |-> {}] /\ log' = <<>> /\ coinsDB' = <<Genesis>>
    /\ pc' = "idle"
    /\ exposed' = FALSE
    /\ UNCHANGED <<mem, accepting, vAttach, vWorkQueue, fConnected, refused>>

-----------------------------------------------------------------------------
Init ==
    /\ nStatus = [b \in {Genesis} |-> {}]
    /\ setBlockIndexValid = {Genesis}
    /\ pindexBest = Genesis /\ coinsTip = Genesis
    /\ pnext = [b \in Block |-> None]
    /\ mapOrphanBlocks = {} /\ fRequestShutdown = FALSE
    /\ pc = "idle" /\ accepting = None /\ vAttach = <<>> /\ vWorkQueue = <<>>
    /\ index = [b \in {Genesis} |-> {}] /\ log = <<>> /\ coinsDB = <<Genesis>>
    /\ fConnected = TRUE /\ refused = {} /\ exposed = FALSE

(* What the thread that holds cs_main does next within a call.             *)
Step ==
    \/ ConnectBestBlock
    \/ SetBestChainStuck
    \/ SetBestChainInvalid
    \/ SetBestChainAbort
    \/ \E fFlush \in BOOLEAN : SetBestChainConnect(fFlush)
    \/ SyncIndex
    \/ FlushAbort
    \/ FlushCoins
    \/ SetBestChainCommit
    \/ ConnectBestBlockDone
    \/ ConnectBestBlockFailed
    \/ StartupFailed
    \/ \E b \in Block \ {Genesis} : AcceptOrphanBlock(b)
    \/ NextInQueue

Next ==
    \/ Step
    \/ \E b \in Block \ {Genesis} : ProcessBlock(b) \/ ProcessOrphanBlock(b)
    \/ Shutdown \/ Crash \/ PowerLoss
    \/ LoadBlockIndexDB \/ LoadWithoutTip \/ Reindex

(* A call of ProcessBlock does not stop in the middle of its own accord.   *)
Spec == Init /\ [][Next]_vars /\ WF_vars(Step)

-----------------------------------------------------------------------------
Flags == {"UNDO", "FAILED_VALID", "FAILED_CHILD"}

(* Type invariant; the candidates are indexed blocks.                      *)
TypeOK ==
    /\ DOMAIN nStatus \subseteq Block /\ \A b \in DOMAIN nStatus : nStatus[b] \subseteq Flags
    /\ setBlockIndexValid \subseteq DOMAIN nStatus
    /\ {pindexBest, coinsTip} \subseteq DOMAIN nStatus
    /\ pnext \in [Block -> Block \cup {None}]
    /\ mapOrphanBlocks \subseteq Block \ DOMAIN nStatus
    /\ pc \in {"idle", "connect", "switch", "sync", "flush", "commit", "failed", "drain",
              "down", "lost"}

(* The successor pointers describe the best chain and nothing else, after  *)
(* any sequence of reorganisations and restarts: IsInMainChain() and the   *)
(* walk of ConnectBestBlock trust them.  Not so once the node has decided  *)
(* to shut down because a flush failed: pcoinsTip is then ahead.           *)
PnextIsBestChain ==
    fRequestShutdown \/
    \A d \in Block : pnext[d] = IF \E c \in BestChain \ {Genesis} : Parent[c] = d
                                THEN CHOOSE c \in BestChain \ {Genesis} : Parent[c] = d
                                ELSE None

(* Between calls the coins are those of the tip, however many switches     *)
(* have failed half-way - except when a flush to disk failed, and then the *)
(* node is shutting down.                                                  *)
CoinsAtTip == pc \in {"idle", "drain"} => coinsTip = pindexBest \/ fRequestShutdown

(* Every block of the best chain is valid, is not marked failed and has    *)
(* undo data, so that a later reorganisation can take it out again.        *)
BestChainValid ==
    \A b \in BestChain \ {Genesis} : b \notin BadBlock /\ ~Failed(b) /\ "UNDO" \in nStatus[b]

(* When the last ConnectBestBlock returned true, no indexed block that is  *)
(* valid with all its ancestors has more work than the tip - whatever was  *)
(* received before, in whatever order, and marked failed meanwhile.        *)
BestHasMostWork ==
    pc = "idle" /\ fConnected =>
        \A b \in DOMAIN nStatus :
            Ancestors(b) \cap BadBlock = {} => nChainWork[b] <= nChainWork[pindexBest]

(* A failed mark, in memory or on disk, is deserved: the block or an       *)
(* ancestor of it is invalid.  It is never taken back, so a wrong one      *)
(* would cut the node off from that branch for good.                       *)
ValidNeverFailed ==
    /\ \A b \in DOMAIN nStatus : Failed(b) => Ancestors(b) \cap BadBlock # {}
    /\ \A b \in DOMAIN FoundIndex :
          FoundIndex[b] \cap {"FAILED_VALID", "FAILED_CHILD"} # {} => Ancestors(b) \cap BadBlock # {}

(* Any state of the coin database that a power failure can leave behind    *)
(* has its whole chain, with undo data, in the durable part of the index:  *)
(* SetBestChain syncs the index before it flushes the coins, so start-up   *)
(* finds the tip.  The one exception is a Shutdown that leaves index       *)
(* writes unsynced.                                                        *)
CoinsNeverAheadOfIndex ==
    exposed \/ \A i \in DOMAIN coinsDB : \A b \in Ancestors(coinsDB[i]) \ {Genesis} :
                   b \in DOMAIN index /\ "UNDO" \in index[b]

(* No block waits in mapOrphanBlocks for a parent that is already indexed, *)
(* except when the parent's own AcceptBlock failed: then nothing will ever *)
(* try the orphan again.                                                   *)
OrphansWaitForParent ==
    pc = "idle" => \A b \in mapOrphanBlocks : Parent[b] \in DOMAIN nStatus => Parent[b] \in refused

(* The best chain only ever moves to more work while the node runs.        *)
WorkNeverDrops ==
    [][pc # "down" /\ pc' # "down" /\ pindexBest' # pindexBest
         => nChainWork[pindexBest'] > nChainWork[pindexBest]]_vars

(* ProcessBlock returns: neither the retry loop of ConnectBestBlock nor    *)
(* the orphan work queue goes round for ever.                              *)
CallReturns == pc \notin {"idle", "down", "lost"} ~> pc \in {"idle", "down"}
=============================================================================
