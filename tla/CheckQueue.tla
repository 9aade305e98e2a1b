----------------------------- MODULE CheckQueue -----------------------------
(***************************************************************************)
(* The script check queue (checkqueue.h): worker threads and the thread    *)
(* that connects a block, the master, share a queue of checks and four     *)
(* counters under one mutex.                                               *)
(*                                                                         *)
(* The body of Loop's critical section is split where a thread that does   *)
(* not hold the mutex can see the difference: the constructor of           *)
(* CCheckQueueControl reads the counters without it.  Which checks of the  *)
(* queue a thread takes first is left open.                                *)
(*                                                                         *)
(* Line 85 of checkqueue.h, between nIdle++ and nIdle--, is blank in the   *)
(* text.  It is read as the wait on cond: line 54 declares cond for it,    *)
(* and lines 68, 136 and 138 notify it.                                    *)
(***************************************************************************)
EXTENDS Integers, FiniteSets, FiniteSetsExt

CONSTANTS
    Worker,      \* script check threads
    Master,      \* the thread in ConnectBlock
    Check,       \* script checks
    Bad,         \* those that return false
    nBatchSize

Thread == Worker \cup {Master}
None == "none"

ASSUME QueueAssumption ==
    /\ IsFiniteSet(Worker) /\ Master \notin Worker /\ None \notin Thread
    /\ IsFiniteSet(Check) /\ Bad \subseteq Check
    /\ nBatchSize \in Nat \ {0}

VARIABLES
    mutex,       \* the thread that holds it, or None
    queue,       \* checks nobody has taken
    nIdle, nTotal, nTodo, fAllOk,
    pc,          \* where each thread is
    batch,       \* each thread's vChecks, until it has reported them
    fOk,         \* each thread's verdict on its batch
    interrupted, \* threads with a pending interruption (shutdown)
    added,       \* history: checks added for the current block
    ret          \* the answer of the last Wait

counters == <<nIdle, nTotal, nTodo, fAllOk>>
vars == <<mutex, queue, counters, pc, batch, fOk, interrupted, added, ret>>

Waiting == {t \in Thread : pc[t] = "wait"}

(* notify_one and notify_all on condWorker: a thread that is not waiting   *)
(* hears nothing.                                                          *)
Notified(n) ==
    LET idle == Waiting \cap Worker
    IN  IF n = 0 \/ idle = {} THEN {{}} ELSE IF n = 1 THEN {{w} : w \in idle} ELSE {idle}

-----------------------------------------------------------------------------
(* ConnectBlock constructs the control object (no lock is taken).          *)
StartBlock ==
    /\ pc[Master] = "out"
    /\ pc' = [pc EXCEPT ![Master] = "adding"]
    /\ added' = {}
    /\ UNCHANGED <<mutex, queue, counters, batch, fOk, interrupted, ret>>

(* CCheckQueue::Add, one transaction's checks at a time.                   *)
Add(checks) ==
    /\ pc[Master] = "adding" /\ mutex = None
    /\ checks \cap added = {}
    /\ queue' = queue \cup checks
    /\ nTodo' = nTodo + Cardinality(checks)
    /\ added' = added \cup checks
    /\ \E woken \in Notified(Cardinality(checks)) :
          pc' = [t \in Thread |-> IF t \in woken THEN "woken" ELSE pc[t]]
    /\ UNCHANGED <<mutex, nIdle, nTotal, fAllOk, batch, fOk, interrupted, ret>>

(* control.Wait(), or the destructor's when ConnectBlock returns early.    *)
Wait ==
    /\ pc[Master] = "adding"
    /\ pc' = [pc EXCEPT ![Master] = "top"]
    /\ UNCHANGED <<mutex, queue, counters, batch, fOk, interrupted, added, ret>>

-----------------------------------------------------------------------------
(* Faulty form: the results are reported with no notification.             *)
ReportSilently(t) ==
    /\ pc[t] = "top" /\ mutex = None
    /\ mutex' = t
    /\ IF batch[t] # {}
       THEN /\ fAllOk' = (fAllOk /\ fOk[t])
            /\ nTodo' = nTodo - Cardinality(batch[t])
            /\ UNCHANGED nTotal
       ELSE nTotal' = nTotal + 1 /\ UNCHANGED <<fAllOk, nTodo>>
    /\ pc' = [pc EXCEPT ![t] = "test"]
    /\ batch' = [batch EXCEPT ![t] = {}]
    /\ UNCHANGED <<queue, nIdle, fOk, interrupted, added, ret>>

(* The top of Loop: take the mutex, report the last batch, or be counted.  *)
Report(t) ==
    /\ pc[t] = "top" /\ mutex = None
    /\ mutex' = t
    /\ IF batch[t] # {}
       THEN /\ fAllOk' = (fAllOk /\ fOk[t])
            /\ nTodo' = nTodo - Cardinality(batch[t])
            /\ UNCHANGED nTotal
            /\ pc' = [u \in Thread |->
                         IF u = t THEN "test"
                         ELSE IF u = Master /\ pc[u] = "wait" /\ nTodo' = 0 THEN "woken"
                         ELSE pc[u]]
       ELSE /\ nTotal' = nTotal + 1
            /\ pc' = [pc EXCEPT ![t] = "test"]
            /\ UNCHANGED <<fAllOk, nTodo>>
    /\ batch' = [batch EXCEPT ![t] = {}]
    /\ UNCHANGED <<queue, nIdle, fOk, interrupted, added, ret>>

(* Faulty form: an empty queue is enough.                                  *)
ReturnWhenEmpty ==
    /\ pc[Master] = "test" /\ queue = {}
    /\ nTotal' = nTotal - 1
    /\ ret' = fAllOk
    /\ fAllOk' = TRUE
    /\ mutex' = None
    /\ pc' = [pc EXCEPT ![Master] = "out"]
    /\ UNCHANGED <<queue, nIdle, nTodo, batch, fOk, interrupted, added>>

(* The master's Loop returns.  (fQuit is never set: no worker's does.)     *)
Return ==
    /\ pc[Master] = "test" /\ queue = {} /\ nTodo = 0
    /\ nTotal' = nTotal - 1
    /\ ret' = fAllOk
    /\ fAllOk' = TRUE
    /\ mutex' = None
    /\ pc' = [pc EXCEPT ![Master] = "out"]
    /\ UNCHANGED <<queue, nIdle, nTodo, batch, fOk, interrupted, added>>

(* Faulty form: the thread is not counted as idle.                         *)
IdleUncounted(t) ==
    /\ pc[t] = "test" /\ queue = {}
    /\ ~(t = Master /\ nTodo = 0)
    /\ pc' = [pc EXCEPT ![t] = "wait"]
    /\ mutex' = None
    /\ UNCHANGED <<queue, counters, batch, fOk, interrupted, added, ret>>

(* Nothing to take: nIdle++, and cond.wait releases the mutex.             *)
Idle(t) ==
    /\ pc[t] = "test" /\ queue = {}
    /\ ~(t = Master /\ nTodo = 0)
    /\ nIdle' = nIdle + 1
    /\ pc' = [pc EXCEPT ![t] = "wait"]
    /\ mutex' = None
    /\ UNCHANGED <<queue, nTotal, nTodo, fAllOk, batch, fOk, interrupted, added, ret>>

(* cond.wait has the mutex back: nIdle--.                                  *)
Wake(t) ==
    /\ pc[t] = "woken" /\ mutex = None
    /\ mutex' = t
    /\ nIdle' = nIdle - 1
    /\ pc' = [pc EXCEPT ![t] = "test"]
    /\ UNCHANGED <<queue, nTotal, nTodo, fAllOk, batch, fOk, interrupted, added, ret>>

(* condition_variable::wait may return without a notification.             *)
SpuriousWakeup(t) ==
    /\ pc[t] = "wait"
    /\ pc' = [pc EXCEPT ![t] = "woken"]
    /\ UNCHANGED <<mutex, queue, counters, batch, fOk, interrupted, added, ret>>

BatchSize == Max({1, Min({nBatchSize, Cardinality(queue) \div (nTotal + nIdle + 1)})})

(* Faulty form: the checks taken stay in the queue.                        *)
TakeKeeping(t) ==
    /\ pc[t] = "test" /\ queue # {}
    /\ \E taken \in kSubset(BatchSize, queue) :
          /\ batch' = [batch EXCEPT ![t] = taken]
          /\ UNCHANGED queue
    /\ fOk' = [fOk EXCEPT ![t] = fAllOk]
    /\ mutex' = None
    /\ pc' = [pc EXCEPT ![t] = "check"]
    /\ UNCHANGED <<counters, interrupted, added, ret>>

(* Take a batch and release the mutex.                                     *)
Take(t) ==
    /\ pc[t] = "test" /\ queue # {}
    /\ \E taken \in kSubset(BatchSize, queue) :
          /\ batch' = [batch EXCEPT ![t] = taken]
          /\ queue' = queue \ taken
    /\ fOk' = [fOk EXCEPT ![t] = fAllOk]
    /\ mutex' = None
    /\ pc' = [pc EXCEPT ![t] = "check"]
    /\ UNCHANGED <<counters, interrupted, added, ret>>

(* Run the checks, without the mutex; after a failure they are skipped.    *)
RunChecks(t) ==
    /\ pc[t] = "check"
    /\ fOk' = [fOk EXCEPT ![t] = @ /\ batch[t] \cap Bad = {}]
    /\ pc' = [pc EXCEPT ![t] = "top"]
    /\ UNCHANGED <<mutex, queue, counters, batch, interrupted, added, ret>>

-----------------------------------------------------------------------------
(* Shutdown: threadGroup.interrupt_all(), once.                            *)
InterruptAll ==
    /\ interrupted = {} /\ \A w \in Worker : pc[w] # "dead"
    /\ interrupted' = Thread
    /\ UNCHANGED <<mutex, queue, counters, pc, batch, fOk, added, ret>>

(* cond.wait throws thread_interrupted with the mutex relocked; nIdle-- is *)
(* skipped.  A worker ends.  The master unwinds ConnectBlock, and the      *)
(* control object's destructor waits again.                                *)
Interrupted(t) ==
    /\ t \in interrupted /\ pc[t] \in {"wait", "woken"} /\ mutex = None
    /\ interrupted' = interrupted \ {t}
    /\ pc' = [pc EXCEPT ![t] = IF t = Master THEN "top" ELSE "dead"]
    /\ UNCHANGED <<mutex, queue, counters, batch, fOk, added, ret>>

-----------------------------------------------------------------------------
Init ==
    /\ mutex = None /\ queue = {}
    /\ nIdle = 0 /\ nTotal = 0 /\ nTodo = 0 /\ fAllOk = TRUE
    /\ pc = [t \in Thread |-> IF t = Master THEN "out" ELSE "top"]
    /\ batch = [t \in Thread |-> {}]
    /\ fOk = [t \in Thread |-> TRUE]
    /\ interrupted = {} /\ added = {} /\ ret = TRUE

(* One turn of Loop.                                                       *)
Loop(t) == Report(t) \/ Idle(t) \/ Wake(t) \/ Take(t) \/ RunChecks(t)

Next ==
    \/ StartBlock
    \/ \E checks \in SUBSET Check : Add(checks)
    \/ Wait
    \/ Return
    \/ \E t \in Thread : Loop(t) \/ SpuriousWakeup(t) \/ Interrupted(t)
    \/ InterruptAll

(* The threads in Loop are scheduled; the mutex is not withheld for ever   *)
(* from one that asks for it again and again.  Nothing is assumed of       *)
(* spurious wake-ups, of shutdown and of how fast blocks come.             *)
Fairness ==
    /\ WF_vars(Return)
    /\ \A t \in Thread : SF_vars(Loop(t))

Spec == Init /\ [][Next]_vars /\ Fairness

-----------------------------------------------------------------------------
Held == UNION {batch[t] : t \in Thread}
Outstanding == queue \cup Held

(* Type invariant; the unsigned counter does not wrap.                     *)
TypeOK ==
    /\ mutex \in Thread \cup {None}
    /\ queue \in SUBSET Check /\ added \in SUBSET Check
    /\ nIdle \in Nat /\ nTotal \in Nat /\ nTodo \in Nat
    /\ fAllOk \in BOOLEAN /\ ret \in BOOLEAN
    /\ pc \in [Thread -> {"out", "adding", "top", "test", "wait", "woken", "check", "dead"}]
    /\ batch \in [Thread -> SUBSET Check]
    /\ fOk \in [Thread -> BOOLEAN]
    /\ interrupted \in SUBSET Thread

(* The counters are exact between critical sections.  nTodo counts the     *)
(* checks that wait in the queue or are in some thread's hands, each once, *)
(* so that the master's test nTodo == 0 means that all are done, however   *)
(* the batches were cut and reported; nTotal less nIdle is the number of   *)
(* threads at work, whatever wakes or interrupts them.                     *)
CountersExact ==
    /\ nTodo = Cardinality(Outstanding)
    /\ \A t \in Thread : batch[t] \cap queue = {}
    /\ \A t, u \in Thread : t # u => batch[t] \cap batch[u] = {}
    /\ nTotal - nIdle = Cardinality({t \in Thread :
           pc[t] \in {"test", "check"} \/ (pc[t] = "top" /\ batch[t] # {})})

(* No check outlives the control object of its block: a CScriptCheck holds *)
(* a pointer to a transaction of the block, so one that is still queued or *)
(* held by a worker when ConnectBlock has returned reads freed memory.     *)
NoCheckOutlivesBlock ==
    pc[Master] = "out" => Outstanding = {} /\ fAllOk

(* The assertions of CCheckQueueControl's constructor: no thread is at     *)
(* work when ConnectBlock makes its control object.  They read the two     *)
(* counters without the mutex.                                             *)
UnusedWhenStarted == [][StartBlock => nTotal = nIdle]_vars

(* The queue implements what ConnectBlock expects of it.                   *)
V == INSTANCE ScriptVerdict WITH
        phase     <- IF pc[Master] \in {"out", "adding"} THEN pc[Master] ELSE "waiting",
        submitted <- added,
        verdict   <- ret

(* The answer for a block is that of all its checks and of no other's,     *)
(* early returns and interruptions of the threads included, and it comes.  *)
ImplementsVerdict == V!Spec
=============================================================================
