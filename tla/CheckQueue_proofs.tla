-------------------------- MODULE CheckQueue_proofs -------------------------
(* The script check queue for any number of workers and checks and any     *)
(* batch size: its counters are exact, no check is left when ConnectBlock  *)
(* has its answer, and the answer is that of the block's checks, so that   *)
(* every step of the threads is a step of ScriptVerdict or none.           *)
EXTENDS CheckQueue, FiniteSetTheorems, TLAPS

(* Threads that nTotal counts and nIdle does not.                          *)
Active == {t \in Thread : pc[t] \in {"test", "check"} \/ (pc[t] = "top" /\ batch[t] # {})}

(* Threads in cond.wait, notified or not.                                  *)
Asleep == {t \in Thread : pc[t] \in {"wait", "woken"}}

(* nIdle covers the threads in cond.wait (an interrupted one stays counted *)
(* for good, so it may be more).                                           *)
IdleCovers == nIdle >= Cardinality(Asleep)

(* vChecks is filled by Take and emptied by Report, and is not empty while *)
(* its checks run.                                                         *)
BatchInLoop ==
    \A t \in Thread : /\ batch[t] # {} => pc[t] \in {"check", "top"}
                      /\ pc[t] = "check" => batch[t] # {}

(* What waits or runs belongs to the current block.                        *)
OutstandingAdded == Outstanding \subseteq added

(* A verdict that is false has a reason in the current block ...           *)
FailureHasReason ==
    /\ ~fAllOk => added \cap Bad # {}
    /\ \A t \in Thread : batch[t] # {} /\ ~fOk[t] => added \cap Bad # {}

(* ... and a bad check of the current block is not forgotten: it waits, is *)
(* about to run, or has made the verdict of its thread or of all false.    *)
BadRemembered ==
    pc[Master] # "out" /\ fAllOk =>
        \A c \in added \cap Bad :
            c \in queue \/ \E t \in Thread : c \in batch[t] /\ (pc[t] = "check" \/ ~fOk[t])

CountInv == TypeOK /\ CountersExact /\ IdleCovers /\ BatchInLoop
VerdictInv == NoCheckOutlivesBlock /\ OutstandingAdded /\ FailureHasReason /\ BadRemembered
-----------------------------------------------------------------------------
(* Threads and checks are finitely many.                                   *)
LEMMA Finite ==
    /\ IsFiniteSet(Thread)
    /\ \A S \in SUBSET Thread : IsFiniteSet(S) /\ Cardinality(S) \in Nat
    /\ \A S \in SUBSET Check : IsFiniteSet(S) /\ Cardinality(S) \in Nat
    <1>1. IsFiniteSet(Thread)
        BY QueueAssumption, FS_AddElement DEF Thread
    <1> QED BY <1>1, QueueAssumption, FS_Subset, FS_CardinalityType

(* One thread more, one thread less.                                       *)
LEMMA OneMore ==
    ASSUME NEW S \in SUBSET Thread, NEW t \in Thread, t \notin S
    PROVE  Cardinality(S \cup {t}) = Cardinality(S) + 1
    BY Finite, FS_AddElement

LEMMA OneLess ==
    ASSUME NEW S \in SUBSET Thread, NEW t \in S
    PROVE  Cardinality(S \ {t}) = Cardinality(S) - 1 /\ Cardinality(S) >= 1
    <1>1. Cardinality(S \ {t}) = Cardinality(S) - 1 /\ Cardinality(S \ {t}) \in Nat
        BY Finite, FS_RemoveElement
    <1> QED BY <1>1, Finite

(* nNow, the size of the batch to take, is at least one.                   *)
LEMMA BatchNotEmpty ==
    ASSUME TypeOK PROVE BatchSize \in Int /\ BatchSize >= 1
    <1> DEFINE share == Cardinality(queue) \div (nTotal + nIdle + 1)
               cut == Min({nBatchSize, share})
    <1>1. share \in Int /\ nBatchSize \in Int
        BY Finite, QueueAssumption DEF TypeOK
    <1>2. \E x \in {nBatchSize, share} : \A y \in {nBatchSize, share} : x =< y
        BY <1>1
    <1>3. cut \in Int
        BY <1>1, <1>2 DEF Min
    <1> HIDE DEF cut
    <1>4. \E x \in {1, cut} : \A y \in {1, cut} : x >= y
        BY <1>3
    <1>5. Max({1, cut}) \in {1, cut} /\ Max({1, cut}) >= 1
        BY <1>3, <1>4 DEF Max
    <1> QED BY <1>3, <1>5 DEF BatchSize, cut

(* Every step of the threads keeps the counters exact.                     *)
LEMMA CountStep ==
    CountInv /\ OutstandingAdded /\ [Next]_vars => CountInv'
    <1> SUFFICES ASSUME CountInv, OutstandingAdded, [Next]_vars PROVE CountInv'
        OBVIOUS
    <1> USE DEF CountInv
    <1>1. /\ Active \in SUBSET Thread /\ Asleep \in SUBSET Thread
          /\ nTotal - nIdle = Cardinality(Active) /\ nIdle >= Cardinality(Asleep)
          /\ Cardinality(Active) \in Nat /\ Cardinality(Asleep) \in Nat
        BY Finite DEF Active, Asleep, CountersExact, IdleCovers
    <1>2. CASE StartBlock
        <2>1. Active' = Active /\ Asleep' = Asleep /\ Outstanding' = Outstanding
            BY <1>2 DEF StartBlock, counters, TypeOK, BatchInLoop, Active, Asleep, Outstanding, Held
        <2> QED
            BY <1>1, <1>2, <2>1 DEF StartBlock, counters, TypeOK, BatchInLoop, CountersExact, IdleCovers, Active
    <1>3. CASE Wait
        <2>1. Active' = Active /\ Asleep' = Asleep /\ Outstanding' = Outstanding
            BY <1>3 DEF Wait, counters, TypeOK, BatchInLoop, Active, Asleep, Outstanding, Held
        <2> QED
            BY <1>1, <1>3, <2>1 DEF Wait, counters, TypeOK, BatchInLoop, CountersExact, IdleCovers, Active
    <1>4. CASE InterruptAll
        <2>1. Active' = Active /\ Asleep' = Asleep /\ Outstanding' = Outstanding
            BY <1>4 DEF InterruptAll, Active, Asleep, Outstanding, Held
        <2> QED
            BY <1>1, <1>4, <2>1 DEF InterruptAll, counters, TypeOK, BatchInLoop, CountersExact, IdleCovers, Active
    <1>5. CASE UNCHANGED vars
        <2>1. Active' = Active /\ Asleep' = Asleep /\ Outstanding' = Outstanding
            BY <1>5 DEF vars, Active, Asleep, Outstanding, Held
        <2> QED
            BY <1>1, <1>5, <2>1 DEF vars, counters, TypeOK, BatchInLoop, CountersExact, IdleCovers, Active
    <1>6. CASE Return
        <2>1. Master \in Active /\ Active' = Active \ {Master} /\ Asleep' = Asleep
            BY <1>6 DEF Return, TypeOK, BatchInLoop, Active, Asleep, Thread
        <2>2. Outstanding' = Outstanding
            BY <1>6 DEF Return, Outstanding, Held
        <2>3. Cardinality(Active') = Cardinality(Active) - 1 /\ Cardinality(Active) >= 1
            BY <1>1, <2>1, OneLess
        <2> QED
            <3>1. TypeOK'
                <4>1. nTotal' \in Nat
                    BY <1>1, <1>6, <2>3 DEF Return, TypeOK
                <4>2. fAllOk' \in BOOLEAN /\ ret' \in BOOLEAN
                    BY <1>6 DEF Return, TypeOK
                <4> QED BY <1>6, <4>1, <4>2 DEF Return, TypeOK
            <3>2. BatchInLoop' /\ IdleCovers'
                BY <1>1, <1>6, <2>1 DEF Return, TypeOK, BatchInLoop, IdleCovers
            <3>3. CountersExact'
                <4>1. nTotal' - nIdle' = Cardinality(Active')
                    BY <1>1, <1>6, <2>3 DEF Return, TypeOK
                <4> QED BY <1>6, <2>2, <4>1 DEF Return, CountersExact, Active
            <3> QED BY <3>1, <3>2, <3>3
    <1>7. ASSUME NEW t \in Thread, SpuriousWakeup(t) PROVE CountInv'
        <2>1. Active' = Active /\ Asleep' = Asleep /\ Outstanding' = Outstanding
            BY <1>7 DEF SpuriousWakeup, counters, TypeOK, Active, Asleep, Outstanding, Held
        <2> QED
            BY <1>1, <1>7, <2>1 DEF SpuriousWakeup, counters, TypeOK, BatchInLoop, CountersExact, IdleCovers, Active
    <1>8. ASSUME NEW t \in Thread, Interrupted(t) PROVE CountInv'
        <2>1. Active' = Active /\ t \in Asleep /\ Asleep' = Asleep \ {t} /\ Outstanding' = Outstanding
            BY <1>8 DEF Interrupted, counters, TypeOK, BatchInLoop, Active, Asleep, Outstanding, Held
        <2>2. Cardinality(Asleep') = Cardinality(Asleep) - 1
            BY <1>1, <2>1, OneLess
        <2> QED
            <3>1. TypeOK'
                BY <1>8 DEF Interrupted, counters, TypeOK
            <3>2. BatchInLoop' /\ IdleCovers'
                BY <1>1, <1>8, <2>2 DEF Interrupted, counters, TypeOK, BatchInLoop, IdleCovers
            <3>3. CountersExact'
                BY <1>1, <1>8, <2>1 DEF Interrupted, counters, CountersExact, Active
            <3> QED BY <3>1, <3>2, <3>3
    <1>9. ASSUME NEW t \in Thread, Idle(t) PROVE CountInv'
        <2>1. /\ t \in Active /\ Active' = Active \ {t}
              /\ t \notin Asleep /\ Asleep' = Asleep \cup {t} /\ Outstanding' = Outstanding
            BY <1>9 DEF Idle, TypeOK, BatchInLoop, Active, Asleep, Outstanding, Held
        <2>2. /\ Cardinality(Active') = Cardinality(Active) - 1
              /\ Cardinality(Asleep') = Cardinality(Asleep) + 1
            BY <1>1, <2>1, OneLess, OneMore
        <2> QED
            BY <1>1, <1>9, <2>1, <2>2 DEF Idle, TypeOK, BatchInLoop, CountersExact, IdleCovers, Active
    <1>10. ASSUME NEW t \in Thread, Wake(t) PROVE CountInv'
        <2>1. /\ t \notin Active /\ Active' = Active \cup {t}
              /\ t \in Asleep /\ Asleep' = Asleep \ {t} /\ Outstanding' = Outstanding
            BY <1>10 DEF Wake, TypeOK, BatchInLoop, Active, Asleep, Outstanding, Held
        <2>2. /\ Cardinality(Active') = Cardinality(Active) + 1
              /\ Cardinality(Asleep') = Cardinality(Asleep) - 1 /\ Cardinality(Asleep) >= 1
            BY <1>1, <2>1, OneLess, OneMore
        <2> QED
            BY <1>1, <1>10, <2>1, <2>2 DEF Wake, TypeOK, BatchInLoop, CountersExact, IdleCovers, Active
    <1>11. ASSUME NEW t \in Thread, RunChecks(t) PROVE CountInv'
        <2>1. Active' = Active /\ Asleep' = Asleep /\ Outstanding' = Outstanding
            BY <1>11 DEF RunChecks, TypeOK, BatchInLoop, Active, Asleep, Outstanding, Held
        <2> QED
            BY <1>1, <1>11, <2>1 DEF RunChecks, counters, TypeOK, BatchInLoop, CountersExact, IdleCovers, Active

    <1>12. ASSUME NEW t \in Thread, Take(t) PROVE CountInv'
        <2>1. PICK taken \in kSubset(BatchSize, queue) :
                  batch' = [batch EXCEPT ![t] = taken] /\ queue' = queue \ taken
            BY <1>12 DEF Take
        <2>2. taken \subseteq queue /\ taken # {} /\ taken \in SUBSET Check
            <3>1. taken \subseteq queue /\ Cardinality(taken) = BatchSize
                BY <2>1 DEF kSubset
            <3>2. Cardinality(taken) >= 1
                BY <3>1, BatchNotEmpty
            <3> QED BY <3>1, <3>2, FS_EmptySet DEF TypeOK
        <2>3. batch[t] = {}
            BY <1>12 DEF Take, BatchInLoop
        <2>4. Active' = Active /\ Asleep' = Asleep
            BY <1>12, <2>1 DEF Take, TypeOK, BatchInLoop, Active, Asleep
        <2>5. Outstanding' = Outstanding
            <3>1. \A u \in Thread : batch'[u] = IF u = t THEN taken ELSE batch[u]
                BY <2>1 DEF TypeOK
            <3> QED BY <2>1, <2>2, <2>3, <3>1 DEF Outstanding, Held
        <2>6. TypeOK' /\ BatchInLoop' /\ IdleCovers'
            BY <1>1, <1>12, <2>1, <2>2, <2>4 DEF Take, counters, TypeOK, BatchInLoop, IdleCovers
        <2>7. /\ \A u \in Thread : batch'[u] \cap queue' = {}
              /\ \A u, v \in Thread : u # v => batch'[u] \cap batch'[v] = {}
            BY <2>1, <2>2 DEF TypeOK, CountersExact
        <2> QED
            BY <1>1, <1>12, <2>4, <2>5, <2>6, <2>7 DEF Take, counters, CountersExact, Active
    <1>13. ASSUME NEW t \in Thread, Report(t), batch[t] = {} PROVE CountInv'
        <2>1. /\ t \notin Active /\ Active' = Active \cup {t}
              /\ Asleep' = Asleep /\ Outstanding' = Outstanding
            BY <1>13 DEF Report, TypeOK, BatchInLoop, Active, Asleep, Outstanding, Held
        <2>2. Cardinality(Active') = Cardinality(Active) + 1
            BY <1>1, <2>1, OneMore
        <2> QED
            BY <1>1, <1>13, <2>1, <2>2 DEF Report, TypeOK, BatchInLoop, CountersExact, IdleCovers, Active
    <1>14. ASSUME NEW t \in Thread, Report(t), batch[t] # {} PROVE CountInv'
        <2>1. Active' = Active /\ Asleep' = Asleep
            BY <1>14 DEF Report, TypeOK, BatchInLoop, Active, Asleep
        <2>2. Outstanding' = Outstanding \ batch[t] /\ batch[t] \subseteq Outstanding
            <3>1. \A u \in Thread : batch'[u] = IF u = t THEN {} ELSE batch[u]
                BY <1>14 DEF Report, TypeOK
            <3>2. queue' = queue
                BY <1>14 DEF Report
            <3> QED BY <3>1, <3>2 DEF Outstanding, Held, CountersExact
        <2>3. Outstanding \in SUBSET Check
            BY DEF Outstanding, Held, TypeOK
        <2>4. Cardinality(Outstanding') = Cardinality(Outstanding) - Cardinality(batch[t])
            <3>1. Outstanding \cap batch[t] = batch[t]
                BY <2>2
            <3>2. IsFiniteSet(Outstanding)
                BY <2>3, Finite
            <3>3. Cardinality(Outstanding \ batch[t]) = Cardinality(Outstanding) - Cardinality(Outstanding \cap batch[t])
                BY <3>2, FS_Difference
            <3> QED BY <2>2, <3>1, <3>3
        <2>5. Cardinality(Outstanding') \in Nat
            BY <2>2, <2>3, Finite
        <2>6. nTodo' = Cardinality(Outstanding')
            BY <1>14, <2>4 DEF Report, CountersExact
        <2>7. TypeOK' /\ BatchInLoop' /\ IdleCovers'
            BY <1>1, <1>14, <2>1, <2>5, <2>6 DEF Report, TypeOK, BatchInLoop, IdleCovers
        <2>8. \A u \in Thread : batch'[u] \subseteq batch[u] /\ queue' = queue
            BY <1>14 DEF Report, TypeOK
        <2>9. /\ \A u \in Thread : batch'[u] \cap queue' = {}
              /\ \A u, v \in Thread : u # v => batch'[u] \cap batch'[v] = {}
            BY <2>8 DEF CountersExact
        <2>10. nTotal' - nIdle' = Cardinality(Active')
            BY <1>14, <2>1 DEF Report, CountersExact, Active
        <2>11. CountersExact'
            BY <2>6, <2>9, <2>10 DEF CountersExact, Active
        <2> QED BY <2>7, <2>11
    <1>15. ASSUME NEW checks \in SUBSET Check, Add(checks) PROVE CountInv'
        <2>1. PICK woken \in Notified(Cardinality(checks)) :
                  pc' = [t \in Thread |-> IF t \in woken THEN "woken" ELSE pc[t]]
            BY <1>15 DEF Add
        <2>2. woken \subseteq Waiting
            BY <2>1 DEF Notified
        <2>3. Active' = Active /\ Asleep' = Asleep
            BY <1>15, <2>1, <2>2 DEF Add, TypeOK, Waiting, Active, Asleep
        <2>4. Outstanding' = Outstanding \cup checks
            BY <1>15 DEF Add, Outstanding, Held
        <2>5. Outstanding \in SUBSET Check /\ Outstanding \cap checks = {}
            BY <1>15 DEF Outstanding, Held, TypeOK, OutstandingAdded, Add
        <2>6. Cardinality(Outstanding') = Cardinality(Outstanding) + Cardinality(checks)
            <3>1. IsFiniteSet(Outstanding) /\ IsFiniteSet(checks)
                  /\ Cardinality(Outstanding) \in Nat /\ Cardinality(checks) \in Nat
                BY <2>5, Finite
            <3>2. Cardinality(Outstanding \cup checks) =
                      Cardinality(Outstanding) + Cardinality(checks) - Cardinality(Outstanding \cap checks)
                BY <3>1, FS_Union
            <3> QED BY <2>4, <2>5, <3>1, <3>2, FS_EmptySet
        <2>7. TypeOK' /\ BatchInLoop' /\ IdleCovers'
            BY <1>1, <1>15, <2>1, <2>2, <2>3, Finite DEF Add, TypeOK, Waiting, BatchInLoop, IdleCovers
        <2>8. \A u \in Thread : batch'[u] \cap queue' = {}
            BY <1>15, <2>5 DEF Add, Outstanding, Held, CountersExact
        <2> QED
            BY <1>1, <1>15, <2>3, <2>6, <2>7, <2>8 DEF Add, CountersExact, Active
    <1> QED
        BY <1>2, <1>3, <1>4, <1>5, <1>6, <1>7, <1>8, <1>9, <1>10, <1>11, <1>12, <1>13, <1>14, <1>15
            DEF Next, Loop

(* The verdict of the current block is neither forged nor lost.            *)
LEMMA VerdictStep ==
    CountInv /\ VerdictInv /\ [Next]_vars => VerdictInv'
    <1> SUFFICES ASSUME CountInv, VerdictInv, [Next]_vars PROVE VerdictInv'
        OBVIOUS
    <1> USE DEF CountInv, VerdictInv
    <1>1. Master \in Thread
        BY DEF Thread
    <1>2. CASE StartBlock
        <2>1. Outstanding = {} /\ fAllOk /\ Outstanding' = Outstanding
            BY <1>2 DEF StartBlock, counters, NoCheckOutlivesBlock, Outstanding, Held
        <2>2. \A t \in Thread : batch[t] = {}
            BY <2>1 DEF Outstanding, Held
        <2> QED
            BY <1>1, <1>2, <2>1, <2>2 DEF StartBlock, counters, TypeOK, NoCheckOutlivesBlock,
                OutstandingAdded, FailureHasReason, BadRemembered
    <1>3. CASE Wait
        <2>1. Outstanding' = Outstanding /\ pc[Master] # "out" /\ pc'[Master] # "out"
            BY <1>1, <1>3 DEF Wait, TypeOK, Outstanding, Held
        <2> QED
            BY <1>3, <2>1 DEF Wait, counters, TypeOK, NoCheckOutlivesBlock,
                OutstandingAdded, FailureHasReason, BadRemembered
    <1>4. CASE InterruptAll \/ UNCHANGED vars
        BY <1>4 DEF InterruptAll, vars, counters, NoCheckOutlivesBlock,
            OutstandingAdded, FailureHasReason, BadRemembered, Outstanding, Held
    <1>5. CASE Return
        <2>1. Outstanding \in SUBSET Check
            BY DEF Outstanding, Held, TypeOK
        <2>2. Outstanding = {} /\ Outstanding' = Outstanding
            BY <1>5, <2>1, Finite, FS_EmptySet DEF Return, CountersExact, Outstanding, Held
        <2>3. \A t \in Thread : batch[t] = {}
            BY <2>2 DEF Outstanding, Held
        <2> QED
            BY <1>1, <1>5, <2>2, <2>3 DEF Return, TypeOK, NoCheckOutlivesBlock,
                OutstandingAdded, FailureHasReason, BadRemembered
    <1>6. ASSUME NEW t \in Thread, SpuriousWakeup(t) \/ Interrupted(t) \/ Idle(t) \/ Wake(t)
          PROVE  VerdictInv'
        <2>1. /\ UNCHANGED <<queue, batch, fOk, added, fAllOk>> /\ Outstanding' = Outstanding
              /\ batch[t] = {} /\ \A u \in Thread \ {t} : pc'[u] = pc[u]
              /\ pc[t] # "out" /\ pc'[t] # "out"
            BY <1>6 DEF SpuriousWakeup, Interrupted, Idle, Wake, counters, TypeOK, BatchInLoop, Outstanding, Held
        <2> QED
            BY <1>1, <2>1 DEF NoCheckOutlivesBlock, OutstandingAdded, FailureHasReason, BadRemembered
    <1>7. ASSUME NEW t \in Thread, RunChecks(t) PROVE VerdictInv'
        <2>1. /\ UNCHANGED <<queue, batch, added, fAllOk>> /\ Outstanding' = Outstanding
              /\ \A u \in Thread \ {t} : pc'[u] = pc[u] /\ fOk'[u] = fOk[u]
              /\ pc[t] = "check" /\ pc'[t] = "top"
              /\ fOk'[t] = (fOk[t] /\ batch[t] \cap Bad = {})
            BY <1>7 DEF RunChecks, counters, TypeOK, Outstanding, Held
        <2>2. batch[t] \subseteq added
            BY DEF OutstandingAdded, Outstanding, Held
        <2>3. FailureHasReason'
            BY <2>1, <2>2 DEF FailureHasReason
        <2>4. BadRemembered'
            <3> SUFFICES ASSUME pc'[Master] # "out", fAllOk', NEW c \in added \cap Bad, c \notin queue
                         PROVE  \E u \in Thread : c \in batch[u] /\ (pc'[u] = "check" \/ ~fOk'[u])
                BY <2>1 DEF BadRemembered
            <3>1. pc[Master] # "out" /\ fAllOk
                BY <1>1, <2>1
            <3>2. PICK u \in Thread : c \in batch[u] /\ (pc[u] = "check" \/ ~fOk[u])
                BY <3>1 DEF BadRemembered
            <3>3. CASE u = t
                BY <2>1, <3>2, <3>3
            <3>4. CASE u # t
                BY <2>1, <3>2, <3>4
            <3> QED BY <3>3, <3>4
        <2> QED
            BY <1>1, <2>1, <2>3, <2>4 DEF NoCheckOutlivesBlock, OutstandingAdded
    <1>8. ASSUME NEW t \in Thread, Take(t) PROVE VerdictInv'
        <2>1. PICK taken \in kSubset(BatchSize, queue) :
                  batch' = [batch EXCEPT ![t] = taken] /\ queue' = queue \ taken
            BY <1>8 DEF Take
        <2>2. taken \subseteq queue /\ batch[t] = {} /\ pc[t] = "test" /\ queue # {}
            BY <1>8, <2>1 DEF kSubset, Take, BatchInLoop
        <2>3. /\ UNCHANGED <<added, fAllOk>> /\ batch'[t] = taken
              /\ \A u \in Thread \ {t} : pc'[u] = pc[u] /\ batch'[u] = batch[u] /\ fOk'[u] = fOk[u]
              /\ pc'[t] = "check" /\ fOk'[t] = fAllOk
            BY <1>8, <2>1 DEF Take, counters, TypeOK
        <2>4. Outstanding' = Outstanding
            BY <2>1, <2>2, <2>3 DEF Outstanding, Held
        <2>5. pc[Master] # "out"
            BY <2>2 DEF NoCheckOutlivesBlock, Outstanding
        <2>6. FailureHasReason'
            BY <2>3 DEF FailureHasReason
        <2>7. BadRemembered'
            <3> SUFFICES ASSUME fAllOk, NEW c \in added \cap Bad
                         PROVE  c \in queue' \/ \E u \in Thread : c \in batch'[u] /\ (pc'[u] = "check" \/ ~fOk'[u])
                BY <2>3 DEF BadRemembered
            <3>1. c \in queue \/ \E u \in Thread : c \in batch[u] /\ (pc[u] = "check" \/ ~fOk[u])
                BY <2>5 DEF BadRemembered
            <3> QED BY <2>1, <2>2, <2>3, <3>1
        <2> QED
            BY <1>1, <2>2, <2>3, <2>4, <2>5, <2>6, <2>7 DEF NoCheckOutlivesBlock, OutstandingAdded
    <1>9. ASSUME NEW t \in Thread, Report(t) PROVE VerdictInv'
        <2>1. /\ UNCHANGED <<queue, added, fOk>> /\ batch'[t] = {} /\ pc'[t] = "test" /\ pc[t] = "top"
              /\ \A u \in Thread \ {t} : batch'[u] = batch[u]
              /\ \A u \in Thread : (pc'[u] = "check" <=> pc[u] = "check") /\ (pc'[u] = "out" <=> pc[u] = "out")
            BY <1>9 DEF Report, TypeOK
        <2>2. fAllOk' = IF batch[t] = {} THEN fAllOk ELSE fAllOk /\ fOk[t]
            BY <1>9 DEF Report
        <2>3. Outstanding' \subseteq Outstanding
            BY <2>1 DEF Outstanding, Held
        <2>4. NoCheckOutlivesBlock'
            <3>1. pc[Master] = "out" => batch[t] = {}
                BY DEF NoCheckOutlivesBlock, Outstanding, Held
            <3> QED BY <1>1, <2>1, <2>2, <2>3, <3>1 DEF NoCheckOutlivesBlock
        <2>5. FailureHasReason'
            BY <2>1, <2>2 DEF FailureHasReason
        <2>6. BadRemembered'
            <3> SUFFICES ASSUME pc[Master] # "out", fAllOk', NEW c \in added \cap Bad
                         PROVE  c \in queue' \/ \E u \in Thread : c \in batch'[u] /\ (pc'[u] = "check" \/ ~fOk'[u])
                BY <1>1, <2>1 DEF BadRemembered
            <3>1. c \in queue \/ \E u \in Thread : c \in batch[u] /\ (pc[u] = "check" \/ ~fOk[u])
                BY <2>2 DEF BadRemembered
            <3> QED BY <2>1, <2>2, <3>1
        <2> QED
            BY <2>1, <2>3, <2>4, <2>5, <2>6 DEF OutstandingAdded
    <1>10. ASSUME NEW checks \in SUBSET Check, Add(checks) PROVE VerdictInv'
        <2>1. PICK woken \in Notified(Cardinality(checks)) :
                  pc' = [t \in Thread |-> IF t \in woken THEN "woken" ELSE pc[t]]
            BY <1>10 DEF Add
        <2>2. woken \subseteq Waiting \cap Worker
            BY <2>1 DEF Notified
        <2>3. /\ UNCHANGED <<batch, fOk, fAllOk>> /\ queue' = queue \cup checks /\ added' = added \cup checks
              /\ pc[Master] = "adding" /\ pc'[Master] = "adding"
              /\ \A t \in Thread : pc'[t] = "check" <=> pc[t] = "check"
            BY <1>1, <1>10, <2>1, <2>2, QueueAssumption DEF Add, Waiting
        <2>4. Outstanding' = Outstanding \cup checks
            BY <2>3 DEF Outstanding, Held
        <2> QED
            BY <2>3, <2>4 DEF NoCheckOutlivesBlock, OutstandingAdded, FailureHasReason, BadRemembered
    <1> QED
        BY <1>2, <1>3, <1>4, <1>5, <1>6, <1>7, <1>8, <1>9, <1>10 DEF Next, Loop

(* Nothing is counted, waits or runs at first.                             *)
LEMMA InitInv == Init => CountInv /\ VerdictInv
    <1> SUFFICES ASSUME Init PROVE CountInv /\ VerdictInv
        OBVIOUS
    <1> USE DEF Init
    <1>1. Outstanding = {} /\ Active = {} /\ Asleep = {}
        BY DEF Outstanding, Held, Active, Asleep
    <1>2. Cardinality({}) = 0
        BY FS_EmptySet
    <1>3. TypeOK
        BY DEF TypeOK
    <1>4. BatchInLoop
        BY DEF BatchInLoop
    <1>5. CountersExact /\ IdleCovers
        BY <1>1, <1>2 DEF CountersExact, IdleCovers, Active
    <1>6. VerdictInv
        BY <1>1 DEF VerdictInv, NoCheckOutlivesBlock, OutstandingAdded, FailureHasReason, BadRemembered
    <1> QED BY <1>3, <1>4, <1>5, <1>6 DEF CountInv

(* The inductive invariant holds for ever.                                 *)
LEMMA InvariantHolds == Spec => [](CountInv /\ VerdictInv)
    <1>1. CountInv /\ VerdictInv /\ [Next]_vars => (CountInv /\ VerdictInv)'
        BY CountStep, VerdictStep DEF VerdictInv
    <1> QED BY <1>1, InitInv, PTL DEF Spec

(* The variables of checkqueue.h keep their types; no unsigned counter     *)
(* ever goes below zero.                                                   *)
THEOREM TypeCorrect == Spec => []TypeOK
    <1>1. CountInv => TypeOK
        BY DEF CountInv
    <1> QED BY <1>1, InvariantHolds, PTL

(* nTodo is the number of checks that wait or are in some thread's hands,  *)
(* each held once, and nTotal less nIdle the number of threads at work,    *)
(* after any sequence of batches, wake-ups and interruptions.              *)
THEOREM CountersAreExact == Spec => []CountersExact
    <1>1. CountInv => CountersExact
        BY DEF CountInv
    <1> QED BY <1>1, InvariantHolds, PTL

(* When ConnectBlock has its answer no check of the block is queued or in  *)
(* a worker's hands, and the queue is ready for the next block.            *)
THEOREM ChecksEndWithBlock == Spec => []NoCheckOutlivesBlock
    <1>1. VerdictInv => NoCheckOutlivesBlock
        BY DEF VerdictInv
    <1> QED BY <1>1, InvariantHolds, PTL

-----------------------------------------------------------------------------
(* Every step of a thread is a step of ScriptVerdict, or invisible there.  *)
LEMMA VerdictSimulation ==
    CountInv /\ VerdictInv /\ [Next]_vars => [V!Next]_(V!vars)
    <1> SUFFICES ASSUME CountInv, VerdictInv, [Next]_vars PROVE [V!Next]_(V!vars)
        OBVIOUS
    <1> USE DEF CountInv, VerdictInv
    <1>1. Master \in Thread
        BY DEF Thread
    <1>2. CASE StartBlock
        BY <1>1, <1>2 DEF StartBlock, TypeOK, V!Next, V!Begin
    <1>3. CASE Wait
        BY <1>1, <1>3 DEF Wait, TypeOK, V!Next, V!Finish
    <1>4. CASE Return
        <2>1. Outstanding \in SUBSET Check
            BY DEF Outstanding, Held, TypeOK
        <2>2. Outstanding = {}
            BY <1>4, <2>1, Finite, FS_EmptySet DEF Return, CountersExact
        <2>3. fAllOk = (added \cap Bad = {})
            BY <1>4, <2>2 DEF Return, TypeOK, FailureHasReason, BadRemembered, Outstanding, Held
        <2> QED BY <1>1, <1>4, <2>3 DEF Return, TypeOK, V!Next, V!Answer
    <1>5. ASSUME NEW checks \in SUBSET Check, Add(checks) PROVE [V!Next]_(V!vars)
        <2>1. PICK woken \in Notified(Cardinality(checks)) :
                  pc' = [t \in Thread |-> IF t \in woken THEN "woken" ELSE pc[t]]
            BY <1>5 DEF Add
        <2>2. Master \notin woken
            BY <2>1, QueueAssumption DEF Notified
        <2>3. pc[Master] = "adding" /\ pc'[Master] = "adding" /\ ret' = ret
            BY <1>1, <1>5, <2>1, <2>2 DEF Add
        <2>4. checks \in SUBSET (Check \ added) /\ added' = added \cup checks
            BY <1>5 DEF Add
        <2> QED BY <2>3, <2>4 DEF V!Next, V!Submit
    <1>6. ASSUME NEW t \in Thread, Loop(t) \/ SpuriousWakeup(t) \/ Interrupted(t)
          PROVE  UNCHANGED V!vars
        <2>1. added' = added /\ ret' = ret
            BY <1>6 DEF Loop, Report, Idle, Wake, Take, RunChecks, SpuriousWakeup, Interrupted
        <2>2. pc[Master] \in {"out", "adding"} => pc'[Master] = pc[Master]
            BY <1>1, <1>6 DEF Loop, Report, Idle, Wake, Take, RunChecks, SpuriousWakeup, Interrupted, TypeOK
        <2>3. pc[Master] \notin {"out", "adding"} => pc'[Master] \notin {"out", "adding"}
            BY <1>1, <1>6 DEF Loop, Report, Idle, Wake, Take, RunChecks, SpuriousWakeup, Interrupted, TypeOK
        <2> QED BY <2>1, <2>2, <2>3 DEF V!vars
    <1>7. CASE InterruptAll \/ UNCHANGED vars
        BY <1>7 DEF InterruptAll, vars, V!vars
    <1> QED
        BY <1>2, <1>3, <1>4, <1>5, <1>6, <1>7 DEF Next

(* The answer ConnectBlock gets is that of all the checks of its block and *)
(* of no others: the queue implements ScriptVerdict, but for the promise   *)
(* that the answer comes, which is a matter of fairness.                   *)
THEOREM AnswersTheBlock == Spec => V!Init /\ [][V!Next]_(V!vars)
    <1>1. Init => V!Init
        BY DEF Init, V!Init, Thread
    <1> QED BY <1>1, VerdictSimulation, InvariantHolds, PTL DEF Spec

-----------------------------------------------------------------------------
(* No wake-up of the master is lost: while it waits, unnotified, nothing   *)
(* is left to take and some thread holds a batch, so that the thread that  *)
(* reports last finds nTodo == 0 and notifies it.                          *)
MasterWaitsForReport ==
    pc[Master] = "wait" => queue = {} /\ \E t \in Thread : batch[t] # {}

(* ConnectBlock never waits for a report that has been made already or     *)
(* that nobody is going to make.                                           *)
THEOREM NoLostWakeup == Spec => []MasterWaitsForReport
    <1>1. Init => MasterWaitsForReport
        BY DEF Init, MasterWaitsForReport, Thread
    <1>2. CountInv /\ MasterWaitsForReport /\ [Next]_vars => MasterWaitsForReport'
        <2> SUFFICES ASSUME CountInv, MasterWaitsForReport, [Next]_vars, pc'[Master] = "wait"
                     PROVE  queue' = {} /\ \E t \in Thread : batch'[t] # {}
            BY DEF MasterWaitsForReport
        <2> USE DEF CountInv
        <2>1. Master \in Thread
            BY DEF Thread
        <2>2. ASSUME NEW t \in Thread, Report(t) PROVE queue' = {} /\ \E u \in Thread : batch'[u] # {}
            <3>1. pc[Master] = "wait" /\ t # Master
                BY <2>1, <2>2 DEF Report, TypeOK
            <3>2. queue = {} /\ queue' = queue /\ \A u \in Thread \ {t} : batch'[u] = batch[u]
                BY <2>2, <3>1 DEF Report, TypeOK, MasterWaitsForReport
            <3>3. CASE batch[t] = {}
                BY <3>1, <3>2, <3>3 DEF MasterWaitsForReport
            <3>4. CASE batch[t] # {}
                <4>1. nTodo' = nTodo - Cardinality(batch[t]) /\ nTodo' # 0
                    BY <2>1, <2>2, <3>1, <3>4 DEF Report, TypeOK
                <4>2. SUFFICES ASSUME \A u \in Thread \ {t} : batch[u] = {} PROVE FALSE
                    BY <3>2
                <4>3. Outstanding = batch[t]
                    BY <3>2, <4>2 DEF Outstanding, Held
                <4> QED BY <4>1, <4>3, Finite DEF CountersExact, TypeOK
            <3> QED BY <3>3, <3>4
        <2>3. CASE Idle(Master)
            <3>1. queue = {} /\ queue' = {} /\ batch' = batch /\ nTodo # 0
                BY <2>3 DEF Idle
            <3>2. Outstanding # {}
                BY <3>1, FS_EmptySet DEF CountersExact
            <3> QED BY <3>1, <3>2 DEF Outstanding, Held
        <2>4. ASSUME NEW t \in Thread, Take(t) PROVE FALSE
            BY <2>1, <2>4 DEF Take, TypeOK, MasterWaitsForReport
        <2>5. ASSUME NEW t \in Thread,
                     \/ Idle(t) /\ t # Master
                     \/ Wake(t) \/ RunChecks(t) \/ SpuriousWakeup(t) \/ Interrupted(t)
              PROVE  queue' = {} /\ \E u \in Thread : batch'[u] # {}
            <3>1. pc[Master] = "wait" /\ UNCHANGED <<queue, batch>>
                BY <2>1, <2>5 DEF Idle, Wake, RunChecks, SpuriousWakeup, Interrupted, TypeOK
            <3> QED BY <3>1 DEF MasterWaitsForReport
        <2>6. ASSUME NEW checks \in SUBSET Check, Add(checks) PROVE FALSE
            <3>1. PICK woken \in Notified(Cardinality(checks)) :
                      pc' = [t \in Thread |-> IF t \in woken THEN "woken" ELSE pc[t]]
                BY <2>6 DEF Add
            <3> QED BY <2>1, <2>6, <3>1 DEF Add
        <2>7. CASE StartBlock \/ Wait \/ Return
            BY <2>1, <2>7 DEF StartBlock, Wait, Return, TypeOK
        <2>8. CASE InterruptAll \/ UNCHANGED vars
            BY <2>8 DEF InterruptAll, vars, MasterWaitsForReport
        <2> QED
            BY <2>2, <2>3, <2>4, <2>5, <2>6, <2>7, <2>8 DEF Next, Loop
    <1> QED BY <1>1, <1>2, InvariantHolds, PTL DEF Spec
=============================================================================
